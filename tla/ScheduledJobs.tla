---------------------------- MODULE ScheduledJobs ----------------------------
(*************************************************************************)
(* The scheduled jobs of one task: cron messages wake workers, a worker  *)
(* claims the execution key in the database, runs the operation and      *)
(* reports how it ended.                                                 *)
(*                                                                       *)
(* The key is computed from the time at which the worker starts, not     *)
(* from the slot of the message.  It is the date for the collecting jobs *)
(* and the minute for the order submission.  The claim is one upsert;    *)
(* the operation runs outside any transaction, for as long as it takes,  *)
(* and the lease is never renewed.                                       *)
(*************************************************************************)
EXTENDS Naturals

CONSTANTS
  Workers,   \* worker processes, consumers of one queue
  Slots,     \* the times the schedule names
  KeySpan,   \* the time one execution key stands for
  Lease,     \* the time a claim is valid for
  MaxTime,   \* bound: the clock stops here
  MaxRuns,   \* bound: messages that are taken up
  MaxFaults  \* bound: crashes and exceptions that leave the operation

ASSUME ScheduledAssumption ==
  /\ KeySpan \in Nat \ {0} /\ Lease \in Nat \ {0}
  /\ MaxTime \in Nat /\ MaxRuns \in Nat /\ MaxFaults \in Nat
  /\ Slots \subseteq 0..MaxTime

VARIABLES
  ledger,   \* the rows of scheduled_job_run: [state, owner, expires, attempts]
  now,      \* the clock
  worker,   \* worker[w]: what worker w is doing
  tokens,   \* how many owner tokens were drawn
  runs,     \* history: runs[s] counts the operations of slot s that succeeded
  reporter, \* history: reporter[k] is the run whose report key k last took
  faults

vars == <<ledger, now, worker, tokens, runs, reporter, faults>>

Times == 0..MaxTime

\* submission_job, investor_flow_job, _krx_job: the start, rounded to a key.
Key(started) == started \div KeySpan

Keys == {Key(t) : t \in Times}

Tokens == 1..MaxRuns

NoToken == 0

Results == {"succeeded", "conflict", "failed"}

NoRow == [state |-> "none", owner |-> NoToken, expires |-> 0, attempts |-> 0]

Row == [state : Results \cup {"none", "running"}, owner : Tokens \cup {NoToken},
        expires : 0..(MaxTime + Lease), attempts : Nat]

\* claim: about to claim;  run: inside the operation;  settle: about to report.
Phases == {"idle", "claim", "run", "settle", "down"}

Worker == [phase : Phases, slot : Times, started : Times,
           token : Tokens \cup {NoToken}, result : Results]

Resting == [phase |-> "idle", slot |-> 0, started |-> 0, token |-> NoToken,
            result |-> "failed"]

Active(w) == worker[w].phase \in {"run", "settle"}

KeyOf(w) == Key(worker[w].started)

Init ==
  /\ ledger = [k \in Keys |-> NoRow]
  /\ now = 0
  /\ worker = [w \in Workers |-> Resting]
  /\ tokens = 0
  /\ runs = [s \in Slots |-> 0]
  /\ reporter = [k \in Keys |-> NoToken]
  /\ faults = 0

-----------------------------------------------------------------------------
Tick ==
  /\ now < MaxTime
  /\ now' = now + 1
  /\ UNCHANGED <<ledger, worker, tokens, runs, reporter, faults>>

\* A message of a slot is taken up, late perhaps and perhaps for the second time:
\* the number of schedulers is not what keeps a slot from being published twice.
Start(w, s) ==
  /\ worker[w].phase = "idle"
  /\ s <= now
  /\ tokens < MaxRuns
  /\ tokens' = tokens + 1
  /\ worker' = [worker EXCEPT ![w] = [phase |-> "claim", slot |-> s, started |-> now,
                                      token |-> tokens + 1, result |-> "failed"]]
  /\ UNCHANGED <<ledger, now, runs, reporter, faults>>

\* Mutation: the takeover does not look at the lease.
ClaimableWhileLeased(record, started) == record.state \in {"none", "failed", "running"}

Claimable(record, started) ==
  \/ record.state \in {"none", "failed"}
  \/ record.state = "running" /\ record.expires <= started

\* Mutation: the expiry is written in another unit.
ClaimedInOtherUnit(record, w) ==
  [state |-> "running", owner |-> worker[w].token,
   expires |-> (worker[w].started + Lease) * 60, attempts |-> record.attempts + 1]

\* The row that the upsert leaves behind.
Claimed(record, w) ==
  [state |-> "running", owner |-> worker[w].token,
   expires |-> worker[w].started + Lease, attempts |-> record.attempts + 1]

Claim(w) ==
  /\ worker[w].phase = "claim"
  /\ Claimable(ledger[KeyOf(w)], worker[w].started)
  /\ ledger' = [ledger EXCEPT ![KeyOf(w)] = Claimed(@, w)]
  /\ worker' = [worker EXCEPT ![w].phase = "run"]
  /\ UNCHANGED <<now, tokens, runs, reporter, faults>>

Skip(w) ==
  /\ worker[w].phase = "claim"
  /\ ~ Claimable(ledger[KeyOf(w)], worker[w].started)
  /\ worker' = [worker EXCEPT ![w] = Resting]
  /\ UNCHANGED <<ledger, now, tokens, runs, reporter, faults>>

\* The operation comes back with its result.
Operate(w) ==
  /\ worker[w].phase = "run"
  /\ \E result \in Results :
       /\ worker' = [worker EXCEPT ![w].phase = "settle", ![w].result = result]
       /\ runs' = IF result = "succeeded"
                  THEN [runs EXCEPT ![worker[w].slot] = @ + 1] ELSE runs
  /\ UNCHANGED <<ledger, now, tokens, reporter, faults>>

\* Mutation: the report does not ask for the owner token.
OwnsByState(w) == ledger[KeyOf(w)].state = "running"

Owns(w) ==
  /\ ledger[KeyOf(w)].state = "running"
  /\ ledger[KeyOf(w)].owner = worker[w].token

\* complete and fail.
Settle(w) ==
  /\ worker[w].phase = "settle"
  /\ Owns(w)
  /\ ledger' = [ledger EXCEPT ![KeyOf(w)].state = worker[w].result]
  /\ reporter' = [reporter EXCEPT ![KeyOf(w)] = worker[w].token]
  /\ worker' = [worker EXCEPT ![w] = Resting]
  /\ UNCHANGED <<now, tokens, runs, faults>>

\* No row matched: ScheduledJobLeaseLostError, and nothing is written.
LoseLease(w) ==
  /\ worker[w].phase = "settle"
  /\ ~ Owns(w)
  /\ worker' = [worker EXCEPT ![w] = Resting]
  /\ UNCHANGED <<ledger, now, tokens, runs, reporter, faults>>

\* An exception leaves the operation: one that a collecting job does not list, or
\* one of _record_block, which stands outside the try of the submission job.
Escape(w) ==
  /\ worker[w].phase = "run"
  /\ faults < MaxFaults
  /\ faults' = faults + 1
  /\ worker' = [worker EXCEPT ![w] = Resting]
  /\ UNCHANGED <<ledger, now, tokens, runs, reporter>>

Crash(w) ==
  /\ worker[w].phase \in {"claim", "run", "settle"}
  /\ faults < MaxFaults
  /\ faults' = faults + 1
  /\ worker' = [worker EXCEPT ![w] = [Resting EXCEPT !.phase = "down"]]
  /\ UNCHANGED <<ledger, now, tokens, runs, reporter>>

Restart(w) ==
  /\ worker[w].phase = "down"
  /\ worker' = [worker EXCEPT ![w] = Resting]
  /\ UNCHANGED <<ledger, now, tokens, runs, reporter, faults>>

WorkerStep(w) ==
  \/ Claim(w) \/ Skip(w) \/ Operate(w) \/ Settle(w) \/ LoseLease(w)
  \/ Escape(w) \/ Crash(w) \/ Restart(w)

Next ==
  \/ Tick
  \/ \E w \in Workers : WorkerStep(w) \/ \E s \in Slots : Start(w, s)

Spec == Init /\ [][Next]_vars

\* A worker that took up a message goes on, and the clock does not stop before
\* its bound; no message, fault or restart is promised.
Fairness ==
  /\ WF_vars(Tick)
  /\ \A w \in Workers :
       WF_vars(Claim(w) \/ Skip(w) \/ Operate(w) \/ Settle(w) \/ LoseLease(w))

FairSpec == Spec /\ Fairness

-----------------------------------------------------------------------------
\* Types of the rows, the workers and the counters.
TypeOK ==
  /\ ledger \in [Keys -> Row]
  /\ now \in Times
  /\ worker \in [Workers -> Worker]
  /\ tokens \in 0..MaxRuns
  /\ runs \in [Slots -> Nat]
  /\ reporter \in [Keys -> Tokens \cup {NoToken}]
  /\ faults \in 0..MaxFaults

\* A valid lease is never taken away: a worker that is still at its operation holds
\* the row of its key, unless its lease has run out.  So two workers run the same
\* job side by side only after the first one's lease.
LeaseIsRespected ==
  \A w \in Workers : Active(w) => Owns(w) \/ worker[w].started + Lease <= now

\* The claims keep the promise of the abstract ledger: one holder at a time, who
\* alone says how the run ended; success and conflict are final.
Ledger == INSTANCE JobLedger WITH
  Holders  <- Tokens,
  outcome  <- [k \in Keys |-> ledger[k].state],
  holder   <- [k \in Keys |-> IF ledger[k].state = "running"
                              THEN ledger[k].owner ELSE NoToken],
  attempts <- [k \in Keys |-> ledger[k].attempts]

KeepsLedger == Ledger!LedgerSpec

\* A slot's messages, late and doubled as they may be, succeed once.
SlotSucceedsOnce == \A s \in Slots : runs[s] <= 1
=============================================================================
