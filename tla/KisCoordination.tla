--------------------------- MODULE KisCoordination ---------------------------
(*************************************************************************)
(* The credentials and the request slots that the processes of one KIS   *)
(* account share over Valkey                                             *)
(* (adapters/brokers/kis_coordination_valkey.py, kis_http.py and the     *)
(* approval client of kis_realtime.py).                                  *)
(*                                                                       *)
(* A process needs an access token for each REST call, or an approval    *)
(* key for the notification socket.  It looks into its memory, then into *)
(* Valkey, then takes a lock that runs out by itself, looks again and    *)
(* only then asks KIS.  Every REST request, the one for a credential     *)
(* included, first reserves the slot that all processes share.           *)
(*                                                                       *)
(* All times are counted down, in a unit in which the configuration's    *)
(* values differ as they do in the code: the lock runs out before a      *)
(* waiting process gives up, and a wait is shorter than the safety       *)
(* margin.                                                               *)
(*************************************************************************)
EXTENDS Integers, Sequences

CONSTANTS
  KisProcesses,   \* the processes; each has one call under way at a time
  Lifetime,       \* of a token
  SafetyMargin,   \* token_safety_seconds
  WaitLimit,      \* wait_timeout_seconds
  LockTtl,        \* token_lock_seconds
  SlotInterval,   \* minimum_interval_seconds
  MaxIssues, MaxKisFaults

ASSUME KisAssumption ==
  /\ {Lifetime, SafetyMargin, WaitLimit, LockTtl, SlotInterval} \subseteq Nat \ {0}
  /\ {MaxIssues, MaxKisFaults} \subseteq Nat
  /\ WaitLimit < SafetyMargin /\ LockTtl <= WaitLimit

VARIABLES
  kind,       \* what a process needs: "token" or "approval"
  life,       \* how long each credential issued so far is still good
  shared,     \* per kind: the credential in Valkey
  lock,       \* per kind: who holds the lock, and for how long
  gate,       \* how long the request slot is still taken
  memory,     \* the credential a process keeps
  stage,      \* where the call of a process is
  using,      \* the credential the call goes on with
  patience,   \* how long the call still waits
  lease,      \* what is left of the lease that a process took last
  latest,     \* the token KIS issued last
  overran,    \* some lease ran out while its process was still at work
  refusedKeys,    \* the keys that a process had refused and removed
  kisFaults

Stages == {"idle", "waitForLock", "lookAgain", "waitToIssue", "issuing", "store",
           "waitToSend", "subscribe"}

kisVars == <<kind, life, shared, lock, gate, memory, stage, using, patience, lease,
             latest, overran, refusedKeys, kisFaults>>

CredentialKinds == {"token", "approval"}
Nothing == 0
Issued == DOMAIN life
Known == Issued \cup {Nothing}
FreeLock == [owner |-> "nobody", left |-> 0]

\* is_valid_at: with a margin.  An approval key names no end and is taken for good.
IsValidAt(k, cred) ==
  /\ cred # Nothing
  /\ k = "token" => life[cred] > SafetyMargin

\* The lock is given back only by its owner: a lock that ran out may be another's by now.
Holds(k, p) == lock[k].owner = p
ReleasedByAnyone(k, p) == [lock EXCEPT ![k] = FreeLock]
Released(k, p) == IF Holds(k, p) THEN [lock EXCEPT ![k] = FreeLock] ELSE lock

(*************************************************************************)
(* One call.                                                             *)
(*************************************************************************)
Stays(p, where) ==
  /\ stage' = [stage EXCEPT ![p] = where]
  /\ UNCHANGED <<memory, using, patience>>

WaitsFor(p, what, cred) ==
  /\ stage' = [stage EXCEPT ![p] = what]
  /\ using' = [using EXCEPT ![p] = cred]
  /\ patience' = [patience EXCEPT ![p] = WaitLimit]

\* With a credential in hand: a REST call waits for its slot, a socket subscribes.
GoOn(p, cred) ==
  /\ memory' = [memory EXCEPT ![p] = cred]
  /\ WaitsFor(p, IF kind[p] = "token" THEN "waitToSend" ELSE "subscribe", cred)

Ends(p) ==
  /\ stage' = [stage EXCEPT ![p] = "idle"]
  /\ using' = [using EXCEPT ![p] = Nothing]
  /\ patience' = [patience EXCEPT ![p] = 0]

\* A token found in Valkey that is not good any more is deleted on the way.
Cleaned(k) == [shared EXCEPT ![k] = IF IsValidAt(k, @) THEN @ ELSE Nothing]

AskCredential(p) ==
  /\ stage[p] = "idle"
  /\ LET k == kind[p] IN
       IF IsValidAt(k, memory[p])
       THEN GoOn(p, memory[p]) /\ UNCHANGED shared
       ELSE /\ shared' = Cleaned(k)
            /\ IF IsValidAt(k, shared[k])
               THEN GoOn(p, shared[k])
               ELSE WaitsFor(p, "waitForLock", Nothing) /\ UNCHANGED memory
  /\ UNCHANGED <<kind, life, lock, gate, lease, latest, overran, refusedKeys, kisFaults>>

TakeLock(p) ==
  /\ stage[p] = "waitForLock" /\ lock[kind[p]] = FreeLock /\ patience[p] > 0
  /\ lock' = [lock EXCEPT ![kind[p]] = [owner |-> p, left |-> LockTtl]]
  /\ lease' = [lease EXCEPT ![p] = LockTtl]
  /\ Stays(p, "lookAgain")
  /\ UNCHANGED <<kind, life, shared, gate, latest, overran, refusedKeys, kisFaults>>

\* Leaving the lock that ran out raises, although the credential stays in memory.
Leave(p, cred) ==
  /\ lock' = Released(kind[p], p)
  /\ lease' = [lease EXCEPT ![p] = 0]
  /\ IF Holds(kind[p], p)
     THEN GoOn(p, cred)
     ELSE Ends(p) /\ memory' = [memory EXCEPT ![p] = cred]

\* Under the lock: another process may have issued meanwhile.
StillMissing(k) == ~IsValidAt(k, shared[k])

LookAgain(p) ==
  /\ stage[p] = "lookAgain"
  /\ shared' = Cleaned(kind[p])
  /\ IF StillMissing(kind[p])
     THEN WaitsFor(p, "waitToIssue", Nothing) /\ UNCHANGED <<lock, lease, memory>>
     ELSE Leave(p, shared[kind[p]])
  /\ UNCHANGED <<kind, life, gate, latest, overran, refusedKeys, kisFaults>>

\* SET NX PX on the gate, polled until the deadline.
SlotReserved(p) ==
  /\ gate = 0 /\ patience[p] > 0
  /\ gate' = SlotInterval

BeginIssue(p) ==
  /\ stage[p] = "waitToIssue" /\ SlotReserved(p)
  /\ Stays(p, "issuing")
  /\ UNCHANGED <<kind, life, shared, lock, lease, latest, overran, refusedKeys, kisFaults>>

\* KIS answers with a new credential, or with the token it gave out a short while ago.
NewCredential ==
  /\ Len(life) < MaxIssues
  /\ life' = Append(life, Lifetime)

KisAnswers(p) ==
  /\ stage[p] = "issuing"
  /\ \/ NewCredential /\ using' = [using EXCEPT ![p] = Len(life')]
     \/ /\ kind[p] = "token" /\ latest # Nothing /\ life[latest] > 0
        /\ using' = [using EXCEPT ![p] = latest] /\ UNCHANGED life
  /\ latest' = IF kind[p] = "token" THEN using'[p] ELSE latest
  /\ stage' = [stage EXCEPT ![p] = "store"]
  /\ UNCHANGED <<kind, shared, lock, gate, memory, patience, lease, overran, refusedKeys, kisFaults>>

\* With a margin too short to share (CREDENTIAL_EXPIRES_TOO_SOON) the token is not used either.
Store(p) ==
  /\ stage[p] = "store"
  /\ IF IsValidAt(kind[p], using[p])
     THEN /\ shared' = [shared EXCEPT ![kind[p]] = using[p]]
          /\ Leave(p, using[p])
     ELSE /\ lock' = Released(kind[p], p) /\ lease' = [lease EXCEPT ![p] = 0]
          /\ Ends(p) /\ UNCHANGED <<shared, memory>>
  /\ UNCHANGED <<kind, life, gate, latest, overran, refusedKeys, kisFaults>>

Send(p) ==
  /\ stage[p] = "waitToSend" /\ SlotReserved(p)
  /\ Ends(p)
  /\ UNCHANGED <<kind, life, shared, lock, memory, lease, latest, overran, refusedKeys, kisFaults>>

\* The session ends by itself, or its subscription was accepted and comes to an end.
SessionEnds(p) ==
  /\ stage[p] = "subscribe"
  /\ Ends(p)
  /\ UNCHANGED <<kind, life, shared, lock, gate, memory, lease, latest, overran, refusedKeys, kisFaults>>

\* invalidate_approval_key: whatever key Valkey holds by now goes with it.
Emptied(k) == [shared EXCEPT ![k] = Nothing]

SubscriptionRefused(p) ==
  /\ stage[p] = "subscribe"
  /\ shared' = Emptied("approval")
  /\ memory' = [memory EXCEPT ![p] = Nothing]
  /\ refusedKeys' = [refusedKeys EXCEPT ![p] = @ \cup {using[p]}]
  /\ Ends(p)
  /\ UNCHANGED <<kind, life, lock, gate, lease, latest, overran, kisFaults>>

\* AUTH_WAIT_TIMEOUT and REQUEST_WAIT_TIMEOUT.
GiveUp(p) ==
  /\ stage[p] \in {"waitForLock", "waitToIssue", "waitToSend"} /\ patience[p] = 0
  /\ lock' = Released(kind[p], p) /\ lease' = [lease EXCEPT ![p] = 0]
  /\ Ends(p)
  /\ UNCHANGED <<kind, life, shared, gate, memory, latest, overran, refusedKeys, kisFaults>>

(*************************************************************************)
(* Faults: Valkey or KIS fails in the middle of a call, which ends it;   *)
(* the lock is released if Valkey is there for that, and a refused key   *)
(* leaves the memory first.  A process dies: its lock stays until it     *)
(* runs out.                                                             *)
(*************************************************************************)
KisCallFails(p) ==
  /\ stage[p] # "idle" /\ kisFaults < MaxKisFaults
  /\ lock' \in {lock, Released(kind[p], p)}
  /\ memory' \in {memory} \cup (IF stage[p] = "subscribe" THEN {[memory EXCEPT ![p] = Nothing]} ELSE {})
  /\ lease' = [lease EXCEPT ![p] = 0]
  /\ Ends(p)
  /\ kisFaults' = kisFaults + 1
  /\ UNCHANGED <<kind, life, shared, gate, latest, overran, refusedKeys>>

ProcessDies(p) ==
  /\ kisFaults < MaxKisFaults
  /\ memory' = [memory EXCEPT ![p] = Nothing] /\ lease' = [lease EXCEPT ![p] = 0]
  /\ Ends(p)
  /\ kisFaults' = kisFaults + 1
  /\ UNCHANGED <<kind, life, shared, lock, gate, latest, overran, refusedKeys>>

\* Valkey drops an approval key when its own six hours are over.
SharedKeyExpires ==
  /\ shared["approval"] # Nothing
  /\ shared' = [shared EXCEPT !["approval"] = Nothing]
  /\ UNCHANGED <<kind, life, lock, gate, memory, stage, using, patience, lease, latest, overran, refusedKeys, kisFaults>>

(*************************************************************************)
(* Time.                                                                 *)
(*************************************************************************)
InTheLock(p) == stage[p] \in {"lookAgain", "waitToIssue", "issuing", "store"}

Down(n) == IF n > 0 THEN n - 1 ELSE 0

KisTick ==
  /\ life' = [c \in Issued |-> Down(life[c])]
  /\ gate' = Down(gate)
  /\ lock' = [k \in CredentialKinds |->
       IF lock[k].left > 1 THEN [lock[k] EXCEPT !.left = @ - 1] ELSE FreeLock]
  /\ patience' = [p \in KisProcesses |-> Down(patience[p])]
  /\ lease' = [p \in KisProcesses |-> Down(lease[p])]
  /\ overran' = (overran \/ \E p \in KisProcesses : InTheLock(p) /\ lease[p] <= 1)
  /\ UNCHANGED <<kind, shared, memory, stage, using, latest, refusedKeys, kisFaults>>

KisInit ==
  /\ kind \in [KisProcesses -> CredentialKinds]
  /\ life = <<>>
  /\ shared = [k \in CredentialKinds |-> Nothing]
  /\ lock = [k \in CredentialKinds |-> FreeLock]
  /\ gate = 0 /\ latest = Nothing /\ overran = FALSE /\ kisFaults = 0
  /\ memory = [p \in KisProcesses |-> Nothing]
  /\ stage = [p \in KisProcesses |-> "idle"]
  /\ using = [p \in KisProcesses |-> Nothing]
  /\ patience = [p \in KisProcesses |-> 0]
  /\ lease = [p \in KisProcesses |-> 0]
  /\ refusedKeys = [p \in KisProcesses |-> {}]

KisNext ==
  \/ KisTick \/ SharedKeyExpires
  \/ \E p \in KisProcesses :
       \/ AskCredential(p) \/ TakeLock(p) \/ LookAgain(p) \/ BeginIssue(p) \/ KisAnswers(p) \/ Store(p)
       \/ Send(p) \/ SessionEnds(p) \/ SubscriptionRefused(p) \/ GiveUp(p)
       \/ KisCallFails(p) \/ ProcessDies(p)

KisSpec == KisInit /\ [][KisNext]_kisVars

(*************************************************************************)
(* Properties.                                                           *)
(*************************************************************************)
KisTypeOK ==
  /\ kind \in [KisProcesses -> CredentialKinds]
  /\ life \in Seq(0 .. Lifetime) /\ Len(life) <= MaxIssues
  /\ shared \in [CredentialKinds -> Known] /\ latest \in Known
  /\ lock \in [CredentialKinds -> [owner : KisProcesses \cup {"nobody"}, left : 0 .. LockTtl]]
  /\ gate \in 0 .. SlotInterval
  /\ memory \in [KisProcesses -> Known] /\ using \in [KisProcesses -> Known]
  /\ stage \in [KisProcesses -> Stages]
  /\ patience \in [KisProcesses -> 0 .. WaitLimit] /\ lease \in [KisProcesses -> 0 .. LockTtl]
  /\ overran \in BOOLEAN /\ kisFaults \in 0 .. MaxKisFaults
  /\ refusedKeys \in [KisProcesses -> SUBSET Issued]

(* A REST request that waited for its slot as long as it may still       *)
(* carries a token that KIS accepts: the margin of the token covers the  *)
(* wait.                                                                 *)
NothingSentExpired ==
  \A p \in KisProcesses : stage[p] = "waitToSend" /\ patience[p] > 0 => life[using[p]] > 0

(* No two processes are at the same time between the lock and its        *)
(* release with leases that run: who overran its lease does not give     *)
(* away the lock of its successor.                                       *)
OneIssuerAtATime ==
  \A p, q \in KisProcesses :
    p # q /\ kind[p] = kind[q] /\ InTheLock(p) /\ InTheLock(q) => lease[p] = 0 \/ lease[q] = 0

(* As long as no process overran its lease, KIS is asked for a           *)
(* credential only when no process left a good one in Valkey in the      *)
(* meantime.                                                             *)
NoNeedlessIssue ==
  \A p \in KisProcesses :
    stage[p] = "waitToIssue" /\ stage'[p] = "issuing" /\ ~overran =>
      ~IsValidAt(kind[p], shared[kind[p]])

(* An approval key that a process had refused and removed is not taken   *)
(* up by that process again, not even from Valkey.                       *)
RefusedIsGone ==
  \A p \in KisProcesses : stage[p] = "subscribe" => using[p] \notin refusedKeys[p]

(* What the processes that share the credentials promise, together.      *)
CoordinationContract ==
  [][/\ NothingSentExpired' /\ OneIssuerAtATime' /\ RefusedIsGone'
     /\ NoNeedlessIssue]_kisVars
==============================================================================
