-------------------------------- MODULE Sweeps --------------------------------
(*************************************************************************)
(* Sweeps over the stock universe (application/stock_universe.py,        *)
(* universe_investor_flows.py, financial_statements_universe.py, etf.py, *)
(* and the preferred quotes of worker/market_data.py): one symbol after  *)
(* the other is fetched and stored, and a symbol that fails must not     *)
(* stop the rest.                                                        *)
(*                                                                       *)
(* A listed symbol without a corp code is named and not asked for; here  *)
(* all have one.  Sweeps of one kind may overlap, the source publishes   *)
(* new facts below them, calls fail or hang, processes die and the       *)
(* request quota runs out.  A fact is the number of its edition at the   *)
(* source.                                                               *)
(*************************************************************************)
EXTENDS Integers, Sequences, SequencesExt, FiniteSetsExt

CONSTANTS
  Sweepers,        \* processes that sweep
  Universe,        \* the listed symbols in order
  Days,            \* bars are collected for the days 1 .. Days
  ChunkDays,       \* days of one request
  DailyQuota,      \* statement requests the source answers
  MaxSweeps, MaxPublished, MaxSweepFaults   \* bounds

ASSUME SweepsAssumption ==
  /\ Universe \in Seq(Range(Universe))
  /\ {Days, ChunkDays} \subseteq Nat \ {0}
  /\ {DailyQuota, MaxSweeps, MaxPublished, MaxSweepFaults} \subseteq Nat

VARIABLES
  sweepKind,    \* what is swept
  filed,        \* the edition of each fact at the source, 0 before the first
  kept,         \* the stored edition
  symbolState,  \* api_sync_status of each symbol
  sweepState,   \* api_sync_status of the sweep
  quota,        \* statement requests left
  sweep,        \* per process: how far its sweep is
  sweepsBegun, publications, sweepFaults, refusals,
  cut           \* history: symbols whose collection was cut off before it could be marked

sweepVars == <<sweepKind, filed, kept, symbolState, sweepState, quota, sweep, sweepsBegun, publications, sweepFaults, refusals, cut>>

SweepKinds == {"statements", "bars", "confirmations", "quotes", "preferred_quotes", "flows", "NAV"}

(*************************************************************************)
(* How the kinds differ.                                                 *)
(*************************************************************************)
Names == {"statements", "flows"}                       \* name what failed, the others only count
Limited == SweepKinds \ {"NAV", "preferred_quotes"}    \* give each task a time limit
OwnRow == {"statements", "quotes", "NAV"}              \* keep a status row of the sweep
Announced == {"statements", "bars", "flows"}           \* mark a symbol RUNNING first and FAILED at last
DoneWithSave == {"bars", "confirmations", "flows"}     \* mark a symbol SUCCESS in the saving transaction
Guarded == {"statements", "bars", "confirmations"}     \* refuse an older edition with an error
Dropped == {"flows"}                                   \* leave an older edition out
Overwritten == {"quotes", "preferred_quotes", "NAV"}   \* take whatever comes last

ChunksGapped(first, last, n) ==
  [k \in 1 .. (last - first) \div n + 1 |-> {d \in first + (k - 1) * n + 1 .. first + k * n : d <= last}]

Chunks(first, last, n) ==
  [k \in 1 .. (last - first) \div n + 1 |-> {d \in first + (k - 1) * n .. first + k * n - 1 : d <= last}]

\* The consolidated and the separate statements, windows of days, or one snapshot.
Requests ==
  CASE sweepKind = "statements" -> <<{1}, {2}>>
    [] sweepKind \in {"bars", "confirmations"} -> Chunks(1, Days, ChunkDays)
    [] OTHER -> <<{1}>>

FactNumbers ==
  CASE sweepKind = "statements" -> {1, 2} [] sweepKind \in {"bars", "confirmations"} -> 1 .. Days [] OTHER -> {1}


\* A failure ends a task: the symbol, or one window of its bars.
Tasks ==
  IF sweepKind \in {"bars", "confirmations"}
  THEN FlattenSeq([i \in DOMAIN Universe |->
         [k \in DOMAIN Requests |-> [symbol |-> Universe[i], requests |-> <<Requests[k]>>]]])
  ELSE [i \in DOMAIN Universe |-> [symbol |-> Universe[i], requests |-> Requests]]

NoEdition == [c \in FactNumbers |-> 0]
NoSweep == [at |-> "idle", task |-> 1, request |-> 1, skip |-> {}, seen |-> NoEdition,
            only |-> FALSE, failed |-> {}, left |-> {}, asked |-> [s \in Range(Universe) |-> NoEdition]]

Step(p, entry) == sweep' = [sweep EXCEPT ![p] = entry]
TaskOf(p) == Tasks[sweep[p].task]
SymbolOf(p) == TaskOf(p).symbol
RequestOf(p) == TaskOf(p).requests[sweep[p].request]
AtTask(p) == sweep[p].at \in {"fetch", "save", "mark", "fail", "refused"}
NextTask(entry) ==
  [entry EXCEPT !.task = @ + 1, !.request = 1, !.skip = {}, !.seen = NoEdition,
                !.at = IF entry.task = Len(Tasks) THEN "record" ELSE "take"]
Failed(p) == NextTask([sweep[p] EXCEPT !.failed = @ \cup {SymbolOf(p)}])
Marked(p, state) == symbolState' = [symbolState EXCEPT ![SymbolOf(p)] = state]
Faulty == sweepFaults < MaxSweepFaults /\ sweepFaults' = sweepFaults + 1

(*************************************************************************)
(* One sweep.                                                            *)
(*************************************************************************)
BeginSweep(p) ==
  /\ sweep[p].at \in {"idle", "done"}
  /\ sweepsBegun < MaxSweeps /\ sweepsBegun' = sweepsBegun + 1
  /\ \E only \in (IF sweepKind = "statements" THEN BOOLEAN ELSE {FALSE}) :
       Step(p, [NoSweep EXCEPT !.at = IF Tasks = <<>> THEN "record" ELSE "take", !.only = only, !.asked = filed])
  /\ sweepState' = IF sweepKind \in OwnRow THEN "RUNNING" ELSE sweepState
  /\ UNCHANGED <<sweepKind, filed, kept, symbolState, quota, publications, sweepFaults, refusals, cut>>

\* --only-missing leaves out the reports that have a current version.
Existing(p) == IF sweep[p].only THEN {c \in FactNumbers : kept[SymbolOf(p)][c] # 0} ELSE {}

Take(p) ==
  /\ sweep[p].at = "take"
  /\ Step(p, [sweep[p] EXCEPT !.at = "fetch", !.skip = Existing(p)])
  /\ IF sweepKind \in Announced
     THEN Marked(p, "RUNNING") /\ cut' = cut \ {SymbolOf(p)}
     ELSE UNCHANGED <<symbolState, cut>>
  /\ UNCHANGED <<sweepKind, filed, kept, sweepState, quota, sweepsBegun, publications, sweepFaults, refusals>>

AfterRequest(p) ==
  LET entry == [sweep[p] EXCEPT !.seen = NoEdition] IN
    IF entry.request < Len(TaskOf(p).requests) THEN [entry EXCEPT !.request = @ + 1, !.at = "fetch"]
    ELSE IF sweepKind = "statements" THEN [entry EXCEPT !.at = "mark"]
    ELSE NextTask(entry)

HasIt(p) == sweep[p].only /\ RequestOf(p) \subseteq sweep[p].skip

SkipRequest(p) ==
  /\ sweep[p].at = "fetch" /\ HasIt(p)
  /\ Step(p, AfterRequest(p))
  /\ UNCHANGED <<sweepKind, filed, kept, symbolState, sweepState, quota, sweepsBegun, publications, sweepFaults, refusals, cut>>

Observed(p) == [c \in FactNumbers |-> IF c \in RequestOf(p) THEN filed[SymbolOf(p)][c] ELSE 0]

\* An empty answer fails a collection of flows; statements answer "no data" (013).
FetchFacts(p) ==
  /\ sweep[p].at = "fetch" /\ ~HasIt(p)
  /\ sweepKind = "statements" => quota > 0
  /\ quota' = IF sweepKind = "statements" THEN quota - 1 ELSE quota
  /\ Step(p, [sweep[p] EXCEPT !.seen = Observed(p),
                              !.at = IF sweepKind = "flows" /\ Observed(p) = NoEdition THEN "fail" ELSE "save"])
  /\ UNCHANGED <<sweepKind, filed, kept, symbolState, sweepState, sweepsBegun, publications, sweepFaults, refusals, cut>>

QuotaIsOver == "refused"

\* Status 020 of the source.
RefuseByQuota(p) ==
  /\ sweep[p].at = "fetch" /\ ~HasIt(p)
  /\ sweepKind = "statements" /\ quota = 0
  /\ refusals' = refusals + 1
  /\ Step(p, [sweep[p] EXCEPT !.at = QuotaIsOver])
  /\ UNCHANGED <<sweepKind, filed, kept, symbolState, sweepState, quota, sweepsBegun, publications, sweepFaults, cut>>

IsOlder(p) == \E c \in RequestOf(p) : sweep[p].seen[c] # 0 /\ sweep[p].seen[c] < kept[SymbolOf(p)][c]

Taken(p, c) ==
  /\ sweep[p].seen[c] # 0
  /\ sweepKind \in Dropped => sweep[p].seen[c] >= kept[SymbolOf(p)][c]

SaveFacts(p) ==
  /\ sweep[p].at = "save"
  /\ IF sweepKind \in Guarded /\ IsOlder(p)
     THEN /\ Step(p, [sweep[p] EXCEPT !.at = "fail"])
          /\ UNCHANGED <<kept, symbolState>>
     ELSE /\ kept' = [kept EXCEPT ![SymbolOf(p)] =
                        [c \in FactNumbers |-> IF Taken(p, c) THEN sweep[p].seen[c] ELSE @[c]]]
          /\ IF sweepKind \in DoneWithSave THEN Marked(p, "SUCCESS") ELSE UNCHANGED symbolState
          /\ Step(p, AfterRequest(p))
  /\ UNCHANGED <<sweepKind, filed, sweepState, quota, sweepsBegun, publications, sweepFaults, refusals, cut>>

MarkSucceeded(p) ==
  /\ sweep[p].at = "mark"
  /\ Marked(p, "SUCCESS")
  /\ Step(p, NextTask(sweep[p]))
  /\ UNCHANGED <<sweepKind, filed, kept, sweepState, quota, sweepsBegun, publications, sweepFaults, refusals, cut>>

FailedState == "FAILED"

MarkFailed(p) ==
  /\ sweep[p].at = "fail"
  /\ IF sweepKind \in Announced THEN Marked(p, FailedState) ELSE UNCHANGED symbolState
  /\ Step(p, Failed(p))
  /\ UNCHANGED <<sweepKind, filed, kept, sweepState, quota, sweepsBegun, publications, sweepFaults, refusals, cut>>

Left(p) == {Tasks[i].symbol : i \in sweep[p].task .. Len(Tasks)}

\* The quota ends the sweep: this symbol and all that follow remain.
StopSweep(p) ==
  /\ sweep[p].at = "refused"
  /\ Marked(p, FailedState)
  /\ Step(p, [sweep[p] EXCEPT !.at = "record", !.left = Left(p)])
  /\ UNCHANGED <<sweepKind, filed, kept, sweepState, quota, sweepsBegun, publications, sweepFaults, refusals, cut>>

Complete(p) == sweep[p].failed = {} /\ sweep[p].left = {}

RecordSweep(p) ==
  /\ sweep[p].at = "record"
  /\ sweepState' = IF sweepKind \notin OwnRow THEN sweepState
                   ELSE IF Complete(p) THEN "SUCCESS" ELSE "FAILED"
  /\ Step(p, [sweep[p] EXCEPT !.at = "done"])
  /\ UNCHANGED <<sweepKind, filed, kept, symbolState, quota, sweepsBegun, publications, sweepFaults, refusals, cut>>

\* What the scheduled jobs of flows and of NAVs make of the result.
JobSucceeded(p) ==
  LET collected == Range(Universe) \ sweep[p].failed IN
    IF sweepKind = "flows" THEN sweep[p].failed = {} /\ collected # {} ELSE collected # {}

(*************************************************************************)
(* Faults.                                                               *)
(*************************************************************************)
\* What follows mark_started lies in the try; what fails outside of it is only counted.
RequestFails(p) ==
  /\ sweep[p].at \in {"fetch", "save"}
  /\ sweep[p].at = "save" => sweepKind # "preferred_quotes"
  /\ Faulty
  /\ Step(p, [sweep[p] EXCEPT !.at = "fail"])
  /\ UNCHANGED <<sweepKind, filed, kept, symbolState, sweepState, quota, sweepsBegun, publications, refusals, cut>>

\* The collection hangs until its time limit cancels it, or its status cannot be written: no
\* handler marks the symbol.  A refusal by the quota that is lost so counts as a failure.
CutOff(p) ==
  /\ sweep[p].at = "take" \/ AtTask(p)
  /\ sweepKind \in Limited
  /\ Faulty
  /\ Step(p, Failed(p))
  /\ cut' = IF sweepKind \in Announced /\ AtTask(p) THEN cut \cup {SymbolOf(p)} ELSE cut
  /\ UNCHANGED <<sweepKind, filed, kept, symbolState, sweepState, quota, sweepsBegun, publications, refusals>>

\* Without a limit nothing ends a call that hangs; an unguarded save ends the command.
SweepDies(p) ==
  /\ sweep[p].at \notin {"idle", "done"}
  /\ Faulty
  /\ cut' = IF sweepKind \in Announced /\ AtTask(p) THEN cut \cup {SymbolOf(p)} ELSE cut
  /\ Step(p, NoSweep)
  /\ UNCHANGED <<sweepKind, filed, kept, symbolState, sweepState, quota, sweepsBegun, publications, refusals>>

Publish ==
  /\ publications < MaxPublished /\ publications' = publications + 1
  /\ \E s \in Range(Universe), c \in FactNumbers : filed' = [filed EXCEPT ![s][c] = @ + 1]
  /\ UNCHANGED <<sweepKind, kept, symbolState, sweepState, quota, sweep, sweepsBegun, sweepFaults, refusals, cut>>

SweepsInit ==
  /\ sweepKind \in SweepKinds
  /\ filed = [s \in Range(Universe) |-> [c \in FactNumbers |-> IF c = 1 THEN 1 ELSE 0]]
  /\ kept = [s \in Range(Universe) |-> NoEdition]
  /\ symbolState = [s \in Range(Universe) |-> "none"]
  /\ sweepState = "none"
  /\ quota = DailyQuota
  /\ sweep = [p \in Sweepers |-> NoSweep]
  /\ sweepsBegun = 0 /\ publications = 0 /\ sweepFaults = 0 /\ refusals = 0 /\ cut = {}

SweepsNext ==
  \/ Publish
  \/ \E p \in Sweepers :
       \/ BeginSweep(p) \/ Take(p) \/ SkipRequest(p) \/ FetchFacts(p) \/ RefuseByQuota(p) \/ SaveFacts(p)
       \/ MarkSucceeded(p) \/ MarkFailed(p) \/ StopSweep(p) \/ RecordSweep(p)
       \/ RequestFails(p) \/ CutOff(p) \/ SweepDies(p)

SweepsSpec == SweepsInit /\ [][SweepsNext]_sweepVars

(*************************************************************************)
(* Properties.                                                           *)
(*************************************************************************)
SweepsTypeOK ==
  /\ sweepKind \in SweepKinds
  /\ filed \in [Range(Universe) -> [FactNumbers -> 0 .. MaxPublished + 1]]
  /\ kept \in [Range(Universe) -> [FactNumbers -> 0 .. MaxPublished + 1]]
  /\ symbolState \in [Range(Universe) -> {"none", "RUNNING", "SUCCESS", "FAILED"}]
  /\ sweepState \in {"none", "RUNNING", "SUCCESS", "FAILED"}
  /\ quota \in 0 .. DailyQuota
  /\ \A p \in Sweepers :
       /\ sweep[p].at \in {"idle", "take", "fetch", "save", "mark", "fail", "refused", "record", "done"}
       /\ sweep[p].task \in 1 .. Len(Tasks) + 1
       /\ sweep[p].failed \cap sweep[p].left = {}
  /\ cut \subseteq Range(Universe)
  /\ \A s \in Range(Universe), c \in FactNumbers : kept[s][c] <= filed[s][c]

(* A sweep that has ended leaves no gap unspoken: what the source had    *)
(* published when it began is stored, or an operator can see from the   *)
(* result that it is not, by name where the sweep names and else by a    *)
(* count; a resumed sweep promises only that every report has a version. *)
(* The scheduled job of the flows succeeds only when nothing is missing. *)
(* Kinds whose rows the last writer overwrites promise this only as long *)
(* as no other sweep is on its way.                                      *)
IsThere(p, s, c) ==
  \/ kept[s][c] >= sweep[p].asked[s][c]
  \/ sweep[p].only /\ kept[s][c] # 0

NothingMissedSilently ==
  \A p \in Sweepers : sweep[p].at = "done" /\ (sweepKind \in Overwritten => sweepsBegun = 1) =>
    LET reported == IF sweepKind \in Names THEN sweep[p].failed \cup sweep[p].left
                    ELSE IF sweep[p].failed # {} THEN Range(Universe) ELSE {}
    IN /\ \A s \in Range(Universe) \ reported, c \in FactNumbers : IsThere(p, s, c)
       /\ sweepKind = "flows" /\ JobSucceeded(p) =>
            \A s \in Range(Universe), c \in FactNumbers : IsThere(p, s, c)

(* A symbol that says RUNNING is being collected, or its collection was  *)
(* cut off: no error and no refusal leaves it that way.                  *)
RunningIsExplained ==
  \A s \in Range(Universe) : symbolState[s] = "RUNNING" =>
    s \in cut \/ \E p \in Sweepers : AtTask(p) /\ SymbolOf(p) = s

(* A sweep does not go on knocking after the quota is over, unless the   *)
(* refusal was lost to another error on its way up.                      *)
RefusedOncePerSweep == refusals <= sweepsBegun + sweepFaults

(* Whatever sweeps overlap, a stored report, bar or flow is never        *)
(* replaced by an older edition.                                         *)
EditionsNeverGoBack ==
  sweepKind \notin Overwritten =>
    \A s \in Range(Universe), c \in FactNumbers : kept'[s][c] >= kept[s][c]

(* What the sweeps promise, together.                                    *)
SweepsContract ==
  [][/\ NothingMissedSilently' /\ RunningIsExplained' /\ RefusedOncePerSweep'
     /\ EditionsNeverGoBack]_sweepVars
===============================================================================
