---------------------------- MODULE FactVersions -----------------------------
(*************************************************************************)
(* The stored versions of a fact that is collected again and again: a    *)
(* daily or a minute bar, an investor flow, a profile from a master      *)
(* file, a number of listed shares, the index of an ETF (the             *)
(* market_data_* modules of adapters/database and their collectors in    *)
(* application).                                                         *)
(*                                                                       *)
(* An observation with the facts of the current version refreshes it,    *)
(* one with other facts ends it and opens the next.  The tables differ   *)
(* in what they do with an observation that is older than the current    *)
(* version: a bar refuses it and the whole bundle with it, flows and     *)
(* profiles drop it, and listed shares and ETF classifications are       *)
(* written without a lock and without a look at the time.                *)
(*                                                                       *)
(* Bars are confirmed besides, when two observations after the end of    *)
(* their interval agree.                                                 *)
(*************************************************************************)
EXTENDS Integers, Sequences

CONSTANTS
  FactCollectors,   \* processes that collect at the same time
  FactValues,       \* what the source may say
  IntervalEnd,      \* when a bar is complete (15:40, or the end of the minute)
  LastTime, MaxFactChanges, MaxCollections

ASSUME FactAssumption ==
  {IntervalEnd, LastTime, MaxFactChanges, MaxCollections} \subseteq Nat /\ LastTime > 0

VARIABLES
  table,        \* the table of the fact
  time,
  says,         \* what the source says now
  changes,      \* how often it changed
  collections,  \* how many collections began
  history,      \* the versions, oldest first
  snapshot,     \* the latest row of an ETF's NAV, from which a backfill works
  work,         \* per process: where it is and what it holds
  sightings     \* per fact: how many stored observations after the interval's end say so

factVars == <<table, time, says, changes, collections, history, snapshot, work, sightings>>

Bars == {"daily_bar", "minute_bar"}
DropLate == {"flow", "profile"}
Unlocked == {"listed_shares", "etf_index"}
Tables == Bars \cup DropLate \cup Unlocked

NotYet == 0
Missing == [fact |-> "none", received |-> NotYet, final |-> FALSE]
Seen == [fact : FactValues \cup {"none"}, received : 0 .. LastTime]
Unseen == [fact |-> "none", received |-> NotYet]
Resting == [at |-> "idle", asked |-> NotYet, prior |-> Missing, seen |-> Unseen, picked |-> 0]

Current == history[Len(history)]

NewRow(obs) ==
  [fact |-> obs.fact, from |-> obs.received, received |-> obs.received, until |-> NotYet, final |-> FALSE]

Turn(p, entry) == work' = [work EXCEPT ![p] = entry]
GoOnTo(p, where) == [work[p] EXCEPT !.at = where]

\* 15:40 itself is not after the close, while the first instant after a minute is.
AfterEnd(t) == IF table = "minute_bar" THEN t >= IntervalEnd ELSE t > IntervalEnd

(*************************************************************************)
(* One collection.                                                       *)
(*************************************************************************)
PriorVersion ==
  IF history = <<>> THEN Missing
  ELSE [fact |-> Current.fact, received |-> Current.received, final |-> Current.final]

\* A confirmation reads the stored version first; a plain collection has no need to.
BeginCollection(p) ==
  /\ work[p].at = "idle"
  /\ collections < MaxCollections /\ collections' = collections + 1
  /\ \E prior \in (IF table = "minute_bar" THEN {} ELSE {Missing}) \cup
                  (IF table \in Bars THEN {PriorVersion} ELSE {}) :
       Turn(p, [Resting EXCEPT !.at = "fetch", !.asked = time, !.prior = prior])
  /\ UNCHANGED <<table, time, says, changes, history, snapshot, sightings>>

FetchFact(p) ==
  /\ work[p].at = "fetch"
  /\ Turn(p, [GoOnTo(p, IF table \in Unlocked THEN "pick" ELSE "save")
              EXCEPT !.seen = [fact |-> says, received |-> time]])
  /\ UNCHANGED <<table, time, says, changes, collections, history, snapshot, sightings>>

\* backfill_etf_index_classification takes the observation from the stored snapshot.
Backfill(p) ==
  /\ table = "etf_index" /\ work[p].at = "idle" /\ snapshot # Unseen
  /\ collections < MaxCollections /\ collections' = collections + 1
  /\ Turn(p, [Resting EXCEPT !.at = "pick", !.seen = snapshot])
  /\ UNCHANGED <<table, time, says, changes, history, snapshot, sightings>>

Superseded(list, i, obs) ==
  Append([list EXCEPT ![i].until = obs.received], NewRow(obs))

Refreshed(list, obs) ==
  [list EXCEPT ![Len(list)].received = IF obs.received > @ THEN obs.received ELSE @]

IsLateNever(obs) == FALSE
IsLate(obs) == obs.received <= Current.received

\* The version after an observation, in the tables that lock the current one.
Saved(obs) ==
  IF history = <<>> THEN <<NewRow(obs)>>
  ELSE IF Current.fact = obs.fact THEN Refreshed(history, obs)
  ELSE IF IsLate(obs) THEN history
  ELSE Superseded(history, Len(history), obs)

\* A late observation of a bar raises: nothing of the bundle is stored.
IsRefused(obs) == table \in Bars /\ history # <<>> /\ Current.fact # obs.fact /\ IsLate(obs)
IsDropped(obs) == table \in DropLate /\ history # <<>> /\ Current.fact # obs.fact /\ IsLate(obs)

Counted(obs) ==
  IF AfterEnd(obs.received) /\ ~IsRefused(obs) /\ ~IsDropped(obs)
  THEN [sightings EXCEPT ![obs.fact] = IF @ < 2 THEN @ + 1 ELSE @]
  ELSE sightings

Confirms(p) == work[p].prior # Missing

SaveLocked(p) ==
  /\ work[p].at = "save"
  /\ LET obs == work[p].seen IN
       /\ history' = Saved(obs)
       /\ sightings' = Counted(obs)
       /\ Turn(p, IF Confirms(p) /\ ~IsRefused(obs) THEN GoOnTo(p, "confirm") ELSE Resting)
  /\ UNCHANGED <<table, time, says, changes, collections, snapshot>>

\* Without a lock the current version is read by one statement and written by another.
Pick(p) ==
  /\ work[p].at = "pick"
  /\ Turn(p, [GoOnTo(p, "write") EXCEPT !.picked = Len(history)])
  /\ UNCHANGED <<table, time, says, changes, collections, history, snapshot, sightings>>

\* A version number that another transaction took meanwhile fails this one.
IsTaken(version) == version < Len(history)

SaveUnlocked(p) ==
  /\ work[p].at = "write"
  /\ LET obs == work[p].seen
         i == work[p].picked
     IN IF i > 0 /\ history[i].fact = obs.fact
        THEN history' = [history EXCEPT ![i].received = obs.received] /\ snapshot' = obs
        ELSE IF IsTaken(i)
        THEN UNCHANGED <<history, snapshot>>
        ELSE /\ history' = IF i = 0 THEN <<NewRow(obs)>> ELSE Superseded(history, i, obs)
             /\ snapshot' = obs
  /\ Turn(p, Resting)
  /\ UNCHANGED <<table, time, says, changes, collections, sightings>>

(*************************************************************************)
(* Confirmation: the time at which the run began and both observations   *)
(* lie after the end of the interval, and the facts agree.               *)
(*************************************************************************)
IsFinalEvidence(p) ==
  /\ AfterEnd(work[p].asked) /\ AfterEnd(work[p].prior.received)
  /\ work[p].prior.fact = work[p].seen.fact

\* The version may have moved on since the save.
StillSays(obs) == Current.fact = obs.fact

Confirm(p) ==
  /\ work[p].at = "confirm"
  /\ IF ~work[p].prior.final /\ IsFinalEvidence(p) /\ StillSays(work[p].seen)
     THEN history' = [history EXCEPT ![Len(history)].final = TRUE]
     ELSE UNCHANGED history
  /\ Turn(p, Resting)
  /\ UNCHANGED <<table, time, says, changes, collections, snapshot, sightings>>

\* The source, the database or the process fails; every save is one transaction.
Fails(p) ==
  /\ work[p].at # "idle"
  /\ Turn(p, Resting)
  /\ UNCHANGED <<table, time, says, changes, collections, history, snapshot, sightings>>

(*************************************************************************)
(* The source.                                                           *)
(*************************************************************************)
SourceChanges ==
  /\ changes < MaxFactChanges
  /\ \E f \in FactValues \ {says} : says' = f
  /\ changes' = changes + 1
  /\ UNCHANGED <<table, time, collections, history, snapshot, work, sightings>>

FactTick ==
  /\ time < LastTime
  /\ time' = time + 1
  /\ UNCHANGED <<table, says, changes, collections, history, snapshot, work, sightings>>

FactInit ==
  /\ table \in Tables
  /\ time = 1 /\ says \in FactValues /\ changes = 0 /\ collections = 0
  /\ history = <<>>
  /\ snapshot = Unseen
  /\ work = [p \in FactCollectors |-> Resting]
  /\ sightings = [f \in FactValues |-> 0]

FactNext ==
  \/ SourceChanges \/ FactTick
  \/ \E p \in FactCollectors :
       \/ BeginCollection(p) \/ FetchFact(p) \/ Backfill(p) \/ SaveLocked(p) \/ Pick(p) \/ SaveUnlocked(p)
       \/ Confirm(p) \/ Fails(p)

FactSpec == FactInit /\ [][FactNext]_factVars

(*************************************************************************)
(* Properties.                                                           *)
(*************************************************************************)
FactTypeOK ==
  /\ table \in Tables /\ time \in 1 .. LastTime /\ says \in FactValues /\ changes \in 0 .. MaxFactChanges
  /\ collections \in 0 .. MaxCollections
  /\ \A i \in DOMAIN history :
       history[i] \in [fact : FactValues, from : 1 .. LastTime, received : 1 .. LastTime,
                        until : 0 .. LastTime, final : BOOLEAN]
  /\ snapshot \in Seen
  /\ \A p \in FactCollectors :
       /\ work[p].at \in {"idle", "fetch", "save", "pick", "write", "confirm"}
       /\ work[p].seen \in Seen /\ work[p].picked \in 0 .. Len(history)
  /\ sightings \in [FactValues -> 0 .. 2]
  /\ \A i \in DOMAIN history : history[i].final => table \in Bars

(* In the tables that lock the current version each version begins where *)
(* the one before it ended, later than that one began, in whatever order *)
(* the processes store what they saw; everywhere only the last is open.  *)
VersionsAreChained ==
  /\ \A i \in DOMAIN history : (history[i].until = NotYet) <=> (i = Len(history))
  /\ table \notin Unlocked =>
       \A i \in 1 .. Len(history) - 1 :
         history[i].until = history[i + 1].from /\ history[i].received < history[i + 1].from

(* A confirmed bar was stored twice with these facts after its interval  *)
(* had ended, no matter what other processes stored in between.          *)
ConfirmedWasSeenTwice ==
  \A i \in DOMAIN history : history[i].final => sightings[history[i].fact] = 2

(* A version is a record of the past: no later step changes its facts,   *)
(* its beginning or its end, or takes a confirmation back.               *)
VersionsAreFrozen ==
  \A i \in DOMAIN history :
    /\ i \in DOMAIN history'
    /\ history'[i].fact = history[i].fact /\ history'[i].from = history[i].from
    /\ history[i].until # NotYet => history'[i].until = history[i].until
    /\ history[i].final => history'[i].final

(* What a locked table holds as current was confirmed by the newest      *)
(* observation that it took in: its time of reception never goes back.   *)
ReceptionNeverGoesBack ==
  table \notin Unlocked /\ history # <<>> =>
    history'[Len(history')].received >= Current.received

(* What the history of a fact promises, together.                        *)
VersionsContract ==
  [][/\ VersionsAreChained' /\ ConfirmedWasSeenTwice'
     /\ VersionsAreFrozen /\ ReceptionNeverGoesBack]_factVars
==============================================================================
