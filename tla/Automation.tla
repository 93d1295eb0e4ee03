----------------------------- MODULE Automation ------------------------------
(*************************************************************************)
(* The automation switch of one environment: one row of                  *)
(* automation_state, written by every process of the system through      *)
(* transition_automation.                                                *)
(*                                                                       *)
(* Some callers first look at the record in a transaction of their own,  *)
(* their pre-check.  Then the transition opens: SELECT the row, test the *)
(* state graph, UPDATE the row by id.  The SELECT takes no lock, so with *)
(* Interleaved = TRUE another caller may commit between the SELECT and   *)
(* the UPDATE; Interleaved = FALSE is the deployment in which callers    *)
(* never overlap inside that transaction.                                *)
(*                                                                       *)
(* A row that was never inserted reads as DISABLED and carries NoDay.    *)
(*************************************************************************)
EXTENDS OrderModels

CONSTANTS
  Callers,      \* processes that change the switch: API, listener, CLI, worker
  MaxDay,       \* bound: trading days are 1..MaxDay
  Interleaved   \* may two transitions overlap between SELECT and UPDATE?

ASSUME AutomationAssumption == MaxDay \in Nat \ {0} /\ Interleaved \in BOOLEAN

VARIABLES
  row,        \* the automation_state row: [state, day]
  today,      \* the Seoul trading date
  call,       \* call[c]: what caller c is doing
  orderedOn   \* history: the day a person last moved the switch to RUNNING

autoVars == <<row, today, call, orderedOn>>

Days == 1..MaxDay

Record == [state : AutomationState, day : Days \cup {NoDay}]

Unwritten == [state |-> "disabled", day |-> NoDay]

-----------------------------------------------------------------------------
(* The callers of transition_automation, by what they ask for and by the *)
(* record that makes them go on to the transition at all.                *)

Kinds == {"manual", "emergency", "reset", "day_changed",
          "listener_pause", "sync_pause", "plan_pause"}

Requests(kind) ==
  CASE kind = "manual"                      -> AutomationState
    [] kind = "emergency"                   -> {"emergency_stop"}
    [] kind \in {"reset", "day_changed"}    -> {"disabled"}
    [] OTHER                                -> {"paused"}

\* The callers with a pre-check, and the records that make them go on.
Prechecked == {"reset", "day_changed", "listener_pause", "plan_pause"}

\* Mutation: a process start resets a running switch only.
NeedsResetWhenRunning(record) == record.state = "running"

NeedsReset(record) == record.state # "disabled"

GoesOn(kind, record, day) ==
  CASE kind = "reset"          -> NeedsReset(record)
    [] kind = "day_changed"    -> IsStaleTradingDay(record, day)
    [] kind = "listener_pause" -> record.state \in {"armed", "running"}
    [] kind = "plan_pause"     -> EffectiveState(record, day) = "running"

\* check: pre-check to run;  open: transition not begun;  read: row selected;
\* done / raised: how the call ended, until its caller takes the answer.
Phases == {"idle", "check", "open", "read", "done", "raised"}

\* seen is the record the call last read, or the one it returns when done.
Call == [phase : Phases, kind : Kinds, requested : AutomationState,
         day : Days, seen : Record]

NoCall == [phase |-> "idle", kind |-> "manual", requested |-> "disabled",
           day |-> 1, seen |-> Unwritten]

AutoInit ==
  /\ row = Unwritten
  /\ today = 1
  /\ call = [c \in Callers |-> NoCall]
  /\ orderedOn = NoDay

\* Mutation: the UTC date, which is a day behind until nine in the morning.
UtcDate == today - 1

\* seoul_trading_date: a caller takes the date once, when its command starts.
TradingDate == today

Begin(c, kind) ==
  /\ call[c].phase = "idle"
  /\ \E requested \in Requests(kind) :
       call' = [call EXCEPT ![c] =
                  [phase |-> IF kind \in Prechecked THEN "check" ELSE "open",
                   kind |-> kind, requested |-> requested,
                   day |-> TradingDate, seen |-> Unwritten]]
  /\ UNCHANGED <<row, today, orderedOn>>

Check(c) ==
  /\ call[c].phase = "check"
  /\ call' = [call EXCEPT ![c].seen = row, ![c].phase =
                IF GoesOn(call[c].kind, row, call[c].day) THEN "open" ELSE "done"]
  /\ UNCHANGED <<row, today, orderedOn>>

SelectRow(c) ==
  /\ call[c].phase = "open"
  /\ Interleaved \/ \A d \in Callers : call[d].phase # "read"
  /\ call' = IF AutomationMayBecome(row.state, call[c].requested)
             THEN [call EXCEPT ![c].phase = "read", ![c].seen = row]
             ELSE [call EXCEPT ![c].phase = "raised"]
  /\ UNCHANGED <<row, today, orderedOn>>

\* The UPDATE names the row's id only.  A caller that saw no row inserts one,
\* and the unique environment rejects it when another insert came first.
WriteRow(c) ==
  /\ call[c].phase = "read"
  /\ \/ /\ call[c].seen.day = NoDay /\ row.day # NoDay
        /\ call' = [call EXCEPT ![c].phase = "raised"]
        /\ UNCHANGED <<row, orderedOn>>
     \/ /\ call[c].seen.day # NoDay \/ row.day = NoDay
        /\ row' = [state |-> call[c].requested, day |-> call[c].day]
        /\ call' = [call EXCEPT ![c].phase = "done", ![c].seen = row']
        /\ orderedOn' = IF call[c].requested = "running" THEN call[c].day ELSE orderedOn
  /\ UNCHANGED today

Return(c) ==
  /\ call[c].phase \in {"done", "raised"}
  /\ call' = [call EXCEPT ![c] = NoCall]
  /\ UNCHANGED <<row, today, orderedOn>>

\* The date changes under calls that are under way.
NextDay ==
  /\ today < MaxDay
  /\ today' = today + 1
  /\ UNCHANGED <<row, call, orderedOn>>

CallStep(c) == Check(c) \/ SelectRow(c) \/ WriteRow(c) \/ Return(c)

AutoNext ==
  \/ \E c \in Callers : (\E kind \in Kinds : Begin(c, kind)) \/ CallStep(c)
  \/ NextDay

\* A command that was started runs to its end; nobody has to start one.
AutoFairness == \A c \in Callers : WF_autoVars(CallStep(c))

AutoSpec == AutoInit /\ [][AutoNext]_autoVars

FairAutoSpec == AutoSpec /\ AutoFairness

-----------------------------------------------------------------------------
\* Types of the switch, of the callers and of the history.
AutoTypeOK ==
  /\ row \in Record
  /\ today \in Days
  /\ call \in [Callers -> Call]
  /\ orderedOn \in Days \cup {NoDay}

\* Every committed change of the switch is an edge of the state graph from the
\* record its own caller selected, carries the day of that caller's command, and
\* lets trading begin only for a person; where callers do not overlap, the record
\* selected is the one that is replaced, so a commit undoes nothing unseen.
CommitsFollowSight ==
  [][\E c \in Callers :
       /\ call[c].phase = "read"
       /\ AutomationMayBecome(call[c].seen.state, row'.state)
       /\ row'.state \in {"armed", "running"} => call[c].kind = "manual"
       /\ row'.day = call[c].day
       /\ Interleaved \/ call[c].seen = row]_row

\* Whenever the switch counts as RUNNING, a person moved it there on this very
\* trading day: no automatic caller starts trading and no start outlives its day.
RunningWasOrderedToday == EffectiveState(row, today) = "running" => orderedOn = today

\* A process start finds or leaves the switch DISABLED, whatever runs beside it.
StartDisables ==
  \A c \in Callers :
    (call[c].phase = "check" /\ call[c].kind = "reset") ~> row.state = "disabled"

\* An emergency stop takes effect from every state, whatever runs beside it,
\* provided that the row exists when the command starts.
StopLands ==
  \A c \in Callers :
    (call[c].phase = "open" /\ call[c].kind = "emergency" /\ row.day # NoDay)
      ~> row.state = "emergency_stop"
=============================================================================
