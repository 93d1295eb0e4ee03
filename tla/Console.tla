------------------------------- MODULE Console -------------------------------
(*************************************************************************)
(* Two pages of the read API: how far the limits of the policy are used  *)
(* up (risk_state, limit_usage), and how ready the system is for live    *)
(* trading (measurements, evaluate_gate).  Each answer is put together   *)
(* from several queries that share no snapshot of the database, while    *)
(* plans, fills, problems and snapshots go on being stored.              *)
(*                                                                       *)
(* Of the thirteen limits the module keeps the five that stop a plan as  *)
(* a whole, and of the conditions those that are measured as zero.  A    *)
(* ratio is counted in parts of Unit, rounded half up as it is shown.    *)
(*************************************************************************)
EXTENDS OrderModels, Integers, FiniteSets, Sequences, SequencesExt, FiniteSetsExt

CONSTANTS
  PageLimits,   \* PAPER_RISK_LIMITS: losses in parts of Unit without their sign, and counts
  Unit,         \* 1000000: what a ratio is rounded to
  RecentOrders, \* 20: the orders the rejections in a row are looked for in
  GateWindow,   \* 20: the days in which an incident blocks
  NetAssets,    \* values a new snapshot may have
  Databases,    \* what may be stored when the page is asked for
  MaxFacts      \* bound: what is stored meanwhile

VARIABLES
  seoulDay, early,  \* the day in Seoul, and whether the day in UTC is still the one before
  snaps,         \* account snapshots in the order they were received: day and value
  book,          \* orders in the order they were created: day, state, and whether the broker numbered it
  planDays,      \* days with a plan
  troubles,      \* problems and failures in the order they occurred
  explained,     \* broker numbers a person has explained
  resumedFrom,   \* the orders created before a person last resumed
  lapsed,        \* the troubles that are older than the window of failures
  written,         \* bound
  page,          \* the answer that is being put together
  standing,      \* history: problems that are neither settled nor explained
  free, stopping \* history: rules that did not, and that did, stop a plan during the reading

factVars == <<seoulDay, early, snaps, book, planDays, troubles, explained, resumedFrom, lapsed>>
csHistory == <<standing, free, stopping>>
csVars == <<factVars, written, page, csHistory>>

PauseRules == {"dailyLoss", "drawdown", "attempts", "rejects", "failures"}
SettledStates == {"filled", "rejected", "canceled", "expired"}
Unnumbered == 0    \* a broker number that none of our orders carries

Trouble == [type : {"problem", "failure"}, number : Nat, day : Nat, early : BOOLEAN]
Database ==
  [today : Nat \ {0}, snaps : Seq([day : Nat, nav : Nat \ {0}]),
   book : Seq([day : Nat, state : OrderState, sent : BOOLEAN]), planDays : SUBSET Nat,
   troubles : Seq(Trouble), resumedFrom : Nat]

\* What the writers see to: nothing is of a day to come, snapshots are received in the
\* order of their days, an order of today was planned with a snapshot of today, and a
\* problem is about an order of ours or about none.
Consistent(d) ==
  /\ \A i, j \in DOMAIN d.snaps : i <= j => d.snaps[i].day <= d.snaps[j].day
  /\ \A i \in DOMAIN d.snaps : d.snaps[i].day <= d.today
  /\ d.planDays \subseteq 0 .. d.today
  /\ \A i \in DOMAIN d.book : d.book[i].day = d.today => d.snaps # <<>> /\ Last(d.snaps).day = d.today
  /\ \A i \in DOMAIN d.troubles : d.troubles[i].number \in DOMAIN d.book \cup {Unnumbered}
  /\ d.resumedFrom <= Len(d.book)

ASSUME ConsoleAssumption ==
  /\ {Unit, RecentOrders, GateWindow} \subseteq Nat \ {0} /\ MaxFacts \in Nat
  /\ PageLimits \in [PauseRules -> 1 .. Unit]    \* no loss of more than everything
  /\ NetAssets \subseteq Nat \ {0}
  /\ \A d \in Databases : d \in Database /\ Consistent(d)

\* Nothing is known yet.
Asked ==
  [at |-> "asked", kind |-> "limits",
   since |-> 0, began |-> 0, received |-> 0, nav |-> {}, day |-> {},
   peak |-> {}, opening |-> {}, attempts |-> {}, rejects |-> {}, usage |-> [rule \in PauseRules |-> {}],
   known |-> 0, oldOpen |-> {}, days |-> {}, incidents |-> 0, unreconciled |-> 0,
   reconciled |-> FALSE, quiet |-> FALSE]

-----------------------------------------------------------------------------
(* What a plan made now would be stopped by: OrderPlanner.context and    *)
(* the gate of evaluate_plan, on the newest snapshot.                    *)

Navs(rows) == {rows[i].nav : i \in DOMAIN rows}

Attempts(d) == Cardinality({i \in DOMAIN book : book[i].day = d})

\* consecutive_rejects of the newest orders, down to the first one counted
RejectsFrom(first) ==
  LET lowest == IF Len(book) - RecentOrders >= first THEN Len(book) - RecentOrders + 1 ELSE first
  IN  Cardinality({i \in lowest..Len(book) : \A j \in i..Len(book) : book[j].state = "rejected"})

FailuresAfter(first) ==
  Cardinality({i \in DOMAIN troubles : i > first /\ troubles[i].type = "failure"})

\* session_open_nav: the first snapshot of the day
OpeningNavs(d) ==
  LET ofDay == {i \in DOMAIN snaps : snaps[i].day = d}
  IN  {snaps[i].nav : i \in {j \in ofDay : \A k \in ofDay : j <= k}}

\* nav / basis - 1 <= - loss
Loses(nav, basis, loss) == nav * Unit <= basis * (Unit - loss)

Stops(rule) ==
  CASE rule = "dailyLoss" ->
         \E basis \in OpeningNavs(seoulDay) : Loses(Last(snaps).nav, basis, PageLimits[rule])
    [] rule = "drawdown" ->
         \E basis \in Navs(snaps) : Loses(Last(snaps).nav, basis, PageLimits[rule])
    [] rule = "attempts" -> Attempts(seoulDay) >= PageLimits[rule]
    [] rule = "rejects" -> RejectsFrom(resumedFrom + 1) >= PageLimits[rule]
    [] rule = "failures" -> FailuresAfter(lapsed) >= PageLimits[rule]

Stopping == {rule \in PauseRules : Stops(rule)}

-----------------------------------------------------------------------------
CsInit ==
  /\ \E d \in Databases :
       /\ seoulDay = d.today /\ snaps = d.snaps /\ book = d.book /\ planDays = d.planDays
       /\ troubles = d.troubles /\ resumedFrom = d.resumedFrom
  /\ early \in BOOLEAN /\ explained = {} /\ lapsed = 0 /\ written = 0
  /\ page = Asked
  /\ standing = {i \in DOMAIN troubles :
                   /\ troubles[i].type = "problem"
                   /\ troubles[i].number \in DOMAIN book =>
                        book[troubles[i].number].state \notin SettledStates}
  /\ free = {} /\ stopping = {}

-----------------------------------------------------------------------------
(* What is stored meanwhile.                                             *)

Stored ==
  /\ page.at \notin {"asked", "shown"}
  /\ written < MaxFacts /\ written' = written + 1
  /\ UNCHANGED page

\* The history of the rules runs on with the facts.
Followed ==
  /\ free' = free \cup (PauseRules \ Stopping')
  /\ stopping' = stopping \cup Stopping'

SaveSnapshot(nav) ==
  /\ Stored
  /\ snaps' = Append(snaps, [day |-> seoulDay, nav |-> nav])
  /\ UNCHANGED <<seoulDay, early, book, planDays, troubles, explained, resumedFrom, lapsed, standing>>
  /\ Followed

\* A blocked plan stores no order; one that is not blocked has saved its snapshot before.
SavePlan(states) ==
  /\ Stored
  /\ states # <<>> => snaps # <<>> /\ Last(snaps).day = seoulDay
  /\ planDays' = planDays \cup {seoulDay}
  /\ book' = book \o [i \in DOMAIN states |-> [day |-> seoulDay, state |-> states[i], sent |-> FALSE]]
  /\ UNCHANGED <<seoulDay, early, snaps, troubles, explained, resumedFrom, lapsed, standing>>
  /\ Followed

About(n) == {i \in DOMAIN troubles : troubles[i].type = "problem" /\ troubles[i].number = n}

MoveOrder(i, state) ==
  /\ Stored
  /\ OrderMayBecome(book[i].state, state) /\ book[i].state # state
  /\ book' = [book EXCEPT ![i].state = state,
                          ![i].sent = @ \/ state = "submitted"]
  /\ standing' = IF state \in SettledStates THEN standing \ About(i) ELSE standing
  /\ UNCHANGED <<seoulDay, early, snaps, planDays, troubles, explained, resumedFrom, lapsed>>
  /\ Followed

Occurs(type, n) ==
  troubles' = Append(troubles, [type |-> type, number |-> n, day |-> seoulDay, early |-> early])

RecordFailure ==
  /\ Stored
  /\ Occurs("failure", Unnumbered)
  /\ UNCHANGED <<seoulDay, early, snaps, book, planDays, explained, resumedFrom, lapsed, standing>>
  /\ Followed

\* A problem about an order that has ended, or about a number that is explained, is
\* taken for settled from the start.
TooLate(n) == n \in explained \/ (n # Unnumbered /\ book[n].state \in SettledStates)

RecordProblem(n) ==
  /\ Stored
  /\ n # Unnumbered => book[n].sent
  /\ Occurs("problem", n)
  /\ standing' = IF TooLate(n) THEN standing ELSE standing \cup {Len(troubles) + 1}
  /\ UNCHANGED <<seoulDay, early, snaps, book, planDays, explained, resumedFrom, lapsed>>
  /\ Followed

\* resolve_problems: only a number that is in no record of ours
Explain ==
  /\ Stored
  /\ About(Unnumbered) # {} /\ Unnumbered \notin explained
  /\ explained' = explained \cup {Unnumbered}
  /\ standing' = standing \ About(Unnumbered)
  /\ UNCHANGED <<seoulDay, early, snaps, book, planDays, troubles, resumedFrom, lapsed>>
  /\ Followed

Resume ==
  /\ Stored
  /\ resumedFrom' = Len(book)
  /\ UNCHANGED <<seoulDay, early, snaps, book, planDays, troubles, explained, lapsed, standing>>
  /\ Followed

\* Five minutes pass since the oldest of the failures.
Lapse ==
  /\ Stored
  /\ lapsed < Len(troubles) /\ lapsed' = lapsed + 1
  /\ UNCHANGED <<seoulDay, early, snaps, book, planDays, troubles, explained, resumedFrom, standing>>
  /\ Followed

\* Nine in the morning in Seoul, or midnight.
TimePasses ==
  /\ Stored
  /\ early' = ~ early
  /\ seoulDay' = IF early THEN seoulDay ELSE seoulDay + 1
  /\ UNCHANGED <<snaps, book, planDays, troubles, explained, resumedFrom, lapsed, standing>>
  /\ Followed

-----------------------------------------------------------------------------
(* The page on the limits.                                               *)

\* One more reading changes nothing but the page.
Reads == UNCHANGED <<factVars, written, standing>>

Reading(place, learnt) ==
  /\ page.at = place
  /\ page' = learnt
  /\ Reads /\ UNCHANGED <<free, stopping>>

\* The time the failures are counted from is taken first, then the newest snapshot.
\* Without one the day is that of the newest plan.
AskLimits ==
  /\ page.at = "asked"
  /\ page' = [page EXCEPT
       !.at = "baselines", !.kind = "limits", !.since = lapsed, !.began = seoulDay, !.received = Len(snaps),
       !.nav = IF snaps = <<>> THEN {} ELSE {Last(snaps).nav},
       !.day = IF snaps # <<>> THEN {Last(snaps).day} ELSE IF planDays = {} THEN {} ELSE {Max(planDays)}]
  /\ Reads
  /\ stopping' = Stopping /\ free' = PauseRules \ Stopping

ReadPeak ==
  Reading("baselines",
    [page EXCEPT !.at = "opening", !.peak = IF page.day = {} \/ snaps = <<>> THEN {} ELSE {Max(Navs(snaps))}])

ReadOpening ==
  Reading("opening", [page EXCEPT !.at = "attempts", !.opening = UNION {OpeningNavs(d) : d \in page.day}])

AttemptsShown(days) == Cardinality({i \in DOMAIN book : book[i].day \in days})

ReadAttempts == Reading("attempts", [page EXCEPT !.at = "rejects", !.attempts = {AttemptsShown(page.day)}])

\* Not counted from the resumption: recent_states_query without since.
ReadRejects == Reading("rejects", [page EXCEPT !.at = "failures", !.rejects = {RejectsFrom(1)}])

\* Rounded half up: away from zero
Rounded(n, d) ==
  IF n >= 0 THEN (2 * n + d) \div (2 * d) ELSE - ((d - 2 * n) \div (2 * d))

ShownRatio(n, d) == Rounded(n * Unit, d)

\* The use of a limit on losses: the change of the value over the loss that is allowed.
LossUse(nav, basis, loss) ==
  LET usage == ShownRatio(- ShownRatio(nav - basis, basis), loss)
  IN  IF usage > 0 THEN usage ELSE 0

CountUse(count, limit) == ShownRatio(count, limit)

\* limit_usage: empty where a value is missing
UsageOf(got, failed) ==
  [rule \in PauseRules |->
     CASE rule = "dailyLoss" -> {LossUse(n, b, PageLimits[rule]) : n \in got.nav, b \in got.opening}
       [] rule = "drawdown" -> {LossUse(n, b, PageLimits[rule]) : n \in got.nav, b \in got.peak}
       [] rule = "attempts" -> {CountUse(c, PageLimits[rule]) : c \in got.attempts}
       [] rule = "rejects" -> {CountUse(c, PageLimits[rule]) : c \in got.rejects}
       [] rule = "failures" -> {CountUse(failed, PageLimits[rule])}]

ShowLimits ==
  Reading("failures", [page EXCEPT !.at = "shown", !.usage = UsageOf(page, FailuresAfter(page.since))])

-----------------------------------------------------------------------------
(* The page on live trading.                                             *)

AskGate ==
  /\ page.at = "asked"
  /\ page' = [page EXCEPT
       !.at = "incidents", !.kind = "gate", !.began = seoulDay, !.known = Len(troubles),
       !.oldOpen = {i \in DOMAIN book : book[i].day < seoulDay /\ book[i].state \in OpenStates},
       !.days = {d \in planDays : Cardinality({e \in planDays : e > d}) < GateWindow}]
  /\ Reads /\ UNCHANGED <<free, stopping>>

\* func.date of the instant, in UTC
UtcDay(t) == IF t.early THEN t.day - 1 ELSE t.day

\* Both types of trouble are incidents.
ReadIncidents ==
  Reading("incidents",
    [page EXCEPT !.at = "unreconciled",
                 !.incidents = IF page.days = {} THEN 0
                               ELSE Cardinality({i \in DOMAIN troubles : UtcDay(troubles[i]) >= Min(page.days)})])

\* Mutation: an order that is executed in part counts as settled.
ClosedIfAnyFill(n) ==
  n # Unnumbered /\ book[n].state \in SettledStates \cup {"partially_filled"}

\* The order with this number has ended.
Closed(n) == n # Unnumbered /\ book[n].state \in SettledStates

ReadUnreconciled ==
  Reading("unreconciled",
    [page EXCEPT !.at = "stale",
                 !.unreconciled = Cardinality({i \in DOMAIN troubles :
                   /\ troubles[i].type = "problem"
                   /\ ~ Closed(troubles[i].number) /\ troubles[i].number \notin explained})])

StaleOpen == {i \in DOMAIN book : book[i].state \in OpenStates /\ book[i].day < page.began}

\* evaluate_gate: the two counts are one condition.
ShowGate ==
  Reading("stale",
    [page EXCEPT !.at = "shown", !.reconciled = page.unreconciled + Cardinality(StaleOpen) = 0,
                 !.quiet = page.incidents = 0])

-----------------------------------------------------------------------------
CsReads ==
  \/ AskLimits \/ ReadPeak \/ ReadOpening \/ ReadAttempts \/ ReadRejects \/ ShowLimits
  \/ AskGate \/ ReadIncidents \/ ReadUnreconciled \/ ShowGate

CsWrites ==
  \/ \E nav \in NetAssets : SaveSnapshot(nav)
  \/ \E states \in {<<>>, <<"planned">>, <<"rejected">>} : SavePlan(states)
  \/ \E i \in DOMAIN book, state \in OrderState : MoveOrder(i, state)
  \/ \E n \in DOMAIN book \cup {Unnumbered} : RecordProblem(n)
  \/ RecordFailure \/ Explain \/ Resume \/ Lapse \/ TimePasses

CsNext == CsReads \/ CsWrites

CsSpec == CsInit /\ [][CsNext]_csVars

-----------------------------------------------------------------------------
\* Type correctness.
CsTypeOK ==
  /\ seoulDay \in Nat /\ early \in BOOLEAN
  /\ snaps \in Seq([day : Nat, nav : Nat])
  /\ book \in Seq([day : Nat, state : OrderState, sent : BOOLEAN])
  /\ troubles \in Seq(Trouble)
  /\ planDays \subseteq Nat /\ explained \subseteq {Unnumbered} /\ written \in 0..MaxFacts
  /\ page.at \in {"asked", "baselines", "opening", "attempts", "rejects", "failures",
                  "incidents", "unreconciled", "stale", "shown"}
  /\ standing \subseteq DOMAIN troubles /\ free \subseteq PauseRules /\ stopping \subseteq PauseRules

Shown(kind) == page.at = "shown" /\ page.kind = kind

ShownFree(rule) == \E u \in page.usage[rule] : u < Unit
ShownUsedUp(rule) == \E u \in page.usage[rule] : u >= Unit

\* The page does not flatter: a limit that it shows as not used up did, at some moment
\* of the reading, let a plan pass.  The readings are of different moments, of all orders
\* instead of those since the resumption, of the day of the newest snapshot instead of
\* today, and rounded: all of it errs on the side of the alarm.
FreeIsTrue ==
  Shown("limits") => \A rule \in PauseRules : ShownFree(rule) => rule \in free

\* Short of the limit by less than half a unit.
RoundedUp(basis, loss) ==
  \E n \in page.nav, b \in basis :
    ~ Loses(n, b, loss) /\ 2 * (b - n) * Unit >= b * (2 * loss - 1)

\* The errors on the side of the alarm, rule by rule: the limit is reached only after
\* rounding; the newest snapshot is of an earlier day; a snapshot with a new peak came
\* after the one that is valued; a person resumed after the rejections; failures left
\* the window while new ones came in.
FalseAlarm(rule) ==
  CASE rule = "dailyLoss" -> page.day # {page.began} \/ RoundedUp(page.opening, PageLimits[rule])
    [] rule = "drawdown" -> page.received # Len(snaps) \/ RoundedUp(page.peak, PageLimits[rule])
    [] rule = "attempts" -> page.day # {page.began}
    [] rule = "rejects" -> resumedFrom > 0
    [] rule = "failures" -> lapsed # page.since

\* A limit that the page shows as used up did stop a plan at some moment of the
\* reading, unless one of the errors above explains it.
AlarmIsTrue ==
  Shown("limits") =>
    \A rule \in PauseRules : ShownUsedUp(rule) => rule \in stopping \/ FalseAlarm(rule)

\* docs/spec/paper-to-live-gate.md:61, no item is unreconciled: if the page says so, no
\* problem that was known when it was asked for still stands, and no order that an
\* earlier day had left open then is open still.  Problems that came up meanwhile may be
\* missing: the counts of problems and of orders are of different moments.
ReconciledIsTrue ==
  Shown("gate") /\ page.reconciled =>
    /\ \A i \in standing : i > page.known
    /\ \A i \in page.oldOpen : book[i].state \notin OpenStates

\* docs/spec/paper-to-live-gate.md:63, no severe incident in the last days: if the page
\* says so, there was none since, except before nine in the morning of the first of the
\* days, which is the day before in UTC, and before the first plan.
QuietIsTrue ==
  Shown("gate") /\ page.quiet =>
    \A i \in 1..page.known :
      \/ troubles[i].day <= page.began - GateWindow
      \/ Cardinality(page.days) < GateWindow /\ \A d \in page.days : troubles[i].day < d
      \/ troubles[i].early /\ \A d \in page.days : troubles[i].day <= d

ConsoleContract == [][FreeIsTrue' /\ AlarmIsTrue' /\ ReconciledIsTrue' /\ QuietIsTrue']_csVars
=============================================================================
