----------------------------- MODULE MCCompanions -----------------------------
(*************************************************************************)
(* The components that work beside the order path, on small instances.   *)
(* They share no state, so that a behaviour belongs to one of them and   *)
(* the others stay at rest in a state of their own.                      *)
(*************************************************************************)
EXTENDS Planning, OrderRepair, MarketCalendar, KisCoordination, FactVersions, Sweeps,
        CorporateActions, AdjustedPrices

CONSTANTS job, cli

VARIABLE part

Processes == {job, cli}
EitherProcess == Permutations(Processes)

SortedSymbols == <<"a", "b">>
\* Room for two more shares, and no room at all.
OneShareOrFull == {[cash |-> 4, held |-> [a |-> 0, b |-> 1]], [cash |-> 1, held |-> [a |-> 0, b |-> 4]]}

\* Three shares notified one by one, or two shares whose notifications may share a frame.
ThreeSharesOrPairs == {[size |-> 3, frame |-> 1], [size |-> 2, frame |-> 2]}

\* A dividend, and a correction of its amount.
TwoAmounts == {[cash |-> 1, record |-> 5], [cash |-> 2, record |-> 5]}
\* A closed day before the record date, and a record date that is closed itself.
HolidayBeforeOrAtTheEnd ==
  {[open |-> {1, 2, 4, 5}, listed |-> 1 .. 5], [open |-> {1, 2, 3}, listed |-> 1 .. 5]}

\* A dividend with and without its ex-date, withdrawn, or recorded after the cutoff; and a
\* split on the same day or a merger of shares.
ActionVersion(type, state, ex, record, num, den) ==
  [type |-> type, state |-> state, ex |-> ex, record |-> record, num |-> num, den |-> den]
DividendAndSplit ==
  <<{ActionVersion("cash", "ok", 0, 4, 1, 1), ActionVersion("cash", "ok", 3, 4, 1, 1),
     ActionVersion("cash", "cancelled", 3, 4, 1, 1), ActionVersion("cash", "ok", 0, 5, 1, 1)},
    {ActionVersion("split", "ok", 3, 0, 2, 1), ActionVersion("reverse", "ok", 4, 0, 1, 2),
     ActionVersion("split", "conflict", 4, 0, 2, 1)}>>

Parts == {"planning", "repair", "calendar", "coordination", "facts", "sweeps", "actions", "prices"}

\* What a part looks like while another is at work: where its beginning leaves a choice,
\* the choice is fixed.
CompanionsInit ==
  /\ part \in Parts
  /\ PlanningInit /\ (part # "planning" => cash = 4)
  /\ RepairInit /\ (part # "repair" => shape.size = 2 /\ ~ early)
  /\ CalInit
  /\ KisInit /\ (part # "coordination" => kind = [p \in KisProcesses |-> "token"])
  /\ FactInit /\ (part # "facts" => table = "daily_bar" /\ says = "x")
  /\ SweepsInit /\ (part # "sweeps" => sweepKind = "NAV")
  /\ ActionInit /\ (part # "actions" => actionSource = "page" /\ 3 \in calendar.open)
  /\ PricesInit /\ (part # "prices" => method = "total_return")
  \* Bounds: early executions with two shares only, and one kind of credential for all.
  /\ early => shape.size = 2
  /\ \A p, q \in KisProcesses : kind[p] = kind[q]

CompanionsNext ==
  /\ part' = part
  /\ part # "planning" => UNCHANGED planningVars
  /\ part # "repair" => UNCHANGED repairVars
  /\ part # "calendar" => UNCHANGED calVars
  /\ part # "coordination" => UNCHANGED kisVars
  /\ part # "facts" => UNCHANGED factVars
  /\ part # "sweeps" => UNCHANGED sweepVars
  /\ part # "actions" => UNCHANGED actionVars
  /\ part # "prices" => UNCHANGED priceVars
  /\ \/ part = "planning" /\ PlanningNext
     \/ part = "repair" /\ RepairNext
     \/ part = "calendar" /\ CalNext
     \/ part = "coordination" /\ KisNext
     \/ part = "facts" /\ FactNext
     \/ part = "sweeps" /\ SweepsNext
     \/ part = "actions" /\ ActionNext
     \/ part = "prices" /\ PricesNext

companionsVars == <<part, planningVars, repairVars, calVars, kisVars, factVars, sweepVars,
                    actionVars, priceVars>>

CompanionsSpec == CompanionsInit /\ [][CompanionsNext]_companionsVars

\* Types of the part that is at work; the others are as they began.
CompanionsTypeOK ==
  CASE part = "planning" -> PlanningTypeOK
    [] part = "repair" -> RepairTypeOK
    [] part = "calendar" -> CalTypeOK
    [] part = "coordination" -> KisTypeOK
    [] part = "facts" -> FactTypeOK
    [] part = "sweeps" -> SweepsTypeOK
    [] part = "actions" -> ActionTypeOK
    [] part = "prices" -> PricesTypeOK
===============================================================================
