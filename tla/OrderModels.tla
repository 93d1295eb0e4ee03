----------------------------- MODULE OrderModels -----------------------------
(*************************************************************************)
(* The two state graphs of the trading domain and the rule that a record *)
(* of an earlier trading day counts as DISABLED.  Pure definitions,      *)
(* shared by every module that changes an order or the automation state. *)
(* domain/orders/models.py, domain/orders/recovery.py                    *)
(*************************************************************************)
EXTENDS Naturals

OrderState == {"planned", "submitted", "partially_filled", "filled",
               "rejected", "canceled", "expired"}

AutomationState == {"disabled", "armed", "running", "paused", "emergency_stop"}

OpenStates == {"submitted", "partially_filled"}

UnsettledStates == OpenStates \cup {"planned"}

OrderTransitions ==
  [planned          |-> {"submitted", "rejected", "canceled"},
   submitted        |-> {"partially_filled", "filled", "rejected", "canceled", "expired"},
   partially_filled |-> {"partially_filled", "filled", "canceled", "expired"},
   filled           |-> {},
   rejected         |-> {},
   canceled         |-> {},
   expired          |-> {}]

AutomationTransitions ==
  [disabled       |-> {"armed", "emergency_stop"},
   armed          |-> {"running", "paused", "disabled", "emergency_stop"},
   running        |-> {"paused", "disabled", "emergency_stop"},
   paused         |-> {"armed", "disabled", "emergency_stop"},
   emergency_stop |-> {"disabled"}]

\* Mutation: a state may be entered again.
OrderMayRepeat(current, requested) == requested \in OrderTransitions[current] \cup {current}

\* next_order_state and next_automation_state raise exactly when these are FALSE.
OrderMayBecome(current, requested) == requested \in OrderTransitions[current]

\* Mutation: a paused switch cannot be stopped.
AutomationPausedStays(current, requested) ==
  requested \in AutomationTransitions[current] \ (IF current = "paused" THEN {"emergency_stop"} ELSE {})

AutomationMayBecome(current, requested) == requested \in AutomationTransitions[current]

-----------------------------------------------------------------------------
\* Trading days are numbered from 1; day 0 is a record that carries no date.
NoDay == 0

\* Mutation: the record of an earlier day is believed.
NeverStale(record, tradingDate) == FALSE

IsStaleTradingDay(record, tradingDate) ==
  /\ record.day # NoDay
  /\ record.day # tradingDate
  /\ record.state # "disabled"

EffectiveState(record, tradingDate) ==
  IF IsStaleTradingDay(record, tradingDate) THEN "disabled" ELSE record.state
=============================================================================
