------------------------------ MODULE FillRules ------------------------------
(*************************************************************************)
(* What one fill notification does to one order: apply_notification on   *)
(* the order as it was read, and what FillNotificationListener writes of *)
(* the result.  Pure definitions, shared by the listener, the replay of  *)
(* stored notifications and the modules that run beside them.            *)
(* domain/orders/notifications.py, application/trading/notifications.py  *)
(*************************************************************************)
EXTENDS OrderModels, Integers

\* EXPIRED is not among them.
NotificationTerminal == {"filled", "rejected", "canceled"}

Problem(order, n) ==
  \/ n.kind # "cancel" /\ n.orderQuantity # order.quantity
  \/ n.kind = "cancel" /\ n.quantity > order.quantity - order.filled
  \/ order.state \in NotificationTerminal
  \/ n.kind = "execution" /\ order.filled + n.quantity > order.quantity

Cancelled(order, n) ==
  IF n.quantity = 0 \/ n.quantity >= order.quantity - order.filled
  THEN [order EXCEPT !.state = "canceled"]
  ELSE [order EXCEPT !.quantity = @ - n.quantity]

\* Mutation: the order's quantity is taken for the executed one.
ExecutedWhole(order, n) == [order EXCEPT !.filled = n.orderQuantity, !.state = "filled"]

Executed(order, n) ==
  LET accumulated == order.filled + n.quantity
  IN  [order EXCEPT !.filled = accumulated,
                    !.state = IF accumulated = order.quantity
                              THEN "filled" ELSE "partially_filled"]

Applied(order, n) ==
  CASE n.kind = "rejection" -> [order EXCEPT !.state = "rejected"]
    [] n.kind = "cancel"    -> Cancelled(order, n)
    [] n.kind = "execution" -> Executed(order, n)
    [] OTHER                -> order

\* _apply writes a row only when the state moves, or when the quantity shrinks.
Written(row, order, n) ==
  LET new == Applied(order, n)
  IN  CASE new.state # order.state       -> [row EXCEPT !.state = new.state, !.filled = new.filled]
        [] new.quantity # order.quantity -> [row EXCEPT !.quantity = new.quantity]
        [] OTHER                         -> row

Refused(order, n) ==
  \/ Problem(order, n)
  \/ /\ Applied(order, n).state # order.state
     /\ ~ OrderMayBecome(order.state, Applied(order, n).state)
=============================================================================
