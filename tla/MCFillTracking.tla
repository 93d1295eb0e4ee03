--------------------------- MODULE MCFillTracking ----------------------------
(*************************************************************************)
(* FillTracking on small instances.                                      *)
(*************************************************************************)
EXTENDS FillTracking, TLC

Setting(listed, early, losses) ==
  [perOrderRows |-> listed, earlySubmit |-> early, maxDrops |-> losses]

\* The paper environment, where orders may also go out early.
PaperEarly == {Setting(FALSE, TRUE, 2)}
PaperWithoutLoss == {Setting(FALSE, FALSE, 0)}
\* The paper environment and the real one, whose report lists the orders.
PaperOrReal == {Setting(FALSE, FALSE, 1), Setting(TRUE, TRUE, 0)}

OrderSymmetry == Permutations(Orders)
=============================================================================
