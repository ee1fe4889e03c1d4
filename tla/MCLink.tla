------------------------------- MODULE MCLink -------------------------------
(***************************************************************************)
(* One worker, one job of one run.                                         *)
(***************************************************************************)
EXTENDS Link

OneJob     == [job |-> "r1"]
NoNeeds    == [job |-> <<>>]
NoneIf     == [job |-> "none"]
OneUnit    == [job |-> 1]
OneHost    == [w1 |-> "h1"]
OneRoom    == [w1 |-> 1]
OneGroup   == [r1 |-> None]
OneLineage == [r1 |-> "r1"]
OneOrder   == [r1 |-> 0]
=============================================================================
