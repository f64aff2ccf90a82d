----------------------------- MODULE MCSnmpPoller -----------------------------
(* Instances of SnmpPoller: few items, as many ids as can be open and one   *)
(* more, so that a late answer meets a closed and a reopened id.            *)
EXTENDS SnmpPoller, TLC

IdSymmetry == Permutations(Id)
===============================================================================
