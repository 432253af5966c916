------------------------------ MODULE MCTrmnl ------------------------------
(***************************************************************************)
(* Small instances of the device plane for TLC.  Each configuration picks  *)
(* the operations it exercises, so that the ones it is about interleave    *)
(* completely.                                                             *)
(***************************************************************************)
EXTENDS Trmnl, TLC

CONSTANTS s1, s2, p1

(* One playlist with one screen, with two, and with one of them twice. *)
OneItem == {[playlist |-> p1, pos |-> 0, screen |-> s1]}
TwoItems == OneItem \union {[playlist |-> p1, pos |-> 1, screen |-> s2]}
ThreeItems == TwoItems \union {[playlist |-> p1, pos |-> 2, screen |-> s1]}

Symmetry == Permutations(Reqs)
=============================================================================
