---------------------------- MODULE MCCtrStream ----------------------------
(* Model values for the CTR stream: two IV nonces, under symmetry. *)
EXTENDS CtrStream, TLC

CONSTANTS n1, n2

MCNonces == {n1, n2}
MCSymmetry == Permutations(MCNonces)
====
