---------------------------- MODULE MCGcmStream ----------------------------
(* Keys and IVs for the GCM model. *)
EXTENDS GcmStream, TLC

CONSTANTS k1, k2, v1, v2

MCOneKey == {k1}
MCIvs == {v1, v2}
MCSymmetry == Permutations(MCIvs)
====
