----------------------------- MODULE MCCipherCtx -----------------------------
(***************************************************************************)
(* Model-checking instance of CipherCtx: two context slots of either     *)
(* cipher over the pool of MCSubpagePool (subpages of 2 bytes, pages of 2 *)
(* subpages, groups of 4 subpages).  A blob of 2 bytes takes one subpage, *)
(* so a group holds four blobs and the second page of a group gets        *)
(* marked; with one group (MaxGroups) the pool can run out.               *)
(***************************************************************************)
EXTENDS CipherCtx
=============================================================================
