------------------------------ MODULE MCXomSeal ------------------------------
(***************************************************************************)
(* Model-checking instance of XomSeal: three frames of which 0 .. 1 can be *)
(* sealed (a range must end at or below max_mapped_pfn), two subpages per  *)
(* frame and commands of up to two entries, so that a command can fill a  *)
(* frame, aim twice at one subpage, or collide with an earlier lock.      *)
(***************************************************************************)
EXTENDS XomSeal

CONSTANTS p1, p2

MCGfns == 0 .. 2
MCPayloads == {p1, p2}
MCSymmetry == Permutations(MCPayloads)
=============================================================================
