---------------------------- MODULE XomEnforcement ----------------------------
(***************************************************************************)
(* What the privileged layer promises about each frame of a domain, as    *)
(* the specification states it (sections 3, 4.1 and 8), with no p2m, no  *)
(* lock bitmaps and no trees:                                              *)
(*                                                                         *)
(*  - a frame is in exactly one of Normal, SealedWholePage and            *)
(*    SealedSubpageMode;                                                   *)
(*  - only a Normal frame can be sealed, either way, and the only way     *)
(*    back to Normal is unsealing, which drops the frame's locked         *)
(*    sub-pages and its register-clear mark together;                     *)
(*  - a sub-page of a frame in sub-page mode is written at most once, and *)
(*    a write request commits all of its sub-pages or none;               *)
(*  - a sealed frame is marked for register clearing at most once.        *)
(*                                                                         *)
(* cells[f] maps the locked sub-pages of f to the bytes they hold.  A    *)
(* multi-page request may stop part way (section 9, open question); a   *)
(* create request that fails at a frame may leave that frame sealed      *)
(* without a sub-page record, i.e. in whole-page mode.                   *)
(***************************************************************************)
EXTENDS Naturals, Functions, TLC

CONSTANTS Gfns, SubIdx, Payloads, ClearTypes, ClearNone

VARIABLES mode, cells, clear

absVars == <<mode, cells, clear>>

NoCells == [s \in {} |-> ClearNone]

\* Some Normal frames become sealed whole-page; others keep their mode.
SealWholePage ==
  /\ \A f \in Gfns : mode'[f] # mode[f] => mode[f] = "normal" /\ mode'[f] = "whole"
  /\ UNCHANGED <<clear, cells>>

\* Some frames leave their mode and lose locked bytes and mark.
Unseal ==
  \A f \in Gfns :
    \/ mode'[f] = "normal" /\ cells'[f] = NoCells /\ clear'[f] = ClearNone
    \/ mode'[f] = mode[f] /\ cells'[f] = cells[f] /\ clear'[f] = clear[f]

\* Some Normal frames enter sub-page mode with nothing locked; on failure
\* at most one Normal frame is left sealed whole-page.
CreateSubpages ==
  /\ \A f \in Gfns : mode'[f] # mode[f] => mode[f] = "normal"
  /\ \A f, g \in Gfns : mode'[f] # mode[f] /\ mode'[g] # mode[g] /\ mode'[f] = "whole" /\ mode'[g] = "whole" => f = g
  /\ UNCHANGED <<clear, cells>>

\* A frame in sub-page mode gets bytes in sub-pages not locked yet, all
\* of them in one step: the bytes it had locked stay as they were.
WriteSubpages(f) ==
  /\ mode[f] = "sub"
  /\ DOMAIN cells[f] \subseteq DOMAIN cells'[f] /\ cells'[f] # cells[f]
  /\ DOMAIN cells'[f] \subseteq SubIdx
  /\ \A s \in DOMAIN cells'[f] :
       IF s \in DOMAIN cells[f] THEN cells'[f][s] = cells[f][s] ELSE cells'[f][s] \in Payloads
  /\ \A g \in Gfns \ {f} : cells'[g] = cells[g]
  /\ UNCHANGED <<mode, clear>>

\* A sealed frame that has no mark yet is marked.
MarkRegisterClear(f) ==
  /\ mode[f] # "normal"
  /\ clear[f] = ClearNone
  /\ clear'[f] \in ClearTypes
  /\ \A g \in Gfns \ {f} : clear'[g] = clear[g]
  /\ UNCHANGED <<mode, cells>>

AbsInit ==
  /\ mode = [f \in Gfns |-> "normal"]
  /\ cells = [f \in Gfns |-> NoCells]
  /\ clear = [f \in Gfns |-> ClearNone]

AbsNext ==
  \/ SealWholePage
  \/ Unseal
  \/ CreateSubpages
  \/ \E f \in Gfns : WriteSubpages(f) \/ MarkRegisterClear(f)

AbsSpec == AbsInit /\ [][AbsNext]_absVars
=============================================================================
