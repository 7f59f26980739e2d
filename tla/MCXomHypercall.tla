---------------------------- MODULE MCXomHypercall ----------------------------
(***************************************************************************)
(* Model-checking instance of XomHypercall: frames 0 .. 1 (a range must   *)
(* end at or below max_mapped_pfn = 2, so gfn 1 with two pages overflows), *)
(* two subpages per frame and write commands of up to two entries.  vCPU v1 *)
(* runs the first two elements of the batch libxom uses to seal a blob:   *)
(* create a sub-page frame, then write one subpage.  Every other command, *)
(* of any other caller, can land between them.                            *)
(***************************************************************************)
EXTENDS XomHypercall

CONSTANTS p1, p2, v1

MCGfns == 0 .. 1
MCPayloads == {p1, p2}
MCVcpus == {v1}

Op(c, g, a, w) == [cmd |-> c, gfn |-> g, arg |-> a, wcmd |-> w]

MCBatch ==
  [v \in MCVcpus |->
     << Op("CREATE_XOM_SPAGES", 0, 1, <<>>),
        Op("WRITE_XOM_SPAGES", 0, 0, << [target |-> 0, data |-> p1] >>) >>]
\* States that differ only in rc, the return value of the last command,
\* are the same state: no guard reads rc, each step only sets it (Exec
\* reads the value its own handler returns).
MCView == <<access, subpages, regClear, content, sealed, faults, hvars>>
=============================================================================
