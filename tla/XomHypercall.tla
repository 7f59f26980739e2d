----------------------------- MODULE XomHypercall -----------------------------
(***************************************************************************)
(* The batch loop of handle_xom_seal (xen/arch/x86/xom_seal.c) on top of   *)
(* the commands of XomSeal.                                                *)
(*                                                                         *)
(* Some vCPUs of the guest (Vcpus) each pass a batch of mmuext_op          *)
(* elements, Batch[v].  The loop runs one element per step: the element's *)
(* handler is one XomSeal command executed under xom_page_lock, and        *)
(* between two elements the lock is free, so the elements of different    *)
(* vCPUs, the guest's stores and single commands of other callers          *)
(* (XomSeal's Next) interleave.  From the second element on, the loop may *)
(* be preempted and returns -ERESTART; pdone is written only when the     *)
(* whole batch succeeds.                                                   *)
(*                                                                         *)
(* The caller is not in this repository.  It is modelled from the         *)
(* specification (section 6): it resumes a preempted batch at the offset  *)
(* the hypercall reported in pdone, and gives up on any other error.      *)
(***************************************************************************)
EXTENDS XomSeal

CONSTANTS
  Vcpus,        \* the vCPUs that issue batches
  Batch,        \* Batch[v]: the sequence of elements vCPU v wants executed
  MaxPreempts   \* bound on preemptions (hypercall_preempt_check true)

\* One mmuext_op element: the command code, op.arg1.mfn, op.arg2.nr_ents
\* (a count, or a reg_clear_type) and, for WRITE_XOM_SPAGES, the command
\* the guest placed in its source frame (op.arg2.src_mfn).
Ops == [cmd : {"MARK_XOM", "UNMARK_XOM", "CREATE_XOM_SPAGES",
               "WRITE_XOM_SPAGES", "MARK_REG_CLEAR"},
        gfn : Gfns, arg : Nat, wcmd : Seq(WriteInfo)]

ASSUME \A v \in Vcpus : Batch[v] \in Seq(Ops)
ASSUME MaxPreempts \in Nat

VARIABLES
  phase,     \* per vCPU: "idle" (in the guest), "call" (in the loop), "done"
  base,      \* per vCPU: the index in Batch[v] the call's uops starts at
  i,         \* per vCPU: the loop counter i of handle_xom_seal
  pdone,     \* per vCPU: the guest word pdone points to
  ret,       \* per vCPU: what the last call returned to the guest
  execs,     \* history: per vCPU and element, how often its handler ran
  preempts   \* preemptions so far

hvars == <<phase, base, i, pdone, ret, execs, preempts>>
allVars == <<vars, hvars>>

\* The number of elements the current call of v was passed (count).
Count(v) == Len(Batch[v]) - base[v]

\* The switch of handle_xom_seal: the handler of the element, success or
\* one of its error returns, with rc' its return value.
ExecOp(op) ==
  CASE op.cmd = "MARK_XOM" ->
         SetXomSeal(op.gfn, op.arg) \/ RangeRejected(op.gfn, op.arg)
    [] op.cmd = "UNMARK_XOM" ->
         ClearXomSeal(op.gfn, op.arg) \/ RangeRejected(op.gfn, op.arg)
    [] op.cmd = "CREATE_XOM_SPAGES" ->
         CreateXomSubpages(op.gfn, op.arg) \/ RangeRejected(op.gfn, op.arg)
    [] op.cmd = "WRITE_XOM_SPAGES" ->
         WriteIntoSubpage(op.gfn, op.wcmd) \/ WriteRejected(op.gfn, op.wcmd)
    [] op.cmd = "MARK_REG_CLEAR" ->
         MarkRegClearPage(op.gfn, op.arg) \/ MarkRejected(op.gfn, op.arg)

\* The guest issues the hypercall for the elements it has not had
\* reported done: uops + pdone, count - pdone.
Issue(v) ==
  /\ phase[v] = "idle"
  /\ pdone[v] < Len(Batch[v])
  /\ phase' = [phase EXCEPT ![v] = "call"]
  /\ base' = [base EXCEPT ![v] = pdone[v]]
  /\ i' = [i EXCEPT ![v] = 0]
  /\ UNCHANGED <<pdone, ret, execs, preempts, vars>>

\* The check at the top of each iteration: old_guest_table, or
\* hypercall_preempt_check() from the second element on.
MayPreempt(v) == i[v] # 0

\* The loop returns -ERESTART; pdone is not written.  The guest resumes.
Preempt(v) ==
  /\ phase[v] = "call"
  /\ MayPreempt(v)
  /\ preempts < MaxPreempts
  /\ phase' = [phase EXCEPT ![v] = "idle"]
  /\ ret' = [ret EXCEPT ![v] = "ERESTART"]
  /\ preempts' = preempts + 1
  /\ UNCHANGED <<base, i, pdone, execs, vars>>

\* One iteration of the loop: copy the element, run its handler under
\* xom_page_lock, and return its error, or go on with i + 1.  After the
\* last element the loop writes i to pdone and returns 0.
Exec(v) ==
  LET k == base[v] + i[v] + 1 IN
  /\ phase[v] = "call"
  /\ ExecOp(Batch[v][k])
  /\ execs' = [execs EXCEPT ![v][k] = @ + 1]
  /\ IF rc' # "OK"
       THEN /\ phase' = [phase EXCEPT ![v] = "done"]
            /\ ret' = [ret EXCEPT ![v] = rc']
            /\ UNCHANGED <<i, pdone>>
       ELSE IF i[v] + 1 = Count(v)
       THEN /\ phase' = [phase EXCEPT ![v] = "done"]
            /\ ret' = [ret EXCEPT ![v] = "OK"]
            /\ pdone' = [pdone EXCEPT ![v] = i[v] + 1]
            /\ UNCHANGED i
       ELSE /\ i' = [i EXCEPT ![v] = @ + 1]
            /\ UNCHANGED <<phase, ret, pdone>>
  /\ UNCHANGED <<base, preempts>>

HypercallInit ==
  /\ Init
  /\ phase = [v \in Vcpus |-> "idle"]
  /\ base = [v \in Vcpus |-> 0]
  /\ i = [v \in Vcpus |-> 0]
  /\ pdone = [v \in Vcpus |-> 0]
  /\ ret = [v \in Vcpus |-> "NONE"]
  /\ execs = [v \in Vcpus |-> [k \in 1 .. Len(Batch[v]) |-> 0]]
  /\ preempts = 0

HypercallNext ==
  \/ \E v \in Vcpus : Issue(v) \/ Preempt(v) \/ Exec(v)
  \/ Next /\ UNCHANGED hvars

\* Only safety is checked, so the specification assumes no fairness.
HypercallSpec == HypercallInit /\ [][HypercallNext]_allVars

-----------------------------------------------------------------------------
(* Properties                                                              *)

\* Spec 4.1: a preempted batch is resumed at the next unprocessed element,
\* "no partial state is lost or duplicated": the handler of every element
\* a vCPU passed runs at most once, across preemptions and retries.
ElementsCommittedOnce ==
  \A v \in Vcpus : \A k \in DOMAIN execs[v] : execs[v][k] <= 1
=============================================================================
