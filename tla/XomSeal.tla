------------------------------- MODULE XomSeal -------------------------------
(***************************************************************************)
(* The XOM sealing state machine of one domain (xen/arch/x86/xom_seal.c). *)
(*                                                                         *)
(* Each action is one command of handle_xom_seal executed while the       *)
(* domain's xom_page_lock is held, so commands of different vCPUs are     *)
(* totally ordered and each is one atomic step.  The guest's other vCPUs  *)
(* keep running and may read or write any frame whose SLAT access is      *)
(* still rwx; GuestWrite models their writes, and the invariants model    *)
(* what their reads could observe.                                        *)
(*                                                                         *)
(* Frames are the naturals of Gfns.  A lock bitmap (lock_status, one bit  *)
(* per subpage) is the set of locked subpage indices.  The two rb-trees   *)
(* d->xom_subpages and d->xom_reg_clear_pages are partial functions keyed *)
(* by frame.  rc is the value the handler of the last command returned;   *)
(* error returns that change no state are actions of their own.           *)
(***************************************************************************)
EXTENDS Naturals, FiniteSets, Sequences, Functions, TLC

CONSTANTS
  Gfns,              \* the frames of the domain's p2m
  MaxMappedPfn,      \* p2m->max_mapped_pfn
  NrSub,             \* subpages per page: PAGE_SIZE / SUBPAGE_SIZE (32)
  MaxSubpagesPerCmd, \* MAX_SUBPAGES_PER_CMD (31)
  MaxNr,             \* largest nr_pages a guest request carries
  Payloads,          \* the SUBPAGE_SIZE data blocks a command can carry
  Plain,             \* content the guest wrote itself through an rwx mapping
  Nop,               \* the 0x90 fill clear_xom_seal writes before unsealing
  AccessFaults,      \* bound on failing p2m_set_mem_access_single calls
  ResourceFaults,    \* bound on failing xmalloc / get_page_from_gfn / get_page_type
  IndexKeys          \* the frames over which the metadata trees are checked

ASSUME Gfns \subseteq Nat /\ MaxMappedPfn \in Nat
ASSUME NrSub \in Nat \ {0} /\ MaxSubpagesPerCmd \in Nat \ {0} /\ MaxNr \in Nat
ASSUME {Plain, Nop} \cap Payloads = {} /\ Plain # Nop
ASSUME AccessFaults \in Nat /\ ResourceFaults \in Nat

\* The rb-tree code behind the partial functions subpages and regClear.
INSTANCE MetadataIndex

\* REG_CLEAR_TYPE_NONE / _VECTOR / _FULL of xen/include/xen/xom_seal.h
REG_CLEAR_TYPE_NONE == 0
REG_CLEAR_TYPE_VECTOR == 1
REG_CLEAR_TYPE_FULL == 2

SubIdx == 0 .. NrSub - 1
Content == Payloads \cup {Plain, Nop}

\* One xom_subpage_write_info: a target subpage and its data block.
WriteInfo == [target : SubIdx, data : Payloads]

\* The xom_subpage_write_command a guest can place in its source frame;
\* commands with num_subpages > MAX_SUBPAGES_PER_CMD or an out-of-range
\* target fail validation without effect and are left out.
Commands == UNION {[1 .. n -> WriteInfo] : n \in 1 .. MaxSubpagesPerCmd}

\* The reg_clear_type argument: every value the guest can pass that the
\* model distinguishes (0 and > FULL are rejected).
ClearTypeArgs == 0 .. REG_CLEAR_TYPE_FULL + 1

VARIABLES
  access,    \* SLAT access of each frame: "rwx" or "x" (p2m_access_x)
  subpages,  \* d->xom_subpages: frame -> lock_status (set of locked subpages)
  regClear,  \* d->xom_reg_clear_pages: frame -> reg_clear_type
  content,   \* the bytes of each subpage of each frame
  sealed,    \* history: subpages whose current bytes were written by the
             \* hypervisor into XOM, or were in the frame while it was XOM
  faults,    \* failures injected so far, per kind
  rc         \* the return code of the last command

vars == <<access, subpages, regClear, content, sealed, faults, rc>>

\* The return codes: 0, the errnos the handlers return, and EP2M for the
\* error p2m_set_mem_access_single passes on.
Errors == {"EINVAL", "EOVERFLOW", "ENOMEM", "EPERM", "EP2M"}
RetCodes == {"OK"} \cup Errors

-----------------------------------------------------------------------------
(* Helpers                                                                 *)

\* The frames gfn, gfn+1, ..., gfn+n-1 the loops of the handlers visit.
Frames(gfn, n) == {gfn + i : i \in 0 .. n - 1}

\* The range check at the top of set/clear/create: `!nr_pages` returns
\* -EINVAL and `gfn + nr_pages > max_mapped_pfn` returns -EOVERFLOW.
RangeOk(gfn, nr) == nr # 0 /\ gfn + nr <= MaxMappedPfn

\* p2m_set_mem_access_single on every frame of S, except those of stuck
\* whose call failed.
SetAccess(S, stuck, a) ==
  [f \in Gfns |-> IF f \in S \ stuck THEN a ELSE access[f]]

\* Choice of the frames of S on which p2m_set_mem_access_single fails,
\* within what is left of the AccessFaults bound.
StuckSets(S) ==
  {T \in SUBSET S : Cardinality(T) <= AccessFaults - faults.access}

\* get_reg_clear_type once the rip has been translated to frame gfn.
GetRegClearType(gfn) ==
  IF gfn \in DOMAIN regClear THEN regClear[gfn] ELSE REG_CLEAR_TYPE_NONE

\* The data the last entry of cmd aimed at subpage s leaves behind: the
\* execute loop of write_into_subpage copies the entries in order.
LastWrite(cmd, s) ==
  cmd[CHOOSE i \in DOMAIN cmd :
        cmd[i].target = s /\ \A j \in DOMAIN cmd : j > i => cmd[j].target # s].data

Targets(cmd) == {cmd[i].target : i \in DOMAIN cmd}

-----------------------------------------------------------------------------
(* Commands of handle_xom_seal                                             *)

\* MMUEXT_MARK_XOM: set_xom_seal.  Each frame is made execute-only; the
\* loop breaks at the first failing p2m_set_mem_access_single (stop).
SetXomSeal(gfn, nr) ==
  /\ RangeOk(gfn, nr)
  /\ \E stop \in 0 .. nr :
       /\ stop < nr => faults.access < AccessFaults
       /\ access' = SetAccess(Frames(gfn, stop), {}, "x")
       /\ sealed' = sealed \cup (Frames(gfn, stop) \X SubIdx)
       /\ faults' = [faults EXCEPT !.access = @ + (IF stop < nr THEN 1 ELSE 0)]
       /\ rc' = IF stop < nr THEN "EP2M" ELSE "OK"
  /\ UNCHANGED <<subpages, regClear, content>>

(* Mutants of the helpers below, each a plausible slip in that code.     *)
UnsealFramesNoFill(xom) ==
  /\ UNCHANGED <<content, sealed>>
  /\ subpages' = Restrict(subpages, DOMAIN subpages \ xom)
  /\ regClear' = Restrict(regClear, DOMAIN regClear \ xom)

UnsealFramesKeepLockBitmap(xom) ==
  /\ content' = [f \in Gfns |-> IF f \in xom THEN [s \in SubIdx |-> Nop] ELSE content[f]]
  /\ sealed' = {p \in sealed : p[1] \notin xom}
  /\ UNCHANGED subpages
  /\ regClear' = Restrict(regClear, DOMAIN regClear \ xom)

ValidClearTypeOffByOne(type) == type # 0 /\ type <= REG_CLEAR_TYPE_FULL + 1

\* What clear_xom_seal does to each XOM frame xom of its range besides the
\* access change: memset with 0x90, then remove the frame's entries from
\* d->xom_subpages and d->xom_reg_clear_pages.
UnsealFrames(xom) ==
  /\ content' = [f \in Gfns |-> IF f \in xom THEN [s \in SubIdx |-> Nop] ELSE content[f]]
  /\ sealed' = {p \in sealed : p[1] \notin xom}
  /\ subpages' = Restrict(subpages, DOMAIN subpages \ xom)
  /\ regClear' = Restrict(regClear, DOMAIN regClear \ xom)

\* MMUEXT_UNMARK_XOM: clear_xom_seal.  Frames that are not XOM are skipped.
\* An XOM frame is filled with 0x90, set back to rwx (a failure there is
\* not checked: ret is overwritten by the next XOM frame, so only the last
\* one's result is returned) and loses both of its metadata entries.  A
\* failing get_page_from_gfn (-EINVAL) or get_page_type (-EPERM) on an XOM
\* frame ends the loop at that frame (stop) with nothing done to it.
ClearXomSeal(gfn, nr) ==
  /\ RangeOk(gfn, nr)
  /\ \E stop \in 0 .. nr :
       LET xom == {f \in Frames(gfn, stop) : access[f] = "x"}
       IN /\ stop < nr => /\ access[gfn + stop] = "x"
                          /\ faults.resource < ResourceFaults
          /\ \E stuck \in StuckSets(xom) :
               /\ access' = SetAccess(xom, stuck, "rwx")
               /\ faults' = [access |-> faults.access + Cardinality(stuck),
                             resource |-> faults.resource + (IF stop < nr THEN 1 ELSE 0)]
               /\ IF stop < nr THEN rc' \in {"EINVAL", "EPERM"}
                  ELSE rc' = IF \E f \in stuck : \A g \in xom : g <= f THEN "EP2M" ELSE "OK"
          /\ UnsealFrames(xom)

\* A create_xom_subpages loop without the get_entry check.
NotXomYetNoCheck(f) == TRUE

\* The check at the top of each iteration of create_xom_subpages: the
\* frame must not be XOM already.
NotXomYet(f) == access[f] = "rwx"

\* MMUEXT_CREATE_XOM_SPAGES: create_xom_subpages.  Each frame must not be
\* XOM yet (else -EINVAL at that frame); it is made XOM, with the result of
\* p2m_set_mem_access_single ignored, and then gets an empty lock bitmap.
\* add_page_info_entry fails when xmalloc fails or when the frame already
\* has an entry (insert returns -EEXIST); the loop then ends with -ENOMEM
\* after that frame was already made XOM.  made: the frames completed.  A
\* completed loop returns the result of the last access change.
CreateXomSubpages(gfn, nr) ==
  /\ RangeOk(gfn, nr)
  /\ \E stop \in 0 .. nr :
       LET made == Frames(gfn, stop)
           last == gfn + stop
           addFails == stop < nr /\ NotXomYet(last)
           setTo == made \cup (IF addFails THEN {last} ELSE {})
           oom == addFails /\ last \notin DOMAIN subpages
       IN /\ \A f \in made : NotXomYet(f) /\ f \notin DOMAIN subpages
          /\ oom => faults.resource < ResourceFaults
          /\ \E stuck \in StuckSets(setTo) :
               /\ access' = SetAccess(setTo, stuck, "x")
               /\ sealed' = sealed \cup ((setTo \ stuck) \X SubIdx)
               /\ faults' = [access |-> faults.access + Cardinality(stuck),
                             resource |-> faults.resource + (IF oom THEN 1 ELSE 0)]
               /\ rc' = CASE stop = nr /\ gfn + nr - 1 \in stuck -> "EP2M"
                           [] stop = nr -> "OK"
                           [] ~NotXomYet(last) -> "EINVAL"
                           [] OTHER -> "ENOMEM"
          /\ subpages' = [f \in made |-> {}] @@ subpages
  /\ UNCHANGED <<regClear, content>>

\* The validation loop of write_into_subpage for an in-range command: no
\* entry may aim at a subpage whose lock bit is already set.
ValidCommand(gfn, cmd) ==
  \A i \in DOMAIN cmd : cmd[i].target \notin subpages[gfn]

\* MMUEXT_WRITE_XOM_SPAGES: write_into_subpage.  The command is copied out
\* of the source frame once; every entry is validated against the lock
\* bitmap before any is executed, then each entry is copied into its
\* subpage and its bit set.
WriteIntoSubpage(gfn, cmd) ==
  /\ gfn \in DOMAIN subpages
  /\ ValidCommand(gfn, cmd)
  /\ content' = [content EXCEPT ![gfn] =
                   [s \in SubIdx |-> IF s \in Targets(cmd) THEN LastWrite(cmd, s)
                                                           ELSE @[s]]]
  /\ subpages' = [subpages EXCEPT ![gfn] = @ \cup Targets(cmd)]
  /\ sealed' = sealed \cup ({gfn} \X Targets(cmd))
  /\ rc' = "OK"
  /\ UNCHANGED <<access, regClear, faults>>

\* The first check of mark_reg_clear_page: VECTOR or FULL only.
ValidClearType(type) == type # 0 /\ type <= REG_CLEAR_TYPE_FULL

\* MMUEXT_MARK_REG_CLEAR: mark_reg_clear_page.  The type must be VECTOR or
\* FULL, the frame must not be marked yet and must be XOM (else
\* MarkRejected).
MarkRegClearPage(gfn, type) ==
  /\ ValidClearType(type)
  /\ gfn \notin DOMAIN regClear
  /\ access[gfn] = "x"
  /\ regClear' = [f \in {gfn} |-> type] @@ regClear
  /\ rc' = "OK"
  /\ UNCHANGED <<access, subpages, content, sealed, faults>>

\* The early returns of set_xom_seal, clear_xom_seal and
\* create_xom_subpages: nr_pages = 0 gives -EINVAL and a range with
\* gfn + nr_pages > max_mapped_pfn gives -EOVERFLOW, with no effect.
RangeRejected(gfn, nr) ==
  /\ ~RangeOk(gfn, nr)
  /\ rc' = IF nr = 0 THEN "EINVAL" ELSE "EOVERFLOW"
  /\ UNCHANGED <<access, subpages, regClear, content, sealed, faults>>

\* The error returns of write_into_subpage, none of which writes: no lock
\* bitmap for gfn_dest, or an entry aimed at a locked subpage (-EINVAL);
\* or get_page_from_gfn failing on either frame (-EINVAL) or get_page_type
\* on the destination (-EPERM), within the resource-fault bound.
WriteRejected(gfn, cmd) ==
  \/ /\ gfn \in DOMAIN subpages => ~ValidCommand(gfn, cmd)
     /\ rc' = "EINVAL"
     /\ UNCHANGED <<access, subpages, regClear, content, sealed, faults>>
  \/ /\ gfn \in DOMAIN subpages /\ ValidCommand(gfn, cmd)
     /\ faults.resource < ResourceFaults
     /\ faults' = [faults EXCEPT !.resource = @ + 1]
     /\ rc' \in {"EINVAL", "EPERM"}
     /\ UNCHANGED <<access, subpages, regClear, content, sealed>>

\* The error returns of mark_reg_clear_page: a bad type, a frame already
\* marked or not XOM (-EINVAL), or a failing xmalloc (-ENOMEM).
MarkRejected(gfn, type) ==
  \/ /\ ~ValidClearType(type) \/ gfn \in DOMAIN regClear \/ access[gfn] # "x"
     /\ rc' = "EINVAL"
     /\ UNCHANGED <<access, subpages, regClear, content, sealed, faults>>
  \/ /\ ValidClearType(type) /\ gfn \notin DOMAIN regClear /\ access[gfn] = "x"
     /\ faults.resource < ResourceFaults
     /\ faults' = [faults EXCEPT !.resource = @ + 1]
     /\ rc' = "ENOMEM"
     /\ UNCHANGED <<access, subpages, regClear, content, sealed>>

\* Another vCPU of the guest storing to a frame it can still write.
GuestWrite(gfn, s) ==
  /\ access[gfn] = "rwx"
  /\ content' = [content EXCEPT ![gfn][s] = Plain]
  /\ sealed' = sealed \ {<<gfn, s>>}
  /\ UNCHANGED <<access, subpages, regClear, faults, rc>>

-----------------------------------------------------------------------------
Init ==
  /\ access = [f \in Gfns |-> "rwx"]
  /\ subpages = [f \in {} |-> {}]
  /\ regClear = [f \in {} |-> REG_CLEAR_TYPE_NONE]
  /\ content = [f \in Gfns |-> [s \in SubIdx |-> Plain]]
  /\ sealed = {}
  /\ faults = [access |-> 0, resource |-> 0]
  /\ rc = "OK"

Next ==
  \/ \E gfn \in Gfns, nr \in 0 .. MaxNr :
       \/ SetXomSeal(gfn, nr)
       \/ ClearXomSeal(gfn, nr)
       \/ CreateXomSubpages(gfn, nr)
       \/ RangeRejected(gfn, nr)
  \/ \E gfn \in Gfns, cmd \in Commands :
       WriteIntoSubpage(gfn, cmd) \/ WriteRejected(gfn, cmd)
  \/ \E gfn \in Gfns, type \in ClearTypeArgs :
       MarkRegClearPage(gfn, type) \/ MarkRejected(gfn, type)
  \/ \E gfn \in Gfns, s \in SubIdx : GuestWrite(gfn, s)

Spec == Init /\ [][Next]_vars

-----------------------------------------------------------------------------
(* Refinement mapping onto XomEnforcement: an XOM frame is in sub-page    *)
(* mode when it has a lock bitmap and in whole-page mode otherwise; the   *)
(* locked sub-pages carry the frame's bytes; the mark is what             *)
(* get_reg_clear_type reports.                                            *)

EnforcementMode ==
  [f \in Gfns |-> IF access[f] = "rwx" THEN "normal"
                  ELSE IF f \in DOMAIN subpages THEN "sub" ELSE "whole"]

LockedCells ==
  [f \in Gfns |-> IF f \in DOMAIN subpages
                  THEN [s \in subpages[f] |-> content[f][s]]
                  ELSE [s \in {} |-> REG_CLEAR_TYPE_NONE]]

Enforcement == INSTANCE XomEnforcement
  WITH SubIdx <- SubIdx, ClearTypes <- {REG_CLEAR_TYPE_VECTOR, REG_CLEAR_TYPE_FULL},
       ClearNone <- REG_CLEAR_TYPE_NONE, mode <- EnforcementMode,
       cells <- LockedCells, clear <- [f \in Gfns |-> GetRegClearType(f)]

-----------------------------------------------------------------------------
(* Properties                                                              *)

\* Every variable keeps its type; reg_clear_type is VECTOR or FULL.
TypeOK ==
  /\ access \in [Gfns -> {"rwx", "x"}]
  /\ DOMAIN subpages \subseteq Gfns
  /\ \A f \in DOMAIN subpages : subpages[f] \subseteq SubIdx
  /\ DOMAIN regClear \subseteq Gfns
  /\ \A f \in DOMAIN regClear : regClear[f] \in {REG_CLEAR_TYPE_VECTOR, REG_CLEAR_TYPE_FULL}
  /\ content \in [Gfns -> [SubIdx -> Content]]
  /\ sealed \subseteq Gfns \X SubIdx
  /\ faults \in [access : 0 .. AccessFaults, resource : 0 .. ResourceFaults]
  /\ rc \in RetCodes

\* The confidentiality the XOM design exists for: bytes the hypervisor
\* wrote through write_into_subpage, or that sat in a frame while it was
\* XOM, are never in a frame the guest can read.  It depends on
\* clear_xom_seal filling a frame with 0x90 before granting rwx, and on a
\* lock bitmap never outliving its frame's XOM access.
SealedDataNeverReadable ==
  \A p \in sealed : access[p[1]] = "x"

\* A lock bitmap exists only for an XOM frame (spec: a PageRecord exists
\* only in sub-page mode); clear_xom_seal must drop it when it unseals.
SubpageRecordOnlyOnXom ==
  \A f \in DOMAIN subpages : access[f] = "x"

\* The tree checks for every set of frames a tree can hold, as tables
\* TLC computes once and looks up in each state.
PartialOnFrames == [S \in SUBSET Gfns |-> ActsAsPartialFunction(S, Gfns)]
FreedOnFrames == [S \in SUBSET Gfns |-> FreesEachNodeOnce(S)]

\* The rb-trees behind subpages and regClear, whatever shape rebalancing
\* gave them, answer get_page_info_entry and add_page_info_entry as the
\* partial functions of this module do, now and for every set of frames
\* of IndexKeys.
IndexIsPartialFunction ==
  /\ KeysActAsPartialFunction
  /\ PartialOnFrames[DOMAIN subpages]
  /\ PartialOnFrames[DOMAIN regClear]

\* free_xom_info, which domain teardown (outside this repository) calls on
\* both trees, releases each node of both trees
\* exactly once, children before their parent.
TeardownFreesEachNodeOnce ==
  /\ KeysFreedOnce
  /\ FreedOnFrames[DOMAIN subpages]
  /\ FreedOnFrames[DOMAIN regClear]

\* The commands of every caller and the guest's stores, seen
\* through the mapping above, implement the per-frame contract of
\* the specification: one mode at a time, sealing only from Normal,
\* write-once all-or-nothing sub-page writes, one register-clear mark per
\* sealing, and unsealing as the only way back.
EnforcementRefined == Enforcement!AbsSpec
=============================================================================
