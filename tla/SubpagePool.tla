----------------------------- MODULE SubpagePool -----------------------------
(***************************************************************************)
(* The subpage pool of the OpenSSL provider (xom_subpage_pool.cpp) over   *)
(* the libxom subpage groups it allocates from.                           *)
(*                                                                         *)
(* The pool is a vector of entries, one per group of POOL_BUFFER_SIZE     *)
(* bytes sealed with one CreateSubpages request; each entry counts the    *)
(* subpages it believes used, remembers the last page it marked for       *)
(* register clearing, and keeps the addresses it handed out.  The pool    *)
(* has no lock: the provider calls it from one thread, so each call is    *)
(* one step.                                                              *)
(*                                                                         *)
(* libxom is not part of this repository; its group state and the three   *)
(* calls the pool makes (LibFill, LibFree, LibFreeAll) are modelled from  *)
(* the specification: a group hands out its subpages in address order     *)
(* (a locked subpage can never be written again), counts the blobs it     *)
(* holds, and unseals itself when the last one is released.               *)
(*                                                                         *)
(* An address is <<group, first subpage>>; its page is subpage \div       *)
(* PageUnits.  Groups are numbered in creation order.                     *)
(***************************************************************************)
EXTENDS Integers, FiniteSets, Sequences

CONSTANTS
  SubpageSize,   \* SUBPAGE_SIZE in bytes (128)
  PageUnits,     \* subpages per page: PAGE_SIZE / SUBPAGE_SIZE (32)
  PoolUnits,     \* POOL_BUFFER_SIZE / SUBPAGE_SIZE (512)
  Sizes,         \* blob sizes in bytes the provider asks to lock
  MaxGroups,     \* groups libxom can allocate before xom_alloc_subpages fails
  SlatMode       \* get_xom_mode() == XOM_MODE_SLAT

ASSUME SubpageSize \in Nat \ {0} /\ PageUnits \in Nat \ {0}
ASSUME PoolUnits \in Nat \ {0} /\ MaxGroups \in Nat /\ SlatMode \in BOOLEAN
ASSUME Sizes \subseteq 1 .. PoolUnits * SubpageSize

\* POOL_FREE_THRESHOLD: 4/5 of a group, in subpages.
PoolFreeThreshold == (PoolUnits * 4) \div 5

\* The macro bytes_to_subpages(x) as written: the rounding term adds
\* SUBPAGE_SIZE, not 1, when x is not a multiple of SUBPAGE_SIZE.
BytesToSubpages(x) ==
  x \div SubpageSize + (IF x % SubpageSize # 0 THEN SubpageSize ELSE 0)

\* The subpages a blob of x bytes really occupies in its group.
SubpagesOf(x) == x \div SubpageSize + (IF x % SubpageSize # 0 THEN 1 ELSE 0)

PageOf(unit) == unit \div PageUnits

Addr == (1 .. MaxGroups) \X (0 .. PoolUnits - 1)

VARIABLES
  pool,      \* subpage_pool: sequence of subpage_list_entry
  groups,    \* libxom: group id -> [next, live, sealed]
  blobSize,  \* libxom: address of each blob ever locked -> its size in bytes
  marks,     \* <<group, page>> pairs marked for register clearing
  held,      \* addresses the provider holds (locked, not yet released)
  released   \* history: addresses the provider has released

vars == <<pool, groups, blobSize, marks, held, released>>

-----------------------------------------------------------------------------
(* libxom, modelled from the specification                                 *)

\* xom_fill_and_lock_subpages succeeds when the group's unused subpages
\* can take the blob.
LibCanFill(g, size) == groups[g].next + SubpagesOf(size) <= PoolUnits

\* The address xom_fill_and_lock_subpages returns.
LibFillAddr(g) == <<g, groups[g].next>>

\* The group after it locked a blob of size bytes at LibFillAddr(g).
LibFill(g, size) ==
  [groups[g] EXCEPT !.next = @ + SubpagesOf(size), !.live = @ \cup {LibFillAddr(g)}]

\* xom_free_subpages(g, a): -EINVAL when a is not a blob of g; otherwise
\* the blob is dropped and, when it was the last, the group is unsealed
\* and 1 returned.
LibFree(g, a) ==
  IF a \notin groups[g].live
    THEN [ret |-> -1, group |-> groups[g]]
    ELSE LET live == groups[g].live \ {a}
         IN [ret |-> IF live = {} THEN 1 ELSE 0,
             group |-> [groups[g] EXCEPT !.live = live, !.sealed = live # {}]]

\* xom_free_all_subpages(g): unseal the whole group.
LibFreeAll(g) == [groups[g] EXCEPT !.sealed = FALSE]

\* A new group from xom_alloc_subpages(POOL_BUFFER_SIZE).
NewGroup == [next |-> 0, live |-> {}, sealed |-> TRUE]

-----------------------------------------------------------------------------
(* The pool                                                                *)

(* Mutants of the definitions below, each a plausible slip in that code. *)
NewEntryMarkedBase(g) == [subpages |-> g, lastPageMarked |-> 0, subpagesUsed |-> 0,
                          buffersUsed |-> {}]

TooFullOffByOne(e, size) == PoolUnits - e.subpagesUsed + 1 < BytesToSubpages(size)

\* The subpage_list_entry constructor for a new group.
NewEntry(g) == [subpages |-> g, lastPageMarked |-> -1, subpagesUsed |-> 0,
                buffersUsed |-> {}]

\* The skip test of the scan: the entry's remaining subpages, as the pool
\* counts them, cannot take the request.
TooFull(e, size) == PoolUnits - e.subpagesUsed < BytesToSubpages(size)

\* The scan of subpage_pool_lock_into_xom, from the newest entry back: the
\* index of the first entry not skipped whose fill succeeds, 0 if none.
RECURSIVE ScanFrom(_, _)
ScanFrom(i, size) ==
  IF i = 0 THEN 0
  ELSE IF ~TooFull(pool[i], size) /\ LibCanFill(pool[i].subpages, size)
         THEN i
         ELSE ScanFrom(i - 1, size)

\* update_entry: count the subpages, mark the blob's page for vector
\* register clearing when it lies beyond the last page marked, and record
\* the address.  The result of the marking hypercall is not checked.
UpdateEntry(e, size, a) ==
  LET page == PageOf(a[2])
      mark == SlatMode /\ e.lastPageMarked < page
  IN [e EXCEPT !.subpagesUsed = @ + BytesToSubpages(size),
               !.lastPageMarked = IF mark THEN page ELSE @,
               !.buffersUsed = @ \cup {a}]

MarksAfter(e, a) ==
  IF SlatMode /\ e.lastPageMarked < PageOf(a[2])
    THEN marks \cup {<<a[1], PageOf(a[2])>>}
    ELSE marks

\* subpage_pool_lock_into_xom when the scan finds an entry (lines 41-51).
LockIntoExisting(size) ==
  LET i == ScanFrom(Len(pool), size)
      g == pool[i].subpages
      a == LibFillAddr(g)
  IN /\ i # 0
     /\ pool' = [pool EXCEPT ![i] = UpdateEntry(@, size, a)]
     /\ groups' = [groups EXCEPT ![g] = LibFill(g, size)]
     /\ blobSize' = [x \in DOMAIN blobSize \cup {a} |-> IF x = a THEN size ELSE blobSize[x]]
     /\ marks' = MarksAfter(pool[i], a)
     /\ held' = held \cup {a}
     /\ UNCHANGED released

\* subpage_pool_lock_into_xom when no entry can take the blob: a new group
\* is allocated, filled and appended (lines 53-62).  When libxom is out of
\* groups the call returns NULL without effect (a stuttering step).
LockIntoNew(size) ==
  LET g == Len(groups) + 1
      a == <<g, 0>>
      e == NewEntry(g)
  IN /\ ScanFrom(Len(pool), size) = 0
     /\ Len(groups) < MaxGroups
     /\ groups' = Append(groups, [NewGroup EXCEPT !.next = SubpagesOf(size),
                                                  !.live = {a}])
     /\ pool' = Append(pool, UpdateEntry(e, size, a))
     /\ blobSize' = [x \in DOMAIN blobSize \cup {a} |-> IF x = a THEN size ELSE blobSize[x]]
     /\ marks' = MarksAfter(e, a)
     /\ held' = held \cup {a}
     /\ UNCHANGED released

\* subpage_pool_lock_into_xom when no entry can take the blob and
\* xom_alloc_subpages fails: it returns NULL and nothing changes.
LockFails(size) ==
  /\ ScanFrom(Len(pool), size) = 0
  /\ Len(groups) >= MaxGroups
  /\ UNCHANGED vars

\* The find_if of subpage_pool_free: the first entry whose buffers_used
\* does NOT contain data (the lambda compares with end() by ==), 0 if none.
FindEntry(a) ==
  LET hits == {j \in 1 .. Len(pool) : a \notin pool[j].buffersUsed}
  IN IF hits = {} THEN 0 ELSE CHOOSE j \in hits : \A k \in hits : j <= k

\* Remove the j-th element of a vector.
EraseAt(s, j) == [k \in 1 .. Len(s) - 1 |-> IF k < j THEN s[k] ELSE s[k + 1]]

\* subpage_pool_free(data) for an address the provider holds.
SubpagePoolFree(a) ==
  LET j == FindEntry(a)
      g == pool[j].subpages
      r == LibFree(g, a)
      e == [pool[j] EXCEPT !.buffersUsed = @ \ {a}]
  IN /\ a \in held
     /\ held' = held \ {a}
     /\ released' = released \cup {a}
     /\ IF j = 0
          THEN UNCHANGED <<pool, groups>>
          ELSE /\ groups' = [groups EXCEPT ![g] = r.group]
               /\ pool' = IF r.ret = 1 /\ e.subpagesUsed >= PoolFreeThreshold
                            THEN EraseAt(pool, j)
                            ELSE [pool EXCEPT ![j] = e]
     /\ UNCHANGED <<blobSize, marks>>

DestroySubpagePoolNoClear ==
  /\ held = {}
  /\ groups' = [g \in DOMAIN groups |->
                  IF \E j \in 1 .. Len(pool) : pool[j].subpages = g
                    THEN LibFreeAll(g) ELSE groups[g]]
  /\ UNCHANGED <<pool, blobSize, marks, held, released>>

\* The groups after the loop of destroy_subpage_pool: xom_free_all_subpages
\* on the group of every entry.
PoolGroupsFreed ==
  [g \in DOMAIN groups |->
     IF \E j \in 1 .. Len(pool) : pool[j].subpages = g
       THEN LibFreeAll(g) ELSE groups[g]]

\* destroy_subpage_pool: unseal every group of the pool and forget them.
\* The provider calls it at teardown; the specification requires that no
\* blob be in use then.
DestroySubpagePool ==
  /\ held = {}
  /\ groups' = PoolGroupsFreed
  /\ pool' = << >>
  /\ UNCHANGED <<blobSize, marks, held, released>>

-----------------------------------------------------------------------------
Init ==
  /\ pool = << >>
  /\ groups = << >>
  /\ blobSize = [a \in {} |-> 0]
  /\ marks = {}
  /\ held = {}
  /\ released = {}

Next ==
  \/ \E size \in Sizes : LockIntoExisting(size) \/ LockIntoNew(size)
  \/ \E a \in held : SubpagePoolFree(a)
  \/ DestroySubpagePool

Spec == Init /\ [][Next]_vars

-----------------------------------------------------------------------------
(* Properties                                                              *)

TypeOK ==
  /\ \A j \in 1 .. Len(pool) :
       /\ pool[j].subpages \in 1 .. Len(groups)
       /\ pool[j].subpagesUsed \in 0 .. PoolUnits
       /\ pool[j].buffersUsed \subseteq Addr
  /\ \A g \in 1 .. Len(groups) :
       groups[g] \in [next : 0 .. PoolUnits, live : SUBSET Addr, sealed : BOOLEAN]
  /\ held \subseteq DOMAIN blobSize /\ released \subseteq DOMAIN blobSize

\* Every subpage a held blob occupies lies in a page marked for register
\* clearing (SLAT mode): code entered anywhere in the blob has its
\* registers cleared on return.  update_entry marks only the page of the
\* blob's first subpage.
HeldBlobPagesMarked ==
  SlatMode =>
    \A a \in held : \A u \in a[2] .. a[2] + SubpagesOf(blobSize[a]) - 1 :
      <<a[1], PageOf(u)>> \in marks

\* The page a held blob starts on, where its code is entered, is marked
\* for register clearing (SLAT mode).
HeldBlobEntryMarked ==
  SlatMode => \A a \in held : <<a[1], PageOf(a[2])>> \in marks

\* A blob the provider still holds lies in a group that is still sealed:
\* neither a release of another blob nor destroy_subpage_pool unseals it,
\* and the pool never fills a group it has already given back.
HeldBlobsSealed ==
  \A a \in held : groups[a[1]].sealed

\* A released address is no longer among the live buffers of any entry
\* (spec 4.2: Release removes the address from its group's live set).
ReleasedBlobUntracked ==
  \A j \in 1 .. Len(pool) : pool[j].buffersUsed \cap released = {}

=============================================================================
