---------------------------- MODULE MetadataIndex ----------------------------
(***************************************************************************)
(* The two rb-trees of a domain's XOM metadata (xen/arch/x86/xom_seal.c): *)
(* d->xom_subpages and d->xom_reg_clear_pages, keyed by frame number.     *)
(*                                                                         *)
(* A tree is Leaf or a node [gfn, left, right]; the info word a node      *)
(* carries (lock_status or reg_clear_type) travels with the node and is   *)
(* left out.  rb_link_node hangs the new node where the descent of        *)
(* insert_page_info_node stopped; rb_insert_color and rb_erase, Xen's     *)
(* library, recolour and rotate, which keeps the in-order sequence, so a  *)
(* tree after them is some binary search tree over the same frames.  The  *)
(* checks below therefore range over every binary search tree, not only   *)
(* over those a sequence of descents builds.                              *)
(*                                                                         *)
(* XomSeal keeps the trees as partial functions; the properties here are  *)
(* what makes that abstraction sound.                                     *)
(***************************************************************************)
EXTENDS Integers, Sequences, FiniteSets

CONSTANT IndexKeys   \* the frame numbers the trees are checked over

Leaf == <<>>
EEXIST == [eexist |-> TRUE]

Node(g, l, r) == [gfn |-> g, left |-> l, right |-> r]

\* The frames a tree holds.
RECURSIVE TreeKeys(_)
TreeKeys(t) == IF t = Leaf THEN {} ELSE TreeKeys(t.left) \cup {t.gfn} \cup TreeKeys(t.right)

\* Reference: every binary search tree whose frames are S.
RECURSIVE SearchTrees(_)
SearchTrees(S) ==
  IF S = {} THEN {Leaf}
  ELSE UNION {{Node(r, l, u) : l \in SearchTrees({k \in S : k < r}),
                               u \in SearchTrees({k \in S : k > r})} : r \in S}

-----------------------------------------------------------------------------
(* The tree code                                                           *)

(* Mutants of the descents below, each a plausible slip in that code.    *)
RECURSIVE GetWrongWay(_, _)
GetWrongWay(t, g) ==
  CASE t = Leaf -> Leaf
    [] g > t.gfn -> GetWrongWay(t.left, g)
    [] g < t.gfn -> GetWrongWay(t.right, g)
    [] OTHER -> t

RECURSIVE InsertDuplicateRight(_, _)
InsertDuplicateRight(t, g) ==
  CASE t = Leaf -> Node(g, Leaf, Leaf)
    [] g < t.gfn -> LET l == InsertDuplicateRight(t.left, g)
                    IN IF l = EEXIST THEN EEXIST ELSE [t EXCEPT !.left = l]
    [] OTHER -> LET r == InsertDuplicateRight(t.right, g)
                IN IF r = EEXIST THEN EEXIST ELSE [t EXCEPT !.right = r]

RECURSIVE FreeParentFirst(_)
FreeParentFirst(t) ==
  IF t = Leaf THEN <<>> ELSE <<t.gfn>> \o FreeParentFirst(t.left) \o FreeParentFirst(t.right)

\* get_page_info_entry: descend left on a smaller frame, right on a
\* larger one; the node with the frame, or NULL (Leaf).
RECURSIVE GetPageInfoEntry(_, _)
GetPageInfoEntry(t, g) ==
  CASE t = Leaf -> Leaf
    [] g < t.gfn -> GetPageInfoEntry(t.left, g)
    [] g > t.gfn -> GetPageInfoEntry(t.right, g)
    [] OTHER -> t

\* insert_page_info_node: the same descent, -EEXIST on an equal frame,
\* else the new node linked at the empty child the descent reached.
RECURSIVE InsertPageInfoNode(_, _)
InsertPageInfoNode(t, g) ==
  CASE t = Leaf -> Node(g, Leaf, Leaf)
    [] g < t.gfn -> LET l == InsertPageInfoNode(t.left, g)
                    IN IF l = EEXIST THEN EEXIST ELSE [t EXCEPT !.left = l]
    [] g > t.gfn -> LET r == InsertPageInfoNode(t.right, g)
                    IN IF r = EEXIST THEN EEXIST ELSE [t EXCEPT !.right = r]
    [] OTHER -> EEXIST

\* add_page_info_entry: xmalloc (allocOk), then insert; a failed insert
\* frees the node.  The tree afterwards, and whether an entry came back.
AddPageInfoEntry(t, g, allocOk) ==
  LET ins == InsertPageInfoNode(t, g)
  IN IF allocOk /\ ins # EEXIST THEN [tree |-> ins, entry |-> TRUE]
                                ELSE [tree |-> t, entry |-> FALSE]

\* free_xom_info_node: the frames in the order xfree releases them: left
\* subtree, right subtree, then the node whose child pointers were read.
RECURSIVE FreeXomInfoNode(_)
FreeXomInfoNode(t) ==
  IF t = Leaf THEN <<>> ELSE FreeXomInfoNode(t.left) \o FreeXomInfoNode(t.right) \o <<t.gfn>>

-----------------------------------------------------------------------------
(* What the trees must do, for a tree over frames S and lookups of G      *)

\* Every tree holding S behaves as a partial function with domain S: a
\* lookup finds exactly the frames of S, each with its own node; an insert
\* of a new frame keeps the search order and adds just that frame; an
\* insert of a present frame, or after a failed xmalloc, leaves the tree
\* as it was and returns NULL.
ActsAsPartialFunction(S, G) ==
  \A t \in SearchTrees(S), g \in G, ok \in BOOLEAN :
    LET found == GetPageInfoEntry(t, g)
        added == AddPageInfoEntry(t, g, ok)
    IN /\ (found # Leaf) = (g \in S)
       /\ found # Leaf => found.gfn = g
       /\ added.entry = (ok /\ g \notin S)
       /\ added.tree \in SearchTrees(S \cup (IF added.entry THEN {g} ELSE {}))

\* free_xom_info on any tree holding S releases every node exactly once,
\* each only after both of its subtrees, whose pointers it reads first.
FreesEachNodeOnce(S) ==
  \A t \in SearchTrees(S) :
    LET order == FreeXomInfoNode(t)
        pos(g) == CHOOSE i \in DOMAIN order : order[i] = g
        RECURSIVE Below(_)
        Below(u) == IF u = Leaf THEN TRUE
                    ELSE /\ \A k \in TreeKeys(u.left) \cup TreeKeys(u.right) : pos(k) < pos(u.gfn)
                         /\ Below(u.left) /\ Below(u.right)
    IN /\ Len(order) = Cardinality(S)
       /\ {order[i] : i \in DOMAIN order} = S
       /\ Below(t)

\* Both, for every set of frames of IndexKeys (constants, evaluated once).
KeysActAsPartialFunction ==
  \A S \in SUBSET IndexKeys : ActsAsPartialFunction(S, IndexKeys)

KeysFreedOnce == \A S \in SUBSET IndexKeys : FreesEachNodeOnce(S)
=============================================================================
