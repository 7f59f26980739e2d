------------------------------ MODULE CipherCtx ------------------------------
(***************************************************************************)
(* The life cycle of the AES-128-CTR and AES-128-GCM cipher contexts of    *)
(* the provider (xom_aes_128_ctr.c, xom_aes_128_gcm.c) over the subpage    *)
(* pool they lock their code blobs into (SubpagePool).                     *)
(*                                                                         *)
(* A context is a slot of Ctxs: newctx, any number of dup, init and (GCM)  *)
(* AAD and final calls, then freectx, after which the slot is empty again.  dupctx copies every field *)
(* of the context, pointers included, and counts the copy in the shared    *)
(* refcount; freectx frees what the context points to only when the count  *)
(* drops to zero.  Heap objects (refcount cells, GCM's Htable, aad and     *)
(* staging_buffer) are numbered in allocation order; alive is the set not  *)
(* yet freed.  The code blob aes_fun is an address of the pool.  What the  *)
(* cipher computes is GcmStream's and CtrStream's concern: here only the   *)
(* pointers and what is allocated, locked, released and freed.             *)
(*                                                                         *)
(* OpenSSL calls a context from one thread at a time, so every call is one *)
(* step.                                                                   *)
(***************************************************************************)
EXTENDS SubpagePool

CONSTANTS
  Ctxs,       \* context slots
  Kinds,      \* the ciphers whose contexts are created: subset of {"CTR", "GCM"}
  BlobSize,   \* vaes_size or aesni_size: the gctr_linear code both ciphers lock
  MaxObjs,    \* bound on the heap objects allocated
  NULL

ASSUME Kinds \subseteq {"CTR", "GCM"} /\ BlobSize \in Sizes /\ MaxObjs \in Nat

Objs == 1 .. MaxObjs
Ptr(S) == S \cup {NULL}

VARIABLES
  ctx,        \* ctx[c]: the pointer fields and init flags of the context in slot c
  phase,      \* phase[c]: "none" (empty slot) or "live"
  refcount,   \* refcount[o]: the unsigned int in refcount cell o
  alive,      \* heap objects allocated and not yet freed
  nextObj,    \* the number the next allocated object gets
  heapErrors  \* history: <<"free" or "use", o>> for each free or read of a freed o

ctxVars == <<ctx, phase, refcount, alive, nextObj, heapErrors>>
allVars == <<vars, ctxVars>>

Live == {c \in Ctxs : phase[c] = "live"}

\* The record of an empty slot.
NoCtx == [kind |-> "CTR", rc |-> NULL, htable |-> NULL, aesFun |-> NULL,
          staging |-> NULL, aad |-> NULL, keyInit |-> FALSE, ivInit |-> FALSE]

\* A context as newctx leaves it: refcount cell rc, Htable for GCM only.
NewRecord(k, rc, ht) ==
  [kind |-> k, rc |-> rc, htable |-> ht, aesFun |-> NULL, staging |-> NULL,
   aad |-> NULL, keyInit |-> FALSE, ivInit |-> FALSE]

\* The objects among the pointers S that were already freed.
Freed(S) == (S \ {NULL}) \ alive

\* free() of the pointers in S (free(NULL) does nothing).
HeapFree(S) ==
  /\ alive' = alive \ S
  /\ heapErrors' = heapErrors \cup {<<"free", o>> : o \in Freed(S)}

\* The blob a successful subpage_pool_lock_into_xom returned.
NewBlob == CHOOSE a \in held' \ held : TRUE

\* subpage_pool_lock_into_xom(staging, size): a new blob, or NULL when
\* the pool cannot get a group.  The result is stored in the aes_fun of
\* context c, whose other fields become those of y.
LockBlob(c, y) ==
  \/ /\ LockIntoExisting(BlobSize) \/ LockIntoNew(BlobSize)
     /\ ctx' = [ctx EXCEPT ![c] = [y EXCEPT !.aesFun = NewBlob]]
  \/ /\ LockFails(BlobSize)
     /\ ctx' = [ctx EXCEPT ![c] = [y EXCEPT !.aesFun = NULL]]

\* subpage_pool_free(aes_fun): returns at once for NULL.
PoolRelease(a) == IF a = NULL THEN UNCHANGED vars ELSE SubpagePoolFree(a)

-----------------------------------------------------------------------------
(* newctx, dupctx, freectx                                                 *)

\* aes_128_ctr_newctx / aes_128_gcm_newctx: malloc the refcount (set to
\* 1) and, for GCM, the Htable.
NewCtx(c, k) ==
  LET n == IF k = "GCM" THEN 2 ELSE 1
      ht == IF k = "GCM" THEN nextObj + 1 ELSE NULL
  IN /\ phase[c] = "none"
     /\ nextObj + n - 1 <= MaxObjs
     /\ ctx' = [ctx EXCEPT ![c] = NewRecord(k, nextObj, ht)]
     /\ phase' = [phase EXCEPT ![c] = "live"]
     /\ refcount' = [refcount EXCEPT ![nextObj] = 1]
     /\ alive' = alive \cup (nextObj .. nextObj + n - 1)
     /\ nextObj' = nextObj + n
     /\ UNCHANGED <<heapErrors, vars>>

RefcountNotShared(o) == refcount

\* (*ret->refcount)++ of dupctx.
RefcountShared(o) == [refcount EXCEPT ![o] = @ + 1]

\* aes_128_ctr_dupctx / aes_128_gcm_dupctx: memcpy of the whole context.
DupCtx(c, d) ==
  /\ phase[c] = "live" /\ phase[d] = "none"
  /\ ctx' = [ctx EXCEPT ![d] = ctx[c]]
  /\ phase' = [phase EXCEPT ![d] = "live"]
  /\ refcount' = RefcountShared(ctx[c].rc)
  /\ UNCHANGED <<alive, nextObj, heapErrors, vars>>

LastReferenceAlways(c) == TRUE

\* The test !--*(ctx->refcount) of freectx.
LastReference(c) == refcount[ctx[c].rc] = 1

\* aes_128_ctr_freectx / aes_128_gcm_freectx: on the last reference,
\* release aes_fun to the pool and free the refcount and, for GCM, the
\* staging buffer, aad and Htable; then free the context itself.
FreeCtx(c) ==
  LET x == ctx[c]
  IN /\ phase[c] = "live"
     /\ refcount' = [refcount EXCEPT ![x.rc] = @ - 1]
     /\ phase' = [phase EXCEPT ![c] = "none"]
     /\ ctx' = [ctx EXCEPT ![c] = NoCtx]
     /\ IF LastReference(c)
          THEN /\ PoolRelease(x.aesFun)
               /\ HeapFree({x.rc, x.staging, x.aad, x.htable})
          ELSE UNCHANGED <<vars, alive, heapErrors>>
     /\ UNCHANGED nextObj

-----------------------------------------------------------------------------
(* init                                                                    *)

\* aes_128_ctr_init: the key is spliced into a local staging buffer and
\* the code locked into a new blob; aes_fun is overwritten with it.
CtrInit(c) ==
  /\ phase[c] = "live" /\ ctx[c].kind = "CTR"
  /\ LockBlob(c, ctx[c])
  /\ UNCHANGED <<phase, refcount, alive, nextObj, heapErrors>>

\* aes_128_gcm_einit, and dinit which calls it: with a key, copy the code
\* into the staging buffer (allocated if NULL) and key it; with an IV, note
\* it.  Once both are set, a staging buffer is locked into a new blob and
\* freed, and stored AAD is hashed.
GcmInit(c, key, iv) ==
  LET x == ctx[c]
      alloc == key /\ x.staging = NULL
      staging == IF alloc THEN nextObj ELSE x.staging
      keyInit == x.keyInit \/ key
      ivInit == x.ivInit \/ iv
      lock == keyInit /\ ivInit /\ staging # NULL
      y == [x EXCEPT !.keyInit = keyInit, !.ivInit = ivInit,
                     !.staging = IF lock THEN NULL ELSE staging]
  IN /\ phase[c] = "live" /\ x.kind = "GCM"
     /\ alloc => nextObj <= MaxObjs
     /\ nextObj' = IF alloc THEN nextObj + 1 ELSE nextObj
     /\ IF lock
          THEN LockBlob(c, y)
          ELSE /\ ctx' = [ctx EXCEPT ![c] = y]
               /\ UNCHANGED vars
     /\ LET written == IF key /\ ~alloc THEN {staging} ELSE {}
            read == (IF lock THEN {staging} ELSE {})
                    \cup (IF keyInit /\ ivInit THEN {x.aad} ELSE {})
            avail == alive \cup IF alloc THEN {staging} ELSE {}
            gone(S) == (S \ {NULL}) \ avail
        IN /\ alive' = avail \ IF lock THEN {staging} ELSE {}
           /\ heapErrors' = heapErrors
                \cup {<<"use", o>> : o \in gone(written \cup read)}
                \cup {<<"free", o>> : o \in IF lock THEN gone({staging}) ELSE {}}
     /\ UNCHANGED <<phase, refcount>>

-----------------------------------------------------------------------------
(* AAD and final (GCM)                                                     *)

\* init_aad, from the OSSL_CIPHER_PARAM_AEAD_TLS1_AAD parameter or from a
\* first update shorter than a block: free the old aad, allocate a new one.
InitAad(c) ==
  LET x == ctx[c] IN
  /\ phase[c] = "live" /\ x.kind = "GCM"
  /\ nextObj <= MaxObjs
  /\ ctx' = [ctx EXCEPT ![c].aad = nextObj]
  /\ nextObj' = nextObj + 1
  /\ alive' = (alive \ {x.aad}) \cup {nextObj}
  /\ heapErrors' = heapErrors \cup {<<"free", o>> : o \in Freed({x.aad})}
  /\ UNCHANGED <<phase, refcount, vars>>

\* aes_128_gcm_stream_final, on a keyed context: free(ctx->aad) and set
\* it to NULL.
StreamFinal(c) ==
  LET x == ctx[c] IN
  /\ phase[c] = "live" /\ x.kind = "GCM" /\ x.keyInit /\ x.ivInit
  /\ ctx' = [ctx EXCEPT ![c].aad = NULL]
  /\ HeapFree({x.aad})
  /\ UNCHANGED <<phase, refcount, nextObj, vars>>

-----------------------------------------------------------------------------
(* Provider teardown                                                       *)

ProviderTeardownNoClear ==
  /\ Live = {}
  /\ groups' = PoolGroupsFreed
  /\ UNCHANGED <<pool, blobSize, marks, held, released, ctxVars>>

\* xom_teardown ends with destroy_subpage_pool.  OpenSSL tears a provider
\* down once no context of it is left; a later load starts it again.
ProviderTeardown ==
  /\ Live = {}
  /\ groups' = PoolGroupsFreed
  /\ pool' = << >>
  /\ UNCHANGED <<blobSize, marks, held, released, ctxVars>>

-----------------------------------------------------------------------------
CtxInit ==
  /\ Init
  /\ ctx = [c \in Ctxs |-> NoCtx]
  /\ phase = [c \in Ctxs |-> "none"]
  /\ refcount = [o \in Objs |-> 0]
  /\ alive = {}
  /\ nextObj = 1
  /\ heapErrors = {}

CtxNext ==
  \/ \E c \in Ctxs :
       \/ \E k \in Kinds : NewCtx(c, k)
       \/ \E d \in Ctxs : DupCtx(c, d)
       \/ FreeCtx(c)
       \/ CtrInit(c)
       \/ \E key, iv \in BOOLEAN : GcmInit(c, key, iv)
       \/ InitAad(c)
       \/ StreamFinal(c)
  \/ ProviderTeardown

CtxSpec == CtxInit /\ [][CtxNext]_allVars

-----------------------------------------------------------------------------
(* Properties                                                              *)

CtxTypeOK ==
  /\ TypeOK
  /\ phase \in [Ctxs -> {"none", "live"}]
  /\ \A c \in Live :
       ctx[c] \in [kind : Kinds, rc : Objs, htable : Ptr(Objs),
                   aesFun : Ptr(Addr), staging : Ptr(Objs), aad : Ptr(Objs),
                   keyInit : BOOLEAN, ivInit : BOOLEAN]
  /\ refcount \in [Objs -> Nat]
  /\ alive \subseteq Objs /\ nextObj \in 1 .. MaxObjs + 1

\* The blob a live context calls (aes_fun) has not been released to the
\* pool: freectx releases it only with the last reference, and dup, init
\* and free of the other copies leave it alone.
NoBlobUseAfterRelease ==
  \A c \in Live : ctx[c].aesFun \notin released

\* The blob a live context calls lies in a group that is still sealed,
\* across every lock, release and provider teardown.
ContextBlobsSealed ==
  \A c \in Live : ctx[c].aesFun # NULL => groups[ctx[c].aesFun[1]].sealed

\* No heap object of a context is freed twice or read after it was freed:
\* dupctx shares the aad and staging_buffer pointers, which final, init_aad
\* and einit free without looking at the refcount.
HeapObjectsFreedOnce == heapErrors = {}
=============================================================================
