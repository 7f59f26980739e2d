----------------------------- MODULE HmacStream ----------------------------
(***************************************************************************)
(* The XOM HMAC-SHA256 MAC of the OpenSSL provider                         *)
(* (src/openssl-provider/src/xom_hmac_sha256.c): hmac_new, hmac_dup,       *)
(* hmac_free, hmac_set_ctx_params, hmac_init, hmac_update, hmac_final.     *)
(*                                                                         *)
(* Contexts are slots of Ctxs.  The heap objects a context points to (the  *)
(* 256-byte block buffer, the hash_state buffer, the sealed code xbuf and  *)
(* the refcount) are indexed by the slot that allocated them in hmac_new,  *)
(* because hmac_dup copies the pointers and shares them.                   *)
(*                                                                         *)
(* A message byte is its identity <<context, init count, position>>.  The  *)
(* sealed SHA-256 code (hmac256, not in this repository) is abstracted by  *)
(* what call_hmac_implementation feeds it: a hash state is the key it was  *)
(* started with and the sequence of 64-byte blocks compressed since, or    *)
(* Garbage when resumed from memory that never held a state.  resume = 0   *)
(* starts from the keyed inner state; resume = 1 continues the state in    *)
(* hash_state.                                                             *)
(***************************************************************************)
EXTENDS Naturals, Sequences, FiniteSets

CONSTANTS
    Ctxs,           \* context slots
    Keys,           \* keys the application passes: records [id, long]
    Digests,        \* digest names the application passes
    InLens,         \* datalen values of the updates
    MaxBytes,       \* bound on the bytes of one message
    MaxInits,       \* bound on the inits of one context
    SlatMode,       \* get_xom_mode() == XOM_MODE_SLAT
    NoKey, NoDigest, Garbage

HMAC_SHA256_BLOCK_SIZE == 64
HMAC_SHA256_MAC_SIZE == 32
BufPos == 0 .. 2 * HMAC_SHA256_BLOCK_SIZE - 1

VARIABLES
    \* implementation variables
    ctx,            \* ctx[c]: the fields of hmac_sha256_ctx
    blockBuf,       \* blockBuf[b][i]: byte i of the block buffer allocated by b
    hashBuf,        \* hashBuf[b]: the hash state in the hash_state buffer of b
    xkey,           \* xkey[b]: the key spliced into the sealed code of b
    xlocked,        \* xlocked[b]: xom_lock has made b's code execute-only
    xmarked,        \* xmarked[b]: b's code page is marked for register clearing
    refcount,       \* refcount[b]
    freed,          \* freed[b]: b's objects were freed by hmac_free
    \* observability variables
    phase,          \* phase[c]: "none", "new", "ready" (after init), "done" (after final)
    fed,            \* fed[c]: the bytes passed to update since the last init
    key,            \* key[c]: the key the application gave the context
    digest,         \* digest[c]: the digest the application asked for
    inits,          \* inits[c]: number of inits
    results         \* the MACs returned by final, with the HMAC they should be

vars == <<ctx, blockBuf, hashBuf, xkey, xlocked, xmarked, refcount, freed,
          phase, fed, key, digest, inits, results>>

(***************************************************************************)
(* SHA-256 names as hmac_set_ctx_params tests them: memmem for "SHA256" and*)
(* for "SHA2-256" in the digest parameter.                                 *)
(***************************************************************************)
Mentions(d, pattern) == d = pattern
IsSha256(d) == d \in {"SHA256", "SHA2-256"}

(***************************************************************************)
(* hmac_new: fresh context whose objects carry the slot's own name.        *)
(***************************************************************************)
NewCtx(c) ==
    [buf |-> c, passthrough |-> TRUE, blockOffset |-> 0, firstUpdate |-> FALSE,
     finalUpdate |-> FALSE, locked |-> FALSE, marked |-> FALSE, bytesCompressed |-> 0]

(***************************************************************************)
(* set_hmac_sha256_keys copies at most 64 key bytes into the code.         *)
(***************************************************************************)
SplicedKey(k) == IF k.long THEN <<"first64", k.id>> ELSE k.id

(***************************************************************************)
(* call_hmac_implementation(msg, count, hash_state, resume, finish).       *)
(***************************************************************************)
CallHmac(h, blocks, resume, k) ==
    IF ~resume THEN [key |-> k, input |-> blocks]
    ELSE IF h = Garbage THEN Garbage
    ELSE [h EXCEPT !.input = @ \o blocks]

Bytes(buf, from, n) == [i \in 1 .. n |-> buf[from + i - 1]]

Write(buf, at, data) ==
    [i \in BufPos |-> IF i >= at /\ i < at + Len(data) THEN data[i - at + 1] ELSE buf[i]]

-----------------------------------------------------------------------------

HmacNew(c) ==
    /\ phase[c] = "none"
    /\ ctx' = [ctx EXCEPT ![c] = NewCtx(c)]
    /\ blockBuf' = [blockBuf EXCEPT ![c] = [i \in BufPos |-> Garbage]]
    /\ hashBuf' = [hashBuf EXCEPT ![c] = Garbage]
    /\ refcount' = [refcount EXCEPT ![c] = 1]
    /\ phase' = [phase EXCEPT ![c] = "new"]
    /\ UNCHANGED <<xkey, xlocked, xmarked, freed, fed, key, digest, inits, results>>

RefcountNotShared(b) == refcount

(***************************************************************************)
(* The increment of *ret->refcount in hmac_dup.                           *)
(***************************************************************************)
RefcountShared(b) == [refcount EXCEPT ![b] = @ + 1]

(***************************************************************************)
(* hmac_dup: copy every field, pointers included, and count the copy in    *)
(* the shared refcount.  (The EVP_MAC_CTX of the default provider is       *)
(* duplicated too; each context keeps a distinct one.)                     *)
(***************************************************************************)

HmacDup(c, d) ==
    /\ phase[c] \in {"new", "ready", "done"}
    /\ phase[d] = "none"
    /\ ctx' = [ctx EXCEPT ![d] = ctx[c]]
    /\ refcount' = RefcountShared(ctx[c].buf)
    /\ phase' = [phase EXCEPT ![d] = phase[c]]
    /\ fed' = [fed EXCEPT ![d] = fed[c]]
    /\ key' = [key EXCEPT ![d] = key[c]]
    /\ digest' = [digest EXCEPT ![d] = digest[c]]
    /\ inits' = [inits EXCEPT ![d] = inits[c]]
    /\ UNCHANGED <<blockBuf, hashBuf, xkey, xlocked, xmarked, freed, results>>

(***************************************************************************)
(* hmac_free: the objects go with the last reference.                      *)
(***************************************************************************)
HmacFree(c) ==
    LET b == ctx[c].buf IN
    /\ phase[c] \in {"new", "ready", "done"}
    /\ refcount' = [refcount EXCEPT ![b] = @ - 1]
    /\ freed' = IF refcount[b] = 1 THEN [freed EXCEPT ![b] = TRUE] ELSE freed
    /\ phase' = [phase EXCEPT ![c] = "freed"]
    /\ UNCHANGED <<ctx, blockBuf, hashBuf, xkey, xlocked, xmarked, fed, key, digest, inits, results>>

(***************************************************************************)
(* set_hmac_sha256_keys: writes the key into the code unless this context  *)
(* has locked it.                                                          *)
(***************************************************************************)
SetKeys(c, k) ==
    IF k = NoKey \/ ctx[c].locked THEN xkey
    ELSE [xkey EXCEPT ![ctx[c].buf] = SplicedKey(k)]

(***************************************************************************)
(* hmac_set_ctx_params with a DIGEST and/or a KEY parameter.  The code     *)
(* says all parameters are set before init, which the guard keeps.         *)
(***************************************************************************)
HmacSetCtxParams(c, d, k) ==
    /\ phase[c] \in {"new", "done"}
    /\ d # NoDigest \/ k # NoKey
    /\ ctx' = IF d = NoDigest THEN ctx
              ELSE [ctx EXCEPT ![c].passthrough =
                      ~(~Mentions(d, "SHA256") \/ ~Mentions(d, "SHA2-256"))]
    /\ digest' = IF d = NoDigest THEN digest ELSE [digest EXCEPT ![c] = d]
    /\ xkey' = SetKeys(c, k)
    /\ key' = IF k = NoKey THEN key ELSE [key EXCEPT ![c] = k]
    /\ UNCHANGED <<blockBuf, hashBuf, xlocked, xmarked, refcount, freed, phase, fed, inits, results>>

(***************************************************************************)
(* hmac_init.  With use_passthrough the default provider's HMAC is         *)
(* initialised instead.  Otherwise the key, if any, is spliced into the    *)
(* code, the code is locked, and in SLAT mode its page is marked for       *)
(* register clearing once per context; the hypervisor refuses to mark a    *)
(* page twice (mark_reg_clear_page), and then init returns 0.  Neither the *)
(* block offset, first_update, final_update nor bytes_compressed is reset. *)
(***************************************************************************)
HmacInit(c, k) ==
    LET x == ctx[c]
        b == x.buf
        markFails == SlatMode /\ ~x.marked /\ xmarked[b]
        marks == SlatMode /\ ~x.marked /\ ~xmarked[b]
    IN  /\ phase[c] \in {"new", "ready", "done"}
        /\ inits[c] < MaxInits
        /\ digest[c] # NoDigest
        /\ k # NoKey \/ key[c] # NoKey
        /\ key' = IF k = NoKey THEN key ELSE [key EXCEPT ![c] = k]
        /\ fed' = [fed EXCEPT ![c] = <<>>]
        /\ inits' = [inits EXCEPT ![c] = @ + 1]
        /\ IF x.passthrough
             THEN /\ phase' = [phase EXCEPT ![c] = "ready"]
                  /\ UNCHANGED <<ctx, xkey, xlocked, xmarked>>
             ELSE /\ xkey' = SetKeys(c, k)
                  /\ xlocked' = [xlocked EXCEPT ![b] = TRUE]
                  /\ xmarked' = IF marks THEN [xmarked EXCEPT ![b] = TRUE] ELSE xmarked
                  /\ ctx' = [ctx EXCEPT ![c].locked = TRUE,
                                        ![c].marked = x.marked \/ marks]
                  /\ phase' = [phase EXCEPT ![c] = IF markFails THEN "new" ELSE "ready"]
        /\ UNCHANGED <<blockBuf, hashBuf, refcount, freed, digest, results>>

(***************************************************************************)
(* datalen & ~(HMAC_SHA256_BLOCK_SIZE - 1)                                 *)
(***************************************************************************)
WholeBlockBytes(n) == n - (n % HMAC_SHA256_BLOCK_SIZE)

BuffersPartialOffByOne(n, bo) == n + bo <= HMAC_SHA256_BLOCK_SIZE

(***************************************************************************)
(* The test that sends an update to the partial-block buffer.              *)
(***************************************************************************)
BuffersPartial(n, bo) == n + bo < HMAC_SHA256_BLOCK_SIZE

CompressedNoLeftover(bc, bo, whole) == bc + whole

(***************************************************************************)
(* bytes_compressed after an update that compresses the completed buffered *)
(* block, if any, and then whole bytes of the rest.                        *)
(***************************************************************************)
Compressed(bc, bo, whole) ==
    IF bo # 0 THEN bc + HMAC_SHA256_BLOCK_SIZE + whole ELSE bc + whole

(***************************************************************************)
(* hmac_update.  A partial block is buffered; otherwise the buffered bytes *)
(* completed by the first input bytes are compressed with resume = 1, the  *)
(* whole blocks of the rest with resume = first_update, and what is left   *)
(* is buffered.                                                            *)
(***************************************************************************)
HmacUpdate(c, n) ==
    LET x    == ctx[c]
        b    == x.buf
        bo   == x.blockOffset
        data == [i \in 1 .. n |-> <<c, inits[c], Len(fed[c]) + i>>]
        fill == HMAC_SHA256_BLOCK_SIZE - bo
        h1   == IF bo # 0
                  THEN CallHmac(hashBuf[b], Bytes(blockBuf[b], 0, bo) \o SubSeq(data, 1, fill),
                                TRUE, xkey[b])
                  ELSE hashBuf[b]
        rest == IF bo # 0 THEN SubSeq(data, fill + 1, n) ELSE data
        whole == WholeBlockBytes(Len(rest))
    IN  /\ phase[c] = "ready"
        /\ Len(fed[c]) + n <= MaxBytes
        /\ fed' = [fed EXCEPT ![c] = @ \o data]
        /\ CASE x.passthrough ->
                  UNCHANGED <<ctx, blockBuf, hashBuf>>
             [] BuffersPartial(n, bo) ->
                  /\ blockBuf' = [blockBuf EXCEPT ![b] = Write(@, bo, data)]
                  /\ ctx' = [ctx EXCEPT ![c].blockOffset = bo + n]
                  /\ UNCHANGED hashBuf
             [] OTHER ->
                  /\ hashBuf' = [hashBuf EXCEPT ![b] =
                                   CallHmac(h1, SubSeq(rest, 1, whole), x.firstUpdate, xkey[b])]
                  /\ blockBuf' = [blockBuf EXCEPT ![b] =
                                   Write(@, 0, SubSeq(rest, whole + 1, Len(rest)))]
                  /\ ctx' = [ctx EXCEPT ![c].firstUpdate = TRUE,
                                        ![c].bytesCompressed = Compressed(x.bytesCompressed, bo, whole),
                                        ![c].blockOffset = Len(rest) - whole]
        /\ UNCHANGED <<xkey, xlocked, xmarked, refcount, freed, phase, key, digest, inits, results>>

(***************************************************************************)
(* The HMAC the application asks for (RFC 2104 over the named digest): a   *)
(* key longer than the block is hashed first, and the inner message after *)
(* the key block is padded the SHA-2 way, with the fewest zero bytes that  *)
(* leave room for 0x80 and the 8-byte length.                              *)
(***************************************************************************)
DigestAlgo(d) == IF IsSha256(d) THEN "SHA-256" ELSE d
RfcKey(k) == IF k.long THEN <<"hashed", k.id>> ELSE k.id
Sha256Padded(m) ==
    LET n == Len(m)
        z == (HMAC_SHA256_BLOCK_SIZE - ((n + 9) % HMAC_SHA256_BLOCK_SIZE)) % HMAC_SHA256_BLOCK_SIZE
    IN  m \o <<"P80">> \o [i \in 1 .. z |-> "Z"] \o [i \in 1 .. 8 |-> <<"L", (n + 64) * 8>>]
Want(c) == [digest |-> DigestAlgo(digest[c]), key |-> RfcKey(key[c]), input |-> Sha256Padded(fed[c])]

(***************************************************************************)
(* setup_padding: the final block is extended to two blocks when the data  *)
(* left in it is longer than 48 bytes.                                     *)
(***************************************************************************)
PaddingExtends(bo) == bo > 48

LenBytes(l) == [i \in 1 .. 8 |-> <<"L", l>>]
Zeros(n) == [i \in 1 .. n |-> "Z"]

(***************************************************************************)
(* hmac_final.  Once final_update is set it only copies hash_state out.    *)
(* Otherwise the rest of the buffer is zeroed, the length in bits of the   *)
(* key block and the message is stored big-endian at the end of the first  *)
(* or second block, 0x80 follows the data, and the one or two blocks are   *)
(* compressed with resume = first_update and finish = 1.  With             *)
(* use_passthrough the default provider's HMAC answers, which is taken to  *)
(* be right.                                                               *)
(***************************************************************************)
HmacFinal(c) ==
    LET x   == ctx[c]
        b   == x.buf
        bo  == x.blockOffset
        bc  == x.bytesCompressed + bo
        ext == PaddingExtends(bo)
        padded == Write(Write(Write(blockBuf[b], bo, Zeros(2 * HMAC_SHA256_BLOCK_SIZE - bo)),
                              IF ext THEN 120 ELSE 56, LenBytes(bc * 8 + 512)),
                        bo, <<"P80">>)
        h   == CallHmac(hashBuf[b], Bytes(padded, 0, IF ext THEN 128 ELSE 64),
                        x.firstUpdate, xkey[b])
        hOut == IF x.finalUpdate THEN hashBuf[b] ELSE h
        got == IF x.passthrough THEN Want(c)
               ELSE IF hOut = Garbage THEN Garbage
               ELSE [digest |-> "SHA-256", key |-> hOut.key, input |-> hOut.input]
    IN  /\ phase[c] = "ready"
        /\ phase' = [phase EXCEPT ![c] = "done"]
        /\ results' = Append(results, [got |-> got, want |-> Want(c)])
        /\ IF x.passthrough \/ x.finalUpdate
             THEN UNCHANGED <<ctx, blockBuf, hashBuf>>
             ELSE /\ blockBuf' = [blockBuf EXCEPT ![b] = padded]
                  /\ hashBuf' = [hashBuf EXCEPT ![b] = h]
                  /\ ctx' = [ctx EXCEPT ![c].finalUpdate = TRUE, ![c].bytesCompressed = bc]
        /\ UNCHANGED <<xkey, xlocked, xmarked, refcount, freed, fed, key, digest, inits>>

Init ==
    /\ ctx = [c \in Ctxs |-> NewCtx(c)]
    /\ blockBuf = [b \in Ctxs |-> [i \in BufPos |-> Garbage]]
    /\ hashBuf = [b \in Ctxs |-> Garbage]
    /\ xkey = [b \in Ctxs |-> NoKey]
    /\ xlocked = [b \in Ctxs |-> FALSE]
    /\ xmarked = [b \in Ctxs |-> FALSE]
    /\ refcount = [b \in Ctxs |-> 0]
    /\ freed = [b \in Ctxs |-> FALSE]
    /\ phase = [c \in Ctxs |-> "none"]
    /\ fed = [c \in Ctxs |-> <<>>]
    /\ key = [c \in Ctxs |-> NoKey]
    /\ digest = [c \in Ctxs |-> NoDigest]
    /\ inits = [c \in Ctxs |-> 0]
    /\ results = <<>>

Next ==
    \E c \in Ctxs :
        \/ HmacNew(c)
        \/ \E d \in Ctxs : HmacDup(c, d)
        \/ HmacFree(c)
        \/ \E dg \in Digests \cup {NoDigest}, k \in Keys \cup {NoKey} : HmacSetCtxParams(c, dg, k)
        \/ \E k \in Keys \cup {NoKey} : HmacInit(c, k)
        \/ \E n \in InLens : HmacUpdate(c, n)
        \/ HmacFinal(c)

Spec == Init /\ [][Next]_vars

-----------------------------------------------------------------------------
(* Properties *)

Live == {"new", "ready", "done"}
Sharers(b) == {c \in Ctxs : phase[c] \in Live /\ ctx[c].buf = b}
Allocated(b) == phase[b] # "none" /\ ctx[b].buf = b

TypeOK ==
    /\ \A c \in Ctxs :
         /\ ctx[c].buf \in Ctxs
         /\ ctx[c].blockOffset \in 0 .. HMAC_SHA256_BLOCK_SIZE - 1
         /\ ctx[c].bytesCompressed \in Nat
         /\ {ctx[c].passthrough, ctx[c].firstUpdate, ctx[c].finalUpdate,
             ctx[c].locked, ctx[c].marked} \subseteq BOOLEAN
    /\ phase \in [Ctxs -> {"none", "freed"} \cup Live]
    /\ refcount \in [Ctxs -> Nat]
    /\ freed \in [Ctxs -> BOOLEAN]
    /\ \A c \in Ctxs : fed[c] \in Seq(Ctxs \X Nat \X Nat)

(***************************************************************************)
(* While a context streams on the sealed path, bytes_compressed plus       *)
(* block_offset is the length of its message, and the first block_offset   *)
(* bytes of its block buffer are the message bytes not yet compressed.     *)
(* This is what the buffering of hmac_update has to keep, across every     *)
(* split into updates and every other context sharing the buffer.          *)
(***************************************************************************)
BufferHoldsUnhashedTail ==
    \A c \in Ctxs :
        LET x == ctx[c] IN
        (phase[c] = "ready" /\ ~x.passthrough /\ ~x.finalUpdate) =>
            /\ x.bytesCompressed + x.blockOffset = Len(fed[c])
            /\ Bytes(blockBuf[x.buf], 0, x.blockOffset)
                 = SubSeq(fed[c], x.bytesCompressed + 1, Len(fed[c]))

(***************************************************************************)
(* Every MAC hmac_final returns is the HMAC, under the digest and key the   *)
(* application gave, of the bytes it passed to hmac_update since           *)
(* hmac_init.                                                              *)
(***************************************************************************)
MacIsHmac == \A i \in 1 .. Len(results) : results[i].got = results[i].want

(***************************************************************************)
(* The refcount of the objects hmac_new allocated counts the live contexts *)
(* that share them (hmac_dup, hmac_free), and they are freed exactly when  *)
(* none is left: no leak and no context pointing at freed memory.          *)
(***************************************************************************)
BuffersFreedExactlyWhenUnshared ==
    \A b \in Ctxs : Allocated(b) =>
        /\ refcount[b] = Cardinality(Sharers(b))
        /\ freed[b] <=> Sharers(b) = {}

(***************************************************************************)
(* The key spliced into sealed code never changes once xom_lock has made   *)
(* the code execute-only (the write would fault): set_hmac_sha256_keys     *)
(* checks ctx->locked for that.                                            *)
(***************************************************************************)
KeyOfLockedCodeNeverChanges ==
    [][\A b \in Ctxs : xlocked[b] => xkey'[b] = xkey[b]]_vars
====
