----------------------------- MODULE GcmStream -----------------------------
(***************************************************************************)
(* One AES-128-GCM context of the XOM OpenSSL provider                     *)
(* (src/openssl-provider/src/xom_aes_128_gcm.c): aes_128_gcm_einit/dinit,  *)
(* _stream_update (with its first-update AAD rule and init_aad),           *)
(* _stream_final, _cipher, getJ0, the IVLEN, AEAD tag and TLS1 AAD        *)
(* parameters of _set_ctx_params, and the AEAD tag of _get_ctx_params.    *)
(*                                                                         *)
(* A byte is its identity <<"a" or "d", message, position>>, an IV byte   *)
(* <<"iv", iv, position>>.  An output byte <<"c", b, ks>> is the input     *)
(* byte b XORed with the keystream byte ks = <<key, J0, n, offset>>, n     *)
(* the number of counter increments since J0 (data starts at n = 1).      *)
(* J0 is [iv |-> the 12 IV bytes] or, for other IV lengths, [ghash |-> the *)
(* GHASH input that gave it].  GHASH is abstracted by its                  *)
(* input: the sequence of bytes, zero bytes <<"Z", 0, 0>> and length       *)
(* blocks <<"len", aad bits, data bits>> hashed since the state was last   *)
(* cleared.  A tag is E_K(J0) xor GHASH: the record of the key of the     *)
(* sealed AES code, J0, H's key and the GHASH input.                       *)
(***************************************************************************)
EXTENDS Naturals, Sequences

CONSTANTS
    Keys,              \* keys the application passes
    Ivs,               \* IVs the application passes
    IvLens,            \* IV lengths the application sets (OSSL_CIPHER_PARAM_IVLEN)
    TlsAadLens,        \* lengths of AAD set as OSSL_CIPHER_PARAM_AEAD_TLS1_AAD
    NoKey, NoIv,       \* a NULL key or IV argument
    NoTag,             \* the zero tag of a fresh context
    Forged,            \* a tag the application got from an attacker
    Modes,             \* directions the application uses: "enc", "dec"
    AadLens,           \* lengths of the AAD updates
    DataLens,          \* lengths of the data updates
    MaxBytes,          \* bound on the bytes of one message
    MaxInits,          \* bound on init calls
    FirstUpdateIsAad   \* the application passes AAD only as a first update
                       \* shorter than a block (the code's own convention)

GCM_BLOCK == 16

\* An IV longer than oiv (16 bytes) would overflow it in einit's memcpy;
\* such lengths are left out.
ASSUME /\ Modes \subseteq {"enc", "dec"} /\ FirstUpdateIsAad \in BOOLEAN
       /\ IvLens \subseteq 1 .. GCM_BLOCK

VARIABLES
    ctx,        \* the fields of aes_128_gcm_context
    \* observability variables
    msg,        \* number of init calls so far
    phase,      \* "idle", "start", "aad", "data", "finished", "tagged", "crashed"
    appMode, appKey, appIv,
    appIvLen,   \* the IV length the application set, 12 by default
    appAad,     \* the AAD the application passed for this message
    appData,    \* the data bytes the application passed
    appTag,     \* the tag the application set for decryption
    out,        \* the bytes the code wrote out for this message
    results     \* what each final, and each tag read, returned, with what
                \* GCM says it should

vars == <<ctx, msg, phase, appMode, appKey, appIv, appIvLen, appAad, appData, appTag, out, results>>

Zeros(n) == [i \in 1 .. n |-> <<"Z", 0, 0>>]

(***************************************************************************)
(* init_aad pads the AAD with zero bytes; ghash over its blocks therefore  *)
(* hashes the AAD followed by zeros up to a block boundary.                *)
(***************************************************************************)
Pad16(s) == s \o Zeros((GCM_BLOCK - (Len(s) % GCM_BLOCK)) % GCM_BLOCK)

WholeBlockBytes(n) == n - (n % GCM_BLOCK)

(***************************************************************************)
(* The sealed AES code run from counter c over the whole blocks of bytes.  *)
(***************************************************************************)
Gctr(bytes, c) ==
    [i \in 1 .. WholeBlockBytes(Len(bytes)) |->
        <<"c", bytes[i], <<ctx.funKey, ctx.j0, c + (i - 1) \div GCM_BLOCK, (i - 1) % GCM_BLOCK>>>>]

HashedSwapped(inb, outb) == IF ctx.decrypt THEN outb ELSE inb

(***************************************************************************)
(* ghash((ctx->decrypt ? in : out), ...): GHASH runs over the ciphertext,  *)
(* which is the input when decrypting and the output when encrypting.      *)
(***************************************************************************)
Hashed(inb, outb) == IF ctx.decrypt THEN inb ELSE outb

GcmCipherNoAdvance(bytes, c, hs, nct) ==
    LET o == Gctr(bytes, c) IN
    [out |-> o, ctr |-> c, numCt |-> nct,
     hash |-> hs \o Hashed(SubSeq(bytes, 1, Len(o)), o)]

(***************************************************************************)
(* aes_128_gcm_cipher: encrypt the whole blocks, count them, hash the      *)
(* ciphertext and advance the counter word of J.                           *)
(***************************************************************************)
GcmCipher(bytes, c, hs, nct) ==
    LET o  == Gctr(bytes, c)
        nb == Len(bytes) \div GCM_BLOCK
    IN  [out |-> o, ctr |-> c + nb, numCt |-> nct + nb,
         hash |-> hs \o Hashed(SubSeq(bytes, 1, Len(o)), o)]

NewCtx ==
    [keyInit |-> FALSE, ivInit |-> FALSE, decrypt |-> FALSE, hasH |-> FALSE,
     firstUpdate |-> FALSE, staged |-> NoKey, funKey |-> NoKey, hkey |-> NoKey,
     oiv |-> Zeros(GCM_BLOCK), ivlen |-> 0, j0 |-> NoIv,
     aad |-> <<>>, hashState |-> <<>>, ctr |-> 0,
     block |-> <<>>, blockOffset |-> 0, numCt |-> 0, tag |-> NoTag]

IvBytes(v, n) == [i \in 1 .. n |-> <<"iv", v, i>>]

GetJ0NoReset(oiv, ivlen, hs) ==
  IF ivlen = 12 THEN [j0 |-> [iv |-> SubSeq(oiv, 1, 12)], hash |-> hs]
  ELSE LET g == hs \o SubSeq(oiv, 1, GCM_BLOCK * ((ivlen + GCM_BLOCK - 1) \div GCM_BLOCK))
                  \o <<<<"ivlen", ivlen * 8>>>>
       IN [j0 |-> [ghash |-> g], hash |-> g]

(***************************************************************************)
(* getJ0: a 12-byte IV is J0 with counter word 1.  Any other length is     *)
(* hashed, from the current hash_state, as the whole blocks of oiv that    *)
(* hold it, then a length block; the hash state is then cleared.  J0 and   *)
(* the hash state afterwards.                                              *)
(***************************************************************************)
GetJ0(oiv, ivlen, hs) ==
  IF ivlen = 12 THEN [j0 |-> [iv |-> SubSeq(oiv, 1, 12)], hash |-> hs]
  ELSE LET g == hs \o SubSeq(oiv, 1, GCM_BLOCK * ((ivlen + GCM_BLOCK - 1) \div GCM_BLOCK))
                  \o <<<<"ivlen", ivlen * 8>>>>
       IN [j0 |-> [ghash |-> g], hash |-> <<>>]

(***************************************************************************)
(* aes_128_gcm_einit, and aes_128_gcm_dinit, which sets decrypt first.  A  *)
(* key is staged and, if no H exists yet, H is derived from it; an IV is   *)
(* copied into oiv over ivlen bytes, ivlen being the argument, else the    *)
(* context's, else 12.  Once both are known the staged code is locked into *)
(* XOM (if a key was staged), J0 and the counter after it are set and      *)
(* stored AAD is hashed.  Nothing else is reset.                           *)
(***************************************************************************)
GcmInit(mode, k, v, ivlenArg) ==
    LET keyed  == k # NoKey
        ivlen  == IF v = NoIv THEN ctx.ivlen
                  ELSE IF ivlenArg # 0 THEN ivlenArg
                  ELSE IF ctx.ivlen # 0 THEN ctx.ivlen ELSE 12
        oiv    == IF v = NoIv THEN ctx.oiv
                  ELSE [i \in 1 .. GCM_BLOCK |-> IF i <= ivlen THEN <<"iv", v, i>> ELSE ctx.oiv[i]]
        newH   == keyed /\ ~ctx.hasH
        ki     == ctx.keyInit \/ keyed
        vi     == ctx.ivInit \/ v # NoIv
        staged == IF keyed THEN k ELSE ctx.staged
        ready  == ki /\ vi
        j      == GetJ0(oiv, ivlen, ctx.hashState)
    IN
    [ctx EXCEPT !.decrypt   = @ \/ mode = "dec",
                !.keyInit   = ki,
                !.ivInit    = vi,
                !.hasH      = @ \/ keyed,
                !.hkey      = IF newH THEN k ELSE @,
                !.oiv       = oiv,
                !.ivlen     = ivlen,
                !.j0        = IF ready THEN j.j0 ELSE @,
                !.staged    = IF ready THEN NoKey ELSE staged,
                !.funKey    = IF ready /\ staged # NoKey THEN staged ELSE @,
                !.ctr       = IF ready THEN 1 ELSE @,
                !.hashState = IF ready THEN j.hash \o Pad16(ctx.aad) ELSE @]

BuffersPartialOffByOne(n, bo) == n + bo <= GCM_BLOCK

(***************************************************************************)
(* The test that sends an update to the partial-block buffer.              *)
(***************************************************************************)
BuffersPartial(n, bo) == n + bo < GCM_BLOCK

(***************************************************************************)
(* aes_128_gcm_stream_update on input bytes: the new context and the       *)
(* bytes written to out.  The first update of a message, if shorter than a *)
(* block, is taken as the AAD (init_aad, then ghash); an empty first       *)
(* update only clears the flag.  Otherwise the partial block is buffered,  *)
(* or completed and encrypted, the whole blocks of the rest encrypted, and *)
(* the leftover buffered.                                                  *)
(***************************************************************************)
StreamUpdate(bytes) ==
    LET n    == Len(bytes)
        bo   == ctx.blockOffset
        fill == GCM_BLOCK - bo
        head == IF bo # 0
                  THEN GcmCipher(ctx.block \o SubSeq(bytes, 1, fill), ctx.ctr, ctx.hashState, ctx.numCt)
                  ELSE [out |-> <<>>, ctr |-> ctx.ctr, numCt |-> ctx.numCt, hash |-> ctx.hashState]
        rest == IF bo # 0 THEN SubSeq(bytes, fill + 1, n) ELSE bytes
        body == GcmCipher(rest, head.ctr, head.hash, head.numCt)
        kept == WholeBlockBytes(Len(rest))
    IN
    CASE ~ctx.firstUpdate /\ n = 0 ->
           [ctx |-> [ctx EXCEPT !.firstUpdate = TRUE], out |-> <<>>]
      [] ~ctx.firstUpdate /\ n < GCM_BLOCK ->
           [ctx |-> [ctx EXCEPT !.firstUpdate = TRUE, !.aad = bytes,
                                !.hashState = @ \o Pad16(bytes)],
            out |-> <<>>]
      [] BuffersPartial(n, bo) ->
           [ctx |-> [ctx EXCEPT !.firstUpdate = TRUE, !.block = @ \o bytes,
                                !.blockOffset = bo + n],
            out |-> <<>>]
      [] OTHER ->
           [ctx |-> [ctx EXCEPT !.firstUpdate = TRUE, !.ctr = body.ctr,
                                !.numCt = body.numCt, !.hashState = body.hash,
                                !.block = SubSeq(rest, kept + 1, Len(rest)),
                                !.blockOffset = Len(rest) - kept],
            out |-> head.out \o body.out]

(***************************************************************************)
(* The GHASH length block of aes_128_gcm_stream_final.                     *)
(***************************************************************************)
LengthBlock == <<"len", Len(ctx.aad) * 8, ctx.numCt * GCM_BLOCK * 8 + ctx.blockOffset * 8>>

(***************************************************************************)
(* aes_128_gcm_stream_final: encrypt the buffered bytes with J, hash the   *)
(* zero-padded last block (ciphertext) and the length block, and encrypt   *)
(* the hash with J0.  Encryption keeps the tag; decryption compares it     *)
(* with ctx->tag.  Then the message state is cleared.                      *)
(***************************************************************************)
StreamFinal ==
    LET bo   == ctx.blockOffset
        last == [i \in 1 .. bo |->
                   <<"c", ctx.block[i], <<ctx.funKey, ctx.j0, ctx.ctr, i - 1>>>>]
        hs   == ctx.hashState
                \o (IF bo = 0 THEN <<>> ELSE Hashed(ctx.block, last) \o Zeros(GCM_BLOCK - bo))
                \o <<LengthBlock>>
        tag  == [key |-> ctx.funKey, j0 |-> ctx.j0, h |-> ctx.hkey, ghash |-> hs]
    IN
    [ctx |-> [ctx EXCEPT !.tag = IF ctx.decrypt THEN @ ELSE tag,
                         !.aad = <<>>, !.firstUpdate = FALSE, !.blockOffset = 0,
                         !.numCt = 0, !.block = <<>>, !.ctr = 0, !.hashState = <<>>],
     out |-> last,
     ret |-> IF ctx.decrypt THEN tag = ctx.tag ELSE TRUE]

-----------------------------------------------------------------------------
(* What GCM says the message should give (NIST SP 800-38D). *)

RefJ0 ==
    IF appIvLen = 12 THEN [iv |-> IvBytes(appIv, 12)]
    ELSE [ghash |-> Pad16(IvBytes(appIv, appIvLen)) \o <<<<"ivlen", appIvLen * 8>>>>]
RefOut ==
    LET j0 == RefJ0 IN
    [i \in 1 .. Len(appData) |->
        <<"c", appData[i], <<appKey, j0, 1 + (i - 1) \div GCM_BLOCK, (i - 1) % GCM_BLOCK>>>>]
RefCipher == IF appMode = "dec" THEN appData ELSE RefOut
RefTag ==
    [key |-> appKey, j0 |-> RefJ0, h |-> appKey,
     ghash |-> Pad16(appAad) \o Pad16(RefCipher) \o <<<<"len", Len(appAad) * 8, Len(appData) * 8>>>>]

-----------------------------------------------------------------------------
(* The application's calls. *)

Open == {"start", "aad", "data"}

\* Between messages: before the first, after final, after reading the tag.
Between == {"idle", "finished", "tagged"}

(***************************************************************************)
(* EVP_EncryptInit_ex / EVP_DecryptInit_ex with a key, an IV or both.  The *)
(* application uses a context in one direction and starts a message only   *)
(* after finishing the last one.  EVP passes a NULL IV with length 0 and    *)
(* any other with the length get_ctx_params reports: ctx->ivlen, or 12.    *)
(* The message's AAD is what the context holds for init to hash.          *)
(***************************************************************************)
EvpIvLen == IF ctx.ivlen # 0 THEN ctx.ivlen ELSE 12

Init1(mode, k, v) ==
    /\ phase \in Between
    /\ msg < MaxInits
    /\ appMode \in {mode, "none"}
    /\ k # NoKey \/ v # NoIv
    /\ ctx' = GcmInit(mode, k, v, IF v = NoIv THEN 0 ELSE EvpIvLen)
    /\ msg' = msg + 1
    /\ appMode' = mode
    /\ appKey' = IF k # NoKey THEN k ELSE appKey
    /\ appIv' = IF v # NoIv THEN v ELSE appIv
    /\ phase' = IF appKey' # NoKey /\ appIv' # NoIv THEN "start" ELSE "idle"
    /\ appAad' = ctx.aad /\ appData' = <<>> /\ out' = <<>> /\ appTag' = NoTag
    /\ UNCHANGED <<appIvLen, results>>

Bytes(kind, from, n) == [i \in 1 .. n |-> <<kind, msg, from + i>>]

(***************************************************************************)
(* EVP_*Update(ctx, NULL, &len, aad, n): the provider's stream_update with *)
(* out = NULL.  If the code writes output for it, it writes through NULL.  *)
(***************************************************************************)
AadUpdate(n) ==
    LET r == StreamUpdate(Bytes("a", Len(appAad), n)) IN
    /\ phase \in {"start", "aad"}
    /\ FirstUpdateIsAad => phase = "start" /\ n < GCM_BLOCK /\ (appAad # <<>> => n = 0)
    /\ Len(appAad) + n <= MaxBytes
    /\ ctx' = r.ctx
    /\ appAad' = appAad \o Bytes("a", Len(appAad), n)
    /\ phase' = IF r.out # <<>> THEN "crashed"
                ELSE IF FirstUpdateIsAad THEN "data" ELSE "aad"
    /\ UNCHANGED <<msg, appMode, appKey, appIv, appIvLen, appData, appTag, out, results>>

(***************************************************************************)
(* EVP_*Update(ctx, out, &len, in, n) on message data.                     *)
(***************************************************************************)
DataUpdate(n) ==
    LET r == StreamUpdate(Bytes("d", Len(appData), n)) IN
    /\ phase \in Open
    /\ FirstUpdateIsAad => phase = "data"
    /\ Len(appData) + n <= MaxBytes
    /\ ctx' = r.ctx
    /\ appData' = appData \o Bytes("d", Len(appData), n)
    /\ out' = out \o r.out
    /\ phase' = "data"
    /\ UNCHANGED <<msg, appMode, appKey, appIv, appIvLen, appAad, appTag, results>>

(***************************************************************************)
(* EVP_CIPHER_CTX_ctrl(..., SET_TAG): OSSL_CIPHER_PARAM_AEAD_TAG copied    *)
(* into ctx->tag, either the right tag of the message or a forged one.     *)
(***************************************************************************)
SetTag(valid) ==
    LET t == IF valid THEN RefTag ELSE Forged IN
    /\ phase \in Open
    /\ appMode = "dec"
    /\ ctx' = [ctx EXCEPT !.tag = t]
    /\ appTag' = t
    /\ UNCHANGED <<msg, phase, appMode, appKey, appIv, appIvLen, appAad, appData, out, results>>

(***************************************************************************)
(* EVP_CIPHER_CTX_ctrl(..., SET_IVLEN): the IVLEN parameter, stored in      *)
(* ctx->ivlen unchecked.  The application sets it between messages and     *)
(* passes a new IV with the next init.                                     *)
(***************************************************************************)
SetIvLen(l) ==
    /\ phase \in Between
    /\ ctx' = [ctx EXCEPT !.ivlen = l]
    /\ appIvLen' = l /\ appIv' = NoIv
    /\ phase' = "idle"
    /\ UNCHANGED <<msg, appMode, appKey, appAad, appData, appTag, out, results>>

(***************************************************************************)
(* The AEAD_TLS1_AAD parameter: init_aad replaces the stored AAD, which is  *)
(* hashed only by the next init that has both key and IV.  An application *)
(* following the code's convention sets it before that init; one that     *)
(* sets it during a message means it as that message's AAD.               *)
(***************************************************************************)
SetTls1Aad(n) ==
    /\ \/ phase \in Between
       \/ ~FirstUpdateIsAad /\ phase \in Open
    /\ ctx' = [ctx EXCEPT !.aad = Bytes("a", 0, n)]
    /\ appAad' = Bytes("a", 0, n)
    /\ phase' = IF phase \in Between THEN "idle" ELSE phase
    /\ UNCHANGED <<msg, appMode, appKey, appIv, appIvLen, appData, appTag, out, results>>

(***************************************************************************)
(* EVP_*Final_ex: the last bytes, and the return value: 1 after          *)
(* encryption, the verdict on the tag after decryption.  A decrypting     *)
(* application sets the expected tag before final.                        *)
(***************************************************************************)
Final1 ==
    LET r == StreamFinal IN
    /\ phase \in Open
    /\ appMode = "dec" => appTag # NoTag
    /\ ctx' = r.ctx
    /\ out' = out \o r.out
    /\ phase' = "finished"
    /\ results' = Append(results,
                    [got  |-> [out |-> out \o r.out, ok |-> r.ret],
                     want |-> [out |-> RefOut, ok |-> appMode = "enc" \/ appTag = RefTag]])
    /\ UNCHANGED <<msg, appMode, appKey, appIv, appIvLen, appAad, appData, appTag>>

(***************************************************************************)
(* EVP_CIPHER_CTX_ctrl(..., GET_TAG) after an encryption's final: the      *)
(* AEAD_TAG parameter of get_ctx_params, a copy of ctx->tag.  The          *)
(* application reads it once per message.                                 *)
(***************************************************************************)
GetTag ==
    /\ phase = "finished"
    /\ appMode = "enc"
    /\ phase' = "tagged"
    /\ results' = Append(results, [got |-> ctx.tag, want |-> RefTag])
    /\ UNCHANGED <<ctx, msg, appMode, appKey, appIv, appIvLen, appAad, appData, appTag, out>>

Init ==
    /\ ctx = NewCtx
    /\ msg = 0
    /\ phase = "idle"
    /\ appMode = "none" /\ appKey = NoKey /\ appIv = NoIv /\ appIvLen = 12
    /\ appAad = <<>> /\ appData = <<>> /\ appTag = NoTag
    /\ out = <<>>
    /\ results = <<>>

Next ==
    \/ \E mode \in Modes, k \in Keys \cup {NoKey}, v \in Ivs \cup {NoIv} : Init1(mode, k, v)
    \/ \E n \in AadLens : AadUpdate(n)
    \/ \E n \in DataLens : DataUpdate(n)
    \/ \E valid \in BOOLEAN : SetTag(valid)
    \/ \E l \in IvLens : SetIvLen(l)
    \/ \E n \in TlsAadLens : SetTls1Aad(n)
    \/ Final1
    \/ GetTag

Spec == Init /\ [][Next]_vars

-----------------------------------------------------------------------------
(* Properties *)

TypeOK ==
    /\ ctx.blockOffset \in 0 .. GCM_BLOCK - 1
    /\ Len(ctx.block) = ctx.blockOffset
    /\ ctx.funKey \in Keys \cup {NoKey} /\ ctx.hkey \in Keys \cup {NoKey}
    /\ Len(ctx.oiv) = GCM_BLOCK /\ ctx.ivlen \in IvLens \cup {0, 12}
    /\ phase \in Between \cup {"crashed"} \cup Open
    /\ msg \in 0 .. MaxInits

(***************************************************************************)
(* While a message streams, every byte written so far is the matching byte *)
(* of the GCM encryption (or decryption) of the data passed, under the     *)
(* application's key and IV: the partial-block buffering, the counter in J *)
(* and the key of the sealed code must all agree for this.                 *)
(***************************************************************************)
OutputIsGcm ==
    phase \in Open \cup {"finished", "tagged"} =>
        /\ Len(out) <= Len(appData)
        /\ LET ref == RefOut IN \A i \in 1 .. Len(out) : out[i] = ref[i]

(***************************************************************************)
(* Every final returns what GCM says: all data bytes written, and after   *)
(* decryption the verdict "the tag set is the right one"; the tag read     *)
(* after an encryption is GCM's tag over the AAD and ciphertext under the *)
(* application's key and IV.  This covers the AAD handling of             *)
(* stream_update, the ghash of ciphertext blocks, and the padding and      *)
(* length block of stream_final.                                           *)
(***************************************************************************)
FinalIsGcm == \A i \in 1 .. Len(results) : results[i].got = results[i].want
====
