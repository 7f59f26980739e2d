----------------------------- MODULE CtrStream -----------------------------
(***************************************************************************)
(* The data path of one AES-128-CTR context of the XOM OpenSSL provider    *)
(* (src/openssl-provider/src/xom_aes_128_ctr.c): aes_128_ctr_init,         *)
(* aes_128_ctr_stream_update, aes_128_ctr_stream_final and                 *)
(* aes_128_ctr_cipher.                                                     *)
(*                                                                         *)
(* A byte is abstracted to its identity <<message, position>>; an output   *)
(* byte is the input byte it was XORed with and the keystream byte used,   *)
(* <<nonce, counter, offset in block>>.  The IV is split into its upper    *)
(* 96 bits (a model value of Nonces) and the low 32-bit word that the code *)
(* keeps in ctx->ctr; CtrBits is that word's width, scaled down so that    *)
(* its wrap is reachable.  The sealed AES code (aes_*_gctr_linear, not in  *)
(* this repository) is taken to encrypt block i of a call with counter     *)
(* word ctr + i modulo 2^CtrBits, as the C loop that follows it assumes.   *)
(***************************************************************************)
EXTENDS Naturals, Sequences

CONSTANTS
    BlockSize,      \* AES_128_CTR_BLOCK_SIZE (16)
    CtrBits,        \* width of ctx->ctr.d (32 in the code)
    Nonces,         \* upper 96 bits of the IVs the application passes
    NoNonce,        \* the all-zero IV of a fresh context
    InLens,         \* the inl values of the updates the application makes
    MaxBytes,       \* bound on the bytes of one message
    MaxInits        \* bound on the number of successful inits

ASSUME BlockSize \in {2, 4, 8, 16} /\ CtrBits \in 1 .. 32
ASSUME NoNonce \notin Nonces
ASSUME InLens \subseteq Nat /\ MaxBytes \in Nat /\ MaxInits \in Nat

CtrMod == 2 ^ CtrBits

VARIABLES
    \* implementation variables: fields of xom_aes_ctr_context
    keyed,          \* ctx->aes_fun # NULL
    nonce,          \* ctx->iv[0..11]
    ctr,            \* ctx->ctr.d, mirrored into ctx->iv[12..15]
    block,          \* ctx->block[0 .. block_offset-1]
    blockOffset,    \* ctx->block_offset
    \* observability variables
    msg,            \* number of successful inits so far
    phase,          \* where the application is: "idle", "streaming", "finished"
    ivLow,          \* low word of the IV of the current message
    sent,           \* the bytes passed to update since the last init
    out,            \* the bytes produced since the last init
    usedNonces      \* nonces already used (the application never reuses one)

impl == <<keyed, nonce, ctr, block, blockOffset>>
vars == <<keyed, nonce, ctr, block, blockOffset, msg, phase, ivLow, sent, out, usedNonces>>

Byte == (0 .. MaxInits) \X (1 .. MaxBytes)
Keystream == Nonces \X (0 .. CtrMod - 1) \X (0 .. BlockSize - 1)

(***************************************************************************)
(* inl & ~(AES_128_CTR_BLOCK_SIZE - 1): the bytes of whole blocks in inl.  *)
(***************************************************************************)
WholeBlockBytes(n) == n - (n % BlockSize)

(***************************************************************************)
(* The sealed AES code applied to the whole blocks of bytes, starting from *)
(* counter c.                                                              *)
(***************************************************************************)
Gctr(bytes, c) ==
    [i \in 1 .. WholeBlockBytes(Len(bytes)) |->
        [byte |-> bytes[i],
         ks   |-> <<nonce, (c + (i - 1) \div BlockSize) % CtrMod, (i - 1) % BlockSize>>]]

CtrCipherNoAdvance(bytes, c) == [out |-> Gctr(bytes, c), ctr |-> c]

(***************************************************************************)
(* aes_128_ctr_cipher: encrypt the whole blocks of the input and add the   *)
(* number of blocks processed to ctx->ctr.d (modulo its width).  The loop  *)
(* over partial results of the sealed code ends with every block          *)
(* processed, so it is one step here.  The outsize clamp never applies:    *)
(* EVP passes at least inl + 15 bytes of room.                             *)
(***************************************************************************)
CtrCipher(bytes, c) ==
    [out |-> Gctr(bytes, c),
     ctr |-> (c + Len(bytes) \div BlockSize) % CtrMod]

CtrInit ==
    \E n \in Nonces \ usedNonces, lo \in 0 .. CtrMod - 1, lockOk \in BOOLEAN :
        /\ msg < MaxInits
        /\ nonce' = n
        /\ ctr' = lo
        /\ keyed' = lockOk
        /\ msg' = msg + 1
        /\ phase' = IF lockOk THEN "streaming" ELSE "idle"
        /\ ivLow' = lo
        /\ sent' = <<>>
        /\ out' = <<>>
        /\ usedNonces' = usedNonces \cup {n}
        /\ UNCHANGED <<block, blockOffset>>

BuffersPartialOffByOne(inl, bo) == inl + bo <= BlockSize

(***************************************************************************)
(* The test that sends an update to the partial-block buffer.              *)
(***************************************************************************)
BuffersPartial(inl, bo) == inl + bo < BlockSize

(***************************************************************************)
(* aes_128_ctr_stream_update: either append the input to the partial      *)
(* block, or complete the buffered block with the first input bytes and   *)
(* encrypt it, encrypt the whole blocks of the rest, and keep what is left *)
(* as the new partial block.                                               *)
(***************************************************************************)
CtrStreamUpdate(inl) ==
    LET in   == [i \in 1 .. inl |-> <<msg, Len(sent) + i>>]
        fill == BlockSize - blockOffset
        head == IF blockOffset # 0
                  THEN CtrCipher(block \o SubSeq(in, 1, fill), ctr)
                  ELSE [out |-> <<>>, ctr |-> ctr]
        rest == IF blockOffset # 0 THEN SubSeq(in, fill + 1, inl) ELSE in
        body == CtrCipher(rest, head.ctr)
        kept == WholeBlockBytes(Len(rest))
    IN  /\ phase = "streaming"
        /\ Len(sent) + inl <= MaxBytes
        /\ sent' = sent \o in
        /\ IF BuffersPartial(inl, blockOffset)
             THEN /\ block' = block \o in
                  /\ blockOffset' = blockOffset + inl
                  /\ UNCHANGED <<ctr, out>>
             ELSE /\ out' = out \o head.out \o body.out
                  /\ ctr' = body.ctr
                  /\ block' = SubSeq(rest, kept + 1, Len(rest))
                  /\ blockOffset' = Len(rest) - kept
        /\ UNCHANGED <<keyed, nonce, msg, phase, ivLow, usedNonces>>

(***************************************************************************)
(* aes_128_ctr_stream_final: encrypt the buffered bytes with the current   *)
(* counter.  Neither block_offset nor the counter is reset.                *)
(***************************************************************************)
CtrStreamFinal ==
    /\ phase = "streaming"
    /\ phase' = "finished"
    /\ out' = IF blockOffset = 0 THEN out
              ELSE out \o [i \in 1 .. blockOffset |->
                              [byte |-> block[i], ks |-> <<nonce, ctr, i - 1>>]]
    /\ UNCHANGED <<keyed, nonce, ctr, block, blockOffset, msg, ivLow, sent, usedNonces>>

(***************************************************************************)
(* EVP_Cipher on the context: aes_128_ctr_cipher on whole blocks.  The     *)
(* application calls it only at a block boundary of the stream.           *)
(***************************************************************************)
CtrCipherCall(inl) ==
    LET in  == [i \in 1 .. inl |-> <<msg, Len(sent) + i>>]
        res == CtrCipher(in, ctr)
    IN  /\ phase = "streaming"
        /\ blockOffset = 0
        /\ inl % BlockSize = 0
        /\ Len(sent) + inl <= MaxBytes
        /\ sent' = sent \o in
        /\ out' = out \o res.out
        /\ ctr' = res.ctr
        /\ UNCHANGED <<keyed, nonce, block, blockOffset, msg, phase, ivLow, usedNonces>>

(***************************************************************************)
(* aes_128_ctr_newctx: everything zero, no key.                            *)
(***************************************************************************)
Init ==
    /\ keyed = FALSE
    /\ nonce = NoNonce
    /\ ctr = 0
    /\ block = <<>>
    /\ blockOffset = 0
    /\ msg = 0
    /\ phase = "idle"
    /\ ivLow = 0
    /\ sent = <<>>
    /\ out = <<>>
    /\ usedNonces = {}

Next ==
    \/ CtrInit
    \/ \E inl \in InLens : CtrStreamUpdate(inl)
    \/ CtrStreamFinal
    \/ \E inl \in InLens : CtrCipherCall(inl)

Spec == Init /\ [][Next]_vars

-----------------------------------------------------------------------------
(* Properties *)

OutByte == [byte : Byte, ks : Keystream]

TypeOK ==
    /\ keyed \in BOOLEAN
    /\ nonce \in Nonces \cup {NoNonce}
    /\ ctr \in 0 .. CtrMod - 1
    /\ blockOffset \in 0 .. BlockSize - 1
    /\ block \in Seq(Byte) /\ Len(block) = blockOffset
    /\ phase \in {"idle", "streaming", "finished"}
    /\ sent \in Seq(Byte) /\ out \in Seq(OutByte)

(***************************************************************************)
(* The keystream byte the k-th byte of a message gets from the sealed      *)
(* code: block (k-1) div 16 counted from the IV in the low 32-bit word.    *)
(***************************************************************************)
GctrKeystream(k) == <<nonce, (ivLow + (k - 1) \div BlockSize) % CtrMod, (k - 1) % BlockSize>>

(***************************************************************************)
(* Streaming through update and final is equivalent to encrypting the      *)
(* whole message at once: the k-th output byte is the k-th input byte      *)
(* with the k-th keystream byte; while streaming, ctx->block holds exactly *)
(* the input not yet output and ctx->ctr the counter of the next block;    *)
(* after final every input byte has been output.  This is what the         *)
(* block_offset handling of aes_128_ctr_stream_update and _final must get  *)
(* right across every split of the message into update calls.             *)
(***************************************************************************)
StreamIsOneShotEncryption ==
    phase # "idle" =>
        /\ Len(out) <= Len(sent)
        /\ \A k \in 1 .. Len(out) : out[k] = [byte |-> sent[k], ks |-> GctrKeystream(k)]
        /\ phase = "streaming" =>
               /\ block = SubSeq(sent, Len(out) + 1, Len(sent))
               /\ ctr = (ivLow + Len(out) \div BlockSize) % CtrMod
        /\ phase = "finished" => Len(out) = Len(sent)
====
