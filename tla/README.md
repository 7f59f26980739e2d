# TLA+ models of Lixom

Lixom seals cryptographic keys into execute-only memory (XOM). The keys are
spliced into machine code, so a guest program can run the code but cannot read
the key. The system has three layers:

1. **Xen hypercall `XENMEM_xom_seal`** (`src/xen/xen/arch/x86/xom_seal.c`).
   It manages per-domain XOM state under `xom_page_lock` through five commands:
   - `MARK_XOM` (`set_xom_seal`): make a range of frames execute-only.
   - `UNMARK_XOM` (`clear_xom_seal`): fill the frames with `0x90`, make them
     rwx again, and drop their metadata.
   - `CREATE_XOM_SPAGES` (`create_xom_subpages`): put frames in sub-page mode,
     with a 16-bit lock bitmap of 256-byte subpages.
   - `WRITE_XOM_SPAGES` (`write_into_subpage`): the hypervisor copies guest
     data into unlocked subpages and locks them for good.
   - `MARK_REG_CLEAR` (`mark_reg_clear_page`): record that registers must be
     cleared when code on that frame returns.

   Metadata lives in two rb-trees keyed by frame: `xom_subpages` and
   `xom_reg_clear_pages`.
2. **libxom.** A user-space library that groups subpages and issues those
   hypercalls. It is not in this repository; it is described in `spec.md`.
3. **OpenSSL provider** (`src/openssl-provider/src`).
   - AES-128-CTR, AES-128-GCM and HMAC-SHA256 contexts build key-specific code
     blobs.
   - The blobs are placed into XOM through the sub-page pool
     (`xom_subpage_pool.cpp`).
   - The pool packs blobs into libxom subpage groups and marks pages for
     register clearing.

How they interact:
- pool → libxom: fill and lock, free, free all.
- libxom → hypercall: create, write, mark, unmark.
- cipher contexts → pool: lock a blob on init, release it on free.

## Inventory

| Component | State in the code | Operations | Hard behaviour |
|---|---|---|---|
| Sealing protocol | p2m access of each frame; frame contents | set, clear, create, write, mark; the `handle_xom_seal` batch loop | partial failure mid-range; ignored p2m errors; fill-before-rwx ordering; preemption (`-ERESTART`) without `pdone` |
| Metadata index | `xom_subpages` (lock bitmap per frame) and `xom_reg_clear_pages` (clear type per frame) | insert, add (EEXIST), get, rm, free-all | stale entries after unseal; duplicate insertion |
| Register-clear policy | `xom_reg_clear_pages` | `gfn_of_rip` + lookup | lookup outside the lock |
| Sub-page pool | vector of entries: group, `last_page_marked`, `subpages_used`, `buffers_used` | lock into XOM (scan/new), free, destroy | size accounting; marking of multi-page blobs; release lookup; erase threshold |
| libxom groups | per group: bump pointer, live set, sealed | alloc, fill & lock, free, free all | unseal on last free |
| Cipher contexts (CTR/GCM/HMAC) | refcount, aes_fun/xombuf, key staging | new, dup, free, init, update | shared blob across dup; re-init leaks; HMAC re-key ignored once locked |
| Stream buffering | partial block, CTR counter | update/final | boundaries at 0 and 16 bytes |
| Provider plumbing, demos, key splicing | none beyond teardown | — | — |

Properties each part needs:
- **Sealing protocol:**
  - data written through a lock bitmap is never readable by the guest;
  - metadata exists only for XOM frames;
  - a frame is in one mode at a time and is sealed only from Normal;
  - locked subpages never change, and each is written at most once;
  - a sealed frame is marked for register clearing at most once.
- **Pool:**
  - every held blob is in a sealed group;
  - every held blob's pages are marked;
  - accounting matches the subpages used;
  - a released blob is untracked.
- **Streams:**
  - streaming through update/final equals encrypting or MACing the message at
    once;
  - the buffer holds exactly the unprocessed tail.
- **Contexts:**
  - shared objects are freed exactly when the last reference goes;
  - sealed code is never written after it was locked.
  - (planned) re-init does not leak a pool blob.

## Modules

### `XomSeal.tla`: the five hypercall commands

Each command is one atomic action, because `handle_xom_seal` holds
`xom_page_lock` around each element's handler (lines 394-416).

State:
- `access`: the p2m access of each frame, `"rwx"` or `"x"`.
- `subpages`: the `xom_subpages` tree, as a partial function from frame to the
  set of locked subpage indices.
- `regClear`: `xom_reg_clear_pages`, as a partial function from frame to clear
  type.
- `content`: what each subpage holds: a payload, the guest's own data
  (`Plain`) or the `0x90` fill (`Nop`).

History variables (not in the code):
- `sealed`: the subpages whose content came from a `WRITE_XOM_SPAGES` command
  and has not been overwritten since.

Injected failures:
- `faults` counts them against two bounds:
  - `AccessFaults`: `p2m_set_mem_access_single` fails;
  - `ResourceFaults`: `xmalloc`, `get_page_from_gfn` or `get_page_type` fails.
- A failing loop is modelled by choosing nondeterministically where it stops.

Actions:
- `SetXomSeal`, `ClearXomSeal`, `CreateXomSubpages`, `WriteIntoSubpage` and
  `MarkRegClearPage` follow the C functions of the same name. Guards come from
  their early returns. `UnsealFrames` is the fill, access change and record
  removal of `clear_xom_seal`.
- `RangeRejected`, `WriteRejected` and `MarkRejected` are the error returns
  that change nothing but the return code: zero or out-of-range counts, an
  invalid or locked target, a double mark. A resource fault that happens
  before any state change is also one of these.
- `rc` is the last command's return value (`"OK"` or an error name). For
  `clear_xom_seal`, it is the result of the last XOM frame only, as in the
  code.
- `GuestWrite` is the guest storing to a frame that is still rwx. It is the
  attacker and the normal program at once.

### `XomHypercall.tla`: the batch loop of `handle_xom_seal`

This module extends `XomSeal`. Each vCPU in `Vcpus` passes a batch
`Batch[v]` of `mmuext_op` elements. Each element is a record: command,
frame, count or clear type, and for a write the command in its source frame.

State, per vCPU:
- `phase`: idle, in the call, or done;
- `base`: the element where the call's `uops` starts;
- the loop counter `i`;
- `pdone`;
- `ret`: the value returned to the guest;
- the history `execs`: how often each element's handler ran.

Actions:
- `Exec` is one iteration of the loop:
  - `ExecOp` is the `switch`: the command's success action or its error
    return;
  - on an error the loop returns it;
  - after the last element it writes `pdone` and returns 0.
- `Preempt` returns `-ERESTART`. It can fire only from the second element
  on (`i && hypercall_preempt_check()`), and it leaves `pdone` alone.
- `Issue` is the guest. It is not in the repository and is modelled from
  spec section 6: it issues the elements not yet reported in `pdone`, again
  after `-ERESTART`.

`xom_page_lock` is free between elements. `XomSeal`'s `Next` therefore
interleaves with the loop: other callers' single commands and guest stores.

### `XomEnforcement.tla`: the per-frame contract, and its refinement

`XomEnforcement` is an abstract specification written from spec sections 3,
4.1 and 8, not from the code. It has no p2m, lock bitmaps or trees. Per
frame it keeps:
- `mode`: `"normal"`, `"whole"` (SealedWholePage) or `"sub"`
  (SealedSubpageMode);
- `cells`: the locked sub-pages and the bytes they hold;
- `clear`: the register-clear mark.

Its actions are `SealWholePage`, `Unseal`, `CreateSubpages`,
`WriteSubpages` and `MarkRegisterClear`:
- sealing, either way, starts only from Normal;
- unsealing is the only way back, and it drops the cells and the mark
  together;
- a write adds cells that were not locked, all in one step, and keeps the
  locked ones;
- a sealed frame is marked at most once.

Two deviations from the letter of the spec are allowed:
- a multi-frame request may stop part way (spec section 9, open question);
- a failed create may leave one frame sealed with no record. The code does
  this when `add_page_info_entry` fails after the access change. The frame is
  then in whole-page mode.

`XomSeal` defines the refinement mapping and instances the module as
`Enforcement`:
- `EnforcementMode`: an rwx frame is Normal. An XOM frame is in sub-page mode
  when it has a lock bitmap, and in whole-page mode otherwise.
- `LockedCells`: each locked subpage is mapped to the frame's content.
- The mark is `GetRegClearType`.

`EnforcementRefined == Enforcement!AbsSpec` is checked as a property in
`seal_security`. It replaces the earlier action property that only said
locked subpages keep their bytes. Besides write-once, it checks the mode
transitions: create on an XOM frame must fail (the `get_entry` check at
line 249, `NotXomYet`). Without that check, a whole-page frame would get a
lock bitmap and become writable through `WRITE_XOM_SPAGES`.

### `MetadataIndex.tla`: the rb-trees behind the partial functions

`XomSeal` keeps `xom_subpages` and `xom_reg_clear_pages` as partial
functions. This module models the tree code that has to make that sound.
A tree is `Leaf` or a record `Node(gfn, left, right)`. Each of these is a
RECURSIVE operator:
- `GetPageInfoEntry` is `get_page_info_entry`'s descent;
- `InsertPageInfoNode` is `insert_page_info_node`: it returns `EEXIST` on an
  equal frame, and otherwise links the node where the descent stopped;
- `AddPageInfoEntry` is `add_page_info_entry`: `xmalloc` may fail, and a
  failed insert leaves the tree as it was;
- `FreeXomInfoNode` is the order in which `free_xom_info` frees the nodes.

`rb_insert_color` and `rb_erase` are Xen library code that recolours and
rotates while keeping the in-order sequence. A tree after them is therefore
some binary search tree over the same frames. The reference `SearchTrees(S)`
is every binary search tree with frame set `S`, and the checks range over
all of them:
- `ActsAsPartialFunction(S, G)`: a lookup finds exactly the frames of `S`;
  an insert of a new frame yields a search tree over `S` plus that frame;
  an insert of a present frame, or one after a failed `xmalloc`, changes
  nothing and returns NULL;
- `FreesEachNodeOnce(S)`: teardown frees each node once, after both of its
  subtrees.

`XomSeal` instantiates the module. Its invariants `IndexIsPartialFunction`
and `TeardownFreesEachNodeOnce` check both operators:
- for every subset of `IndexKeys`, as constants TLC computes once;
- for the frame sets the two trees actually hold in each state, through
  tables over `SUBSET Gfns`.

### `SubpagePool.tla`: the provider's sub-page pool

State:
- `pool`: the `std::vector<subpage_list_entry>`. A blob address is
  `<<group, unit>>`.
- `groups`: libxom's subpage groups (spec-modelled): bump pointer, live
  addresses, sealed flag.
- `blobSize`: the size of each blob.
- `marks`: the `(group, page)` pairs passed to `xom_mark_register_clearing`.

Ghost variables:
- `held`: addresses handed out and not yet passed to `subpage_pool_free`.
- `released`: addresses already passed to `subpage_pool_free`.

Actions:
- `LockIntoExisting` and `LockIntoNew` are the two exits of
  `subpage_pool_lock_into_xom`:
  - the recursive `ScanFrom` is the reverse scan;
  - `TooFull` is the skip test.
- `SubpagePoolFree` keeps the code's `find_if` exactly as written.
- `DestroySubpagePool` is `destroy_subpage_pool`.

The code's `bytes_to_subpages` is `BytesToSubpages`. `SubpagesOf` is the
ceiling that libxom actually consumes.

### `CtrStream.tla`: one AES-128-CTR context

This module covers `aes_128_ctr_init`, `_stream_update`, `_stream_final` and
`_cipher` in `xom_aes_128_ctr.c`.

Abstractions:
- A byte is its identity `<<message, position>>`.
- An output byte is the input byte together with the keystream byte used, a
  triple `<<nonce, counter, offset>>`.
- The IV is split into two parts:
  - its upper 96 bits, a model value of `Nonces`;
  - the 32-bit word `ctx->ctr.d`, whose width `CtrBits` is scaled to 2 bits so
    that the wrap occurs.
- The sealed AES code is not in the repository. It is taken to use counter
  `ctr + i` for block `i` of a call. That is what the loop that advances
  `ctx->ctr.d` by `blocks_processed` assumes.

State and actions:
- Implementation state: `keyed`, `nonce`, `ctr`, `block` and `blockOffset`.
- Observability state: `sent`, `out` and `ivLow`, the IV word of the current
  message.
- `CtrStreamUpdate` is the whole update: the buffering branch, or the
  completion of the buffered block followed by the whole blocks, each
  encrypted through `CtrCipher`, with the leftover kept.
- `CtrInit` changes only the IV and the key, as the code does.

### `HmacStream.tla`: HMAC-SHA256 contexts

This module covers the seven operations of `xom_hmac_sha256.c` that change
state, over a set of context slots.

Shared objects:
- `hmac_dup` copies pointers. The block buffer, the hash state, the sealed
  code (`xkey`, `xlocked`, `xmarked`) and the refcount are therefore indexed by
  the slot whose `hmac_new` allocated them, and every context records that
  slot in `buf`.

The sealed SHA-256 code:
- It is abstracted by what `call_hmac_implementation` gives it.
- A hash state is the key it was started with and the sequence of bytes
  compressed since.
- A state resumed from memory that never held one is `Garbage`.
- `resume = 0` restarts from the key.

Padding:
- `hmac_final` writes the zero bytes, the 8-byte length and `0x80` into the
  buffer at the positions the code uses.

Reference:
- `Want(c)` is the HMAC the application asked for: RFC 2104 with the named
  digest, a hashed long key, and standard SHA-2 padding of the message.
- `MacIsHmac` compares every returned MAC with it.

### `GcmStream.tla`: one AES-128-GCM context

This module covers `aes_128_gcm_einit`/`dinit`, `getJ0`,
`_stream_update`, `_stream_final` and `_cipher` of `xom_aes_128_gcm.c`. It
also covers the IVLEN, AEAD tag and TLS1 AAD parameters of
`_set_ctx_params`. It drives them with an application that
makes the EVP calls.

State:
- `ctx` is a record with the fields of `aes_128_gcm_context` that the stream
  uses: `key_initialized`, `iv_initialized`, `decrypt`, `has_h`,
  `first_update`, the staged key, the key of the locked code (`funKey`), the
  key H was derived from (`hkey`), the 16 bytes of `oiv`, `ivlen`, `J0`,
  `aad`, the GHASH state, the counter word of `J`, `block`, `block_offset`,
  `num_ciphertext_blocks` and `tag`.
- A data byte is `<<"d", message, position>>` and an AAD byte is
  `<<"a", message, position>>`. An IV byte is `<<"iv", iv, position>>`.
- An output byte `<<"c", b, ks>>` records the input byte b and the
  keystream byte ks = `<<key, J0, n, offset>>`, where n counts the
  increments since J0. J0 is `[iv |-> the 12 IV bytes]`, or for any other
  IV length, `[ghash |-> the GHASH input that gave it]`.
- GHASH is abstracted by its input: the byte sequence hashed since the state
  was cleared. Zero padding is in it as `<<"Z", 0, 0>>`, and the length block
  as `<<"len", aad bits, data bits>>`. A tag is the record of the key of the
  sealed code, J0, H's key and that input.

Operations:
- `GcmInit` is `einit`: it stages a key and derives H only if `has_h` is
  clear. An IV is copied into `oiv` over `ivlen` bytes. `ivlen` is the
  argument if nonzero, else the context's, else 12. Once key and IV are known
  it locks the code and computes J0 with `GetJ0`. It sets the counter to the
  one after J0 and hashes stored AAD. It resets nothing else; `dinit` also
  sets `decrypt`.
- `GetJ0` is `getJ0`. A 12-byte IV is J0 directly. Any other length is
  hashed, starting from the current hash state: first the whole blocks of
  `oiv` that hold the IV, then a length block. The hash state is then
  cleared.
- `StreamUpdate` keeps the first-update rule of lines 271–283: an empty
  first update is skipped, and a first update shorter than a block is the
  AAD. After that come buffering and whole blocks through `GcmCipher`, which
  hashes the ciphertext (`Hashed`: input when decrypting, output when
  encrypting).
- `StreamFinal` encrypts the buffered bytes, hashes them zero-padded and the
  length block, and then keeps the tag in `ctx->tag` and returns 1
  (encryption), or returns the comparison with `ctx->tag` (decryption). It
  then clears the message state.
- `SetIvLen` stores the IVLEN parameter unchecked. `SetTls1Aad` is
  `init_aad` through the TLS1 AAD parameter: it replaces the stored AAD,
  which only the next ready init hashes.
- `Init1`, `AadUpdate`, `DataUpdate`, `SetTag`, `SetIvLen`, `SetTls1Aad`,
  `Final1` and `GetTag` are the application's calls. `GetTag` reads the tag
  after an encryption's final, once per message, as the AEAD_TAG parameter
  of `get_ctx_params` (a copy of `ctx->tag`); the phase becomes `"tagged"`. `Init1` passes the IV length that
  `get_ctx_params` reports (`EvpIvLen`), as EVP does. An AAD update is made with `out = NULL`: if the code
  writes output for it, the phase becomes `"crashed"`.
- `FirstUpdateIsAad` selects the application: either it follows the code's
  convention (one AAD update shorter than a block, first), or it passes AAD
  the EVP way (any number of `out = NULL` updates, or none).

Reference:
- `RefJ0`, `RefOut` and `RefTag` are what NIST SP 800-38D gives for the key,
  IV, IV length, AAD and data the application passed. `RefJ0` zero-pads an
  IV that is not 12 bytes long before hashing it.

### `CipherCtx.tla`: CTR and GCM contexts over the pool

This module extends `SubpagePool`. The pool's calls are made by the
contexts, not by a free-floating environment.

Context slots `Ctxs` hold CTR or GCM contexts. `ctx[c]` keeps the pointer
fields the code copies and frees:
- the refcount cell;
- `Htable`;
- `aes_fun`, an address of the pool;
- `staging_buffer` and `aad`;
- the key and IV flags of GCM's einit.

Heap objects are numbered in allocation order, up to `MaxObjs`. `alive` is
the set not yet freed. The history `heapErrors` records every free or read
of an object that was already freed.

Actions, one per provider entry point (the disjuncts of `CtxNext` are the
two dispatch tables in `xom_provider.c`):
- `NewCtx`;
- `DupCtx`, a copy of every field plus the refcount increment;
- `FreeCtx`: on the last reference, `subpage_pool_free(aes_fun)` and the
  frees;
- `CtrInit`: lock a new blob and overwrite `aes_fun`;
- `GcmInit`, for einit and dinit: allocate staging on a key; once key and
  IV are set, lock, free staging and hash stored AAD;
- `InitAad`;
- `StreamFinal`: free `aad`;
- `ProviderTeardown`: `destroy_subpage_pool` once no context is live.

A lock that fails (`LockFails`: no entry fits and libxom has no group)
stores NULL.

A slot is empty again after `freectx`. The refcount cells are objects, not
slots, so reuse does not alias them.

### MC modules

- `MCXomHypercall.tla` gives one vCPU the batch `CREATE_XOM_SPAGES` of
  frame 0, then `WRITE_XOM_SPAGES` of one payload into subpage 0. This is
  the sequence libxom's fill-and-lock issues.
- `MCXomSeal.tla` gives frames and payloads values. The payloads are model
  values under a symmetry set; they are only compared for equality, so the
  symmetry is sound.
- `MCSubpagePool.tla` instantiates the pool.
- `MCCipherCtx.tla` puts two context slots of either cipher over a
  one-group pool.
- `MCGcmStream.tla` names keys and IVs; the IVs are symmetric model values.
- `MCCtrStream.tla` and `MCHmacStream.tla` name nonces, context slots and
  keys. Nonces and slots are symmetric model values.

## Runs

| Run | Result | What it shows |
|---|---|---|
| `seal_security` (`MCXomHypercall.cfg`) | pass | A create-then-write batch, preempted once and resumed, interleaved with every command of other callers (write commands of up to two entries, duplicate targets included), their error returns, guest stores, and allocation and page-lookup failures. Sealed payloads are never in an rwx frame. Lock bitmaps exist only on XOM frames (`SubpageRecordOnlyOnXom`). Every step implements the abstract per-frame contract `XomEnforcement` (`EnforcementRefined`, refinement): one mode per frame, sealing only from Normal, write-once all-or-nothing writes, one mark per sealing, and no clear mark outside a sealed frame. In every state, the trees behind the two partial functions, whatever shape rebalancing gave them, answer lookups and inserts as those functions do, and teardown frees each node once, after its children (`IndexIsPartialFunction`, `TeardownFreesEachNodeOnce`). |
| `seal_restart` (`MCXomHypercall_restart.cfg`) | violation of `ElementsCommittedOnce` | The loop is preempted after `CREATE_XOM_SPAGES` and `pdone` is never written (lines 385-388, 422-423). The guest resumes from 0, so `create_xom_subpages` runs again and returns `-EINVAL` for a batch whose work was done. |
| `seal_create_fault` | violation of `SealedDataNeverReadable` | `create_xom_subpages` ignores the p2m result (line 258) and adds a bitmap for a frame that stays rwx. `write_into_subpage` then writes key data into it. |
| `ctx_pool` (`MCCipherCtx.cfg`) | pass | CTR and GCM contexts go through new, dup, init, AAD, final and free in any order, over the pool, with teardown and reload. Refcounts never underflow (`CtxTypeOK`). The page a held blob starts on is marked. A live context's `aes_fun` was never released (`NoBlobUseAfterRelease`) and lies in a sealed group (`ContextBlobsSealed`). |
| `pool_release` | violation of `ReleasedBlobUntracked` | The `find_if` predicate at line 74 is inverted. |
| `ctr_stream` (`MCCtrStream.cfg`) | pass | Any split of a message into updates and `EVP_Cipher` calls, including through a wrap of the 32-bit `ctx->ctr.d` (scaled to 2 bits), which has no carry into the upper IV bits, unlike OpenSSL's 128-bit counter, gives the same output as encrypting it at once. `block` is always the unsent tail, and `ctr` is always the next block's counter. |
| `gcm_stream` (`MCGcmStream.cfg`) | pass | Two messages on one context, in either direction. The IV is 12 bytes, or 16 after `SetIvLen`, so both branches of `getJ0` run. AAD comes either as a short first update or as 20 bytes set through TLS1 AAD before init. The data is split in any way. Every byte written is the GCM byte, the tag read back after encryption is the GCM tag, and a decrypting final gives the right verdict on a right or forged tag. |
| `gcm_evp_aad` | violation of `FinalIsGcm` | A message with no AAD whose first update is 5 data bytes: line 275 takes them as AAD, so they are never encrypted. |
| `hmac_single` (`MCHmacStream.cfg`) | pass | For one context, `bytes_compressed + block_offset` is the message length, and the buffer holds the unhashed tail. |
| `hmac_lifecycle` | pass | With two slots, `new`/`dup`/`free` in any order: the refcount counts live sharers, and the objects are freed exactly with the last one. |
| `hmac_digest` | violation of `MacIsHmac` | The `memmem(...) == 0` test (line 341) clears `use_passthrough` for every digest, so HMAC-SHA1 is computed with SHA-256. |
| `hmac_dup_rekey` | violation of `KeyOfLockedCodeNeverChanges` | A dup taken before init has `locked = 0`. Keying it after the original's init writes into execute-only code. |

Each property of a passing run has a mutant in `PROJECT.json`: a plausible
slip in the mapped code that TLC then reports.

Other defects the models reach are listed as hazards in `PROJECT.json`, with
the constants that show them. They are not separate runs:
- in CTR, `StreamIsOneShotEncryption` fails for a context re-initialised
  after a 5-byte update (`MCCtrStream_reinit.cfg`): `aes_128_ctr_init` does
  not clear `block_offset` (line 94), so the old bytes are emitted under the
  new IV;
- in GCM, `FinalIsGcm` fails when the key changes between messages
  (`has_h` is never cleared, line 186);
- in the pool, `HeldBlobPagesMarked` fails under `MCSubpagePool_spanning.cfg`:
  `update_entry` marks only the page a blob starts on (line 29), so a blob
  crossing a page boundary has an unmarked page. The spec does not say how
  a multi-page blob is marked;
- in `CipherCtx`, `HeapObjectsFreedOnce` fails under
  `MCCipherCtx_heap.cfg`. dupctx shares GCM's `staging_buffer` and `aad`,
  and einit, `init_aad` and `stream_final` free them on their own. The
  shortest trace is:
  1. new;
  2. key-only einit;
  3. dup;
  4. einit with the IV, which locks and frees staging;
  5. einit with a key on the copy, which writes into the freed buffer.
- `CtrInit` overwrites `aes_fun` without releasing the old blob
  (ctr.c:107), so the old blob leaks;
- `RangeOk` keeps the code's `gfn + nr_pages > max_mapped_pfn`, so frame
  `MaxMappedPfn` can never be sealed, while `write_into_subpage` accepts it as
  a source;
- duplicate targets in one `WRITE_XOM_SPAGES` command are written twice
  (within one locked step, so `seal_security` shows it is harmless);
- `bytes_to_subpages` over-counts;
- in HMAC, with `Digests = {"SHA256"}`, `MacIsHmac` also fails for:
  - a short first update followed by a block-crossing one (`resume = 1` on
    the first compression, line 202);
  - 49 to 55 leftover bytes at final (padding threshold 48, line 233);
  - a key longer than 64 bytes (truncated, line 101);
  - a re-initialised context (`final_update` kept);
- `BufferHoldsUnhashedTail` fails under `MCHmacStream_dupstream.cfg` (two
  slots) in seven steps: new, set_ctx_params, init, dup, a 20-byte update on
  the original, then an update on the copy. `hmac_dup` shares the block
  buffer (line 150), so the copy's bytes overwrite the original's unhashed
  tail;
- in GCM, `FinalIsGcm` fails with `IvLens = {13, 16}`. einit copies only
  `ivlen` bytes into `oiv` (line 208), and `getJ0` hashes the whole block.
  The trace is: set the IV length to 16, init with an IV only, set it to
  13, init with key and IV, final. J0 then hashes three bytes of the first
  IV where GCM puts zeros. A length above 16, which `set_ctx_params` also
  accepts, overflows `oiv`. The model excludes it by an ASSUME;
- in GCM, `FinalIsGcm` fails under `MCGcmStream_evp.cfg` with no AAD
  updates, 16-byte data and `TlsAadLens = {13}`. AAD set through the TLS1
  parameter after init is stored but never hashed.

## Bounds

### XomSeal

- Three frames (`0..2`), with `MaxMappedPfn = 2`. Ranges of up to two frames
  therefore reach the upper bound check and overlap each other.
- Two subpages per frame.
- Up to two entries per write command, so duplicate targets and partial
  overlap with locked subpages occur.
- Two payloads.
- One resource fault. Access faults are 0 in `seal_security` and 1 in
  `seal_create_fault`.

Every failure path of every command is reachable: a fault in the middle of a
two-frame range is possible.

`seal_security` runs through `MCXomHypercall`, with these bounds:
- one vCPU with a two-element batch;
- `MaxPreempts = 1`;
- `MaxSubpagesPerCmd = 2`: a write command of another caller can name the
  same subpage twice, which validation lets through (hazard at line 315).
  The distinct states are the same as with one entry, because a command
  with a duplicate target leaves what a single write of its last entry
  leaves; only the transitions grow, to about 8.9 million;
- frames `0..1` only. Frame 2 can never be sealed when `MaxMappedPfn = 2`,
  and dropping it leaves the set of distinct states unchanged. Gfn 1 with
  two pages still overflows.
- `VIEW MCView` leaves out `rc`, the return value of the last command. No
  guard reads it: each command only sets it, and `Exec` reads only the
  value its own handler just returned. States that differ only in `rc`
  therefore have the same futures. This keeps the run at 114,688 distinct
  states, about 2 minutes.
- `IndexKeys = {0, 1, 2, 3}`: the tree checks cover every binary search tree
  over every subset of four frames (51 trees). That covers every shape a
  node can take: no child, one child on either side, two children, and
  depth three. The per-state checks use the frames of `Gfns`.

No symmetry is used: the payloads and frames play fixed roles in the
batch, so they are not interchangeable. With a
second vCPU, or a third element, the state space grows past what a
five-minute run covers.

### SubpagePool

- `SubpageSize = 2` and `PageUnits = 2` (two subpages per page).
- A group of 4 subpages (two pages).
- Blob sizes 2 and 3, so one blob is aligned and one is not.
- At most two groups.

These bounds make blobs cross page boundaries, fill a group, spill into a new
group, and meet the erase threshold (3 of 4).

### CtrStream

- `BlockSize = 16`, as in the code.
- Update lengths `{0, 1, 15, 16, 17, 33}`. These cover:
  - the buffering boundary (`inl + block_offset` equal to 15, 16 and 17);
  - a completed partial block followed by whole blocks;
  - an empty update.
- Messages of up to 50 bytes, which is four counter values.
- `CtrBits = 2`, so a counter starting at 3 wraps within one message.
- Two nonces, under symmetry.

### HmacStream

- The block size is 64, as in the code. Bytes are identities, so only their
  positions matter.
- `hmac_single` uses update lengths `{0, 20, 50, 64, 100}` and messages of up
  to 164 bytes. These reach:
  - buffering;
  - completing a partial block;
  - several blocks in one update;
  - leftovers of 20, 36, 50 and 56 bytes.
- `hmac_lifecycle` uses two slots, enough for one dup and for either
  context to be freed first.
- Each violation run uses the smallest input that shows its defect.

### GcmStream

- The block size is 16, as in the code.
- AAD of 0 or 13 bytes as a first update, or of 20 bytes through the TLS1
  parameter. A 20-byte AAD is one the first-update path cannot take.
- IV lengths 12 (the default) and 16 (`IvLens`). 16 takes the GHASH branch
  of `getJ0` with a whole block. Lengths that leave part of a block stale
  are the hazard above.
- Data updates of `{0, 5, 16, 20}` bytes, with up to 32 bytes (two blocks) per message. These reach an empty first update, buffering,
  completing a buffered block, whole blocks, and a leftover at final.
- Two messages (`MaxInits = 2`) in both directions, so state kept across
  init (`decrypt`, `has_h`, `ctx->tag`, the counter) is exercised. For
  decryption, both the right tag and a forged one are set.
- One key and two IVs, under symmetry. The run takes about 1 min 45 s and
  reaches 271,666 distinct states.

### CipherCtx

- Two context slots. This is enough for a dup and for either copy to be
  freed first. A freed slot is reused, so a context can be created after a
  teardown.
- `MaxObjs = 6` heap objects: two GCM contexts with a staging buffer and an
  AAD each.
- The pool has one group of four subpages, and blobs take one subpage. A
  group therefore fills after four inits, a fifth fails, and the group's
  second page gets marked.
- Both ciphers lock the same `gctr_linear` code, so there is one
  `BlobSize`.

The run takes about 30 seconds and reaches 536,041 distinct states.

Deadlock checking is off for the stream runs. A context stops for good once
its bounded inputs or inits are used up, or when `xom_lock` fails on init.

## Fairness

No run checks a liveness property, so no specification assumes fairness.
A liveness property of the hypercall loop, that every batch ends, held
whatever the handlers did: every command has a success and an error
outcome, so the loop can always take its next step, and preemption is
bounded by `MaxPreempts`. Dropping the `i &&` guard at line 385 would
still pass under that bound. With unbounded preemption the restart defect
lets a batch livelock: another vCPU that keeps unsealing the frame means
the repeated `CREATE_XOM_SPAGES` always succeeds, and the batch is
preempted again before its write. That needs unbounded preemption, which
TLC's finite model cannot give without making the livelock a bound
artefact, so it is left out.

## Not modelled, and plan for later sittings

1. **`XomHypercall`, further:**
   - the 64-bit wrap of `gfn + nr_pages`;
   - the return-path lookup `get_reg_clear_type`, racing `clear_xom_seal` on
     another vCPU. The spec says a lookup on an unsealed frame answers None,
     so a miss after a concurrent unseal is the specified answer, and the
     trampoline that acts on it is out of scope and not in the repository.
2. **Second refinement:** `SubpagePool`'s libxom calls mapped onto `XomSeal`
   commands (INSTANCE … WITH), checking that the hypervisor implements the
   pool's view of sealed groups.
3. **GCM, further:** the `outsize` error returns of `stream_update`, and IV
   lengths above 16 as an explicit memory-corruption state.

Left out on purpose:
- the fill-then-rwx order within one frame (one step in the model);
- guest page-table walks (`gfn_of_rip`);
- AES/GHASH/SHA machine code and key splicing: the sealed code is abstracted
  to its input;
- OpenSSL dispatch beyond the operations it routes (parameter getters,
  algorithm queries);
- the demos.
