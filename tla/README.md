# Specifications of the offchain-storage node

This directory holds TLA+ models of the node in `src/`, the TLC
configurations that check them on small instances, and proofs that TLAPS
checks for all instances. The node is a Substrate chain with one addition, the
pallet `frame/offchain-storage`: the chain records who may do what with a piece
of data, and the data itself is kept in an external store that the runtime
reads and writes while it executes extrinsics. The project therefore starts
from that pallet and follows its calls outwards: the pallet alone, the block it
runs in, the overlay its writes go through, and the local storage of offchain
workers, which is the other place where the node keeps data off the chain.

## 1. Inventory

| Part | State | Operations | Talks to | What is hard | What should hold |
|---|---|---|---|---|---|
| `frame/offchain-storage` | `Data` (id -> author, access); the external store | `read_data`, `write_data`, `delete_data` | system (events), external store | two stores changed in two steps; the external one panics on missing data | the stores hold the same ids; no checked call panics; access levels mean what they say |
| `frame/system` | nonces, block hashes, counts, weight and length so far, events, noted extrinsics | `initialize`, `note_extrinsic`, `note_applied_extrinsic`, `deposit_event`, `finalize`, `CheckNonce`, `CheckWeight` | executive, all pallets | temporaries cleared in the right order; limits; the moving window of hashes | replay protection, limits, roots, one outcome per extrinsic |
| `frame/executive` | none of its own | `initialize_block`, `apply_extrinsic`, `finalize_block`, `execute_block` | system, pallets | the same extrinsics are run twice, by two paths | both paths give the same state |
| `client/block-builder` | the block under construction | `new`, `push`, `bake` | runtime api | failed extrinsics leave no trace; a call may be executed twice | the header commits to what was pushed |
| `client/src` (import) | blocks, states, best block | `apply_block`, `execute_and_import_block` | block builder, runtime, database | execution threads interleave; crash in the middle; a block is executed again after a failure | what the chain says of its data depends on its extrinsics only |
| `primitives/state-machine` | prospective and committed changes, cached root | `Ext` reads, writes, clears, roots, next key; execution strategies | runtime api, backend | merges with deletions; a call executed twice; a cache to invalidate | a transactional map; no pass sees another one |
| `client/db/src/offchain.rs` | the OFFCHAIN column, map of per-key locks | `set`, `get`, `compare_and_set` | offchain workers | locks made and removed on demand by several threads | compare-and-set is atomic; calls return; locks do not pile up |
| `client/offchain`, `frame/im-online` | worker threads; worker status, heartbeats | one worker per imported block; `heartbeat` | local storage, session | overlapping workers, retries after some blocks | at most one heartbeat per session and key |
| `client/state-db` | journals, pins, pruning window | insert, canonicalize, prune, pin, restart | client database | crash between steps, forks discarded | no state in the window is lost, no journal leaks |
| `client/db` (backend, caches) | columns, leaves, shared cache | commit, finalize, revert | client, state-db | cache shared by forks | the cache answers as the database would |
| `client/transaction-pool`, `client/basic-authorship` | ready and future queues; proposal under way | submit, prune, revalidate; propose | client, block builder | stale validation, deadline | an included transaction leaves the pool |
| `utils/fork-tree`, `client/peerset`, `client/network` (sync) | trees, slots, requests | import, prune, finalize; slots; requests | consensus, network | forks; late answers | against reference definitions |
| consensus engines and finality (`babe`, `aura`, `finality-grandpa`) | epochs, authority sets, rounds | ... | client, network | changes of the set across forks | one set per block |
| `session`, `staking`, `balances`, governance pallets | sequential state on one chain | calls, hooks | system | rotation in stages; conservation | sums and queues |

`PROJECT.json` lists every part, also the ones that are not modelled, with the
reason. The list of hazards there gives the lines of the code that the
properties below are aimed at.

## 2. Modules

    Maps                         partial functions: exists, insert, remove, getOr
     |-- OffchainStorage         the pallet's calls, as operators
     |    |-- OffchainStoragePallet    calls one after the other
     |    |-- FrameSystem        system pallet and executive, as operators
     |         |-- BlockExecution      nodes that build and import blocks
     |-- LocalStorage            compare_and_set between threads
     |    refines AtomicStorage
     |-- StateMachine            runtime calls on the overlay
          refines TransactionalMap

Each machine `M` has an `MCM` module with model values and the sets used by its
`.cfg` files, and a module `MProofs` with its theorems. An operator with a
suffix (`delete_data_KeepsEntry`) is a defective variant of the definition
below it; it is used only to make sure that a property can fail.

### OffchainStorage, OffchainStoragePallet
A pallet state is `[Data, ext, events]`; a call is an operator from a state and
an origin to the state and result after it (`Ok`, an error of `decl_error!`,
`BadOrigin`, or `Panic` where the external store panics on missing data, as the
implementation in the pallet's test does). An error returned after a change
keeps the change, as in the code: extrinsics are not rolled back. The machine
makes any calls by any origin, in any order.

### FrameSystem, BlockExecution
`FrameSystem` has the storage of the system pallet as a record and the functions
of system, executive and checked extrinsic as operators on it. A hash or a root
is the thing hashed. `BlockExecution` has nodes with a block builder and an
importer that work in different threads; a step executes one extrinsic, so that
building and importing interleave between extrinsics. The storage of the chain
is transactional (`Committed`, the runtime api), the external store is not: every
execution changes it at once. `Crash` loses what is being built or executed.

The two calls that execute extrinsics, `apply_extrinsic` while building and
`execute_block` while importing, run under an execution strategy
of the node (`block_construction`, `importing`). Under `NativeElseWasm` a call that panics in the
native runtime runs again in wasm, under `Both` every call does (`RunsAgain`). The
second pass starts from the storage of the chain as it was (`b.again`, `Pass`), but
from the external store as the first pass, and every other thread since, left it;
its result counts. An extrinsic that is found invalid while building is a result of
the call and not repeated; while importing it panics. A block that fails
`initial_checks` is rejected before anything is executed. The model lets the wasm
runtime reach the same external store as the native one, since the code does not
say how a runtime is linked to it.

Left out: digest, event topics, eras, inherents, hooks of other pallets (given
by their weights), the import queue, finality. The proposer tries a
transaction once per block, and a node does not try a rejected block again.

### StateMachine
`prospective` and `committed` map a trie (top or child) to its changed keys; a
call runs any sequence of writes, prefix clears, child kills and root
computations on them in one or two passes, depending on the execution strategy,
and the runtime api then commits or discards (`commit_on_ok`), at once or, for calls
that `map_api_result` groups, after the last one, by the result of the closure
(`commit_on_success`). The execution of a block that is imported is a call with an
overlay of its own, which asks for the storage delta (`compute_tx`) and after which
the overlay is taken apart. `storage_transaction` is the cached root.

Keys are numbers in lexicographic order, a root is the contents it commits to. The
roots of child tries are entries of the top trie, which the runtime cannot write
directly; a prefix is the set of keys it covers and whether it covers these entries
(a prefix shorter than `:child_storage:` does). Left out: the changes trie, the trie
encoding, reads of those entries other than by `child_storage_root`.

`TransactionalMap`, the abstract specification, has the map before the call, the
current one, and the boundaries and results of calls: a write changes the current
map, a repeated pass returns to the start of the call, an error discards, a success
keeps.

### LocalStorage
One action per step of `compare_and_set` that another thread can come between:
taking a clone of the key's lock from the map, locking it, reading, writing,
unlocking, and removing the lock from the map. `FailKey` are the keys for which
the database may answer errors, `SetKey` the keys written with `set`, which takes
no lock.

## 3. What the runs check

| Run | Configuration | Shows |
|---|---|---|
| `pallet` | 3 accounts (one is the default), 2 ids, 2 values, all call sequences | chain and external store hold the same ids (`ExternalMatchesChain`); no call panics (`NoPanic`) |
| `local_storage` | 2 threads, a compare-and-set key, a key with `set` and errors, 2 values, 3 locks | refinement of `AtomicStorage`; `KeyMutex`; `LocksInUse`; `CallsReturn` |
| `blocks` | 2 nodes with a store each, 1 author, 3 blocks with genesis, 4 extrinsics, import under `NativeElseWasm` at the author and `Both` at the other node | `ChainDecidesData`, `ReplayProtection`, `ExtrinsicsRootMatches`, `NoLeak`, `EventsPerExtrinsic`, `WithinLimits` |
| `block_hashes` | 1 node, 4 blocks with genesis, `BlockHashCount` 1, `Both` | `BlockHashWindow` on every fork |
| `overlay` | a top and a child trie, 1 key, 1 value, prefixes with and without the child entries, 4 strategies, 2 backends | refinement of `TransactionalMap`; `PassesStartClean`; `RootFresh` |
| `overlay_keys` | top trie, 3 keys, all backends over them | `NextKeyIsLeast` |

Bounds. The pallet's calls touch one id each, so two ids show interference and
three accounts show author, default account and stranger. Two threads are enough
for every race on one lock, and three locks let a lock be remade while an old
one is still held. The extrinsics of `blocks` are chosen so that both branches of
every check are taken: a write, a delete that comes too early (future nonce) or
does not fit into the normal share beside the write, an operational read that fits
where a normal one does not and fails where there is nothing to read, and a second
writer whose block competes with the first, so that a store can hold another value
than the builder's did; `EventIndexMax` is 2, so that a block with three events
loses one. An unsigned call (`BadOrigin`) and a badly signed extrinsic are in
`block_hashes`. `BlockHashCount`
is 1 so that four blocks move the window twice. One key per trie in `overlay`
suffices for merging (keys do not interact except in prefixes and iteration, and
`overlay_keys` has three of them), and one value, which can be present or removed in
each of backend, committed and prospective changes. Two state constraints keep the
overlay runs short. In `overlay`, calls grouped by `map_api_result` are followed under
`Both` only (`GroupedBoth`): it has a native and a wasm pass whatever the first answers,
and all four strategies are explored for single calls and imports. In `overlay_keys`,
calls have one pass and compute no root (`OnePassCalls`): iteration depends only on the
backend and the two change sets, and such calls produce every combination of changes
of the three keys over every backend. The proofs have neither bound. `blocks` and `block_hashes` allow
deadlock because the number of blocks is bounded, the overlay runs because the overlay
of an import ends with it; the other runs check that there is none.

`ChainDecidesData` is the one about stores that do not follow the chain. It
computes, from the extrinsics of a chain alone, which ids are in `Data` and how each
extrinsic ended, and compares the state of every block with that. In `blocks` the
stores do get out of step: a block with a delete is abandoned in a crash and the
delete is pushed again; the second pass of a node under `Both` finds its data deleted
by the first pass; a builder's write between two extrinsics of an import makes the
native pass fail, and the wasm pass then imports the block. None of it reaches the chain's data, only the values of `GetData` events
and whether a node accepts a block, because a call without its external data panics
and is not included.

Fairness (`local_storage` only): weak fairness of each thread's own steps, since
worker threads keep running, and strong fairness of locking, since the mutexes
of parking_lot are eventually fair. `CallsReturn` needs the latter: two other
callers could otherwise pass the lock between them for ever.

### Where the code and its documentation disagree

Six runs check a sentence of the documentation and end in a counterexample;
`PROJECT.json` quotes the sentences under `findings`.

| Run | Property | What happens |
|---|---|---|
| `pallet_access` | `ReadAccessOnlyReads` | `write_data` and `delete_data` ask only for `Read` access, which new data grants to everyone |
| `local_storage_set` | `ReplacesWhatItCompared` | `set` takes no lock and may come between the read and the write of a `compare_and_set` |
| `block_valid` | `BuiltBlocksAreValid` | building a block deletes from the external store; executing the same block afterwards finds the data missing, and the author rejects its own block |
| `overlay_child_hash` | `HashOfValue` | `child_storage_hash` falls back on the top trie of the backend instead of the child trie |
| `overlay_root` | `RootOfAllTries` | `clear_prefix` with a prefix shorter than `:child_storage:` removes the entries of child tries from the top trie; the child tries stay readable, and the storage root no longer covers them |
| `overlay_error` | `ErrorLeavesOverlay` | a call that returns an error leaves its prospective changes in the overlay; the runtime api or the import discards them |

Further disagreements met while modelling, each visible in one definition and
not given a run: the author stored for new data is the default account
(`write_data`); `compare_and_set` answers `true` although the database refused the
write (`DbPut`); an extrinsic heavier than the limit alone is cut to the limit and
included (`check_weight`); after `storage_root` cached a root, `child_storage_root`
answers the root stored before (`child_storage_root`); when the two passes of a call
under `Both` both succeed with the same result, the storage delta returned is that of
the native pass and the overlay that of the wasm pass (`Deltas`).

## 4. What is proved

| Theorem | Says, for all values of the constants |
|---|---|
| `OffchainStorageProofs!PalletSafe` | `TypeOK`, `ExternalMatchesChain` and `NoPanic` always hold when calls run one after the other |
| `LocalStorageProofs!LocksSafe` | `TypeOK`, `KeyMutex`, `LocksInUse`, with `set` and database errors on any keys |
| `LocalStorageProofs!CompareAndSetIsAtomic` | if no key is used both with `compare_and_set` and with `set` or errors (`CasOnly`), `LocalStorage` implements `AtomicStorage` |
| `BlockExecutionProofs!BlocksConsistent` | `ExtrinsicsRootMatches`, `NoLeak`, for any nodes, shared or separate stores, extrinsics, limits and strategies |
| `StateMachineProofs!CallsAreTransactional` | `StateMachine` implements `TransactionalMap`: call boundaries, results, grouped calls and repeated passes included |
| `StateMachineProofs!CachedRootIsFresh` | `RootFresh`: a cached root, or the delta of an import that did not run twice under `Both`, is the root of what the call sees, in all tries but those a prefix unlinked |
| `StateMachineProofs!PassesAreIndependent` | `PassesStartClean` |

The assumptions are the named `ASSUME`s of the modules; TLC evaluates them in
every run.

**Pallet.** `ExternalMatchesChain` is inductive with the types; one lemma per call
says that a sound pallet state stays sound and that no panic is answered.

**Locks.** Mutual exclusion per key is not inductive. The invariant adds that a
thread holding a clone holds the one that the map has *now* for its key
(`ClonesAreCurrent`), that the map gives different keys different locks
(`LocksDistinct`), that each lock of the map has a user (`LocksHaveUsers`) and that
a thread inside the guarded block holds its lock (`GuardedHolds`). The step to watch
is `CleanLocks`, which removes the entry only when the map and the caller hold the
last two references: no other thread can then be about to lock it.

**Atomicity.** A call takes effect in its write, or in its read if the comparison
fails. That needs `StillMatches`: between read and write the database still holds
the value that was compared. It is kept by the mutual exclusion above, and it is
exactly what `CasOnly` protects.

**Blocks.** The invariant says what a builder has noted (`BuildersOK`): entries
0 .. n-1 of `ExtrinsicData` are the n extrinsics pushed, there is no other entry,
and the index is n. A push that fails notes an extrinsic too, but the runtime api
rolls that back. It starts from a state without notes because a node stores a block
with the state its header commits to (`StatesOK`) and no such state has one
(`NoLeak`). Lemmas `ApplyNotes`, `PushNotes` and `BakeNotes` carry this through the
functions of `FrameSystem`.

**Overlay.** The refinement maps the abstract map to the backend under the committed
changes, and the abstract current one to the backend under both change sets. The
invariant adds what each phase knows (`Phases`: nothing is prospective between calls
that are not grouped, a root is cached only during a call), that a child root other
than the default one is in a change set only if the overlay has changes of that child
trie (`RootsKnown`; the default one is there when a prefix removed the entry), also
in the change set that a repeated pass returns to, and `RootFresh` itself.

Only model-checked: liveness (`CallsReturn`), which is out of reach of the prover;
`ChainDecidesData`, `ReplayProtection`, `WithinLimits` and `BlockHashWindow`, which
are about sets, sums and counts defined by recursion along a chain; `EventsPerExtrinsic`; and
`NextKeyIsLeast`.

## 5. Plan

Done in this order, most important behaviour first: pallet; local storage and
its refinement; blocks (composition of pallet, system, executive, builder and
import); overlay and strategies and their refinement.

Next:

1. `ImOnline`: the worker status in the local storage (composed with the atomic
   specification of `compare_and_set`), workers of overlapping blocks, heartbeats,
   session changes. At most one heartbeat is received per session and authority;
   a worker that stopped does not silence the node for good.
2. `StateDb`: non-canonical journals, pruning window, pins, crash and restart,
   with an abstract specification (which states are available). 
3. `StorageCache`: the shared cache along forks, refining the database.
4. `ForkTree`, against a reference definition of the tree of all imports.
5. `Authorship` and the transaction pool's revalidation, composed with
   `BlockExecution`.
6. `Peerset` slots; the request life cycle of the offchain http api.
7. Proofs: `WithinLimits` over a ghost sum in place of the recursion, the type
   invariant of `BlockExecution`, `NextKeyIsLeast`, and the safety of 1 to 4.

## 6. Not modelled, and why

Interpreters (wasm, contracts, evm), encodings (trie, codec), cryptography (a
signature is good or bad), generated code and macros, command line, rpc and
telemetry have no protocol of their own that a small model would show. The
consensus engines and the network depend on crates outside `src/` for their main
protocols. Governance pallets are sequential bookkeeping apart from the data
path this project follows.

## 7. Running

    tlc -workers 2 -config MCBlockExecution.cfg MCBlockExecution
    tlapm BlockExecutionProofs.tla

The longest run (`overlay`) takes about a minute.
