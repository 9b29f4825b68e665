# TLA+ model of sqlite-wasm-rs

A specification of the storage layer of `sqlite-wasm-rs`: what SQLite's files,
the pool of OPFS files under them, the workers that share a pool's directory,
the memory VFS, SQLite's list of VFSs and the allocator do when storage calls
fail, memory runs out, callers give up, workers die and machines lose power.
TLC checks small instances; TLAPS proves for every instance all safety properties
the runs check, and that the chunked memory file implements a flat one.

The subject is the repository's own Rust code. The C files are vendored (SQLite,
its encryption variant, pieces of musl and an extension); of them only the
functions that keep SQLite's VFS list are modelled.

Paths are relative to the repository, whose files appear as `src/...` in
`PROJECT.json`. `sahpool.rs` is `crates/sqlite-wasm-vfs/src/sahpool.rs`; `lib.rs`,
`memvfs.rs`, `transfer.rs` and `options.rs` are those of `crates/rsqlite-vfs/src/`;
`shim.rs` is the one of the root crate's `src/`.

## 1. Inventory

Everything runs in Web workers. One worker is single-threaded: a synchronous
call runs to its end, and other code runs only at an `await`. Parallelism exists
between workers (which share an OPFS directory) and with the browser, which
carries out file system requests and keeps at it when the caller is gone.

| Component | State | Operations | What makes it correct |
|---|---|---|---|
| **OPFS slot** (`sahpool.rs` `SyncAccessFile`) | header (name, flags) and data of one physical file, on the handle and on durable storage | `initialize`, `associate`, `associated_filename`, `read_at`, `write_at`, `flush`, `truncate` | a name is durable before it is reported; a slot given back carries no byte of its last file |
| **OPFS pool** (`OpfsSAHPool`) | `available_files`, `map_filename_to_file`, `quarantined_files`, `state`, `busy`, `needs_recovery` | SQLite's callbacks (open, write, sync, close, delete, access); `remove`, `clear`, `pause`, `uninstall`; `add_capacity`, `reduce_capacity`, `resume`; import and export | every slot has one owner; map and directory agree; what an operation reserved is still there after its await; open files keep their slot |
| **OPFS lease** (`.lock`, `SyncAccessFile::acquire`) | who holds the access handle of `.lock` and of every slot; background acquisitions | `new`, `resume`, `pause`, drop of a pending acquisition | two workers never own slots of one directory; a handle nobody waits for is closed |
| **Pool registration** (`REGISTERED_POOLS`, `install`, `OpfsSAHPoolUtil`) | installed pools by VFS name, the guard of concurrent installs, the default VFS | `install` (create, reuse, promote), `uninstall` | one pool per name and directory; reuse returns the configured pool; the default changes only on success |
| **Transfers** (`transfer.rs` `DbImport`, `DbExport`) | bytes expected and written, mode, the header seen so far, failed flag | `write`, `finish`, `abort`, drop, `read`, `read_to_vec` | nothing short, failed or invalid is published |
| **Memory file** (`lib.rs` `MemChunksFile`) | chunk size, chunks, size | `read`, `write`, `truncate`, `size` | equals a flat byte array; holes and regrown bytes read as zeros |
| **Memory VFS** (`memvfs.rs`) | names to shared files, which handles and exports keep alive | open, close, delete, access, import, export, `clear` | a deleted name's open file lives on; deleting on close spares a replacement; a name is published once, whole |
| **VFS registration** (`lib.rs` `register_vfs`, `VfsRegistration`; `memvfs.rs` `install`; `shim.rs` `sqlite3_os_init`) | SQLite's VFS list, `MEM_VFS`, registered allocations | register, unregister, install, uninstall, os_init, os_end | no pointer in the list is freed; a foreign VFS is never unregistered |
| **VFS callbacks** (`lib.rs` `SQLiteVfs`, `SQLiteIoMethods`; `options.rs`) | per file: VFS pointer, flags, name, the handle | `xOpen` ... `xClose`, locks, time | a failed open leaves no methods; short reads are zero-filled; a close happens once |
| **C runtime shim** (`shim.rs`) | allocation headers | malloc, calloc, realloc, free, localtime | layouts match; overflow fails; a failed realloc keeps its block |
| Host adapters (`src/host`) | none | random, time, sleep | thin calls |
| Build script, SQLite and its encryption variant, musl fragments, extensions, examples, test suite | | | not part of the program's own logic, or no state |

**Interactions.** SQLite calls the VFS callbacks, which look a store up through
the VFS pointer and call the pool or the memory VFS. Management code calls the
same pool between SQLite's calls, and between the awaits of its own. The pool
calls the browser: its synchronous handle calls may each fail, its asynchronous
ones (`getFileHandle`, `createSyncAccessHandle`, `removeEntry`) may fail, be
abandoned, or land late. Other code can register a VFS under any name.

**What is hard.** A single `associate` is up to four storage calls, each of which
may fail, and the header must never lie afterwards. `busy` is all that stands
between an awaiting operation and SQLite; `commit` pops the stack's top and
`reduce_capacity` unwraps a pop in the trust that nothing moved. `close_file`
deletes by name after giving its handle up. Recovery (`pause`/`resume`, or a new
worker) sees only headers. `PROJECT.json` lists every hazard at its line.

## 2. Plan

Done, in this order:

1. `OpfsSlot`: images of one slot and the outcomes of each update.
2. `SahPool`: one worker's pool, composed of slots, with failures, cancellation,
   crashes and foreign VFSes; `MCSahPool` and its runs.
3. `SahPoolProofs`: the pool's inductive invariant.
4. `MemChunks`: chunked storage, shown to implement the flat `ByteFile`.
5. `SahLease`: workers and the browser, background acquisitions, the `.lock`
   handle; exclusion, and the liveness of what nobody waits for.
6. `VfsList` and `SahRegistry`: SQLite's list, the memory VFS's registration, pools
   that are installed, reused, promoted, paused, resumed and uninstalled.
7. `Transfer` and `MemVfs`: chunked imports and exports, composed with the memory
   VFS's namespace of shared files.
8. `ShimAlloc`: the allocator at its integer width.
9. `SahImageProofs` and `SahStepProofs`: what the pool's slots hold, and what none of its
   steps may do.
10. `SahLeaseProofs`: exclusion between any number of workers.
11. `SahRegistryProofs`: the list, as lemmas about `VfsList`, and the pools in it.
12. `ShimAllocProofs` and `MemVfsProofs`.
13. `MemChunksProofs`: the refinement of `ByteFile`, and reads.

Left: the time arithmetic of the callbacks and the shim at its width.

An abstract specification of the pool as a set of durable names, once part of this
plan, would say again what `AnswersAreDurable` and `MapIsTheDirectory` say of `SahPool`.

## 3. What is modelled

### `OpfsSlot`

One physical file. Its *image* is a header and contents. A header is a name with
flags, the complete empty header (`Free`), shorter than a header (`Short`: a file
just created), or `Torn`: a short write left a mixture that `associated_filename` rejects because
the name has no terminator, or its flags or file type are invalid.
Contents are blank, a partial import, whole, or emptied by SQLite (`xTruncate` to 0). There are two images: what a
handle reads (`file`) and what survives a loss of power (`durable`).

Each update is an operator that returns the *outcomes* it can have, both images
and a verdict: `Flush`, `Initialize`, `Naming` and `Unnaming` are the successive
calls of `flush`, `initialize`, `associate(Some)` and `associate(None)`, with one
outcome for a failure at each of them. A loss of power keeps for each of header
and contents the flushed or the latest version (`Surviving`).

Flags are the raw flags `xOpen` stores (with or without DELETEONCLOSE) or what an
import stores. Bytes and offsets are abstracted.

### `SahPool`

| Variable | Code |
|---|---|
| `present` | entries of the `.opaque` directory |
| `file`, `durable` | the two images of each slot |
| `dying` | `removeEntry` requests whose caller is gone and which will still land |
| `registry` | who has the VFS name in SQLite's list |
| `state` | `PoolState`; `"none"` when no pool is installed (also while `install` runs, and for a removed pool) |
| `available`, `map`, `quarantined`, `needs_recovery` | the fields of `OpfsSAHPool` |
| `handle` | the `SyncAccessFileHandle`s SQLite has open |
| `op` | the operation that holds `busy`, where it is, and its local variables |
| `answered` | history: what the last answer about a name promised |

`busy` is `op.kind # "none"`. A synchronous operation is one action: nothing else
of this worker runs in it, and its storage failures are in its outcomes. An
asynchronous operation is one action per await; `op.pc` is the await it is at and
`op.got` the slots it has acquired and not published yet.

Actions by group, with the function they stand for:

- *SQLite's callbacks*: `OpenExisting` (with or without DELETEONCLOSE), `OpenNew`,
  `OpenNewFails` (`open_file`, `with_new_file`), `Write` (also `size_hint` and a `truncate` to
  another size than 0), `Truncate` (to 0), `Sync`, `CloseFile` (`close_file`:
  flush, give up the handle, then perhaps `delete_file`).
- *Synchronous management*: `DeleteFile` (`xDelete` and `remove`), `ClearAll` and
  `ClearFails` (`clear`, stopped at any slot), `Pause`, `Uninstall`.
- *Transfers*: `CreateImport`, `ImportWrite`, `ImportCommit`, `ImportCommitFails`,
  `ImportAbort` (also drop), `OpenExport`, `ExportDrop`.
- *Acquisition*: `ResumeBegin`, `InstallBegin`, `AcquireLease`, `AcquireSlot`, then one
  of `SettleFails`, `ResumePublishes`, `ResumeConflicts`, `InstallGrows`,
  `InstallPublishes`, `InstallConflicts` (`acquire_access_handles` and what follows it).
- *Resizing*: `AddBegin` ... `AddFinishes`, `InstallFinishes` (`add_capacity`, also from
  `ensure_capacity`), `ReduceBegin`, `ReduceContinues`, `ReduceFinishes`.
- *Early ends*: `OperationFails` (an await fails or its future is dropped; `Operation`'s
  drop clears `busy`), `AddRemoves`, `RemovalFails`, `RemovalLands`.
- *Environment*: `ForeignVfs`, `WorkerDies`, `LosePower`.

Orders that do not matter to the code (of a `HashMap`, of directory entries) are a
nondeterministic choice (`Orders`).

### `SahLease`

Several workers on one directory, at the level of access handles. `holder` is the
browser's view, who has the handle of each file; `lease`, `slots` and `got` are what a
worker's code has: the `SyncAccessFile` of `.lock`, those in the pool's lists and those
in a local vector of the running operation. `task` is the acquisition an
operation awaits, `orphan` the acquisitions whose caller was dropped, one per spawned
`Tasks` member that `SyncAccessFile::acquire` leaves to carry on, `creating` the creations nobody awaits.

`InstallBegin`, `ResumeBegin`, `TakeLease`, `NextEntry`, `TakeSlot`, `ResumeFinishes` and
`InstallAdopts` are `new`, `resume` and `acquire_access_handles`; `AddBegin` ... `GrowFinishes` are
`add_capacity`; `Grant`, `Refuse` and the `Orphan...` actions are the browser's answer and the
background task; `GiveUp` is a future dropped at an await or a step that fails.
Handles close one by one, since another worker can see each of them go, in the
order in which Rust drops them (`ClosesNext`). That order is why `LeaseFindsSlotsFree` has
an exception: a half-built pool that `install` gives up is dropped field by field,
and `lease` is declared before the lists (`sahpool.rs:542`), so another worker may take
the lease, meet a slot still held and fail. It can simply try again.

### `VfsList` and `SahRegistry`

`VfsList` has SQLite's list as operators on a record: the list, whether SQLite is
initialised, and the memory VFS's allocation `MEM_VFS`. Finding and unlinking take the
first occurrence, as the loops of `sqlite3_vfs_find` and `vfsUnlink` do. All calls but shutdown first
initialise the library, which installs the memory VFS through `sqlite3_os_init` and may
fail when other code has its name.

`SahRegistry` is one worker's installed pools (`REGISTERED_POOLS`: state, directory,
`make_default`, busy), its calls of `install` and the guard they queue for. The other
actions are those of an installed pool, of the application (`OtherCall`: memory VFS,
`sqlite3_initialize`, `sqlite3_shutdown`; `RawUnregister`) and of foreign code. `held` is a history
variable: whether a paused pool was the default when it was paused.

### `FileBytes`, `ByteFile` and `MemChunks`

`ByteFile` says what a memory file promises: one array of bytes, in which a write
replaces a range and fills the gap before it with zeros. `MemChunks` has the fields of
`MemChunksFile` (`chunks`, `chunk_size`, `file_size`) and its `write`, `truncate` and `read` chunk by
chunk, with an allocation that fails after any number of chunks. `ImplementsByteFile` is
the refinement, under the mapping of the chunks to their concatenation.

### `Transfer` and `MemVfs`

`Transfer` has `DbImport` and `DbExport` as operators on records of their fields, for a
target or source given as a sequence. The 18 header bytes that an import
checks are two cells, signature and page size, so that the header can arrive in one
piece or two; the cell behind them stands for the read and write versions.

`MemVfs` has the names, bound to files that names, handles and exports refer to
(`Rc`): a file's contents last while somebody refers to it. It rests on `ByteFile` for
what a file is. `image` and `faithful` of an export and `sent` of an import are history
variables. The combinations of open flags are those `from_raw_flags` admits.

### `ShimAlloc`

Memory is an array of cells, the host's allocator places and moves blocks where it
likes, `usize` has `Width` bits and a layout may not exceed `isize::MAX`. `blocks` is what the C
code was given and has written. `StoredLayout` is what `free` and `realloc` tell the host.

### Assumptions about the outside

- A storage call fails without effect or succeeds, except a write, which may
  also be short. A failed `flush` keeps the durable image; what an unflushed
  write left is decided at the loss of power.
- A 4096-byte header write is not torn by a loss of power. A short write tears it.
- Blanked contents: `truncate` followed by `flush`; `associate` on its success.
- The browser carries out requests for one directory entry in order: a removal
  whose caller is gone lands before any later creation or acquisition of that
  entry succeeds. A worker's death keeps such requests, a loss of power drops them.
- A creation or acquisition whose caller is gone is not modelled as landing
  later; that, and handles of another worker, are in `SahLease`.
- A crash inside a synchronous operation equals that operation failing at the
  same call followed by a crash, so `WorkerDies` and `LosePower` are separate actions.
- A foreign VFS may take a name when it is free and give it back; it does not
  replace another's registration, and its memory is its own concern.
- The browser grants an access handle of a file to one owner at a time and closes
  a dead worker's handles. It may refuse one whenever it likes.
- The host allocator returns aligned blocks that do not overlap, and its `realloc`
  copies as much as both layouts cover.

### Bounds

Names, slots, handles, workers, tasks, images and buffers are finite constants.
`MaxChange` bounds the arguments of `add_capacity` and `reduce_capacity`, `InitialCapacity` that of
install, `MaxAttempts` is `MAX_FILENAME_ATTEMPTS` (16 in the code), `AddressSpace` and `Width` stand for
`usize`. Four bounds have no counterpart in the code: `Tasks`, how many
abandoned requests may be in the background at once; `MaxCalls`, how many installs a behaviour has; `Rcs`,
how many memory files exist at once; `Last`, the end of the heap. They are guards of
the actions that use them up; no run has a state constraint.

## 4. Runs

The pool's configurations instantiate `MCSahPool`, in which slots and handles are
symmetric: no definition distinguishes them (the only `CHOOSE` picks from a
singleton). The others use no symmetry; `SahLease`, `SahRegistry` and `ShimAlloc` need no
definitions for their constants and are run as they are. `CHECK_DEADLOCK` stays on
everywhere: some call is always possible.

| Run | Instance | Question |
|---|---|---|
| `pool_storage` | a database and its journal, two slots, one handle | What do the images hold after every failed step and every crash? `UnusedSlotsAreBlank`, `OneSlotPerName`, `MapIsTheDirectory`, `AnswersAreDurable`, `ImportMeetsNoJournal`, `ImportsSurviveWhole`, `ExportIsStable` |
| `pool_handles` | a database and an anonymous file, two slots, two handles | Do SQLite's open files and management disturb each other? `OpenFilesStayPut`, `ReservationsHold`, `ForeignVfsIsNotShadowed`, `OpenFilesKeepTheirHeader` |
| `pool_resize` | one name, three slots, changes of up to two | Do slots come and go without being lost, shared or removed under a name? `TypeOK`, `OwnedOnce`, `QuarantineNeedsRecovery`, `NamedSlotsAreNotRemoved`, `SlotsAreNotLeaked` |
| `lease` | two workers, two slots, two attempts, one request in the background | Do workers exclude each other, and does everything end? `HandlesAreGranted`, `DirectoryHasOnePool`, `LeaseFindsSlotsFree`, and under fairness `AbandonedHandlesClose`, `OperationsEnd` |
| `registration` | two pool names, two directories, foreign VFSs named like a pool and like the memory VFS, two concurrent installs, four in all | Is SQLite's list sound? `TypeOK` (with the guard's owner), `NoFreedVfsInList`, `NamesAreUnique`, `OnePoolPerDirectory`, `ListedPoolsAreActive`, `PromotionIsAsked` |
| `memory_file` | files of up to 7 bytes, chunks of 1 to 4 or fixed by the first write, writes of 1 to 4 bytes | Is it an array? `ChunksFitTheFile`, `AllocatedTailIsZero`, `ReadsAgree`, `ImplementsByteFile` |
| `memory_vfs` | one name, two files, one handle, one import, one export, three images | Do sharing, replacing and transferring go together? `ExportsDeliverTheFile`, `NamesAreNotTaken`, `ImportsPublishTheImage`, `CloseSparesReplacements` |
| `shim_allocator` | 4-bit `usize`, 8 cells of heap | Does every block stay what its owner relies on? `BlocksAreIntact` |
| `anonymous_listed` | as `pool_handles`, one handle | violation of `NamesExcludeAnonymous` |
| `refused_import_returns` | as above | violation of `RefusedImportIsReclaimed` |
| `close_leaves_file` | as above | violation of `CloseDeletes` |
| `resume_takes_default` | two pools, two installs one after the other | violation of `ResumeRestoresDefault` |

Why these bounds suffice for what they ask. Two names on two slots are the
least where a name can move to another slot while its old slot still bears it,
and where a journal can appear beside an import; a full pool and an empty one
both occur. Two handles are the least where one file is open twice, or a
temporary file closes while another is open. Three slots with changes of two
are the least where an operation holds one slot, removes a second and the pool
keeps a third, so that a collision, a partial growth and a late removal can meet.
The theorems below remove these bounds, and those of the other runs.

Two workers are the least that compete; a second slot lets one be acquired while
another is in the background or being created; an abandoned request at a time
lets it meet any state of both workers. Four installs are enough to install both
pools, be refused for one and reuse the other. Seven bytes hold two chunks of
every size but four, and one and a part of that. The memory VFS needs two files for a
replacement beside the file it replaces; its images are one that is acceptable
when it is sent whole with its size announced, one whose page is larger than
itself and one without the signature; sizes announced are the right one and a
smaller one. A heap of 8 cells has
room for two blocks of which one grows in place or moves, and 4 bits for sums and
products beyond `usize`.

### Fairness

Only `lease` needs fairness, and only weak fairness. `WF(Progress(w))`: a promise of the
browser settles one way or the other, a woken task is polled, and synchronous code
goes on; `Progress` includes the browser's refusal, so nobody is assumed to get a
handle. `WF(Background(t))`: the same of the task that `spawn_local` runs for a
dropped caller. Nothing is assumed about the user's calls, deaths or late creations. An
application that stops polling a future without dropping it is outside the model.

### What the violations show

1. **`names()` lists anonymous files.** `get_filenames` (`sahpool.rs:792`) returns every key of the
   map, and `open_file` puts an anonymous open there under its random name.
   `lib.rs:708` says the view "excludes anonymous files and unused slots".
2. **A refused import can come back.** `commit` writes the header, its flush fails, the
   cleanup's own write fails too: `finish` returns an error and the slot is
   quarantined with the new name in its header. A later `pause` and `resume` publish it.
   `transfer.rs:51` requires that the target be reclaimed unless commit succeeds, and
   `transfer.rs:280` says that it is.
3. **A temporary file can outlive its close.** `close_file` deletes through
   `delete_file`, which refuses while an operation or a transfer holds `busy`. The handle is
   gone, nobody repeats the deletion, and the file keeps a slot of a healthy pool
   until the next acquisition reclaims its DELETEONCLOSE header. `lib.rs:774` says that
   closing must remove the opened resource.
4. **`resume` can take the default VFS back.** `resume` registers with the flag that
   install set (`sahpool.rs:1004`). A pool installed as the default that another VFS
   replaced before the pause is the default again after `resume`. `sahpool.rs:1704`
   says that resume "restores registration and default-VFS status".

## 5. Proofs

Eight modules hold theorems. Each states an inductive invariant, proves it kept by
every action, and draws from it the properties the runs check; TLC
found each inductive invariant to hold on the instance of the component's runs before
it was proved; the runs list the properties only.
The last line of each temporal theorem is propositional temporal logic.

| Module | Inductive invariant | Properties |
|---|---|---|
| `SahPoolProofs` | `PoolInv` | `TypeOK`, `OwnedOnce`, `ReservationsHold`, `QuarantineNeedsRecovery`, `OpenFilesStayPut` |
| `SahImageProofs` | `PoolInv /\ ImageInv` | `UnusedSlotsAreBlank`, `OneSlotPerName`, `MapIsTheDirectory`, `AnswersAreDurable`, `ImportMeetsNoJournal`, `ImportsSurviveWhole` |
| `SahStepProofs` | the same, and `ExportIsClosed` | `NamedSlotsAreNotRemoved`, `ForeignVfsIsNotShadowed`, `OpenFilesKeepTheirHeader`, `ExportIsStable`, `SlotsAreNotLeaked` |
| `SahLeaseProofs` | `LeaseInv` | `HandlesAreGranted`, `DirectoryHasOnePool`, `LeaseFindsSlotsFree` |
| `SahRegistryProofs` | `RegistryInv` | `TypeOK`, `NoFreedVfsInList`, `NamesAreUnique`, `OnePoolPerDirectory`, `ListedPoolsAreActive`, `PromotionIsAsked` |
| `ShimAllocProofs` | `HeapInv` | `BlocksAreIntact` |
| `MemChunksProofs` | `ChunkInv` | `ChunksFitTheFile`, `AllocatedTailIsZero`, `ReadsAgree`, and the refinement `ImplementsByteFile` |
| `MemVfsProofs` | `MemInv` | `ExportsDeliverTheFile`, `NamesAreNotTaken`, `CloseSparesReplacements`, `ImportsPublishTheImage` |

### Where every slot is: `PoolInv`

`SahPoolProofs` proves `Spec => []PoolInv` for any finite set of slots, any names,
handles, sidecar relation and capacities, and from it `TypeOK`, `OwnedOnce`,
`ReservationsHold`, `QuarantineNeedsRecovery` and `OpenFilesStayPut`. The assumptions are the
named ones of `OpfsSlot` and `SahPool`: slots are finite and `NoSlot`, `NoName` are none of
them, a name is not its own sidecar, capacities are natural numbers.

`PoolInv` is the conjunction of those five and `OperationShape`. Why all are needed together:

- `OwnedOnce` alone is not inductive. That publishing `op.got` keeps the stack free
  of repetitions needs `op.got` to be disjoint from everything owned; that a
  removal keeps everything owned in the directory needs the slot being removed,
  and every slot of `dying`, to be owned by nobody (`OperationShape`).
- `ReservationsHold` needs `QuarantineNeedsRecovery` and `OperationShape`: an import in progress
  implies a healthy pool and an empty quarantine, so that the top of the stack
  that `commit` pops is the slot it wrote.
- `OpenFilesStayPut` is what lets `check_closed`, which only looks at mapped files,
  see every open file; pause, clear and a crash rest on it.
- `OperationShape` records where each operation can be and what the pool is like
  there: `resume` finds a paused, empty pool, `install` grows a private one.

The proof has three layers: facts about stacks, maps, orders and images
(`PopFacts` ... `BlankFacts`); generic steps for what several actions do to the pool
(`RemoveFileStep`, `CleanUpStep`, `ClearStep`, `ReleaseStep`, `PublishStep`, `PopStep`, `EndStep`,
`OperationStep`); one lemma per action or family of actions, collected by `PoolInvStep`.
`OwnedOnceNext` says once what a step must show for single ownership.

### What every slot holds: `ImageInv`

`ImageInv` speaks of both images of every slot. It is built on `PoolInv`, from the
same assumptions, in three parts.

- `DiskImages`: each pair of images is *sound*. It has one name at most; a header an
  import wrote is over contents that are, in both images, whole or emptied by SQLite; a header
  is short only before the first use. No name is on two slots, and a slot whose
  removal is still to land has none. Soundness of the pair, rather than of the
  durable image, is what a loss of power needs, since it may keep the flushed
  or the latest version of each part.
- `PoolImages`: every name on a slot that is not quarantined is mapped to it, also in
  the private map of an `install` that still grows; a healthy pool's headers are the
  map's; slots collected and not published are blank. `MapIsTheDirectory` alone says
  nothing of a pool that needs recovery, and such a pool still changes its slots.
- `AnswersHold`: a promised name has an adopted header, the same in both images. With
  the durable image alone a later failed write of that slot could lose it. A
  quarantined slot bears no promised name, which lets recovery drop it.

One group of lemmas says what `Flush`, `Initialize`, `Naming` and `Unnaming` make of a sound pair in
each outcome; the actions then differ only in which slot they apply it to.

### What no step does

`SahStepProofs` splits `Next` by what a property forbids: which steps take entries out of
the directory, register the VFS, touch an open file's header, keep an export going
or shrink what the pool owns. `ExportIsStable` needs one more invariant, `ExportIsClosed`: a
file being exported is open nowhere. It holds because `open_export` refuses open
files and `busy` refuses opens until the export ends.

### Workers: `LeaseInv`

For any workers, slots, attempts and abandoned requests. `LeaseInv` says for each
phase of a worker what it awaits, which operation it belongs to and what the
worker has; and it ties the workers' view to the browser's in both directions. A
handle in use is one the browser granted (`HandlesAreGranted`), and a handle the browser
granted is used, just delivered, or known to a background task (`HandlesAreKnown`). Without
the second `LeaseFindsSlotsFree` is not inductive. From it exclusion follows: whoever has
slots has the lease, but for an `install` that is dropping its pool, and `.lock` has
one holder. The assumptions are that `Lock`, `NoFile` and `Nobody` are values of their own
and that `MaxAttempts` is positive.

The first attempt at this proof failed for a reason: the model kept one
abandoned acquisition per worker and file, so that a second one overwrote the
first. The code spawns a task for each. `orphan` is now a function on `Tasks`.

### Registration: `RegistryInv`

`SahRegistryProofs` begins with lemmas about `VfsList`: what linking, unlinking, finding and a failing
initialisation make of a list with unique names, where the memory VFS is in
the list only while `MEM_VFS` has its allocation, and in which SQLite's `memdb` is listed
once the library was initialised. `RegistryInv` adds what the pools need. `ListedPoolsAreActive`
rests on `BusyIsPaused` (only a resuming pool awaits), `OnePoolPerDirectory` on `OpeningIsFree`: what `install`
found free before its await still is, because the guard is with it.

### The allocator: `HeapInv`

For every width above 2 and every heap. `BlocksAreIntact` is not inductive: it lets a block's
header exceed its length, and says nothing of where the host's allocations
lie. `HeapInv` has the allocations inside the heap, not empty and apart from each
other, and for each block a header that is its very length and a layout that is
`ALIGN` more. That checked sums and products are the true ones (`LayoutFacts`, `ProductFacts`) is where
overflow would show.

### The chunked file: `ChunkInv` and the refinement of `ByteFile`

For any positive chunk sizes, any address space and any nonempty buffers of bytes.
`ChunkInv` is `ChunksFitTheFile` and `AllocatedTailIsZero`, with a positive chunk size. The
refinement maps `bytes` to `Contents`, the first `file_size` cells of the chunks laid end to end.
`NextStep` shows that each step keeps `ChunkInv` and is a step of the flat file or a
stutter (a write that runs out of memory). The zeros behind the end are what
makes a write past the end fill the gap as the flat file does.

- *Loops.* What the loops of `write` and `read` compute takes an induction over their
  iterations. The library's induction theorems take an operator and cannot be used;
  `NumbersInduction` is proved instead for a set of numbers, from the well-foundedness
  of finite sets under inclusion (`LeastNumber`). `WriteLoopFacts` and `ReadLoopFacts` say
  that a loop goes from state to state by one iteration; `WriteState` and `ReadState` are
  the loop invariants: how much is done, and that the next byte belongs to the
  chunk whose turn it is.
- *Positions.* `Begin(p, size)` is where chunk `p` begins. Facts about it (`DivisionFacts` ...
  `ChunksForOrder`) keep products out of the other steps.
- *Steps.* `HoldingIsEnough` says once what a step must show: enough chunks, and the byte
  each of their cells holds. `WriteStep` and `TruncateStep` give those bytes.
- *Reads.* `ReadFacts` covers the single-chunk path, which skips the loop, and the loop,
  which ends with every byte asked for because the chunks reach the file's end.

### The memory VFS and transfers: `MemInv`

For any names, files, connections and transfers, and any contents. An import that
has not failed has offset, target and header equal to what was sent of the
image, and once all header cells came they were checked with the announced
size; that is what makes `finish` publish only whole, acceptable images however the
image was cut. An export that is not spoilt finds its image in its file, which
`Rc` keeps alive. `ContentsAssumption` (images and buffers are sequences of natural numbers,
sizes and offsets natural numbers) and `ScaleAssumption` are all it assumes.

### Only model-checked

`AbandonedHandlesClose` and `OperationsEnd` of `SahLease`: liveness under fairness, which
TLAPS cannot prove.

## 6. Not modelled

- Of the pool: reads, `access`, `full_pathname`, `last_error`, lock levels (each handle keeps its
  own and refuses nothing), byte offsets and sizes (`physical_offset` refuses what a
  JavaScript number cannot hold).
- Of the lease: `reduce_capacity`, which is in `SahPool` with removals that land late.
- Of registration: name validation, the callback type, and the pointer SQLite's `memdb`
  keeps to the VFS that was the default at initialisation; the contract of `unregister`
  asks callers to retire saved pointers.
- Of the callbacks: pointer handling, file control, error messages, sleep and the
  julian-day conversion. They are straight-line code on one call's arguments.
- Of the shim: `localtime` and randomness, conversions of what the host returns.
- Host adapters, bindings, the conformance test suite, examples and the build script
  have no state of the running system. SQLite, its encryption variant, the
  pieces of musl and the vector extension are vendored, and appear as callers.
