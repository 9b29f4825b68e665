------------------------------- MODULE SahPool -------------------------------
(***************************************************************************)
(* The OPFS synchronous-access-handle pool of sqlite-wasm-vfs              *)
(* (crates/sqlite-wasm-vfs/src/sahpool.rs) as one worker runs it: a fixed  *)
(* set of anonymous OPFS files ("slots") with a persistent namespace kept  *)
(* in their headers, shared by SQLite's callbacks, by synchronous          *)
(* management calls and by asynchronous ones that yield at every await.    *)
(*                                                                         *)
(* Every storage call may fail and leave its half-done work behind; the    *)
(* caller of an asynchronous operation may drop it at any await; the       *)
(* worker may die and the machine may lose power between any two steps.    *)
(***************************************************************************)
EXTENDS OpfsSlot, Naturals, Sequences, FiniteSets, SequencesExt

CONSTANTS
    Slots,              \* opaque physical filenames random_name can produce
    NoSlot,
    Handles,            \* files SQLite can have open at a time
    Sidecars,           \* [Names -> SUBSET Names]: the -journal and -wal of a name
    Anonymous,          \* names random_name gives to opens without a filename
    InitialCapacity,    \* OpfsSAHPoolCfg::initial_capacity
    MaxChange           \* largest n of add_capacity(n) and reduce_capacity(n)

ASSUME SlotAssumption == NoSlot \notin Slots /\ IsFiniteSet(Slots)
ASSUME SidecarAssumption ==
    Sidecars \in [Names -> SUBSET Names] /\ \A n \in Names : n \notin Sidecars[n]
ASSUME AnonymousAssumption == Anonymous \subseteq Names
ASSUME CapacityAssumption == InitialCapacity \in Nat /\ MaxChange \in Nat

VARIABLES
    present,        \* entries of the .opaque directory
    file,           \* what a handle on each slot reads
    durable,        \* what each slot holds after a loss of power
    dying,          \* remove_entry calls the browser finishes after a cancellation
    registry,       \* who owns the VFS name in SQLite's list: nobody, this pool, foreign code
    state,          \* PoolState; "none" before install and after uninstall or a crash
    available,      \* available_files, a stack
    map,            \* map_filename_to_file
    quarantined,    \* quarantined_files
    needs_recovery,
    handle,         \* the SyncAccessFileHandles SQLite holds
    op,             \* the management operation or transfer that holds the busy flag
    answered        \* history: what the last answer about a name told its caller

disk == <<present, file, durable>>
pool == <<available, map, quarantined, needs_recovery>>
vars == <<disk, dying, registry, state, pool, handle, op, answered>>

-----------------------------------------------------------------------------
(* Values *)

Assignments == [Names -> Slots \cup {NoSlot}]
NoFiles == [n \in Names |-> NoSlot]

HandleRecords ==
    [slot : Slots \cup {NoSlot}, name : Names \cup {NoName}, delete_on_close : BOOLEAN]
Closed == [slot |-> NoSlot, name |-> NoName, delete_on_close |-> FALSE]

OpKinds == {"none", "import", "export", "add", "reduce", "resume", "install"}

(***************************************************************************)
(* pc is the await (or, for a transfer, the phase) the operation is at:    *)
(*   "open"     an import or an export the caller holds                    *)
(*   "lease"    acquiring the .lock file                                   *)
(*   "slots"    acquiring the directory's slots, those of got so far       *)
(*   "create"   get_file_handle(create) for a new slot                     *)
(*   "acquire"  acquiring the handle of the new slot                       *)
(*   "remove"   remove_entry of the slot                                   *)
(***************************************************************************)
Phases == {"idle", "open", "lease", "slots", "create", "acquire", "remove"}

Operations ==
    [kind : OpKinds, pc : Phases, slot : Slots \cup {NoSlot}, name : Names \cup {NoName},
     left : Nat, got : SUBSET Slots, clear : BOOLEAN]

\* An operation as it begins, holding the busy flag, and none.
Operation(kind, pc, slot, name, left, clear) ==
    [kind |-> kind, pc |-> pc, slot |-> slot, name |-> name,
     left |-> left, got |-> {}, clear |-> clear]
Idle == Operation("none", "idle", NoSlot, NoName, 0, FALSE)

\* "present"/"absent": the name was reported created or removed.
\* "refused": its last import failed.  "unknown": nothing was promised.
Answers == {"present", "absent", "refused", "unknown"}

-----------------------------------------------------------------------------
(* Queries *)

\* The orders in which the members of a finite set can be pushed.
Orders(S) == Bijection(1..Cardinality(S), S)

AssignedBy(m) == {m[n] : n \in Names} \ {NoSlot}
Assigned == AssignedBy(map)
Owned == Range(available) \cup Assigned \cup quarantined
Capacity == Cardinality(Assigned) + Len(available) + Cardinality(quarantined)
HasFilename(n) == map[n] # NoSlot

\* Slots whose access handle this worker holds: nobody else can open them.
Held == Owned \cup op.got

NeverOpen(s) == FALSE
OpenOn(s) == \E h \in Handles : handle[h].slot = s

Busy == op.kind # "none"

CheckActiveIgnoringBusy == state = "Active" /\ ~needs_recovery
CheckActiveIgnoringRecovery == state = "Active" /\ ~Busy
CheckActive == state = "Active" /\ ~Busy /\ ~needs_recovery

CheckClosedSkipped == TRUE
CheckClosed == \A n \in Names : HasFilename(n) => ~OpenOn(map[n])

\* The names either image of a slot bears.
NamesOn(s) == {file[s].hdr.name, durable[s].hdr.name} \ {NoName}

-----------------------------------------------------------------------------
(* Shared effects *)

SetImages(s, o) ==
    /\ file' = [file EXCEPT ![s] = o.file]
    /\ durable' = [durable EXCEPT ![s] = o.durable]

Answer(n, a) == answered' = [answered EXCEPT ![n] = a]

\* release_access_handles, or dropping the pool: every slot handle is closed.
ReleaseAllButQuarantined == available' = <<>> /\ map' = NoFiles /\ UNCHANGED quarantined
ReleaseSlots ==
    /\ available' = <<>>
    /\ map' = NoFiles
    /\ quarantined' = {}

EndOperation == op' = Idle

\* delete_file on a mapped, closed file: d is durable after the caller's flush.
RemoveFile(n, d) ==
    LET s == map[n]
    IN  \E o \in Unnaming(file[s], d[s]) :
          /\ file' = [file EXCEPT ![s] = o.file]
          /\ durable' = [d EXCEPT ![s] = o.durable]
          /\ IF o.ok
             THEN /\ available' = Append(available, s)
                  /\ map' = [map EXCEPT ![n] = NoSlot]
                  /\ UNCHANGED needs_recovery
                  /\ Answer(n, "absent")
             ELSE /\ needs_recovery' = TRUE
                  /\ UNCHANGED <<available, map>>
                  /\ Answer(n, "unknown")
          /\ UNCHANGED quarantined

\* Take the name back off the top slot after a failed create or import; if
\* that fails too, the slot is quarantined.
CleanUp(s, f, d) ==
    \E c \in Unnaming(f, d) :
        /\ SetImages(s, c)
        /\ IF c.ok
           THEN UNCHANGED <<available, quarantined, needs_recovery>>
           ELSE /\ available' = Front(available)
                /\ quarantined' = quarantined \cup {Last(available)}
                /\ needs_recovery' = TRUE
        /\ UNCHANGED map

-----------------------------------------------------------------------------
(* SQLite's callbacks: xOpen, xWrite, xSync, xClose; xDelete is DeleteFile *)

\* DELETEONCLOSE needs CREATE and not EXCLUSIVE, so it can meet an existing name;
\* the header keeps the flags the file was created with.
OpenExisting(h, n, delete_on_close) ==
    /\ CheckActive
    /\ handle[h] = Closed
    /\ HasFilename(n) /\ n \notin Anonymous
    /\ handle' = [handle EXCEPT ![h] =
                    [slot |-> map[n], name |-> n, delete_on_close |-> delete_on_close]]
    /\ UNCHANGED <<disk, dying, registry, state, pool, op, answered>>

CanCreate(n) == CheckActive /\ ~HasFilename(n) /\ available # <<>>

OpenNew(h, n, kind) ==
    LET s == Last(available)
    IN  /\ CanCreate(n)
        /\ handle[h] = Closed
        /\ kind \in {"keep", "temp"} /\ (n \in Anonymous => kind = "temp")
        /\ \E o \in Naming(file[s], durable[s], Named(n, kind)) :
              o.ok /\ SetImages(s, o)
        /\ available' = Front(available)
        /\ map' = [map EXCEPT ![n] = s]
        /\ handle' = [handle EXCEPT ![h] =
                        [slot |-> s, name |-> n, delete_on_close |-> kind = "temp"]]
        /\ Answer(n, IF kind = "keep" THEN "present" ELSE "unknown")
        /\ UNCHANGED <<present, dying, registry, state, quarantined, needs_recovery, op>>

OpenNewFails(n, kind) ==
    LET s == Last(available)
    IN  /\ CanCreate(n)
        /\ kind \in {"keep", "temp"} /\ (n \in Anonymous => kind = "temp")
        /\ \E o \in Naming(file[s], durable[s], Named(n, kind)) :
              ~o.ok /\ CleanUp(s, o.file, o.durable)
        /\ Answer(n, "unknown")
        /\ UNCHANGED <<present, dying, registry, state, handle, op>>

\* xWrite and xTruncate go straight to the handle: no pool check stops them.  A
\* truncation to a size other than 0 is a Write.
Write(h) ==
    /\ handle[h] # Closed
    /\ file' = [file EXCEPT ![handle[h].slot].data = "whole"]
    /\ UNCHANGED <<present, durable, dying, registry, state, pool, handle, op, answered>>

Truncate(h) ==
    /\ handle[h] # Closed
    /\ file' = [file EXCEPT ![handle[h].slot].data = "emptied"]
    /\ UNCHANGED <<present, durable, dying, registry, state, pool, handle, op, answered>>

Sync(h) ==
    /\ handle[h] # Closed
    /\ LET s == handle[h].slot
       IN  \E o \in Flush(file[s], durable[s]) : SetImages(s, o)
    /\ UNCHANGED <<present, dying, registry, state, pool, handle, op, answered>>

\* xClose flushes, gives the handle up whatever happened, and only then asks
\* the pool to delete a DELETEONCLOSE file by name; the pool may refuse.
CloseFile(h) ==
    /\ handle[h] # Closed
    /\ handle' = [handle EXCEPT ![h] = Closed]
    /\ LET s == handle[h].slot
           n == handle[h].name
           deletes == /\ handle[h].delete_on_close
                      /\ CheckActive
                      /\ HasFilename(n)
                      /\ \A g \in Handles \ {h} : handle[g].slot # map[n]
       IN  \E o \in Flush(file[s], durable[s]) :
             IF deletes
             THEN RemoveFile(n, [durable EXCEPT ![s] = o.durable])
             ELSE SetImages(s, o) /\ UNCHANGED <<pool, answered>>
    /\ UNCHANGED <<present, dying, registry, state, op>>

-----------------------------------------------------------------------------
(* Synchronous management: remove, clear, pause, uninstall *)

DeleteFile(n) ==
    /\ CheckActive
    /\ HasFilename(n) /\ ~OpenOn(map[n])
    /\ RemoveFile(n, durable)
    /\ UNCHANGED <<present, dying, registry, state, handle, op>>

CanClear == state = "Active" /\ ~Busy /\ CheckClosed

\* Both images of the slots that associate(None) has finished with.
Blanked(images, S) == [s \in Slots |-> IF s \in S THEN Blank ELSE images[s]]

ClearAll ==
    /\ CanClear
    /\ LET S == Assigned \cup quarantined
       IN  /\ file' = Blanked(file, S)
           /\ durable' = Blanked(durable, S)
           /\ \E q \in Orders(S) : available' = available \o q
    /\ map' = NoFiles
    /\ quarantined' = {}
    /\ needs_recovery' = FALSE
    /\ answered' = [n \in Names |-> IF HasFilename(n) THEN "absent" ELSE answered[n]]
    /\ UNCHANGED <<present, dying, registry, state, handle, op>>

\* The slots of done are unnamed, then bad fails.  Names go before quarantine.
ClearFails(done, bad) ==
    /\ CanClear
    /\ bad \in (Assigned \cup quarantined) \ done
    /\ done \subseteq Assigned \cup quarantined
    /\ (done \cup {bad}) \cap quarantined # {} => Assigned \subseteq done
    /\ \E o \in Unnaming(file[bad], durable[bad]) :
          /\ ~o.ok
          /\ file' = [Blanked(file, done) EXCEPT ![bad] = o.file]
          /\ durable' = [Blanked(durable, done) EXCEPT ![bad] = o.durable]
    /\ \E q \in Orders(done) : available' = available \o q
    /\ map' = [n \in Names |-> IF map[n] \in done THEN NoSlot ELSE map[n]]
    /\ quarantined' = quarantined \ done
    /\ needs_recovery' = TRUE
    /\ answered' = [n \in Names |-> IF HasFilename(n) THEN "unknown" ELSE answered[n]]
    /\ UNCHANGED <<present, dying, registry, state, handle, op>>

Pause ==
    /\ state = "Active" /\ ~Busy /\ CheckClosed
    /\ state' = "Paused"
    /\ registry' = "free"
    /\ ReleaseSlots
    /\ UNCHANGED <<disk, dying, needs_recovery, handle, op, answered>>

Uninstall ==
    /\ state \in {"Active", "Paused"} /\ ~Busy /\ CheckClosed
    /\ state' = "none"
    /\ registry' = IF registry = "pool" THEN "free" ELSE registry
    /\ ReleaseSlots
    /\ needs_recovery' = FALSE
    /\ UNCHANGED <<disk, dying, handle, op, answered>>

-----------------------------------------------------------------------------
(* Transfers hold the busy flag from creation until they are dropped *)

BeginTransfer(kind, s, n) == op' = Operation(kind, "open", s, n, 0, FALSE)

CreateImport(n) ==
    /\ CheckActive
    /\ ~HasFilename(n) /\ n \notin Anonymous
    /\ \A m \in Sidecars[n] : ~HasFilename(m)
    /\ available # <<>>
    /\ BeginTransfer("import", Last(available), n)
    /\ UNCHANGED <<disk, dying, registry, state, pool, handle, answered>>

\* DbImport::write, up to the last chunk; a failed one leaves "partial".
ImportWrite(x) ==
    /\ op.kind = "import"
    /\ file[op.slot].data # "whole"
    /\ x \in {"partial", "whole"}
    /\ file' = [file EXCEPT ![op.slot].data = x]
    /\ UNCHANGED <<present, durable, dying, registry, state, pool, handle, op, answered>>

\* commit: flush the contents, then name the slot.  It pops the stack's top,
\* not the slot it wrote.
ImportHeader == Named(op.name, "import")

CommitOutcomesUnflushed(f, d) == Naming(f, d, ImportHeader)
CommitOutcomes(f, d) ==
    {o \in Flush(f, d) : ~o.ok} \cup Naming(f, f, ImportHeader)

ImportCommit ==
    /\ op.kind = "import"
    /\ file[op.slot].data = "whole"
    /\ \E o \in CommitOutcomes(file[op.slot], durable[op.slot]) :
          o.ok /\ SetImages(op.slot, o)
    /\ available' = Front(available)
    /\ map' = [map EXCEPT ![op.name] = Last(available)]
    /\ Answer(op.name, "present")
    /\ EndOperation
    /\ UNCHANGED <<present, dying, registry, state, quarantined, needs_recovery, handle>>

ImportCommitFails ==
    /\ op.kind = "import"
    /\ file[op.slot].data = "whole"
    /\ \E o \in CommitOutcomes(file[op.slot], durable[op.slot]) :
          ~o.ok /\ CleanUp(op.slot, o.file, o.durable)
    /\ Answer(op.name, "refused")
    /\ EndOperation
    /\ UNCHANGED <<present, dying, registry, state, handle>>

\* abort, abort_with_error and Drop all run the same cleanup.
ImportAbort ==
    /\ op.kind = "import"
    /\ CleanUp(op.slot, file[op.slot], durable[op.slot])
    /\ Answer(op.name, "refused")
    /\ EndOperation
    /\ UNCHANGED <<present, dying, registry, state, handle>>

OpenExport(n) ==
    /\ CheckActive
    /\ HasFilename(n) /\ ~OpenOn(map[n])
    /\ \A m \in Sidecars[n] : HasFilename(m) => file[map[m]].data \in HasNoBytes
    /\ BeginTransfer("export", map[n], n)
    /\ UNCHANGED <<disk, dying, registry, state, pool, handle, answered>>

ExportDrop ==
    /\ op.kind = "export"
    /\ EndOperation
    /\ UNCHANGED <<disk, dying, registry, state, pool, handle, answered>>

-----------------------------------------------------------------------------
(* Acquiring the directory: install and resume *)

BeginAcquiring(kind, clear) ==
    op' = Operation(kind, "lease", NoSlot, NoName, 0, clear)

ResumeBegin ==
    /\ state = "Paused" /\ ~Busy
    /\ registry # "foreign"
    /\ BeginAcquiring("resume", FALSE)
    /\ UNCHANGED <<disk, dying, registry, state, pool, handle, answered>>

InstallBegin(clear) ==
    /\ state = "none" /\ ~Busy
    /\ registry = "free"
    /\ BeginAcquiring("install", clear)
    /\ UNCHANGED <<disk, dying, registry, state, pool, handle, answered>>

AcquireLease ==
    /\ op.pc = "lease"
    /\ op' = [op EXCEPT !.pc = "slots"]
    /\ UNCHANGED <<disk, dying, registry, state, pool, handle, answered>>

AcquireSlot(s) ==
    /\ op.pc = "slots"
    /\ s \in present \ (op.got \cup dying)
    /\ op' = [op EXCEPT !.got = @ \cup {s}]
    /\ UNCHANGED <<disk, dying, registry, state, pool, handle, answered>>

Kept == {s \in present : ~op.clear /\ Adopted(file[s].hdr)}

\* Every entry is acquired and, unless all are cleared, every header reads well.
CanSettle ==
    /\ op.pc = "slots" /\ op.got = present
    /\ op.clear \/ \A s \in present : file[s].hdr # Torn
    /\ \A s, t \in Kept : file[s].hdr.name = file[t].hdr.name => s = t

SettleUnnamedAsTheyAre ==
    /\ CanSettle
    /\ needs_recovery' = FALSE
    /\ UNCHANGED <<disk, dying, answered>>

\* The slots without a name are initialized or unnamed once more ...
Settle ==
    /\ CanSettle
    /\ file' = Blanked(file, present \ Kept)
    /\ durable' = Blanked(durable, present \ Kept)
    /\ needs_recovery' = FALSE
    /\ answered' = IF op.clear THEN [n \in Names |-> "absent"] ELSE answered
    /\ UNCHANGED <<present, dying>>

\* ... and then all become the pool's.
Adopt ==
    /\ \E q \in Orders(present \ Kept) : available' = q
    /\ map' = [n \in Names |->
                 IF \E s \in Kept : file[s].hdr.name = n
                 THEN CHOOSE s \in Kept : file[s].hdr.name = n
                 ELSE NoSlot]

\* Emptying the slots of done succeeds, that of bad does not; nothing is published.
SettleFails(done, bad) ==
    /\ CanSettle
    /\ done \subseteq present \ Kept
    /\ bad \in (present \ Kept) \ done
    /\ \E o \in IF ~op.clear /\ file[bad].hdr = Short
                THEN Initialize(file[bad], durable[bad])
                ELSE Unnaming(file[bad], durable[bad]) :
          /\ ~o.ok
          /\ file' = [Blanked(file, done) EXCEPT ![bad] = o.file]
          /\ durable' = [Blanked(durable, done) EXCEPT ![bad] = o.durable]
    /\ answered' = IF op.clear
                   THEN [n \in Names |-> IF answered[n] = "present"
                                         THEN "unknown" ELSE answered[n]]
                   ELSE answered
    /\ EndOperation
    /\ UNCHANGED <<present, dying, registry, state, pool, handle>>

\* The VFS name may have been taken by foreign code during the awaits.
NameFreeUnchecked == TRUE
NameFree == registry # "foreign"

ResumePublishes ==
    /\ op.kind = "resume" /\ NameFree
    /\ Settle /\ Adopt
    /\ state' = "Active" /\ registry' = "pool"
    /\ EndOperation
    /\ UNCHANGED <<quarantined, handle>>

ResumeConflicts ==
    /\ op.kind = "resume" /\ ~NameFree
    /\ Settle /\ ReleaseSlots
    /\ EndOperation
    /\ UNCHANGED <<registry, state, handle>>

Missing == IF InitialCapacity > Cardinality(present)
           THEN InitialCapacity - Cardinality(present) ELSE 0

\* install still owns the pool privately: state stays "none" while it grows.
InstallGrows ==
    /\ op.kind = "install" /\ Missing > 0
    /\ Settle /\ Adopt
    /\ op' = [op EXCEPT !.pc = "create", !.left = Missing, !.got = {}]
    /\ UNCHANGED <<registry, state, quarantined, handle>>

InstallPublishes ==
    /\ op.kind = "install" /\ Missing = 0 /\ NameFree
    /\ Settle /\ Adopt
    /\ state' = "Active" /\ registry' = "pool"
    /\ EndOperation
    /\ UNCHANGED <<quarantined, handle>>

InstallConflicts ==
    /\ op.kind = "install" /\ Missing = 0 /\ ~NameFree
    /\ Settle /\ ReleaseSlots
    /\ EndOperation
    /\ UNCHANGED <<registry, state, handle>>

-----------------------------------------------------------------------------
(* Growing and shrinking the pool *)

AddBegin(n) ==
    /\ CheckActive
    /\ op' = Operation("add", "create", NoSlot, NoName, n, FALSE)
    /\ UNCHANGED <<disk, dying, registry, state, pool, handle, answered>>

\* random_name is drawn against available, map and added, not quarantined.
AddCreate(s) ==
    /\ op.pc = "create"
    /\ s \in Slots \ (Range(available) \cup Assigned \cup op.got)
    /\ s \notin dying
    /\ present' = present \cup {s}
    /\ op' = [op EXCEPT !.pc = "acquire", !.slot = s]
    /\ UNCHANGED <<file, durable, dying, registry, state, pool, handle, answered>>

AddAcquirable == op.pc = "acquire" /\ op.slot \in present \ Held

\* The name was already taken by a nonempty file: try another one.
AddCollides ==
    /\ AddAcquirable
    /\ op' = [op EXCEPT !.pc = "create", !.slot = NoSlot]
    /\ file[op.slot] # Created
    /\ UNCHANGED <<disk, dying, registry, state, pool, handle, answered>>

AddEmptyFile == AddAcquirable /\ file[op.slot] = Created

AddInitialized ==
    /\ AddEmptyFile
    /\ \E o \in Initialize(file[op.slot], durable[op.slot]) :
          o.ok /\ SetImages(op.slot, o)

AddContinues ==
    /\ op.left > 1
    /\ AddInitialized
    /\ op' = [op EXCEPT !.pc = "create", !.slot = NoSlot,
                        !.left = @ - 1, !.got = @ \cup {op.slot}]
    /\ UNCHANGED <<present, dying, registry, state, pool, handle, answered>>

AddReplaces ==
    \E q \in Orders(op.got \cup {op.slot}) : available' = q

AddPublishes ==
    \E q \in Orders(op.got \cup {op.slot}) : available' = available \o q

AddFinishes ==
    /\ op.kind = "add" /\ op.left = 1
    /\ AddInitialized /\ AddPublishes
    /\ EndOperation
    /\ UNCHANGED <<present, dying, registry, state, map, quarantined,
                   needs_recovery, handle, answered>>

InstallFinishes ==
    /\ op.kind = "install" /\ op.left = 1 /\ NameFree
    /\ AddInitialized /\ AddPublishes
    /\ state' = "Active" /\ registry' = "pool"
    /\ EndOperation
    /\ UNCHANGED <<present, dying, map, quarantined, needs_recovery, handle, answered>>

InstallFinishConflicts ==
    /\ op.kind = "install" /\ op.left = 1 /\ ~NameFree
    /\ AddInitialized /\ ReleaseSlots
    /\ EndOperation
    /\ UNCHANGED <<present, dying, registry, state, needs_recovery, handle, answered>>

AddInitializeFails ==
    /\ AddEmptyFile
    /\ \E o \in Initialize(file[op.slot], durable[op.slot]) :
          ~o.ok /\ SetImages(op.slot, o)
    /\ op' = [op EXCEPT !.pc = "remove"]
    /\ UNCHANGED <<present, dying, registry, state, pool, handle, answered>>

\* remove_entry: the next file of this name starts out empty.
RemoveEntry(s) ==
    /\ present' = present \ {s}
    /\ file' = [file EXCEPT ![s] = Created]
    /\ durable' = [durable EXCEPT ![s] = Created]

KeepForRemoval(left) ==
    /\ op' = Operation("reduce", "remove", Last(available), NoName, left, FALSE)
    /\ UNCHANGED available

PopForRemoval(left) ==
    /\ op' = Operation("reduce", "remove", Last(available), NoName, left, FALSE)
    /\ available' = Front(available)

\* n is already the smaller of the argument and the number of unused slots.
ReduceBegin(n) ==
    /\ CheckActive
    /\ n <= Len(available)
    /\ PopForRemoval(n - 1)
    /\ UNCHANGED <<disk, dying, registry, state, map, quarantined, needs_recovery,
                   handle, answered>>

\* The loop of reduce_capacity runs once too often.
ReduceOnceMore ==
    /\ op.kind = "reduce"
    /\ RemoveEntry(op.slot)
    /\ PopForRemoval(op.left - 1)
    /\ UNCHANGED <<dying, registry, state, map, quarantined, needs_recovery,
                   handle, answered>>

ReduceContinues ==
    /\ op.kind = "reduce" /\ op.left > 0
    /\ RemoveEntry(op.slot)
    /\ PopForRemoval(op.left - 1)
    /\ UNCHANGED <<dying, registry, state, map, quarantined, needs_recovery,
                   handle, answered>>

ReduceFinishes ==
    /\ op.kind = "reduce" /\ op.left = 0
    /\ RemoveEntry(op.slot)
    /\ EndOperation
    /\ UNCHANGED <<dying, registry, state, pool, handle, answered>>

-----------------------------------------------------------------------------
(* How an asynchronous operation ends early *)

\* What it acquired is closed; install also drops its private pool.
Unwind ==
    /\ EndOperation
    /\ IF op.kind = "install"
       THEN ReleaseSlots /\ needs_recovery' = FALSE
       ELSE UNCHANGED pool

\* An awaited call fails, or the caller drops the future there.
OperationFails ==
    /\ op.kind \in {"add", "resume", "install"}
    /\ op.pc # "remove"
    /\ Unwind
    /\ UNCHANGED <<disk, dying, registry, state, handle, answered>>

\* The slot of a failed initialization is removed, and the error returned.
AddRemoves ==
    /\ op.kind \in {"add", "install"} /\ op.pc = "remove"
    /\ RemoveEntry(op.slot)
    /\ Unwind
    /\ UNCHANGED <<dying, registry, state, handle, answered>>

\* remove_entry fails, or is dropped and left to the browser.
RemovalFails ==
    /\ op.pc = "remove"
    /\ \/ UNCHANGED dying
       \/ dying' = dying \cup {op.slot}
    /\ Unwind
    /\ UNCHANGED <<disk, registry, state, handle, answered>>

\* External: the file system queue runs a removal nobody awaits before any
\* later request for the same entry, so s is not touched again until it lands.
RemovalLands(s) ==
    /\ s \in dying
    /\ dying' = dying \ {s}
    /\ RemoveEntry(s)
    /\ UNCHANGED <<registry, state, pool, handle, op, answered>>

-----------------------------------------------------------------------------
(* The environment: foreign VFSes, worker termination, loss of power *)

ForeignVfs ==
    /\ \/ registry = "free" /\ registry' = "foreign"
       \/ registry = "foreign" /\ registry' = "free"
    /\ UNCHANGED <<disk, dying, state, pool, handle, op, answered>>

ForgetMemory ==
    /\ state' = "none"
    /\ registry' = "free"
    /\ ReleaseSlots
    /\ needs_recovery' = FALSE
    /\ handle' = [h \in Handles |-> Closed]
    /\ op' = Idle
    /\ UNCHANGED <<present, answered>>

WorkerDies ==
    /\ state # "none" \/ Busy
    /\ ForgetMemory
    /\ UNCHANGED <<file, durable, dying>>

LosePower(newHeaders, newData) ==
    /\ file' = [s \in Slots |->
                  Surviving(file[s], durable[s], s \in newHeaders, s \in newData)]
    /\ durable' = file'
    /\ dying' = {}
    /\ ForgetMemory

-----------------------------------------------------------------------------
(* Specification *)

\* A worker starts with an empty directory.
Init ==
    /\ present = {}
    /\ file = [s \in Slots |-> Created]
    /\ durable = [s \in Slots |-> Created]
    /\ dying = {}
    /\ registry = "free"
    /\ state = "none"
    /\ available = <<>>
    /\ map = NoFiles
    /\ quarantined = {}
    /\ needs_recovery = FALSE
    /\ handle = [h \in Handles |-> Closed]
    /\ op = Idle
    /\ answered = [n \in Names |-> "unknown"]

SQLite ==
    \/ \E h \in Handles : Write(h) \/ Truncate(h) \/ Sync(h) \/ CloseFile(h)
    \/ \E h \in Handles, n \in Names :
          \/ \E d \in BOOLEAN : OpenExisting(h, n, d)
          \/ \E k \in FileKinds : OpenNew(h, n, k)
    \/ \E n \in Names, k \in FileKinds : OpenNewFails(n, k)

Management ==
    \/ \E n \in Names : DeleteFile(n)
    \/ ClearAll
    \/ \E done \in SUBSET Slots, bad \in Slots : ClearFails(done, bad)
    \/ Pause \/ Uninstall

Transfer ==
    \/ \E n \in Names : CreateImport(n) \/ OpenExport(n)
    \/ \E x \in Contents : ImportWrite(x)
    \/ ImportCommit \/ ImportCommitFails \/ ImportAbort
    \/ ExportDrop

Acquisition ==
    \/ ResumeBegin
    \/ \E clear \in BOOLEAN : InstallBegin(clear)
    \/ AcquireLease
    \/ \E s \in Slots : AcquireSlot(s)
    \/ \E done \in SUBSET Slots, bad \in Slots : SettleFails(done, bad)
    \/ ResumePublishes \/ ResumeConflicts
    \/ InstallGrows \/ InstallPublishes \/ InstallConflicts

Resizing ==
    \/ \E n \in 1..MaxChange : AddBegin(n) \/ ReduceBegin(n)
    \/ \E s \in Slots : AddCreate(s)
    \/ AddCollides \/ AddContinues \/ AddFinishes
    \/ InstallFinishes \/ InstallFinishConflicts
    \/ AddInitializeFails \/ AddRemoves
    \/ ReduceContinues \/ ReduceFinishes
    \/ OperationFails \/ RemovalFails

Environment ==
    \/ \E s \in Slots : RemovalLands(s)
    \/ ForeignVfs
    \/ WorkerDies
    \/ \E hs, ds \in SUBSET Slots : LosePower(hs, ds)

Next == SQLite \/ Management \/ Transfer \/ Acquisition \/ Resizing \/ Environment

Spec == Init /\ [][Next]_vars

-----------------------------------------------------------------------------
(* Invariants *)

TypeOK ==
    /\ present \subseteq Slots
    /\ file \in [Slots -> Images]
    /\ durable \in [Slots -> Images]
    /\ dying \subseteq Slots
    /\ registry \in {"free", "pool", "foreign"}
    /\ state \in {"none", "Active", "Paused"}
    /\ available \in Seq(Slots)
    /\ map \in Assignments
    /\ quarantined \subseteq Slots
    /\ needs_recovery \in BOOLEAN
    /\ handle \in [Handles -> HandleRecords]
    /\ op \in Operations
    /\ answered \in [Names -> Answers]

\* A slot has one place: once in the stack, under one name, in quarantine, or
\* with the operation that acquired it (moves between available_files,
\* map_filename_to_file and quarantined_files never copy or lose the Rc).
OwnedOnce ==
    /\ IsInjective(available)
    /\ \A n, m \in Names : HasFilename(n) /\ map[n] = map[m] => n = m
    /\ Range(available) \cap Assigned = {}
    /\ quarantined \cap (Range(available) \cup Assigned) = {}
    /\ op.got \cap Owned = {}
    /\ Held \subseteq present

\* The slot an operation relies on is still where it left it when it resumes:
\* an import pops available_files' last slot, a reduction unwraps a pop.
ReservationsHold ==
    /\ op.kind = "import" => available # <<>> /\ Last(available) = op.slot
    /\ op.kind = "export" => HasFilename(op.name) /\ map[op.name] = op.slot
    /\ op.kind = "reduce" => op.left <= Len(available)

\* A slot that can be handed out holds nothing of its last file, not even
\* after a loss of power; only the slot reserved by an import is written.
UnusedSlotsAreBlank ==
    \A s \in Range(available) :
        (op.kind = "import" /\ op.slot = s) \/ (file[s] = Blank /\ durable[s] = Blank)

\* No two slots ever bear the same name, in either image, whatever failed or
\* crashed: acquire_access_handles never meets a DuplicateFilename of its own making.
OneSlotPerName ==
    \A s, t \in present : s # t => NamesOn(s) \cap NamesOn(t) = {}

\* add_capacity's collision check leaves quarantined_files out, and open_file
\* and the imports look names up in the map alone: both are right only if a
\* quarantined slot keeps the pool in needs_recovery.
QuarantineNeedsRecovery ==
    \A s \in quarantined :
        needs_recovery /\ state = "Active" /\ quarantined = {s}

\* A healthy pool's map and the headers of its directory agree, including the
\* slots it does not hold (those a failed add or reduce left behind).
MapIsTheDirectory ==
    state = "Active" /\ ~needs_recovery =>
        \A s \in present :
            /\ NamesOn(s) \subseteq {n \in Names : map[n] = s}
            /\ \A n \in Names : map[n] = s => file[s].hdr.name = n

\* An answer survives: a name reported created is on durable storage, and one
\* reported removed is in no image, until the next attempt to change it.
AnswersAreDurable ==
    \A n \in Names :
        /\ answered[n] = "present" =>
              \E s \in present : durable[s].hdr.name = n /\ Adopted(durable[s].hdr)
        /\ answered[n] = "absent" => \A s \in present : n \notin NamesOn(s)

\* An open file keeps its slot and its name, and its pool stays active: the
\* xClose that deletes by name deletes the file it opened.
OpenFilesStayPut ==
    \A h \in Handles :
        handle[h] # Closed =>
            /\ state = "Active"
            /\ handle[h].name \in Names /\ handle[h].slot # NoSlot
            /\ map[handle[h].name] = handle[h].slot

\* While an import runs, no image of any slot bears its name or a sidecar's:
\* it cannot be published beside a journal that would be rolled back into it.
ImportMeetsNoJournal ==
    op.kind = "import" =>
        \A s \in present : NamesOn(s) \cap ({op.name} \cup Sidecars[op.name]) = {}

\* An imported name that survives a loss of power has its whole contents, or what
\* SQLite made of them: commit flushes them before it names the slot.
ImportsSurviveWhole ==
    \A s \in present :
        durable[s].hdr.flags = "import" => durable[s].data \in {"whole", "emptied"}

\* Where each kind of operation can be, and the pool it finds there.  SahPoolProofs
\* needs it to make the others inductive.
OperationShape ==
    /\ op.kind = "none" => op = Idle
    /\ op.kind \in {"import", "export"} =>
          /\ op.pc = "open" /\ op.got = {}
          /\ op.slot \in Slots /\ op.name \in Names
          /\ state = "Active" /\ ~needs_recovery
    /\ op.kind = "import" => ~HasFilename(op.name)
    /\ op.kind = "reduce" => op.pc = "remove" /\ op.got = {}
    /\ op.kind \in {"add", "reduce"} => state = "Active" /\ ~needs_recovery
    /\ op.kind = "add" => op.pc \in {"create", "acquire", "remove"}
    /\ op.kind = "resume" => state = "Paused" /\ op.pc \in {"lease", "slots"}
    /\ op.kind = "install" =>
          state = "none" /\ op.pc \in {"lease", "slots", "create", "acquire", "remove"}
    /\ op.pc \in {"create", "acquire"} => op.left > 0
    /\ op.pc \in {"acquire", "remove"} => op.slot \in present \ (Held \cup dying)
    /\ dying \subseteq present \ Held
    /\ state = "none" => ~needs_recovery
    /\ state # "Active" /\ op.pc \notin {"create", "acquire", "remove"} =>
          available = <<>> /\ map = NoFiles

-----------------------------------------------------------------------------
(* Action properties *)

\* No file of the directory changes while it is exported, nor does its header.
ExportIsStable ==
    [][op.kind = "export" /\ op'.kind = "export" => file'[op.slot] = file[op.slot]]_vars

\* No removal, late or not, takes away an entry that bears a name.
NamedSlotsAreNotRemoved ==
    [][\A s \in present \ present' : NamesOn(s) = {}]_vars

\* A pool is never published over foreign code's VFS of the same name, which may
\* appear between the check with which resume or install begins and its end.
ForeignVfsIsNotShadowed ==
    [][registry = "foreign" => registry' # "pool"]_vars

\* Nothing renames or unnames a slot under an open file.
OpenFilesKeepTheirHeader ==
    [][\A h \in Handles :
          handle[h] # Closed /\ handle'[h] = handle[h] =>
              file'[handle[h].slot].hdr = file[handle[h].slot].hdr]_vars

\* Only a reduction, a pause, an uninstall or a crash gives up a held slot:
\* no failure path of an open, a delete, a transfer or a clear leaks one.
SlotsAreNotLeaked ==
    [][state = "Active" /\ state' = "Active" =>
          \A s \in Owned \ Owned' : op'.kind = "reduce" /\ op'.slot = s]_vars

-----------------------------------------------------------------------------
(* What the documentation says, and the code does not *)

\* rsqlite-vfs/src/lib.rs:708: the managed names exclude anonymous files.
NamesExcludeAnonymous ==
    CheckActive => \A n \in Anonymous : ~HasFilename(n)

\* rsqlite-vfs/src/transfer.rs:280: an import whose finish failed is reclaimed.
RefusedImportIsReclaimed ==
    state = "Active" => \A n \in Names : answered[n] = "refused" => ~HasFilename(n)

\* rsqlite-vfs/src/lib.rs:774: closing a DELETEONCLOSE file removes it.  No
\* storage call failed here: the pool needs no recovery.
CloseDeletes ==
    CheckActive => \A n \in Anonymous : HasFilename(n) => OpenOn(map[n])

=============================================================================
