------------------------------- MODULE SahLease -------------------------------
(***************************************************************************)
(* The workers that share one pool directory                               *)
(* (crates/sqlite-wasm-vfs/src/sahpool.rs).  A worker may use the          *)
(* directory's slots while it holds the access handle of the file .lock,   *)
(* its lease.  The browser grants an access handle to one owner at a time. *)
(*                                                                         *)
(* SyncAccessFile::acquire asks for a handle in a task of its own, which   *)
(* goes on when the caller is dropped, so that a handle nobody waits for   *)
(* any more is closed.  Workers run in parallel: every handle that one     *)
(* closes is a step the others can see, although a release is one          *)
(* synchronous call of its own worker.                                     *)
(***************************************************************************)
EXTENDS Naturals, FiniteSets

CONSTANTS
    Workers, Nobody,
    Slots,          \* opaque filenames random_name can produce
    Lock,           \* the file .lock
    NoFile,
    MaxAttempts,    \* MAX_FILENAME_ATTEMPTS
    Tasks           \* bound: acquisitions that go on without their callers

ASSUME WorkerAssumption == Nobody \notin Workers
ASSUME FileAssumption == Lock \notin Slots /\ NoFile \notin Slots \cup {Lock}
ASSUME AttemptAssumption == MaxAttempts \in Nat \ {0}

VARIABLES
    present,    \* entries of the .opaque directory
    creating,   \* creations whose caller is gone and which may still land
    holder,     \* who has the access handle of each file: the browser's view
    state,      \* [Workers -> PoolState]; "none" without an installed pool
    op,         \* the operation each worker is in
    task,       \* the acquisition the operation awaits
    orphan,     \* the acquisitions whose caller was dropped, by task
    lease,      \* whether the worker has the SyncAccessFile of .lock
    slots,      \* the slots in the pool's own lists
    got         \* the slots in the operation's local vector: acquired, added

directory == <<present, creating>>
acquisitions == <<task, orphan>>
files == <<lease, slots, got>>
vars == <<directory, holder, state, op, acquisitions, files>>

Files == Slots \cup {Lock}

-----------------------------------------------------------------------------
(* Values *)

(***************************************************************************)
(* pc is where the operation is:                                           *)
(*   "lease"    awaits the handle of .lock                                 *)
(*   "entries"  iterates over the directory, got holds what it acquired    *)
(*   "slot"     awaits the handle of the entry                             *)
(*   "grow"     between two slots of add_capacity                          *)
(*   "create"   awaits get_file_handle(create) for a random name, and then *)
(*              the handle of that file                                    *)
(*   "closing"  drops SyncAccessFiles, one after the other                 *)
(***************************************************************************)
Operation(kind, pc) ==
    [kind |-> kind, pc |-> pc, todo |-> {}, left |-> MaxAttempts]
Idle == Operation("none", "idle")

\* "creating": the file is being created.  "ready": the task has stored the
\* handle and woken its caller.  A caller that is gone when the browser grants
\* the handle was gone before that, to everybody else.
Acquisition(f, stage) == [file |-> f, stage |-> stage]
NoAcquisition == Acquisition(NoFile, "none")

\* The acquisition of a caller that is gone: a worker can have several, also
\* of one file.
Orphan(w, f, stage) == [worker |-> w, file |-> f, stage |-> stage]
NoOrphan == Orphan(Nobody, NoFile, "none")

Awaiting(w, stage) == task[w].stage = stage
InPhase(w, pc) == op[w].pc = pc
Goto(w, pc) == op' = [op EXCEPT ![w].pc = pc]
Enter(w, pc) == op' = [op EXCEPT ![w] = Operation(@.kind, pc)]

-----------------------------------------------------------------------------
(* The browser and the background task of SyncAccessFile::acquire *)

\* createSyncAccessHandle for the file the operation is about to await.
Request(w, f) == task' = [task EXCEPT ![w] = Acquisition(f, "requested")]

Free(f) == holder[f] = Nobody

Grant(w) ==
    /\ Awaiting(w, "requested") /\ Free(task[w].file)
    /\ holder' = [holder EXCEPT ![task[w].file] = w]
    /\ task' = [task EXCEPT ![w].stage = "ready"]
    /\ UNCHANGED <<directory, state, op, orphan, files>>

\* The handle is taken, or storage failed: the error reaches the caller,
\* which drops what it has.
RefuseUnreported(w) ==
    /\ Awaiting(w, "requested")
    /\ task' = [task EXCEPT ![w] = NoAcquisition]
    /\ UNCHANGED <<directory, holder, state, op, orphan, files>>
Refuse(w) ==
    /\ Awaiting(w, "requested")
    /\ task' = [task EXCEPT ![w] = NoAcquisition]
    /\ Enter(w, "closing")
    /\ UNCHANGED <<directory, holder, state, orphan, files>>

OrphanGranted(t) ==
    /\ orphan[t].stage = "requested" /\ Free(orphan[t].file)
    /\ holder' = [holder EXCEPT ![orphan[t].file] = orphan[t].worker]
    /\ orphan' = [orphan EXCEPT ![t].stage = "granted"]
    /\ UNCHANGED <<directory, state, op, task, files>>

OrphanRefused(t) ==
    /\ orphan[t].stage = "requested"
    /\ orphan' = [orphan EXCEPT ![t] = NoOrphan]
    /\ UNCHANGED <<directory, holder, state, op, task, files>>

\* The task stores its result where nobody looks; dropping it closes the handle.
OrphanForgets(t) ==
    /\ orphan[t].stage = "granted"
    /\ orphan' = [orphan EXCEPT ![t] = NoOrphan]
    /\ UNCHANGED <<directory, holder, state, op, task, files>>
OrphanCloses(t) ==
    /\ orphan[t].stage = "granted"
    /\ orphan' = [orphan EXCEPT ![t] = NoOrphan]
    /\ holder' = [holder EXCEPT ![orphan[t].file] = Nobody]
    /\ UNCHANGED <<directory, state, op, task, files>>

-----------------------------------------------------------------------------
(* Taking the directory: install, resume, acquire_access_handles *)

InstallBeginUnlocked(w) ==
    /\ state[w] = "none" /\ InPhase(w, "idle")
    /\ op' = [op EXCEPT ![w] = [Operation("install", "entries") EXCEPT !.todo = present]]
    /\ UNCHANGED <<directory, holder, state, acquisitions, files>>
InstallBegin(w) ==
    /\ state[w] = "none" /\ InPhase(w, "idle")
    /\ op' = [op EXCEPT ![w] = Operation("install", "lease")]
    /\ Request(w, Lock)
    /\ UNCHANGED <<directory, holder, state, orphan, files>>

ResumeBegin(w) ==
    /\ state[w] = "Paused" /\ InPhase(w, "idle")
    /\ op' = [op EXCEPT ![w] = Operation("resume", "lease")]
    /\ Request(w, Lock)
    /\ UNCHANGED <<directory, holder, state, orphan, files>>

\* The lease is here; the iteration over the directory begins.
TakeLease(w) ==
    /\ InPhase(w, "lease") /\ Awaiting(w, "ready")
    /\ lease' = [lease EXCEPT ![w] = TRUE]
    /\ task' = [task EXCEPT ![w] = NoAcquisition]
    /\ op' = [op EXCEPT ![w].pc = "entries", ![w].todo = present]
    /\ UNCHANGED <<directory, holder, state, orphan, slots, got>>

\* An entry created since the iteration began may or may not be seen.
NextEntry(w, s) ==
    /\ InPhase(w, "entries") /\ s \in present \ got[w]
    /\ Goto(w, "slot")
    /\ Request(w, s)
    /\ UNCHANGED <<directory, holder, state, orphan, files>>

TakeSlot(w) ==
    /\ InPhase(w, "slot") /\ Awaiting(w, "ready")
    /\ got' = [got EXCEPT ![w] = @ \cup {task[w].file}]
    /\ task' = [task EXCEPT ![w] = NoAcquisition]
    /\ Goto(w, "entries")
    /\ UNCHANGED <<directory, holder, state, orphan, lease, slots>>

\* All entries of the directory are acquired; they become the pool's.
Adopt(w) ==
    /\ InPhase(w, "entries") /\ op[w].todo \subseteq got[w]
    /\ slots' = [slots EXCEPT ![w] = got[w]]
    /\ got' = [got EXCEPT ![w] = {}]

ResumeFinishes(w) ==
    /\ op[w].kind = "resume"
    /\ Adopt(w)
    /\ state' = [state EXCEPT ![w] = "Active"]
    /\ op' = [op EXCEPT ![w] = Idle]
    /\ UNCHANGED <<directory, holder, acquisitions, lease>>

InstallAdopts(w) ==
    /\ op[w].kind = "install"
    /\ Adopt(w)
    /\ Enter(w, "grow")
    /\ UNCHANGED <<directory, holder, state, acquisitions, lease>>

-----------------------------------------------------------------------------
(* Growing: add_capacity, also through install's ensure_capacity *)

AddBegin(w) ==
    /\ state[w] = "Active" /\ InPhase(w, "idle")
    /\ op' = [op EXCEPT ![w] = Operation("add", "grow")]
    /\ UNCHANGED <<directory, holder, state, acquisitions, files>>

\* One attempt is used up; the last one ends in NameCollision.
TryAnother(w, left) ==
    IF left = 0 THEN Enter(w, "closing")
    ELSE op' = [op EXCEPT ![w].pc = "grow", ![w].left = left]

\* The random name is that of a slot this pool has.
AddSkips(w) ==
    /\ InPhase(w, "grow") /\ slots[w] \cup got[w] # {}
    /\ TryAnother(w, op[w].left - 1)
    /\ UNCHANGED <<directory, holder, state, acquisitions, files>>

AddCreates(w, s) ==
    /\ InPhase(w, "grow")
    /\ s \notin slots[w] \cup got[w]
    /\ op' = [op EXCEPT ![w].pc = "create", ![w].left = @ - 1]
    /\ task' = [task EXCEPT ![w] = Acquisition(s, "creating")]
    /\ UNCHANGED <<directory, holder, state, orphan, files>>

AddRequests(w) ==
    /\ Awaiting(w, "creating")
    /\ present' = present \cup {task[w].file}
    /\ Request(w, task[w].file)
    /\ UNCHANGED <<creating, holder, state, op, orphan, files>>

\* An empty file is initialized and kept.  Whether the file has contents is
\* left open here: a creation that landed late left it empty.
AddKeeps(w) ==
    /\ InPhase(w, "create") /\ Awaiting(w, "ready")
    /\ got' = [got EXCEPT ![w] = @ \cup {task[w].file}]
    /\ task' = [task EXCEPT ![w] = NoAcquisition]
    /\ Enter(w, "grow")
    /\ UNCHANGED <<directory, holder, state, orphan, lease, slots>>

\* The random name was that of a file with contents: try another one.
AddCollides(w) ==
    /\ InPhase(w, "create") /\ Awaiting(w, "ready")
    /\ holder' = [holder EXCEPT ![task[w].file] = Nobody]
    /\ task' = [task EXCEPT ![w] = NoAcquisition]
    /\ TryAnother(w, op[w].left)
    /\ UNCHANGED <<directory, state, orphan, files>>

\* add_capacity publishes its slots; install registers its pool.
GrowFinishes(w) ==
    /\ InPhase(w, "grow") /\ op[w].left = MaxAttempts
    /\ slots' = [slots EXCEPT ![w] = @ \cup got[w]]
    /\ got' = [got EXCEPT ![w] = {}]
    /\ state' = [state EXCEPT ![w] = "Active"]
    /\ op' = [op EXCEPT ![w] = Idle]
    /\ UNCHANGED <<directory, holder, acquisitions, lease>>

-----------------------------------------------------------------------------
(* Giving up *)

\* Callers gone while something they asked the browser for was pending.
InBackground ==
    Cardinality(creating) + Cardinality({t \in Tasks : orphan[t] # NoOrphan})

(***************************************************************************)
(* What becomes of the awaited acquisition when its caller is dropped: a   *)
(* stored result is closed, a pending one goes on in the background, as    *)
(* does a pending creation.                                                *)
(***************************************************************************)
Abandon(w) ==
    LET f == task[w].file
    IN  /\ task[w].stage \in {"creating", "requested"} => InBackground < Cardinality(Tasks)
        /\ task' = [task EXCEPT ![w] = NoAcquisition]
        /\ creating' = IF Awaiting(w, "creating") THEN creating \cup {f} ELSE creating
        /\ holder' = IF Awaiting(w, "ready") THEN [holder EXCEPT ![f] = Nobody] ELSE holder
        /\ IF Awaiting(w, "requested")
           THEN \E t \in Tasks : orphan[t] = NoOrphan
                    /\ orphan' = [orphan EXCEPT ![t] = Orphan(w, f, "requested")]
           ELSE UNCHANGED orphan

\* The future is dropped at an await, or a step of the operation fails.
GiveUp(w) ==
    /\ op[w].pc \notin {"idle", "closing"}
    /\ Abandon(w)
    /\ Enter(w, "closing")
    /\ UNCHANGED <<present, state, files>>

CreationLands(s) ==
    /\ s \in creating
    /\ creating' = creating \ {s}
    /\ present' = present \cup {s}
    /\ UNCHANGED <<holder, state, op, acquisitions, files>>

-----------------------------------------------------------------------------
(* Releasing *)

Pause(w) ==
    /\ state[w] = "Active" /\ InPhase(w, "idle")
    /\ state' = [state EXCEPT ![w] = "Paused"]
    /\ op' = [op EXCEPT ![w] = Operation("release", "closing")]
    /\ UNCHANGED <<directory, holder, acquisitions, files>>

Uninstall(w) ==
    /\ state[w] # "none" /\ InPhase(w, "idle")
    /\ state' = [state EXCEPT ![w] = "none"]
    /\ op' = [op EXCEPT ![w] = Operation("release", "closing")]
    /\ UNCHANGED <<directory, holder, acquisitions, files>>

LeaseFile(w) == IF lease[w] THEN {Lock} ELSE {}
FirstOf(A, B) == IF A # {} THEN A ELSE B

(***************************************************************************)
(* The SyncAccessFile dropped next.  A local vector goes before its        *)
(* function's other locals; release_access_handles empties the lists and   *)
(* then takes the lease, as resume drops its lease last.  A pool that      *)
(* install gives up is dropped field by field, and `lease` is declared     *)
(* before the lists.  add_capacity has only its vector to drop.            *)
(***************************************************************************)
ClosesNextLeaseFirst(w) ==
    FirstOf(got[w],
        IF op[w].kind = "add" THEN {} ELSE FirstOf(LeaseFile(w), slots[w]))
ClosesNext(w) ==
    FirstOf(got[w],
        CASE op[w].kind = "add" -> {}
          [] op[w].kind = "install" -> FirstOf(LeaseFile(w), slots[w])
          [] OTHER -> FirstOf(slots[w], LeaseFile(w)))

CloseKeepingLease(w, f) ==
    /\ InPhase(w, "closing") /\ f \in ClosesNext(w)
    /\ holder' = [holder EXCEPT ![f] = Nobody]
    /\ slots' = [slots EXCEPT ![w] = @ \ {f}]
    /\ got' = [got EXCEPT ![w] = @ \ {f}]
    /\ UNCHANGED <<directory, state, op, acquisitions, lease>>
Close(w, f) ==
    /\ InPhase(w, "closing") /\ f \in ClosesNext(w)
    /\ holder' = [holder EXCEPT ![f] = Nobody]
    /\ lease' = [lease EXCEPT ![w] = @ /\ f # Lock]
    /\ slots' = [slots EXCEPT ![w] = @ \ {f}]
    /\ got' = [got EXCEPT ![w] = @ \ {f}]
    /\ UNCHANGED <<directory, state, op, acquisitions>>

Closed(w) ==
    /\ InPhase(w, "closing") /\ ClosesNext(w) = {}
    /\ op' = [op EXCEPT ![w] = Idle]
    /\ UNCHANGED <<directory, holder, state, acquisitions, files>>

-----------------------------------------------------------------------------
(* The end of a worker *)

\* The browser closes a dead worker's handles.
WorkerDies(w) ==
    /\ creating' = IF Awaiting(w, "creating") THEN creating \cup {task[w].file} ELSE creating
    /\ holder' = [f \in Files |-> IF holder[f] = w THEN Nobody ELSE holder[f]]
    /\ state' = [state EXCEPT ![w] = "none"]
    /\ op' = [op EXCEPT ![w] = Idle]
    /\ task' = [task EXCEPT ![w] = NoAcquisition]
    /\ orphan' = [t \in Tasks |-> IF orphan[t].worker = w THEN NoOrphan ELSE orphan[t]]
    /\ lease' = [lease EXCEPT ![w] = FALSE]
    /\ slots' = [slots EXCEPT ![w] = {}]
    /\ got' = [got EXCEPT ![w] = {}]
    /\ UNCHANGED present

-----------------------------------------------------------------------------
Init ==
    /\ present = {} /\ creating = {}
    /\ holder = [f \in Files |-> Nobody]
    /\ state = [w \in Workers |-> "none"]
    /\ op = [w \in Workers |-> Idle]
    /\ task = [w \in Workers |-> NoAcquisition]
    /\ orphan = [t \in Tasks |-> NoOrphan]
    /\ lease = [w \in Workers |-> FALSE]
    /\ slots = [w \in Workers |-> {}]
    /\ got = [w \in Workers |-> {}]

\* What an operation does next, and the browser for it.
Progress(w) ==
    \/ Grant(w) \/ Refuse(w)
    \/ TakeLease(w) \/ TakeSlot(w) \/ ResumeFinishes(w) \/ InstallAdopts(w)
    \/ \E s \in Slots : NextEntry(w, s) \/ AddCreates(w, s)
    \/ AddSkips(w) \/ AddRequests(w) \/ AddKeeps(w) \/ AddCollides(w) \/ GrowFinishes(w)
    \/ \E f \in Files : Close(w, f)
    \/ Closed(w)

\* What an abandoned acquisition does next.
Background(t) == OrphanGranted(t) \/ OrphanRefused(t) \/ OrphanCloses(t)

\* What the user, the application and the system may do.
Choice(w) ==
    \/ InstallBegin(w) \/ ResumeBegin(w) \/ AddBegin(w)
    \/ GiveUp(w) \/ Pause(w) \/ Uninstall(w) \/ WorkerDies(w)

Next ==
    \/ \E w \in Workers : Progress(w) \/ Choice(w)
    \/ \E t \in Tasks : Background(t)
    \/ \E s \in Slots : CreationLands(s)

\* Promises settle and the microtask queue is served.
Fairness ==
    /\ \A w \in Workers : WF_vars(Progress(w))
    /\ \A t \in Tasks : WF_vars(Background(t))

Spec == Init /\ [][Next]_vars /\ Fairness

-----------------------------------------------------------------------------
(* Properties *)

Uses(w) == LeaseFile(w) \cup slots[w] \cup got[w]

\* The handle this worker has of the file is with a task in the background.
Stray(w, f) == \E t \in Tasks : orphan[t] = Orphan(w, f, "granted")

\* Every SyncAccessFile is a handle the browser still grants this worker, and
\* it is the only one: no task closes a handle that somebody else uses, of
\* this worker or another (sahpool.rs acquire, SyncAccessFileInner::drop).
HandlesAreGranted ==
    /\ \A w \in Workers :
        /\ \A f \in Uses(w) :
            /\ holder[f] = w /\ ~Stray(w, f)
            /\ task[w].file = f => ~Awaiting(w, "ready")
        /\ slots[w] \cap got[w] = {}
        /\ Awaiting(w, "ready") => holder[task[w].file] = w /\ ~Stray(w, task[w].file)
    /\ \A t \in Tasks : orphan[t].stage = "granted" =>
        /\ holder[orphan[t].file] = orphan[t].worker
        /\ \A u \in Tasks \ {t} : orphan[u] # orphan[t]

\* The lock file keeps two workers from running disjoint pools on one
\* directory, empty or not: when one is active, no other is, nor is another
\* growing or adopting one (sahpool.rs new, 599).
DirectoryHasOnePool ==
    \A w \in Workers : state[w] = "Active" /\ ~InPhase(w, "closing") =>
        \A v \in Workers \ {w} :
            state[v] # "Active" /\ op[v].pc \notin {"entries", "slot", "grow", "create"}

\* Whoever has the lease finds the slots free: another worker holds one only
\* in the background, for a caller that is gone, or in the moment in which a
\* pool that install gave up is dropped (sahpool.rs release_access_handles).
LeaseFindsSlotsFree ==
    \A w, v \in Workers, s \in Slots :
        lease[w] /\ v # w /\ holder[s] = v =>
            \/ Stray(v, s)
            \/ op[v].kind = "install" /\ InPhase(v, "closing")

Unwanted(f) ==
    \E w \in Workers :
        /\ holder[f] = w /\ f \notin Uses(w)
        /\ ~(task[w].file = f /\ Awaiting(w, "ready"))

\* A handle that its caller no longer waits for is closed: a cancelled
\* acquisition cannot keep a file from every worker (sahpool.rs acquire, 188).
AbandonedHandlesClose == \A f \in Files : Unwanted(f) ~> ~Unwanted(f)

\* Every operation ends, whatever the browser answers and whoever holds the
\* files: no worker waits for another (sahpool.rs acquire, begin_operation).
OperationsEnd == \A w \in Workers : ~InPhase(w, "idle") ~> InPhase(w, "idle")

=============================================================================
