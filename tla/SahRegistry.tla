----------------------------- MODULE SahRegistry ------------------------------
(***************************************************************************)
(* The VFSs of one worker: the pools that install registers                *)
(* (crates/sqlite-wasm-vfs/src/sahpool.rs), the memory VFS, and VFSs of    *)
(* other code, in SQLite's one list.  install and resume await; all else,  *)
(* SQLite's shutdown and automatic initialization included, happens        *)
(* between their awaits.                                                   *)
(***************************************************************************)
EXTENDS Naturals, FiniteSets, VfsList

CONSTANTS
    PoolNames,      \* names the application gives to pools
    Directories,
    ForeignNames,   \* names other code registers VFSs under
    Tasks,          \* concurrent calls of install
    NoTask,
    MaxCalls        \* bound: calls of install in a behaviour

ASSUME TaskAssumption == NoTask \notin Tasks
ASSUME CallAssumption == MaxCalls \in Nat

VARIABLES
    sq,         \* SQLite's list and MEM_VFS, see VfsList
    pools,      \* REGISTERED_POOLS: the pools by name
    call,       \* the install each task runs
    guard,      \* the task that has REGISTER_GUARD
    calls       \* how many installs were called
vars == <<sq, pools, call, guard, calls>>

-----------------------------------------------------------------------------
(* Values *)

NoPool == [state |-> "none"]

\* held: a paused pool was the default VFS when it was paused, or an install
\* asked for that since (a history variable: the code does not keep it).
Pool(dir, makeDefault) ==
    [state |-> "Active", dir |-> dir, make_default |-> makeDefault, busy |-> FALSE, held |-> FALSE]

PoolVfs(n) == Vfs("pool", n)
Foreign(n) == Vfs("foreign", n)
Installed == {n \in PoolNames : pools[n] # NoPool}

\* The options of an install matter once it has the guard.
Options == [name : PoolNames, dir : Directories, default : BOOLEAN]
NoOptions == [name |-> "none"]
Call(pc, o) == [pc |-> pc, options |-> o]
NoCall == Call("idle", NoOptions)
Waiting == Call("waiting", NoOptions)

Ends(t) == call' = [call EXCEPT ![t] = NoCall]

\* Operation's begin_operation succeeds.
NotBusy(n) == n \in Installed /\ ~pools[n].busy

-----------------------------------------------------------------------------
(* install *)

InstallCall(t) ==
    /\ call[t] = NoCall /\ calls < MaxCalls
    /\ call' = [call EXCEPT ![t] = Waiting]
    /\ calls' = calls + 1
    /\ UNCHANGED <<sq, pools, guard>>

\* The guard is free and the task is polled: what it finds decides.
Enter(t) == call[t] = Waiting /\ guard = NoTask

\* A pool of this name: only its default status may change.  A paused pool is
\* registered by resume.
PromoteWhilePaused(o) ==
    IF o.default THEN Register(sq, PoolVfs(o.name), TRUE) ELSE Answer(TRUE, Initialize(sq).q)
Promote(o) ==
    IF o.default /\ pools[o.name].state = "Active"
    THEN Register(sq, PoolVfs(o.name), TRUE)
    ELSE Answer(TRUE, Initialize(sq).q)

NameFreeUnchecked(n) == TRUE
NameFree(n) == Found(sq, n) \in {NoVfs, PoolVfs(n)}

Reusable(o) == NotBusy(o.name) /\ pools[o.name].dir = o.dir /\ NameFree(o.name)

InstallReuses(t, o) ==
    /\ Enter(t) /\ Reusable(o)
    /\ sq' = Promote(o).q
    /\ pools' = [pools EXCEPT ![o.name].make_default = @ \/ (o.default /\ Promote(o).ok),
                              ![o.name].held = @ \/ (o.default /\ pools[o.name].state = "Paused")]
    /\ Ends(t)
    /\ UNCHANGED <<guard, calls>>

\* A paused pool has no lease that would keep another from its directory.
DirectoryFreeUnchecked(d) == TRUE
DirectoryFree(d) == \A n \in Installed : pools[n].dir # d

Installable(o) == o.name \notin Installed /\ Found(sq, o.name) = NoVfs /\ DirectoryFree(o.dir)

\* A conflict, mismatch or busy pool.  Looking the name up initialized SQLite.
InstallRefused(t, o) ==
    /\ Enter(t) /\ ~Reusable(o) /\ ~Installable(o)
    /\ sq' = Initialize(sq).q
    /\ Ends(t)
    /\ UNCHANGED <<pools, guard, calls>>

\* OpfsSAHPool::new, which awaits, begins under the guard.
InstallOpens(t, o) ==
    /\ Enter(t) /\ Installable(o)
    /\ sq' = Initialize(sq).q
    /\ guard' = t
    /\ call' = [call EXCEPT ![t] = Call("opening", o)]
    /\ UNCHANGED <<pools, calls>>

\* register_vfs: looks the name up again and registers without an await.
RegistrationAsDefault(o) ==
    IF Found(sq, o.name) # NoVfs THEN Answer(FALSE, Initialize(sq).q)
    ELSE Register(sq, PoolVfs(o.name), TRUE)
Registration(o) ==
    IF Found(sq, o.name) # NoVfs THEN Answer(FALSE, Initialize(sq).q)
    ELSE Register(sq, PoolVfs(o.name), o.default)

Release(t) == guard' = IF guard = t THEN NoTask ELSE guard

InstallRegisters(t) ==
    LET o == call[t].options
        r == Registration(o)
    IN  /\ call[t].pc = "opening"
        /\ sq' = r.q
        /\ pools' = IF r.ok THEN [pools EXCEPT ![o.name] = Pool(o.dir, o.default)] ELSE pools
        /\ Release(t) /\ Ends(t)
        /\ UNCHANGED calls

\* A step of new fails, or the future is dropped at an await.
InstallStopsKeepingGuard(t) ==
    /\ call[t] # NoCall
    /\ Ends(t)
    /\ UNCHANGED <<sq, pools, guard, calls>>
InstallStops(t) ==
    /\ call[t] # NoCall
    /\ Release(t) /\ Ends(t)
    /\ UNCHANGED <<sq, pools, calls>>

-----------------------------------------------------------------------------
(* Operations of an installed pool *)

Pause(n) ==
    LET r == Unregister(sq, PoolVfs(n))
    IN  /\ NotBusy(n) /\ pools[n].state = "Active"
        /\ sq' = r.q
        /\ pools' = IF r.ok
                    THEN [pools EXCEPT ![n].state = "Paused",
                                       ![n].held = Default(Initialize(sq).q) = PoolVfs(n)]
                    ELSE pools
        /\ UNCHANGED <<call, guard, calls>>

ResumeBegin(n) ==
    /\ NotBusy(n) /\ pools[n].state = "Paused"
    /\ sq' = Initialize(sq).q
    /\ pools' = [pools EXCEPT ![n].busy = NameFree(n)]
    /\ UNCHANGED <<call, guard, calls>>

\* The handles are here; the name is looked up again.
ResumeRegisters(n) ==
    LET r == Register(sq, PoolVfs(n), pools[n].make_default)
    IN  /\ n \in Installed /\ pools[n].busy /\ NameFree(n)
        /\ sq' = r.q
        /\ pools' = [pools EXCEPT ![n].busy = FALSE, ![n].state = IF r.ok THEN "Active" ELSE @,
                                     ![n].held = @ /\ ~r.ok]
        /\ UNCHANGED <<call, guard, calls>>

\* A conflict, an acquisition that failed, or a future that was dropped.
ResumeStops(n) ==
    /\ n \in Installed /\ pools[n].busy
    /\ sq' \in {sq, Initialize(sq).q}
    /\ pools' = [pools EXCEPT ![n].busy = FALSE]
    /\ UNCHANGED <<call, guard, calls>>

\* The registration is freed only when SQLite has let go of it.
UninstallUnchecked(n) ==
    /\ NotBusy(n)
    /\ sq' = Unregister(sq, PoolVfs(n)).q
    /\ pools' = [pools EXCEPT ![n] = NoPool]
    /\ UNCHANGED <<call, guard, calls>>
Uninstall(n) ==
    LET r == Unregister(sq, PoolVfs(n))
    IN  /\ NotBusy(n)
        /\ sq' = r.q
        /\ pools' = IF r.ok THEN [pools EXCEPT ![n] = NoPool] ELSE pools
        /\ UNCHANGED <<call, guard, calls>>

-----------------------------------------------------------------------------
(* The application, SQLite and other code *)

\* What the application can do to the list without a pool.
OtherCall ==
    \/ \E default \in BOOLEAN : sq' = MemInstall(sq, default).q
    \/ sq' = MemUninstall(sq).q
    \/ sq' = Initialize(sq).q
    \/ sq' = Shutdown(sq)

\* sqlite3_vfs_unregister on a VFS that memvfs or a pool owns.
RawUnregister ==
    \E v \in {sq.mem} \cup {PoolVfs(n) : n \in Installed} :
        v # NoVfs /\ sq' = Unregister(sq, v).q

\* Other code takes a free name, and gives back its own.
ForeignCode ==
    \E n \in ForeignNames :
        \/ \E default \in BOOLEAN :
            /\ Found(sq, n) = NoVfs
            /\ sq' = Register(sq, Foreign(n), default).q
        \/ Registered(sq, Foreign(n)) /\ sq' = Unregister(sq, Foreign(n)).q

Environment ==
    /\ OtherCall \/ RawUnregister \/ ForeignCode
    /\ UNCHANGED <<pools, call, guard, calls>>

-----------------------------------------------------------------------------
Init ==
    /\ sq = Library
    /\ pools = [n \in PoolNames |-> NoPool]
    /\ call = [t \in Tasks |-> NoCall]
    /\ guard = NoTask
    /\ calls = 0

Next ==
    \/ \E t \in Tasks : InstallCall(t) \/ InstallRegisters(t) \/ InstallStops(t)
    \/ \E t \in Tasks, o \in Options :
            InstallReuses(t, o) \/ InstallRefused(t, o) \/ InstallOpens(t, o)
    \/ \E n \in PoolNames :
            Pause(n) \/ ResumeBegin(n) \/ ResumeRegisters(n) \/ ResumeStops(n) \/ Uninstall(n)
    \/ Environment

Spec == Init /\ [][Next]_vars

-----------------------------------------------------------------------------
(* Properties *)

Vfss == {Mem, Memdb} \cup {PoolVfs(n) : n \in PoolNames} \cup {Foreign(n) : n \in ForeignNames}

\* Every variable has a value of its kind, and the guard is with the task that
\* opens a pool: an install that fails or is cancelled leaves it to the next.
TypeOK ==
    /\ sq.list \in Seq(Vfss) /\ sq.init \in BOOLEAN /\ sq.mem \in {NoVfs, Mem}
    /\ pools \in [PoolNames -> {NoPool} \cup
                    [state : {"Active", "Paused"}, dir : Directories,
                     make_default : BOOLEAN, busy : BOOLEAN, held : BOOLEAN]]
    /\ call \in [Tasks -> {NoCall, Waiting} \cup {Call("opening", o) : o \in Options}]
    /\ \A t \in Tasks : call[t].pc = "opening" <=> guard = t
    /\ calls \in 0..MaxCalls

Live == {Memdb, sq.mem} \cup {PoolVfs(n) : n \in Installed} \cup {Foreign(n) : n \in ForeignNames}

\* Whatever fails, SQLite's list holds no VFS whose memory was freed
\* (lib.rs unregister, memvfs.rs uninstall, sahpool.rs uninstall).
NoFreedVfsInList == ToSet(sq.list) \subseteq Live

\* No two registered VFSs have one name, so that none is shadowed, although
\* install and resume look the name up long before they use it.
NamesAreUnique ==
    \A i, j \in DOMAIN sq.list : sq.list[i].name = sq.list[j].name => i = j

\* A directory has one pool, also while it is paused and holds no lease
\* (sahpool.rs install, "Each directory has one owner per worker").
OnePoolPerDirectory ==
    \A m, n \in Installed : pools[m].dir = pools[n].dir => m = n

\* SQLite can reach a pool only while the pool has its slots (pause, resume,
\* and install's reuse of a paused pool).
ListedPoolsAreActive ==
    \A n \in Installed : Registered(sq, PoolVfs(n)) => pools[n].state = "Active"

\* A pool takes the default from a VFS that stays only if some install asked
\* for that: default_vfs = FALSE promotes nothing, then or on resume.
PromotionIsAsked ==
    [][\A n \in PoolNames :
        Default(sq') = PoolVfs(n) /\ Default(sq) # PoolVfs(n) =>
            pools'[n].make_default \/ ~Registered(sq', Default(sq))]_vars

\* resume "restores [...] default-VFS status" (sahpool.rs:1704): a pool that
\* was not the default when it was paused, and that no install promoted since,
\* does not take that place from another VFS.
ResumeRestoresDefault ==
    [][\A n \in Installed :
        pools[n].busy /\ ~pools[n].held /\ Default(sq') = PoolVfs(n)
            => ~Registered(sq', Default(sq))]_vars

=============================================================================
