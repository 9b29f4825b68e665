------------------------------- MODULE VfsList --------------------------------
(***************************************************************************)
(* SQLite's list of VFSs (sqlite3.c, os.c and main.c) and the memory VFS   *)
(* that sqlite3_os_init and sqlite3_os_end keep in it (src/shim.rs,        *)
(* crates/rsqlite-vfs/src/memvfs.rs).                                      *)
(*                                                                         *)
(* A call is an operator on the library's state q, a record:               *)
(*   list  the registered VFSs, the default first                          *)
(*   init  sqlite3GlobalConfig.isInit                                      *)
(*   mem   MEM_VFS, the allocation memvfs owns                             *)
(* and returns [ok, q], whether SQLITE_OK and the state after it.          *)
(***************************************************************************)
EXTENDS Naturals, Sequences, SequencesExt

\* Who allocated a VFS, and the name in it.  An owner has one VFS of a name.
Vfs(owner, name) == [owner |-> owner, name |-> name]
NoVfs == Vfs("nobody", "none")
Mem == Vfs("memvfs", "memvfs")
Memdb == Vfs("sqlite", "memdb")

Library == [list |-> <<>>, init |-> FALSE, mem |-> NoVfs]
Answer(ok, q) == [ok |-> ok, q |-> q]

-----------------------------------------------------------------------------
(* The list *)

\* vfsUnlink takes out the first occurrence.
Unlinked(list, v) ==
    LET at == {i \in DOMAIN list : list[i] = v}
    IN  IF at = {} THEN list ELSE RemoveAt(list, Min(at))

\* A VFS that is not to be the default goes behind the one that is.
Linked(list, v, makeDflt) ==
    LET rest == Unlinked(list, v)
    IN  IF makeDflt \/ rest = <<>> THEN <<v>> \o rest ELSE <<Head(rest), v>> \o Tail(rest)

Registered(q, v) == v \in ToSet(q.list)
Default(q) == IF q.list = <<>> THEN NoVfs ELSE Head(q.list)

\* The first VFS of this name.
Lookup(q, name) ==
    LET at == {i \in DOMAIN q.list : q.list[i].name = name}
    IN  IF at = {} THEN NoVfs ELSE q.list[Min(at)]

-----------------------------------------------------------------------------
(* memvfs::install and uninstall, once SQLite is or is being initialized *)

NotOurs(q) == Lookup(q, Mem.name) \notin {NoVfs, q.mem}

InstallMem(q, makeDflt) ==
    IF NotOurs(q) THEN Answer(FALSE, q)
    ELSE IF q.mem = NoVfs
    THEN Answer(TRUE, [q EXCEPT !.mem = Mem, !.list = Linked(@, Mem, makeDflt)])
    ELSE IF ~Registered(q, q.mem) \/ makeDflt
    THEN Answer(TRUE, [q EXCEPT !.list = Linked(@, q.mem, makeDflt)])
    ELSE Answer(TRUE, q)

UninstallMem(q) ==
    IF q.mem = NoVfs THEN Answer(~NotOurs(q), q)
    ELSE Answer(TRUE, [q EXCEPT !.list = Unlinked(@, q.mem), !.mem = NoVfs])

-----------------------------------------------------------------------------
(* SQLite's interface.  Every call but shutdown initializes the library. *)

\* sqlite3_os_init makes memvfs the default; then SQLite adds its own memdb.
Initialize(q) ==
    LET os == InstallMem(q, TRUE)
    IN  IF q.init THEN Answer(TRUE, q)
        ELSE IF ~os.ok THEN os
        ELSE Answer(TRUE, [os.q EXCEPT !.list = Linked(@, Memdb, FALSE), !.init = TRUE])

\* A call that needs the initialization answers so when it succeeds.
Initialized(q, answer) == IF Initialize(q).ok THEN answer ELSE Initialize(q)

\* sqlite3_shutdown ignores what sqlite3_os_end returns.
Shutdown(q) == IF q.init THEN [UninstallMem(q).q EXCEPT !.init = FALSE] ELSE q

Register(q, v, makeDflt) ==
    Initialized(q, Answer(TRUE, [Initialize(q).q EXCEPT !.list = Linked(@, v, makeDflt)]))
Unregister(q, v) ==
    Initialized(q, Answer(TRUE, [Initialize(q).q EXCEPT !.list = Unlinked(@, v)]))

\* sqlite3_vfs_find finds nothing when the library cannot be initialized.
Found(q, name) == IF Initialize(q).ok THEN Lookup(Initialize(q).q, name) ELSE NoVfs

MemInstall(q, makeDflt) == Initialized(q, InstallMem(Initialize(q).q, makeDflt))

MemUninstall(q) ==
    LET i == Initialize(q)
    IN  IF i.ok THEN UninstallMem(i.q) ELSE Answer(q.mem = NoVfs, q)

=============================================================================
