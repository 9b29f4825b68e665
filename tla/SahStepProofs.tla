--------------------------- MODULE SahStepProofs ---------------------------
(***************************************************************************)
(* Proofs of what no step of SahPool may do: remove a named entry, publish *)
(* over foreign code's VFS, leak a slot, or touch the header of an open    *)
(* file or anything of an exported one.                                    *)
(***************************************************************************)
EXTENDS SahImageProofs

-----------------------------------------------------------------------------
(* Entries *)

\* Only remove_entry takes an entry out of the directory.
LEMMA EntriesStay ==
    ASSUME [Next]_vars
    PROVE  \/ present \subseteq present'
           \/ ReduceContinues \/ ReduceFinishes \/ AddRemoves
           \/ \E s \in Slots : RemovalLands(s)
  <1>1. CASE SQLite
    BY <1>1 DEF SQLite, Write, Truncate, Sync, CloseFile, OpenExisting, OpenNew, OpenNewFails, disk
  <1>2. CASE Management
    BY <1>2 DEF Management, DeleteFile, ClearAll, ClearFails, Pause, Uninstall, disk
  <1>3. CASE Transfer
    BY <1>3 DEF Transfer, CreateImport, OpenExport, ImportWrite, ImportCommit,
                ImportCommitFails, ImportAbort, ExportDrop, disk
  <1>4. CASE Acquisition
    BY <1>4 DEF Acquisition, ResumeBegin, InstallBegin, AcquireLease, AcquireSlot, SettleFails,
                ResumePublishes, ResumeConflicts, InstallGrows, InstallPublishes,
                InstallConflicts, Settle, disk
  <1>5. CASE Resizing
    BY <1>5 DEF Resizing, AddBegin, ReduceBegin, AddCreate, AddCollides, AddContinues,
                AddFinishes, InstallFinishes, InstallFinishConflicts, AddInitializeFails,
                OperationFails, RemovalFails, disk
  <1>6. CASE Environment
    BY <1>6 DEF Environment, ForeignVfs, WorkerDies, LosePower, ForgetMemory, disk
  <1>7. CASE UNCHANGED vars
    BY <1>7 DEF vars, disk
  <1>. QED  BY <1>1, <1>2, <1>3, <1>4, <1>5, <1>6, <1>7 DEF Next

\* No removal, awaited or left to the browser, takes away an entry that bears a
\* name: reduce_capacity's slots and those of failed initializations have none.
THEOREM RemovalsSpareNames == Spec => NamedSlotsAreNotRemoved
  <1>1. ASSUME PoolInv, ImageInv, [Next]_vars, NEW s \in present \ present'
        PROVE  NamesOn(s) = {}
    <2>1. CASE ReduceContinues \/ ReduceFinishes \/ AddRemoves
      <3>1. op.pc = "remove" /\ RemoveEntry(op.slot)
        BY <1>1, <2>1 DEF ReduceContinues, ReduceFinishes, AddRemoves, PoolInv, OperationShape
      <3>2. s = op.slot
        BY <1>1, <3>1 DEF RemoveEntry
      <3>. QED  BY <1>1, <3>1, <3>2, RemovedSlotIsNameless
    <2>2. CASE \E t \in Slots : RemovalLands(t)
      BY <1>1, <2>2 DEF RemovalLands, RemoveEntry, ImageInv, DiskImages, DyingAreNameless
    <2>. QED  BY <1>1, <2>1, <2>2, EntriesStay
  <1>2. PoolInv /\ ImageInv /\ [Next]_vars => [\A s \in present \ present' : NamesOn(s) = {}]_vars
    BY <1>1
  <1>. QED  BY <1>2, ImageInvariant, PTL DEF Spec, NamedSlotsAreNotRemoved

-----------------------------------------------------------------------------
(* The VFS name *)

\* resume and install look again, after their last await, whether foreign code
\* has registered a VFS under the pool's name.
THEOREM ForeignVfsStays == Spec => ForeignVfsIsNotShadowed
  <1>1. ASSUME [Next]_vars, registry = "foreign"
        PROVE  registry' # "pool"
    <2>1. CASE SQLite
      BY <1>1, <2>1 DEF SQLite, Write, Truncate, Sync, CloseFile, OpenExisting, OpenNew, OpenNewFails
    <2>2. CASE Management
      BY <1>1, <2>2 DEF Management, DeleteFile, ClearAll, ClearFails, Pause, Uninstall
    <2>3. CASE Transfer
      BY <1>1, <2>3 DEF Transfer, CreateImport, OpenExport, ImportWrite, ImportCommit,
                        ImportCommitFails, ImportAbort, ExportDrop
    <2>4. CASE Acquisition
      BY <1>1, <2>4 DEF Acquisition, ResumeBegin, InstallBegin, AcquireLease, AcquireSlot,
                        SettleFails, ResumePublishes, ResumeConflicts, InstallGrows,
                        InstallPublishes, InstallConflicts, NameFree
    <2>5. CASE Resizing
      BY <1>1, <2>5 DEF Resizing, AddBegin, ReduceBegin, AddCreate, AddCollides, AddContinues,
                        AddFinishes, InstallFinishes, InstallFinishConflicts,
                        AddInitializeFails, AddRemoves, ReduceContinues, ReduceFinishes,
                        OperationFails, RemovalFails, NameFree
    <2>6. CASE Environment
      BY <1>1, <2>6 DEF Environment, RemovalLands, ForeignVfs, WorkerDies, LosePower, ForgetMemory
    <2>7. CASE UNCHANGED vars
      BY <1>1, <2>7 DEF vars
    <2>. QED  BY <1>1, <2>1, <2>2, <2>3, <2>4, <2>5, <2>6, <2>7 DEF Next
  <1>2. [Next]_vars => [registry = "foreign" => registry' # "pool"]_vars
    BY <1>1
  <1>. QED  BY <1>2, PTL DEF Spec, ForeignVfsIsNotShadowed

-----------------------------------------------------------------------------
(* Open files *)

\* Whoever holds a file open keeps clear, pause, uninstall, resume and install out.
LEMMA FileOpenFacts ==
    ASSUME PoolInv, ImageInv, NEW h \in Handles, handle[h] # Closed
    PROVE  /\ ~CheckClosed /\ state = "Active" /\ op.kind \notin {"resume", "install"}
           /\ op.pc # "slots"
           /\ handle[h].slot \in Slots /\ handle[h].slot \in Held
           /\ handle[h].slot \notin Range(available)
  <1>1. ~CheckClosed /\ op.kind \notin {"resume", "install"}
    BY ClosedFacts, AcquiringFacts
  <1>2. op.pc # "slots"
    BY <1>1, IdleFacts DEF PoolInv, OperationShape, TypeOK, Operations, OpKinds
  <1>. QED  BY <1>1, <1>2, OpenFileFacts, StackFacts

\* The header of an open file's slot under each kind of step.
LEMMA CallbackKeepsHeader ==
    ASSUME PoolInv, ImageInv, SQLite, NEW h \in Handles, handle[h] # Closed, handle'[h] = handle[h]
    PROVE  file'[handle[h].slot].hdr = file[handle[h].slot].hdr
  <1>1. PICK s \in Slots : s = handle[h].slot
    BY OpenFileFacts
  <1>2. file \in [Slots -> Images] /\ s \notin Range(available)
    BY <1>1, ImageTypes, FileOpenFacts
  <1>3. ASSUME NEW g \in Handles, Write(g) \/ Truncate(g)
        PROVE  file'[s].hdr = file[s].hdr
    BY <1>2, <1>3 DEF Write, Truncate, Images
  <1>4. ASSUME NEW g \in Handles, Sync(g)
        PROVE  file'[s].hdr = file[s].hdr
    BY <1>2, <1>4 DEF Sync, Flush, Outcome, SetImages
  <1>5. ASSUME NEW g \in Handles, CloseFile(g)
        PROVE  file'[s].hdr = file[s].hdr
    <2>1. g # h
      BY <1>5 DEF CloseFile, PoolInv, TypeOK
    <2>2. PICK n, d : \/ RemoveFile(n, d) /\ map[n] # s
                      \/ \E o \in Flush(file[handle[g].slot], durable[handle[g].slot]) :
                            SetImages(handle[g].slot, o)
      BY <1>1, <1>5, <2>1 DEF CloseFile
    <2>3. CASE RemoveFile(n, d) /\ map[n] # s
      BY <1>2, <2>3 DEF RemoveFile
    <2>4. CASE \E o \in Flush(file[handle[g].slot], durable[handle[g].slot]) :
                  SetImages(handle[g].slot, o)
      BY <1>2, <2>4 DEF Flush, Outcome, SetImages
    <2>. QED  BY <2>2, <2>3, <2>4
  <1>6. ASSUME NEW g \in Handles, NEW n \in Names, NEW d \in BOOLEAN, OpenExisting(g, n, d)
        PROVE  file'[s].hdr = file[s].hdr
    BY <1>6 DEF OpenExisting, disk
  <1>7. ASSUME NEW n \in Names, NEW k \in FileKinds,
               OpenNewFails(n, k) \/ \E g \in Handles : OpenNew(g, n, k)
        PROVE  file'[s].hdr = file[s].hdr
    <2>1. CheckActive /\ available # <<>>
      BY <1>7 DEF OpenNew, OpenNewFails, CanCreate
    <2>2. Last(available) # s
      BY <1>2, <2>1, ActiveFacts, TopFacts
    <2>. QED  BY <1>2, <1>7, <2>2 DEF OpenNew, OpenNewFails, CleanUp, SetImages
  <1>. QED  BY <1>1, <1>3, <1>4, <1>5, <1>6, <1>7 DEF SQLite

\* Calls that clear, pause or acquire find no open file; the others write elsewhere.
LEMMA CallKeepsHeader ==
    ASSUME PoolInv, ImageInv, Management \/ Transfer \/ Acquisition,
           NEW h \in Handles, handle[h] # Closed, handle'[h] = handle[h]
    PROVE  file'[handle[h].slot].hdr = file[handle[h].slot].hdr
  <1>1. PICK s \in Slots : s = handle[h].slot
    BY OpenFileFacts
  <1>2. /\ file \in [Slots -> Images] /\ s \notin Range(available)
        /\ ~CheckClosed /\ op.kind \notin {"resume", "install"} /\ op.pc # "slots"
    BY <1>1, ImageTypes, FileOpenFacts
  <1>3. CASE Management
    <2>1. ASSUME NEW n \in Names, DeleteFile(n)
          PROVE  file'[s].hdr = file[s].hdr
      <3>1. map[n] # s
        BY <1>1, <2>1 DEF DeleteFile, OpenOn
      <3>. QED  BY <1>2, <2>1, <3>1 DEF DeleteFile, RemoveFile
    <2>. QED  BY <1>1, <1>2, <1>3, <2>1
              DEF Management, ClearAll, ClearFails, CanClear, Pause, Uninstall, disk
  <1>4. CASE Transfer
    <2>1. CASE ImportCommit \/ ImportCommitFails \/ ImportAbort \/ \E x \in Contents : ImportWrite(x)
      <3>1. op.kind = "import"
        BY <2>1 DEF ImportCommit, ImportCommitFails, ImportAbort, ImportWrite
      <3>2. op.slot # s
        BY <1>2, <3>1, ImportFacts
      <3>. QED  BY <1>1, <1>2, <2>1, <3>2
                DEF ImportCommit, ImportCommitFails, ImportAbort, ImportWrite, CleanUp, SetImages
    <2>. QED  BY <1>1, <1>4, <2>1 DEF Transfer, CreateImport, OpenExport, ExportDrop, disk
  <1>5. CASE Acquisition
    BY <1>1, <1>2, <1>5
       DEF Acquisition, ResumeBegin, InstallBegin, AcquireLease, AcquireSlot, SettleFails,
           CanSettle, ResumePublishes, ResumeConflicts, InstallGrows, InstallPublishes,
           InstallConflicts, disk
  <1>. QED  BY <1>3, <1>4, <1>5

\* Resizing and late removals touch only slots that no handle can be on.
LEMMA ResizeKeepsHeader ==
    ASSUME PoolInv, ImageInv, Resizing \/ Environment,
           NEW h \in Handles, handle[h] # Closed, handle'[h] = handle[h]
    PROVE  file'[handle[h].slot].hdr = file[handle[h].slot].hdr
  <1>1. PICK s \in Slots : s = handle[h].slot
    BY OpenFileFacts
  <1>2. file \in [Slots -> Images] /\ s \in Held
    BY <1>1, ImageTypes, FileOpenFacts
  <1>3. ASSUME AddEmptyFile, NEW o, SetImages(op.slot, o)
        PROVE  file'[s] = file[s]
    BY <1>2, <1>3 DEF AddEmptyFile, AddAcquirable, SetImages
  <1>4. ASSUME op.pc = "remove", RemoveEntry(op.slot)
        PROVE  file'[s] = file[s]
    BY <1>2, <1>4, RemovalFacts DEF RemoveEntry
  <1>5. CASE Resizing
    <2>1. CASE AddContinues \/ AddFinishes \/ InstallFinishes \/ InstallFinishConflicts
               \/ AddInitializeFails
      <3>1. AddEmptyFile /\ \E o : SetImages(op.slot, o)
        BY <2>1 DEF AddContinues, AddFinishes, InstallFinishes, InstallFinishConflicts,
                    AddInitializeFails, AddInitialized
      <3>. QED  BY <1>1, <1>3, <3>1
    <2>2. CASE AddRemoves \/ ReduceContinues \/ ReduceFinishes
      <3>1. op.pc = "remove" /\ RemoveEntry(op.slot)
        BY <2>2 DEF ReduceContinues, ReduceFinishes, AddRemoves, PoolInv, OperationShape
      <3>. QED  BY <1>1, <1>4, <3>1
    <2>. QED  BY <1>1, <1>5, <2>1, <2>2
              DEF Resizing, AddBegin, ReduceBegin, AddCreate, AddCollides, OperationFails,
                  RemovalFails, disk
  <1>6. CASE Environment
    <2>1. ASSUME NEW t \in Slots, RemovalLands(t)
          PROVE  file'[s].hdr = file[s].hdr
      BY <1>2, <2>1, ImageTypes DEF RemovalLands, RemoveEntry
    <2>2. CASE \E hs, ds \in SUBSET Slots : LosePower(hs, ds)
      BY <2>2 DEF LosePower, ForgetMemory
    <2>. QED  BY <1>1, <1>6, <2>1, <2>2 DEF Environment, ForeignVfs, WorkerDies, disk
  <1>. QED  BY <1>5, <1>6

\* While SQLite holds a file open, no callback on another file, management call,
\* transfer or failure rewrites the header of its slot.
THEOREM OpenHeadersStay == Spec => OpenFilesKeepTheirHeader
  <1>1. ASSUME PoolInv, ImageInv, [Next]_vars, NEW h \in Handles, handle[h] # Closed,
               handle'[h] = handle[h]
        PROVE  file'[handle[h].slot].hdr = file[handle[h].slot].hdr
    BY <1>1, CallbackKeepsHeader, CallKeepsHeader, ResizeKeepsHeader DEF Next, vars, disk
  <1>2. PoolInv /\ ImageInv /\ [Next]_vars =>
            [\A h \in Handles :
                handle[h] # Closed /\ handle'[h] = handle[h] =>
                    file'[handle[h].slot].hdr = file[handle[h].slot].hdr]_vars
    BY <1>1
  <1>. QED  BY <1>2, ImageInvariant, PTL DEF Spec, OpenFilesKeepTheirHeader

-----------------------------------------------------------------------------
(* Exports *)

\* The file being exported is not open: open_export refuses an open file, and
\* while the export is busy open_file is refused.
ExportIsClosed ==
    op.kind = "export" => \A h \in Handles : handle[h].slot # op.slot

\* The steps that leave an export in progress.
LEMMA ExportSteps ==
    ASSUME PoolInv, [Next]_vars, op'.kind = "export"
    PROVE  \/ \E n \in Names : OpenExport(n)
           \/ op' = op /\ \/ \E h \in Handles : Write(h) \/ Truncate(h) \/ Sync(h) \/ CloseFile(h)
                          \/ \E s \in Slots : RemovalLands(s)
                          \/ ForeignVfs
                          \/ UNCHANGED vars
  <1>1. CASE SQLite
    BY <1>1 DEF SQLite, Write, Truncate, Sync, CloseFile, OpenExisting, OpenNew, OpenNewFails,
                CanCreate, CheckActive, Busy
  <1>2. CASE Management
    BY <1>2 DEF Management, DeleteFile, ClearAll, ClearFails, CanClear, CheckActive, Pause,
                Uninstall, Busy
  <1>3. CASE Transfer
    <2>1. ASSUME NEW n \in Names, CreateImport(n)
          PROVE  op'.kind = "import"
      BY <2>1 DEF CreateImport, BeginTransfer, Operation
    <2>2. ASSUME NEW x \in Contents, ImportWrite(x)
          PROVE  op'.kind = "import"
      BY <2>2 DEF ImportWrite
    <2>3. CASE ImportCommit \/ ImportCommitFails \/ ImportAbort \/ ExportDrop
      BY <2>3, IdleFacts DEF ImportCommit, ImportCommitFails, ImportAbort, ExportDrop, EndOperation
    <2>. QED  BY <1>3, <2>1, <2>2, <2>3 DEF Transfer
  <1>4. CASE Acquisition
    <2>1. CASE ResumeBegin \/ \E clear \in BOOLEAN : InstallBegin(clear)
      BY <2>1 DEF ResumeBegin, InstallBegin, BeginAcquiring, Operation
    <2>2. CASE AcquireLease \/ (\E s \in Slots : AcquireSlot(s)) \/ InstallGrows
      <3>1. op.pc \in {"lease", "slots"} /\ op'.kind = op.kind
        BY <2>2 DEF AcquireLease, AcquireSlot, InstallGrows, Settle, CanSettle, PoolInv, TypeOK,
                    Operations
      <3>. QED  BY <3>1 DEF PoolInv, OperationShape
    <2>3. CASE \/ \E done \in SUBSET Slots, bad \in Slots : SettleFails(done, bad)
               \/ ResumePublishes \/ ResumeConflicts \/ InstallPublishes \/ InstallConflicts
      BY <2>3, IdleFacts DEF SettleFails, ResumePublishes, ResumeConflicts, InstallPublishes,
                             InstallConflicts, EndOperation
    <2>. QED  BY <1>4, <2>1, <2>2, <2>3 DEF Acquisition
  <1>5. CASE Resizing
    <2>1. CASE \E n \in 1..MaxChange : AddBegin(n) \/ ReduceBegin(n)
      BY <2>1 DEF AddBegin, ReduceBegin, PopForRemoval, Operation
    <2>2. CASE ReduceContinues
      BY <2>2 DEF ReduceContinues, PopForRemoval, Operation
    <2>3. CASE (\E s \in Slots : AddCreate(s)) \/ AddCollides \/ AddContinues \/ AddInitializeFails
      <3>1. op.pc \in {"create", "acquire"} /\ op'.kind = op.kind
        BY <2>3 DEF AddCreate, AddCollides, AddContinues, AddInitializeFails, AddInitialized,
                    AddEmptyFile, AddAcquirable, PoolInv, TypeOK, Operations
      <3>. QED  BY <3>1 DEF PoolInv, OperationShape
    <2>4. CASE \/ AddFinishes \/ InstallFinishes \/ InstallFinishConflicts \/ AddRemoves
               \/ ReduceFinishes \/ OperationFails \/ RemovalFails
      BY <2>4, IdleFacts DEF AddFinishes, InstallFinishes, InstallFinishConflicts, AddRemoves,
                             ReduceFinishes, OperationFails, RemovalFails, Unwind, EndOperation
    <2>. QED  BY <1>5, <2>1, <2>2, <2>3, <2>4 DEF Resizing
  <1>6. CASE Environment
    BY <1>6, IdleFacts DEF Environment, RemovalLands, ForeignVfs, WorkerDies, LosePower,
                           ForgetMemory
  <1>7. CASE UNCHANGED vars
    BY <1>7 DEF vars
  <1>. QED  BY <1>1, <1>2, <1>3, <1>4, <1>5, <1>6, <1>7 DEF Next

\* No step opens a file under an export.
LEMMA ExportStaysClosed ==
    ASSUME PoolInv, ExportIsClosed, [Next]_vars
    PROVE  ExportIsClosed'
  <1>1. SUFFICES ASSUME op'.kind = "export", NEW h \in Handles
                 PROVE  handle'[h].slot # op'.slot
    BY DEF ExportIsClosed
  <1>2. ASSUME NEW n \in Names, OpenExport(n)
        PROVE  handle'[h].slot # op'.slot
    BY <1>2 DEF OpenExport, BeginTransfer, Operation, OpenOn
  <1>3. CASE op' = op
    <2>1. op.kind = "export" /\ handle[h].slot # op.slot /\ op.slot \in Slots
      BY <1>1, <1>3 DEF ExportIsClosed, PoolInv, OperationShape
    <2>2. handle'[h] = handle[h] \/ handle'[h] = Closed
      BY <1>1, <1>3, <2>1, ExportSteps
         DEF OpenExport, CheckActive, Busy, Write, Truncate, Sync, CloseFile, RemovalLands, ForeignVfs, vars,
             PoolInv, TypeOK
    <2>. QED  BY <1>3, <2>1, <2>2, SlotAssumption DEF Closed
  <1>. QED  BY <1>1, <1>2, <1>3, ExportSteps

\* An export reads one version of its file: callbacks on other files, removals
\* that land late and foreign code leave its slot as it is until it is dropped.
THEOREM ExportsAreStable == Spec => ExportIsStable
  <1>1. Init => ExportIsClosed
    BY IdleFacts DEF Init, ExportIsClosed
  <1>2. Spec => []ExportIsClosed
    <2>1. PoolInv /\ ExportIsClosed /\ [Next]_vars => ExportIsClosed'
      BY ExportStaysClosed
    <2>. QED  BY <1>1, <2>1, PoolInvariant, PTL DEF Spec
  <1>3. ASSUME PoolInv, ExportIsClosed, [Next]_vars, op.kind = "export", op'.kind = "export"
        PROVE  file'[op.slot] = file[op.slot]
    <2>1. PICK s \in Slots : s = op.slot
      BY <1>3 DEF PoolInv, OperationShape
    <2>2. /\ \A h \in Handles : handle[h].slot # s
          /\ file \in [Slots -> Images] /\ s \in Held /\ ~CheckActive
      <3>1. op.name \in Names /\ map[op.name] = s
        BY <1>3, <2>1 DEF PoolInv, OperationShape, ReservationsHold
      <3>2. s \in Assigned
        BY <3>1, SlotAssumption DEF Assigned, AssignedBy
      <3>3. s \in Held
        BY <3>2 DEF Held, Owned
      <3>. QED  BY <1>3, <2>1, <3>3 DEF ExportIsClosed, PoolInv, TypeOK, CheckActive, Busy
    <2>3. ASSUME NEW h \in Handles, Write(h) \/ Truncate(h) \/ Sync(h) \/ CloseFile(h)
          PROVE  file'[s] = file[s]
      BY <2>2, <2>3 DEF Write, Truncate, Sync, CloseFile, SetImages
    <2>4. ASSUME NEW t \in Slots, RemovalLands(t)
          PROVE  file'[s] = file[s]
      BY <1>3, <2>2, <2>4 DEF RemovalLands, RemoveEntry, PoolInv, OperationShape
    <2>5. ASSUME NEW n \in Names
          PROVE  ~OpenExport(n)
      BY <2>2 DEF OpenExport
    <2>. QED  BY <1>3, <2>1, <2>3, <2>4, <2>5, ExportSteps DEF ForeignVfs, vars, disk
  <1>4. PoolInv /\ ExportIsClosed /\ [Next]_vars =>
            [op.kind = "export" /\ op'.kind = "export" => file'[op.slot] = file[op.slot]]_vars
    BY <1>3
  <1>. QED  BY <1>2, <1>4, PoolInvariant, PTL DEF Spec, ExportIsStable

-----------------------------------------------------------------------------
(* Held slots *)

\* Nothing but the three collections makes a slot owned.
LEMMA SameOwned ==
    ASSUME UNCHANGED <<available, map, quarantined>>
    PROVE  Owned' = Owned
  BY DEF Owned, Assigned, AssignedBy

\* delete_file moves a slot from the map to the stack, or leaves it mapped.
LEMMA RemoveFileKeepsSlots ==
    ASSUME PoolInv, NEW n \in Names, HasFilename(n), NEW d, RemoveFile(n, d)
    PROVE  Owned \subseteq Owned'
  <1>1. PICK s \in Slots : s = map[n]
    BY StackFacts DEF HasFilename, Assignments
  <1>2. CASE UNCHANGED <<available, map, quarantined>>
    BY <1>2, SameOwned
  <1>3. CASE /\ available' = Append(available, s) /\ map' = [map EXCEPT ![n] = NoSlot]
             /\ quarantined' = quarantined
    <2>1. Range(available') = Range(available) \cup {s}
      BY <1>3, StackFacts, PushFacts
    <2>2. Assigned \subseteq Assigned' \cup {s}
      BY <1>1, <1>3, StackFacts DEF Assigned, AssignedBy, Assignments
    <2>. QED  BY <1>3, <2>1, <2>2 DEF Owned
  <1>. QED  BY <1>1, <1>2, <1>3 DEF RemoveFile

\* A created or imported file's slot moves from the stack's top to the map.
LEMMA NamingKeepsSlots ==
    ASSUME PoolInv, available # <<>>, NEW n \in Names, map[n] = NoSlot,
           available' = Front(available), map' = [map EXCEPT ![n] = Last(available)],
           UNCHANGED quarantined
    PROVE  Owned \subseteq Owned'
  <1>1. PICK s \in Slots : s = Last(available)
    BY StackFacts, PopFacts
  <1>2. Range(available') = Range(available) \ {s}
    BY <1>1, StackFacts, PopFacts
  <1>3. Assigned \cup {s} \subseteq Assigned'
    BY <1>1, StackFacts, SlotAssumption DEF Assigned, AssignedBy, Assignments
  <1>. QED  BY <1>2, <1>3 DEF Owned

\* The slot of a failed create or import goes back to the stack or into quarantine.
LEMMA CleanUpKeepsSlots ==
    ASSUME PoolInv, available # <<>>, NEW s, NEW f, NEW d, CleanUp(s, f, d)
    PROVE  Owned \subseteq Owned'
  <1>1. CASE UNCHANGED <<available, map, quarantined>>
    BY <1>1, SameOwned
  <1>2. CASE /\ available' = Front(available) /\ map' = map
             /\ quarantined' = quarantined \cup {Last(available)}
    <2>1. Range(available') = Range(available) \ {Last(available)}
      BY <1>2, StackFacts, PopFacts
    <2>2. Assigned' = Assigned
      BY <1>2 DEF Assigned
    <2>. QED  BY <1>2, <2>1, <2>2 DEF Owned
  <1>. QED  BY <1>1, <1>2 DEF CleanUp

\* clear moves what it has emptied to the stack, whether or not it finishes.
LEMMA ClearKeepsSlots ==
    ASSUME PoolInv, NEW done, done \subseteq Assigned \cup quarantined,
           NEW q \in Orders(done), available' = available \o q,
           map' = [n \in Names |-> IF map[n] \in done THEN NoSlot ELSE map[n]],
           quarantined' = quarantined \ done
    PROVE  Owned \subseteq Owned'
  <1>1. done \subseteq Slots
    BY StackFacts DEF Held, Owned
  <1>2. Range(available') = Range(available) \cup done
    BY <1>1, StackFacts, OrderFacts, PushAllFacts, SlotAssumption, FS_Subset
  <1>3. Assigned \subseteq Assigned' \cup done
    BY StackFacts DEF Assigned, AssignedBy, Assignments
  <1>. QED  BY <1>2, <1>3 DEF Owned

\* The same for SQLite's callbacks, ...
LEMMA CallbacksKeepSlots ==
    ASSUME PoolInv, SQLite
    PROVE  Owned \subseteq Owned'
  <1>1. ASSUME NEW h \in Handles, Write(h) \/ Truncate(h) \/ Sync(h)
        PROVE  Owned \subseteq Owned'
    BY <1>1, SameOwned DEF Write, Truncate, Sync, pool
  <1>2. ASSUME NEW h \in Handles, CloseFile(h)
        PROVE  Owned \subseteq Owned'
    <2>1. CASE UNCHANGED pool
      BY <2>1, SameOwned DEF pool
    <2>2. ASSUME ~(UNCHANGED pool)
          PROVE  HasFilename(handle[h].name) /\ \E d : RemoveFile(handle[h].name, d)
      BY <1>2, <2>2 DEF CloseFile
    <2>3. handle[h].name \in Names
      BY <1>2 DEF CloseFile, PoolInv, OpenFilesStayPut
    <2>. QED  BY <2>1, <2>2, <2>3, RemoveFileKeepsSlots
  <1>3. ASSUME NEW h \in Handles, NEW n \in Names, NEW d \in BOOLEAN, OpenExisting(h, n, d)
        PROVE  Owned \subseteq Owned'
    BY <1>3, SameOwned DEF OpenExisting, pool
  <1>4. ASSUME NEW h \in Handles, NEW n \in Names, NEW k \in FileKinds, OpenNew(h, n, k)
        PROVE  Owned \subseteq Owned'
    BY <1>4, NamingKeepsSlots DEF OpenNew, CanCreate, HasFilename
  <1>5. ASSUME NEW n \in Names, NEW k \in FileKinds, OpenNewFails(n, k)
        PROVE  Owned \subseteq Owned'
    <2>1. available # <<>> /\ \E s, f, d : CleanUp(s, f, d)
      BY <1>5 DEF OpenNewFails, CanCreate
    <2>. QED  BY <2>1, CleanUpKeepsSlots
  <1>. QED  BY <1>1, <1>2, <1>3, <1>4, <1>5 DEF SQLite

\* ... for management calls on a pool that stays active, and for transfers.
LEMMA CallsKeepSlots ==
    ASSUME PoolInv, Management \/ Transfer, state' = "Active"
    PROVE  Owned \subseteq Owned'
  <1>1. ASSUME NEW n \in Names, DeleteFile(n)
        PROVE  Owned \subseteq Owned'
    BY <1>1, RemoveFileKeepsSlots DEF DeleteFile
  <1>2. CASE ClearAll
    <2>1. PICK S : S = Assigned \cup quarantined
      OBVIOUS
    <2>2. PICK q \in Orders(S) : available' = available \o q
      BY <1>2, <2>1 DEF ClearAll
    <2>3. map' = NoFiles /\ quarantined' = {}
      BY <1>2 DEF ClearAll
    <2>4. map' = [n \in Names |-> IF map[n] \in S THEN NoSlot ELSE map[n]]
      BY <2>1, <2>3, StackFacts DEF NoFiles, AssignedBy
    <2>5. quarantined' = quarantined \ S
      BY <2>1, <2>3
    <2>. QED  BY <2>1, <2>2, <2>4, <2>5, ClearKeepsSlots
  <1>3. ASSUME NEW done \in SUBSET Slots, NEW bad \in Slots, ClearFails(done, bad)
        PROVE  Owned \subseteq Owned'
    <2>1. /\ done \subseteq Assigned \cup quarantined
          /\ \E q \in Orders(done) : available' = available \o q
          /\ map' = [n \in Names |-> IF map[n] \in done THEN NoSlot ELSE map[n]]
          /\ quarantined' = quarantined \ done
      BY <1>3 DEF ClearFails
    <2>. QED  BY <2>1, ClearKeepsSlots
  <1>4. CASE Pause \/ Uninstall
    BY <1>4 DEF Pause, Uninstall
  <1>5. CASE ImportCommit
    <2>1. op.kind = "import" /\ available' = Front(available) /\ quarantined' = quarantined
          /\ map' = [map EXCEPT ![op.name] = Last(available)]
      BY <1>5 DEF ImportCommit
    <2>2. available # <<>> /\ op.name \in Names /\ map[op.name] = NoSlot
      BY <2>1, ImportFacts
    <2>. QED  BY <2>1, <2>2, NamingKeepsSlots
  <1>6. CASE ImportCommitFails \/ ImportAbort
    <2>1. op.kind = "import" /\ \E s, f, d : CleanUp(s, f, d)
      BY <1>6 DEF ImportCommitFails, ImportAbort
    <2>. QED  BY <2>1, ImportFacts, CleanUpKeepsSlots
  <1>7. CASE \/ \E n \in Names : CreateImport(n) \/ OpenExport(n)
             \/ \E x \in Contents : ImportWrite(x)
             \/ ExportDrop
    BY <1>7, SameOwned DEF CreateImport, OpenExport, ImportWrite, ExportDrop, pool
  <1>. QED  BY <1>1, <1>2, <1>3, <1>4, <1>5, <1>6, <1>7 DEF Management, Transfer

\* reduce_capacity gives up the one slot it goes on to remove.
LEMMA PopGivesUpOne ==
    ASSUME PoolInv, available # <<>>, NEW left, PopForRemoval(left), UNCHANGED <<map, quarantined>>
    PROVE  \A s \in Owned \ Owned' : op'.kind = "reduce" /\ op'.slot = s
  <1>1. Range(available') = Range(available) \ {Last(available)}
    BY StackFacts, PopFacts DEF PopForRemoval
  <1>2. Assigned' = Assigned
    BY DEF Assigned
  <1>3. op'.kind = "reduce" /\ op'.slot = Last(available)
    BY DEF PopForRemoval, Operation
  <1>. QED  BY <1>1, <1>2, <1>3 DEF Owned

\* A pool that stays active gives up a slot only to reduce_capacity.
LEMMA ResizingKeepsSlots ==
    ASSUME PoolInv, Resizing, state = "Active"
    PROVE  \A s \in Owned \ Owned' : op'.kind = "reduce" /\ op'.slot = s
  <1>1. op.kind # "install"
    BY DEF PoolInv, OperationShape
  <1>2. CASE \/ \E n \in 1..MaxChange : AddBegin(n)
             \/ \E s \in Slots : AddCreate(s)
             \/ AddCollides \/ AddContinues \/ AddInitializeFails \/ ReduceFinishes
    <2>1. UNCHANGED pool
      BY <1>2 DEF AddBegin, AddCreate, AddCollides, AddContinues, AddInitializeFails, ReduceFinishes
    <2>. QED  BY <2>1, SameOwned DEF pool
  <1>3. CASE AddRemoves \/ OperationFails \/ RemovalFails
    <2>1. UNCHANGED pool
      BY <1>1, <1>3 DEF AddRemoves, OperationFails, RemovalFails, Unwind
    <2>. QED  BY <2>1, SameOwned DEF pool
  <1>4. CASE AddFinishes
    <2>1. AddInitialized /\ AddPublishes /\ map' = map /\ quarantined' = quarantined
      BY <1>4 DEF AddFinishes
    <2>2. PICK new, q : new = op.got \cup {op.slot} /\ q \in Orders(new) /\ available' = available \o q
      BY <2>1 DEF AddPublishes
    <2>3. new \subseteq Slots
      BY <2>1, <2>2, InitializedFacts DEF PoolInv, TypeOK, Operations
    <2>4. Range(available') = Range(available) \cup new
      BY <2>2, <2>3, StackFacts, OrderFacts, PushAllFacts
    <2>. QED  BY <2>1, <2>4 DEF Owned, Assigned
  <1>5. ASSUME NEW n \in 1..MaxChange, ReduceBegin(n)
        PROVE  \A s \in Owned \ Owned' : op'.kind = "reduce" /\ op'.slot = s
    <2>1. available # <<>>
      BY <1>5, CapacityAssumption DEF ReduceBegin
    <2>. QED  BY <1>5, <2>1, PopGivesUpOne DEF ReduceBegin
  <1>6. CASE ReduceContinues
    <2>1. available # <<>>
      BY <1>6 DEF ReduceContinues, PoolInv, ReservationsHold, TypeOK, Operations
    <2>. QED  BY <1>6, <2>1, PopGivesUpOne DEF ReduceContinues
  <1>7. CASE InstallFinishes \/ InstallFinishConflicts
    BY <1>1, <1>7 DEF InstallFinishes, InstallFinishConflicts
  <1>. QED  BY <1>2, <1>3, <1>4, <1>5, <1>6, <1>7 DEF Resizing

\* No failure path loses track of a slot: as long as the pool stays active, a
\* slot leaves available_files, map_filename_to_file and quarantined_files only
\* as the one reduce_capacity is about to remove.
THEOREM SlotsStayOwned == Spec => SlotsAreNotLeaked
  <1>1. ASSUME PoolInv, [Next]_vars, state = "Active", state' = "Active",
               NEW s \in Owned \ Owned'
        PROVE  op'.kind = "reduce" /\ op'.slot = s
    <2>1. CASE Acquisition
      <3>1. op.kind \notin {"resume", "install"}
        BY <1>1 DEF PoolInv, OperationShape
      <3>2. op.pc \notin {"lease", "slots"}
        BY <1>1, <3>1, IdleFacts DEF PoolInv, OperationShape, TypeOK, Operations, OpKinds
      <3>. QED  BY <1>1, <2>1, <3>1, <3>2
                DEF Acquisition, ResumeBegin, InstallBegin, AcquireLease, AcquireSlot,
                    SettleFails, CanSettle, ResumePublishes, ResumeConflicts, InstallGrows,
                    InstallPublishes, InstallConflicts
    <2>2. CASE Environment
      <3>1. CASE \E hs, ds \in SUBSET Slots : LosePower(hs, ds)
        BY <1>1, <3>1 DEF LosePower, ForgetMemory
      <3>2. CASE WorkerDies
        BY <1>1, <3>2 DEF WorkerDies, ForgetMemory
      <3>3. CASE (\E t \in Slots : RemovalLands(t)) \/ ForeignVfs
        BY <1>1, <3>3, SameOwned DEF RemovalLands, ForeignVfs, pool
      <3>. QED  BY <2>2, <3>1, <3>2, <3>3 DEF Environment
    <2>3. CASE UNCHANGED vars
      BY <1>1, <2>3, SameOwned DEF vars, pool
    <2>. QED  BY <1>1, <2>1, <2>2, <2>3, CallbacksKeepSlots, CallsKeepSlots, ResizingKeepsSlots
              DEF Next
  <1>2. PoolInv /\ [Next]_vars =>
            [state = "Active" /\ state' = "Active" =>
                \A s \in Owned \ Owned' : op'.kind = "reduce" /\ op'.slot = s]_vars
    BY <1>1
  <1>. QED  BY <1>2, PoolInvariant, PTL DEF Spec, SlotsAreNotLeaked

=============================================================================
