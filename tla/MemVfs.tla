-------------------------------- MODULE MemVfs --------------------------------
(***************************************************************************)
(* The memory VFS (crates/rsqlite-vfs/src/memvfs.rs): a flat namespace of  *)
(* files that SQLite's handles, exports and names share by reference, so   *)
(* that a file outlives its name while somebody uses it.                   *)
(***************************************************************************)
EXTENDS Transfer

CONSTANTS
    Names, Anonymous,
    Rcs, NoFile,        \* the files that may exist at once, a bound
    Handles, Imports, Exports,
    Images, Sizes,      \* what callers import, and the sizes they announce
    Buffers,            \* what connections write
    Offsets,            \* where they write and truncate
    Spoilt              \* the image of an export whose file was written to

ASSUME NameAssumption == Anonymous \notin Names
ASSUME FileAssumption == NoFile \notin Rcs
ASSUME ContentsAssumption ==
    Images \subseteq Seq(Nat) /\ Buffers \subseteq Seq(Nat) /\ Sizes \subseteq Nat /\ Offsets \subseteq Nat

VARIABLES
    files,      \* MemAppData::files: the file each name is bound to
    data,       \* the contents of each file; <<>> when nobody refers to it
    handles,    \* SQLite's open files
    imports,    \* DbImports, with the image their caller sends
    exports     \* DbExports
vars == <<files, data, handles, imports, exports>>

-----------------------------------------------------------------------------
(* Values *)

Closed == [file |-> NoFile]
NoTransfer == [file |-> NoFile]

\* The options SQLite's flags can say (OpenOptions::from_raw_flags).
OpenOptions ==
    {o \in [read_only : BOOLEAN, create : BOOLEAN, exclusive : BOOLEAN, delete_on_close : BOOLEAN] :
        /\ o.create => ~o.read_only
        /\ o.exclusive \/ o.delete_on_close => o.create}

Open(h) == handles[h] # Closed
Referenced ==
    {files[n] : n \in Names} \cup {handles[h].file : h \in Handles} \cup {exports[e].file : e \in Exports}

\* A file nobody refers to, for a new Rc.
Unused == Rcs \ Referenced
NewFile == CHOOSE f \in Unused : TRUE

\* The contents d, after what nobody refers to any more is freed.
Kept(d) == data' = [f \in Rcs |-> IF f \in Referenced' THEN d[f] ELSE <<>>]

-----------------------------------------------------------------------------
(* SQLite's callbacks *)

Bind(h, f, n, o) ==
    handles' = [handles EXCEPT ![h] =
        [file |-> f, name |-> n, read_only |-> o.read_only, delete_on_close |-> o.delete_on_close]]

OpenAnonymous(h, o) ==
    /\ ~Open(h) /\ Unused # {}
    /\ Bind(h, NewFile, Anonymous, o)
    /\ UNCHANGED <<files, data, imports, exports>>

OpenExisting(h, n, o) ==
    /\ ~Open(h) /\ files[n] # NoFile /\ ~o.exclusive
    /\ Bind(h, files[n], n, o)
    /\ UNCHANGED <<files, data, imports, exports>>

OpenNew(h, n, o) ==
    /\ ~Open(h) /\ files[n] = NoFile /\ o.create /\ Unused # {}
    /\ files' = [files EXCEPT ![n] = NewFile]
    /\ Bind(h, NewFile, n, o)
    /\ UNCHANGED <<data, imports, exports>>

\* An export of this file is no longer of the contents it began with.
Spoils(f) ==
    exports' = [e \in Exports |->
        IF exports[e].file = f THEN [exports[e] EXCEPT !.image = Spoilt] ELSE exports[e]]

Write(h, buf, offset) ==
    LET f == handles[h].file
    IN  /\ Open(h) /\ ~handles[h].read_only
        /\ data' = [data EXCEPT ![f] = Overlaid(@, buf, offset)]
        /\ Spoils(f)
        /\ UNCHANGED <<files, handles, imports>>

Truncate(h, size) ==
    LET f == handles[h].file
    IN  /\ Open(h) /\ ~handles[h].read_only /\ size <= Len(data[f])
        /\ data' = [data EXCEPT ![f] = SubSeq(@, 1, size)]
        /\ Spoils(f)
        /\ UNCHANGED <<files, handles, imports>>

\* The name goes only if it is still bound to the file that was opened.
GoesByName(h) == handles[h].delete_on_close /\ handles[h].name # Anonymous
Goes(h) == GoesByName(h) /\ files[handles[h].name] = handles[h].file

Close(h) ==
    /\ Open(h)
    /\ files' = IF Goes(h) THEN [files EXCEPT ![handles[h].name] = NoFile] ELSE files
    /\ handles' = [handles EXCEPT ![h] = Closed]
    /\ UNCHANGED <<imports, exports>>
    /\ Kept(data)

-----------------------------------------------------------------------------
(* Management: xDelete and remove, clear *)

Remove(n) ==
    /\ files[n] # NoFile
    /\ files' = [files EXCEPT ![n] = NoFile]
    /\ UNCHANGED <<handles, imports, exports>>
    /\ Kept(data)

Clear ==
    /\ files' = [n \in Names |-> NoFile]
    /\ UNCHANGED <<handles, imports, exports>>
    /\ Kept(data)

-----------------------------------------------------------------------------
(* Imports *)

\* begin_import, or begin_import_unchecked, of an image announced with a size.
BeginImport(i, n, image, size, checked) ==
    /\ imports[i] = NoTransfer
    /\ checked => ValidSize(size)
    /\ files[n] = NoFile
    /\ imports' = [imports EXCEPT ![i] =
        [name |-> n, image |-> image, sent |-> 0, import |-> NewImport(size, checked)]]
    /\ UNCHANGED <<files, data, handles, exports>>

\* The caller sends the next n cells, whatever came of the ones before.
SendChunk(i, n, stored) ==
    LET chunk == SubSeq(imports[i].image, imports[i].sent + 1, imports[i].sent + n)
    IN  /\ imports[i] # NoTransfer /\ imports[i].sent + n <= Len(imports[i].image)
        /\ n = 0 => stored
        /\ imports' = [imports EXCEPT ![i].sent = @ + n,
                                      ![i].import = ImportWrite(@, chunk, stored)]
        /\ UNCHANGED <<files, data, handles, exports>>

\* The name may have been taken since the import began.
CanCommitUnchecked(i) == Complete(imports[i].import) /\ Unused # {}
CanCommit(i) == Complete(imports[i].import) /\ Unused # {} /\ files[imports[i].name] = NoFile

FinishImport(i) ==
    /\ imports[i] # NoTransfer /\ CanCommit(i)
    /\ files' = [files EXCEPT ![imports[i].name] = NewFile]
    /\ data' = [data EXCEPT ![NewFile] = Finished(imports[i].import)]
    /\ imports' = [imports EXCEPT ![i] = NoTransfer]
    /\ UNCHANGED <<handles, exports>>

\* finish fails, abort, or drop: the target was never published.
StopImport(i) ==
    /\ imports[i] # NoTransfer
    /\ imports' = [imports EXCEPT ![i] = NoTransfer]
    /\ UNCHANGED <<files, data, handles, exports>>

-----------------------------------------------------------------------------
(* Exports *)

\* image, faithful: what the file held, unless it was written to since, and
\* whether the export delivered just that (history variables).
BeginExport(e, n) ==
    /\ exports[e] = NoTransfer /\ files[n] # NoFile
    /\ exports' = [exports EXCEPT ![e] =
        [file |-> files[n], name |-> n, export |-> NewExport(data[files[n]]),
         image |-> data[files[n]], faithful |-> TRUE]]
    /\ UNCHANGED <<files, data, handles, imports>>

\* The export reads the file it opened.
SourceByName(e) == IF files[exports[e].name] = NoFile THEN <<>> ELSE data[files[exports[e].name]]
Source(e) == data[exports[e].file]

\* The read delivers this part of the image.
Delivers(e, read) ==
    \/ exports[e].image = Spoilt
    \/ read.out = SubSeq(exports[e].image, exports[e].export.offset + 1, read.export.offset)

ReadExport(e, n) ==
    LET read == ExportRead(exports[e].export, Source(e), n)
    IN  /\ exports[e] # NoTransfer
        /\ exports' = [exports EXCEPT ![e].export = read.export,
                                      ![e].faithful = @ /\ Delivers(e, read)]
        /\ UNCHANGED <<files, data, handles, imports>>

DropExport(e) ==
    /\ exports[e] # NoTransfer
    /\ exports' = [exports EXCEPT ![e] = NoTransfer]
    /\ UNCHANGED <<files, handles, imports>>
    /\ Kept(data)

-----------------------------------------------------------------------------
Init ==
    /\ files = [n \in Names |-> NoFile]
    /\ data = [f \in Rcs |-> <<>>]
    /\ handles = [h \in Handles |-> Closed]
    /\ imports = [i \in Imports |-> NoTransfer]
    /\ exports = [e \in Exports |-> NoTransfer]

Lengths == {Len(image) : image \in Images}
MaxLen == CHOOSE n \in Lengths : \A m \in Lengths : m <= n

Next ==
    \/ \E h \in Handles, o \in OpenOptions :
        \/ OpenAnonymous(h, o)
        \/ \E n \in Names : OpenExisting(h, n, o) \/ OpenNew(h, n, o)
    \/ \E h \in Handles, buf \in Buffers, offset \in Offsets : Write(h, buf, offset)
    \/ \E h \in Handles, size \in Offsets : Truncate(h, size)
    \/ \E h \in Handles : Close(h)
    \/ \E n \in Names : Remove(n)
    \/ Clear
    \/ \E i \in Imports, n \in Names, image \in Images, size \in Sizes, checked \in BOOLEAN :
            BeginImport(i, n, image, size, checked)
    \/ \E i \in Imports, n \in 0..MaxLen, stored \in BOOLEAN : SendChunk(i, n, stored)
    \/ \E i \in Imports : FinishImport(i) \/ StopImport(i)
    \/ \E e \in Exports, n \in Names : BeginExport(e, n)
    \/ \E e \in Exports, n \in 0..MaxLen : ReadExport(e, n)
    \/ \E e \in Exports : DropExport(e)

Spec == Init /\ [][Next]_vars

-----------------------------------------------------------------------------
(* Properties *)

\* No open and no import takes a name from a file that has it: a name is free
\* before it is bound again, also when it was free as an import began and is
\* not when it ends (memvfs.rs open_file, commit).
NamesAreNotTaken ==
    [][\A n \in Names : files[n] # NoFile => files'[n] \in {files[n], NoFile}]_vars

\* An image an import can accept, said of the whole image.
Acceptable(image, checked) ==
    checked =>
        /\ Len(image) >= Sector /\ Len(image) % Sector = 0
        /\ image[1] = Signature
        /\ PageSize(image) \in PageSizes
        /\ Len(image) % PageSize(image) = 0

InRollbackMode(image) == [image EXCEPT ![HeaderLen + 1] = Rollback]

\* What an import publishes is all of what its caller sent, of the size that
\* was announced, acceptable as a whole and in rollback mode, however it was
\* cut into chunks and whatever failed (transfer.rs write, finish).
ImportsPublishTheImage ==
    [][\A i \in Imports :
        LET import == imports[i].import
            sent == SubSeq(imports[i].image, 1, imports[i].sent)
            n == imports[i].name
        IN  imports[i] # NoTransfer /\ imports'[i] = NoTransfer /\ files'[n] # files[n] =>
                /\ Len(sent) = import.size
                /\ Acceptable(sent, import.checked)
                /\ data'[files'[n]] = IF import.checked THEN InRollbackMode(sent) ELSE sent]_vars

\* A close takes no name but that of the file it closes, whatever was removed
\* and created under that name in the meantime (memvfs.rs close_file).
CloseSparesReplacements ==
    [][\A n \in Names, h \in Handles :
        Open(h) /\ handles'[h] = Closed /\ files'[n] # files[n] => files[n] = handles[h].file]_vars

\* An export delivers, chunk by chunk and to its end, what its file held when
\* it began, unless a connection writes to that very file: the name may be
\* removed and bound to another file (transfer.rs read, memvfs.rs open_export).
ExportsDeliverTheFile ==
    \A e \in Exports : exports[e] # NoTransfer =>
        /\ exports[e].faithful
        /\ exports[e].image = Spoilt \/ Len(exports[e].image) = exports[e].export.size

=============================================================================
