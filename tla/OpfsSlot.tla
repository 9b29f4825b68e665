------------------------------ MODULE OpfsSlot ------------------------------
(***************************************************************************)
(* One physical file of an OPFS pool (sahpool.rs): a 4096-byte header that *)
(* carries the logical filename and its open flags, followed by the bytes  *)
(* SQLite sees.  Every file has two images: the one a synchronous access   *)
(* handle reads back, and the one that survives a loss of power, which     *)
(* only handle.flush() brings up to date.                                  *)
(*                                                                         *)
(* The module is pure: it says which images each multi-step update of a    *)
(* slot can leave behind, success and every failure in between.            *)
(***************************************************************************)
CONSTANTS
    Names,      \* logical filenames
    NoName      \* the header of an unused slot names nothing

ASSUME NoNameAssumption == NoName \notin Names

\* What xOpen or an import stores in the flags word of a named header.
\*   "import"  SQLITE_OPEN_MAIN_DB alone, as the import target writes it
\*   "keep"    the raw flags of an xOpen without DELETEONCLOSE
\*   "temp"    the raw flags of an xOpen with DELETEONCLOSE
FileKinds == {"import", "keep", "temp"}

Named(n, k) == [name |-> n, flags |-> k]
Free  == [name |-> NoName, flags |-> "zero"]   \* complete empty header
Short == [name |-> NoName, flags |-> "short"]  \* shorter than a header, all zero
Torn  == [name |-> NoName, flags |-> "torn"]   \* a short write mixed two headers

Headers == {Free, Short, Torn} \cup {Named(n, k) : n \in Names, k \in FileKinds}

\* The bytes after the header: none yet, an unfinished import, complete contents,
\* or none any more, after SQLite truncated them.
Contents == {"blank", "partial", "whole", "emptied"}
HasNoBytes == {"blank", "emptied"}

Images == [hdr : Headers, data : Contents]

Blank   == [hdr |-> Free, data |-> "blank"]
Created == [hdr |-> Short, data |-> "blank"]

WithHeader(image, h) == [image EXCEPT !.hdr = h]

\* Acquiring a slot publishes such a name; other headers, DELETEONCLOSE ones
\* too, make a slot to reuse, except a torn one, which is an InvalidHeader error.
Adopted(h) == h.flags \in {"import", "keep"}

\* Every update returns one of these: both images afterwards, and its verdict.
Outcome(visible, durable, ok) == [file |-> visible, durable |-> durable, ok |-> ok]
Outcomes == [file : Images, durable : Images, ok : BOOLEAN]

Flush(f, d) == {Outcome(f, d, FALSE), Outcome(f, f, TRUE)}

\* SyncAccessFile::initialize: extend a new file to a complete empty header.
Initialize(f, d) ==
    { Outcome(f, d, FALSE),             \* truncate fails
      Outcome(Blank, d, FALSE),         \* flush fails
      Outcome(Blank, Blank, TRUE) }

\* A short header write over h.  Zeros over an unused header change nothing.
TornWrite(h, new) == IF h \in {Free, Short} /\ new = Free THEN h ELSE Torn

NamingUnflushed(f, d, h) ==
    { Outcome(f, d, FALSE), Outcome(WithHeader(f, h), d, TRUE) }

\* associate(Some(name), flags): write the header, then flush.
Naming(f, d, h) ==
    { Outcome(f, d, FALSE),
      Outcome(WithHeader(f, TornWrite(f.hdr, h)), d, FALSE),
      Outcome(WithHeader(f, h), d, FALSE),
      Outcome(WithHeader(f, h), WithHeader(f, h), TRUE) }

UnnamingKeepsData(f, d) ==
    { Outcome(f, d, FALSE),
      Outcome(WithHeader(f, Free), d, FALSE),
      Outcome(WithHeader(f, Free), WithHeader(f, Free), TRUE) }

\* associate(None, 0): write the empty header, flush, truncate, flush.
Unnaming(f, d) ==
    LET unnamed == WithHeader(f, Free)
    IN  { Outcome(f, d, FALSE),
          Outcome(WithHeader(f, TornWrite(f.hdr, Free)), d, FALSE),
          Outcome(unnamed, d, FALSE),
          Outcome(unnamed, unnamed, FALSE),
          Outcome(Blank, unnamed, FALSE),
          Outcome(Blank, Blank, TRUE) }

\* A loss of power keeps, of every part written since the last flush, either
\* the old or the new version.  A header lies in one sector, so a crash never
\* mixes two headers; only a short write does.
Surviving(f, d, newHeader, newData) ==
    [hdr |-> IF newHeader THEN f.hdr ELSE d.hdr,
     data |-> IF newData THEN f.data ELSE d.data]
=============================================================================
