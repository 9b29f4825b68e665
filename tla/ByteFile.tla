------------------------------- MODULE ByteFile -------------------------------
(***************************************************************************)
(* What a memory file promises (the trait VfsFile of                       *)
(* crates/rsqlite-vfs/src/lib.rs): one array of bytes.  A write replaces a *)
(* range and fills a gap before it with zeros, a truncation keeps a        *)
(* prefix, and a call that fails changes nothing.                          *)
(***************************************************************************)
EXTENDS FileBytes

CONSTANTS
    Byte,           \* what a cell can hold; 0 is one of them
    AddressSpace,   \* the largest size a file can have
    Buffers         \* what a caller writes, nonempty sequences of bytes

VARIABLE bytes

\* Whether a write at the offset stays within the address space.
Fits(buf, offset) == offset + Len(buf) <= AddressSpace

Init == bytes = <<>>

Write(buf, offset) == Fits(buf, offset) /\ bytes' = Overlaid(bytes, buf, offset)
Truncate(size) == size <= Len(bytes) /\ bytes' = SubSeq(bytes, 1, size)

Next ==
    \/ \E buf \in Buffers, offset \in 0..AddressSpace : Write(buf, offset)
    \/ \E size \in 0..AddressSpace : Truncate(size)

Spec == Init /\ [][Next]_bytes

=============================================================================
