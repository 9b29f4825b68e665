------------------------------- MODULE FileBytes ------------------------------
(***************************************************************************)
(* A file's contents as a sequence of cells, and a write to it.  Offsets   *)
(* count from 0, as in the code.                                           *)
(***************************************************************************)
EXTENDS Naturals, Sequences

\* The file b with the buffer buf at an offset; a gap before it holds zeros.
Overlaid(b, buf, offset) ==
    LET end == offset + Len(buf)
    IN  [i \in 1..(IF end > Len(b) THEN end ELSE Len(b)) |->
            IF offset < i /\ i <= end THEN buf[i - offset]
            ELSE IF i <= Len(b) THEN b[i] ELSE 0]

=============================================================================
