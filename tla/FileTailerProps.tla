--------------------------- MODULE FileTailerProps ---------------------------
(***************************************************************************)
(* What FileTailer promises.                                               *)
(***************************************************************************)
EXTENDS FileTailer

WholeLine(n) == [i \in 1 .. LineBytes - 1 |-> n * LineBytes + i - 1]
LineNumbers == 0 .. MaxBytes \div LineBytes

\* What is left of the line that was being written when the file was opened.
RestOfOpenLine ==
    SubSeq(WholeLine(LineOf(opened)), (opened % LineBytes) + 1, LineBytes - 1)

\* However the writes, reads and rotations interleave, a line handed over is
\* one whole line of the logger, never the head of one glued to the tail of
\* another; only the first may begin where open found the end of the file
\* (the leftover buffering of read_new_lines and handle_rotation's clear).
IntactLines ==
    \A k \in DOMAIN delivered :
        \/ \E n \in LineNumbers : delivered[k] = WholeLine(n)
        \/ k = 1 /\ delivered[1] = RestOfOpenLine

\* No byte is handed over twice or out of the order in which it was written,
\* rotations and truncations in place included (the offset goes back only
\* for contents that have not been read).
InOrderOnce ==
    \A j, k \in DOMAIN delivered :
        \A x \in DOMAIN delivered[j], y \in DOMAIN delivered[k] :
            j < k \/ (j = k /\ x < y) => delivered[j][x] < delivered[k][y]

\* Between calls, everything read from the present file since reading of it
\* began has been handed over exactly as one split of it would: no line is
\* lost or cut where two calls or two buffers meet.
OneSplit ==
    tpc = "idle" =>
        LET seen == SubSeq(files[handle], from + 1, offset)
        IN  /\ SubSeq(delivered, base + 1, Len(delivered)) = Lines(seen)
            /\ leftover = PartialLine(seen)

Has(bytes, n) ==
    \A i \in 1 .. LineBytes : \E x \in DOMAIN bytes : bytes[x] = n * LineBytes + i - 1
\* The lines that were begun after open and are complete in inode f.
NewLines(f) == {n \in LineNumbers : n * LineBytes >= opened /\ Has(files[f], n)}
Delivered(lines) == {n \in LineNumbers : \E k \in DOMAIN lines : lines[k] = WholeLine(n)}

\* When a call returns having read the file at the path to its end, every
\* line of it that was written after open has been handed over, however often
\* the file has been rotated (after a truncation in place the file may have
\* grown back to the offset unnoticed).
CurrentFileDelivered ==
    [][Return /\ truncations = 0 /\ handle = path /\ offset = Len(files[handle])
         => NewLines(handle) \subseteq Delivered(delivered')]_vars
=============================================================================
