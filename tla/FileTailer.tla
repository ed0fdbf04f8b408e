----------------------------- MODULE FileTailer -----------------------------
(***************************************************************************)
(* FileTailer (crates/core/src/follow.rs): open at the end of the file,    *)
(* then on each call of read_new_lines look at the path for a rotation or  *)
(* a truncation, read what is new and hand over its complete lines.  Each  *)
(* system call is a step; the logger and logrotate act between any two.    *)
(* Stripping of a carriage return and the UTF-8 conversion are left out.   *)
(***************************************************************************)
EXTENDS LogFile, SequencesExt

CONSTANT BufferSize  \* READ_BUFFER_SIZE

ASSUME TailerAssumption == BufferSize \in Nat \ {0}

VARIABLES
    tpc,       \* where the tailer is in its current operation
    handle,    \* the inode that `file` has open; self.inode and self.dev
    offset,    \* self.offset, also the seek position of `file`
    leftover,  \* self.leftover
    raw,       \* raw_bytes of the call in progress
    out,       \* what the last finished call returned
    delivered, \* history: the lines returned by all calls
    opened,    \* history: the number of the first byte written after open
    from,      \* history: where reading of the current contents began
    base       \* history: Len(delivered) when it began

tailVars == <<tpc, handle, offset, leftover, raw, out>>
tailHistory == <<delivered, opened, from, base>>

TailInit ==
    /\ tpc = "open"
    /\ handle = NoFile
    /\ offset = 0
    /\ leftover = <<>>
    /\ raw = <<>>
    /\ out = <<>>
    /\ delivered = <<>>
    /\ opened = 0
    /\ from = 0
    /\ base = 0

-----------------------------------------------------------------------------
\* File::open in FileTailer::open; a missing file is an error.
OpenFile ==
    /\ tpc = "open"
    /\ IF path = NoFile
         THEN tpc' = "failed" /\ UNCHANGED handle
         ELSE tpc' = "seek" /\ handle' = path
    /\ UNCHANGED <<offset, leftover, raw, out, tailHistory, logVars>>

\* The length of the open file becomes the offset.
SeekToEnd ==
    /\ tpc = "seek"
    /\ tpc' = "idle"
    /\ offset' = Len(files[handle])
    /\ from' = offset'
    /\ opened' = next
    /\ UNCHANGED <<handle, leftover, raw, out, delivered, base, logVars>>

\* A caller calls read_new_lines.
Call ==
    /\ tpc = "idle"
    /\ tpc' = "stat"
    /\ out' = <<>>
    /\ UNCHANGED <<handle, offset, leftover, raw>>

StartOver ==
    /\ offset' = 0
    /\ leftover' = <<>>
    /\ from' = 0
    /\ base' = Len(delivered)

\* Fault: a file that has not grown counts as truncated.
ShrunkOrEqual == Len(files[path]) <= offset

\* What std::fs::metadata(&self.path) tells.
PathGone == path = NoFile
Rotated == path # handle
Shrunk == Len(files[path]) < offset

Stat ==
    /\ tpc = "stat"
    /\ \/ PathGone /\ tpc' = "idle" /\ UNCHANGED <<offset, leftover, from, base>>
       \/ ~PathGone /\ Rotated /\ tpc' = "reopen" /\ UNCHANGED <<offset, leftover, from, base>>
       \/ ~PathGone /\ ~Rotated /\ Shrunk /\ tpc' = "read" /\ StartOver
       \/ /\ ~PathGone /\ ~Rotated /\ ~Shrunk
          /\ tpc' = "read" /\ UNCHANGED <<offset, leftover, from, base>>
    /\ UNCHANGED <<handle, raw, out, delivered, opened, logVars>>

\* Fault: the partial line of the old file is kept.
KeepLeftover ==
    /\ tpc = "reopen"
    /\ tpc' = "read"
    /\ IF PathGone
         THEN UNCHANGED <<handle, offset, from, base>>
         ELSE handle' = path /\ offset' = 0 /\ from' = 0 /\ base' = Len(delivered)
    /\ UNCHANGED <<leftover, raw, out, delivered, opened, logVars>>

\* If the path has vanished meanwhile the old file stays open and is read.
HandleRotation ==
    /\ tpc = "reopen"
    /\ tpc' = "read"
    /\ IF PathGone
         THEN UNCHANGED <<handle, offset, leftover, from, base>>
         ELSE handle' = path /\ StartOver
    /\ UNCHANGED <<raw, out, delivered, opened, logVars>>

ReadEnd ==
    IF offset + BufferSize < Len(files[handle])
      THEN offset + BufferSize ELSE Len(files[handle])

\* One read(2) that returns something.
Read ==
    /\ tpc = "read"
    /\ offset < Len(files[handle])
    /\ offset' = ReadEnd
    /\ raw' = raw \o SubSeq(files[handle], offset + 1, ReadEnd)
    /\ UNCHANGED <<tpc, handle, leftover, out, tailHistory, logVars>>

\* The newlines among the first n bytes; where the k-th line of a sequence of
\* bytes ends, the 0-th in front of all; its complete lines, without their
\* newlines; the partial line at its end.
Newlines(bytes, n) == {i \in 1 .. n : IsNewline(bytes[i])}
LineCount(bytes) == Cardinality(Newlines(bytes, Len(bytes)))
LineEnd(bytes, k) ==
    CHOOSE n \in 0 .. Len(bytes) :
        Cardinality(Newlines(bytes, n)) = k /\ (n = 0 \/ IsNewline(bytes[n]))
Lines(bytes) ==
    [k \in 1 .. LineCount(bytes) |->
        SubSeq(bytes, LineEnd(bytes, k - 1) + 1, LineEnd(bytes, k) - 1)]
PartialLine(bytes) == SubSeq(bytes, LineEnd(bytes, LineCount(bytes)) + 1, Len(bytes))

\* Fault: the rest of the previous call is put behind the new bytes.
ReturnNewFirst ==
    /\ tpc = "read"
    /\ offset >= Len(files[handle])
    /\ tpc' = "idle"
    /\ raw' = <<>>
    /\ out' = Lines(raw \o leftover)
    /\ leftover' = PartialLine(raw \o leftover)
    /\ delivered' = delivered \o out'
    /\ UNCHANGED <<handle, offset, opened, from, base, logVars>>

\* A read that returns nothing ends the loop, and the call.
Return ==
    /\ tpc = "read"
    /\ offset >= Len(files[handle])
    /\ tpc' = "idle"
    /\ raw' = <<>>
    /\ out' = Lines(leftover \o raw)
    /\ leftover' = PartialLine(leftover \o raw)
    /\ delivered' = delivered \o out'
    /\ UNCHANGED <<handle, offset, opened, from, base, logVars>>

\* Any of the system calls fails.
IoError ==
    /\ tpc \in {"open", "seek", "stat", "reopen", "read"}
    /\ tpc' = "failed"
    /\ UNCHANGED <<handle, offset, leftover, raw, out, tailHistory, logVars>>

TailStep == OpenFile \/ SeekToEnd \/ Stat \/ HandleRotation \/ Read \/ Return \/ IoError

-----------------------------------------------------------------------------
\* The tailer alone, with a caller that calls whenever it likes.
vars == <<logVars, tailVars, tailHistory>>

Init == LogInit /\ TailInit

Next ==
    \/ Call /\ UNCHANGED <<tailHistory, logVars>>
    \/ TailStep
    \/ LogStep /\ UNCHANGED <<tailVars, tailHistory>>

Spec == Init /\ [][Next]_vars
=============================================================================
