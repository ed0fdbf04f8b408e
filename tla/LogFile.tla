------------------------------ MODULE LogFile -------------------------------
(***************************************************************************)
(* The followed log and the program that writes it (external).  Bytes are  *)
(* numbered in the order in which they are written, LineBytes to a line,   *)
(* the last one of a line being its newline; so a byte tells which line it *)
(* is from.  Files are inodes; the path names one of them or, in the gap   *)
(* of a rotation, none.  The logger appends (O_APPEND) to the inode it has *)
(* open, which after a rotation is the old one until it reopens the path.  *)
(***************************************************************************)
EXTENDS Naturals, Sequences

CONSTANTS LineBytes,      \* bytes of a line, its newline included
          MaxBytes,       \* bound: bytes the logger writes
          MaxFiles,       \* bound: inodes, that is rotations + 1
          MaxTruncations  \* bound: truncations in place

ASSUME LogFileAssumption ==
    /\ LineBytes \in Nat \ {0, 1}
    /\ MaxBytes \in Nat
    /\ MaxFiles \in Nat \ {0}
    /\ MaxTruncations \in Nat

NoFile == 0

VARIABLES files,       \* files[f]: the bytes of inode f
          path,        \* the inode at the path, or NoFile
          writer,      \* the inode the logger has open
          next,        \* the number of the next byte
          truncations  \* truncations so far

logVars == <<files, path, writer, next, truncations>>

LineOf(byte) == byte \div LineBytes
IsNewline(byte) == byte % LineBytes = LineBytes - 1
AtLineEnd == next % LineBytes = 0

LogInit ==
    /\ files = <<<<>>>>
    /\ path = 1
    /\ writer = 1
    /\ next = 0
    /\ truncations = 0

Write ==
    /\ next < MaxBytes
    /\ files' = [files EXCEPT ![writer] = Append(@, next)]
    /\ next' = next + 1
    /\ UNCHANGED <<path, writer, truncations>>

\* logrotate: the file is renamed away, then a new one is created.
RenameAway ==
    /\ path # NoFile
    /\ path' = NoFile
    /\ UNCHANGED <<files, writer, next, truncations>>

Create ==
    /\ path = NoFile
    /\ Len(files) < MaxFiles
    /\ files' = Append(files, <<>>)
    /\ path' = Len(files')
    /\ UNCHANGED <<writer, next, truncations>>

Reopen ==
    /\ path \notin {NoFile, writer}
    /\ AtLineEnd
    /\ writer' = path
    /\ UNCHANGED <<files, path, next, truncations>>

\* logrotate's copytruncate, or `> file`.
Truncate ==
    /\ truncations < MaxTruncations
    /\ AtLineEnd
    /\ files' = [files EXCEPT ![writer] = <<>>]
    /\ truncations' = truncations + 1
    /\ UNCHANGED <<path, writer, next>>

LogStep == Write \/ RenameAway \/ Create \/ Reopen \/ Truncate
=============================================================================
