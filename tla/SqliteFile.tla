----------------------------- MODULE SqliteFile -----------------------------
(***************************************************************************)
(* The part of SQLite that logdive relies on, external to the repository:  *)
(* one database file in rollback-journal mode shared by several processes  *)
(* through the SHARED / RESERVED / PENDING / EXCLUSIVE file locks.         *)
(*                                                                         *)
(* A writer works on a private image of the table, writes it back under    *)
(* EXCLUSIVE after saving the old pages in the journal, and commits by     *)
(* deleting the journal.  When a writer dies, its locks vanish and its     *)
(* journal, if any, stays behind ("hot"); the next connection that may     *)
(* write rolls it back before it reads.                                    *)
(***************************************************************************)
CONSTANTS Proc,       \* processes, one connection each
          ReadOnly    \* those that open with SQLITE_OPEN_READ_ONLY

VARIABLES table,    \* what the pages of the database file hold
          journal,  \* "present" while the journal file exists, or "absent"
          saved,    \* the table that a present journal restores
          lock,     \* lock[p]: the file lock that process p holds
          image     \* image[p]: the table as p's open transaction sees it

fileVars == <<table, journal, saved, lock, image>>

Lock == {"none", "shared", "reserved", "pending", "exclusive"}
Writing == {"reserved", "pending", "exclusive"}

\* The content of the index as far as any reader may learn it.
Committed == IF journal = "absent" THEN table ELSE saved

\* Fault: readers get in while a writer waits for the readers to leave.
CanShareWhilePending == \A q \in Proc : lock[q] # "exclusive"

CanShare == \A q \in Proc : lock[q] \notin {"pending", "exclusive"}
CanReserve == \A q \in Proc : lock[q] \notin Writing
CanOwn(p) == \A q \in Proc \ {p} : lock[q] = "none"

\* A read-only connection cannot roll a hot journal back: it reports an error.
MayRead(p) == p \in ReadOnly => journal = "absent"

Recover == table' = Committed /\ journal' = "absent" /\ saved' = {}

\* A read statement starts.
AcquireShared(p) ==
    /\ lock[p] = "none"
    /\ CanShare
    /\ MayRead(p)
    /\ Recover
    /\ lock' = [lock EXCEPT ![p] = "shared"]
    /\ UNCHANGED image

ReleaseShared(p) ==
    /\ lock[p] = "shared"
    /\ lock' = [lock EXCEPT ![p] = "none"]
    /\ UNCHANGED <<table, journal, saved, image>>

\* The first write statement of a deferred transaction: SHARED and RESERVED
\* are taken together, and SHARED is given back when RESERVED is not free.
AcquireReserved(p) ==
    /\ lock[p] = "none"
    /\ p \notin ReadOnly
    /\ CanReserve
    /\ Recover
    /\ lock' = [lock EXCEPT ![p] = "reserved"]
    /\ image' = [image EXCEPT ![p] = Committed]

Modify(p, new) ==
    /\ lock[p] = "reserved"
    /\ image' = [image EXCEPT ![p] = new]
    /\ UNCHANGED <<table, journal, saved, lock>>

\* COMMIT, first step: no new reader is admitted.
AcquirePending(p) ==
    /\ lock[p] = "reserved"
    /\ lock' = [lock EXCEPT ![p] = "pending"]
    /\ UNCHANGED <<table, journal, saved, image>>

\* Fault: a writer does not wait for the readers.
AcquireExclusiveAtOnce(p) ==
    /\ lock[p] = "pending"
    /\ lock' = [lock EXCEPT ![p] = "exclusive"]
    /\ UNCHANGED <<table, journal, saved, image>>

\* COMMIT, second step: the readers that were there have left.
AcquireExclusive(p) ==
    /\ lock[p] = "pending"
    /\ CanOwn(p)
    /\ lock' = [lock EXCEPT ![p] = "exclusive"]
    /\ UNCHANGED <<table, journal, saved, image>>

\* COMMIT, third step: journal the old pages and write the new ones.  Nobody
\* may read the pages while the journal exists, so the complete new image
\* stands for every partly written content.
WriteBack(p) ==
    /\ lock[p] = "exclusive"
    /\ journal = "absent"
    /\ journal' = "present"
    /\ saved' = table
    /\ table' = image[p]
    /\ UNCHANGED <<lock, image>>

\* COMMIT, last step: the journal is deleted, which is the commit point.
DeleteJournal(p) ==
    /\ lock[p] = "exclusive"
    /\ journal = "present"
    /\ journal' = "absent"
    /\ saved' = {}
    /\ lock' = [lock EXCEPT ![p] = "none"]
    /\ image' = [image EXCEPT ![p] = {}]
    /\ UNCHANGED table

\* The transaction is dropped, by a rollback or by the death of the process.
Drop(p) ==
    /\ lock' = [lock EXCEPT ![p] = "none"]
    /\ image' = [image EXCEPT ![p] = {}]
    /\ UNCHANGED <<table, journal, saved>>
=============================================================================
