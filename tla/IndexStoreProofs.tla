-------------------------- MODULE IndexStoreProofs ---------------------------
(***************************************************************************)
(* The invariant of IndexStore is inductive, what follows from it, and     *)
(* that IndexStore implements LogIndex, for every set of processes, every  *)
(* source, every batch and chunk size.  The second half is about what      *)
(* ingest and stats report: no line that ingest reads is lost between      *)
(* batches and chunks, its counters agree with the index whatever the      *)
(* others do, and an answer of stats is never ahead of the index.          *)
(***************************************************************************)
EXTENDS IndexStoreInv, FiniteSetTheorems, TLAPS

-----------------------------------------------------------------------------
(* Types.  Cardinality is a number only for finite sets, so finiteness of  *)
(* the tables goes along with the types.                                   *)

\* The part about the database file.
FileInv == FileTypeOK /\ FiniteInv

TypeInv == FileInv /\ PcTypeOK /\ IngestTypeOK /\ ReportTypeOK /\ HistoryTypeOK

LEMMA DoomedFinite ==
    ASSUME NEW S, IsFiniteSet(S), NEW q
    PROVE  IsFiniteSet(Doomed(q, S)) /\ Cardinality(Doomed(q, S)) \in Nat
<1>1. Doomed(q, S) \subseteq S
  BY DEF Doomed
<1> QED
  BY <1>1, FS_Subset, FS_CardinalityType

LEMMA NotOlderFinite ==
    ASSUME NEW S, IsFiniteSet(S), NEW cutoff
    PROVE  IsFiniteSet(NotOlder(S, cutoff))
<1>1. NotOlder(S, cutoff) \subseteq S
  BY DEF NotOlder
<1> QED
  BY <1>1, FS_Subset

LEMMA TypeInit == Init => TypeInv
<1> SUFFICES ASSUME Init PROVE TypeInv
  OBVIOUS
<1> USE StoreAssumption, RowsAssumption
<1>1. TypeOK
  BY FS_EmptySet DEF Init, TypeOK, FileTypeOK, PcTypeOK, IngestTypeOK, ReportTypeOK,
     HistoryTypeOK, Lock, Zero, NoAnswer, Tally, Answer, Row, Entry,
     IngestLabels, PruneLabels, ReadLabels
<1>2. FiniteInv
  BY FS_EmptySet DEF Init, FiniteInv
<1> QED
  BY <1>1, <1>2 DEF TypeInv, TypeOK, FileInv

\* Every operator on the file keeps its types and the tables finite.
LEMMA FileStep ==
    ASSUME NEW p \in Proc, FileInv,
           \/ AcquireShared(p) \/ ReleaseShared(p) \/ AcquireReserved(p)
           \/ AcquirePending(p) \/ AcquireExclusive(p)
           \/ WriteBack(p) \/ DeleteJournal(p) \/ Drop(p)
           \/ \E new \in SUBSET Row : IsFiniteSet(new) /\ Modify(p, new)
           \/ UNCHANGED fileVars
    PROVE  FileInv'
<1> USE DEF FileInv, FileTypeOK, FiniteInv, Lock
<1>0. Committed \in SUBSET Row /\ IsFiniteSet(Committed)
  BY DEF Committed
<1>1. CASE AcquireShared(p)
  BY <1>0, <1>1, FS_EmptySet DEF AcquireShared, Recover
<1>2. CASE ReleaseShared(p)
  BY <1>2 DEF ReleaseShared
<1>3. CASE AcquireReserved(p)
  BY <1>0, <1>3, FS_EmptySet DEF AcquireReserved, Recover
<1>4. CASE AcquirePending(p)
  BY <1>4 DEF AcquirePending
<1>5. CASE AcquireExclusive(p)
  BY <1>5 DEF AcquireExclusive
<1>6. CASE WriteBack(p)
  BY <1>6 DEF WriteBack
<1>7. CASE DeleteJournal(p)
  BY <1>7, FS_EmptySet DEF DeleteJournal
<1>8. CASE Drop(p)
  BY <1>8, FS_EmptySet DEF Drop
<1>9. CASE \E new \in SUBSET Row : IsFiniteSet(new) /\ Modify(p, new)
  BY <1>9 DEF Modify
<1>10. CASE UNCHANGED fileVars
  BY <1>10 DEF fileVars
<1> QED
  BY <1>1, <1>2, <1>3, <1>4, <1>5, <1>6, <1>7, <1>8, <1>9, <1>10

\* A jump of one process to one of its labels.
LEMMA GotoType ==
    ASSUME NEW p \in Proc, PcTypeOK, NEW l,
           p \in Ingesters => l \in IngestLabels,
           p \in Pruners => l \in PruneLabels,
           p \in Readers => l \in ReadLabels,
           Goto(p, l)
    PROVE  PcTypeOK'
BY StoreAssumption DEF PcTypeOK, Goto

LEMMA SameTypes ==
    ASSUME TypeInv
    PROVE  /\ UNCHANGED pc => PcTypeOK'
           /\ UNCHANGED ingestVars => IngestTypeOK'
           /\ UNCHANGED <<count, deleted, answer, runs>> => ReportTypeOK'
           /\ UNCHANGED historyVars => HistoryTypeOK'
BY DEF TypeInv, PcTypeOK, IngestTypeOK, ReportTypeOK, HistoryTypeOK, ingestVars,
   historyVars

LEMMA ChunkEndBound ==
    ASSUME IngestTypeOK, NEW i \in Ingesters
    PROVE  /\ ChunkEnd(i) \in Nat
           /\ ChunkEnd(i) <= Len(batch[i])
BY StoreAssumption DEF IngestTypeOK, ChunkEnd

LEMMA EntryToRow ==
    ASSUME NEW e \in Entry, e.ts # NoTime
    PROVE  e \in Row
BY DEF Entry, Row

LEMMA CurrentType ==
    ASSUME IngestTypeOK, NEW i \in Ingesters, InChunk(i)
    PROVE  /\ cur[i] + 1 \in 1 .. Len(batch[i])
           /\ Current(i) = batch[i][cur[i] + 1]
           /\ Current(i) \in Entry
           /\ Current(i).ts # NoTime => Current(i) \in Row
<1>1. cur[i] + 1 \in 1 .. Len(batch[i])
  BY ChunkEndBound DEF IngestTypeOK, InChunk
<1>2. Current(i) \in Entry
  BY <1>1 DEF IngestTypeOK, Current
<1> QED
  BY <1>1, <1>2, EntryToRow DEF Current

LEMMA ChunkRowsType ==
    ASSUME IngestTypeOK, NEW i \in Ingesters, NEW last \in Nat, last <= Len(batch[i])
    PROVE  ChunkRows(i, last) \subseteq Row
<1> SUFFICES ASSUME NEW k \in stored[i] + 1 .. last, batch[i][k].ts # NoTime
             PROVE  batch[i][k] \in Row
  BY DEF ChunkRows
<1>1. k \in 1 .. Len(batch[i])
  BY DEF IngestTypeOK
<1>2. batch[i][k] \in Entry
  BY <1>1 DEF IngestTypeOK
<1> QED
  BY <1>2, EntryToRow

LEMMA PrepareType ==
    ASSUME NEW i \in Ingesters, NEW e \in Entry
    PROVE  Prepare(i, e) \in Entry
BY StoreAssumption DEF Prepare, Entry

LEMMA SourceType ==
    ASSUME NEW i \in Ingesters, NEW k \in 1 .. Len(Source[i]),
           Source[i][k] \notin {Malformed, Blank}
    PROVE  Source[i][k] \in Entry
BY StoreAssumption

LEMMA RawsType ==
    ASSUME NEW S \in SUBSET Row
    PROVE  Raws(S) \subseteq Raw
BY DEF Raws, Row

LEMMA CountType ==
    ASSUME NEW x \in Tally
    PROVE  /\ [x EXCEPT !.inserted = @ + 1] \in Tally
           /\ [x EXCEPT !.deduplicated = @ + 1] \in Tally
           /\ [x EXCEPT !.skipped = @ + 1] \in Tally
BY DEF Tally

LEMMA AnswerType ==
    ASSUME NEW x \in Answer
    PROVE  /\ \A n \in Nat : [x EXCEPT !.entries = n] \in Answer
           /\ \A lo, hi \in Time : [x EXCEPT !.min = lo, !.max = hi] \in Answer
           /\ \A T \in SUBSET (Tag \cup {NoTag}) : [x EXCEPT !.tags = T] \in Answer
BY DEF Answer

LEMMA ZeroType == Zero \in Tally
BY DEF Zero, Tally

LEMMA Sum3Type ==
    ASSUME NEW x \in Tally, NEW y \in Tally
    PROVE  Sum3(x, y) \in Tally
BY DEF Sum3, Tally

LEMMA TypeStep == TypeInv /\ [Next]_vars => TypeInv'
<1> SUFFICES ASSUME TypeInv, [Next]_vars PROVE TypeInv'
  OBVIOUS
<1> USE StoreAssumption DEF TypeInv
<1>1. ASSUME NEW p \in Proc, BeginRead(p) PROVE TypeInv'
  BY <1>1, FileStep, GotoType, SameTypes DEF BeginRead
<1>2. ASSUME NEW p \in Proc, EndOpen(p) PROVE TypeInv'
  BY <1>2, FileStep, GotoType, SameTypes DEF EndOpen, EndRead, IngestLabels,
     PruneLabels, ReadLabels
<1>3. ASSUME NEW p \in Proc, CommitStep(p) PROVE TypeInv'
  BY <1>3, FileStep, GotoType, SameTypes DEF CommitStep
<1>4. ASSUME NEW p \in Proc, p \in Ingesters, ReadLine(p) PROVE TypeInv'
  <2>1. \A e \in Entry : Append(batch[p], e) \in Seq(Entry)
    <3>1. batch[p] \in Seq(Entry)
      BY <1>4 DEF IngestTypeOK
    <3> QED
      BY <3>1
  <2>2. batch' \in [Ingesters -> Seq(Entry)]
    <3>1. pos[p] + 1 \in 1 .. Len(Source[p])
      BY <1>4 DEF ReadLine, IngestTypeOK
    <3>2. CASE Source[p][pos[p] + 1] \in {Malformed, Blank}
      BY <1>4, <3>2 DEF ReadLine, IngestTypeOK
    <3>3. CASE Source[p][pos[p] + 1] \notin {Malformed, Blank}
      <4>1. Prepare(p, Source[p][pos[p] + 1]) \in Entry
        <5>1. Source[p][pos[p] + 1] \in Entry
          BY <3>1, <3>3, <1>4, SourceType
        <5> QED
          BY <1>4, <5>1, PrepareType
      <4> QED
        BY <1>4, <2>1, <3>3, <4>1 DEF ReadLine, IngestTypeOK
    <3> QED
      BY <3>2, <3>3
  <2>3. pos' \in [Ingesters -> Nat] /\ malformed' \in [Ingesters -> Nat]
    <3>1. pos' = [pos EXCEPT ![p] = pos[p] + 1] /\ pos \in [Ingesters -> Nat]
      BY <1>4 DEF ReadLine, IngestTypeOK
    <3>2. PICK m \in Nat : malformed' = [malformed EXCEPT ![p] = m] /\ malformed \in [Ingesters -> Nat]
      <4>1. malformed \in [Ingesters -> Nat] /\ malformed[p] \in Nat /\ malformed[p] + 1 \in Nat
        BY <1>4 DEF IngestTypeOK
      <4> QED
        BY <1>4, <4>1 DEF ReadLine
    <3> QED
      BY <1>4, <3>1, <3>2
  <2>4. UNCHANGED <<stored, cur, stats, total>>
    BY <1>4 DEF ReadLine
  <2>5. IngestTypeOK'
    BY <2>2, <2>3, <2>4 DEF IngestTypeOK
  <2> QED
    BY <1>4, <2>5, FileStep, GotoType, SameTypes DEF ReadLine
<1>5. ASSUME NEW p \in Proc, p \in Ingesters, HandOver(p) PROVE TypeInv'
  BY <1>5, FileStep, GotoType, SameTypes DEF HandOver, IngestLabels, PruneLabels,
     ReadLabels
<1>6. ASSUME NEW p \in Proc, p \in Ingesters, Finish(p) PROVE TypeInv'
  BY <1>6, FileStep, GotoType, SameTypes DEF Finish, IngestLabels, PruneLabels,
     ReadLabels
<1>7. ASSUME NEW p \in Proc, p \in Ingesters, StartChunk(p) PROVE TypeInv'
  BY <1>7, FileStep, GotoType, SameTypes DEF StartChunk, IngestLabels, PruneLabels,
     ReadLabels
<1>8. ASSUME NEW p \in Proc, p \in Ingesters, FinishBatch(p) PROVE TypeInv'
  <2>2. IngestTypeOK'
    BY <1>8 DEF FinishBatch, IngestTypeOK
  <2> QED
    BY <1>8, <2>2, FileStep, GotoType, SameTypes DEF FinishBatch, IngestLabels,
       PruneLabels, ReadLabels
<1>9. ASSUME NEW p \in Proc, p \in Ingesters, SkipEntry(p) PROVE TypeInv'
  <2>2. IngestTypeOK'
    <3>1. stats' = [stats EXCEPT ![p] = [stats[p] EXCEPT !.skipped = @ + 1]]
      BY <1>9 DEF SkipEntry, IngestTypeOK
    <3>2. [stats[p] EXCEPT !.skipped = @ + 1] \in Tally
      BY <1>9, CountType DEF IngestTypeOK
    <3>3. stats' \in [Ingesters -> Tally]
      BY <1>9, <3>1, <3>2 DEF IngestTypeOK
    <3> QED
      BY <1>9, <3>3 DEF SkipEntry, IngestTypeOK
  <2> QED
    BY <1>9, <2>2, FileStep, GotoType, SameTypes DEF SkipEntry
<1>10. ASSUME NEW p \in Proc, p \in Ingesters, BecomeWriter(p) PROVE TypeInv'
  BY <1>10, FileStep, GotoType, SameTypes DEF BecomeWriter
<1>11. ASSUME NEW p \in Proc, p \in Ingesters, InsertOrIgnore(p) PROVE TypeInv'
  <2>1. FileInv'
    <3>1. Current(p) \in Row
      BY <1>11, CurrentType DEF InsertOrIgnore
    <3>2. image[p] \in SUBSET Row /\ IsFiniteSet(image[p])
      BY DEF FileInv, FileTypeOK, FiniteInv
    <3>3. /\ image[p] \cup {Current(p)} \in SUBSET Row
          /\ IsFiniteSet(image[p] \cup {Current(p)})
      BY <3>1, <3>2, FS_AddElement
    <3>4. \E new \in SUBSET Row : IsFiniteSet(new) /\ Modify(p, new)
      BY <1>11, <3>2, <3>3 DEF InsertOrIgnore
    <3> QED
      BY <3>4, FileStep
  <2>2. IngestTypeOK'
    <3>1. \/ stats' = [stats EXCEPT ![p] = [stats[p] EXCEPT !.inserted = @ + 1]]
          \/ stats' = [stats EXCEPT ![p] = [stats[p] EXCEPT !.deduplicated = @ + 1]]
      BY <1>11 DEF InsertOrIgnore, IngestTypeOK
    <3>2. /\ [stats[p] EXCEPT !.inserted = @ + 1] \in Tally
          /\ [stats[p] EXCEPT !.deduplicated = @ + 1] \in Tally
      BY <1>11, CountType DEF IngestTypeOK
    <3>3. stats \in [Ingesters -> Tally]
      BY DEF IngestTypeOK
    <3>4. stats' \in [Ingesters -> Tally]
      BY <3>1, <3>2, <3>3
    <3> QED
      BY <1>11, <3>4 DEF InsertOrIgnore, IngestTypeOK
  <2> QED
    BY <1>11, <2>1, <2>2, FileStep, GotoType, SameTypes DEF InsertOrIgnore
<1>12. ASSUME NEW p \in Proc, p \in Ingesters, CommitChunk(p) PROVE TypeInv'
  <2>2. IngestTypeOK'
    <3>1. Sum3(total[p], stats[p]) \in Tally
      <4>1. total[p] \in Tally /\ stats[p] \in Tally
        BY <1>12 DEF IngestTypeOK
      <4> QED
        BY <4>1, Sum3Type
    <3> QED
      BY <1>12, <3>1, ZeroType DEF CommitChunk, ReturnChunk, IngestTypeOK
  <2>4. HistoryTypeOK'
    <3>1. Raws(ChunkRows(p, cur[p])) \subseteq Raw
      BY <1>12, ChunkEndBound, ChunkRowsType, RawsType DEF CommitChunk
    <3>2. Cardinality(table) \in Nat /\ Cardinality(saved) \in Nat
      BY FS_CardinalityType DEF FileInv, FiniteInv
    <3> QED
      BY <1>12, <3>1, <3>2 DEF CommitChunk, ReturnChunk, HistoryTypeOK
  <2> QED
    BY <1>12, <2>2, <2>4, FileStep, GotoType, SameTypes DEF CommitChunk, ReturnChunk,
       IngestLabels, PruneLabels, ReadLabels
<1>13. ASSUME NEW p \in Proc, p \in Ingesters, CommitNothing(p) PROVE TypeInv'
  <2>2. IngestTypeOK'
    <3>1. Sum3(total[p], stats[p]) \in Tally
      <4>1. total[p] \in Tally /\ stats[p] \in Tally
        BY <1>13 DEF IngestTypeOK
      <4> QED
        BY <4>1, Sum3Type
    <3> QED
      BY <1>13, <3>1, ZeroType DEF CommitNothing, ReturnChunk, IngestTypeOK
  <2>4. HistoryTypeOK'
    <3>1. Raws(ChunkRows(p, cur[p])) \subseteq Raw
      BY <1>13, ChunkEndBound, ChunkRowsType, RawsType DEF CommitNothing
    <3> QED
      BY <1>13, <3>1 DEF CommitNothing, ReturnChunk, HistoryTypeOK
  <2> QED
    BY <1>13, <2>2, <2>4, FileStep, GotoType, SameTypes DEF CommitNothing,
       ReturnChunk, IngestLabels, PruneLabels, ReadLabels
<1>14. ASSUME NEW p \in Proc, p \in Pruners, EndPruneCount(p) PROVE TypeInv'
  <2>3. ReportTypeOK'
    BY <1>14, DoomedFinite DEF EndPruneCount, EndRead, ReportTypeOK, FileInv, FiniteInv
  <2> QED
    BY <1>14, <2>3, FileStep, GotoType, SameTypes DEF EndPruneCount, EndRead,
       IngestLabels, PruneLabels, ReadLabels
<1>15. ASSUME NEW p \in Proc, p \in Pruners, Confirm(p) PROVE TypeInv'
  BY <1>15, FileStep, GotoType, SameTypes DEF Confirm, IngestLabels, PruneLabels,
     ReadLabels
<1>16. ASSUME NEW p \in Proc, p \in Pruners, BeginStatement(p) PROVE TypeInv'
  BY <1>16, FileStep, GotoType, SameTypes DEF BeginStatement
<1>17. ASSUME NEW p \in Proc, p \in Pruners, Delete(p) PROVE TypeInv'
  <2>1. FileInv'
    <3>1. NotOlder(image[p], Cutoff[p]) \in SUBSET Row
      BY DEF NotOlder, FileInv, FileTypeOK
    <3>2. IsFiniteSet(NotOlder(image[p], Cutoff[p]))
      BY NotOlderFinite DEF FileInv, FiniteInv
    <3> QED
      BY <1>17, <3>1, <3>2, FileStep DEF Delete
  <2>3. ReportTypeOK'
    BY <1>17, DoomedFinite DEF Delete, ReportTypeOK, FileInv, FiniteInv
  <2> QED
    BY <1>17, <2>1, <2>3, FileStep, GotoType, SameTypes DEF Delete, IngestLabels,
       PruneLabels, ReadLabels
<1>18. ASSUME NEW p \in Proc, p \in Pruners, Vacuum(p) PROVE TypeInv'
  <2>1. FileInv'
    <3>1. image[p] \in SUBSET Row /\ IsFiniteSet(image[p])
      BY DEF FileInv, FileTypeOK, FiniteInv
    <3> QED
      BY <1>18, <3>1, FileStep DEF Vacuum
  <2> QED
    BY <1>18, <2>1, FileStep, GotoType, SameTypes DEF Vacuum, IngestLabels,
       PruneLabels, ReadLabels
<1>19. ASSUME NEW p \in Proc, p \in Pruners, CommitDelete(p) PROVE TypeInv'
  <2>4. HistoryTypeOK'
    BY <1>19, RawsType DEF CommitDelete, HistoryTypeOK, FileInv, FileTypeOK
  <2> QED
    BY <1>19, <2>4, FileStep, GotoType, SameTypes DEF CommitDelete, IngestLabels,
       PruneLabels, ReadLabels
<1>20. ASSUME NEW p \in Proc, p \in Pruners, CommitVacuum(p) PROVE TypeInv'
  BY <1>20, FileStep, GotoType, SameTypes DEF CommitVacuum, IngestLabels, PruneLabels,
     ReadLabels
<1>21. ASSUME NEW p \in Proc, p \in Readers, EndCount(p) PROVE TypeInv'
  <2>3. ReportTypeOK'
    <3>1. Cardinality(table) \in Nat
      BY FS_CardinalityType DEF FileInv, FiniteInv
    <3> QED
      BY <1>21, <3>1, AnswerType DEF EndCount, EndRead, ReportTypeOK
  <2> QED
    BY <1>21, <2>3, FileStep, GotoType, SameTypes DEF EndCount, EndRead, IngestLabels,
       PruneLabels, ReadLabels
<1>22. ASSUME NEW p \in Proc, p \in Readers, EndRange(p) PROVE TypeInv'
  <2>3. ReportTypeOK'
    <3>1. {row.ts : row \in table} \subseteq Time
      BY DEF FileInv, FileTypeOK, Row
    <3>2. CASE UNCHANGED answer
      BY <1>22, <3>2 DEF EndRange, EndRead, ReportTypeOK
    <3>3. ASSUME NEW lo \in Time, NEW hi \in Time,
                 answer' = [answer EXCEPT ![p].min = lo, ![p].max = hi]
          PROVE  answer' \in [Readers -> Answer]
      <4>1. answer' = [answer EXCEPT ![p] = [answer[p] EXCEPT !.min = lo, !.max = hi]]
        BY <1>22, <3>3 DEF ReportTypeOK
      <4>2. [answer[p] EXCEPT !.min = lo, !.max = hi] \in Answer
        BY <1>22, AnswerType DEF ReportTypeOK
      <4> QED
        BY <4>1, <4>2 DEF ReportTypeOK
    <3>4. answer' \in [Readers -> Answer]
      BY <1>22, <3>1, <3>2, <3>3 DEF EndRange, ReportTypeOK
    <3> QED
      BY <1>22, <3>4 DEF EndRange, EndRead, ReportTypeOK
  <2> QED
    BY <1>22, <2>3, FileStep, GotoType, SameTypes DEF EndRange, EndRead, IngestLabels,
       PruneLabels, ReadLabels
<1>23. ASSUME NEW p \in Proc, p \in Readers, EndTags(p) PROVE TypeInv'
  <2>3. ReportTypeOK'
    <3>1. {row.tag : row \in table} \in SUBSET (Tag \cup {NoTag})
      BY DEF FileInv, FileTypeOK, Row
    <3> QED
      BY <1>23, <3>1, AnswerType DEF EndTags, EndRead, ReportTypeOK
  <2> QED
    BY <1>23, <2>3, FileStep, GotoType, SameTypes DEF EndTags, EndRead, IngestLabels,
       PruneLabels, ReadLabels
<1>24. ASSUME NEW p \in Proc, p \in Readers, CannotRecover(p) PROVE TypeInv'
  BY <1>24, FileStep, GotoType, SameTypes DEF CannotRecover, Fail, IngestLabels,
     PruneLabels, ReadLabels
<1>25. ASSUME NEW p \in Proc, p \in Readers, Request(p) PROVE TypeInv'
  <2>3. ReportTypeOK'
    BY <1>25, RowsAssumption DEF Request, ReportTypeOK, NoAnswer, Answer
  <2> QED
    BY <1>25, <2>3, FileStep, GotoType, SameTypes DEF Request, IngestLabels,
       PruneLabels, ReadLabels
<1>26. ASSUME NEW p \in Proc, BusyTimeout(p) PROVE TypeInv'
  BY <1>26, FileStep, GotoType, SameTypes DEF BusyTimeout, Fail, IngestLabels,
     PruneLabels, ReadLabels
<1>27. ASSUME NEW p \in Proc, Die(p) PROVE TypeInv'
  BY <1>27, FileStep, GotoType, SameTypes DEF Die, IngestLabels, PruneLabels, ReadLabels
<1>28. ASSUME NEW p \in Proc, Rerun(p) PROVE TypeInv'
  <2>2. IngestTypeOK'
    <3>1. <<>> \in Seq(Entry)
      OBVIOUS
    <3>2. CASE p \in Ingesters
      <4>0. /\ pos' = [pos EXCEPT ![p] = 0]
            /\ batch' = [batch EXCEPT ![p] = <<>>]
            /\ stored' = [stored EXCEPT ![p] = 0]
            /\ cur' = [cur EXCEPT ![p] = 0]
            /\ stats' = [stats EXCEPT ![p] = Zero]
            /\ total' = [total EXCEPT ![p] = Zero]
            /\ malformed' = [malformed EXCEPT ![p] = 0]
        BY <1>28, <3>2 DEF Rerun
      <4>1. pos' \in [Ingesters -> Nat] /\ batch' \in [Ingesters -> Seq(Entry)]
        BY <4>0, <3>1, <3>2 DEF IngestTypeOK
      <4>2. stored' \in [Ingesters -> Nat] /\ cur' \in [Ingesters -> Nat]
        BY <4>0, <3>2 DEF IngestTypeOK
      <4>3. stats' \in [Ingesters -> Tally] /\ total' \in [Ingesters -> Tally]
        BY <4>0, <3>2, ZeroType DEF IngestTypeOK
      <4>4. malformed' \in [Ingesters -> Nat]
        BY <4>0, <3>2 DEF IngestTypeOK
      <4> QED
        BY <4>1, <4>2, <4>3, <4>4 DEF IngestTypeOK
    <3>3. CASE p \notin Ingesters
      BY <1>28, <3>3, SameTypes DEF Rerun
    <3> QED
      BY <3>2, <3>3
  <2>3. ReportTypeOK'
    <3>1. CASE p \in Ingesters
      BY <1>28, <3>1 DEF Rerun, ReportTypeOK
    <3>2. CASE p \notin Ingesters
      <4>0. count' = [count EXCEPT ![p] = 0] /\ deleted' = [deleted EXCEPT ![p] = 0]
        BY <1>28, <3>2 DEF Rerun
      <4>1. count' \in [Pruners -> Nat] /\ deleted' \in [Pruners -> Nat]
        BY <4>0 DEF ReportTypeOK
      <4> QED
        BY <1>28, <4>1 DEF Rerun, ReportTypeOK
    <3> QED
      BY <3>1, <3>2
  <2>4. HistoryTypeOK'
    BY <1>28 DEF Rerun, HistoryTypeOK
  <2> QED
    BY <1>28, <2>2, <2>3, <2>4, FileStep, GotoType, SameTypes DEF Rerun, IngestLabels,
       PruneLabels, ReadLabels
<1>29. CASE UNCHANGED vars
  BY <1>29, SameTypes DEF vars, FileInv, fileVars, FileTypeOK, FiniteInv
<1> QED
  BY <1>1, <1>2, <1>3, <1>4, <1>5, <1>6, <1>7, <1>8, <1>9, <1>10, <1>11, <1>12, <1>13,
     <1>14, <1>15, <1>16, <1>17, <1>18, <1>19, <1>20, <1>21, <1>22, <1>23, <1>24,
     <1>25, <1>26, <1>27, <1>28, <1>29 DEF Next, Step, IngestStep, PruneStep,
     StatsStep

\* Every reachable state is well typed, whatever the sources, batch sizes, kills
\* and reruns: in particular every row of the table and of an open transaction
\* has a timestamp (IndexStore's SkipEntry, indexer.rs insert_one_chunk).
THEOREM TypeCorrect == Spec => []TypeOK
<1>1. TypeInv => TypeOK
  BY DEF TypeInv, FileInv, TypeOK
<1> QED
  BY <1>1, TypeInit, TypeStep, PTL DEF Spec

-----------------------------------------------------------------------------
(* The locks and the committed content, operator by operator.              *)

\* A transaction's operators other than the commit point.
Quiet(p) ==
    \/ AcquireShared(p) \/ ReleaseShared(p) \/ AcquireReserved(p)
    \/ AcquirePending(p) \/ AcquireExclusive(p) \/ WriteBack(p) \/ Drop(p)
    \/ \E new : Modify(p, new)
    \/ UNCHANGED fileVars

LEMMA LockStep ==
    ASSUME NEW p \in Proc, FileTypeOK, LockInv, Quiet(p) \/ DeleteJournal(p)
    PROVE  LockInv'
<1> USE DEF FileTypeOK, LockInv, Lock, Writer, Writing
<1>1. CASE AcquireShared(p)
  BY <1>1 DEF AcquireShared, CanShare, Recover
<1>2. CASE ReleaseShared(p)
  BY <1>2 DEF ReleaseShared
<1>3. CASE AcquireReserved(p)
  BY <1>3 DEF AcquireReserved, CanReserve, Recover
<1>4. CASE AcquirePending(p)
  BY <1>4 DEF AcquirePending
<1>5. CASE AcquireExclusive(p)
  BY <1>5 DEF AcquireExclusive, CanOwn
<1>6. CASE WriteBack(p)
  BY <1>6 DEF WriteBack
<1>7. CASE Drop(p)
  BY <1>7 DEF Drop
<1>8. CASE \E new : Modify(p, new)
  BY <1>8 DEF Modify
<1>9. CASE UNCHANGED fileVars
  BY <1>9 DEF fileVars
<1>10. CASE DeleteJournal(p)
  BY <1>10 DEF DeleteJournal
<1> QED
  BY <1>1, <1>2, <1>3, <1>4, <1>5, <1>6, <1>7, <1>8, <1>9, <1>10 DEF Quiet

LEMMA CommittedSame ==
    ASSUME NEW p \in Proc, FileTypeOK, Quiet(p)
    PROVE  Committed' = Committed
BY DEF Quiet, FileTypeOK, Committed, Recover, fileVars, AcquireShared, ReleaseShared,
   AcquireReserved, AcquirePending, AcquireExclusive, WriteBack, Drop, Modify

LEMMA CommittedNew ==
    ASSUME NEW p \in Proc, FileTypeOK, LockInv, DeleteJournal(p)
    PROVE  /\ Committed' = image[p]
           /\ \A q \in Proc \ {p} : lock[q] = "none"
BY DEF FileTypeOK, LockInv, Committed, DeleteJournal

-----------------------------------------------------------------------------
(* What a step of p leaves alone in the other processes.                   *)

LeavesOthers(p) ==
    \A q \in Proc \ {p} :
        /\ lock'[q] = lock[q] /\ image'[q] = image[q] /\ pc'[q] = pc[q]
        /\ q \in Ingesters => /\ batch'[q] = batch[q]
                              /\ stored'[q] = stored[q]
                              /\ cur'[q] = cur[q]

LEMMA OthersOK ==
    ASSUME NEW p \in Proc, StoreInv, LeavesOthers(p),
           Committed' = Committed \/ \A q \in Proc \ {p} : lock[q] = "none"
    PROVE  \A q \in Proc \ {p} : ProcOK(q)'
<1> SUFFICES ASSUME NEW q \in Proc \ {p} PROVE ProcOK(q)'
  OBVIOUS
<1> USE DEF LeavesOthers
<1>0. ProcOK(q)
  BY DEF StoreInv
<1>1. q \in Ingesters => /\ ChunkEnd(q)' = ChunkEnd(q)
                         /\ ChunkRows(q, cur[q])' = ChunkRows(q, cur[q])
  BY DEF ChunkEnd, ChunkRows
<1>2. PlaceOK(q)'
  BY <1>0, <1>1 DEF ProcOK, PlaceOK, Writer
<1>3. q \in Ingesters => BatchOK(q)'
  BY <1>0, <1>1 DEF ProcOK, BatchOK
<1>4. q \in Ingesters => IngestImage(q)'
  BY <1>0, <1>1 DEF ProcOK, IngestImage, Writer, Writing
<1>5. q \in Pruners => PruneImage(q)'
  BY <1>0 DEF ProcOK, PruneImage, Writer, Writing
<1> QED
  BY <1>2, <1>3, <1>4, <1>5 DEF ProcOK

-----------------------------------------------------------------------------
(* Frame: a step of p changes no other process, and it keeps the committed *)
(* content unless it is one of the three commits.                          *)

ProcNext(p) ==
    \/ Step(p)
    \/ p \in Readers /\ Request(p)
    \/ p \in Pruners /\ Confirm(p)
    \/ BusyTimeout(p) \/ Die(p) \/ Rerun(p)

Commits(p) ==
    \/ p \in Ingesters /\ CommitChunk(p)
    \/ p \in Pruners /\ (CommitDelete(p) \/ CommitVacuum(p))

LEMMA Frame ==
    ASSUME TypeInv, NEW p \in Proc, ProcNext(p)
    PROVE  LeavesOthers(p) /\ (Quiet(p) \/ (Commits(p) /\ DeleteJournal(p)))
<1> USE StoreAssumption
<1>0. FileTypeOK /\ PcTypeOK /\ IngestTypeOK
  BY DEF TypeInv, FileInv
<1>1. CASE BeginRead(p)
  <2>1. Quiet(p)
    BY <1>1 DEF BeginRead, Quiet
  <2>2. LeavesOthers(p)
    BY <1>1, <1>0 DEF BeginRead, AcquireShared, Recover, LeavesOthers,
       ingestVars, FileTypeOK, PcTypeOK, IngestTypeOK
  <2> QED
    BY <2>1, <2>2
<1>2. CASE EndOpen(p)
  <2>1. Quiet(p)
    BY <1>2 DEF EndOpen, EndRead, Quiet
  <2>2. LeavesOthers(p)
    BY <1>2, <1>0 DEF EndOpen, EndRead, ReleaseShared, Goto, LeavesOthers,
       ingestVars, FileTypeOK, PcTypeOK, IngestTypeOK
  <2> QED
    BY <2>1, <2>2
<1>3. CASE CommitStep(p)
  <2>1. Quiet(p)
    BY <1>3 DEF CommitStep, Quiet
  <2>2. LeavesOthers(p)
    BY <1>3, <1>0 DEF CommitStep, AcquirePending, AcquireExclusive, WriteBack,
       LeavesOthers, ingestVars, FileTypeOK, PcTypeOK, IngestTypeOK
  <2> QED
    BY <2>1, <2>2
<1>4. CASE p \in Ingesters /\ ReadLine(p)
  <2>1. Quiet(p)
    BY <1>4 DEF ReadLine, Quiet
  <2>2. LeavesOthers(p)
    BY <1>4, <1>0 DEF ReadLine, fileVars, LeavesOthers, FileTypeOK, PcTypeOK,
       IngestTypeOK
  <2> QED
    BY <2>1, <2>2
<1>5. CASE p \in Ingesters /\ HandOver(p)
  <2>1. Quiet(p)
    BY <1>5 DEF HandOver, Quiet
  <2>2. LeavesOthers(p)
    BY <1>5, <1>0 DEF HandOver, fileVars, Goto, LeavesOthers, ingestVars,
       FileTypeOK, PcTypeOK, IngestTypeOK
  <2> QED
    BY <2>1, <2>2
<1>6. CASE p \in Ingesters /\ Finish(p)
  <2>1. Quiet(p)
    BY <1>6 DEF Finish, Quiet
  <2>2. LeavesOthers(p)
    BY <1>6, <1>0 DEF Finish, fileVars, Goto, LeavesOthers, ingestVars,
       FileTypeOK, PcTypeOK, IngestTypeOK
  <2> QED
    BY <2>1, <2>2
<1>7. CASE p \in Ingesters /\ StartChunk(p)
  <2>1. Quiet(p)
    BY <1>7 DEF StartChunk, Quiet
  <2>2. LeavesOthers(p)
    BY <1>7, <1>0 DEF StartChunk, fileVars, Goto, LeavesOthers, ingestVars,
       FileTypeOK, PcTypeOK, IngestTypeOK
  <2> QED
    BY <2>1, <2>2
<1>8. CASE p \in Ingesters /\ FinishBatch(p)
  <2>1. Quiet(p)
    BY <1>8 DEF FinishBatch, Quiet
  <2>2. LeavesOthers(p)
    BY <1>8, <1>0 DEF FinishBatch, fileVars, Goto, LeavesOthers, FileTypeOK,
       PcTypeOK, IngestTypeOK
  <2> QED
    BY <2>1, <2>2
<1>9. CASE p \in Ingesters /\ SkipEntry(p)
  <2>1. Quiet(p)
    BY <1>9 DEF SkipEntry, Quiet
  <2>2. LeavesOthers(p)
    BY <1>9, <1>0 DEF SkipEntry, fileVars, LeavesOthers, FileTypeOK, PcTypeOK,
       IngestTypeOK
  <2> QED
    BY <2>1, <2>2
<1>10. CASE p \in Ingesters /\ BecomeWriter(p)
  <2>1. Quiet(p)
    BY <1>10 DEF BecomeWriter, Quiet
  <2>2. LeavesOthers(p)
    BY <1>10, <1>0 DEF BecomeWriter, AcquireReserved, Recover, LeavesOthers,
       ingestVars, FileTypeOK, PcTypeOK, IngestTypeOK
  <2> QED
    BY <2>1, <2>2
<1>11. CASE p \in Ingesters /\ InsertOrIgnore(p)
  <2>1. Quiet(p)
    BY <1>11 DEF InsertOrIgnore, Quiet
  <2>2. LeavesOthers(p)
    BY <1>11, <1>0 DEF InsertOrIgnore, Modify, LeavesOthers, FileTypeOK,
       PcTypeOK, IngestTypeOK
  <2> QED
    BY <2>1, <2>2
<1>12. CASE p \in Ingesters /\ CommitChunk(p)
  <2>1. Commits(p) /\ DeleteJournal(p)
    BY <1>12 DEF CommitChunk, ReturnChunk, Commits
  <2>2. LeavesOthers(p)
    BY <1>12, <1>0 DEF CommitChunk, ReturnChunk, DeleteJournal, Goto,
       LeavesOthers, FileTypeOK, PcTypeOK, IngestTypeOK
  <2> QED
    BY <2>1, <2>2
<1>13. CASE p \in Ingesters /\ CommitNothing(p)
  <2>1. Quiet(p)
    BY <1>13 DEF CommitNothing, ReturnChunk, Quiet
  <2>2. LeavesOthers(p)
    BY <1>13, <1>0 DEF CommitNothing, ReturnChunk, fileVars, Goto, LeavesOthers,
       FileTypeOK, PcTypeOK, IngestTypeOK
  <2> QED
    BY <2>1, <2>2
<1>14. CASE p \in Pruners /\ EndPruneCount(p)
  <2>1. Quiet(p)
    BY <1>14 DEF EndPruneCount, EndRead, Quiet
  <2>2. LeavesOthers(p)
    BY <1>14, <1>0 DEF EndPruneCount, EndRead, ReleaseShared, Goto,
       LeavesOthers, ingestVars, FileTypeOK, PcTypeOK, IngestTypeOK
  <2> QED
    BY <2>1, <2>2
<1>15. CASE p \in Pruners /\ Confirm(p)
  <2>1. Quiet(p)
    BY <1>15 DEF Confirm, Quiet
  <2>2. LeavesOthers(p)
    BY <1>15, <1>0 DEF Confirm, fileVars, Goto, LeavesOthers, ingestVars,
       FileTypeOK, PcTypeOK, IngestTypeOK
  <2> QED
    BY <2>1, <2>2
<1>16. CASE p \in Pruners /\ BeginStatement(p)
  <2>1. Quiet(p)
    BY <1>16 DEF BeginStatement, Quiet
  <2>2. LeavesOthers(p)
    BY <1>16, <1>0 DEF BeginStatement, AcquireReserved, Recover, LeavesOthers,
       ingestVars, FileTypeOK, PcTypeOK, IngestTypeOK
  <2> QED
    BY <2>1, <2>2
<1>17. CASE p \in Pruners /\ Delete(p)
  <2>1. Quiet(p)
    BY <1>17 DEF Delete, Quiet
  <2>2. LeavesOthers(p)
    BY <1>17, <1>0 DEF Delete, Modify, Goto, LeavesOthers, ingestVars,
       FileTypeOK, PcTypeOK, IngestTypeOK
  <2> QED
    BY <2>1, <2>2
<1>18. CASE p \in Pruners /\ Vacuum(p)
  <2>1. Quiet(p)
    BY <1>18 DEF Vacuum, Quiet
  <2>2. LeavesOthers(p)
    BY <1>18, <1>0 DEF Vacuum, Modify, Goto, LeavesOthers, ingestVars,
       FileTypeOK, PcTypeOK, IngestTypeOK
  <2> QED
    BY <2>1, <2>2
<1>19. CASE p \in Pruners /\ CommitDelete(p)
  <2>1. Commits(p) /\ DeleteJournal(p)
    BY <1>19 DEF CommitDelete, Commits
  <2>2. LeavesOthers(p)
    BY <1>19, <1>0 DEF CommitDelete, DeleteJournal, Goto, LeavesOthers,
       ingestVars, FileTypeOK, PcTypeOK, IngestTypeOK
  <2> QED
    BY <2>1, <2>2
<1>20. CASE p \in Pruners /\ CommitVacuum(p)
  <2>1. Commits(p) /\ DeleteJournal(p)
    BY <1>20 DEF CommitVacuum, Commits
  <2>2. LeavesOthers(p)
    BY <1>20, <1>0 DEF CommitVacuum, DeleteJournal, Goto, LeavesOthers,
       ingestVars, FileTypeOK, PcTypeOK, IngestTypeOK
  <2> QED
    BY <2>1, <2>2
<1>21. CASE p \in Readers /\ EndCount(p)
  <2>1. Quiet(p)
    BY <1>21 DEF EndCount, EndRead, Quiet
  <2>2. LeavesOthers(p)
    BY <1>21, <1>0 DEF EndCount, EndRead, ReleaseShared, Goto, LeavesOthers,
       ingestVars, FileTypeOK, PcTypeOK, IngestTypeOK
  <2> QED
    BY <2>1, <2>2
<1>22. CASE p \in Readers /\ EndRange(p)
  <2>1. Quiet(p)
    BY <1>22 DEF EndRange, EndRead, Quiet
  <2>2. LeavesOthers(p)
    BY <1>22, <1>0 DEF EndRange, EndRead, ReleaseShared, Goto, LeavesOthers,
       ingestVars, FileTypeOK, PcTypeOK, IngestTypeOK
  <2> QED
    BY <2>1, <2>2
<1>23. CASE p \in Readers /\ EndTags(p)
  <2>1. Quiet(p)
    BY <1>23 DEF EndTags, EndRead, Quiet
  <2>2. LeavesOthers(p)
    BY <1>23, <1>0 DEF EndTags, EndRead, ReleaseShared, Goto, LeavesOthers,
       ingestVars, FileTypeOK, PcTypeOK, IngestTypeOK
  <2> QED
    BY <2>1, <2>2
<1>24. CASE p \in Readers /\ CannotRecover(p)
  <2>1. Quiet(p)
    BY <1>24 DEF CannotRecover, Fail, Quiet
  <2>2. LeavesOthers(p)
    BY <1>24, <1>0 DEF CannotRecover, Fail, Drop, Goto, LeavesOthers,
       ingestVars, FileTypeOK, PcTypeOK, IngestTypeOK
  <2> QED
    BY <2>1, <2>2
<1>25. CASE p \in Readers /\ Request(p)
  <2>1. Quiet(p)
    BY <1>25 DEF Request, Quiet
  <2>2. LeavesOthers(p)
    BY <1>25, <1>0 DEF Request, fileVars, Goto, LeavesOthers, ingestVars,
       FileTypeOK, PcTypeOK, IngestTypeOK
  <2> QED
    BY <2>1, <2>2
<1>26. CASE BusyTimeout(p)
  <2>1. Quiet(p)
    BY <1>26 DEF BusyTimeout, Fail, Quiet
  <2>2. LeavesOthers(p)
    BY <1>26, <1>0 DEF BusyTimeout, Fail, Drop, Goto, LeavesOthers, ingestVars,
       FileTypeOK, PcTypeOK, IngestTypeOK
  <2> QED
    BY <2>1, <2>2
<1>27. CASE Die(p)
  <2>1. Quiet(p)
    BY <1>27 DEF Die, Quiet
  <2>2. LeavesOthers(p)
    BY <1>27, <1>0 DEF Die, Drop, Goto, LeavesOthers, ingestVars, FileTypeOK,
       PcTypeOK, IngestTypeOK
  <2> QED
    BY <2>1, <2>2
<1>28. CASE Rerun(p)
  <2>1. Quiet(p)
    BY <1>28 DEF Rerun, Quiet
  <2>2. LeavesOthers(p)
    <3>1. /\ UNCHANGED fileVars /\ pc' = [pc EXCEPT ![p] = "open"]
          /\ batch' = batch \/ (p \in Ingesters /\ batch' = [batch EXCEPT ![p] = <<>>])
          /\ stored' = stored \/ (p \in Ingesters /\ stored' = [stored EXCEPT ![p] = 0])
          /\ cur' = cur \/ (p \in Ingesters /\ cur' = [cur EXCEPT ![p] = 0])
      <4>1. CASE p \in Ingesters
        BY <1>28, <4>1 DEF Rerun, Goto
      <4>2. CASE p \notin Ingesters
        <5>1. UNCHANGED <<fileVars, ingestVars>> /\ Goto(p, "open")
          BY <1>28, <4>2 DEF Rerun
        <5> QED
          BY <5>1 DEF Goto, ingestVars
      <4> QED
        BY <4>1, <4>2
    <3> QED
      BY <1>0, <3>1 DEF LeavesOthers, fileVars, PcTypeOK, IngestTypeOK
  <2> QED
    BY <2>1, <2>2
<1> QED
  BY <1>1, <1>2, <1>3, <1>4, <1>5, <1>6, <1>7, <1>8, <1>9, <1>10, <1>11, <1>12,
     <1>13, <1>14, <1>15, <1>16, <1>17, <1>18, <1>19, <1>20, <1>21, <1>22, <1>23,
     <1>24, <1>25, <1>26, <1>27, <1>28 DEF ProcNext, Step, IngestStep, PruneStep,
     StatsStep

-----------------------------------------------------------------------------
(* The steps of a process, in a transaction and outside.                   *)

LEMMA KeepsStoreInv ==
    ASSUME NEW p \in Proc, FileTypeOK, StoreInv, Quiet(p), LeavesOthers(p), ProcOK(p)'
    PROVE  StoreInv'
<1>1. LockInv'
  BY LockStep DEF StoreInv
<1>2. Committed' = Committed
  BY CommittedSame
<1>3. \A q \in Proc \ {p} : ProcOK(q)'
  BY <1>2, OthersOK
<1> QED
  BY <1>1, <1>2, <1>3 DEF StoreInv, UniqueRaws

\* A process that is not in a transaction that writes.
Outside(p) ==
    /\ lock[p] \in {"none", "shared"}
    /\ lock[p] = "shared" => pc[p] \in Reading
    /\ pc[p] \notin {"insert", "commit", "compact"}

LEMMA OutsideOK ==
    ASSUME NEW p \in Proc, Outside(p)', p \in Ingesters => BatchOK(p)'
    PROVE  ProcOK(p)'
<1>1. PlaceOK(p)'
  BY DEF Outside, PlaceOK, Writer, Writing, Reading
<1>2. p \in Ingesters => IngestImage(p)'
  BY DEF Outside, IngestImage, Writer, Writing
<1>3. p \in Pruners => PruneImage(p)'
  BY DEF Outside, PruneImage, Writer, Writing
<1> QED
  BY <1>1, <1>2, <1>3 DEF ProcOK

\* A step of a process that is outside of a transaction afterwards ...
LEMMA OutsideStep ==
    ASSUME NEW p \in Proc, FileTypeOK, StoreInv, Quiet(p), LeavesOthers(p), Outside(p)',
           p \in Ingesters => BatchOK(p)'
    PROVE  StoreInv'
BY OutsideOK, KeepsStoreInv

\* ... because it has just committed.
LEMMA CommitStoreInv ==
    ASSUME NEW p \in Proc, FileTypeOK, StoreInv, DeleteJournal(p), LeavesOthers(p),
           UniqueRaws(image[p]), Outside(p)', p \in Ingesters => BatchOK(p)'
    PROVE  StoreInv'
<1>1. LockInv'
  BY LockStep DEF StoreInv
<1>2. Committed' = image[p] /\ \A q \in Proc \ {p} : lock[q] = "none"
  BY CommittedNew DEF StoreInv
<1>3. \A q \in Proc \ {p} : ProcOK(q)'
  BY <1>2, OthersOK
<1> QED
  BY <1>1, <1>2, <1>3, OutsideOK DEF StoreInv, UniqueRaws

LEMMA SameChunk ==
    ASSUME NEW i, UNCHANGED <<batch, stored, cur>>
    PROVE  /\ ChunkEnd(i)' = ChunkEnd(i)
           /\ ChunkRows(i, cur[i])' = ChunkRows(i, cur[i])
BY DEF ChunkEnd, ChunkRows

\* What StoreInv says in the parts that the proofs below use.
LEMMA StoreParts ==
    ASSUME TypeInv, StoreInv
    PROVE  /\ FileTypeOK /\ PcTypeOK /\ IngestTypeOK
           /\ LockInv /\ UniqueRaws(Committed)
           /\ \A p \in Proc : ProcOK(p)
BY DEF TypeInv, FileInv, StoreInv

\* The rows of a chunk grow by the next entry, if it has a timestamp.
LEMMA ChunkRowsNext ==
    ASSUME NEW i \in Ingesters, IngestTypeOK, stored[i] <= cur[i]
    PROVE  ChunkRows(i, cur[i] + 1) =
             ChunkRows(i, cur[i])
               \cup (IF Current(i).ts # NoTime THEN {Current(i)} ELSE {})
<1>1. stored[i] \in Nat /\ cur[i] \in Nat
  BY DEF IngestTypeOK
<1>2. stored[i] + 1 .. cur[i] + 1 = (stored[i] + 1 .. cur[i]) \cup {cur[i] + 1}
  BY <1>1
<1> QED
  BY <1>2 DEF ChunkRows, Current

LEMMA NoChunkRows ==
    ASSUME NEW i \in Ingesters, IngestTypeOK, NEW last, last = stored[i]
    PROVE  ChunkRows(i, last) = {}
<1>1. stored[i] + 1 .. last = {}
  BY DEF IngestTypeOK
<1> QED
  BY <1>1 DEF ChunkRows

LEMMA SameIngestImage ==
    ASSUME NEW i, IngestImage(i), Committed' = Committed, image'[i] = image[i],
           ChunkRows(i, cur[i])' = ChunkRows(i, cur[i]), pc'[i] = pc[i],
           Writer(i)' <=> Writer(i), lock'[i] = "none" <=> lock[i] = "none"
    PROVE  IngestImage(i)'
BY DEF IngestImage

LEMMA StartChunkInv ==
    ASSUME TypeInv, StoreInv, NEW p \in Ingesters, StartChunk(p)
    PROVE  StoreInv'
<1> USE StoreAssumption, StoreParts
<1>1. UNCHANGED <<fileVars, ingestVars>> /\ pc[p] = "batch" /\ pc' = [pc EXCEPT ![p] = "insert"]
  BY DEF StartChunk, Goto
<1>2. ChunkEnd(p)' = ChunkEnd(p) /\ ChunkRows(p, cur[p])' = ChunkRows(p, cur[p])
  BY <1>1, SameChunk DEF ingestVars
<1>3. lock[p] = "none"
  BY <1>1 DEF ProcOK, PlaceOK, Reading, Writer, Writing, FileTypeOK, Lock
<1>4. cur[p] = stored[p] /\ cur[p] < Len(batch[p])
  BY <1>1 DEF StartChunk, ProcOK, BatchOK
<1>5. PlaceOK(p)'
  BY <1>1, <1>3 DEF PlaceOK, Writer, Writing, PcTypeOK, fileVars
<1>6. BatchOK(p)'
  <2>1. cur[p] <= ChunkEnd(p)
    BY <1>4 DEF ChunkEnd, IngestTypeOK
  <2> QED
    BY <2>1, <1>1, <1>2, <1>4 DEF BatchOK, ingestVars, PcTypeOK, IngestTypeOK
<1>7. IngestImage(p)'
  BY <1>1, <1>2, <1>3, <1>4, NoChunkRows DEF IngestImage, Writer, Writing, fileVars
<1>8. ProcOK(p)'
  BY <1>5, <1>6, <1>7 DEF ProcOK
<1>9. Quiet(p) /\ LeavesOthers(p)
  BY <1>1 DEF Quiet, LeavesOthers, fileVars, ingestVars, PcTypeOK
<1> QED
  BY <1>8, <1>9, KeepsStoreInv

LEMMA SkipEntryInv ==
    ASSUME TypeInv, StoreInv, NEW p \in Ingesters, SkipEntry(p)
    PROVE  StoreInv'
<1> USE StoreAssumption, StoreParts
<1>1. /\ UNCHANGED <<fileVars, pc, batch, stored>> /\ cur' = [cur EXCEPT ![p] = @ + 1]
      /\ pc[p] = "insert" /\ cur[p] < ChunkEnd(p) /\ Current(p).ts = NoTime
  BY DEF SkipEntry, InChunk
<1>2. cur[p] \in Nat /\ cur'[p] = cur[p] + 1 /\ ChunkEnd(p)' = ChunkEnd(p)
  BY <1>1 DEF IngestTypeOK, ChunkEnd
<1>3. BatchOK(p)
  BY DEF ProcOK
<1>4. ChunkRows(p, cur[p])' = ChunkRows(p, cur[p])
  <2>1. ChunkRows(p, cur[p])' = ChunkRows(p, cur[p] + 1)
    BY <1>1, <1>2 DEF ChunkRows
  <2> QED
    BY <2>1, <1>1, <1>3, ChunkRowsNext DEF BatchOK
<1>5. ChunkEnd(p) \in Nat /\ ChunkEnd(p) <= Len(batch[p])
  BY ChunkEndBound
<1>6. BatchOK(p)'
  BY <1>1, <1>2, <1>3, <1>5 DEF BatchOK, IngestTypeOK
<1>7. PlaceOK(p)'
  BY <1>1, <1>2 DEF ProcOK, PlaceOK, Writer, fileVars
<1>8. IngestImage(p)'
  BY <1>1, <1>4, SameIngestImage DEF ProcOK, Writer, Committed, fileVars
<1>9. ProcOK(p)'
  BY <1>6, <1>7, <1>8 DEF ProcOK
<1>10. Quiet(p) /\ LeavesOthers(p)
  BY <1>1 DEF Quiet, LeavesOthers, fileVars, IngestTypeOK
<1> QED
  BY <1>9, <1>10, KeepsStoreInv

LEMMA BecomeWriterInv ==
    ASSUME TypeInv, StoreInv, NEW p \in Ingesters, BecomeWriter(p)
    PROVE  StoreInv'
<1> USE StoreAssumption, StoreParts
<1>1. /\ UNCHANGED <<pc, batch, stored, cur>> /\ AcquireReserved(p) /\ pc[p] = "insert"
  BY DEF BecomeWriter, InChunk, ingestVars
<1>2. /\ lock[p] = "none" /\ lock'[p] = "reserved" /\ image'[p] = Committed
      /\ \A q \in Proc \ {p} : lock'[q] = lock[q] /\ image'[q] = image[q]
  BY <1>1 DEF AcquireReserved, FileTypeOK
<1>3. Quiet(p) /\ Committed' = Committed
  BY <1>1, CommittedSame DEF Quiet
<1>4. ChunkEnd(p)' = ChunkEnd(p) /\ ChunkRows(p, cur[p])' = ChunkRows(p, cur[p])
  BY <1>1, SameChunk
<1>5. PlaceOK(p)'
  BY <1>1, <1>2, <1>4 DEF PlaceOK, Writer, Writing
<1>6. BatchOK(p)'
  BY <1>1, <1>4 DEF ProcOK, BatchOK
<1>7. IngestImage(p)'
  <2>1. ChunkRows(p, cur[p]) = {}
    BY <1>1, <1>2 DEF ProcOK, IngestImage
  <2> QED
    BY <2>1, <1>2, <1>3, <1>4 DEF IngestImage, Extends, Raws
<1>8. ProcOK(p)'
  BY <1>5, <1>6, <1>7 DEF ProcOK
<1>9. LeavesOthers(p)
  BY <1>1, <1>2 DEF LeavesOthers
<1> QED
  BY <1>3, <1>8, <1>9, KeepsStoreInv

\* INSERT OR IGNORE on the image of a transaction.
InsertInto(img, e) == IF e.raw \in Raws(img) THEN img ELSE img \cup {e}

LEMMA InsertImage ==
    ASSUME NEW base, NEW img, NEW rows, NEW e, Extends(img, base, rows)
    PROVE  Extends(InsertInto(img, e), base, rows \cup {e})
<1> USE DEF Extends, InsertInto
<1>1. Raws(rows \cup {e}) = Raws(rows) \cup {e.raw}
  BY DEF Raws
<1>2. CASE e.raw \in Raws(img)
  BY <1>1, <1>2
<1>3. CASE e.raw \notin Raws(img)
  <2>1. Raws(img \cup {e}) = Raws(img) \cup {e.raw}
    BY DEF Raws
  <2>2. UniqueRaws(img \cup {e})
    BY <1>3 DEF UniqueRaws, Raws
  <2> QED
    BY <1>1, <1>3, <2>1, <2>2
<1> QED
  BY <1>2, <1>3

LEMMA InsertInv ==
    ASSUME TypeInv, StoreInv, NEW p \in Ingesters, InsertOrIgnore(p)
    PROVE  StoreInv'
<1> USE StoreAssumption, StoreParts
<1> DEFINE new == InsertInto(image[p], Current(p))
<1>1. /\ UNCHANGED <<pc, batch, stored>> /\ cur' = [cur EXCEPT ![p] = @ + 1]
      /\ pc[p] = "insert" /\ cur[p] < ChunkEnd(p) /\ Current(p).ts # NoTime
      /\ Modify(p, new)
  BY DEF InsertOrIgnore, InChunk, InsertInto
<1>2. /\ lock[p] = "reserved" /\ UNCHANGED lock /\ image'[p] = new
      /\ \A q \in Proc \ {p} : image'[q] = image[q]
  BY <1>1 DEF Modify, FileTypeOK
<1> HIDE DEF new
<1>3. cur[p] \in Nat /\ cur'[p] = cur[p] + 1 /\ ChunkEnd(p)' = ChunkEnd(p)
  BY <1>1 DEF IngestTypeOK, ChunkEnd
<1>4. BatchOK(p) /\ IngestImage(p)
  BY DEF ProcOK
<1>5. ChunkRows(p, cur[p])' = ChunkRows(p, cur[p]) \cup {Current(p)}
  <2>1. ChunkRows(p, cur[p])' = ChunkRows(p, cur[p] + 1)
    BY <1>1, <1>3 DEF ChunkRows
  <2> QED
    BY <2>1, <1>1, <1>4, ChunkRowsNext DEF BatchOK
<1>6. ChunkEnd(p) \in Nat /\ ChunkEnd(p) <= Len(batch[p])
  BY ChunkEndBound
<1>7. Quiet(p) /\ Committed' = Committed
  BY <1>1, CommittedSame DEF Quiet
<1>8. BatchOK(p)'
  BY <1>1, <1>3, <1>4, <1>6 DEF BatchOK, IngestTypeOK
<1>9. PlaceOK(p)'
  BY <1>1, <1>2 DEF PlaceOK, Writer, Writing
<1>10. IngestImage(p)'
  <2>1. Extends(image[p], Committed, ChunkRows(p, cur[p]))
    BY <1>2, <1>4 DEF IngestImage, Writer, Writing
  <2>2. Extends(new, Committed, ChunkRows(p, cur[p]) \cup {Current(p)})
    BY <2>1, InsertImage DEF new
  <2> QED
    BY <2>2, <1>2, <1>5, <1>7 DEF IngestImage
<1>11. ProcOK(p)'
  BY <1>8, <1>9, <1>10 DEF ProcOK
<1>12. LeavesOthers(p)
  BY <1>1, <1>2 DEF LeavesOthers, IngestTypeOK
<1> QED
  BY <1>7, <1>11, <1>12, KeepsStoreInv

LEMMA CommitStepInv ==
    ASSUME TypeInv, StoreInv, NEW p \in Proc, CommitStep(p)
    PROVE  StoreInv'
<1> USE StoreAssumption, StoreParts
<1>1. /\ ReadyToCommit(p) /\ UNCHANGED <<pc, batch, stored, cur>>
      /\ AcquirePending(p) \/ AcquireExclusive(p) \/ WriteBack(p)
  BY DEF CommitStep, ingestVars
<1>2. /\ Writer(p) /\ Writer(p)' /\ UNCHANGED image /\ lock'[p] # "shared"
      /\ \A q \in Proc \ {p} : lock'[q] = lock[q]
  BY <1>1 DEF AcquirePending, AcquireExclusive, WriteBack, Writer, Writing, FileTypeOK
<1>3. Quiet(p) /\ Committed' = Committed
  BY <1>1, CommittedSame DEF Quiet
<1>4. ChunkEnd(p)' = ChunkEnd(p) /\ ChunkRows(p, cur[p])' = ChunkRows(p, cur[p])
  BY <1>1, SameChunk
<1>5. p \in Ingesters => pc[p] = "insert" /\ cur[p] = ChunkEnd(p)
  BY <1>1 DEF ReadyToCommit, PcTypeOK, IngestLabels
<1>6. PlaceOK(p)'
  <2>1. pc[p] \notin {"delete", "vacuum"}
    BY <1>1 DEF ReadyToCommit
  <2> QED
    BY <2>1, <1>1, <1>2, <1>4, <1>5 DEF ProcOK, PlaceOK
<1>7. p \in Ingesters => BatchOK(p)'
  BY <1>1, <1>4 DEF ProcOK, BatchOK
<1>8. p \in Ingesters => IngestImage(p)'
  BY <1>1, <1>2, <1>3, <1>4, SameIngestImage DEF ProcOK, Writer, Writing
<1>9. p \in Pruners => PruneImage(p)'
  BY <1>1, <1>2, <1>3 DEF ProcOK, PruneImage
<1>10. ProcOK(p)'
  BY <1>6, <1>7, <1>8, <1>9 DEF ProcOK
<1>11. LeavesOthers(p)
  BY <1>1, <1>2 DEF LeavesOthers
<1> QED
  BY <1>3, <1>10, <1>11, KeepsStoreInv

LEMMA BeginStatementInv ==
    ASSUME TypeInv, StoreInv, NEW p \in Pruners, BeginStatement(p)
    PROVE  StoreInv'
<1> USE StoreAssumption, StoreParts
<1>1. UNCHANGED <<pc, ingestVars>> /\ AcquireReserved(p) /\ pc[p] \in {"delete", "vacuum"}
  BY DEF BeginStatement
<1>2. /\ lock'[p] = "reserved" /\ image'[p] = Committed
      /\ \A q \in Proc \ {p} : lock'[q] = lock[q] /\ image'[q] = image[q]
  BY <1>1 DEF AcquireReserved, FileTypeOK
<1>3. Quiet(p) /\ Committed' = Committed
  BY <1>1, CommittedSame DEF Quiet
<1>4. PlaceOK(p)' /\ PruneImage(p)'
  BY <1>1, <1>2, <1>3 DEF PlaceOK, PruneImage, Writer, Writing
<1>5. ProcOK(p)' /\ LeavesOthers(p)
  BY <1>1, <1>2, <1>4 DEF ProcOK, LeavesOthers, ingestVars
<1> QED
  BY <1>3, <1>5, KeepsStoreInv

LEMMA StatementInv ==
    ASSUME TypeInv, StoreInv, NEW p \in Pruners, Delete(p) \/ Vacuum(p)
    PROVE  StoreInv'
<1> USE StoreAssumption, StoreParts
<1>1. /\ UNCHANGED <<lock, ingestVars>> /\ lock[p] = "reserved"
      /\ \/ /\ pc[p] = "delete" /\ pc' = [pc EXCEPT ![p] = "commit"]
            /\ Modify(p, NotOlder(image[p], Cutoff[p]))
         \/ /\ pc[p] = "vacuum" /\ pc' = [pc EXCEPT ![p] = "compact"]
            /\ Modify(p, image[p])
  BY DEF Delete, Vacuum, Modify, Goto
<1>2. image[p] = Committed
  BY <1>1 DEF ProcOK, PruneImage, Writer, Writing
<1>3. Quiet(p) /\ Committed' = Committed
  BY <1>1, CommittedSame DEF Quiet
<1>4. \/ pc'[p] = "commit" /\ image'[p] = NotOlder(Committed, Cutoff[p])
      \/ pc'[p] = "compact" /\ image'[p] = Committed
  BY <1>1, <1>2 DEF Modify, FileTypeOK, PcTypeOK
<1>5. PlaceOK(p)'
  BY <1>1, <1>4 DEF PlaceOK, Writer, Writing
<1>6. PruneImage(p)'
  <2>1. CASE pc'[p] = "commit"
    BY <2>1, <1>3, <1>4 DEF PruneImage
  <2>2. CASE pc'[p] = "compact"
    BY <2>2, <1>3, <1>4 DEF PruneImage
  <2> QED
    BY <2>1, <2>2, <1>4
<1>7. LeavesOthers(p)
  BY <1>1 DEF LeavesOthers, Modify, FileTypeOK, PcTypeOK, ingestVars
<1> QED
  BY <1>3, <1>5, <1>6, <1>7, KeepsStoreInv DEF ProcOK

-----------------------------------------------------------------------------
(* A process that commits, fails, reads or stays out of the database ends  *)
(* its step outside of a transaction.                                      *)

LEMMA StepOutside ==
    ASSUME TypeInv, StoreInv, NEW p \in Proc,
           \/ BeginRead(p) \/ EndOpen(p) \/ BusyTimeout(p) \/ Die(p) \/ Rerun(p)
           \/ p \in Ingesters /\ (\/ ReadLine(p) \/ HandOver(p) \/ Finish(p)
                                  \/ FinishBatch(p) \/ CommitChunk(p) \/ CommitNothing(p))
           \/ p \in Pruners /\ (\/ EndPruneCount(p) \/ Confirm(p)
                                \/ CommitDelete(p) \/ CommitVacuum(p))
           \/ p \in Readers /\ (\/ EndCount(p) \/ EndRange(p) \/ EndTags(p)
                                \/ CannotRecover(p) \/ Request(p))
    PROVE  Outside(p)' /\ (p \in Ingesters => BatchOK(p)')
<1> USE StoreAssumption, StoreParts
<1>1. CASE BeginRead(p)
  <2>1. Outside(p)'
    BY <1>1 DEF BeginRead, AcquireShared, Recover, Outside, ProcOK, PlaceOK,
       Reading, Writer, Writing, Lock, FileTypeOK, PcTypeOK
  <2>2. p \in Ingesters => BatchOK(p)'
    BY <1>1 DEF BeginRead, ProcOK, PlaceOK, Reading, BatchOK, ChunkEnd,
       ingestVars, PcTypeOK, IngestTypeOK
  <2> QED
    BY <2>1, <2>2
<1>2. CASE EndOpen(p)
  <2>1. Outside(p)'
    BY <1>2 DEF EndOpen, EndRead, ReleaseShared, Goto, Outside, ProcOK, PlaceOK,
       Reading, Writer, Writing, Lock, FileTypeOK, PcTypeOK
  <2>2. p \in Ingesters => BatchOK(p)'
    BY <1>2 DEF EndOpen, EndRead, Goto, ProcOK, PlaceOK, Reading, BatchOK,
       ChunkEnd, ingestVars, PcTypeOK, IngestTypeOK
  <2> QED
    BY <2>1, <2>2
<1>3. CASE p \in Ingesters /\ ReadLine(p)
  <2>1. Outside(p)'
    BY <1>3 DEF ReadLine, fileVars, Outside, ProcOK, PlaceOK, Reading, Writer,
       Writing, Lock, FileTypeOK, PcTypeOK
  <2>2. p \in Ingesters => BatchOK(p)'
    BY <1>3 DEF ReadLine, ProcOK, PlaceOK, Reading, BatchOK, ChunkEnd, PcTypeOK,
       IngestTypeOK
  <2> QED
    BY <2>1, <2>2
<1>4. CASE p \in Ingesters /\ HandOver(p)
  <2>1. Outside(p)'
    BY <1>4 DEF HandOver, fileVars, Goto, Outside, ProcOK, PlaceOK, Reading,
       Writer, Writing, Lock, FileTypeOK, PcTypeOK
  <2>2. p \in Ingesters => BatchOK(p)'
    BY <1>4 DEF HandOver, Goto, ProcOK, PlaceOK, Reading, BatchOK, ChunkEnd,
       ingestVars, PcTypeOK, IngestTypeOK
  <2> QED
    BY <2>1, <2>2
<1>5. CASE p \in Ingesters /\ Finish(p)
  <2>1. Outside(p)'
    BY <1>5 DEF Finish, fileVars, Goto, Outside, ProcOK, PlaceOK, Reading,
       Writer, Writing, Lock, FileTypeOK, PcTypeOK
  <2>2. p \in Ingesters => BatchOK(p)'
    BY <1>5 DEF Finish, Goto, ProcOK, PlaceOK, Reading, BatchOK, ChunkEnd,
       ingestVars, PcTypeOK, IngestTypeOK
  <2> QED
    BY <2>1, <2>2
<1>6. CASE p \in Ingesters /\ FinishBatch(p)
  <2>1. Outside(p)'
    BY <1>6 DEF FinishBatch, fileVars, Goto, Outside, ProcOK, PlaceOK, Reading,
       Writer, Writing, Lock, FileTypeOK, PcTypeOK
  <2>2. p \in Ingesters => BatchOK(p)'
    BY <1>6 DEF FinishBatch, Goto, ProcOK, PlaceOK, Reading, BatchOK, ChunkEnd,
       PcTypeOK, IngestTypeOK
  <2> QED
    BY <2>1, <2>2
<1>7. CASE p \in Ingesters /\ CommitChunk(p)
  <2>1. Outside(p)'
    BY <1>7 DEF CommitChunk, ReturnChunk, DeleteJournal, Goto, Outside, ProcOK,
       PlaceOK, Reading, Writer, Writing, Lock, FileTypeOK, PcTypeOK
  <2>2. p \in Ingesters => BatchOK(p)'
    BY <1>7 DEF CommitChunk, ReturnChunk, Goto, ProcOK, PlaceOK, Reading,
       BatchOK, ChunkEnd, PcTypeOK, IngestTypeOK
  <2> QED
    BY <2>1, <2>2
<1>8. CASE p \in Ingesters /\ CommitNothing(p)
  <2>1. Outside(p)'
    BY <1>8 DEF CommitNothing, ReturnChunk, fileVars, Goto, Outside, ProcOK,
       PlaceOK, Reading, Writer, Writing, Lock, FileTypeOK, PcTypeOK
  <2>2. p \in Ingesters => BatchOK(p)'
    BY <1>8 DEF CommitNothing, ReturnChunk, Goto, ProcOK, PlaceOK, Reading,
       BatchOK, ChunkEnd, PcTypeOK, IngestTypeOK
  <2> QED
    BY <2>1, <2>2
<1>9. CASE p \in Pruners /\ EndPruneCount(p)
  <2>1. Outside(p)'
    BY <1>9 DEF EndPruneCount, EndRead, ReleaseShared, Goto, Outside, ProcOK,
       PlaceOK, Reading, Writer, Writing, Lock, FileTypeOK, PcTypeOK
  <2> QED
    BY <1>9, <2>1
<1>10. CASE p \in Pruners /\ Confirm(p)
  <2>1. Outside(p)'
    BY <1>10 DEF Confirm, fileVars, Goto, Outside, ProcOK, PlaceOK, Reading,
       Writer, Writing, Lock, FileTypeOK, PcTypeOK
  <2> QED
    BY <1>10, <2>1
<1>11. CASE p \in Pruners /\ CommitDelete(p)
  <2>1. Outside(p)'
    BY <1>11 DEF CommitDelete, DeleteJournal, Goto, Outside, ProcOK, PlaceOK,
       Reading, Writer, Writing, Lock, FileTypeOK, PcTypeOK
  <2> QED
    BY <1>11, <2>1
<1>12. CASE p \in Pruners /\ CommitVacuum(p)
  <2>1. Outside(p)'
    BY <1>12 DEF CommitVacuum, DeleteJournal, Goto, Outside, ProcOK, PlaceOK,
       Reading, Writer, Writing, Lock, FileTypeOK, PcTypeOK
  <2> QED
    BY <1>12, <2>1
<1>13. CASE p \in Readers /\ EndCount(p)
  <2>1. Outside(p)'
    BY <1>13 DEF EndCount, EndRead, ReleaseShared, Goto, Outside, ProcOK,
       PlaceOK, Reading, Writer, Writing, Lock, FileTypeOK, PcTypeOK
  <2> QED
    BY <1>13, <2>1
<1>14. CASE p \in Readers /\ EndRange(p)
  <2>1. Outside(p)'
    BY <1>14 DEF EndRange, EndRead, ReleaseShared, Goto, Outside, ProcOK,
       PlaceOK, Reading, Writer, Writing, Lock, FileTypeOK, PcTypeOK
  <2> QED
    BY <1>14, <2>1
<1>15. CASE p \in Readers /\ EndTags(p)
  <2>1. Outside(p)'
    BY <1>15 DEF EndTags, EndRead, ReleaseShared, Goto, Outside, ProcOK,
       PlaceOK, Reading, Writer, Writing, Lock, FileTypeOK, PcTypeOK
  <2> QED
    BY <1>15, <2>1
<1>16. CASE p \in Readers /\ CannotRecover(p)
  <2>1. Outside(p)'
    BY <1>16 DEF CannotRecover, Fail, Drop, Goto, Outside, ProcOK, PlaceOK,
       Reading, Writer, Writing, Lock, FileTypeOK, PcTypeOK
  <2> QED
    BY <1>16, <2>1
<1>17. CASE p \in Readers /\ Request(p)
  <2>1. Outside(p)'
    BY <1>17 DEF Request, fileVars, Goto, Outside, ProcOK, PlaceOK, Reading,
       Writer, Writing, Lock, FileTypeOK, PcTypeOK
  <2> QED
    BY <1>17, <2>1
<1>18. CASE BusyTimeout(p)
  <2>1. Outside(p)'
    BY <1>18 DEF BusyTimeout, Fail, Drop, Goto, Outside, ProcOK, PlaceOK,
       Reading, Writer, Writing, Lock, FileTypeOK, PcTypeOK
  <2>2. p \in Ingesters => BatchOK(p)'
    BY <1>18 DEF BusyTimeout, Fail, Goto, ProcOK, PlaceOK, Reading, BatchOK,
       ChunkEnd, ingestVars, PcTypeOK, IngestTypeOK
  <2> QED
    BY <2>1, <2>2
<1>19. CASE Die(p)
  <2>1. Outside(p)'
    BY <1>19 DEF Die, Drop, Goto, Outside, ProcOK, PlaceOK, Reading, Writer,
       Writing, Lock, FileTypeOK, PcTypeOK
  <2>2. p \in Ingesters => BatchOK(p)'
    BY <1>19 DEF Die, Goto, ProcOK, PlaceOK, Reading, BatchOK, ChunkEnd,
       ingestVars, PcTypeOK, IngestTypeOK
  <2> QED
    BY <2>1, <2>2
<1>20. CASE Rerun(p)
  <2>1. Outside(p)'
    BY <1>20 DEF Rerun, fileVars, Goto, Outside, ProcOK, PlaceOK, Reading,
       Writer, Writing, Lock, FileTypeOK, PcTypeOK
  <2>2. p \in Ingesters => BatchOK(p)'
    BY <1>20 DEF Rerun, Goto, ProcOK, PlaceOK, Reading, BatchOK, ChunkEnd,
       PcTypeOK, IngestTypeOK
  <2> QED
    BY <2>1, <2>2
<1> QED
  BY <1>1, <1>2, <1>3, <1>4, <1>5, <1>6, <1>7, <1>8, <1>9, <1>10, <1>11, <1>12,
     <1>13, <1>14, <1>15, <1>16, <1>17, <1>18, <1>19, <1>20

LEMMA ImageUnique ==
    ASSUME TypeInv, StoreInv, NEW p \in Proc, Writer(p)
    PROVE  UniqueRaws(image[p])
<1> USE StoreAssumption, StoreParts
<1>1. CASE p \in Ingesters
  BY <1>1 DEF ProcOK, IngestImage, Extends
<1>2. CASE p \in Pruners
  <2>1. image[p] = NotOlder(Committed, Cutoff[p]) \/ image[p] = Committed
    BY <1>2 DEF ProcOK, PruneImage
  <2> QED
    BY <2>1 DEF NotOlder, UniqueRaws
<1> QED
  BY <1>1, <1>2 DEF ProcOK, PlaceOK

LEMMA StoreStep == TypeInv /\ StoreInv /\ [Next]_vars => StoreInv'
<1> SUFFICES ASSUME TypeInv, StoreInv, [Next]_vars PROVE StoreInv'
  OBVIOUS
<1> USE StoreParts
<1>1. ASSUME NEW p \in Proc, ProcNext(p) PROVE StoreInv'
  <2>1. LeavesOthers(p) /\ (Quiet(p) \/ (Commits(p) /\ DeleteJournal(p)))
    BY <1>1, Frame
  <2>2. CASE p \in Ingesters /\ StartChunk(p)
    BY <2>2, StartChunkInv
  <2>3. CASE p \in Ingesters /\ SkipEntry(p)
    BY <2>3, SkipEntryInv
  <2>4. CASE p \in Ingesters /\ BecomeWriter(p)
    BY <2>4, BecomeWriterInv
  <2>5. CASE p \in Ingesters /\ InsertOrIgnore(p)
    BY <2>5, InsertInv
  <2>6. CASE CommitStep(p)
    BY <2>6, CommitStepInv
  <2>7. CASE p \in Pruners /\ BeginStatement(p)
    BY <2>7, BeginStatementInv
  <2>8. CASE p \in Pruners /\ (Delete(p) \/ Vacuum(p))
    BY <2>8, StatementInv
  <2>9. ASSUME Outside(p)', p \in Ingesters => BatchOK(p)' PROVE StoreInv'
    <3>1. CASE Quiet(p)
      BY <2>1, <2>9, <3>1, OutsideStep
    <3>2. CASE Commits(p) /\ DeleteJournal(p)
      BY <2>1, <2>9, <3>2, ImageUnique, CommitStoreInv DEF DeleteJournal, Writer,
         Writing
    <3> QED
      BY <2>1, <3>1, <3>2
  <2> QED
    BY <1>1, <2>2, <2>3, <2>4, <2>5, <2>6, <2>7, <2>8, <2>9, StepOutside
       DEF ProcNext, Step, IngestStep, PruneStep, StatsStep
<1>2. CASE UNCHANGED vars
  <2>1. UNCHANGED <<fileVars, pc, batch, stored, cur>>
    BY <1>2 DEF vars, ingestVars
  <2>2. Committed' = Committed /\ LockInv'
    BY <2>1 DEF fileVars, Committed, LockInv, Writer
  <2>3. ASSUME NEW p \in Proc PROVE ProcOK(p)'
    <3>1. ChunkEnd(p)' = ChunkEnd(p) /\ ChunkRows(p, cur[p])' = ChunkRows(p, cur[p])
      BY <2>1, SameChunk
    <3>2. PlaceOK(p)'
      BY <2>1, <3>1 DEF ProcOK, PlaceOK, Writer, fileVars
    <3>3. p \in Ingesters => BatchOK(p)'
      BY <2>1, <3>1 DEF ProcOK, BatchOK
    <3>4. p \in Ingesters => IngestImage(p)'
      BY <2>1, <2>2, <3>1, SameIngestImage DEF ProcOK, Writer, fileVars
    <3>5. p \in Pruners => PruneImage(p)'
      BY <2>1, <2>2 DEF ProcOK, PruneImage, Writer, fileVars
    <3> QED
      BY <3>2, <3>3, <3>4, <3>5 DEF ProcOK
  <2> QED
    BY <2>2, <2>3 DEF StoreInv, UniqueRaws
<1> QED
  BY <1>1, <1>2 DEF Next, ProcNext

LEMMA StoreInit == Init => StoreInv
<1> SUFFICES ASSUME Init PROVE StoreInv
  OBVIOUS
<1> USE StoreAssumption DEF Init
<1>1. LockInv /\ UniqueRaws(Committed)
  BY DEF LockInv, Committed, Writer, Writing
<1>2. ASSUME NEW p \in Proc PROVE ProcOK(p)
  <2>1. PlaceOK(p)
    BY DEF PlaceOK, Writer, Writing, Reading
  <2>2. p \in Ingesters => BatchOK(p)
    BY DEF BatchOK
  <2>3. p \in Ingesters => IngestImage(p)
    BY DEF IngestImage, Writer, Writing
  <2>4. p \in Pruners => PruneImage(p)
    BY DEF PruneImage, Writer, Writing
  <2> QED
    BY <2>1, <2>2, <2>3, <2>4 DEF ProcOK
<1> QED
  BY <1>1, <1>2 DEF StoreInv

-----------------------------------------------------------------------------
(* Unique raw lines.                                                       *)

\* New page content is the rolled back one or the image of the writer.
LEMMA TableStep ==
    ASSUME TypeInv, StoreInv, NEW p \in Proc, ProcNext(p)
    PROVE  table' \in {table, Committed} \/ (Writer(p) /\ table' = image[p])
<1>1. CASE Quiet(p)
  BY <1>1 DEF Quiet, AcquireShared, ReleaseShared, AcquireReserved, AcquirePending,
     AcquireExclusive, WriteBack, Drop, Modify, Recover, fileVars, Writer, Writing
<1>2. CASE DeleteJournal(p)
  BY <1>2 DEF DeleteJournal
<1> QED
  BY <1>1, <1>2, Frame

Inv == TypeInv /\ StoreInv /\ UniqueRaws(table)

LEMMA InvInit == Init => Inv
BY TypeInit, StoreInit, StoreAssumption DEF Inv, Init

LEMMA InvStep == Inv /\ [Next]_vars => Inv'
<1> SUFFICES ASSUME Inv, [Next]_vars PROVE Inv'
  OBVIOUS
<1> USE DEF Inv
<1>1. TypeInv' /\ StoreInv'
  BY TypeStep, StoreStep
<1>2. UniqueRaws(table)'
  <2>1. ASSUME NEW p \in Proc, ProcNext(p) PROVE UniqueRaws(table')
    BY <2>1, TableStep, ImageUnique, StoreParts
  <2>2. CASE UNCHANGED vars
    BY <2>2 DEF vars, fileVars
  <2> QED
    BY <2>1, <2>2 DEF Next, ProcNext
<1> QED
  BY <1>1, <1>2

\* The inductive invariant: who may hold which lock where, and what the image of
\* an open transaction contains, for insert_one_chunk and for prune alike.
THEOREM StoreInvariant == Spec => []IInv
<1>1. Inv => IInv
  BY DEF Inv, IInv, TypeInv, FileInv, TypeOK
<1> QED
  BY <1>1, InvInit, InvStep, PTL DEF Spec

\* UNIQUE(raw_hash) and INSERT OR IGNORE (insert_one_chunk): no interleaving of
\* ingests, prunes, kills and reruns leaves two rows for one raw line, neither in
\* the committed index nor in the pages that a crash leaves behind.
THEOREM UniqueRawHolds == Spec => []UniqueRaw
<1>1. Inv => UniqueRaw
  BY DEF Inv, UniqueRaw, StoreInv
<1> QED
  BY <1>1, InvInit, InvStep, PTL DEF Spec

-----------------------------------------------------------------------------
(* Committed chunks stay.                                                  *)

LEMMA CommitChunkStays ==
    ASSUME Inv, CommittedChunksStay, NEW p \in Ingesters, CommitChunk(p)
    PROVE  CommittedChunksStay'
<1> USE StoreAssumption, StoreParts DEF Inv
<1>1. /\ DeleteJournal(p) /\ UNCHANGED gone
      /\ acked' = [acked EXCEPT ![p] = @ \cup Raws(ChunkRows(p, cur[p]))]
  BY DEF CommitChunk, ReturnChunk
<1>2. Extends(image[p], Committed, ChunkRows(p, cur[p]))
  BY <1>1 DEF ProcOK, IngestImage, DeleteJournal, Writer, Writing
<1>3. Committed' = image[p]
  BY <1>1, CommittedNew
<1>4. Raws(Committed) \subseteq Raws(Committed') /\ Raws(ChunkRows(p, cur[p])) \subseteq Raws(Committed')
  BY <1>2, <1>3 DEF Extends
<1>5. \A i \in Ingesters : acked'[i] \subseteq acked[i] \cup Raws(ChunkRows(p, cur[p]))
                                      /\ (i # p => acked'[i] = acked[i])
  BY <1>1 DEF TypeInv, HistoryTypeOK
<1>6. \A i \in Ingesters : acked'[i] \subseteq Raws(Committed') \cup gone'
  BY <1>1, <1>4, <1>5 DEF CommittedChunksStay
<1> QED
  BY <1>6 DEF CommittedChunksStay, Raws

LEMMA StayStep == Inv /\ CommittedChunksStay /\ [Next]_vars => CommittedChunksStay'
<1> SUFFICES ASSUME Inv, CommittedChunksStay, [Next]_vars PROVE CommittedChunksStay'
  OBVIOUS
<1> USE StoreAssumption, StoreParts DEF Inv
<1>1. ASSUME NEW p \in Proc, ProcNext(p), Quiet(p) PROVE CommittedChunksStay'
  <2>1. Committed' = Committed
    BY <1>1, CommittedSame
  <2>2. UNCHANGED <<acked, gone>>
    <3>1. CASE p \in Ingesters /\ CommitNothing(p)
      <4>1. Raws(ChunkRows(p, cur[p])) = {}
        BY <3>1 DEF CommitNothing, ProcOK, IngestImage, Raws
      <4>2. acked' = [acked EXCEPT ![p] = acked[p]] /\ UNCHANGED gone
        BY <3>1, <4>1 DEF CommitNothing, ReturnChunk
      <4> QED
        BY <4>2 DEF TypeInv, HistoryTypeOK
    <3>2. CASE Commits(p)
      BY <1>1, <3>2 DEF Commits, CommitChunk, CommitDelete, CommitVacuum, DeleteJournal,
         Quiet, AcquireShared, ReleaseShared, AcquireReserved, AcquirePending,
         AcquireExclusive, WriteBack, Drop, Modify, Recover, fileVars, FileTypeOK
    <3>3. CASE ~(p \in Ingesters /\ CommitNothing(p)) /\ ~Commits(p)
      BY <1>1, <3>3 DEF ProcNext, Step, IngestStep, PruneStep, StatsStep, Commits,
         historyVars, BeginRead, EndOpen, EndRead, CommitStep, ReadLine, HandOver, Finish,
         StartChunk, FinishBatch, SkipEntry, BecomeWriter, InsertOrIgnore, EndPruneCount,
         Confirm, BeginStatement, Delete, Vacuum, EndCount, EndRange, EndTags,
         CannotRecover, Request, BusyTimeout, Die, Fail, Rerun
    <3> QED
      BY <3>1, <3>2, <3>3
  <2> QED
    BY <2>1, <2>2 DEF CommittedChunksStay, Raws
<1>2. ASSUME NEW p \in Pruners, CommitDelete(p) PROVE CommittedChunksStay'
  <2>1. /\ Committed = saved /\ Committed' = table /\ UNCHANGED acked
        /\ gone' = gone \cup (Raws(saved) \ Raws(table))
    BY <1>2 DEF CommitDelete, DeleteJournal, Committed
  <2>2. \A i \in Ingesters : acked'[i] \subseteq Raws(Committed') \cup gone'
    BY <2>1 DEF CommittedChunksStay
  <2> QED
    BY <2>2 DEF CommittedChunksStay, Raws
<1>3. ASSUME NEW p \in Pruners, CommitVacuum(p) PROVE CommittedChunksStay'
  <2>1. image[p] = Committed
    BY <1>3 DEF CommitVacuum, DeleteJournal, ProcOK, PruneImage, Writer, Writing
  <2>2. Committed' = Committed
    BY <1>3, <2>1, CommittedNew DEF CommitVacuum
  <2> QED
    BY <1>3, <2>2 DEF CommitVacuum, historyVars, CommittedChunksStay, Raws
<1>4. CASE UNCHANGED vars
  BY <1>4 DEF vars, fileVars, historyVars, CommittedChunksStay, Committed, Raws
<1>5. ASSUME NEW p \in Proc, ProcNext(p) PROVE CommittedChunksStay'
  BY <1>1, <1>2, <1>3, <1>5, CommitChunkStays, Frame DEF Commits
<1> QED
  BY <1>4, <1>5 DEF Next, ProcNext

\* A chunk whose transaction committed (insert_one_chunk returned) is never lost:
\* neither a later failure or kill of any process nor a rerun takes a raw line
\* away, only a prune that deletes its row.
THEOREM CommittedChunksStayHolds == Spec => []CommittedChunksStay
<1>1. Init => CommittedChunksStay
  BY DEF Init, CommittedChunksStay
<1> QED
  BY <1>1, InvInit, InvStep, StayStep, PTL DEF Spec

-----------------------------------------------------------------------------
(* The refinement: the index changes at commits only, by exactly what the  *)
(* call that commits has asked for.                                        *)

Calls == [p \in Proc |-> PendingCall(p)]

\* LogIndex extends Rows as IndexStore does.
LEMMA SameRows ==
    /\ LI!Row = Row
    /\ \A S : LI!Raws(S) = Raws(S)
    /\ \A S : LI!UniqueRaws(S) <=> UniqueRaws(S)
    /\ \A S, c : LI!NotOlder(S, c) = NotOlder(S, c)
BY DEF LI!Row, Row, LI!Raws, Raws, LI!UniqueRaws, UniqueRaws, LI!NotOlder, NotOlder

LEMMA CallStep ==
    ASSUME NEW p \in Proc, LeavesOthers(p)
    PROVE  Calls' = [Calls EXCEPT ![p] = PendingCall(p)']
<1>1. ASSUME NEW q \in Proc \ {p} PROVE PendingCall(q)' = PendingCall(q)
  <2>1. CASE q \in Ingesters
    <3>1. /\ pc'[q] = pc[q] /\ batch'[q] = batch[q] /\ stored'[q] = stored[q]
      BY <1>1, <2>1 DEF LeavesOthers
    <3>2. ChunkRows(q, ChunkEnd(q))' = ChunkRows(q, ChunkEnd(q))
      BY <3>1 DEF ChunkRows, ChunkEnd
    <3> QED
      BY <2>1, <3>1, <3>2, StoreAssumption DEF PendingCall
  <2>2. CASE q \notin Ingesters
    BY <1>1, <2>2 DEF LeavesOthers, PendingCall
  <2> QED
    BY <2>1, <2>2
<1> QED
  BY <1>1 DEF Calls

\* A step that keeps the rows and leaves p's call alone, asks or gives up.
LEMMA QuietCall ==
    ASSUME NEW p \in Proc, LeavesOthers(p), Committed' = Committed,
           \/ PendingCall(p)' = PendingCall(p)
           \/ PendingCall(p)' = LI!Idle
           \/ PendingCall(p) = LI!Idle /\ PendingCall(p)' \in LI!InsertCall \cup LI!PruneCall
    PROVE  [LI!Next]_(LI!vars)
<1>1. Calls' = [Calls EXCEPT ![p] = PendingCall(p)'] /\ Calls[p] = PendingCall(p)
  BY CallStep DEF Calls
<1>2. CASE PendingCall(p)' = PendingCall(p)
  <2>1. Calls' = Calls
    BY <1>1, <1>2 DEF Calls
  <2> QED
    BY <2>1 DEF LI!vars, Calls
<1>3. CASE PendingCall(p)' = LI!Idle /\ PendingCall(p) # LI!Idle
  <2>1. LI!Abandon(p)
    BY <1>1, <1>3 DEF LI!Abandon, Calls
  <2> QED
    BY <2>1 DEF LI!Next
<1>4. CASE PendingCall(p) = LI!Idle /\ PendingCall(p)' \in LI!InsertCall \cup LI!PruneCall
  <2>1. LI!Ask(p)
    BY <1>1, <1>4 DEF LI!Ask, Calls
  <2> QED
    BY <2>1 DEF LI!Next
<1> QED
  BY <1>2, <1>3, <1>4

\* An insert or a prune that commits.
LEMMA ApplyCall ==
    ASSUME NEW p \in Proc, LeavesOthers(p), PendingCall(p)' = LI!Idle,
           \/ /\ PendingCall(p) \in LI!InsertCall
              /\ Extends(Committed', Committed, PendingCall(p).chunk)
           \/ /\ PendingCall(p) \in LI!PruneCall
              /\ Committed' = NotOlder(Committed, PendingCall(p).cutoff)
    PROVE  [LI!Next]_(LI!vars)
<1>1. Calls' = [Calls EXCEPT ![p] = LI!Idle] /\ Calls[p] = PendingCall(p)
  BY CallStep DEF Calls
<1>2. LI!ApplyInsert(p) \/ LI!ApplyPrune(p)
  BY <1>1, SameRows DEF LI!ApplyInsert, LI!ApplyPrune, Calls, Extends
<1> QED
  BY <1>2 DEF LI!Next

LEMMA CallTypes ==
    ASSUME Inv, NEW p \in Proc
    PROVE  /\ p \in Ingesters /\ pc[p] = "insert" =>
                /\ PendingCall(p) \in LI!InsertCall
                /\ PendingCall(p).chunk = ChunkRows(p, ChunkEnd(p))
           /\ p \in Pruners /\ pc[p] \in {"delete", "commit"} =>
                /\ PendingCall(p) \in LI!PruneCall
                /\ PendingCall(p).cutoff = Cutoff[p]
           /\ pc[p] \notin {"insert", "delete", "commit"} => PendingCall(p) = LI!Idle
<1> USE StoreAssumption, StoreParts DEF Inv, PendingCall
<1>1. CASE p \in Ingesters /\ pc[p] = "insert"
  <2>1. ChunkRows(p, ChunkEnd(p)) \subseteq Row
    BY <1>1, ChunkEndBound, ChunkRowsType
  <2> QED
    BY <1>1, <2>1, SameRows DEF LI!InsertCall
<1>2. CASE p \in Pruners /\ pc[p] \in {"delete", "commit"}
  BY <1>2 DEF LI!PruneCall
<1>3. CASE pc[p] \notin {"insert", "delete", "commit"}
  BY <1>3 DEF LI!Idle
<1> QED
  BY <1>1, <1>2, <1>3

\* How the program counter moves in a step that does not end a call well.
LEMMA PcStep ==
    ASSUME Inv, NEW p \in Proc, ProcNext(p), ~Commits(p),
           ~(p \in Ingesters /\ CommitNothing(p))
    PROVE  \/ pc'[p] \notin {"insert", "delete", "commit"}
           \/ p \in Ingesters /\ StartChunk(p)
           \/ p \in Ingesters /\ pc[p] = "insert" /\ UNCHANGED <<pc, batch, stored>>
           \/ p \in Pruners /\ pc[p] \in {"confirm", "delete", "commit"}
                            /\ pc'[p] \in {"delete", "commit"}
<1> USE StoreAssumption, StoreParts DEF Inv
<1> QED
  BY DEF ProcNext, Step, IngestStep, PruneStep, StatsStep, Commits, PcTypeOK, Goto,
         ingestVars, BeginRead, EndOpen, EndRead, CommitStep, ReadLine, HandOver, Finish,
         FinishBatch, SkipEntry, BecomeWriter, InsertOrIgnore, EndPruneCount,
         Confirm, BeginStatement, Delete, Vacuum, EndCount, EndRange, EndTags,
         CannotRecover, Request, BusyTimeout, Die, Fail, Rerun, IngestLabels, PruneLabels,
         ReadLabels, InChunk, ReadyToCommit

LEMMA RefinementStep ==
    ASSUME Inv, NEW p \in Proc, ProcNext(p)
    PROVE  [LI!Next]_(LI!vars)
<1> USE StoreAssumption, StoreParts DEF Inv
<1>0. LeavesOthers(p) /\ (Quiet(p) \/ Commits(p))
  BY Frame
<1>1. CASE p \in Ingesters /\ CommitChunk(p)
  <2>1. PendingCall(p)' = LI!Idle
    BY <1>1 DEF CommitChunk, ReturnChunk, Goto, PcTypeOK, PendingCall, LI!Idle
  <2>2. Extends(Committed', Committed, ChunkRows(p, ChunkEnd(p)))
    <3>1. Committed' = image[p]
      BY <1>1, CommittedNew DEF CommitChunk
    <3> QED
      BY <1>1, <3>1 DEF CommitChunk, DeleteJournal, ProcOK, IngestImage, Writer, Writing
  <2>3. pc[p] = "insert"
    BY <1>1 DEF CommitChunk
  <2> QED
    BY <1>0, <1>1, <2>1, <2>2, <2>3, CallTypes, ApplyCall
<1>2. CASE p \in Ingesters /\ CommitNothing(p)
  <2>1. PendingCall(p)' = LI!Idle /\ Committed' = Committed
    BY <1>2 DEF CommitNothing, ReturnChunk, Goto, PcTypeOK, PendingCall, LI!Idle,
       Committed, fileVars
  <2>2. Extends(Committed, Committed, ChunkRows(p, ChunkEnd(p)))
    BY <1>2 DEF CommitNothing, ProcOK, IngestImage, Extends, Raws
  <2>3. pc[p] = "insert"
    BY <1>2 DEF CommitNothing
  <2> QED
    BY <1>0, <1>2, <2>1, <2>2, <2>3, CallTypes, ApplyCall
<1>3. CASE p \in Pruners /\ CommitDelete(p)
  <2>1. PendingCall(p)' = LI!Idle
    BY <1>3 DEF CommitDelete, Goto, PcTypeOK, PendingCall, LI!Idle
  <2>2. Committed' = NotOlder(Committed, Cutoff[p])
    <3>1. Committed' = image[p]
      BY <1>3, CommittedNew DEF CommitDelete
    <3> QED
      BY <1>3, <3>1 DEF CommitDelete, DeleteJournal, ProcOK, PruneImage, Writer, Writing
  <2>3. pc[p] = "commit"
    BY <1>3 DEF CommitDelete
  <2> QED
    BY <1>0, <1>3, <2>1, <2>2, <2>3, CallTypes, ApplyCall
<1>4. CASE p \in Pruners /\ CommitVacuum(p)
  <2>1. PendingCall(p)' = LI!Idle
    BY <1>4 DEF CommitVacuum, Goto, PcTypeOK, PendingCall, LI!Idle
  <2>2. Committed' = Committed
    <3>1. Committed' = image[p]
      BY <1>4, CommittedNew DEF CommitVacuum
    <3> QED
      BY <1>4, <3>1 DEF CommitVacuum, DeleteJournal, ProcOK, PruneImage, Writer, Writing
  <2> QED
    BY <1>0, <2>1, <2>2, QuietCall
<1>5. CASE ~Commits(p) /\ ~(p \in Ingesters /\ CommitNothing(p))
  <2>1. Committed' = Committed
    BY <1>0, <1>5, CommittedSame
  <2>2. CASE pc'[p] \notin {"insert", "delete", "commit"}
    <3>1. PendingCall(p)' = LI!Idle
      BY <2>2 DEF PendingCall, LI!Idle
    <3> QED
      BY <1>0, <2>1, <3>1, QuietCall
  <2>3. CASE p \in Ingesters /\ StartChunk(p)
    <3>1. PendingCall(p) = LI!Idle
      BY <2>3, CallTypes DEF StartChunk
    <3>2. PendingCall(p)' = [op |-> "insert", chunk |-> ChunkRows(p, ChunkEnd(p))]
      <4>1. pc'[p] = "insert" /\ UNCHANGED <<batch, stored>>
        BY <2>3 DEF StartChunk, Goto, PcTypeOK, ingestVars
      <4>2. ChunkRows(p, ChunkEnd(p))' = ChunkRows(p, ChunkEnd(p))
        BY <4>1 DEF ChunkRows, ChunkEnd
      <4> QED
        BY <2>3, <4>1, <4>2 DEF PendingCall
    <3>3. ChunkRows(p, ChunkEnd(p)) \subseteq Row
      BY <2>3, ChunkEndBound, ChunkRowsType
    <3>4. PendingCall(p)' \in LI!InsertCall
      BY <3>2, <3>3, SameRows DEF LI!InsertCall
    <3> QED
      BY <1>0, <2>1, <3>1, <3>4, QuietCall
  <2>4. CASE p \in Ingesters /\ pc[p] = "insert" /\ UNCHANGED <<pc, batch, stored>>
    <3>1. ChunkRows(p, ChunkEnd(p))' = ChunkRows(p, ChunkEnd(p))
      BY <2>4 DEF ChunkRows, ChunkEnd
    <3>2. PendingCall(p)' = PendingCall(p)
      BY <2>4, <3>1 DEF PendingCall
    <3> QED
      BY <1>0, <2>1, <3>2, QuietCall
  <2>5. CASE p \in Pruners /\ pc[p] \in {"confirm", "delete", "commit"}
                          /\ pc'[p] \in {"delete", "commit"}
    <3>1. PendingCall(p)' = [op |-> "prune", cutoff |-> Cutoff[p]]
      BY <2>5 DEF PendingCall
    <3>2. PendingCall(p) \in {LI!Idle, [op |-> "prune", cutoff |-> Cutoff[p]]}
      BY <2>5 DEF PendingCall, LI!Idle
    <3>3. PendingCall(p)' \in LI!PruneCall
      BY <2>5, <3>1 DEF LI!PruneCall
    <3> QED
      BY <1>0, <2>1, <3>1, <3>2, <3>3, QuietCall
  <2> QED
    BY <1>5, <2>2, <2>3, <2>4, <2>5, PcStep
<1> QED
  BY <1>1, <1>2, <1>3, <1>4, <1>5 DEF Commits

\* Every execution of the processes, with its kills, timeouts and reruns, is one of
\* the atomic index: insert_one_chunk stores its chunk at once or not at all and
\* never overwrites a row, Indexer::prune deletes exactly the rows older than the
\* cutoff, and nothing else changes the committed rows.
THEOREM IndexRefinement == Spec => ImplementsLogIndex
<1>1. Init => LI!Init
  <2> SUFFICES ASSUME Init PROVE LI!Init
    OBVIOUS
  <2>1. Committed = InitialRows
    BY DEF Init, Committed
  <2>2. Inv
    BY InvInit
  <2>3. \A p \in Proc : PendingCall(p) = LI!Idle
    BY <2>2, CallTypes DEF Init
  <2> QED
    BY <2>1, <2>3, SameRows, StoreAssumption DEF LI!Init
<1>2. Inv /\ [Next]_vars => [LI!Next]_(LI!vars)
  <2> SUFFICES ASSUME Inv, [Next]_vars PROVE [LI!Next]_(LI!vars)
    OBVIOUS
  <2>1. CASE UNCHANGED vars
    <3>1. UNCHANGED <<table, journal, saved, pc, batch, stored>>
      BY <2>1 DEF vars, fileVars, ingestVars
    <3>2. Committed' = Committed
      BY <3>1 DEF Committed
    <3>3. ASSUME NEW p \in Proc PROVE PendingCall(p)' = PendingCall(p)
      <4>1. ChunkRows(p, ChunkEnd(p))' = ChunkRows(p, ChunkEnd(p))
        BY <3>1 DEF ChunkRows, ChunkEnd
      <4> QED
        BY <3>1, <4>1 DEF PendingCall
    <3> QED
      BY <3>2, <3>3 DEF LI!vars
  <2> QED
    BY <2>1, RefinementStep DEF Next, ProcNext
<1> QED
  BY <1>1, <1>2, InvInit, InvStep, PTL DEF Spec, ImplementsLogIndex, LI!Spec
-----------------------------------------------------------------------------
(* The steps of others.                                                    *)

SameIngest(i) ==
    /\ pos'[i] = pos[i] /\ batch'[i] = batch[i] /\ stored'[i] = stored[i] /\ cur'[i] = cur[i]
    /\ stats'[i] = stats[i] /\ total'[i] = total[i] /\ malformed'[i] = malformed[i]
    /\ acked'[i] = acked[i] /\ credited'[i] = credited[i]

LEMMA IngestStepSame ==
    ASSUME TypeInv, NEW p \in Ingesters, IngestStep(p) \/ Rerun(p), NEW i \in Ingesters \ {p}
    PROVE  SameIngest(i)
<1> USE DEF SameIngest
<1>0. IngestTypeOK /\ HistoryTypeOK
  BY DEF TypeInv
<1>1. CASE ReadLine(p)
  <2>1. batch'[i] = batch[i] /\ malformed'[i] = malformed[i] /\ pos'[i] = pos[i]
    BY <1>0, <1>1 DEF ReadLine, IngestTypeOK
  <2> QED
    BY <1>1, <2>1 DEF ReadLine, historyVars
<1>2. CASE HandOver(p) \/ Finish(p) \/ StartChunk(p) \/ BecomeWriter(p)
  BY <1>2 DEF HandOver, Finish, StartChunk, BecomeWriter, ingestVars, historyVars
<1>3. CASE FinishBatch(p)
  BY <1>0, <1>3 DEF FinishBatch, IngestTypeOK, historyVars
<1>4. CASE SkipEntry(p)
  BY <1>0, <1>4 DEF SkipEntry, IngestTypeOK, historyVars
<1>5. CASE InsertOrIgnore(p)
  <2>1. stats'[i] = stats[i] /\ cur'[i] = cur[i]
    BY <1>0, <1>5 DEF InsertOrIgnore, IngestTypeOK
  <2> QED
    BY <1>5, <2>1 DEF InsertOrIgnore, historyVars
<1>6. CASE CommitChunk(p)
  <2>1. stored'[i] = stored[i] /\ total'[i] = total[i] /\ stats'[i] = stats[i]
    BY <1>0, <1>6 DEF CommitChunk, ReturnChunk, IngestTypeOK
  <2>2. acked'[i] = acked[i] /\ credited'[i] = credited[i]
    BY <1>0, <1>6 DEF CommitChunk, ReturnChunk, HistoryTypeOK
  <2> QED
    BY <1>6, <2>1, <2>2 DEF CommitChunk
<1>7. CASE CommitNothing(p)
  <2>1. stored'[i] = stored[i] /\ total'[i] = total[i] /\ stats'[i] = stats[i]
    BY <1>0, <1>7 DEF CommitNothing, ReturnChunk, IngestTypeOK
  <2>2. acked'[i] = acked[i]
    BY <1>0, <1>7 DEF CommitNothing, ReturnChunk, HistoryTypeOK
  <2> QED
    BY <1>7, <2>1, <2>2 DEF CommitNothing
<1>8. CASE Rerun(p)
  <2>1. /\ pos' = [pos EXCEPT ![p] = 0]
        /\ batch' = [batch EXCEPT ![p] = <<>>]
        /\ stored' = [stored EXCEPT ![p] = 0]
        /\ cur' = [cur EXCEPT ![p] = 0]
        /\ stats' = [stats EXCEPT ![p] = Zero]
        /\ total' = [total EXCEPT ![p] = Zero]
        /\ malformed' = [malformed EXCEPT ![p] = 0]
        /\ credited' = [credited EXCEPT ![p] = 0]
        /\ acked' = acked
    BY <1>8 DEF Rerun
  <2> QED
    BY <1>0, <2>1 DEF IngestTypeOK, HistoryTypeOK
<1> QED
  BY <1>1, <1>2, <1>3, <1>4, <1>5, <1>6, <1>7, <1>8 DEF IngestStep

\* All other steps leave every ingest alone.
LEMMA OtherSteps ==
    ASSUME NEW p \in Proc, ProcNext(p),
           ~(p \in Ingesters /\ (IngestStep(p) \/ Rerun(p)))
    PROVE  UNCHANGED ingestVars /\ UNCHANGED <<acked, credited>>
<1>1. CASE p \in Pruners /\ PruneStep(p)
  BY <1>1 DEF PruneStep, EndPruneCount, EndRead, BeginStatement, Delete, Vacuum,
     CommitDelete, CommitVacuum, historyVars
<1>2. CASE p \in Readers /\ (StatsStep(p) \/ Request(p))
  BY <1>2 DEF StatsStep, EndCount, EndRange, EndTags, EndRead, CannotRecover, Fail,
     Request, historyVars
<1>3. CASE Rerun(p)
  <2>1. p \notin Ingesters
    BY <1>3
  <2> QED
    BY <1>3, <2>1 DEF Rerun
<1>4. CASE \/ BeginRead(p) \/ EndOpen(p) \/ CommitStep(p) \/ BusyTimeout(p) \/ Die(p)
           \/ p \in Pruners /\ Confirm(p)
  BY <1>4 DEF BeginRead, EndOpen, EndRead, CommitStep, BusyTimeout, Die, Fail, Confirm,
     historyVars
<1> QED
  BY <1>1, <1>2, <1>3, <1>4 DEF ProcNext, Step

LEMMA SameLines ==
    ASSUME NEW i, SameIngest(i),
           pc'[i] = "done" => pc[i] = "done" \/ (pos[i] = Len(Source[i]) /\ batch[i] = <<>>),
           pc'[i] \in Resting => pc[i] \in Resting
    PROVE  /\ LinesKept(i) => LinesKept(i)'
           /\ LinesCounted(i) => LinesCounted(i)'
<1>1. Waiting(i)' = Waiting(i)
  BY DEF SameIngest, Waiting
<1>2. Timestamped(i)' = Timestamped(i)
  BY DEF Timestamped, Prepare
<1>3. NonBlank(i, pos[i])' = NonBlank(i, pos[i])
  BY DEF SameIngest, NonBlank
<1>4. Counted(total[i])' = Counted(total[i]) /\ Counted(stats[i])' = Counted(stats[i])
  BY DEF SameIngest, Counted
<1>5. LinesKept(i) => LinesKept(i)'
  BY <1>1, <1>2 DEF SameIngest, LinesKept
<1>6. LinesCounted(i) => LinesCounted(i)'
  BY <1>3, <1>4 DEF SameIngest, LinesCounted
<1> QED
  BY <1>5, <1>6

LEMMA StepOfOther ==
    ASSUME Inv, NEW p \in Proc, ProcNext(p), NEW i \in Ingesters \ {p},
           LinesKept(i), LinesCounted(i), RowsCounted(i)
    PROVE  LinesKept(i)' /\ LinesCounted(i)' /\ RowsCounted(i)'
<1> USE StoreAssumption, StoreParts DEF Inv
<1>1. LeavesOthers(p) /\ (Quiet(p) \/ (Commits(p) /\ DeleteJournal(p)))
  BY Frame
<1>2. pc'[i] = pc[i] /\ lock'[i] = lock[i] /\ image'[i] = image[i]
  BY <1>1 DEF LeavesOthers
<1>3. SameIngest(i)
  <2>1. CASE p \in Ingesters /\ (IngestStep(p) \/ Rerun(p))
    BY <2>1, IngestStepSame
  <2>2. CASE ~(p \in Ingesters /\ (IngestStep(p) \/ Rerun(p)))
    BY <2>2, OtherSteps DEF SameIngest, ingestVars
  <2> QED
    BY <2>1, <2>2
<1>4. RowsCounted(i)'
  <2>1. CASE Committed' = Committed
    BY <1>2, <1>3, <2>1 DEF RowsCounted, SameIngest, Writer
  <2>2. CASE lock[i] = "none"
    BY <1>2, <1>3, <2>2 DEF RowsCounted, SameIngest, Writer, Writing
  <2> QED
    BY <1>1, <2>1, <2>2, CommittedSame, CommittedNew
<1> QED
  BY <1>2, <1>3, <1>4, SameLines

-----------------------------------------------------------------------------
(* The steps of an ingest itself.                                          *)

AccountOf(i) == LinesKept(i) /\ LinesCounted(i) /\ RowsCounted(i)

LEMMA CardTypes ==
    ASSUME TypeInv, NEW p \in Proc
    PROVE  /\ IsFiniteSet(Committed) /\ Cardinality(Committed) \in Nat
           /\ IsFiniteSet(image[p]) /\ Cardinality(image[p]) \in Nat
BY FS_CardinalityType DEF TypeInv, FileInv, FiniteInv, Committed

\* Steps that leave the account alone.
LEMMA StillStep ==
    ASSUME Inv, NEW p \in Ingesters, AccountOf(p),
           \/ BeginRead(p) \/ EndOpen(p) \/ CommitStep(p) \/ BusyTimeout(p) \/ Die(p)
           \/ HandOver(p) \/ Finish(p) \/ StartChunk(p) \/ BecomeWriter(p)
    PROVE  AccountOf(p)'
<1> USE StoreAssumption, StoreParts DEF Inv
<1>0. p \in Proc /\ PcTypeOK /\ FileTypeOK /\ PlaceOK(p)
  BY DEF ProcOK
<1>1. SameIngest(p)
  BY DEF SameIngest, BeginRead, EndOpen, EndRead, CommitStep, BusyTimeout, Die, Fail,
     HandOver, Finish, StartChunk, BecomeWriter, ingestVars, historyVars
<1>2. /\ pc'[p] = "done" => pc[p] = "done" \/ (pos[p] = Len(Source[p]) /\ batch[p] = <<>>)
      /\ pc'[p] \in Resting => pc[p] \in Resting
  BY <1>0 DEF Resting, BeginRead, EndOpen, EndRead, CommitStep, BusyTimeout, Die, Fail,
     HandOver, Finish, StartChunk, BecomeWriter, Goto, PcTypeOK
<1>3. RowsCounted(p)'
  <2>1. total'[p].inserted = credited'[p]
    BY <1>1 DEF AccountOf, RowsCounted, SameIngest
  <2>2. CASE pc'[p] # "insert" /\ lock'[p] \notin Writing
    BY <2>1, <2>2 DEF RowsCounted, Writer
  <2>3. CASE BeginRead(p) \/ EndOpen(p) \/ BusyTimeout(p) \/ Die(p)
    <3>1. pc'[p] # "insert" /\ lock'[p] \notin Writing
      BY <1>0, <2>3 DEF BeginRead, AcquireShared, EndOpen, EndRead, ReleaseShared, Goto,
         BusyTimeout, Die, Fail, Drop, Reading, Writing, PcTypeOK, FileTypeOK
    <3> QED
      BY <3>1, <2>2
  <2>4. CASE HandOver(p) \/ Finish(p)
    <3>1. pc'[p] # "insert" /\ lock'[p] \notin Writing
      BY <1>0, <2>4 DEF HandOver, Finish, Goto, fileVars, PlaceOK, Writer, PcTypeOK
    <3> QED
      BY <3>1, <2>2
  <2>5. CASE StartChunk(p)
    <3>1. stats'[p].inserted = 0
      BY <1>1, <2>5 DEF AccountOf, LinesCounted, Resting, StartChunk, SameIngest, Zero
    <3>2. lock'[p] \notin Writing
      BY <1>0, <2>5 DEF StartChunk, fileVars, PlaceOK, Writer
    <3> QED
      BY <2>1, <3>1, <3>2 DEF RowsCounted, Writer
  <2>6. CASE BecomeWriter(p)
    <3>1. stats'[p].inserted = 0
      BY <1>1, <2>6 DEF AccountOf, RowsCounted, BecomeWriter, InChunk, AcquireReserved,
         SameIngest
    <3>2. image'[p] = Committed' /\ lock'[p] = "reserved"
      BY <1>0, <2>6, CommittedSame DEF BecomeWriter, AcquireReserved, FileTypeOK, Quiet
    <3>3. Cardinality(Committed') \in Nat
      BY <1>0, <2>6, CardTypes, CommittedSame DEF BecomeWriter, Quiet
    <3>4. stats'[p].inserted = Cardinality(image'[p]) - Cardinality(Committed')
      BY <3>1, <3>2, <3>3
    <3> QED
      BY <2>1, <3>2, <3>4 DEF RowsCounted
  <2>7. CASE CommitStep(p)
    <3>1. Writer(p) /\ Writer(p)' /\ image'[p] = image[p] /\ Committed' = Committed
      BY <1>0, <2>7, CommittedSame DEF CommitStep, AcquirePending, AcquireExclusive,
         WriteBack, Quiet, Writer, Writing, FileTypeOK
    <3> QED
      BY <1>1, <2>1, <3>1 DEF AccountOf, RowsCounted, SameIngest, Writer, Writing
  <2> QED
    BY <2>3, <2>4, <2>5, <2>6, <2>7
<1> QED
  BY <1>1, <1>2, <1>3, SameLines DEF AccountOf

\* The lines of a source, counted.
LEMMA NonBlankNext ==
    ASSUME NEW i, NEW n \in Nat
    PROVE  /\ Cardinality(NonBlank(i, n)) \in Nat
           /\ Source[i][n + 1] = Blank => NonBlank(i, n + 1) = NonBlank(i, n)
           /\ Source[i][n + 1] # Blank =>
                Cardinality(NonBlank(i, n + 1)) = Cardinality(NonBlank(i, n)) + 1
<1>1. IsFiniteSet(NonBlank(i, n))
  <2>1. IsFiniteSet(1 .. n)
    BY FS_Interval
  <2> QED
    BY <2>1, FS_Subset DEF NonBlank
<1>2. 1 .. n + 1 = (1 .. n) \cup {n + 1} /\ n + 1 \notin 1 .. n
  OBVIOUS
<1>3. Source[i][n + 1] = Blank => NonBlank(i, n + 1) = NonBlank(i, n)
  BY <1>2 DEF NonBlank
<1>4. Source[i][n + 1] # Blank => NonBlank(i, n + 1) = NonBlank(i, n) \cup {n + 1}
  BY <1>2 DEF NonBlank
<1>5. n + 1 \notin NonBlank(i, n)
  BY <1>2 DEF NonBlank
<1> QED
  BY <1>1, <1>3, <1>4, <1>5, FS_AddElement, FS_CardinalityType

\* Entries on their way stay on their way when another one joins them.
LEMMA WaitingAppend ==
    ASSUME NEW i \in Ingesters, IngestTypeOK, stored[i] <= Len(batch[i]), NEW e \in Entry,
           batch'[i] = Append(batch[i], e), stored'[i] = stored[i]
    PROVE  /\ Waiting(i) \subseteq Waiting(i)'
           /\ e.ts # NoTime => e.raw \in Waiting(i)'
<1>1. /\ batch[i] \in Seq(Entry) /\ stored[i] \in Nat /\ Len(batch[i]) \in Nat
      /\ Len(batch'[i]) = Len(batch[i]) + 1
      /\ \A k \in 1 .. Len(batch[i]) : batch'[i][k] = batch[i][k]
      /\ batch'[i][Len(batch[i]) + 1] = e
  BY DEF IngestTypeOK
<1>2. Waiting(i)' = {batch'[i][k].raw : k \in {n \in stored[i] + 1 .. Len(batch[i]) + 1 :
                                                  batch'[i][n].ts # NoTime}}
  BY <1>1 DEF Waiting
<1>3. ASSUME NEW k \in stored[i] + 1 .. Len(batch[i]), batch[i][k].ts # NoTime
      PROVE  batch[i][k].raw \in Waiting(i)'
  <2>1. k \in 1 .. Len(batch[i]) /\ k \in stored[i] + 1 .. Len(batch[i]) + 1
    BY <1>1
  <2>2. batch'[i][k] = batch[i][k]
    BY <1>1, <2>1
  <2> QED
    BY <1>2, <1>3, <2>1, <2>2
<1>4. Len(batch[i]) + 1 \in stored[i] + 1 .. Len(batch[i]) + 1
  BY <1>1
<1> QED
  BY <1>1, <1>2, <1>3, <1>4 DEF Waiting

LEMMA CountersType ==
    ASSUME IngestTypeOK, NEW i \in Ingesters
    PROVE  /\ Counted(total[i]) \in Nat /\ Counted(stats[i]) \in Nat
           /\ malformed[i] \in Nat /\ Len(batch[i]) \in Nat /\ cur[i] \in Nat
<1>1. total[i] \in Tally /\ stats[i] \in Tally
  BY DEF IngestTypeOK
<1>2. \A t \in Tally : Counted(t) \in Nat
  BY DEF Tally, Counted
<1>3. malformed[i] \in Nat /\ batch[i] \in Seq(Entry) /\ cur[i] \in Nat
  BY DEF IngestTypeOK
<1> QED
  BY <1>1, <1>2, <1>3

LEMMA ReadLineAccount ==
    ASSUME Inv, NEW p \in Ingesters, AccountOf(p), ReadLine(p)
    PROVE  AccountOf(p)'
<1> USE StoreAssumption, StoreParts DEF Inv
<1> DEFINE line == Source[p][pos[p] + 1]
<1>0. p \in Proc /\ PcTypeOK /\ FileTypeOK /\ IngestTypeOK /\ BatchOK(p) /\ PlaceOK(p)
  BY DEF ProcOK
<1>1. /\ pc[p] = "collect" /\ pc'[p] = pc[p] /\ pos[p] \in Nat /\ pos[p] + 1 <= Len(Source[p])
      /\ pos'[p] = pos[p] + 1 /\ Len(Source[p]) \in Nat
      /\ UNCHANGED <<fileVars, stored, cur, stats, total, acked, credited>>
      /\ malformed'[p] = IF line = Malformed THEN malformed[p] + 1 ELSE malformed[p]
      /\ line \in {Malformed, Blank} => batch'[p] = batch[p]
      /\ line \notin {Malformed, Blank} => batch'[p] = Append(batch[p], Prepare(p, line))
  BY <1>0 DEF ReadLine, IngestTypeOK, historyVars
<1>2. stored[p] <= Len(batch[p])
  BY <1>0 DEF BatchOK, IngestTypeOK
<1>3. line \notin {Malformed, Blank} => Prepare(p, line) \in Entry /\ Prepare(p, line).raw = line.raw
  BY <1>1, SourceType, PrepareType DEF Prepare
<1>4. Waiting(p) \subseteq Waiting(p)'
  <2>1. CASE line \in {Malformed, Blank}
    BY <1>1, <2>1 DEF Waiting
  <2>2. CASE line \notin {Malformed, Blank}
    BY <1>0, <1>1, <1>2, <1>3, <2>2, WaitingAppend
  <2> QED
    BY <2>1, <2>2
<1>5. Timestamped(p)' = Timestamped(p)
  BY DEF Timestamped, Prepare
<1>6. LinesKept(p)'
  <2>1. ASSUME NEW k \in Timestamped(p), k <= pos[p] + 1
        PROVE  Source[p][k].raw \in acked[p] \cup Waiting(p)'
    <3>1. CASE k <= pos[p]
      BY <1>4, <2>1, <3>1 DEF AccountOf, LinesKept
    <3>2. CASE k = pos[p] + 1
      <4>1. line \notin {Malformed, Blank} /\ Prepare(p, line).ts # NoTime
        BY <3>2 DEF Timestamped
      <4> QED
        BY <1>0, <1>1, <1>2, <1>3, <3>2, <4>1, WaitingAppend
    <3>3. k \in Nat
      BY <1>1 DEF Timestamped
    <3> QED
      BY <1>1, <2>1, <3>1, <3>2, <3>3
  <2> QED
    BY <1>1, <1>5, <2>1 DEF LinesKept
<1>7. LinesCounted(p)'
  <2>1. /\ Counted(total[p]) \in Nat /\ Counted(stats[p]) \in Nat
        /\ malformed[p] \in Nat /\ Len(batch[p]) \in Nat /\ cur[p] \in Nat
    BY <1>0, CountersType
  <2>2. /\ Counted(total[p])' = Counted(total[p]) /\ Counted(stats[p])' = Counted(stats[p])
        /\ cur'[p] = cur[p] /\ stats'[p] = Zero
    BY <1>1 DEF Counted, AccountOf, LinesCounted, Resting
  <2>3. NonBlank(p, pos[p])' = NonBlank(p, pos[p] + 1)
    BY <1>1 DEF NonBlank
  <2>4. /\ Cardinality(NonBlank(p, pos[p])) \in Nat
        /\ line = Blank => NonBlank(p, pos[p] + 1) = NonBlank(p, pos[p])
        /\ line # Blank =>
             Cardinality(NonBlank(p, pos[p] + 1)) = Cardinality(NonBlank(p, pos[p])) + 1
    BY <1>1, NonBlankNext
  <2>5. /\ line = Blank => malformed'[p] = malformed[p] /\ Len(batch'[p]) = Len(batch[p])
        /\ line = Malformed => malformed'[p] = malformed[p] + 1 /\ Len(batch'[p]) = Len(batch[p])
        /\ line \notin {Malformed, Blank} =>
             malformed'[p] = malformed[p] /\ Len(batch'[p]) = Len(batch[p]) + 1
    BY <1>0, <1>1, <1>3 DEF IngestTypeOK
  <2>6. Counted(total[p]) + Counted(stats[p]) + malformed[p] + (Len(batch[p]) - cur[p])
          = Cardinality(NonBlank(p, pos[p]))
    BY DEF AccountOf, LinesCounted
  <2>7. /\ Counted(total[p]) + Counted(stats[p]) + (malformed[p] + 1) + (Len(batch[p]) - cur[p])
            = Cardinality(NonBlank(p, pos[p])) + 1
        /\ Counted(total[p]) + Counted(stats[p]) + malformed[p] + ((Len(batch[p]) + 1) - cur[p])
            = Cardinality(NonBlank(p, pos[p])) + 1
    <3> DEFINE t == Counted(total[p])
               u == Counted(stats[p])
               m == malformed[p]
               l == Len(batch[p])
               c == cur[p]
               n == Cardinality(NonBlank(p, pos[p]))
    <3>1. t \in Nat /\ u \in Nat /\ m \in Nat /\ l \in Nat /\ c \in Nat /\ n \in Nat
      BY <2>1, <2>4
    <3>2. t + u + m + (l - c) = n
      BY <2>6
    <3> HIDE DEF t, u, m, l, c, n
    <3>3. t + u + (m + 1) + (l - c) = n + 1 /\ t + u + m + ((l + 1) - c) = n + 1
      BY ONLY <3>1, <3>2
    <3> QED
      BY <3>3 DEF t, u, m, l, c, n
  <2>8. Counted(total[p]) + Counted(stats[p]) + malformed'[p] + (Len(batch'[p]) - cur[p])
          = Cardinality(NonBlank(p, pos[p] + 1))
    <3>1. CASE line = Blank
      BY <2>4, <2>5, <2>6, <3>1
    <3>2. CASE line = Malformed
      BY <2>4, <2>5, <2>7, <3>2
    <3>3. CASE line \notin {Malformed, Blank}
      BY <2>4, <2>5, <2>7, <3>3
    <3> QED
      BY <3>1, <3>2, <3>3
  <2> QED
    BY <2>2, <2>3, <2>8 DEF LinesCounted
<1>8. RowsCounted(p)'
  BY <1>0, <1>1 DEF AccountOf, RowsCounted, PlaceOK, Writer, fileVars
<1> QED
  BY <1>6, <1>7, <1>8 DEF AccountOf

\* One entry of the chunk goes from the batch into a counter.
LEMMA HandledOne ==
    ASSUME NEW i \in Ingesters, IngestTypeOK, LinesCounted(i), pc'[i] = "insert",
           Counted(stats[i])' = Counted(stats[i]) + 1, cur'[i] = cur[i] + 1,
           pos'[i] = pos[i], batch'[i] = batch[i], total'[i] = total[i],
           malformed'[i] = malformed[i]
    PROVE  LinesCounted(i)'
<1> DEFINE t == Counted(total[i])
           u == Counted(stats[i])
           m == malformed[i]
           l == Len(batch[i])
           c == cur[i]
           n == Cardinality(NonBlank(i, pos[i]))
<1>1. t \in Nat /\ u \in Nat /\ m \in Nat /\ l \in Nat /\ c \in Nat
  BY CountersType
<1>2. t + u + m + (l - c) = n
  BY DEF LinesCounted
<1>3. t' = t /\ u' = u + 1 /\ m' = m /\ l' = l /\ c' = c + 1 /\ n' = n
  BY DEF Counted, NonBlank
<1>4. pc'[i] \notin Resting
  BY DEF Resting
<1>5. SUFFICES t' + u' + m' + (l' - c') = n'
  BY <1>4 DEF LinesCounted
<1> HIDE DEF t, u, m, l, c, n
<1>6. t + (u + 1) + m + (l - (c + 1)) = n
  BY ONLY <1>1, <1>2
<1> QED
  BY ONLY <1>3, <1>6

LEMMA WaitingSame ==
    ASSUME NEW i, LinesKept(i), batch'[i] = batch[i], stored'[i] = stored[i],
           pos'[i] = pos[i], acked'[i] = acked[i], pc'[i] = "insert"
    PROVE  LinesKept(i)'
<1>1. Waiting(i)' = Waiting(i)
  BY DEF Waiting
<1>2. Timestamped(i)' = Timestamped(i)
  BY DEF Timestamped, Prepare
<1> QED
  BY <1>1, <1>2 DEF LinesKept

LEMMA SkipEntryAccount ==
    ASSUME Inv, NEW p \in Ingesters, AccountOf(p), SkipEntry(p)
    PROVE  AccountOf(p)'
<1> USE StoreAssumption, StoreParts DEF Inv
<1>0. IngestTypeOK
  OBVIOUS
<1>1. /\ pc[p] = "insert" /\ UNCHANGED <<fileVars, pc, pos, batch, stored, total, malformed>>
      /\ UNCHANGED <<acked, credited>> /\ cur'[p] = cur[p] + 1
      /\ stats'[p] = [stats[p] EXCEPT !.skipped = @ + 1]
  BY <1>0 DEF SkipEntry, InChunk, IngestTypeOK, historyVars
<1>2. stats[p] \in Tally
  BY <1>0 DEF IngestTypeOK
<1>3. stats'[p].inserted = stats[p].inserted /\ Counted(stats'[p]) = Counted(stats[p]) + 1
  BY <1>1, <1>2 DEF Tally, Counted
<1>4. Counted(stats[p])' = Counted(stats[p]) + 1
  BY <1>3 DEF Counted
<1>5. LinesKept(p)' /\ LinesCounted(p)'
  BY <1>0, <1>1, <1>4, HandledOne, WaitingSame DEF AccountOf
<1>6. Committed' = Committed
  BY <1>1 DEF fileVars, Committed
<1>7. RowsCounted(p)'
  BY <1>1, <1>3, <1>6 DEF AccountOf, RowsCounted, Writer, fileVars
<1> QED
  BY <1>5, <1>7 DEF AccountOf

LEMMA InsertAccount ==
    ASSUME Inv, NEW p \in Ingesters, AccountOf(p), InsertOrIgnore(p)
    PROVE  AccountOf(p)'
<1> USE StoreAssumption, StoreParts DEF Inv
<1>0. p \in Proc /\ IngestTypeOK /\ FileTypeOK
  OBVIOUS
<1>1. /\ pc[p] = "insert" /\ UNCHANGED <<pc, pos, batch, stored, total, malformed>>
      /\ UNCHANGED <<acked, credited>> /\ cur'[p] = cur[p] + 1
  BY <1>0 DEF InsertOrIgnore, InChunk, IngestTypeOK, historyVars
<1>2. \/ /\ stats'[p] = [stats[p] EXCEPT !.inserted = @ + 1]
         /\ Current(p).raw \notin Raws(image[p]) /\ Modify(p, image[p] \cup {Current(p)})
      \/ /\ stats'[p] = [stats[p] EXCEPT !.deduplicated = @ + 1]
         /\ Modify(p, image[p])
  BY <1>0 DEF InsertOrIgnore, IngestTypeOK
<1>3. stats[p] \in Tally
  BY <1>0 DEF IngestTypeOK
<1>4. Counted(stats[p])' = Counted(stats[p]) + 1
  <2>1. CASE stats'[p] = [stats[p] EXCEPT !.inserted = @ + 1]
    BY <1>3, <2>1 DEF Tally, Counted
  <2>2. CASE stats'[p] = [stats[p] EXCEPT !.deduplicated = @ + 1]
    BY <1>3, <2>2 DEF Tally, Counted
  <2> QED
    BY <1>2, <2>1, <2>2
<1>5. LinesKept(p)' /\ LinesCounted(p)'
  BY <1>0, <1>1, <1>4, HandledOne, WaitingSame DEF AccountOf
<1>6. Committed' = Committed
  BY <1>0, <1>2, CommittedSame DEF Quiet
<1>7. lock[p] = "reserved" /\ lock'[p] = "reserved"
  BY <1>0, <1>2 DEF Modify
<1>8. stats[p].inserted = Cardinality(image[p]) - Cardinality(Committed)
  BY <1>7 DEF AccountOf, RowsCounted, Writer, Writing
<1>9. stats'[p].inserted = Cardinality(image'[p]) - Cardinality(Committed)
  <2>0. Cardinality(image[p]) \in Nat /\ Cardinality(Committed) \in Nat /\ IsFiniteSet(image[p])
    BY <1>0, CardTypes
  <2>1. CASE /\ stats'[p] = [stats[p] EXCEPT !.inserted = @ + 1]
             /\ Current(p).raw \notin Raws(image[p]) /\ Modify(p, image[p] \cup {Current(p)})
    <3>1. Current(p) \notin image[p] /\ image'[p] = image[p] \cup {Current(p)}
      BY <1>0, <2>1 DEF Raws, Modify, FileTypeOK
    <3>2. Cardinality(image'[p]) = Cardinality(image[p]) + 1
      BY <2>0, <3>1, FS_AddElement
    <3>3. stats'[p].inserted = stats[p].inserted + 1
      BY <1>3, <2>1 DEF Tally
    <3> QED
      BY <1>8, <2>0, <3>2, <3>3
  <2>2. CASE /\ stats'[p] = [stats[p] EXCEPT !.deduplicated = @ + 1]
             /\ Modify(p, image[p])
    <3>1. image'[p] = image[p] /\ stats'[p].inserted = stats[p].inserted
      BY <1>0, <1>3, <2>2 DEF Modify, FileTypeOK, Tally
    <3> QED
      BY <1>8, <3>1
  <2> QED
    BY <1>2, <2>1, <2>2
<1>10. RowsCounted(p)'
  BY <1>1, <1>6, <1>7, <1>9 DEF AccountOf, RowsCounted
<1> QED
  BY <1>5, <1>10 DEF AccountOf

LEMMA Sums ==
    ASSUME NEW x \in Tally, NEW y \in Tally
    PROVE  /\ Counted(Sum3(x, y)) = Counted(x) + Counted(y)
           /\ Sum3(x, y).inserted = x.inserted + y.inserted
           /\ Counted(Zero) = 0 /\ Zero.inserted = 0
BY DEF Tally, Sum3, Counted, Zero

\* The rows of a chunk that returns are acknowledged, its counters added up.
LEMMA ReturnedChunk ==
    ASSUME NEW i \in Ingesters, IngestTypeOK, HistoryTypeOK, LinesKept(i), LinesCounted(i),
           BatchOK(i), PcTypeOK, i \in Proc, ReturnChunk(i),
           UNCHANGED <<pos, batch, cur, malformed>>
    PROVE  LinesKept(i)' /\ LinesCounted(i)'
<1>1. /\ pc'[i] = "batch" /\ stored'[i] = cur[i] /\ stats'[i] = Zero
      /\ total'[i] = Sum3(total[i], stats[i])
      /\ acked'[i] = acked[i] \cup Raws(ChunkRows(i, cur[i]))
  BY DEF ReturnChunk, Goto, PcTypeOK, IngestTypeOK, HistoryTypeOK
<1>2. /\ stored[i] \in Nat /\ cur[i] \in Nat /\ Len(batch[i]) \in Nat
      /\ total[i] \in Tally /\ stats[i] \in Tally
  BY DEF IngestTypeOK
<1>3. Waiting(i) \subseteq Waiting(i)' \cup Raws(ChunkRows(i, cur[i]))
  <2>1. SUFFICES ASSUME NEW k \in stored[i] + 1 .. Len(batch[i]), batch[i][k].ts # NoTime
                 PROVE  batch[i][k].raw \in Waiting(i)' \cup Raws(ChunkRows(i, cur[i]))
    BY DEF Waiting
  <2>2. CASE k <= cur[i]
    <3>1. k \in stored[i] + 1 .. cur[i]
      BY <1>2, <2>2
    <3>2. batch[i][k] \in ChunkRows(i, cur[i])
      BY <2>1, <3>1 DEF ChunkRows
    <3> QED
      BY <3>2 DEF Raws
  <2>3. CASE cur[i] < k
    <3>1. k \in cur[i] + 1 .. Len(batch[i])
      BY <1>2, <2>3
    <3> QED
      BY <1>1, <2>1, <3>1 DEF Waiting
  <2> QED
    BY <1>2, <2>2, <2>3
<1>4. Timestamped(i)' = Timestamped(i)
  BY DEF Timestamped, Prepare
<1>5. LinesKept(i)'
  BY <1>1, <1>3, <1>4 DEF LinesKept
<1>6. LinesCounted(i)'
  <2> DEFINE t == Counted(total[i])
             u == Counted(stats[i])
             m == malformed[i]
             d == Len(batch[i]) - cur[i]
             n == Cardinality(NonBlank(i, pos[i]))
  <2>1. t \in Nat /\ u \in Nat /\ m \in Nat /\ d \in Int
    BY CountersType
  <2>2. t + u + m + d = n
    BY DEF LinesCounted
  <2>3. t' = t + u /\ u' = 0 /\ m' = m /\ d' = d /\ n' = n
    <3>1. Counted(total'[i]) = Counted(total[i]) + Counted(stats[i]) /\ Counted(stats'[i]) = 0
      BY <1>1, <1>2, Sums
    <3> QED
      BY <3>1 DEF Counted, NonBlank
  <2>4. SUFFICES t' + u' + m' + d' = n'
    BY <1>1 DEF LinesCounted
  <2> HIDE DEF t, u, m, d, n
  <2> QED
    BY ONLY <2>1, <2>2, <2>3
<1> QED
  BY <1>5, <1>6

LEMMA CommitChunkAccount ==
    ASSUME Inv, NEW p \in Ingesters, AccountOf(p), CommitChunk(p)
    PROVE  AccountOf(p)'
<1> USE StoreAssumption, StoreParts DEF Inv
<1>0. p \in Proc /\ IngestTypeOK /\ FileTypeOK /\ PcTypeOK /\ BatchOK(p) /\ HistoryTypeOK
  BY DEF ProcOK, TypeInv
<1>1. /\ DeleteJournal(p) /\ ReturnChunk(p) /\ UNCHANGED <<pos, batch, cur, malformed>>
      /\ credited'[p] = credited[p] + Cardinality(table) - Cardinality(saved)
  BY <1>0 DEF CommitChunk, HistoryTypeOK
<1>2. LinesKept(p)' /\ LinesCounted(p)'
  BY <1>0, <1>1, ReturnedChunk DEF AccountOf
<1>3. lock'[p] = "none" /\ pc'[p] = "batch"
  BY <1>0, <1>1 DEF DeleteJournal, ReturnChunk, Goto, FileTypeOK, PcTypeOK
<1>4. table = image[p] /\ saved = Committed /\ Writer(p)
  BY <1>0, <1>1 DEF DeleteJournal, LockInv, Committed, Writer, Writing
<1>5. /\ total[p] \in Tally /\ stats[p] \in Tally /\ credited[p] \in Int
      /\ Cardinality(image[p]) \in Nat /\ Cardinality(Committed) \in Nat
  BY <1>0, CardTypes DEF IngestTypeOK, HistoryTypeOK
<1>6. total'[p].inserted = total[p].inserted + stats[p].inserted
  <2>1. total'[p] = Sum3(total[p], stats[p])
    BY <1>0, <1>1 DEF ReturnChunk, IngestTypeOK
  <2> QED
    BY <1>5, <2>1, Sums
<1>7. /\ total[p].inserted = credited[p]
      /\ stats[p].inserted = Cardinality(image[p]) - Cardinality(Committed)
  BY <1>4 DEF AccountOf, RowsCounted
<1>8. total'[p].inserted = credited'[p]
  BY <1>1, <1>4, <1>5, <1>6, <1>7
<1>9. RowsCounted(p)'
  BY <1>3, <1>8 DEF RowsCounted, Writer, Writing
<1> QED
  BY <1>2, <1>9 DEF AccountOf

LEMMA CommitNothingAccount ==
    ASSUME Inv, NEW p \in Ingesters, AccountOf(p), CommitNothing(p)
    PROVE  AccountOf(p)'
<1> USE StoreAssumption, StoreParts DEF Inv
<1>0. p \in Proc /\ IngestTypeOK /\ FileTypeOK /\ PcTypeOK /\ BatchOK(p) /\ HistoryTypeOK
  BY DEF ProcOK, TypeInv
<1>1. /\ ReturnChunk(p) /\ UNCHANGED <<pos, batch, cur, malformed>>
      /\ pc[p] = "insert" /\ lock[p] = "none" /\ UNCHANGED <<fileVars, credited>>
  BY DEF CommitNothing
<1>2. LinesKept(p)' /\ LinesCounted(p)'
  BY <1>0, <1>1, ReturnedChunk DEF AccountOf
<1>3. lock'[p] = "none" /\ pc'[p] = "batch"
  BY <1>0, <1>1 DEF ReturnChunk, Goto, fileVars, PcTypeOK
<1>4. total[p] \in Tally /\ stats[p] \in Tally
  BY <1>0 DEF IngestTypeOK
<1>5. total'[p].inserted = total[p].inserted + stats[p].inserted
  <2>1. total'[p] = Sum3(total[p], stats[p])
    BY <1>0, <1>1 DEF ReturnChunk, IngestTypeOK
  <2> QED
    BY <1>4, <2>1, Sums
<1>6. total[p].inserted = credited[p] /\ stats[p].inserted = 0 /\ total[p].inserted \in Nat
  BY <1>1, <1>4 DEF AccountOf, RowsCounted, Tally
<1>7. RowsCounted(p)'
  BY <1>1, <1>3, <1>5, <1>6 DEF RowsCounted, Writer, Writing
<1> QED
  BY <1>2, <1>7 DEF AccountOf

LEMMA FinishBatchAccount ==
    ASSUME Inv, NEW p \in Ingesters, AccountOf(p), FinishBatch(p)
    PROVE  AccountOf(p)'
<1> USE StoreAssumption, StoreParts DEF Inv
<1>0. p \in Proc /\ IngestTypeOK /\ PcTypeOK /\ BatchOK(p) /\ PlaceOK(p)
  BY DEF ProcOK
<1>1. /\ pc[p] = "batch" /\ pc'[p] = "collect" /\ stored[p] = Len(batch[p])
      /\ batch'[p] = <<>> /\ stored'[p] = 0 /\ cur'[p] = 0
      /\ UNCHANGED <<fileVars, pos, stats, total, malformed, acked, credited>>
  BY <1>0 DEF FinishBatch, Goto, PcTypeOK, IngestTypeOK, historyVars
<1>2. cur[p] = Len(batch[p]) /\ Len(batch[p]) \in Nat
  BY <1>0, <1>1 DEF BatchOK, IngestTypeOK
<1>3. Waiting(p) = {}
  <2>1. stored[p] + 1 .. Len(batch[p]) = {}
    BY <1>1, <1>2
  <2> QED
    BY <2>1 DEF Waiting
<1>4. Timestamped(p)' = Timestamped(p)
  BY DEF Timestamped, Prepare
<1>5. LinesKept(p)'
  BY <1>1, <1>3, <1>4 DEF AccountOf, LinesKept
<1>6. LinesCounted(p)'
  <2>1. Len(batch'[p]) - cur'[p] = Len(batch[p]) - cur[p]
    BY <1>1, <1>2
  <2>2. NonBlank(p, pos[p])' = NonBlank(p, pos[p])
    BY <1>1 DEF NonBlank
  <2>3. Counted(total[p])' = Counted(total[p]) /\ Counted(stats[p])' = Counted(stats[p])
    BY <1>1 DEF Counted
  <2>4. stats'[p] = Zero
    BY <1>1 DEF AccountOf, LinesCounted, Resting
  <2> QED
    BY <1>1, <2>1, <2>2, <2>3, <2>4 DEF AccountOf, LinesCounted
<1>7. RowsCounted(p)'
  BY <1>0, <1>1 DEF AccountOf, RowsCounted, PlaceOK, Writer, fileVars
<1> QED
  BY <1>5, <1>6, <1>7 DEF AccountOf

LEMMA RerunAccount ==
    ASSUME Inv, NEW p \in Ingesters, Rerun(p)
    PROVE  AccountOf(p)'
<1> USE StoreAssumption, StoreParts DEF Inv
<1>0. p \in Proc /\ IngestTypeOK /\ PcTypeOK /\ PlaceOK(p) /\ HistoryTypeOK
  BY DEF ProcOK, TypeInv
<1>1. /\ pos' = [pos EXCEPT ![p] = 0]
      /\ batch' = [batch EXCEPT ![p] = <<>>]
      /\ stored' = [stored EXCEPT ![p] = 0]
      /\ cur' = [cur EXCEPT ![p] = 0]
      /\ stats' = [stats EXCEPT ![p] = Zero]
      /\ total' = [total EXCEPT ![p] = Zero]
      /\ malformed' = [malformed EXCEPT ![p] = 0]
      /\ credited' = [credited EXCEPT ![p] = 0]
      /\ UNCHANGED fileVars
  BY DEF Rerun
<1>2. /\ pos'[p] = 0 /\ batch'[p] = <<>> /\ cur'[p] = 0 /\ stats'[p] = Zero
      /\ total'[p] = Zero /\ malformed'[p] = 0 /\ credited'[p] = 0
  BY <1>0, <1>1 DEF IngestTypeOK, HistoryTypeOK
<1>3. pc[p] \in {"done", "failed", "killed"} /\ pc'[p] = "open"
  BY <1>0 DEF Rerun, Goto, PcTypeOK
<1>4. Len(Source[p]) \in Nat
  OBVIOUS
<1>5. LinesKept(p)'
  BY <1>2, <1>3, <1>4 DEF LinesKept, Timestamped
<1>6. LinesCounted(p)'
  <2>1. NonBlank(p, pos[p])' = {}
    BY <1>2 DEF NonBlank
  <2>2. Cardinality(NonBlank(p, pos[p]))' = 0
    BY <2>1, FS_EmptySet
  <2>3. Counted(total[p])' = 0 /\ Counted(stats[p])' = 0
    BY <1>2 DEF Counted, Zero
  <2> QED
    BY <1>2, <2>2, <2>3 DEF LinesCounted
<1>7. RowsCounted(p)'
  BY <1>0, <1>1, <1>2, <1>3 DEF RowsCounted, PlaceOK, Writer, Zero, fileVars
<1> QED
  BY <1>5, <1>6, <1>7 DEF AccountOf

-----------------------------------------------------------------------------
(* The theorems.                                                           *)

LEMMA AccountsInit == Init => Accounts
<1> SUFFICES ASSUME Init, NEW i \in Ingesters
             PROVE  LinesKept(i) /\ LinesCounted(i) /\ RowsCounted(i)
  BY DEF Accounts
<1> USE StoreAssumption
<1>1. /\ pos[i] = 0 /\ batch[i] = <<>> /\ cur[i] = 0 /\ stats[i] = Zero
      /\ total[i] = Zero /\ malformed[i] = 0 /\ credited[i] = 0
      /\ pc[i] = "open" /\ lock[i] = "none" /\ Len(Source[i]) \in Nat
  BY DEF Init
<1>2. LinesKept(i)
  BY <1>1 DEF LinesKept, Timestamped
<1>3. LinesCounted(i)
  <2>1. NonBlank(i, pos[i]) = {}
    BY <1>1 DEF NonBlank
  <2>2. Cardinality(NonBlank(i, pos[i])) = 0
    BY <2>1, FS_EmptySet
  <2>3. Counted(total[i]) = 0 /\ Counted(stats[i]) = 0
    BY <1>1 DEF Counted, Zero
  <2> QED
    BY <1>1, <2>2, <2>3 DEF LinesCounted
<1>4. RowsCounted(i)
  BY <1>1 DEF RowsCounted, Writer, Writing, Zero
<1> QED
  BY <1>2, <1>3, <1>4

LEMMA AccountsStep == Inv /\ Accounts /\ [Next]_vars => Accounts'
<1> SUFFICES ASSUME Inv, Accounts, [Next]_vars, NEW i \in Ingesters PROVE AccountOf(i)'
  BY DEF Accounts, AccountOf
<1>0. AccountOf(i)
  BY DEF Accounts, AccountOf
<1>1. ASSUME NEW p \in Proc, ProcNext(p), i # p PROVE AccountOf(i)'
  BY <1>0, <1>1, StepOfOther DEF AccountOf
<1>2. ASSUME ProcNext(i) PROVE AccountOf(i)'
  BY <1>0, <1>2, StoreAssumption, StillStep, ReadLineAccount, FinishBatchAccount,
     SkipEntryAccount, InsertAccount, CommitChunkAccount, CommitNothingAccount,
     RerunAccount DEF ProcNext, Step, IngestStep
<1>3. CASE UNCHANGED vars
  <2>1. SameIngest(i) /\ UNCHANGED <<pc, fileVars>>
    BY <1>3 DEF vars, ingestVars, historyVars, SameIngest
  <2>2. RowsCounted(i)'
    BY <1>0, <2>1 DEF AccountOf, RowsCounted, SameIngest, Writer, Committed, fileVars
  <2> QED
    BY <1>0, <2>1, <2>2, SameLines DEF AccountOf
<1> QED
  BY <1>1, <1>2, <1>3 DEF Next, ProcNext

\* ingest_reader and insert_batch: when a run of `logdive ingest` ends well, each
\* line of its source that parses and has a timestamp went through a committed
\* chunk, for batches and chunks of any size and a source of any length.
THEOREM CompleteIngestHolds == Spec => []CompleteIngest
<1>1. Inv /\ Accounts => CompleteIngest
  <2> SUFFICES ASSUME Inv, Accounts, NEW i \in Ingesters, pc[i] = "done",
                      NEW k \in Timestamped(i)
               PROVE  Source[i][k].raw \in acked[i]
    BY DEF CompleteIngest
  <2>1. LinesKept(i)
    BY DEF Accounts
  <2>2. k <= pos[i] /\ batch[i] = <<>>
    BY <2>1 DEF LinesKept, Timestamped
  <2>3. Waiting(i) = {}
    <3>1. stored[i] \in Nat
      BY DEF Inv, TypeInv, IngestTypeOK
    <3>2. stored[i] + 1 .. Len(batch[i]) = {}
      BY <2>2, <3>1
    <3> QED
      BY <3>2 DEF Waiting
  <2> QED
    BY <2>1, <2>2, <2>3 DEF LinesKept
<1> QED
  BY <1>1, InvInit, InvStep, AccountsInit, AccountsStep, PTL DEF Spec

\* The counters that insert_one_chunk returns, summed up by insert_batch and
\* ingest_reader: `inserted` is the number of rows this run has added to the
\* committed index, and at the end each line that is not blank is in one counter.
THEOREM SummaryIsExactHolds == Spec => []SummaryIsExact
<1>1. Inv /\ Accounts => SummaryIsExact
  <2> SUFFICES ASSUME Inv, Accounts, NEW i \in Ingesters
               PROVE  /\ total[i].inserted = credited[i]
                      /\ pc[i] = "done" =>
                           total[i].inserted + total[i].deduplicated + total[i].skipped
                              + malformed[i]
                             = Cardinality({k \in 1 .. Len(Source[i]) : Source[i][k] # Blank})
    BY DEF SummaryIsExact
  <2>1. LinesKept(i) /\ LinesCounted(i) /\ RowsCounted(i)
    BY DEF Accounts
  <2>2. ASSUME pc[i] = "done"
        PROVE  Counted(total[i]) + malformed[i]
                 = Cardinality({k \in 1 .. Len(Source[i]) : Source[i][k] # Blank})
    <3>1. pos[i] = Len(Source[i]) /\ Len(batch[i]) = 0
      BY <2>1, <2>2 DEF LinesKept
    <3>2. cur[i] = 0 /\ malformed[i] \in Nat /\ Counted(total[i]) \in Nat
      <4>1. BatchOK(i) /\ IngestTypeOK
        BY StoreAssumption, StoreParts DEF Inv, ProcOK
      <4>2. cur[i] \in Nat /\ cur[i] <= 0
        BY <3>1, <4>1 DEF BatchOK, IngestTypeOK
      <4> QED
        BY <4>1, <4>2, CountersType
    <3>3. Counted(stats[i]) = 0
      BY <2>1, <2>2 DEF LinesCounted, Resting, Counted, Zero
    <3>4. Counted(total[i]) + Counted(stats[i]) + malformed[i] + (Len(batch[i]) - cur[i])
            = Cardinality(NonBlank(i, pos[i]))
      BY <2>1 DEF LinesCounted
    <3>5. Counted(total[i]) + malformed[i] = Cardinality(NonBlank(i, pos[i]))
      BY <3>1, <3>2, <3>3, <3>4
    <3> QED
      BY <3>1, <3>5 DEF NonBlank
  <2> QED
    BY <2>1, <2>2 DEF RowsCounted, Counted
<1> QED
  BY <1>1, InvInit, InvStep, AccountsInit, AccountsStep, PTL DEF Spec

-----------------------------------------------------------------------------
(* Answers of stats.                                                       *)

\* As long as nothing is pruned the committed rows only grow.
LEMMA CommittedGrows ==
    ASSUME Inv, NEW p \in Proc, ProcNext(p), gone' = {}
    PROVE  gone = {} /\ Committed \subseteq Committed'
<1> USE StoreAssumption, StoreParts DEF Inv
<1>1. CASE Quiet(p) /\ ~Commits(p)
  <2>1. Committed' = Committed
    BY <1>1, CommittedSame
  <2>2. gone' = gone
    BY <1>1 DEF ProcNext, Step, IngestStep, PruneStep, StatsStep, Commits,
       historyVars, BeginRead, EndOpen, EndRead, CommitStep, ReadLine, HandOver, Finish,
       StartChunk, FinishBatch, SkipEntry, BecomeWriter, InsertOrIgnore, EndPruneCount,
       Confirm, BeginStatement, Delete, Vacuum, EndCount, EndRange, EndTags, CommitNothing,
       CannotRecover, Request, BusyTimeout, Die, Fail, Rerun
  <2> QED
    BY <2>1, <2>2
<1>2. CASE p \in Ingesters /\ CommitChunk(p)
  <2>1. DeleteJournal(p) /\ gone' = gone
    BY <1>2 DEF CommitChunk
  <2>2. Committed \subseteq image[p]
    BY <1>2, <2>1 DEF ProcOK, IngestImage, Extends, DeleteJournal, Writer, Writing
  <2> QED
    BY <2>1, <2>2, CommittedNew
<1>3. CASE p \in Pruners /\ CommitVacuum(p)
  <2>1. image[p] = Committed /\ gone' = gone /\ DeleteJournal(p)
    BY <1>3 DEF CommitVacuum, DeleteJournal, ProcOK, PruneImage, Writer, Writing, historyVars
  <2> QED
    BY <2>1, CommittedNew
<1>4. CASE p \in Pruners /\ CommitDelete(p)
  <2>1. /\ DeleteJournal(p) /\ pc[p] = "commit"
        /\ gone' = gone \cup (Raws(saved) \ Raws(table))
    BY <1>4 DEF CommitDelete
  <2>2. table = image[p] /\ saved = Committed /\ Committed' = image[p]
    BY <2>1, CommittedNew DEF DeleteJournal, LockInv, Committed
  <2>3. image[p] \subseteq Committed
    BY <1>4, <2>1 DEF ProcOK, PruneImage, DeleteJournal, Writer, Writing, NotOlder
  <2>4. gone = {} /\ Raws(Committed) \subseteq Raws(image[p])
    BY <2>1, <2>2
  <2>5. ASSUME NEW row \in Committed PROVE row \in image[p]
    <3>0. row.raw \in Raws(image[p])
      BY ONLY <2>4, <2>5 DEF Raws
    <3>1. PICK other \in image[p] : other.raw = row.raw
      BY ONLY <3>0 DEF Raws
    <3> QED
      BY <2>3, <3>1 DEF UniqueRaws
  <2> QED
    BY <2>2, <2>4, <2>5
<1> QED
  BY <1>1, <1>2, <1>3, <1>4, Frame DEF Commits

LEMMA Grown ==
    ASSUME TypeInv, TypeInv', Committed \subseteq Committed', NEW p \in Proc
    PROVE  /\ Cardinality(Committed) \in Nat /\ Cardinality(Committed') \in Nat
           /\ Cardinality(Committed) <= Cardinality(Committed')
           /\ Tags(Committed) \subseteq Tags(Committed')
<1>1. IsFiniteSet(Committed) /\ IsFiniteSet(Committed')
  BY DEF TypeInv, FileInv, FiniteInv, Committed
<1> QED
  BY <1>1, FS_Subset, FS_CardinalityType DEF Tags

LEMMA AnswerStays ==
    ASSUME TypeInv, TypeInv', NEW r \in Readers, AnswerOK(r), Committed \subseteq Committed',
           r \in Proc, answer'[r] = answer[r],
           pc'[r] = pc[r] \/ pc'[r] \notin {"range", "tags", "done"}
    PROVE  AnswerOK(r)'
<1>1. /\ Cardinality(Committed) \in Nat /\ Cardinality(Committed') \in Nat
      /\ Cardinality(Committed) <= Cardinality(Committed')
  BY Grown
<1>2. \A row \in Committed : row \in Committed'
  OBVIOUS
<1>3. answer[r].tags \subseteq Tags(Committed) => answer[r].tags \subseteq Tags(Committed)'
  BY <1>2 DEF Tags
<1>4. answer[r].entries \in Nat
  BY DEF TypeInv, ReportTypeOK, Answer
<1> QED
  BY <1>1, <1>3, <1>4 DEF AnswerOK

\* A reader of the table sees the committed rows.
LEMMA ReadsCommitted ==
    ASSUME Inv, NEW r \in Proc, lock[r] = "shared"
    PROVE  table = Committed
<1>1. FileTypeOK /\ LockInv
  BY StoreParts DEF Inv
<1> QED
  BY ONLY <1>1, lock[r] = "shared", r \in Proc DEF FileTypeOK, LockInv, Committed

LEMMA OwnAnswer ==
    ASSUME Inv, Inv', NEW r \in Readers, AnswerOK(r), ProcNext(r), gone' = {}
    PROVE  AnswerOK(r)'
<1> USE StoreAssumption DEF Inv
<1>0. r \in Proc /\ PcTypeOK /\ answer \in [Readers -> Answer] /\ Committed \subseteq Committed'
  BY CommittedGrows DEF TypeInv, ReportTypeOK
<1>1. Cardinality(Committed) \in Nat /\ IsFiniteSet(Committed)
  BY <1>0, CardTypes
<1>2. CASE EndCount(r)
  <2>1. pc'[r] = "range" /\ lock[r] = "shared" /\ Committed' = Committed
    BY <1>0, <1>2, CommittedSame, StoreParts DEF EndCount, EndRead, Goto, ReleaseShared,
       PcTypeOK, Quiet
  <2>2. answer'[r].entries = Cardinality(Committed)
    BY <1>0, <1>2, <2>1, ReadsCommitted DEF EndCount, Answer
  <2> QED
    BY <1>1, <2>1, <2>2 DEF AnswerOK
<1>3. CASE EndRange(r)
  <2>1. /\ pc[r] = "range" /\ pc'[r] = "tags" /\ lock[r] = "shared" /\ Committed' = Committed
    BY <1>0, <1>3, CommittedSame, StoreParts DEF EndRange, EndRead, Goto, ReleaseShared,
       PcTypeOK, Quiet
  <2>2. table = Committed /\ answer[r].entries <= Cardinality(Committed)
    BY <1>0, <2>1, ReadsCommitted DEF AnswerOK
  <2>3. /\ answer'[r].entries = answer[r].entries
        /\ answer'[r].entries > 0 => answer'[r].min # NoTime
    <3>1. CASE table = {} /\ UNCHANGED answer
      <4>1. answer[r].entries <= 0 /\ answer[r].entries \in Nat
        BY <1>0, <2>2, <3>1, FS_EmptySet DEF Answer
      <4> QED
        BY <3>1, <4>1
    <3>2. ASSUME NEW lo \in {row.ts : row \in table}, NEW hi \in {row.ts : row \in table},
                 answer' = [answer EXCEPT ![r].min = lo, ![r].max = hi]
          PROVE  answer'[r].entries = answer[r].entries /\ answer'[r].min # NoTime
      <4>1. lo \in Time
        BY DEF TypeInv, FileInv, FileTypeOK, Row
      <4>2. answer'[r].entries = answer[r].entries /\ answer'[r].min = lo
        BY <1>0, <3>2 DEF Answer
      <4> QED
        BY <4>1, <4>2, RowsAssumption
    <3> QED
      BY <1>3, <3>1, <3>2 DEF EndRange
  <2> QED
    BY <2>1, <2>2, <2>3 DEF AnswerOK
<1>4. CASE EndTags(r)
  <2>1. /\ pc[r] = "tags" /\ pc'[r] = "done" /\ lock[r] = "shared" /\ Committed' = Committed
    BY <1>0, <1>4, CommittedSame, StoreParts DEF EndTags, EndRead, Goto, ReleaseShared,
       PcTypeOK, Quiet
  <2>2. table = Committed /\ answer[r].entries <= Cardinality(Committed)
    BY <1>0, <2>1, ReadsCommitted DEF AnswerOK
  <2>3. /\ answer'[r].tags = Tags(Committed) /\ answer'[r].entries = answer[r].entries
        /\ answer'[r].min = answer[r].min /\ answer[r].entries \in Nat
    BY <1>0, <1>4, <2>2 DEF EndTags, Answer, Tags
  <2>4. CASE Committed = {}
    <3>1. Cardinality(Committed) = 0
      BY <2>4, FS_EmptySet
    <3> QED
      BY <2>1, <2>2, <2>3, <3>1, <2>4 DEF AnswerOK, Tags
  <2>5. ASSUME NEW row \in Committed PROVE answer'[r].tags # {}
    <3>1. row.tag \in Tags(Committed)
      BY DEF Tags
    <3> QED
      BY <2>3, <3>1
  <2>6. answer'[r].tags \subseteq Tags(Committed)'
    BY <2>1, <2>3 DEF Tags
  <2> QED
    BY <2>1, <2>2, <2>3, <2>4, <2>5, <2>6 DEF AnswerOK
<1>5. CASE Request(r)
  <2>1. pc'[r] \notin {"range", "tags", "done"}
    BY <1>0, <1>5 DEF Request, Goto, PcTypeOK
  <2> QED
    BY <2>1 DEF AnswerOK
<1>6. CASE \/ BeginRead(r) \/ EndOpen(r) \/ CommitStep(r) \/ BusyTimeout(r) \/ Die(r)
           \/ CannotRecover(r)
  <2>1. answer' = answer
    BY <1>6 DEF BeginRead, EndOpen, CommitStep, BusyTimeout, Die, CannotRecover, Fail
  <2>2. pc'[r] = pc[r] \/ pc'[r] \notin {"range", "tags", "done"}
    BY <1>0, <1>6 DEF BeginRead, EndOpen, EndRead, CommitStep, BusyTimeout, Die,
       CannotRecover, Fail, Goto, PcTypeOK
  <2> QED
    BY <1>0, <2>1, <2>2, AnswerStays
<1> QED
  BY <1>2, <1>3, <1>4, <1>5, <1>6 DEF ProcNext, Step, StatsStep, Rerun

LEMMA OtherAnswer ==
    ASSUME Inv, NEW p \in Proc, ProcNext(p), NEW r \in Readers \ {p}
    PROVE  answer'[r] = answer[r] /\ pc'[r] = pc[r]
<1> USE StoreAssumption DEF Inv
<1>1. pc'[r] = pc[r]
  BY Frame DEF LeavesOthers
<1>2. answer \in [Readers -> Answer]
  BY DEF TypeInv, ReportTypeOK
<1>3. CASE EndCount(p) \/ EndTags(p) \/ Request(p)
  BY <1>1, <1>2, <1>3 DEF EndCount, EndTags, Request
<1>4. CASE EndRange(p)
  <2>1. CASE UNCHANGED answer
    BY <1>1, <2>1
  <2>2. ASSUME NEW lo, NEW hi, answer' = [answer EXCEPT ![p].min = lo, ![p].max = hi]
        PROVE  answer'[r] = answer[r]
    BY <1>2, <2>2
  <2> QED
    BY <1>1, <1>4, <2>1, <2>2 DEF EndRange
<1>5. CASE answer' = answer
  BY <1>1, <1>5
<1>6. CASE BeginRead(p) \/ EndOpen(p) \/ CommitStep(p) \/ BusyTimeout(p) \/ Die(p)
           \/ Rerun(p) \/ CannotRecover(p) \/ Confirm(p)
  <2>1. answer' = answer
    BY <1>6 DEF BeginRead, EndOpen, CommitStep, BusyTimeout, Die, Rerun, CannotRecover,
       Confirm, Fail
  <2> QED
    BY <2>1, <1>5
<1>7. CASE p \in Ingesters /\ IngestStep(p)
  <2>1. answer' = answer
    BY <1>7 DEF IngestStep, ReadLine, HandOver, Finish, StartChunk, FinishBatch, SkipEntry,
       BecomeWriter, InsertOrIgnore, CommitChunk, CommitNothing
  <2> QED
    BY <2>1, <1>5
<1>8. CASE p \in Pruners /\ PruneStep(p)
  <2>1. answer' = answer
    BY <1>8 DEF PruneStep, EndPruneCount, BeginStatement, Delete, Vacuum, CommitDelete,
       CommitVacuum
  <2> QED
    BY <2>1, <1>5
<1> QED
  BY <1>3, <1>4, <1>6, <1>7, <1>8 DEF ProcNext, Step, StatsStep

LEMMA AnswersStep == Inv /\ Inv' /\ Answers /\ [Next]_vars => Answers'
<1> SUFFICES ASSUME Inv, Inv', Answers, [Next]_vars, gone' = {}, NEW r \in Readers
             PROVE  AnswerOK(r)'
  BY DEF Answers
<1> USE StoreAssumption DEF Inv
<1>1. ASSUME NEW p \in Proc, ProcNext(p) PROVE AnswerOK(r)'
  <2>1. gone = {} /\ Committed \subseteq Committed'
    BY <1>1, CommittedGrows
  <2>2. AnswerOK(r)
    BY <2>1 DEF Answers
  <2>3. CASE p = r
    BY <1>1, <2>2, <2>3, OwnAnswer
  <2>4. CASE p # r
    BY <1>1, <2>1, <2>2, <2>4, OtherAnswer, AnswerStays
  <2> QED
    BY <2>3, <2>4
<1>2. CASE UNCHANGED vars
  BY <1>2, AnswerStays DEF vars, fileVars, historyVars, Committed, Answers
<1> QED
  BY <1>1, <1>2 DEF Next, ProcNext

\* stats and GET /stats read the count, the time range and the tags in three
\* statements: as long as no prune deletes rows the answer is never ahead of the
\* index, and rows that were counted have a time range and tags in it, whatever is
\* committed in between.
THEOREM AnswerIsBehindHolds == Spec => []AnswerIsBehind
<1>1. Init => Answers
  BY StoreAssumption DEF Init, Answers, AnswerOK
<1>2. Answers => AnswerIsBehind
  BY DEF Answers, AnswerOK, AnswerIsBehind
<1> QED
  BY <1>1, <1>2, InvInit, InvStep, AnswersStep, PTL DEF Spec
=============================================================================
