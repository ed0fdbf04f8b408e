---------------------------- MODULE MCIndexStore ----------------------------
(***************************************************************************)
(* Small instances of IndexStore: ingesters whose sources overlap, a       *)
(* pruner whose cutoff separates the timestamps, a CLI and an API reader.  *)
(* The cfg of a run says which of them take part.                          *)
(***************************************************************************)
EXTENDS IndexStoreProps

CONSTANTS i1, i2, q1, api, cli, a, b, c, t1, t2

Line(raw, ts, tag) == [raw |-> raw, ts |-> ts, tag |-> tag]

\* Repeated lines within and across the sources, a line with its own tag, a
\* blank and a malformed line, lines without a timestamp in the middle of a
\* chunk and alone in one.
MCSource ==
    [i \in Ingesters |->
        IF i = i1
          THEN <<Line(a, 1, t1), Blank, Line(c, NoTime, NoTag), Line(b, 2, NoTag),
                 Line(c, NoTime, NoTag)>>
          ELSE <<Line(b, 2, NoTag), Malformed, Line(a, 1, t1)>>]
MCTagOption == [i \in Ingesters |-> IF i = i1 THEN NoTag ELSE t2]
MCStampNow == [i \in Ingesters |-> i # i1]
MCBatchLines == [i \in Ingesters |-> 2]
MCLongBatch == [i \in Ingesters |-> 3]
MCCutoff == [q \in Pruners |-> 2]

NoRows == {}
OldRow == {Line(c, 1, t1)}
=============================================================================
