--------------------------- MODULE WatchLoopProps ---------------------------
(***************************************************************************)
(* What following a file promises.                                         *)
(***************************************************************************)
EXTENDS WatchLoop

GoodTexts(lines) == {TextOfLine(lines[k]) : k \in Among(lines, {"good"})}

\* Whenever the loop is about to wait or has ended regularly, all that the
\* tailer has handed over is accounted for: good lines are in the index, and
\* the summary counts every line once (run_watch_loop hands the lines of
\* every call to ingest_lines, after a timeout as after an event).
FollowLosesNothing ==
    loop \in {"top", "wait", "done"} =>
        /\ index = GoodTexts(delivered)
        /\ total.inserted = Cardinality(index)
        /\ total.inserted + total.deduplicated + total.skipped + malformed + ignored
             = Len(delivered)

\* At any moment, a failed insert or a kill in the middle of a batch included,
\* the index holds the good lines of a prefix of what was appended since open:
\* there is no gap before a stored line (chunks are stored in order and the
\* first failure ends the command).
NoGap ==
    \E n \in 0 .. Len(delivered) : index = GoodTexts(SubSeq(delivered, 1, n))

AtPath(n) == path # NoFile /\ n \in NewLines(path)
Following == loop \in {"top", "wait", "read", "store"}
Arrived(n) == KindOf[TextOf[n]] # "good" \/ TextOf[n] \in index

\* A line that stands complete in the file at the path while the loop runs
\* gets into the index, unless the file is renamed away or the command ends
\* first.  No event needs to come: the drain after a second of silence finds
\* it, and the first drain after a rotation finds the new file.
LinesArrive ==
    \A n \in LineNumbers :
        Following /\ AtPath(n) ~> Arrived(n) \/ ~AtPath(n) \/ ~Following

\* Ctrl-C ends the command, whatever events keep coming ("Ctrl-C exits
\* cleanly").
StopEnds == stop ~> loop \in Ended
=============================================================================
