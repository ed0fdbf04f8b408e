------------------------------ MODULE WatchLoop ------------------------------
(***************************************************************************)
(* `logdive ingest --follow` (run_watch_loop and ingest_lines of           *)
(* crates/cli/src/main.rs) over FileTailer: wait for a file event or for a *)
(* second, call the tailer, store the lines, look at the stop flag.  The   *)
(* watcher (inotify through the notify crate) may report events that mean  *)
(* nothing, may miss some, and goes on watching the old inode after a      *)
(* rotation, so nothing ties its events to the writes.                     *)
(***************************************************************************)
EXTENDS FileTailerProps

CONSTANTS
    Texts,        \* what lines say
    TextOf,       \* TextOf[n]: what line n says
    FragmentText, \* what the rest of a line says when the file is opened in it
    KindOf,       \* KindOf[t]: what parse_line makes of text t
    BatchSize,    \* BATCH_SIZE of the indexer
    MaxEvents,    \* --max-events, or NoLimit
    NoLimit,
    MaxQueue,     \* bound: events in the channel
    Failures      \* may system calls and inserts fail, may the process be killed?

Kinds == {"good", "untimed", "malformed", "blank"}

ASSUME WatchAssumption ==
    /\ TextOf \in [LineNumbers -> Texts]
    /\ FragmentText \in Texts
    /\ KindOf \in [Texts -> Kinds]
    /\ BatchSize \in Nat \ {0}
    /\ MaxEvents \in Nat \cup {NoLimit}
    /\ MaxQueue \in Nat
    /\ Failures \in BOOLEAN

VARIABLES
    loop,       \* where run_watch_loop is
    cause,      \* what the last recv_timeout returned
    events,     \* events in the channel
    eventCount, \* event_count
    stop,       \* the flag that the Ctrl-C handler sets
    batch,      \* the entries of the insert_batch call that are not stored yet, as
                \* places in the lines of the last read_new_lines
    index,      \* the texts that are in the index
    total,      \* InsertStats of the stored chunks
    malformed,
    ignored     \* history: blank lines

loopVars == <<loop, cause, events, eventCount, stop, batch, index,
              total, malformed, ignored>>
allVars == <<logVars, tailVars, tailHistory, loopVars>>

Ended == {"done", "failed", "killed"}
TailUnchanged == UNCHANGED <<tailVars, tailHistory, logVars>>

LoopInit ==
    /\ loop = "open"
    /\ cause = "none"
    /\ events = 0
    /\ eventCount = 0
    /\ stop = FALSE
    /\ batch = {}
    /\ index = {}
    /\ total = [inserted |-> 0, deduplicated |-> 0, skipped |-> 0]
    /\ malformed = 0
    /\ ignored = 0

-----------------------------------------------------------------------------
\* The tailer is open, then watch(path), set_handler and Indexer::open, each
\* of which may fail.
SetUp ==
    /\ \/ loop = "open" /\ tpc = "idle" /\ loop' = "watch"
       \/ loop = "watch" /\ path # NoFile /\ loop' = "handler"
       \/ loop = "watch" /\ path = NoFile /\ loop' = "failed"
       \/ loop = "handler" /\ loop' = "index"
       \/ loop = "index" /\ loop' = "top"
       \/ Failures /\ loop \in {"watch", "handler", "index"} /\ loop' = "failed"
    /\ UNCHANGED <<cause, events, eventCount, stop, batch, index,
                   total, malformed, ignored>>
    /\ TailUnchanged

Top ==
    /\ loop = "top"
    /\ loop' = IF stop THEN "done" ELSE "wait"
    /\ UNCHANGED <<cause, events, eventCount, stop, batch, index,
                   total, malformed, ignored>>
    /\ TailUnchanged

\* Fault: only an event makes the loop look at the file.
EventOnly ==
    /\ loop = "wait"
    /\ events > 0
    /\ cause' = "event" /\ events' = events - 1
    /\ loop' = "read"
    /\ Call
    /\ UNCHANGED <<eventCount, stop, batch, index, total, malformed, ignored,
                   tailHistory, logVars>>

\* recv_timeout returns an event, or after a second without one it times out;
\* either way read_new_lines is called.
Receive ==
    /\ loop = "wait"
    /\ \/ events > 0 /\ cause' = "event" /\ events' = events - 1
       \/ events = 0 /\ cause' = "timeout" /\ UNCHANGED events
    /\ loop' = "read"
    /\ Call
    /\ UNCHANGED <<eventCount, stop, batch, index, total, malformed, ignored,
                   tailHistory, logVars>>

\* The watcher has gone: its sender is dropped and the channel drained.
Disconnected ==
    /\ Failures
    /\ loop = "wait" /\ events = 0
    /\ loop' = "done"
    /\ UNCHANGED <<cause, events, eventCount, stop, batch, index,
                   total, malformed, ignored>>
    /\ TailUnchanged

\* After an event it is counted, and the last one of --max-events ends the loop
\* (the counter is not kept when there is no limit).
LastEvent == cause = "event" /\ MaxEvents # NoLimit /\ eventCount + 1 >= MaxEvents

\* Fault: the stop flag is looked at after a timeout only.
EndIterationInside ==
    /\ loop' = IF LastEvent THEN "done" ELSE IF cause = "event" THEN "wait" ELSE "top"
    /\ eventCount' = IF cause = "event" /\ MaxEvents # NoLimit
                       THEN eventCount + 1 ELSE eventCount

\* The end of an iteration.
EndIteration ==
    /\ loop' = IF LastEvent THEN "done" ELSE "top"
    /\ eventCount' = IF cause = "event" /\ MaxEvents # NoLimit
                       THEN eventCount + 1 ELSE eventCount

\* What a delivered line says: line n, unless it is the rest of one.
TextOfLine(l) ==
    LET whole == {n \in LineNumbers : l = WholeLine(n)}
    IN  IF whole = {} THEN FragmentText ELSE TextOf[CHOOSE n \in whole : TRUE]
\* Where in lines those of some kinds are.
Among(lines, kinds) == {k \in DOMAIN lines : KindOf[TextOfLine(lines[k])] \in kinds}

\* Fault: a line without a timestamp ends the batch.
ParseUpToUntimed ==
    /\ loop = "read" /\ tpc = "idle"
    /\ batch' = {k \in Among(out, {"good", "untimed"}) :
                    \A j \in 1 .. k : KindOf[TextOfLine(out[j])] # "untimed"}
    /\ malformed' = malformed + Cardinality(Among(out, {"malformed"}))
    /\ ignored' = ignored + Cardinality(Among(out, {"blank"}))
    /\ IF batch' = {} THEN EndIteration ELSE loop' = "store" /\ UNCHANGED eventCount
    /\ UNCHANGED <<cause, events, stop, index, total>>
    /\ TailUnchanged

\* ingest_lines up to insert_batch, for the lines of the finished call.
Parse ==
    /\ loop = "read" /\ tpc = "idle"
    /\ batch' = Among(out, {"good", "untimed"})
    /\ malformed' = malformed + Cardinality(Among(out, {"malformed"}))
    /\ ignored' = ignored + Cardinality(Among(out, {"blank"}))
    /\ IF batch' = {} THEN EndIteration ELSE loop' = "store" /\ UNCHANGED eventCount
    /\ UNCHANGED <<cause, events, stop, index, total>>
    /\ TailUnchanged

ReadFails ==
    /\ loop \in {"open", "read"} /\ tpc = "failed"
    /\ loop' = "failed"
    /\ UNCHANGED <<cause, events, eventCount, stop, batch, index,
                   total, malformed, ignored>>
    /\ TailUnchanged

\* One chunk of insert_batch: the first entries of those that are left, all of
\* its timed entries or none.
Chunk == {k \in batch : Cardinality({j \in batch : j <= k}) <= BatchSize}
Timed == Chunk \cap Among(out, {"good"})
TimedTexts == {TextOfLine(out[k]) : k \in Timed}
Counted ==
    LET added == Cardinality(TimedTexts \ index)
    IN  [inserted |-> total.inserted + added,
         deduplicated |-> total.deduplicated + Cardinality(Timed) - added,
         skipped |-> total.skipped + Cardinality(Chunk) - Cardinality(Timed)]

StoreChunk ==
    /\ loop = "store"
    /\ index' = index \cup TimedTexts
    /\ total' = Counted
    /\ batch' = batch \ Chunk
    /\ IF batch' = {} THEN EndIteration ELSE UNCHANGED <<loop, eventCount>>
    /\ UNCHANGED <<cause, events, stop, malformed, ignored>>
    /\ TailUnchanged

\* Fault: the loop goes on with the next chunk.
SkipChunk ==
    /\ Failures
    /\ loop = "store"
    /\ batch' = batch \ Chunk
    /\ IF batch' = {} THEN EndIteration ELSE UNCHANGED <<loop, eventCount>>
    /\ UNCHANGED <<cause, events, stop, index, total, malformed, ignored>>
    /\ TailUnchanged

\* A busy database or a full disk: the error ends the command.
StoreFails ==
    /\ Failures
    /\ loop = "store"
    /\ loop' = "failed"
    /\ UNCHANGED <<cause, events, eventCount, stop, batch, index,
                   total, malformed, ignored>>
    /\ TailUnchanged

-----------------------------------------------------------------------------
\* The watcher's thread.
Notify ==
    /\ loop \notin {"open", "watch"} \cup Ended
    /\ events < MaxQueue
    /\ events' = events + 1
    /\ UNCHANGED <<loop, cause, eventCount, stop, batch, index,
                   total, malformed, ignored>>
    /\ TailUnchanged

\* Before set_handler the signal has its default effect.
CtrlC ==
    /\ loop \notin Ended
    /\ ~stop
    /\ IF loop \in {"open", "watch", "handler"}
         THEN loop' = "killed" /\ UNCHANGED stop
         ELSE stop' = TRUE /\ UNCHANGED loop
    /\ UNCHANGED <<cause, events, eventCount, batch, index, total, malformed, ignored>>
    /\ TailUnchanged

Killed ==
    /\ Failures
    /\ loop \notin Ended
    /\ loop' = "killed"
    /\ UNCHANGED <<cause, events, eventCount, stop, batch, index,
                   total, malformed, ignored>>
    /\ TailUnchanged

\* The tailer's system calls, while the process lives.
TailerRuns ==
    /\ loop \in {"open", "read"}
    /\ \/ OpenFile \/ SeekToEnd \/ Stat \/ HandleRotation \/ Read \/ Return
       \/ Failures /\ IoError
    /\ UNCHANGED loopVars

\* Once the command has ended the log does not matter any more.
LogRuns == loop \notin Ended /\ LogStep /\ UNCHANGED <<tailVars, tailHistory, loopVars>>

LoopStep == SetUp \/ Top \/ Receive \/ Parse \/ ReadFails \/ StoreChunk \/ TailerRuns

WatchInit == LogInit /\ TailInit /\ LoopInit

WatchNext ==
    \/ LoopStep \/ Disconnected \/ StoreFails
    \/ Notify \/ CtrlC \/ Killed
    \/ LogRuns

\* The process runs: it takes a step as long as it can.
WatchSpec == WatchInit /\ [][WatchNext]_allVars /\ WF_allVars(LoopStep)
=============================================================================
