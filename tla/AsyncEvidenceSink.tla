------------------------- MODULE AsyncEvidenceSink --------------------------
(***************************************************************************)
(* The bounded queue between the event loop and the evidence writer:       *)
(* _AsyncEvidenceSink of orchestration/executor.py over EvidenceWriter's   *)
(* write and flush of telemetry/writer.py.                                 *)
(*                                                                         *)
(* Tasks share the event loop: one per request, which writes its row, and  *)
(* Main, which waits for them, flushes, writes its last rows and           *)
(* closes the sink.  An action of the loop runs from one suspending await  *)
(* to the next.  The writer's methods run outside the loop, in the thread  *)
(* of the worker's batch or in the thread of a flush; a step of a thread   *)
(* is one statement that touches the writer's state.                       *)
(*                                                                         *)
(* Rows have distinct identities and are of one table.                     *)
(***************************************************************************)
EXTENDS Integers, Sequences, FiniteSets

CONSTANTS
    Producers,      \* the request tasks; a row has the name of its task
    Main, LastRows, \* the task of execute_industrial_plan and its last rows
    Stop,           \* the stop marker
    MaxQueue,       \* async_queue_rows
    MaxBatch,       \* async_batch_rows
    WriterQueue,    \* writer_queue_rows
    RowGroup,       \* parquet_row_group_rows
    Faults          \* whether writing a file may raise

Tasks == Producers \cup {Main}
Rows == Producers \cup {LastRows[i] : i \in DOMAIN LastRows}
Threads == {"batch", "flush"}

ASSUME PolicyAssumption ==
    /\ MaxBatch \in 1 .. MaxQueue
    /\ RowGroup \in 1 .. WriterQueue
    /\ Faults \in BOOLEAN

VARIABLES
    pc,             \* where a task is
    todo,           \* the rows it has not queued
    phase,          \* which flush it is in: 0 its own, 1 and 2 of an overflow
    holder,         \* who has _overflow_lock: a set of at most one task
    closing,        \* where close() is
    queue, unfinished,  \* the asyncio queue, and its count behind join()
    worker, batch, error,
    thread,         \* where each thread is in the writer, and its locals
    lists, groups, queued, counted, \* _queues (as list objects), _row_groups, _queued_rows, _row_counts
    wal             \* the WAL segments: rows by sequence number

task == << pc, todo, phase, holder, closing >>
sink == << queue, unfinished, worker, batch, error >>
writer == << lists, groups, queued, counted, wal >>
vars == << task, sink, thread, writer >>

Least(m, n) == IF m < n THEN m ELSE n
Extend(f, x, y) == [z \in DOMAIN f \cup {x} |-> IF z = x THEN y ELSE f[z]]
Current == Len(lists)
Durable == UNION {wal[i] : i \in DOMAIN wal}
Raised == {"failed", "saturated"}
Ended == Raised \cup {"written"}
Idle == [at |-> "none", then |-> "none", list |-> 0, segment |-> 0, rows |-> {}, row |-> 1]

Init ==
    /\ pc = [t \in Tasks |-> IF t = Main THEN "tasks" ELSE "idle"]
    /\ todo = [t \in Tasks |-> IF t = Main THEN LastRows ELSE << t >>]
    /\ phase = [t \in Tasks |-> 0]
    /\ holder = {}
    /\ closing = "open"
    /\ queue = << >> /\ unfinished = 0
    /\ worker = "waiting" /\ batch = << >> /\ error = FALSE
    /\ thread = [h \in Threads |-> Idle]
    /\ lists = << {} >> /\ groups = 0 /\ queued = 0 /\ counted = 0
    /\ wal = << >>
-----------------------------------------------------------------------------
(* The threads: EvidenceWriter.flush, and write for each row of a batch.    *)

Go(h, at) == thread' = [thread EXCEPT ![h].at = at]
StartFlush(h, then) == thread' = [thread EXCEPT ![h].at = "begin", ![h].then = then]

\* flush takes the table's list, and the name of the next segment must be free.
FlushBegin(h) ==
    /\ thread[h].at = "begin"
    /\ thread' = [thread EXCEPT ![h].list = Current, ![h].segment = groups,
                                ![h].at = IF lists[Current] = {} THEN "commit"
                                          ELSE IF groups \in DOMAIN wal THEN "raised"
                                          ELSE "snapshot"]
    /\ UNCHANGED << task, sink, writer >>

\* Table.from_pylist copies the rows the list has now.
FlushSnapshot(h) ==
    /\ thread[h].at = "snapshot"
    /\ thread' = [thread EXCEPT ![h].rows = lists[thread[h].list], ![h].at = "rename"]
    /\ UNCHANGED << task, sink, writer >>

\* os.replace, once the file is written and synced.
FlushRename(h) ==
    /\ thread[h].at = "rename"
    /\ wal' = Extend(wal, thread[h].segment, thread[h].rows)
    /\ Go(h, "count")
    /\ UNCHANGED << task, sink, lists, groups, queued, counted >>

\* The list's length is read again after the segment is written.
FlushCount(h) ==
    LET count == Cardinality(lists[thread[h].list]) IN
    /\ thread[h].at = "count"
    /\ counted' = counted + count
    /\ groups' = groups + 1
    /\ queued' = queued - count
    /\ Go(h, "reset")
    /\ UNCHANGED << task, sink, lists, wal >>

NewList == Append(lists, {})
FlushReset(h) ==
    /\ thread[h].at = "reset"
    /\ lists' = NewList
    /\ Go(h, "commit")
    /\ UNCHANGED << task, sink, groups, queued, counted, wal >>

\* The index commits and the checkpoint is written.
FlushCommit(h) ==
    /\ thread[h].at = "commit"
    /\ Go(h, thread[h].then)
    /\ UNCHANGED << task, sink, writer >>

\* Writing a segment, syncing the directory after the rename, or the
\* checkpoint raises.
FlushFault(h) ==
    /\ Faults
    /\ thread[h].at \in {"snapshot", "rename", "count", "commit"}
    /\ Go(h, "raised")
    /\ UNCHANGED << task, sink, writer >>

\* write: an interval checkpoint or a full writer queue flushes first.
WriteFlushFirst ==
    /\ thread["batch"].at = "row"
    /\ queued # 0
    /\ StartFlush("batch", "append")
    /\ UNCHANGED << task, sink, writer >>

WriteNow ==
    /\ thread["batch"].at = "row"
    /\ queued < WriterQueue
    /\ Go("batch", "append")
    /\ UNCHANGED << task, sink, writer >>

\* The row joins the table's list; a full row group is flushed.
WriteAppend ==
    LET row == thread["batch"].row
        next == IF row < Len(batch) /\ batch[row + 1] # Stop THEN "row" ELSE "done"
        full == queued + 1 >= RowGroup
    IN
    /\ thread["batch"].at = "append"
    /\ lists' = [lists EXCEPT ![Current] = @ \cup {batch[row]}]
    /\ queued' = queued + 1
    /\ thread' = [thread EXCEPT !["batch"].row = row + 1, !["batch"].then = next,
                                !["batch"].at = IF full THEN "begin" ELSE next]
    /\ UNCHANGED << task, sink, groups, counted, wal >>

ThreadStep ==
    \/ \E h \in Threads :
          \/ FlushBegin(h) \/ FlushSnapshot(h) \/ FlushRename(h)
          \/ FlushCount(h) \/ FlushReset(h) \/ FlushCommit(h)
    \/ WriteFlushFirst \/ WriteNow \/ WriteAppend
-----------------------------------------------------------------------------
(* The worker task, _run.                                                  *)

Taken == Least(Len(queue), MaxBatch)

\* One get and as many get_nowait as fit; a stop marker alone writes nothing.
TakeBatch ==
    /\ worker = "waiting" /\ queue # << >>
    /\ batch' = SubSeq(queue, 1, Taken)
    /\ queue' = SubSeq(queue, Taken + 1, Len(queue))
    /\ worker' = "writing"
    /\ Go("batch", IF Head(queue) = Stop THEN "done" ELSE "row")
    /\ UNCHANGED << task, unfinished, error, writer >>

TasksDoneOnce(n) ==
    /\ unfinished' = unfinished - 1
    /\ pc' = [t \in Tasks |-> IF pc[t] = "join" /\ unfinished = 1 THEN "joined" ELSE pc[t]]
    /\ UNCHANGED << todo, phase, holder, closing >>
\* task_done: when the count reaches zero everyone in join() is released,
\* whatever is queued before they run.
TasksDone(n) ==
    /\ unfinished' = unfinished - n
    /\ pc' = [t \in Tasks |-> IF pc[t] = "join" /\ unfinished = n THEN "joined" ELSE pc[t]]
    /\ UNCHANGED << todo, phase, holder, closing >>

\* Taking the batch wakes a put that waits for room; it runs before the result
\* of the batch's thread reaches the loop, and waits again if the room is gone.
PutsHaveRun ==
    (closing = "stop" \/ \E t \in Tasks : pc[t] = "put") => Len(queue) = MaxQueue

BatchWritten ==
    /\ worker = "writing" /\ thread["batch"].at = "done"
    /\ PutsHaveRun
    /\ TasksDone(Len(batch))
    /\ worker' = IF batch[Len(batch)] = Stop THEN "ended" ELSE "waiting"
    /\ batch' = << >>
    /\ thread' = [thread EXCEPT !["batch"] = Idle]
    /\ UNCHANGED << queue, error, writer >>

DrainedNothing == 0
\* What a failed worker takes from the queue before it ends.
Drained == Len(queue)

BatchFailed ==
    /\ worker = "writing" /\ thread["batch"].at = "raised"
    /\ PutsHaveRun
    /\ error' = TRUE
    /\ queue' = SubSeq(queue, Drained + 1, Len(queue))
    /\ TasksDone(Drained + Len(batch))
    /\ worker' = "ended"
    /\ batch' = << >>
    /\ thread' = [thread EXCEPT !["batch"] = Idle]
    /\ UNCHANGED writer

WorkerStep == TakeBatch \/ BatchWritten \/ BatchFailed
-----------------------------------------------------------------------------
(* The tasks that write: sink.write and sink.flush.                        *)

Goto(t, state) == pc' = [pc EXCEPT ![t] = state]

\* An exception leaves the `async with` block and with it the lock.
End(t, state) == Goto(t, state) /\ holder' = holder \ {t}

\* Rows are queued without suspending, so all of a task's rows that fit go in
\* before anything else runs; the first that does not fit overflows.
Write(t) ==
    LET n == Least(Len(todo[t]), MaxQueue - Len(queue)) IN
    /\ pc[t] = "idle"
    /\ \/ error /\ Goto(t, "failed") /\ UNCHANGED << todo, queue, unfinished >>
       \/ /\ ~error
          /\ queue' = queue \o SubSeq(todo[t], 1, n)
          /\ unfinished' = unfinished + n
          /\ todo' = [todo EXCEPT ![t] = SubSeq(@, n + 1, Len(@))]
          /\ Goto(t, IF n = Len(todo[t]) THEN "written" ELSE "lock")
    /\ UNCHANGED << phase, holder, closing, worker, batch, error, thread, writer >>

JoinSkipped(t, n, k) == Goto(t, "joined") /\ phase' = [phase EXCEPT ![t] = k]
\* join() returns at once when nothing is unfinished.
Join(t, n, k) ==
    /\ Goto(t, IF n = 0 THEN "joined" ELSE "join")
    /\ phase' = [phase EXCEPT ![t] = k]

TakeLock(t) ==
    /\ pc[t] = "lock" /\ holder = {}
    /\ holder' = {t}
    /\ Join(t, unfinished, 1)
    /\ UNCHANGED << todo, closing, sink, thread, writer >>

\* flush after the join: the writer's flush in a thread, unless the worker failed.
FlushInThread(t) ==
    /\ pc[t] = "joined"
    /\ \/ error /\ End(t, "failed") /\ UNCHANGED thread
       \/ ~error /\ Goto(t, "flushing") /\ StartFlush("flush", "done") /\ UNCHANGED holder
    /\ UNCHANGED << todo, phase, closing, sink, writer >>

SaturationForgotten == "written"
\* What an overflowing write ends with.
Saturated == "saturated"

Enqueue(row) == queue' = Append(queue, row) /\ unfinished' = unfinished + 1

\* The overflowing row goes in and waits for everything before it.
PutRow(t) ==
    /\ Enqueue(Head(todo[t]))
    /\ todo' = [todo EXCEPT ![t] = Tail(@)]
    /\ Join(t, unfinished + 1, 2)

\* After the first flush of an overflow the row is put, at once if there is room.
Flushed(t) ==
    LET failed == error \/ thread["flush"].at = "raised"
        room == Len(queue) < MaxQueue
    IN
    /\ pc[t] = "flushing" /\ thread["flush"].at \in {"done", "raised"}
    /\ thread' = [thread EXCEPT !["flush"] = Idle]
    /\ \/ /\ ~failed /\ phase[t] = 1 /\ room
          /\ PutRow(t) /\ UNCHANGED holder
       \/ /\ \/ failed /\ End(t, "failed")
             \/ ~failed /\ phase[t] = 0 /\ Goto(t, "idle") /\ UNCHANGED holder
             \/ ~failed /\ phase[t] = 1 /\ ~room /\ Goto(t, "put") /\ UNCHANGED holder
             \/ ~failed /\ phase[t] = 2 /\ End(t, Saturated)
          /\ UNCHANGED << todo, phase, queue, unfinished >>
    /\ UNCHANGED << closing, worker, batch, error, writer >>

PutOverflow(t) ==
    /\ pc[t] = "put" /\ Len(queue) < MaxQueue
    /\ PutRow(t)
    /\ UNCHANGED << holder, closing, worker, batch, error, thread, writer >>

WriterStep(t) == Write(t) \/ TakeLock(t) \/ FlushInThread(t) \/ Flushed(t) \/ PutOverflow(t)
-----------------------------------------------------------------------------
(* execute_industrial_plan: the task group, the flush, its rows, close.    *)

\* A request that raised is reported when the group has ended.
TasksEnded ==
    /\ pc[Main] = "tasks"
    /\ \A p \in Producers : pc[p] \in Ended
    /\ \/ (\E p \in Producers : pc[p] \in Raised) /\ Goto(Main, "failed") /\ UNCHANGED phase
       \/ (\A p \in Producers : pc[p] = "written") /\ Join(Main, unfinished, 0)
    /\ UNCHANGED << todo, holder, closing, sink, thread, writer >>

\* close puts the stop marker, unless the worker has ended,
Close ==
    /\ closing = "open" /\ pc[Main] \in Ended
    /\ \/ worker # "ended" /\ Len(queue) < MaxQueue /\ Enqueue(Stop) /\ closing' = "await"
       \/ /\ closing' = IF worker = "ended" THEN "await" ELSE "stop"
          /\ worker # "ended" => Len(queue) = MaxQueue
          /\ UNCHANGED << queue, unfinished >>
    /\ UNCHANGED << pc, todo, phase, holder, worker, batch, error, thread, writer >>

PutStop ==
    /\ closing = "stop" /\ Len(queue) < MaxQueue
    /\ Enqueue(Stop)
    /\ closing' = "await"
    /\ UNCHANGED << pc, todo, phase, holder, worker, batch, error, thread, writer >>

\* and waits for it.
Closed ==
    /\ closing = "await" /\ worker = "ended"
    /\ closing' = "closed"
    /\ UNCHANGED << pc, todo, phase, holder, sink, thread, writer >>

MainStep == TasksEnded \/ Close \/ PutStop \/ Closed

Next ==
    \/ ThreadStep
    \/ \E h \in Threads : FlushFault(h)
    \/ WorkerStep
    \/ \E t \in Tasks : WriterStep(t)
    \/ MainStep

Spec == Init /\ [][Next]_vars
\* The event loop runs every ready task, and the threads run.
FairSpec ==
    /\ Spec
    /\ WF_vars(ThreadStep) /\ WF_vars(WorkerStep) /\ WF_vars(MainStep)
    /\ \A t \in Tasks : WF_vars(WriterStep(t))
-----------------------------------------------------------------------------
\* Type invariant, with the bounds of the queue, the batch and the lock.
TypeOK ==
    /\ pc \in [Tasks -> Ended \cup {"tasks", "idle", "lock", "join", "joined", "flushing", "put"}]
    /\ todo \in [Tasks -> Seq(Rows)]
    /\ phase \in [Tasks -> 0 .. 2]
    /\ holder \in SUBSET Tasks /\ Cardinality(holder) <= 1
    /\ closing \in {"open", "stop", "await", "closed"}
    /\ queue \in Seq(Rows \cup {Stop}) /\ Len(queue) <= MaxQueue
    /\ unfinished = Len(queue) + Len(batch)
    /\ worker \in {"waiting", "writing", "ended"}
    /\ batch \in Seq(Rows \cup {Stop}) /\ Len(batch) <= MaxBatch
    /\ error \in BOOLEAN
    /\ \A i \in DOMAIN wal : wal[i] \subseteq Rows

\* Evidence that can be claimed is exact: when the sink closes without an
\* error and no write saturated, every row is in one WAL segment or in the
\* writer's list, the segments are numbered without a gap, and the counters
\* prepare_close compares with the rows agree with them.
CleanCloseComplete ==
    closing = "closed" /\ pc[Main] = "written" /\ ~error =>
        /\ Durable \cup lists[Current] = Rows
        /\ DOMAIN wal = 0 .. groups - 1
        /\ counted = Cardinality(Durable)
        /\ queued = Cardinality(lists[Current])
        /\ counted + queued = Cardinality(Rows)

\* A write that reports saturation has its row in a WAL segment, whatever
\* other tasks queue and the batch thread writes while it flushes ("durably
\* persist the triggering terminal row before aborting").
SaturatedRowDurable ==
    \A p \in Producers : pc[p] = "saturated" => p \in Durable

\* The sink closes whatever fault ends the worker, also with the stop marker
\* waiting for room or rows left in the queue.  The one exception is a write
\* that waits for the row it has put after the worker ended: nobody drains it.
ClosesOrWaitsForOwnRow ==
    <>(\/ closing = "closed"
       \/ worker = "ended" /\ \E t \in Tasks : pc[t] = "join" /\ phase[t] = 2)
=============================================================================
