---------------------------- MODULE AuditWriter ----------------------------
(***************************************************************************)
(* app/audit.py: the queue of audit events, the task that writes them to   *)
(* SQLite and what is left of them after write errors, stop() and crashes. *)
(*                                                                         *)
(* An event carries the id of the session instance (of) that it is about;  *)
(* the program knows sessions by their session id (sid) only, and the      *)
(* UPDATE of a "session_destroyed" event has to find the row by that.      *)
(*                                                                         *)
(* MaxItems bounds the number of events, for TLC.                          *)
(***************************************************************************)
EXTENDS Naturals, Sequences, FiniteSetsExt, SequencesExt

CONSTANTS
    AuditSids,  \* session ids
    Stop,       \* the sentinel
    Nothing,    \* the writer has no event at hand
    MaxItems,   \* how many events are ever enqueued
    Faults,     \* the calls to SQLite that may fail
    MayCrash    \* whether the process may be killed

ASSUME AuditEnvironment ==
    /\ MaxItems \in Nat
    /\ Faults \subseteq {"open", "execute", "commit"}
    /\ MayCrash \in BOOLEAN

VARIABLES
    db,         \* the committed tables
    mine,       \* the tables as the writer's connection sees them
    queue,      \* AuditWriter._queue
    unfinished, \* events that the queue has not been told are done
    writer,     \* the writer task: where it is and the event it writes
    stopper,    \* the call of stop(): "none", "waiting" or "returned"
    flusher,    \* the call of flush(), and how many events came before it
    live,       \* live[s]: the session the manager has under s, 0 if none
    nextId,     \* the id of the next event
    accepted,   \* history: the events enqueued since start()
    failed,     \* history: the events whose write has raised; 0 when this process
                \* could not open the database
    seen        \* history: the executions that the last GET has shown

tables == <<db, mine>>
queueVars == <<queue, unfinished, flusher>>
input == <<live, nextId, accepted>>
vars == <<tables, queueVars, writer, stopper, input, failed, seen>>

Ids == 1 .. MaxItems
Kinds == {"exec", "session_created", "session_destroyed"}
Events == [kind : Kinds, sid : AuditSids, id : Ids, of : Ids]

\* The sentinel is an object of its own.
ASSUME Sentinel == Stop \notin Events

\* closed: 0 while destroyed_at is NULL, else the session whose end set it.
Rows == [sid : AuditSids, of : Ids, closed : Ids \cup {0}]

TablesOK(t) == t.execs \subseteq Ids /\ t.rows \in Seq(Rows)

TypeOK ==
    /\ TablesOK(db)
    /\ TablesOK(mine)
    /\ queue \in Seq(Events \cup {Stop})
    /\ unfinished \in Nat
    /\ writer.pc \in {"opening", "idle", "writing", "closing", "ended", "none"}
    /\ writer.item \in Events \cup {Nothing}
    /\ stopper \in {"none", "waiting", "returned"}
    /\ flusher \in [pc : {"none", "waiting", "woken"}, upTo : 0 .. MaxItems]
    /\ live \in [AuditSids -> Ids \cup {0}]
    /\ nextId \in Nat
    /\ accepted \in Seq(Events)
    /\ failed \subseteq Ids \cup {0}
    /\ seen \subseteq Ids

-----------------------------------------------------------------------------
\* The row that a "session_destroyed" event of s closes: the most recent one
\* of s that is open.
OpenRows(rows, s) == {i \in DOMAIN rows : rows[i].sid = s /\ rows[i].closed = 0}
\* Mutant: ORDER BY id ASC.
FirstRowToClose(rows, s) == Min(OpenRows(rows, s))

RowToClose(rows, s) == Max(OpenRows(rows, s))

\* What _write_one executes for an event.
Apply(e, t) ==
    CASE e.kind = "exec" ->
            [t EXCEPT !.execs = @ \cup {e.id}]
      [] e.kind = "session_created" ->
            [t EXCEPT !.rows = Append(@, [sid |-> e.sid, of |-> e.id, closed |-> 0])]
      [] e.kind = "session_destroyed" ->
            IF OpenRows(t.rows, e.sid) = {} THEN t
            ELSE [t EXCEPT !.rows[RowToClose(t.rows, e.sid)].closed = e.of]

-----------------------------------------------------------------------------
(***************************************************************************)
(* The event loop: the session manager and the exec handler enqueue.  They *)
(* do so before stop() is called: requests are drained and the manager's   *)
(* shutdown() has returned by then (main.py:62-68; see AuditTrail).        *)
(***************************************************************************)
Running == writer.pc # "none"

\* put_nowait(); the queue has no bound.
Put(kind, s, of) ==
    /\ LET e == [kind |-> kind, sid |-> s, id |-> nextId, of |-> of]
       IN  /\ queue' = Append(queue, e)
           /\ accepted' = Append(accepted, e)
    /\ unfinished' = unfinished + 1
    /\ nextId' = nextId + 1
    /\ UNCHANGED <<tables, writer, stopper, flusher, failed, seen>>

Enqueue(kind, s, of) ==
    /\ Running
    /\ stopper = "none"
    /\ nextId \in Ids
    /\ Put(kind, s, of)

SessionCreated(s) ==
    /\ live[s] = 0
    /\ Enqueue("session_created", s, nextId)
    /\ live' = [live EXCEPT ![s] = nextId]

\* An execution is logged when it is over, and its session may be gone.
Exec(s) == Enqueue("exec", s, nextId) /\ UNCHANGED live

SessionDestroyed(s) ==
    /\ live[s] # 0
    /\ Enqueue("session_destroyed", s, live[s])
    /\ live' = [live EXCEPT ![s] = 0]

\* Mutant: the reader shares the connection of the writer.
ReadsUncommitted == seen' = mine.execs

\* GET /v1/audit/...: each read opens a connection of its own, which sees what
\* is committed.
ReadsCommitted == seen' = db.execs

Read ==
    /\ Running
    /\ ReadsCommitted
    /\ UNCHANGED <<tables, queueVars, writer, stopper, input, failed>>

-----------------------------------------------------------------------------
(***************************************************************************)
(* The writer task.                                                        *)
(***************************************************************************)
GoesTo(pc) == writer' = [pc |-> pc, item |-> Nothing]

Open ==
    /\ writer.pc = "opening"
    /\ GoesTo("idle")
    /\ UNCHANGED <<tables, queueVars, stopper, input, failed, seen>>

\* The exception ends the task.
OpenFails ==
    /\ writer.pc = "opening"
    /\ "open" \in Faults
    /\ GoesTo("ended")
    /\ failed' = failed \cup {0}
    /\ UNCHANGED <<tables, queueVars, stopper, input, seen>>

\* Mutant: the last event comes out first.
LastOut == <<queue[Len(queue)], SubSeq(queue, 1, Len(queue) - 1)>>

\* What get() returns, and what it leaves in the queue.
FirstOut == <<Head(queue), Tail(queue)>>

Take ==
    /\ writer.pc = "idle"
    /\ queue # <<>>
    /\ FirstOut[1] # Stop
    /\ queue' = FirstOut[2]
    /\ writer' = [pc |-> "writing", item |-> FirstOut[1]]
    /\ UNCHANGED <<tables, unfinished, flusher, stopper, input, failed, seen>>

\* Mutant: task_done() is called twice.
DoneTwice == unfinished' = unfinished - 2 /\ UNCHANGED flusher

\* Mutant: join() is woken one event early.
WokenEarly ==
    /\ unfinished' = unfinished - 1
    /\ flusher' = IF unfinished' <= 1 /\ flusher.pc = "waiting"
                  THEN [flusher EXCEPT !.pc = "woken"] ELSE flusher

\* task_done(): whoever is in join() is woken when nothing is left, and returns
\* even if more has been enqueued by then.
TaskDone ==
    /\ unfinished' = unfinished - 1
    /\ flusher' = IF unfinished' = 0 /\ flusher.pc = "waiting"
                  THEN [flusher EXCEPT !.pc = "woken"] ELSE flusher

\* Mutant: the loop goes on after the sentinel.
AfterStopGoesOn == "idle"

AfterStop == "closing"

TakeStop ==
    /\ writer.pc = "idle"
    /\ queue # <<>>
    /\ Head(queue) = Stop
    /\ queue' = Tail(queue)
    /\ TaskDone
    /\ GoesTo(AfterStop)
    /\ UNCHANGED <<tables, stopper, input, failed, seen>>

\* task_done() is in a finally clause: it is called whether or not the write
\* succeeds.
ItemDone ==
    /\ writer.pc = "writing"
    /\ TaskDone
    /\ GoesTo("idle")
    /\ UNCHANGED <<queue, stopper, input, seen>>

Write ==
    /\ ItemDone
    /\ mine' = Apply(writer.item, mine)
    /\ db' = mine'
    /\ UNCHANGED failed

\* Mutant: the exception ends the task.
RaisedIsFatal ==
    /\ writer.pc = "writing"
    /\ GoesTo("ended")
    /\ failed' = failed \cup {writer.item.id}
    /\ UNCHANGED <<db, queueVars, stopper, input, seen>>

\* Mutant: task_done() is not reached when the write raises.
RaisedNotDone ==
    /\ writer.pc = "writing"
    /\ GoesTo("idle")
    /\ failed' = failed \cup {writer.item.id}
    /\ UNCHANGED <<db, queueVars, stopper, input, seen>>

\* The exception is logged and the event is not retried.
Raised ==
    /\ ItemDone
    /\ failed' = failed \cup {writer.item.id}
    /\ UNCHANGED db

\* Nothing rolls back explicitly.  Depending on the error SQLite does, or it
\* leaves the transaction open, and the next commit is one of both events.
ExecuteFails ==
    /\ "execute" \in Faults
    /\ Raised
    /\ mine' \in {mine, db}

CommitFails ==
    /\ "commit" \in Faults
    /\ Raised
    /\ mine' \in {Apply(writer.item, mine), db}

\* conn.close() rolls back what is not committed.
CloseConnection ==
    /\ writer.pc = "closing"
    /\ mine' = db
    /\ GoesTo("ended")
    /\ UNCHANGED <<db, queueVars, stopper, input, failed, seen>>

\* What is still to be written, in order, and the tables once it is.  The
\* sentinel comes last.
OnTheWay ==
    (IF writer.pc = "writing" THEN <<writer.item>> ELSE <<>>)
        \o (IF queue # <<>> /\ Last(queue) = Stop THEN Front(queue) ELSE queue)

TablesToBe == FoldLeft(LAMBDA t, e : Apply(e, t), mine, OnTheWay)

-----------------------------------------------------------------------------
(***************************************************************************)
(* stop(), flush() and the life of the process.                            *)
(***************************************************************************)
\* Mutant: the sentinel goes before what is queued.
WithStopFirst == <<Stop>> \o queue

WithStop == Append(queue, Stop)

StopBegins ==
    /\ Running
    /\ stopper = "none"
    /\ stopper' = "waiting"
    /\ queue' = WithStop
    /\ unfinished' = unfinished + 1
    /\ UNCHANGED <<tables, writer, flusher, input, failed, seen>>

StopReturns ==
    /\ stopper = "waiting"
    /\ writer.pc = "ended"
    /\ stopper' = "returned"
    /\ UNCHANGED <<tables, queueVars, writer, input, failed, seen>>

FlushBegins ==
    /\ Running
    /\ stopper # "returned"
    /\ flusher.pc = "none"
    /\ flusher' = [pc |-> IF unfinished = 0 THEN "woken" ELSE "waiting",
                   upTo |-> Len(accepted)]
    /\ UNCHANGED <<tables, queue, unfinished, writer, stopper, input, failed, seen>>

NoFlush == [pc |-> "none", upTo |-> 0]

FlushReturns ==
    /\ flusher.pc = "woken"
    /\ flusher' = NoFlush
    /\ UNCHANGED <<tables, queue, unfinished, writer, stopper, input, failed, seen>>

\* What the process held is gone; SQLite rolls back an open transaction.
ProcessEnds ==
    /\ GoesTo("none")
    /\ mine' = db
    /\ queue' = <<>>
    /\ unfinished' = 0
    /\ stopper' = "none"
    /\ flusher' = NoFlush
    /\ live' = [s \in AuditSids |-> 0]
    /\ accepted' = <<>>
    /\ failed' = failed \ {0}
    /\ UNCHANGED <<db, nextId, seen>>

Exit == stopper = "returned" /\ ProcessEnds

Crash == MayCrash /\ Running /\ ProcessEnds

\* start(): the schema is there or is made, the tables keep their rows.
Start ==
    /\ ~Running
    /\ GoesTo("opening")
    /\ UNCHANGED <<tables, queueVars, stopper, input, failed, seen>>

-----------------------------------------------------------------------------
EmptyTables == [execs |-> {}, rows |-> <<>>]

\* With the writer task at pc, and nothing written or enqueued.
Initially(pc) ==
    /\ db = EmptyTables
    /\ mine = EmptyTables
    /\ queue = <<>>
    /\ unfinished = 0
    /\ writer = [pc |-> pc, item |-> Nothing]
    /\ stopper = "none"
    /\ flusher = NoFlush
    /\ live = [s \in AuditSids |-> 0]
    /\ nextId = 1
    /\ accepted = <<>>
    /\ failed = {}
    /\ seen = {}

Init == Initially("none")

WriterStep ==
    \/ Open \/ OpenFails \/ Take \/ TakeStop
    \/ Write \/ ExecuteFails \/ CommitFails \/ CloseConnection

CallerStep == StopReturns \/ FlushReturns

Next ==
    \/ \E s \in AuditSids : SessionCreated(s) \/ Exec(s) \/ SessionDestroyed(s)
    \/ Read
    \/ WriterStep
    \/ StopBegins \/ FlushBegins \/ CallerStep
    \/ Exit \/ Crash \/ Start

Spec == Init /\ [][Next]_vars

\* The loop resumes the tasks that are ready; every call to SQLite returns.
FairSpec == Spec /\ WF_vars(WriterStep) /\ WF_vars(StopReturns) /\ WF_vars(FlushReturns)

-----------------------------------------------------------------------------
(***************************************************************************)
(* Safety.                                                                 *)
(***************************************************************************)
Recorded(e) ==
    CASE e.kind = "exec" -> e.id \in db.execs
      [] e.kind = "session_created" -> \E i \in DOMAIN db.rows : db.rows[i].of = e.id
      [] e.kind = "session_destroyed" ->
            \E i \in DOMAIN db.rows : db.rows[i].of = e.of /\ db.rows[i].closed = e.of

\* The only failures that may cost an event: of its own write, and, since an
\* UPDATE needs its row, of the INSERT of its session's row.
Excused(e) == {e.id, e.of} \cap failed # {}

\* "crash may lose the last few rows" (audit.py:8): what is on disk is always
\* the events of this process up to some point.  Of those before it only the
\* ones that have failed themselves are missing: although a write that fails
\* may leave its transaction open (audit.py:269), it takes no other with it.
CrashLosesSuffix ==
    \A i, j \in DOMAIN accepted :
        i < j /\ Recorded(accepted[j]) => Recorded(accepted[i]) \/ Excused(accepted[i])

\* stop() drains the queue (audit.py:106): once it has returned, and unless the
\* database could not be opened, every event is on disk, or has failed.
StopDrains ==
    stopper = "returned" /\ 0 \notin failed =>
        \A i \in DOMAIN accepted : Recorded(accepted[i]) \/ Excused(accepted[i])

\* flush() is a barrier: when it returns, the events that were enqueued before
\* it was called are on disk, or have failed, whatever has been enqueued since.
FlushIsBarrier ==
    flusher.pc = "woken" =>
        \A i \in 1 .. flusher.upTo : Recorded(accepted[i]) \/ Excused(accepted[i])

\* A row of the sessions table is closed by the end of the session it is
\* about, although the UPDATE goes by the session id and a crash may have left
\* rows of earlier sessions of that id open (audit.py:249); unless the INSERT
\* of its own row has failed.
ClosedByItsOwnSession ==
    \A i \in DOMAIN db.rows : db.rows[i].closed \in {0, db.rows[i].of} \cup failed

\* An execution that a GET has shown is shown by every later one, whatever
\* fails and whenever the process dies: reads see no open transaction.
ReadsNeverShrink == [][seen \subseteq seen']_seen

(***************************************************************************)
(* Liveness.                                                               *)
(***************************************************************************)
\* Whoever waits for the writer is answered, in spite of writes that fail:
\* stop() always, flush() unless the database cannot be opened.
CallersAnswered ==
    /\ stopper = "waiting" ~> stopper # "waiting"
    /\ flusher.pc # "none" ~> flusher.pc = "none" \/ 0 \in failed

\* The audit_id that an exec call has returned can be looked up in the end,
\* unless its write has failed or the process has ended first: an event is never
\* left in the queue.
EventuallyRecorded ==
    \A i \in Ids : i \in DOMAIN accepted ~>
        \/ i \notin DOMAIN accepted
        \/ Recorded(accepted[i])
        \/ Excused(accepted[i])
        \/ 0 \in failed
=============================================================================
