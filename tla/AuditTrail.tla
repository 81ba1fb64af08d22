----------------------------- MODULE AuditTrail -----------------------------
(***************************************************************************)
(* The session manager and the audit log in one process (app/main.py:      *)
(* 30-68): what the manager does with its map it also tells the log, and   *)
(* the lifespan starts the log before the manager and stops it after.      *)
(*                                                                         *)
(* AuditWriter assumes a caller that does not enqueue once stop() has been *)
(* called and opens a session under an id only when the last one is over.  *)
(* Here the caller is the manager, and that becomes a property.            *)
(***************************************************************************)
EXTENDS SessionManager, Sequences

CONSTANTS
    Stop,
    Nothing,
    MaxItems,
    Faults

VARIABLES
    db, mine, queue, unfinished, writer, stopper, flusher,
    nextId, accepted, failed, seen, \* see AuditWriter
    born        \* born[c]: the event with which the session of c was logged

auditVars ==
    <<db, mine, queue, unfinished, writer, stopper, flusher, nextId, accepted, failed, seen>>
trailVars == <<vars, auditVars, born>>

\* The session that the manager has under an id, for the log.
Live == [s \in Sids |-> IF sessions[s] = None THEN 0 ELSE born[sessions[s]]]

Audit == INSTANCE AuditWriter WITH AuditSids <- Sids, live <- Live

ASSUME TrailEnvironment ==
    /\ MaxItems \in Nat
    /\ Faults \subseteq {"open", "execute", "commit"}

\* The sentinel is an object of its own.
ASSUME TrailSentinel == Stop \notin Audit!Events

Without == UNCHANGED <<auditVars, born>>

-----------------------------------------------------------------------------
\* Bound: the events that the sessions there are, and the creates in flight,
\* will cause fit in MaxItems.
Owed == Cardinality(Mapped) + 2 * Cardinality({r \in Reqs : TaskActive(r)})

SpawnInBounds(r, s) ==
    /\ nextId + Owed + 1 <= MaxItems
    /\ Spawn(r, s)
    /\ Without

\* The session enters the map, its row is enqueued and the future is resolved
\* in one segment of the create task.
SessionOpens(r) ==
    /\ KernelReady(r)
    /\ born' = [born EXCEPT ![task[r].c] = nextId]
    /\ Audit!Put("session_created", task[r].sid, nextId)

\* Mutant: only a DELETE is logged.
LogDelete(d) ==
    IF d \in Reqs
    THEN Audit!Put("session_destroyed", destroyer[d].sid, born[destroyer[d].c])
    ELSE UNCHANGED auditVars

LogEnd(d) == Audit!Put("session_destroyed", destroyer[d].sid, born[destroyer[d].c])

\* destroy() pops the session and enqueues the end of its row in one segment,
\* on behalf of a DELETE, of the reaper or of shutdown().
SessionEnds(d) ==
    /\ IF d \in Reqs THEN FinishDelete(d) ELSE FinishVictim(d)
    /\ LogEnd(d)
    /\ UNCHANGED born

\* All the rest of the manager does not touch the log.
OtherCreateStep(r) ==
    /\ \/ Run(r) \/ RunFails(r) \/ StartFails(r)
       \/ PortsPublished(r) \/ PortsTimeOut(r) \/ KernelNotReady(r)
       \/ Rollback(r) \/ RollbackFails(r)
    /\ Without

OtherDestroyStep(d) == DestroyStep(d) /\ Without

OtherStep ==
    /\ \/ \E r \in Reqs, s \in Sids : Join(r, s) \/ Delete(r, s)
       \/ \E s \in Sids : GoIdle(s) \/ Touch(s)
       \/ \E c \in Cids : SandboxDies(c)
       \/ ReaperScan
       \/ Shutdown
    /\ Without

-----------------------------------------------------------------------------
WriterStep == UNCHANGED <<vars, born>> /\ Audit!WriterStep

\* Mutant: the log is stopped while shutdown() is still at work.
StoppingAtAll == phase = "stopping"

\* Mutant: the lifespan waits for every destroy there is.
NothingDestroying == phase = "stopping" /\ \A d \in Destroyers : ~Destroying(d)

\* shutdown() has returned; it does not wait for a destroy that the reaper was
\* in when it was cancelled.
ManagerIsDown == phase = "stopping" /\ ~Destroying(Lifespan)

AuditStops ==
    /\ ManagerIsDown
    /\ UNCHANGED <<vars, born>>
    /\ Audit!StopBegins

AuditStopped == UNCHANGED <<vars, born>> /\ Audit!StopReturns

EndsWithin(How) == How /\ born' = [c \in Cids |-> 0] /\ Audit!ProcessEnds

Exit == stopper = "returned" /\ EndsWithin(ShutdownDone)

Killed == EndsWithin(Crash)

\* The lifespan awaits the log's start() before there is a manager.
GatewayStarts == Restart /\ UNCHANGED born /\ Audit!Start

-----------------------------------------------------------------------------
TrailInit ==
    /\ Init
    /\ Audit!Initially("opening")
    /\ born = [c \in Cids |-> 0]

LifespanStep == AuditStops \/ AuditStopped \/ Exit

TrailNext ==
    \/ \E r \in Reqs, s \in Sids : SpawnInBounds(r, s)
    \/ \E r \in Reqs : SessionOpens(r) \/ OtherCreateStep(r)
    \/ \E d \in Destroyers : SessionEnds(d) \/ OtherDestroyStep(d)
    \/ OtherStep
    \/ WriterStep \/ LifespanStep
    \/ Killed \/ GatewayStarts

\* As for its parts, and the lifespan is a task like any other.
TrailSpec ==
    /\ TrailInit
    /\ [][TrailNext]_trailVars
    /\ \A r \in Reqs : WF_trailVars(SessionOpens(r) \/ OtherCreateStep(r))
    /\ \A d \in Destroyers : WF_trailVars(SessionEnds(d) \/ OtherDestroyStep(d))
    /\ WF_trailVars(WriterStep)
    /\ WF_trailVars(LifespanStep)

-----------------------------------------------------------------------------
\* The manager keeps the contract of the log: between them, they make only
\* steps of the log's specification.  In particular nothing is enqueued once
\* stop() has been called, though shutdown() has destroys of its own to do and
\* may find the reaper in the middle of one, and a session's row is opened only
\* when the end of the last session of its id has been enqueued.
KeepsContract == [][Audit!Next]_(Audit!vars)

\* The log says of this process what its map says, as soon as what is on the
\* way is written: the rows that are open are those of the sessions in the
\* map, however creates, deletes, sweeps and the shutdown are interleaved.
TrailIsMap ==
    {born[sessions[s]] : s \in Mapped} =
        {e \in {accepted[i].id : i \in DOMAIN accepted} :
            \E j \in DOMAIN Audit!TablesToBe.rows :
                Audit!TablesToBe.rows[j] \in [sid : Sids, of : {e}, closed : {0}]}

\* A shutdown ends: the lifespan, the destroys and the writer task wait for one
\* another, and none of them waits for a task that has been cancelled.
ShutdownEnds == phase = "stopping" ~> phase = "down"
=============================================================================
