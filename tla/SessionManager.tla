--------------------------- MODULE SessionManager ---------------------------
(***************************************************************************)
(* app/runtime/manager.py: the in-memory map of sessions, the create tasks,*)
(* the destroys and the reaper, over the Docker engine of DockerDaemon.    *)
(*                                                                         *)
(* The gateway is one asyncio event loop.  An action is one segment of a   *)
(* coroutine between two awaits that really suspend it, or one call that a *)
(* worker thread makes to the engine.  SessionManager._lock is never held  *)
(* across an await, so taking it never suspends and it needs no variable.  *)
(*                                                                         *)
(* A Session object is identified with its container.                      *)
(***************************************************************************)
EXTENDS DockerDaemon, Naturals, FiniteSets

CONSTANTS
    Reqs,         \* requests the HTTP server may have in flight
    Reaper,       \* the reaper task of main.py:57
    Lifespan,     \* the lifespan task, which runs shutdown() (main.py:65)
    MaxSessions,  \* settings.max_sessions
    Failures,     \* the kinds of failure the environment may produce
    MayCrash,     \* whether the gateway process may be killed
    SlowRemoval   \* whether Docker's answer to a removal may take longer than
                  \* booting the next kernel of the same conversation

FailureKinds == {"run", "start", "ports", "kernel", "kill", "die"}

ASSUME DistinctNames ==
    /\ None \notin Cids \cup Sids \cup Reqs
    /\ Reaper # Lifespan
    /\ Reaper \notin Reqs
    /\ Lifespan \notin Reqs

ASSUME Environment ==
    /\ MaxSessions \in Nat
    /\ Failures \subseteq FailureKinds
    /\ MayCrash \in BOOLEAN
    /\ SlowRemoval \in BOOLEAN

Sweepers == {Reaper, Lifespan}
Destroyers == Reqs \cup Sweepers

VARIABLES
    phase,      \* the gateway process: "up", "stopping" or "down"
    sessions,   \* _sessions: session id -> session (its container)
    creating,   \* _creating: session id -> the request that spawned the task
    status,     \* Session.status; "none" also stands for DESTROYED, which no
                \* other coroutine can see (the entry is popped in the same step)
    expired,    \* sessions whose idle_seconds() exceed idle_ttl_s
    task,       \* task[r]: the create task spawned by request r
    waiting,    \* waiting[r]: the request whose task r awaits the future of
    destroyer,  \* destroyer[d]: the destroy() call that d is in
    victims     \* victims[d]: what is left of d's list of ids to destroy

createVars == <<creating, task, waiting>>
sessionVars == <<sessions, status, expired>>
destroyVars == <<destroyer, victims>>
volatile == <<createVars, sessionVars, destroyVars>>
vars == <<phase, volatile, dockerVars>>

NoTask == [pc |-> "idle", sid |-> None, c |-> None]

TaskPc == {"idle", "run", "ports", "kernel", "rollback"}
DestroyPc == {"idle", "closing", "killing", "killed"}

TypeOK ==
    /\ DockerTypeOK
    /\ phase \in {"up", "stopping", "down"}
    /\ sessions \in [Sids -> Cids \cup {None}]
    /\ creating \in [Sids -> Reqs \cup {None}]
    /\ status \in [Cids -> {"none", "ready", "destroying"}]
    /\ expired \subseteq Cids
    /\ task \in [Reqs -> [pc : TaskPc, sid : Sids \cup {None}, c : Cids \cup {None}]]
    /\ waiting \in [Reqs -> Reqs \cup {None}]
    /\ destroyer \in [Destroyers ->
                        [pc : DestroyPc, sid : Sids \cup {None}, c : Cids \cup {None}]]
    /\ victims \in [Sweepers -> SUBSET Sids]

-----------------------------------------------------------------------------
Mapped == {s \in Sids : sessions[s] # None}

\* get_or_create returns the session without more ado (manager.py:72-74).
Ready(s) == sessions[s] # None /\ status[sessions[s]] = "ready"

\* Mutant: destroy() only looks whether there is an entry.
DestroyableAgain(s, m, st) == m[s] # None

\* destroy() goes on for this id, given the map m and the statuses st; a
\* DESTROYED session is never in the map.
Destroyable(s, m, st) == m[s] # None /\ st[m[s]] # "destroying"

TaskActive(r) == task[r].pc # "idle"
Destroying(d) == destroyer[d].pc # "idle"

\* No request handler is suspended: uvicorn waits for this before it lets the
\* lifespan shut the application down.
Drained == \A r \in Reqs : waiting[r] = None /\ ~Destroying(r)

Free(r) == phase = "up" /\ waiting[r] = None /\ ~Destroying(r)

\* A coroutine of the gateway that may still be resumed.  The reaper is
\* cancelled before shutdown() begins (main.py:64), so it stays where it is.
Alive(d) ==
    \/ phase = "up"
    \/ phase = "stopping" /\ d # Reaper

\* An id the engine may give to the next container.
Fresh(c) ==
    /\ ~Exists(c)
    /\ status[c] = "none"
    /\ \A r \in Reqs : task[r].c # c
    /\ \A d \in Destroyers : destroyer[d].c # c

-----------------------------------------------------------------------------
(***************************************************************************)
(* POST /v1/sessions.  A request that finds a READY session, or finds the  *)
(* map full, is answered without changing any state.                       *)
(***************************************************************************)
\* Mutant: a create that is in flight is not looked for.
NeverInFlight(s) == FALSE

InFlight(s) == creating[s] # None

\* The request spawns the create task and awaits its future.
Spawn(r, s) ==
    /\ Free(r)
    /\ ~Ready(s)
    /\ ~InFlight(s)
    /\ Cardinality(Mapped) < MaxSessions
    /\ creating' = [creating EXCEPT ![s] = r]
    /\ task' = [task EXCEPT ![r] = [pc |-> "run", sid |-> s, c |-> None]]
    /\ waiting' = [waiting EXCEPT ![r] = r]
    /\ UNCHANGED <<phase, sessionVars, destroyVars, dockerVars>>

\* The request awaits the future of a create that is already in flight.
Join(r, s) ==
    /\ Free(r)
    /\ ~Ready(s)
    /\ InFlight(s)
    /\ waiting' = [waiting EXCEPT ![r] = creating[s]]
    /\ UNCHANGED <<phase, creating, task, sessionVars, destroyVars, dockerVars>>

-----------------------------------------------------------------------------
(***************************************************************************)
(* The create task.                                                        *)
(***************************************************************************)
\* Mutant: the future is left unresolved when a session is not the result.
TaskEndsUnresolved(r) ==
    /\ creating' = [creating EXCEPT ![task[r].sid] = None]
    /\ task' = [task EXCEPT ![r] = NoTask]
    /\ waiting' = IF task[r].pc = "kernel" THEN [q \in Reqs |-> None] ELSE waiting

\* The task leaves _creating and resolves the future; every waiter answers
\* its client, which touches nothing that is shared.
TaskEnds(r) ==
    /\ creating' = [creating EXCEPT ![task[r].sid] = None]
    /\ task' = [task EXCEPT ![r] = NoTask]
    /\ waiting' = [q \in Reqs |-> IF waiting[q] = r THEN None ELSE waiting[q]]

CreateFails(r) ==
    /\ TaskEnds(r)
    /\ UNCHANGED <<phase, sessionVars, destroyVars>>

\* containers.run(): create and start.
Run(r) ==
    /\ task[r].pc = "run"
    /\ ~NameTaken(task[r].sid)
    /\ \E c \in Cids :
        /\ Fresh(c)
        /\ Launch(c, task[r].sid, "running")
        /\ task' = [task EXCEPT ![r] = [pc |-> "ports", sid |-> task[r].sid, c |-> c]]
    /\ UNCHANGED <<phase, creating, waiting, sessionVars, destroyVars>>

\* No container was created: the name is taken, the image is missing, the
\* engine is unreachable, the workspace cannot be made.
RunFails(r) ==
    /\ task[r].pc = "run"
    /\ NameTaken(task[r].sid) \/ "run" \in Failures
    /\ CreateFails(r)
    /\ UNCHANGED dockerVars

\* containers.run() created the container and failed to start it.  Nobody
\* holds a handle to it: it keeps its name.
StartFails(r) ==
    /\ task[r].pc = "run"
    /\ "start" \in Failures
    /\ ~NameTaken(task[r].sid)
    /\ \E c \in Cids : Fresh(c) /\ Launch(c, task[r].sid, "stopped")
    /\ CreateFails(r)

PortsPublished(r) ==
    /\ task[r].pc = "ports"
    /\ container[task[r].c] = "running"
    /\ task' = [task EXCEPT ![r].pc = "kernel"]
    /\ UNCHANGED <<phase, creating, waiting, sessionVars, destroyVars, dockerVars>>

CannotUse(r) ==
    /\ task' = [task EXCEPT ![r].pc = "rollback"]
    /\ UNCHANGED <<phase, creating, waiting, sessionVars, destroyVars, dockerVars>>

\* The engine does not publish the ports of a container within 15 s, or its
\* kernel does not answer within 20 s; never, if the container has died.
Unusable(c, why) == why \in Failures \/ container[c] # "running"

PortsTimeOut(r) ==
    /\ task[r].pc = "ports"
    /\ Unusable(task[r].c, "ports")
    /\ CannotUse(r)

\* Mutant: a container whose kernel does not answer is not destroyed.
KernelNotReadyForgotten(r) ==
    /\ task[r].pc = "kernel"
    /\ Unusable(task[r].c, "kernel")
    /\ CreateFails(r)
    /\ UNCHANGED dockerVars

KernelNotReady(r) ==
    /\ task[r].pc = "kernel"
    /\ Unusable(task[r].c, "kernel")
    /\ CannotUse(r)

Rollback(r) ==
    /\ task[r].pc = "rollback"
    /\ Remove(task[r].c)
    /\ CreateFails(r)

\* The exception of runtime.destroy() replaces the one being handled.
RollbackFails(r) ==
    /\ task[r].pc = "rollback"
    /\ "kill" \in Failures
    /\ FailToRemove(task[r].c)
    /\ CreateFails(r)

\* The session enters the map, whatever the map holds under its id.
KernelReady(r) ==
    LET c == task[r].c
        s == task[r].sid
    IN  /\ task[r].pc = "kernel"
        /\ SlowRemoval \/ \A d \in Destroyers :
                ~(destroyer[d].pc = "killed" /\ destroyer[d].sid = s)
        /\ sessions' = [sessions EXCEPT ![s] = c]
        /\ status' = [status EXCEPT ![c] = "ready"]
        /\ expired' = expired \ {c}
        /\ TaskEnds(r)
        /\ UNCHANGED <<phase, destroyVars, dockerVars>>

-----------------------------------------------------------------------------
(***************************************************************************)
(* destroy(), called by DELETE requests, by the reaper and by shutdown().  *)
(***************************************************************************)
\* Mutant: the arguments are swapped.
ClosingSwapped(s, c) == [pc |-> "closing", sid |-> c, c |-> s]

\* destroy() has found c under the id s.
Closing(s, c) == [pc |-> "closing", sid |-> s, c |-> c]

\* Mutant: the session is not marked before the first await.
Unmarked(s) == status

Marked(s) == [status EXCEPT ![sessions[s]] = "destroying"]

\* DELETE /v1/sessions/s; for any other s the answer is stopped=false.
Delete(r, s) ==
    /\ Free(r)
    /\ Destroyable(s, sessions, status)
    /\ status' = Marked(s)
    /\ destroyer' = [destroyer EXCEPT ![r] = Closing(s, sessions[s])]
    /\ UNCHANGED <<phase, sessions, expired, victims, createVars, dockerVars>>

KernelClosed(d) ==
    /\ Alive(d)
    /\ destroyer[d].pc = "closing"
    /\ destroyer' = [destroyer EXCEPT ![d].pc = "killing"]
    /\ UNCHANGED <<phase, victims, createVars, sessionVars, dockerVars>>

\* The worker thread stops and removes the container; it does so even when the
\* coroutine that awaits it has been cancelled.
Kill(d) ==
    /\ phase # "down"
    /\ destroyer[d].pc = "killing"
    /\ Remove(destroyer[d].c)
    /\ destroyer' = [destroyer EXCEPT ![d].pc = "killed"]
    /\ UNCHANGED <<phase, victims, createVars, sessionVars>>

\* The engine refused or timed out: destroy() logs the exception and goes on.
KillFails(d) ==
    /\ phase # "down"
    /\ destroyer[d].pc = "killing"
    /\ "kill" \in Failures
    /\ FailToRemove(destroyer[d].c)
    /\ destroyer' = [destroyer EXCEPT ![d].pc = "killed"]
    /\ UNCHANGED <<phase, victims, createVars, sessionVars>>

\* The map and the statuses once the destroy() of d has returned.  It pops
\* whatever the map now holds under its id.
MapAfter(d) == [sessions EXCEPT ![destroyer[d].sid] = None]
StatusAfter(d) == [status EXCEPT ![destroyer[d].c] = "none"]

FinishDelete(r) ==
    /\ phase # "down"
    /\ destroyer[r].pc = "killed"
    /\ sessions' = MapAfter(r)
    /\ status' = StatusAfter(r)
    /\ expired' = expired \ {destroyer[r].c}
    /\ destroyer' = [destroyer EXCEPT ![r] = NoTask]
    /\ UNCHANGED <<phase, victims, createVars, dockerVars>>

\* One of the reaper's, or of shutdown()'s, destroys returns and the loop goes
\* on, without suspending, to the next id of its list that is destroyable.
FinishVictim(d) ==
    LET live == {v \in victims[d] : Destroyable(v, MapAfter(d), StatusAfter(d))}
    IN  /\ Alive(d)
        /\ destroyer[d].pc = "killed"
        /\ sessions' = MapAfter(d)
        /\ expired' = expired \ {destroyer[d].c}
        /\ \/ /\ live = {}
              /\ status' = StatusAfter(d)
              /\ destroyer' = [destroyer EXCEPT ![d] = NoTask]
              /\ victims' = [victims EXCEPT ![d] = {}]
           \/ \E v \in live, skipped \in SUBSET (victims[d] \ live) :
              /\ status' = [StatusAfter(d) EXCEPT ![MapAfter(d)[v]] = "destroying"]
              /\ destroyer' = [destroyer EXCEPT ![d] = Closing(v, MapAfter(d)[v])]
              /\ victims' = [victims EXCEPT ![d] = @ \ (skipped \cup {v})]
        /\ UNCHANGED <<phase, createVars, dockerVars>>

-----------------------------------------------------------------------------
(***************************************************************************)
(* The reaper, the passage of time and the life of the process.            *)
(***************************************************************************)
\* Mutant: the comparison with idle_ttl_s is the wrong way round.
StaleInverted == {s \in Sids : Ready(s) /\ sessions[s] \notin expired}

\* The ids that a scan of the reaper puts on its list.  Its test of the age of
\* a session subtracts readings of two different clocks: see ReaperClock.
Stale == {s \in Sids : Ready(s) /\ sessions[s] \in expired}

\* The scan, up to the first await of the destroy of its first victim.
ReaperScan ==
    /\ phase = "up"
    /\ ~Destroying(Reaper)
    /\ \E s \in Stale :
        /\ status' = Marked(s)
        /\ destroyer' = [destroyer EXCEPT ![Reaper] = Closing(s, sessions[s])]
        /\ victims' = [victims EXCEPT ![Reaper] = Stale \ {s}]
    /\ UNCHANGED <<phase, sessions, expired, createVars, dockerVars>>

\* Time passes: a session has not been used for more than idle_ttl_s.
GoIdle(s) ==
    /\ phase = "up"
    /\ Ready(s)
    /\ expired' = expired \cup {sessions[s]}
    /\ UNCHANGED <<phase, sessions, status, createVars, destroyVars, dockerVars>>

\* POST /v1/sessions/s/exec: require() and Session.touch().
Touch(s) ==
    /\ phase = "up"
    /\ Ready(s)
    /\ expired' = expired \ {sessions[s]}
    /\ UNCHANGED <<phase, sessions, status, createVars, destroyVars, dockerVars>>

\* A sandbox dies, of its own or for want of memory (external).  The gateway
\* is not told, and a session of that container stays READY.
SandboxDies(c) ==
    /\ "die" \in Failures
    /\ Exits(c)
    /\ UNCHANGED <<phase, volatile>>

\* The lifespan exits: the reaper is cancelled and shutdown() runs up to the
\* first await of its first destroy; it skips what is being destroyed.
Shutdown ==
    /\ phase = "up"
    /\ Drained
    /\ phase' = "stopping"
    /\ LET live == {v \in Mapped : Destroyable(v, sessions, status)}
       IN  \/ /\ live = {}
              /\ UNCHANGED <<status, destroyVars>>
           \/ \E v \in live, skipped \in SUBSET (Mapped \ live) :
              /\ status' = Marked(v)
              /\ destroyer' = [destroyer EXCEPT ![Lifespan] = Closing(v, sessions[v])]
              /\ victims' = [victims EXCEPT ![Lifespan] = Mapped \ (skipped \cup {v})]
    /\ UNCHANGED <<sessions, expired, createVars, dockerVars>>

\* The memory of the gateway is gone; the containers are not.
ProcessEnds ==
    /\ phase' = "down"
    /\ sessions' = [s \in Sids |-> None]
    /\ creating' = [s \in Sids |-> None]
    /\ status' = [c \in Cids |-> "none"]
    /\ expired' = {}
    /\ task' = [r \in Reqs |-> NoTask]
    /\ waiting' = [r \in Reqs |-> None]
    /\ destroyer' = [d \in Destroyers |-> NoTask]
    /\ victims' = [d \in Sweepers |-> {}]
    /\ UNCHANGED dockerVars

ShutdownDone ==
    /\ phase = "stopping"
    /\ ~Destroying(Lifespan)
    /\ ProcessEnds

Crash ==
    /\ MayCrash
    /\ phase # "down"
    /\ ProcessEnds

\* systemd or the operator starts the gateway again, with an empty map.
Restart ==
    /\ phase = "down"
    /\ phase' = "up"
    /\ UNCHANGED <<volatile, dockerVars>>

-----------------------------------------------------------------------------
Init ==
    /\ DockerInit
    /\ phase = "up"
    /\ sessions = [s \in Sids |-> None]
    /\ creating = [s \in Sids |-> None]
    /\ status = [c \in Cids |-> "none"]
    /\ expired = {}
    /\ task = [r \in Reqs |-> NoTask]
    /\ waiting = [r \in Reqs |-> None]
    /\ destroyer = [d \in Destroyers |-> NoTask]
    /\ victims = [d \in Sweepers |-> {}]

CreateStep(r) ==
    \/ Run(r) \/ RunFails(r) \/ StartFails(r)
    \/ PortsPublished(r) \/ PortsTimeOut(r)
    \/ KernelReady(r) \/ KernelNotReady(r)
    \/ Rollback(r) \/ RollbackFails(r)

DestroyStep(d) == KernelClosed(d) \/ Kill(d) \/ KillFails(d)

ProcessStep == Shutdown \/ ShutdownDone \/ Crash \/ Restart

Next ==
    \/ \E r \in Reqs, s \in Sids : Spawn(r, s) \/ Join(r, s) \/ Delete(r, s)
    \/ \E r \in Reqs : CreateStep(r) \/ FinishDelete(r)
    \/ \E d \in Destroyers : DestroyStep(d)
    \/ \E d \in Sweepers : FinishVictim(d)
    \/ \E s \in Sids : GoIdle(s) \/ Touch(s)
    \/ \E c \in Cids : SandboxDies(c)
    \/ ReaperScan
    \/ ProcessStep

Spec == Init /\ [][Next]_vars

\* Every call to the engine or to a kernel returns or times out, the loop
\* resumes every coroutine that is ready, and the reaper wakes up every two
\* minutes.  Nothing makes a client call or the process stop.
Fairness ==
    /\ \A r \in Reqs : WF_vars(CreateStep(r)) /\ WF_vars(FinishDelete(r))
    /\ \A d \in Destroyers : WF_vars(DestroyStep(d))
    /\ \A d \in Sweepers : WF_vars(FinishVictim(d))
    /\ WF_vars(ReaperScan)

FairSpec == Spec /\ Fairness
-----------------------------------------------------------------------------
(***************************************************************************)
(* Safety.                                                                 *)
(***************************************************************************)
\* Concurrent requests for one conversation share one create task, which is
\* the one _creating names (manager.py:39, tests/unit/test_manager.py:96).
SingleCreate ==
    \A r, q \in Reqs :
        TaskActive(r) /\ TaskActive(q) /\ task[r].sid = task[q].sid => r = q

\* A conversation never has two READY sessions, in the map or out of it, even
\* when one is created while another one is still being destroyed.
UniqueReady ==
    \A c, e \in Cids :
        status[c] = "ready" /\ status[e] = "ready" /\ name[c] = name[e] => c = e

\* No two destroys - of a client, of the reaper, of shutdown() - are ever at
\* work on the same session.
SingleDestroyer ==
    \A d, e \in Destroyers :
        Destroying(d) /\ Destroying(e) /\ destroyer[d].c = destroyer[e].c => d = e

\* The gateway never takes the container away from under a READY session.
ReadyHasContainer == \A c \in Cids : status[c] = "ready" => Exists(c)

\* A READY session can be reached under its id: it stays in the map until its
\* own destroy() removes it.
ReadyIsMapped == \A c \in Cids : status[c] = "ready" => sessions[name[c]] = c

\* A container that no session in the map, no create task and no destroy()
\* refers to: nothing in the gateway will ever remove it.
Orphan(c) ==
    /\ Exists(c)
    /\ c \notin {sessions[s] : s \in Sids}
    /\ \A r \in Reqs : task[r].c # c
    /\ \A d \in Destroyers : destroyer[d].c # c

Orphans == {c \in Cids : Orphan(c)}

\* Neither a failed create nor a destroy leaves a container behind: as long as
\* Docker can start and remove containers, only the end of the process does.
NeverOrphaned == [][phase' # "down" => Orphans' \subseteq Orphans]_vars

\* An orphan is never adopted nor removed, not even by the next process, and
\* its conversation is refused a new session for as long as it exists.
OrphanBlocksConversation ==
    [][\A c \in Orphans :
          /\ c \in Orphans'
          /\ sessions'[name[c]] # None => sessions'[name[c]] = sessions[name[c]]]_vars

(***************************************************************************)
(* The inductive invariant behind these properties.                        *)
(***************************************************************************)
\* Docker's own: a name belongs to one container.
NamesUnique == \A c, e \in Cids : Exists(c) /\ Exists(e) /\ name[c] = name[e] => c = e

\* A create task is the one that _creating names and its own request waits
\* for, and it alone knows its container, which has the name of its session.
TaskOwns(r) ==
    /\ task[r].sid \in Sids
    /\ creating[task[r].sid] = r
    /\ waiting[r] = r
    /\ task[r].pc = "run" => task[r].c = None
    /\ task[r].pc # "run" =>
        /\ task[r].c \in Cids
        /\ Exists(task[r].c)
        /\ name[task[r].c] = task[r].sid
        /\ status[task[r].c] = "none"

TasksOwn == \A r \in Reqs : TaskActive(r) => TaskOwns(r)

\* A session is in the map once, and a READY one under the name that Docker
\* knows its container by.
MapWellFormed ==
    /\ \A s \in Sids : sessions[s] # None => status[sessions[s]] # "none"
    /\ \A s \in Sids : Ready(s) => name[sessions[s]] = s
    /\ \A s, v \in Sids : sessions[s] # None /\ sessions[s] = sessions[v] => s = v

\* destroy() works on a session it has marked, and if that session is in the
\* map, then under the id that will be popped; Docker still has the container
\* until the worker thread is through.
DestroyOwns(d) ==
    /\ destroyer[d].sid \in Sids
    /\ destroyer[d].c \in Cids
    /\ status[destroyer[d].c] = "destroying"
    /\ \A s \in Sids : sessions[s] = destroyer[d].c => s = destroyer[d].sid
    /\ destroyer[d].pc # "killed" =>
        /\ Exists(destroyer[d].c)
        /\ name[destroyer[d].c] = destroyer[d].sid

DestroysOwn == \A d \in Destroyers : Destroying(d) => DestroyOwns(d)

IInv ==
    /\ TypeOK
    /\ NamesUnique
    /\ TasksOwn
    /\ MapWellFormed
    /\ DestroysOwn
    /\ SingleDestroyer
    /\ ReadyHasContainer

\* The pop by id at the end of destroy() removes its own session and no other.
DestroysMapped ==
    \A d \in Destroyers : Destroying(d) => sessions[destroyer[d].sid] = destroyer[d].c

(***************************************************************************)
(* The registry that the callers of the manager see.                       *)
(***************************************************************************)
ReadySession(s) == IF Ready(s) THEN sessions[s] ELSE None

Registry == INSTANCE SessionRegistry WITH
    pending <- {s \in Sids : creating[s] # None},
    ready <- [s \in Sids |-> ReadySession(s)],
    closing <- {c \in Cids : status[c] = "destroying"}

\* The manager implements the registry: whatever the interleaving of creates,
\* destroys, sweeps and the end of the process, no caller sees a session
\* replaced, revived or opened twice.
ImplementsRegistry == Registry!RegistrySpec

(***************************************************************************)
(* Liveness.                                                               *)
(***************************************************************************)
\* Every POST that waits for a create and every DELETE that waits for a
\* removal is eventually answered.
CallsAnswered ==
    \A r \in Reqs : (waiting[r] # None \/ Destroying(r)) ~> (waiting[r] = None /\ ~Destroying(r))

\* A session that is idle for too long is evicted, unless it is used again or
\* the process ends first (README.md:17-19).
ExpiredEvicted ==
    \A c \in Cids : (status[c] = "ready" /\ c \in expired) ~> (c \notin expired \/ phase # "up")

(***************************************************************************)
(* What the documentation says and the code does not do.                   *)
(***************************************************************************)
\* "max-session cap" (README.md:24): never more than MaxSessions sessions.
SessionCap == Cardinality(Mapped) <= MaxSessions

\* shutdown() tears the sandbox containers down (proxy.py:141-142): when the
\* process has ended on its own, no session's container is left.
ShutdownLeavesNoContainer ==
    [][phase = "stopping" /\ phase' = "down" => \A c \in Cids : ~Exists(c)]_vars
=============================================================================
