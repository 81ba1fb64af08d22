----------------------------- MODULE PackageList -----------------------------
(***************************************************************************)
(* GET /v1/env (app/routers/env.py): the cache of the packages of each     *)
(* image, behind one lock, and the event loop's pool of threads, which the *)
(* listing of an image shares with every other blocking call of the        *)
(* gateway: exec calls hold a thread until their deadline                  *)
(* (kernel_client.py:105), creates, destroys, reads and writes of the audit*)
(* log and of files are short.                                             *)
(***************************************************************************)
EXTENDS Naturals, Sequences, FiniteSets

CONSTANTS
    Lookups,    \* requests for /v1/env that may be in flight
    Callers,    \* callers of everything else that runs in a thread
    Names,      \* template names that clients use
    Templates,  \* settings.sandbox_templates: a function from names to images
    SandboxImage, \* settings.sandbox_image
    Threads     \* how many threads the pool has

ASSUME PoolEnvironment ==
    /\ Threads \in Nat \ {0}
    /\ Lookups \cap Callers = {}

VARIABLES
    lookup,     \* where the handler is, and the image that it wants
    line,       \* _cache_lock: its holder, then those who wait, in order
    cache,      \* the images in _package_cache
    jobs,       \* the pool's queue
    running     \* those whose job has a thread

vars == <<lookup, line, cache, jobs, running>>

\* SessionManager.resolve_image.
ResolveImage(template) ==
    IF template \in DOMAIN Templates THEN Templates[template]
    ELSE IF "default" \in DOMAIN Templates THEN Templates["default"]
    ELSE SandboxImage

NoLookup == [pc |-> "idle", image |-> SandboxImage]

\* asyncio.to_thread().
Submit(j) == jobs' = Append(jobs, j)

-----------------------------------------------------------------------------
Ask(q, template) ==
    /\ lookup[q].pc = "idle"
    /\ lookup' = [lookup EXCEPT ![q] = [pc |-> "waiting", image |-> ResolveImage(template)]]
    /\ line' = Append(line, q)
    /\ UNCHANGED <<cache, jobs, running>>

\* Mutant: there is no lock.
InLine(q) == \E i \in DOMAIN line : line[i] = q

Holds(q) == line # <<>> /\ Head(line) = q

\* The handler leaves the lock, and the next in line has it.
Answer(q) ==
    /\ lookup' = [lookup EXCEPT ![q] = NoLookup]
    /\ line' = Tail(line)

\* Mutant: the lock is released only when the listing succeeds.
KeepsLock(q) ==
    /\ lookup' = [lookup EXCEPT ![q] = NoLookup]
    /\ UNCHANGED line

\* "async with": an exception releases the lock too.
AnswerError(q) == Answer(q)

Hit(q) ==
    /\ lookup[q].pc = "waiting"
    /\ Holds(q)
    /\ lookup[q].image \in cache
    /\ Answer(q)
    /\ UNCHANGED <<cache, jobs, running>>

Miss(q) ==
    /\ lookup[q].pc = "waiting"
    /\ Holds(q)
    /\ lookup[q].image \notin cache
    /\ lookup' = [lookup EXCEPT ![q].pc = "listing"]
    /\ Submit(q)
    /\ UNCHANGED <<line, cache, running>>

\* No client of the engine: the client gets a 500, and no job was submitted.
NoClient(q) ==
    /\ lookup[q].pc = "waiting"
    /\ Holds(q)
    /\ lookup[q].image \notin cache
    /\ AnswerError(q)
    /\ UNCHANGED <<cache, jobs, running>>

JobEnds(j) ==
    /\ j \in running
    /\ running' = running \ {j}
    /\ UNCHANGED jobs

Listed(q) ==
    /\ lookup[q].pc = "listing"
    /\ JobEnds(q)
    /\ cache' = cache \cup {lookup[q].image}
    /\ Answer(q)

\* The image is missing, or pip list fails in it: the client gets a 500.
ListFails(q) ==
    /\ lookup[q].pc = "listing"
    /\ JobEnds(q)
    /\ AnswerError(q)
    /\ UNCHANGED cache

-----------------------------------------------------------------------------
\* An exec call, a create, a destroy, ... of the rest of the gateway.
Call(x) ==
    /\ x \notin running
    /\ \A i \in DOMAIN jobs : jobs[i] # x
    /\ Submit(x)
    /\ UNCHANGED <<lookup, line, cache, running>>

CallEnds(x) == JobEnds(x) /\ UNCHANGED <<lookup, line, cache>>

\* The pool's queue is a queue (external).
ThreadTakes ==
    /\ Cardinality(running) < Threads
    /\ jobs # <<>>
    /\ running' = running \cup {Head(jobs)}
    /\ jobs' = Tail(jobs)
    /\ UNCHANGED <<lookup, line, cache>>

Init ==
    /\ lookup = [q \in Lookups |-> NoLookup]
    /\ line = <<>>
    /\ cache = {}
    /\ jobs = <<>>
    /\ running = {}

LookupStep(q) == Hit(q) \/ Miss(q) \/ NoClient(q) \/ Listed(q) \/ ListFails(q)

Next ==
    \/ \E q \in Lookups, n \in Names : Ask(q, n)
    \/ \E q \in Lookups : LookupStep(q)
    \/ \E x \in Callers : Call(x) \/ CallEnds(x)
    \/ ThreadTakes

\* Every blocking call returns or reaches its deadline, and a free thread
\* takes a job if there is one.  Callers may call again at once, for ever.
Spec ==
    /\ Init
    /\ [][Next]_vars
    /\ \A q \in Lookups : WF_vars(LookupStep(q))
    /\ \A x \in Callers : WF_vars(CallEnds(x))
    /\ WF_vars(ThreadTakes)

-----------------------------------------------------------------------------
\* An image is listed once: no container is started for an image that is in
\* the cache, by whatever name its template goes, nor while one is at work:
\* requests that came in the meantime wait for its result.
ListedOnce ==
    \A q \in Lookups : lookup[q].pc = "listing" =>
        /\ lookup[q].image \notin cache
        /\ \A p \in Lookups : lookup[p].pc = "listing" => p = q

\* Every request is answered, although one lock is held across the listing of
\* any image, listings fail, and the threads are shared with calls that never
\* cease to come.
LookupAnswered == \A q \in Lookups : lookup[q].pc # "idle" ~> lookup[q].pc = "idle"
=============================================================================
