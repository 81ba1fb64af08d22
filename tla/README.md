# A TLA+ verification of agent-sandbox

agent-sandbox is an HTTP gateway that runs code of language models: each
conversation has a *session*, a Docker container with a Jupyter kernel in it.
The gateway is one process with one asyncio event loop; blocking calls (Docker,
ZeroMQ, SQLite, files) run in worker threads. This directory models its parts in
TLA+, checks them on small instances with TLC and proves the invariants of its
core with TLAPS.

## Inventory

| part | state | operations | talks to |
|---|---|---|---|
| Session manager (`app/runtime/manager.py`, `session.py`, `routers/sessions.py`) | `_sessions`, `_creating`, the create tasks, `Session.status`, `last_used_at`, the reaper's list | `get_or_create`, `_create_task`, `destroy`, `start_reaper`, `shutdown` | Docker runtime, kernel client, audit log |
| Docker runtime (`docker_runtime.py`) | none of its own; the engine's containers and names | `create`, `_wait_for_ports`, `destroy`, `stats` | Docker engine, egress proxy's flags |
| Kernel client and exec (`kernel_client.py`, `routers/exec.py`) | `_kc`, `exec_lock`, the channels, the output gathered | `execute`, `close`, `POST .../exec` | kernel, audit log |
| Audit log (`audit.py`, `routers/audit.py`) | queue, writer task, SQLite database | `enqueue_*`, `_writer_loop`, `flush`, `stop`, two reads | SQLite |
| Egress proxy (`proxy.py`) | `network_ready`, `proxy_ready`; network, proxy container and `squid.conf` outlive the process | `start`, `stop` | Docker engine |
| Lifespan (`main.py`) | the order in which all of these start and stop | start, exit | all |
| Package list (`routers/env.py`) | `_package_cache` and its lock | `GET /v1/env` | Docker engine |
| Files (`routers/files.py`) | the workspace directories | upload, list, download, delete | file system, session manager |
| Settings, models, auth, health | settings, read once | - | - |
| Cookbook, scripts, Docker images | - | - | - |

What makes them hard, and what makes them correct:

- **Session manager.** Requests for one conversation interleave with each other,
  with the reaper and with shutdown at every `await`; the container of a session
  that is being destroyed, the one of its successor and the one of a failed
  create may all be on their way at once. It is correct if creates are shared,
  if a conversation has one READY session, if a session is destroyed once, if a
  READY session has its container and can be found, and if no container is left
  behind.
- **Docker runtime.** Every call may fail, some half-way; containers survive the
  gateway and keep their names.
- **Exec.** A call times out while its cell runs on, and the next call shares
  kernel and channels with it; the session may be destroyed meanwhile. A call
  must return its own output, all of it unless it says otherwise, must be
  answered, and must be audited.
- **Audit log.** Events must reach the disk in order, `stop()` must drain them,
  write errors must not stop the writer, a crash may lose the last ones only,
  and the UPDATE that closes a row must find the right one.
- **Egress proxy.** The proxy and its configuration file outlive the gateway, and
  the file may be torn, and Docker stops and restarts the proxy when it likes: a
  proxy that runs must be left alone, one that is started must be able to read its
  configuration and serve what the settings ask for, and once there is an `sbx-net`
  no failure may let a sandbox reach more than that.
- **Reaper.** It must evict in bounded time, on clocks that do not agree, and spare
  what is in use.
- **Lifespan.** What is stopped first must not be needed by what is stopped after.
- **Package list.** One lock is held across a listing that takes a container and a
  thread of a pool that exec calls share: nobody must wait for ever.
- **Files.** Uploads, deletes and the sandbox work on the same files, and the
  workspace outlives its session: an answer must be true of the file.

`PROJECT.json` lists the hazards with their lines and the properties that look for them.

## The modules

```
DockerDaemon <- SessionManager <- SessionManagerProofs <- AuditTrailProofs
                  |    ^    \---> SessionRegistry (abstract; ImplementsRegistry)
                  |    AuditTrail <- AuditTrailProofs ---INSTANCE---> AuditWriterProofs
                  |         \---INSTANCE---> AuditWriter <- AuditWriterProofs
Allowlist <- EgressProxy <- EgressProxyProofs
KernelExec <- KernelExecProofs        ReaperClock <- ReaperClockProofs
PackageList <- PackageListProofs      Workspace <- WorkspaceProofs
```

(`A <- B`: B extends A.) Each module that TLC runs has an MC module with its sets of ids.

**DockerDaemon** is the engine: `container` and `name`. It refuses a second
container of a name (`NameTaken`) whatever the state of the first. It is a process
of its own, so a crash of the gateway leaves it unchanged, and a container may
die (`Exits`) without anybody being told.

**SessionManager** is `manager.py` over that engine. An action is a segment of a
coroutine between two awaits that really suspend it, or a call of a worker thread.
`_lock` is never held across an await, so acquiring it never suspends, and the
model has no variable for it. A `Session` is identified with its container.

| variable | code |
|---|---|
| `phase` | the process, between `lifespan` start, exit and end |
| `sessions` | `_sessions` |
| `creating`, `task` | `_creating` and the `_create_task` behind each entry; `task[r].pc` is the call it awaits: `run` (containers.run), `ports` (`_wait_for_ports`), `kernel` (`KernelClient.start`), `rollback` (`runtime.destroy`) |
| `waiting` | `await fut` in `get_or_create` |
| `status` | `Session.status` |
| `expired` | sessions with `idle_seconds() > idle_ttl_s` |
| `destroyer` | the `destroy()` that a request, the reaper or `shutdown()` is in: `closing` (`kernel.close`), `killing` (`runtime.destroy`), `killed` (the thread is through, the coroutine is not) |
| `victims` | the ids left in the loop of the reaper or of `shutdown()` |

The failures that a run allows are the constant `Failures`: `run` (nothing is
created), `start` (created, not started, no handle), `ports`, `kernel`, `kill`, and
`die` (a container's process ends at any time, also while its session is READY).
`SlowRemoval` says whether the answer to a removal may take longer than booting the
next kernel of the same conversation; Docker lets go of a name before it answers.
With `FALSE` the model assumes that it does not, which is what one observes on an
idle engine, and nothing in the code ensures it: both values are checked.

Abstracted: the image, mounts, limits, ports; polling; HTTP. A request that is
answered at once changes nothing and is no action (a READY session, the 429 of the
cap, `stopped=false`).

**SessionRegistry** is what callers of the manager may rely on, without tasks,
Docker or who asked: opening is begun once, a session takes nobody's place, one that
is being closed never comes back. `SessionManager!ImplementsRegistry` is the
refinement, with `pending`, `ready` and `closing` defined from `_creating`,
`_sessions` and `status`.

**AuditWriter** is the audit log with two copies of the tables: what is committed
(`db`) and what the writer's connection sees (`mine`), so that a failed commit that
leaves its transaction open, and a close or a crash that rolls it back, are told
apart. `queue` and `unfinished` are the asyncio queue and its counter; `stop()` and
`flush()` are `stopper` and `flusher`; `Read` is a GET, which opens a connection of
its own. Events know the session instance they are about (`of`); the SQL knows the
session id only. `accepted`, `failed` and `seen` are history: what this process has
enqueued, which writes have raised, what the last GET has shown.

**AuditTrail** puts the manager and the log into one process: it extends
`SessionManager`, instantiates `AuditWriter` with `live` defined from the manager's
map, and joins their actions where the code joins them. The session that enters the
map and its `session_created` event are one segment (`SessionOpens`), the pop and its
`session_destroyed` event another one (`SessionEnds`); the lifespan starts the log
before the manager and stops it when `shutdown()` has returned (`AuditStops`).
`AuditWriter` alone assumes a well-behaved caller; `KeepsContract` says that the
manager is one: the composition makes only steps of `AuditWriter!Next`.

**KernelExec** is one session's exec path: the handlers queueing for `exec_lock`,
`_execute_sync` receiving one message at a time, the kernel (external: it takes
requests one after another and ends each with `idle`), both channels in order, and a
`close()` that comes when it likes, because `destroy()` does not take the lock.

**Allowlist** is how `EGRESS_ALLOWLIST` becomes the domains of `squid.conf`: entries
in every form an operator may write, normalised and rid of those that another one
covers; a name is the sequence of its labels, and `Covers` is squid's `dstdomain`.

**EgressProxy** is `EgressProxy.start()` call by call over several lives of the
gateway, and the network a sandbox created meanwhile is given. `squidConf` is the
file on the host, `proxy.conf` what squid has read when it was started last; a write
that is cut short by a failure or a crash leaves a file that squid cannot parse
(`NoConf`). The container may stop, go away (`ProxyStops`) and be started again by its
restart policy (`ProxyRestarts`) at any moment, between any two calls of `start()` too;
finding it not running (`ProxyNotRunning`) and removing it (`WipeProxy`) are therefore
two steps. `proxy.by` is history: the allowlist of the process that created the
container. A bootstrap that fails without an `EgressProxy` object (`main.py:36-46`) is
`NetworkFails`: to `DockerRuntime.create` both are "no network".

**ReaperClock** is the reaper in discrete time, with the two clocks of
`manager.py:191-198`: `ClockOffset` is what the wall clock is ahead of the monotonic
one. Sessions are `busy` while a call holds their `exec_lock`, and are touched when it
begins and when it ends. `SessionManager` has the reaper's interleavings and no clock.

**PackageList** is `GET /v1/env`: the lock (`line`: its holder, then who waits), the
cache, and the pool of threads, for which listings compete with every other blocking
call of the gateway (`Callers`, which call again and again).

**Workspace** is uploads and deletes in one workspace, each step of the worker thread
by itself (look up, open and truncate, write a block, stat; exists, unlink), with the
sandbox writing and removing there too, and sessions of the same id coming and going.
Paths are what `_safe_path` makes of them, links resolved; those it answers with 400
are `PathRejected`.
Files are inodes, so that an upload keeps writing to a file that has lost its name.

## The runs

Passing:

| run | instance | what it shows |
|---|---|---|
| SessionSafety | 3 requests, 2 conversations, 4 containers, cap 2; every failure, sandboxes that die, crashes, slow removals | what survives the worst environment: `SingleCreate`, `UniqueReady`, `SingleDestroyer`, `ReadyHasContainer`; and `OrphanBlocksConversation`: a container left behind is never adopted or removed, and its conversation stays without a session |
| SessionLiveness | 2 requests, 2 conversations, 4 containers, cap 2; creates fail, sandboxes die, the gateway is killed, but Docker starts and removes containers, in time | `ReadyIsMapped`; `NeverOrphaned`: only the end of the process leaves containers behind; `ImplementsRegistry`; every request is answered (`CallsAnswered`), every idle session evicted (`ExpiredEvicted`), dead or alive |
| AuditLog | 3 events, 2 conversations; crashes, errors of every SQLite call | a crash loses the last events only and no failed write takes another one with it (`CrashLosesSuffix`); what `stop()` and `flush()` promise (`StopDrains`, `FlushIsBarrier`) and that they return (`CallersAnswered`); `ClosedByItsOwnSession`; what a GET has shown does not disappear (`ReadsNeverShrink`); no event is left in the queue (`EventuallyRecorded`) |
| TrailOfSessions | 2 requests, 2 conversations, 2 containers, 4 events; creates and removals fail, crashes | the rows that are open are those of the sessions in the map, once what is on the way is written (`TrailIsMap`); `KeepsContract`; a shutdown ends (`ShutdownEnds`) |
| ExecCalls | 2 calls, 2 outputs per cell; timeouts, death of the kernel, destroy | `OwnOutput`, `CompleteResult`, `ExclusiveUnlessAbandoned`, `AuditedOnce`; every call is answered (`ExecAnswered`) |
| EgressStarts | 3 settings whose entries repeat and cover each other, or are blank, 7 hosts; Docker's and the file system's faults, crashes, redeploys, a proxy that stops, is removed or is restarted by Docker at any time | whatever fails, a sandbox reaches only what the proxy was created to allow once there is `sbx-net` (`SafeFailureMode`); `RunningProxyIsKept`; squid never runs on a file it cannot parse (`SquidParses`) and serves exactly the allowlist of the process that created it (`ProxyServesItsAllowlist`) |
| ReaperBound | 3 sessions, calls as long as the TTL | `IdleIsBounded`: idle time is at most the TTL, one period and two rounds of destroys; `ScanSparesBusy`: a call that runs is not taken for idleness |
| Lookups | 3 requests for 4 names (3 templates of 2 images, one name unknown), 2 other callers, 2 threads | `ListedOnce`; every request is answered although callers never cease and listings fail (`LookupAnswered`) |
| Uploads | 3 uploads of 1, 2 and 3 blocks with a limit of 2, 2 deletes, one path | an answered upload that nobody interfered with is in the workspace, whole and under its path (`UploadKept`); each answered delete removed a file of its own (`DeletesCount`) |

Violated, each on what the documentation, a comment or a test says:

| run | property | what happens |
|---|---|---|
| SessionCapExceeded | `SessionCap` | creates in flight are not counted against `MAX_SESSIONS` |
| ShutdownLeak | `ShutdownLeavesNoContainer` | the reaper is cancelled inside `destroy()`, and `shutdown()` skips its session |
| MaxAgeIgnored | `AgeIsBounded` | `max_age_s` never fires: monotonic minus wall clock |

The type invariants of SessionManager, AuditWriter, KernelExec, EgressProxy and ReaperClock are
checked in SessionSafety, AuditLog, ExecCalls, EgressStarts and ReaperBound.

### Bounds

Sessions: two requests race, a third joins or deletes; two conversations fill a cap of two, and with
a cap of one they go over it; four containers are one per conversation, one that is on its way out
and one left behind. Container ids can be reused once the container is gone, so runs are unbounded
in length. `MaxItems` (3) lets a session be opened, used and closed, or left open by a crash and its
successor opened and closed; in TrailOfSessions (4) two whole sessions, and `SpawnInBounds` starts a
create only if the events it will cause still fit. Two calls are one that gives up its cell and one
that comes after it, or one that polls and one that waits while the session is destroyed. `MaxOutput`
(2) is enough for output to arrive early, late and not at all, and to arrive in part. The settings of
EgressStarts have each form of entry, a domain before and after one that covers it, and none at all;
the hosts lie at, under and above the names. `MaxTime` (10) lies beyond the bound of `IdleIsBounded`
(9), so that a saturated count would violate it; in MaxAgeIgnored (12) beyond that of `AgeIsBounded`
(8). Three requests are a listing, one that waits for its result and one for another image; two
threads are fewer than the calls that want one. The uploads are one shorter and one longer than
another, so that truncation matters, and one too long. Requests, conversations and containers are
symmetric in SessionSafety, and sessions in ReaperBound; the runs with liveness use no symmetry.

`CHECK_DEADLOCK` is on in every run. `KernelExec!Quiet` is a stutter for the state in which all
calls are answered.

### Fairness

Weak fairness of the create tasks, destroys, sweeps, the audit writer, `stop()` and `flush()`, an
exec call's own steps, the lookups of `/v1/env`, the pool's threads and, in AuditTrail, the lifespan:
the event loop resumes every coroutine that is ready, every call to Docker or SQLite returns or times
out, every exec call has a deadline (the actions of failure are among the fair ones, so fairness
never assumes success). The reaper is fair because it wakes up by a timer. The pool's queue is first
come first served, as `ThreadPoolExecutor`'s is, and so is an `asyncio.Lock`. Clients, the kernel (a
cell may run for ever), crashes, restarts and the decision to shut down are not fair. `ExpiredEvicted`
needs no stronger form: an expired session leaves READY or is used, and once the reaper is idle its
scan stays enabled.

### Known limits

What the models reach, and what the code does there. The properties above are stated so that they
hold next to it.

Sessions:

- **A lost session.** `destroy()` pops by id (`manager.py:171`). If the answer to the removal comes
  after the next session of that id is in the map (`SlowRemoval`), the pop removes the successor:
  it stays READY and nobody can reach or evict it. `ReadyIsMapped`, `NeverOrphaned`,
  `ImplementsRegistry` and the audit trail's properties are therefore checked and proved without slow
  removals; with them the event of the first session's end also closes the successor's row.
- **Stale victims.** The reaper collects its victims (`manager.py:193-204`) and destroys them one
  after another (`manager.py:205-207`). A later one that is used while an earlier one is removed, or
  deleted and created again under its id, is destroyed all the same: `FinishVictim` tests, as
  `destroy()` does, that there is a session, not that it is still idle.
- **A READY session without a sandbox.** `get_or_create` does not look at the container
  (`manager.py:72-74`); when it has died, calls time out until the session is idle for long enough
  or deleted (`SandboxDies`).
- **Containers left behind** by a crash, a failed start or a failed removal are not swept at the
  next start, so their conversations get no session until an operator removes them
  (`OrphanBlocksConversation`).
- **A destroy cut off.** The reaper is cancelled wherever it is (`main.py:64`): beyond ShutdownLeak,
  its session's row in the audit log stays open.
- **Calls longer than the TTL.** `ScanSparesBusy` assumes that calls end before `idle_ttl_s`
  (`CallsEndBeforeTtl`). The request model limits `timeout_s` to 600 s and the TTL is 1800 s by
  default, but nothing compares the two, and a call that waits for a thread of the executor waits
  beyond its timeout.

Exec and audit:

- **A busy kernel.** A call that times out leaves its cell running and lets go of the lock
  (`kernel_client.py:118-122`; the comment leaves the remedy to the session manager, which has
  none). The next call's cell waits behind it, and its deadline runs. That is why
  `ExclusiveUnlessAbandoned` has its premise; `OwnOutput` shows that results are not mixed up.
- **A call that is not audited.** `.env.example:26` promises a row for every exec call; one that finds
  the kernel client closed raises between the lock and the event (`exec.py:51`), is answered with 500
  and leaves none. `AuditedOnce` counts the calls that have a result.
- **A log that never opened its database.** If `_open` fails the writer's task dies: `flush()`
  waits for ever, which is the exception in `CallersAnswered`; `stop()` returns.

Egress:

- **A stale allowlist.** A running proxy is adopted with the configuration it has read
  (`proxy.py:173-176`), although `deploy_linux.sh:353` tells the operator that a restart of the gateway
  applies a new one. Hence `ProxyServesItsAllowlist` and `SafeFailureMode` are about the allowlist of the
  process that created the proxy.
- **An unreachable proxy.** If `net.connect` fails (`proxy.py:205-206`), the proxy runs outside
  `sbx-net`; `start()` reports failure, but the next start finds it running, adopts it and sets
  `proxy_ready`. The proxy does not "straddle" both networks then (`proxy.py:8`), and sandboxes are told of
  a proxy that they cannot reach. `SafeFailureMode` holds: they have no other way out.
- **No network, no confinement.** Where `sbx-net` could not be set up (`NetworkFails`), sandboxes are
  created on the default bridge and reach everything (`docker_runtime.py:160-168`, which logs a
  warning). `SafeFailureMode` claims nothing for them but that they are not told of a proxy.
- **A proxy that is down.** The gateway looks at the proxy once, when it starts. One that stops later
  leaves `proxy_ready` set; sandboxes have no egress until Docker or an operator starts it.
- **A proxy restarted in between.** `start()` finds the proxy down and then removes it with `force`
  (`proxy.py:173-178`); if Docker has restarted it in the meantime, a running one is taken down and
  replaced. `RunningProxyIsKept` excepts that step.

Packages and files:

- **Old packages.** The cache is by image name and has no end: an image that is rebuilt under the same
  tag is listed as it was.
- **Uploads that meet.** Two concurrent uploads to one path write to one file and may leave a mixture;
  one that fails has already truncated what was there. `UploadKept` is about the others (`raced`).
- **Vanishing files.** A file that disappears between `iterdir()` and `stat()` is listed with size 0,
  or the listing fails; a download that was checked may find nothing to open.

## The proofs

For every value of the constants that satisfies the modules' assumptions. None of the invariants is
inductive by itself; each module proves an inductive one and derives them from it.

| module | theorem | statement |
|---|---|---|
| SessionManagerProofs | `TypeCorrect` | `Spec => []TypeOK` |
| | `CreateIsIdempotent` | `Spec => []SingleCreate` |
| | `OneReadySession` | `Spec => []UniqueReady` |
| | `ReadyIsBacked` | `Spec => []ReadyHasContainer` |
| | `DestroyedOnce` | `Spec => []SingleDestroyer` |
| | `ReadyIsReachable` | with `~SlowRemoval`, `Spec => []ReadyIsMapped` |
| | `OrphansBlock` | `Spec => OrphanBlocksConversation` |
| | `NoneLeftBehind` | with `~SlowRemoval` and `DockerObeys` (`start` and `kill` do not fail), `Spec => NeverOrphaned` |
| | `ManagerImplementsRegistry` | with `~SlowRemoval`, `Spec => ImplementsRegistry` |
| AuditWriterProofs | `AuditTypeCorrect` | `Spec => []TypeOK` |
| | `AuditLosesSuffixOnly` | `Spec => []CrashLosesSuffix` |
| | `AuditStopDrains` | `Spec => []StopDrains` |
| | `AuditFlushIsBarrier` | `Spec => []FlushIsBarrier` |
| | `AuditClosesItsOwn` | `Spec => []ClosedByItsOwnSession` |
| | `AuditReadsNeverShrink` | `Spec => ReadsNeverShrink` |
| AuditTrailProofs | `ManagerKeepsContract` | with `~SlowRemoval`, `TrailSpec => KeepsContract` |
| | `TrailIsLogged` | with `~SlowRemoval`, `TrailSpec => []` of the log's `CrashLosesSuffix`, `StopDrains` and `ClosedByItsOwnSession` |
| | `LogIsTheMap` | with `~SlowRemoval` and `NoWriteFails` (no `execute` and no `commit` fails), `TrailSpec => []TrailIsMap` |
| KernelExecProofs | `ExecTypeCorrect` | `Spec => []TypeOK` |
| | `CallsAreSerialized` | `Spec => []ExclusiveUnlessAbandoned` |
| | `ResultsAreAudited` | `Spec => []AuditedOnce` |
| | `OutputIsOwn` | `Spec => []OwnOutput` |
| | `ResultsAreComplete` | `Spec => []CompleteResult` |
| EgressProxyProofs | `ProxyTypeCorrect` | `Spec => []TypeOK` |
| | `FailuresAreSafe` | `Spec => []SafeFailureMode` |
| | `ProxyOutlivesGateway` | `Spec => RunningProxyIsKept` |
| | `SquidAlwaysParses` | `Spec => []SquidParses` |
| | `AllowlistIsServed` | `Spec => []ProxyServesItsAllowlist` |
| ReaperClockProofs | `ClockTypeCorrect` | `Spec => []TypeOK` |
| | `EvictionIsBounded` | `Spec => []IdleIsBounded` |
| | `CallsAreSpared` | `Spec => ScanSparesBusy` |
| PackageListProofs | `ListedOnceHolds` | `Spec => []ListedOnce` |
| WorkspaceProofs | `UploadStaysKept` | `Spec => []UploadKept` |
| | `DeletesAreCounted` | `Spec => []DeletesCount` |

What the assumptions about constants ask for is what the code and its environment give: ids of different
kinds differ, and `None` and the queue's sentinel are none of them (`DistinctNames`, `Sentinel`,
`TrailSentinel`, `WorkspaceEnvironment`); kinds of failures and settings are those that the module knows
(`Environment`, `TrailEnvironment`, `EgressEnvironment`); names are made of labels, and no host is under
`.invalid` (RFC 2606), which is what `never-allowed.invalid` in `squid.conf` relies on. The one about
behaviour is `CallsEndBeforeTtl`, for `ScanSparesBusy`. The hypotheses that some theorems add are in the
table; `SlowRemoval` and what it would break are under Known limits.

**The session manager** (assumptions `DistinctNames` and `Environment`). `UniqueReady` holds because a
container is named after its session (`NamesUnique`, the engine's doing), because a READY session has
its container (`ReadyHasContainer`) and because a create task owns a container that is nobody's session
yet (`TasksOwn`). That a destroy never hits a READY session's container needs `DestroysOwn`: it works
on a session it has marked, found under the id it will pop; and `SingleDestroyer`, so that no other
destroy has unmarked it. `SingleCreate` follows from `TasksOwn`: a task is the one that `_creating`
names, and its request waits for it. `IInv` is their conjunction, and `InvStep` takes the actions one
by one. For `ReadyIsMapped` the invariant is `MInv`: in addition a session that a destroy works on is in
the map under its id (`DestroysMapped`), which is where `SlowRemoval` comes in: without that condition
`KernelReady` may overwrite the entry.

**Containers left behind.** `OrphanBlocksConversation` needs `Named`, that every container has the name of
a session: a create for that session then finds its name taken, and a container that is ready to enter
the map under it would be a second one of that name. For `NeverOrphaned` the invariant is `HInv`. It is
`LInv`, which holds whatever fails (without slow removals, like `MInv`), and `KilledIsGone`, that a destroy whose thread is through has
removed its container, which needs `DockerObeys`. `LInv` has four facts more than `MInv`: what is idle refers to
no container, so that nothing is forgotten when a request starts its next call; a session is marked
DESTROYING only while some destroy works on it; `shutdown()` is at work only while the process is stopping;
and requests are at work only while it is up.

**The refinement.** There is one lemma for each step of the registry (a spawn begins an
opening, a failed task aborts it, a kernel that is up serves, marking closes, a pop ends the closing) and
one step of `RegistryStep` for each action of the manager. The registry's guards come from `MInv`: that
the place of a new session is free, and that what a pop removes is what was being closed, and not a
successor.

**The audit log** (assumptions `AuditEnvironment` and `Sentinel`, that no event is the sentinel). What a
table holds is compared with what was enqueued: `WrittenIn(t, acc, d, f)` says that the first `d` events
of `acc` are in `t`, or excused by the failures `f`, and none of the later ones. `Writes` shows that
writing the next event leads from `d` to `d + 1`, `PassesOver` the same for one that fails. The hard case
is the end of a session: the row that the UPDATE finds is its own because rows are in the order of their
ids (`RowsInOrder`), a row of this process is of an event that is done (`RowsKnown`), and between the
beginning and the end of a session nothing else happens under its session id (`OneProcess`), so its row is
the last one and open (`OpenStays`). `QueueInv` says what `d` is: the queue is the rest of what was
enqueued, with the sentinel behind it, so `unfinished` is 0 only when everything is done. Both tables,
the committed one and the connection's, are `WrittenIn` all the time; that is why a rollback, at a close
or a crash, costs nothing that was not excused.

**The audit trail.** `TInv` adds to `LInv` what relates the manager to the log: the log's writer is there
whenever the process is, and `stop()` is called only after `shutdown()` has returned (`Phases`); every session
in the map has been logged (`Booked`); and the events that sessions and creates will cause fit in the bound
(`Room`, a count of two finite sets). `AuditWriter` asks its caller for three things. No event may be enqueued
once `stop()` has begun: requests are at work only while the process is up (`LInv`), the reaper is cancelled
when that ends, and by `Phases` `shutdown()` is through with its destroys. A session may open only if none of its id is open (`OpensFresh`): the
entry that `KernelReady` fills was empty, because a session whose container still exists has its name,
and because without `SlowRemoval` no destroy under this id is through with its container and not yet with its
pop. And a session may end only once: what a pop removes is in the map (`MInv`). That gives `KeepsContract`. So each
step of the whole is one of `AuditWriter!Next`, and the log's own invariant `AInv` is carried over to the
composition through an instance of its proofs (`Log`; `SameLog` says that the two instances define the same
steps), with the environment that `AuditWriter` leaves open replaced by the manager: that is `TrailIsLogged`.

`TrailIsMap` speaks of the tables as they *will* be when the event in the writer's hand and those in the
queue are written, a fold. `FoldExists` shows that the recursive function under it has a value, by taking the
least length for which it had none; `ToBeLoops` makes of it what a loop does, one event after another, and
`OnTheWayIsRest` says that these events are those of `accepted` behind `Done`. With `Writes` from the
log's proofs, the tables to be are `WrittenIn` for all of `accepted` (`ToBeWritten`). What remains is
about `accepted` only: a session that has ended in it is not live (`EndInv`, which is where a failed write has to
be excluded: an UPDATE that is lost leaves its row open for good), and one that has not is the one that
`live` names (`OpenRowsAreLive`).

**The exec path.** `LineInv` is about the lock: whoever polls is the head of the line and nobody is in it
twice, so at most one call polls. `KernelInv` is about messages: a request is queued or being run once,
every message has a parent that made a request, and `idle` is the last message of its parent on the channel.
From both, `ServesCaller`: as long as nobody has given up, what the kernel has to run is the polling call's
(`ExclusiveUnlessAbandoned`). `CompleteResult` counts: what a call has gathered and what is still on the
channel for it add up to what its cell printed (`GatherInv`), so that when `idle` is at the head nothing
is left (`IdleIsLast`). `AuditedOnce` says that the audit log holds each answered call once, as an injective
sequence, and then that the number of its entries is 0 or 1.

**The egress proxy.** `StartInv` says what has been established at each step of `start()`: past the
network step there is a network, the file is written and the container created while there is none, and sandboxes
are created only when `start()` is through; none of the failure exits and nothing Docker does to the proxy breaks
it. `SandboxInv` is how those sandboxes are connected. `ConfInv` is about the file: while a container exists, running
or not, the file is the one that was rendered when it was created, never another one or a torn one, because
only a start that has removed the container writes it, and a write that fails or is cut off leaves none. That is why
a restart by Docker reads what was read before. With `RenderedSetting`, what such a file lets through is what the
setting allows, and `SafeFailureMode` follows: a sandbox on `sbx-net` has no other way out. What is rendered is `Dedup` of a sorted
sequence. That a finite set of names can be sorted by length at all is shown first (`SortExists`, a shortest
one before the others), so that the `CHOOSE` in `ShortestFirst` has something to choose; `DedupKeeps` is then the loop invariant of `_dedup_subdomains`: what is kept so far covers all names
so far, and no name kept covers another one, since a name that covers another is the shorter of the two and
was looked at first. Both facts hold for *every* order of names of one length, as `ShortestFirst` leaves it
open (Python keeps the order of a set, which nobody knows). `RenderKeeps` turns them into the two facts that the theorems rest on: the
list parses, and it lets through what the entries let through and no more.

**The reaper.** The invariant bounds a potential: the time a session has been idle, plus what is left of
the timer, plus `Left`, the destroys still on the list. While the reaper sleeps that sum is at most the
TTL, one period and one round; if this round has missed the session it is at most the TTL and one round;
if it is on the list, the bound and the session's own destroy, which never comes. A tick raises the first
term and lowers the second, a destroy moves time from the third to the second. `ScanSparesBusy` needs only
that the idle time of a busy session is at most `MaxCall`, and the assumption `CallsEndBeforeTtl`.

**The package list.** Who lists holds the lock, and the cache grows only when the holder leaves it.

**The workspace.** `UInv` says of an upload that nobody has interfered with: its path still names the file it
opened, and the file holds exactly the blocks it has written (`KeptSoFar`); `Races` marks whoever has a file
open that another actor opens, writes or removes, so every step that could break this takes the upload out
of the claim. For `DeletesCount` the set of answered deletes is finite and grows by the one that unlinks.

**Only model-checked:** the liveness properties `CallsAnswered`, `ExpiredEvicted`, `CallersAnswered`,
`EventuallyRecorded`, `ShutdownEnds`, `ExecAnswered` and `LookupAnswered` (fairness and `ENABLED` are beyond the
prover), and the counterexamples of the three runs that are violated. Every invariant and every action property
that a passing run checks has a theorem; those of `ReadyIsMapped`, `NeverOrphaned`, `ImplementsRegistry` and
the audit trail have the hypotheses that the table gives, and the runs that check them set the constants
accordingly.

## Not modelled

Settings, authentication, health, the response models, the cookbook, the scripts and the images: no state,
or none of the gateway's. The GET handlers of sessions and files, which change nothing. Within the parts
that are modelled: directories and the removal of a directory tree (`files.py`); the order, filter and limit
of the audit log's listings and the conversion of its rows; the truncation of output and the preview of
results; the choice among several port bindings; the limits and labels of a container; `stats()`.

## Plan

1. *Done:* the session manager with its engine, registry and proofs; the audit log and its proofs; manager,
   log and lifespan composed; the exec path; the allowlist and the egress proxy; the reaper's clocks; the package
   list with the pool of threads; uploads and deletes.
2. *Done:* a theorem for each invariant and each action property that a passing run checks, the composition
   of manager and log included.
3. Algorithms against reference definitions: the truncation of output, the choice of a port binding.
4. The exec path composed with the audit log, for the order of events across sessions of one conversation.
