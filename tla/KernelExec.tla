----------------------------- MODULE KernelExec -----------------------------
(***************************************************************************)
(* POST /v1/sessions/{id}/exec on one session: the handler of              *)
(* app/routers/exec.py, the KernelClient of app/runtime/kernel_client.py,  *)
(* the Jupyter kernel at the other end of its channels and a destroy() of  *)
(* the session that may come at any time.                                  *)
(*                                                                         *)
(* Each exec call runs one cell; the msg_id of its request is the call.    *)
(* Channels deliver in order.  MaxOutput bounds what a cell prints.        *)
(***************************************************************************)
EXTENDS Naturals, Sequences, FiniteSets

CONSTANTS
    Execs,      \* the exec calls that clients make
    None,
    MaxOutput,
    Hazards     \* what may go wrong

ASSUME ExecEnvironment ==
    /\ None \notin Execs
    /\ MaxOutput \in Nat
    /\ Hazards \subseteq {"timeout", "destroy", "death"}

VARIABLES
    call,       \* call[e]: where the handler is
    result,     \* result[e]: the exit_reason, or how else the call ended
    buf,        \* buf[e]: what _execute_sync has gathered
    lockQueue,  \* exec_lock: its holder, then those who wait for it
    channels,   \* the client's channels: "open", "stopping" or "closed"
    shell,      \* requests on their way to the kernel
    cell,       \* the call whose cell the kernel runs; None when it is idle
    kernel,     \* "alive" or "dead"
    iopub,      \* messages on their way from the kernel
    printed,    \* history: how much the cell of a call has printed
    outcome,    \* history: how the cell of a call ended
    audit       \* the exec_audit events, in the order they are enqueued

vars == <<call, result, buf, lockQueue, channels, shell, cell, kernel, iopub, printed,
          outcome, audit>>

CallPc == {"unborn", "waiting", "polling", "sampling", "answered"}
ExitReasons == {"none", "ok", "error", "timeout", "kernel_dead", "raised", "refused"}
Messages == [parent : Execs, type : {"stream", "error", "idle"}]

TypeOK ==
    /\ call \in [Execs -> CallPc]
    /\ result \in [Execs -> ExitReasons]
    /\ buf \in [Execs -> [streams : Seq(Execs), error : BOOLEAN]]
    /\ lockQueue \in Seq(Execs)
    /\ channels \in {"open", "stopping", "closed"}
    /\ shell \in Seq(Execs)
    /\ cell \in Execs \cup {None}
    /\ kernel \in {"alive", "dead"}
    /\ iopub \in Seq(Messages)
    /\ printed \in [Execs -> 0 .. MaxOutput]
    /\ outcome \in [Execs -> {"none", "ok", "error"}]
    /\ audit \in Seq(Execs)

kernelVars == <<shell, cell, kernel, iopub, printed, outcome>>
handlerVars == <<call, result, buf, lockQueue, audit>>

-----------------------------------------------------------------------------
(***************************************************************************)
(* The handler, on the event loop.                                         *)
(***************************************************************************)
\* require(), then the call queues for exec_lock, which is first come first
\* served; a session that is being destroyed is not found.
Arrive(e) ==
    /\ call[e] = "unborn"
    /\ \/ /\ channels = "open"
          /\ call' = [call EXCEPT ![e] = "waiting"]
          /\ lockQueue' = Append(lockQueue, e)
          /\ UNCHANGED result
       \/ /\ channels # "open"
          /\ call' = [call EXCEPT ![e] = "answered"]
          /\ result' = [result EXCEPT ![e] = "refused"]
          /\ UNCHANGED lockQueue
    /\ UNCHANGED <<buf, channels, audit, kernelVars>>

\* Mutant: there is no lock.
HoldsAnyway(e) == e \in {lockQueue[i] : i \in DOMAIN lockQueue}

Holds(e) == lockQueue # <<>> /\ Head(lockQueue) = e

\* KernelClient.execute: the worker thread sends the request.
Submit(e) ==
    /\ call[e] = "waiting"
    /\ Holds(e)
    /\ channels # "closed"
    /\ call' = [call EXCEPT ![e] = "polling"]
    /\ shell' = Append(shell, e)
    /\ UNCHANGED <<result, buf, lockQueue, channels, cell, kernel, iopub, printed, outcome,
                   audit>>

\* KernelClient.execute raises when close() has been called; the handler
\* leaves the lock, and answers 500 without an audit event.
SubmitFails(e) ==
    /\ call[e] = "waiting"
    /\ Holds(e)
    /\ channels # "open"
    /\ call' = [call EXCEPT ![e] = "answered"]
    /\ result' = [result EXCEPT ![e] = "raised"]
    /\ lockQueue' = Tail(lockQueue)
    /\ UNCHANGED <<buf, channels, audit, kernelVars>>

\* _execute_sync is over: the handler leaves the lock and samples the
\* container's resources.
Returns(e, reason) ==
    /\ call' = [call EXCEPT ![e] = "sampling"]
    /\ result' = [result EXCEPT ![e] = reason]
    /\ lockQueue' = Tail(lockQueue)

\* Mutant: a call that timed out is not audited.
AnswerUnaudited(e) ==
    /\ call[e] = "sampling"
    /\ call' = [call EXCEPT ![e] = "answered"]
    /\ audit' = IF result[e] = "timeout" THEN audit ELSE Append(audit, e)
    /\ UNCHANGED <<result, buf, lockQueue, channels, kernelVars>>

\* The event is enqueued and the client gets its answer.
Answer(e) ==
    /\ call[e] = "sampling"
    /\ call' = [call EXCEPT ![e] = "answered"]
    /\ audit' = Append(audit, e)
    /\ UNCHANGED <<result, buf, lockQueue, channels, kernelVars>>

-----------------------------------------------------------------------------
(***************************************************************************)
(* _execute_sync, in its worker thread: one message, or one failure to get *)
(* one, at a time.                                                         *)
(***************************************************************************)
Polls(e) == call[e] = "polling" /\ channels # "closed" /\ iopub # <<>>

\* Mutant: parent_header is not looked at.
NeverStale(m, e) == FALSE

\* A message of another request - one that has timed out - is skipped.
IsStale(m, e) == m.parent # e

Skip(e) ==
    /\ Polls(e)
    /\ IsStale(Head(iopub), e)
    /\ iopub' = Tail(iopub)
    /\ UNCHANGED <<handlerVars, channels, shell, cell, kernel, printed, outcome>>

Gather(e) ==
    LET m == Head(iopub)
    IN  /\ Polls(e)
        /\ ~IsStale(m, e)
        /\ m.type # "idle"
        /\ iopub' = Tail(iopub)
        /\ buf' = IF m.type = "stream" THEN [buf EXCEPT ![e].streams = Append(@, m.parent)]
                                       ELSE [buf EXCEPT ![e].error = TRUE]
        /\ UNCHANGED <<call, result, lockQueue, channels, shell, cell, kernel, printed,
                       outcome, audit>>

\* The kernel is idle again: the cell is over.
SeeIdle(e) ==
    LET m == Head(iopub)
    IN  /\ Polls(e)
        /\ ~IsStale(m, e)
        /\ m.type = "idle"
        /\ iopub' = Tail(iopub)
        /\ Returns(e, IF buf[e].error THEN "error" ELSE "ok")
        /\ UNCHANGED <<buf, channels, shell, cell, kernel, printed, outcome, audit>>

\* Mutant: exit_reason keeps its initial value.
TimeOutAsOk(e) ==
    /\ call[e] = "polling"
    /\ "timeout" \in Hazards
    /\ Returns(e, "ok")
    /\ UNCHANGED <<buf, channels, audit, kernelVars>>

\* Mutant: the deadline is looked at only when a message has come.
TimeOutOnMessage(e) ==
    /\ call[e] = "polling"
    /\ iopub # <<>>
    /\ "timeout" \in Hazards
    /\ Returns(e, "timeout")
    /\ UNCHANGED <<buf, channels, audit, kernelVars>>

\* The deadline has passed.  The kernel is not interrupted.
TimeOut(e) ==
    /\ call[e] = "polling"
    /\ "timeout" \in Hazards
    /\ Returns(e, "timeout")
    /\ UNCHANGED <<buf, channels, audit, kernelVars>>

\* Receiving from a channel that has been stopped raises.
ReceiveFails(e) ==
    /\ call[e] = "polling"
    /\ channels # "open"
    /\ Returns(e, "kernel_dead")
    /\ UNCHANGED <<buf, channels, audit, kernelVars>>

-----------------------------------------------------------------------------
(***************************************************************************)
(* The kernel (external).  It runs its requests one after another, sends   *)
(* what the cell prints, the error that ends it if any, and then "idle".   *)
(***************************************************************************)
\* Mutant: the message has no parent.
MessageWithoutParent(type) == [parent |-> None, type |-> type]

Message(type) == [parent |-> cell, type |-> type]

RunNext ==
    /\ kernel = "alive"
    /\ cell = None
    /\ shell # <<>>
    /\ cell' = Head(shell)
    /\ shell' = Tail(shell)
    /\ UNCHANGED <<handlerVars, channels, kernel, iopub, printed, outcome>>

CellPrints ==
    /\ kernel = "alive"
    /\ cell # None
    /\ printed[cell] < MaxOutput
    /\ printed' = [printed EXCEPT ![cell] = @ + 1]
    /\ iopub' = Append(iopub, Message("stream"))
    /\ UNCHANGED <<handlerVars, channels, shell, cell, kernel, outcome>>

CellEnds ==
    /\ kernel = "alive"
    /\ cell # None
    /\ \/ /\ outcome' = [outcome EXCEPT ![cell] = "ok"]
          /\ iopub' = Append(iopub, Message("idle"))
       \/ /\ outcome' = [outcome EXCEPT ![cell] = "error"]
          /\ iopub' = iopub \o <<Message("error"), Message("idle")>>
    /\ cell' = None
    /\ UNCHANGED <<handlerVars, channels, shell, kernel, printed>>

\* The cell has exhausted the container's memory, or made the kernel exit.
KernelDies ==
    /\ "death" \in Hazards
    /\ kernel = "alive"
    /\ cell # None
    /\ kernel' = "dead"
    /\ UNCHANGED <<handlerVars, channels, shell, cell, iopub, printed, outcome>>

-----------------------------------------------------------------------------
(***************************************************************************)
(* destroy() of the session.  It does not take exec_lock.                  *)
(***************************************************************************)
CloseBegins ==
    /\ "destroy" \in Hazards
    /\ channels = "open"
    /\ channels' = "stopping"
    /\ UNCHANGED <<handlerVars, kernelVars>>

\* close() returns, and the container is removed.
Closed ==
    /\ channels = "stopping"
    /\ channels' = "closed"
    /\ kernel' = "dead"
    /\ UNCHANGED <<handlerVars, shell, cell, iopub, printed, outcome>>

-----------------------------------------------------------------------------
Init ==
    /\ call = [e \in Execs |-> "unborn"]
    /\ result = [e \in Execs |-> "none"]
    /\ buf = [e \in Execs |-> [streams |-> <<>>, error |-> FALSE]]
    /\ lockQueue = <<>>
    /\ channels = "open"
    /\ shell = <<>>
    /\ cell = None
    /\ kernel = "alive"
    /\ iopub = <<>>
    /\ printed = [e \in Execs |-> 0]
    /\ outcome = [e \in Execs |-> "none"]
    /\ audit = <<>>

Poll(e) == Skip(e) \/ Gather(e) \/ SeeIdle(e) \/ TimeOut(e) \/ ReceiveFails(e)

CallStep(e) == Submit(e) \/ SubmitFails(e) \/ Poll(e) \/ Answer(e)

KernelStep == RunNext \/ CellPrints \/ CellEnds \/ KernelDies

\* Every client has its answer and the kernel has nothing to do.
Quiet ==
    /\ \A e \in Execs : call[e] = "answered"
    /\ UNCHANGED vars

Next ==
    \/ \E e \in Execs : Arrive(e) \/ CallStep(e)
    \/ KernelStep
    \/ CloseBegins \/ Closed
    \/ Quiet

Spec == Init /\ [][Next]_vars

\* Threads and coroutines run, and deadlines pass.  Nothing makes a cell end.
FairSpec == Spec /\ \A e \in Execs : WF_vars(CallStep(e))

-----------------------------------------------------------------------------
(***************************************************************************)
(* Safety.                                                                 *)
(***************************************************************************)
\* What a call returns is its own cell's: output that the cell of a call that
\* timed out still sends never shows up in the result of a later call.
OwnOutput ==
    \A e \in Execs : \A i \in DOMAIN buf[e].streams : buf[e].streams[i] = e

\* A call that ends with "ok" or "error" has seen all that its cell printed,
\* and says what became of that cell.
CompleteResult ==
    \A e \in Execs : result[e] \in {"ok", "error"} =>
        /\ outcome[e] = result[e]
        /\ Len(buf[e].streams) = printed[e]

\* The lock serializes the execs on the kernel (README.md:23-24): while a call
\* polls, the kernel has no other call's cell to run - as long as no call has
\* given its cell up, after a timeout or an error on the channel.
ExclusiveUnlessAbandoned ==
    (\A e \in Execs : result[e] \notin {"timeout", "kernel_dead"}) =>
        \A e \in Execs : call[e] = "polling" =>
            /\ cell \in {None, e}
            /\ \A i \in DOMAIN shell : shell[i] = e

\* How often a call is in the audit log.
RowsOf(e) == Cardinality({i \in DOMAIN audit : audit[i] = e})

\* A call whose client is told a result - also that it timed out or that the
\* kernel is dead - is audited exactly once, and no other is.
AuditedOnce ==
    \A e \in Execs :
        RowsOf(e) = IF call[e] = "answered" /\ result[e] \notin {"refused", "raised"}
                    THEN 1 ELSE 0

(***************************************************************************)
(* Liveness.                                                               *)
(***************************************************************************)
\* Every exec call is answered, whatever its cell, an earlier cell or the
\* kernel do, and whether or not the session is destroyed meanwhile.
ExecAnswered == \A e \in Execs : call[e] # "unborn" ~> call[e] = "answered"
=============================================================================
