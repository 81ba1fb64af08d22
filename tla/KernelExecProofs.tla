-------------------------- MODULE KernelExecProofs --------------------------
(***************************************************************************)
(* The safety properties of KernelExec, for any number of exec calls, any  *)
(* amount of output and whatever goes wrong.                               *)
(***************************************************************************)
EXTENDS KernelExec, FiniteSetTheorems, TLAPS

NotSubmitted(e) == call[e] \in {"unborn", "waiting"}

Undecided(e) == call[e] \in {"unborn", "waiting", "polling"}

\* The lock: nobody is in its line twice or without need, and who polls
\* holds it.
QueueInv ==
    /\ \A i, j \in DOMAIN lockQueue : lockQueue[i] = lockQueue[j] => i = j
    /\ \A i \in DOMAIN lockQueue : call[lockQueue[i]] \in {"waiting", "polling"}
    /\ \A e \in Execs : call[e] = "polling" => Holds(e)

\* A call has a result when it is through, and only a call that never polled
\* ends without an exit_reason.
ResultInv ==
    /\ \A e \in Execs : Undecided(e) => result[e] = "none"
    /\ \A e \in Execs : call[e] = "sampling" =>
          result[e] \in {"ok", "error", "timeout", "kernel_dead"}

\* A request is made once, and its cell runs once.
RequestInv ==
    /\ \A e \in Execs : NotSubmitted(e) => outcome[e] = "none"
    /\ \A i, j \in DOMAIN shell : shell[i] = shell[j] => i = j
    /\ \A i \in DOMAIN shell :
          /\ ~NotSubmitted(shell[i])
          /\ outcome[shell[i]] = "none"
          /\ shell[i] # cell
    /\ cell # None => ~NotSubmitted(cell) /\ outcome[cell] = "none"

\* "idle" is the last message that a cell causes.
ChannelInv ==
    /\ \A i \in DOMAIN iopub : ~NotSubmitted(iopub[i].parent)
    /\ \A i \in DOMAIN iopub : iopub[i].type = "idle" => outcome[iopub[i].parent] # "none"
    /\ \A i, j \in DOMAIN iopub :
          i < j /\ iopub[i].type = "idle" => iopub[j].parent # iopub[i].parent

NoneAbandoned == \A e \in Execs : result[e] \notin {"timeout", "kernel_dead"}

\* As long as no call has given its cell up, the kernel serves who polls.
ServesCaller ==
    NoneAbandoned =>
        /\ cell # None => call[cell] = "polling"
        /\ \A i \in DOMAIN shell : call[shell[i]] = "polling"

AuditInv ==
    /\ \A i, j \in DOMAIN audit : audit[i] = audit[j] => i = j
    /\ \A e \in Execs :
          (\E i \in DOMAIN audit : audit[i] = e) <=>
              call[e] = "answered" /\ result[e] \notin {"refused", "raised"}

\* What the cell of e has printed is in the caller's buffer or on its way.
Streams(q, e) == {i \in DOMAIN q : q[i].parent = e /\ q[i].type = "stream"}

ErrorIn(q, e) == \E i \in DOMAIN q : q[i].parent = e /\ q[i].type = "error"

GatherInv ==
    \A e \in Execs : Undecided(e) =>
        /\ Len(buf[e].streams) + Cardinality(Streams(iopub, e)) = printed[e]
        /\ outcome[e] = "error" <=> buf[e].error \/ ErrorIn(iopub, e)

LineInv == TypeOK /\ QueueInv /\ ResultInv

-----------------------------------------------------------------------------
(***************************************************************************)
(* Sending a message adds it to those of its parent, and receiving it takes*)
(* it from them.                                                           *)
(***************************************************************************)
\* The messages on a channel are finitely many.
LEMMA StreamsFinite ==
  ASSUME NEW q \in Seq(Messages), NEW e
  PROVE  /\ IsFiniteSet(Streams(q, e))
         /\ Cardinality(Streams(q, e)) \in Nat
  <1>1. IsFiniteSet(1 .. Len(q))
        BY FS_Interval
  <1>2. Streams(q, e) \subseteq 1 .. Len(q)
        BY DEF Streams
  <1>3. QED
        BY <1>1, <1>2, FS_Subset, FS_CardinalityType

\* Append on a channel.
LEMMA StreamsAppend ==
  ASSUME NEW q \in Seq(Messages), NEW m \in Messages, NEW e
  PROVE  Cardinality(Streams(Append(q, m), e)) =
            Cardinality(Streams(q, e))
              + (IF m.parent = e /\ m.type = "stream" THEN 1 ELSE 0)
  <1>1. CASE m.parent = e /\ m.type = "stream"
    <2>1. Streams(Append(q, m), e) = Streams(q, e) \cup {Len(q) + 1}
          BY <1>1 DEF Streams
    <2>2. Len(q) + 1 \notin Streams(q, e)
          BY DEF Streams
    <2>3. QED
          BY <1>1, <2>1, <2>2, StreamsFinite, FS_AddElement
  <1>2. CASE ~(m.parent = e /\ m.type = "stream")
    <2>1. Streams(Append(q, m), e) = Streams(q, e)
          BY <1>2 DEF Streams
    <2>2. QED
          BY <1>2, <2>1, StreamsFinite
  <1>3. QED
        BY <1>1, <1>2

\* Tail on a channel.
LEMMA StreamsTail ==
  ASSUME NEW q \in Seq(Messages), q # <<>>, NEW e
  PROVE  Cardinality(Streams(q, e)) =
            Cardinality(Streams(Tail(q), e))
              + (IF Head(q).parent = e /\ Head(q).type = "stream" THEN 1 ELSE 0)
  <1> DEFINE Rest == Streams(q, e) \ {1}
             Shift == [i \in Streams(Tail(q), e) |-> i + 1]
  <1>1. Tail(q) \in Seq(Messages)
        OBVIOUS
  <1>2. Shift \in Bijection(Streams(Tail(q), e), Rest)
    <2>1. \A i \in Streams(Tail(q), e) : i \in Nat /\ Shift[i] = i + 1 /\ i + 1 \in Rest
          BY <1>1 DEF Streams
    <2>2. \A j \in Rest : j - 1 \in Streams(Tail(q), e)
          BY <1>1 DEF Streams
    <2>3. \A j \in Rest : j \in Nat
          BY DEF Streams
    <2>4. Shift \in [Streams(Tail(q), e) -> Rest]
          BY <2>1
    <2>5. \A a, b \in Streams(Tail(q), e) : Shift[a] = Shift[b] => a = b
          BY <2>1
    <2>6. \A j \in Rest : \E i \in Streams(Tail(q), e) : Shift[i] = j
          BY <2>1, <2>2, <2>3
    <2>7. QED
          BY <2>4, <2>5, <2>6 DEF Bijection, Injection, Surjection, IsInjective
  <1>3. /\ IsFiniteSet(Streams(Tail(q), e))
        /\ IsFiniteSet(Streams(q, e))
        /\ Cardinality(Streams(Tail(q), e)) \in Nat
        /\ Cardinality(Streams(q, e)) \in Nat
        BY <1>1, StreamsFinite
  <1>4. ExistsBijection(Streams(Tail(q), e), Rest)
        BY <1>2 DEF ExistsBijection
  <1> HIDE DEF Rest
  <1>5. Cardinality(Rest) = Cardinality(Streams(Tail(q), e))
        BY <1>3, <1>4, FS_Bijection
  <1>6. Cardinality(Rest) = IF 1 \in Streams(q, e) THEN Cardinality(Streams(q, e)) - 1
                                                   ELSE Cardinality(Streams(q, e))
        BY <1>3, FS_RemoveElement DEF Rest
  <1>7. 1 \in Streams(q, e) <=> Head(q).parent = e /\ Head(q).type = "stream"
        BY DEF Streams
  <1>8. QED
        BY <1>3, <1>5, <1>6, <1>7

-----------------------------------------------------------------------------
\* At first no call has been made.
LEMMA LineInit == Init => LineInv
  BY ExecEnvironment DEF Init, LineInv, TypeOK, QueueInv, ResultInv, Undecided,
     CallPc, ExitReasons

\* Nothing but these steps concerns the line.
LEMMA LineSteps ==
  ASSUME [Next]_vars
  PROVE  \/ \E e \in Execs : Arrive(e) \/ Submit(e) \/ SubmitFails(e) \/ Answer(e)
         \/ \E e \in Execs, reason \in {"ok", "error", "timeout", "kernel_dead"} :
               call[e] = "polling" /\ Returns(e, reason)
         \/ UNCHANGED <<call, result, lockQueue>>
  <1>1. CASE \E e \in Execs : SeeIdle(e)
        BY <1>1 DEF SeeIdle, Polls
  <1>2. CASE \E e \in Execs : TimeOut(e) \/ ReceiveFails(e)
        BY <1>2 DEF TimeOut, ReceiveFails
  <1>3. CASE \E e \in Execs : Skip(e) \/ Gather(e)
        BY <1>3 DEF Skip, Gather, handlerVars
  <1>4. CASE KernelStep \/ CloseBegins \/ Closed
        BY <1>4 DEF KernelStep, RunNext, CellPrints, CellEnds, KernelDies, CloseBegins,
                    Closed, handlerVars
  <1>5. CASE UNCHANGED vars
        BY <1>5 DEF vars
  <1>6. QED
        BY <1>1, <1>2, <1>3, <1>4, <1>5 DEF Next, CallStep, Poll, Quiet

\* The line and the results, for every step.
LEMMA QueueNext == LineInv /\ [Next]_vars => QueueInv' /\ ResultInv'
  <1> SUFFICES ASSUME LineInv, [Next]_vars
               PROVE  QueueInv' /\ ResultInv'
      OBVIOUS
  <1>t. /\ call \in [Execs -> CallPc]
        /\ result \in [Execs -> ExitReasons]
        /\ lockQueue \in Seq(Execs)
        /\ QueueInv
        /\ ResultInv
        BY DEF LineInv, TypeOK
  <1>1. ASSUME NEW e \in Execs, Arrive(e)
        PROVE  QueueInv' /\ ResultInv'
    <2>1. QueueInv'
      <3>1. CASE /\ call' = [call EXCEPT ![e] = "waiting"]
                 /\ lockQueue' = Append(lockQueue, e)
        <4>1. \A i \in DOMAIN lockQueue : lockQueue[i] # e
              BY <1>t, <1>1 DEF Arrive, QueueInv
        <4>2. /\ DOMAIN lockQueue' = 1 .. Len(lockQueue) + 1
              /\ \A i \in DOMAIN lockQueue : lockQueue'[i] = lockQueue[i]
              /\ lockQueue'[Len(lockQueue) + 1] = e
              /\ lockQueue # <<>> => Head(lockQueue') = Head(lockQueue)
              /\ lockQueue' # <<>>
              BY <1>t, <3>1
        <4>3. QED
              BY <1>t, <3>1, <4>1, <4>2 DEF QueueInv, Holds
      <3>2. CASE call' = [call EXCEPT ![e] = "answered"] /\ UNCHANGED lockQueue
            BY <1>t, <1>1, <3>2 DEF Arrive, QueueInv, Holds
      <3>3. QED
            BY <1>1, <3>1, <3>2 DEF Arrive
    <2>2. ResultInv'
          BY <1>t, <1>1 DEF Arrive, ResultInv, Undecided, CallPc
    <2>3. QED
          BY <2>1, <2>2
  <1>2. ASSUME NEW e \in Execs, Submit(e)
        PROVE  QueueInv' /\ ResultInv'
    <2>1. QueueInv'
          BY <1>t, <1>2 DEF Submit, QueueInv, Holds, CallPc
    <2>2. ResultInv'
          BY <1>t, <1>2 DEF Submit, ResultInv, Undecided, CallPc
    <2>3. QED
          BY <2>1, <2>2
  <1>3. ASSUME NEW e \in Execs, SubmitFails(e)
        PROVE  QueueInv' /\ ResultInv'
    <2>1. QueueInv'
          BY <1>t, <1>3 DEF SubmitFails, QueueInv, Holds, CallPc
    <2>2. ResultInv'
          BY <1>t, <1>3 DEF SubmitFails, ResultInv, Undecided, CallPc
    <2>3. QED
          BY <2>1, <2>2
  <1>4. ASSUME NEW e \in Execs, NEW reason \in {"ok", "error", "timeout", "kernel_dead"},
               call[e] = "polling", Returns(e, reason)
        PROVE  QueueInv' /\ ResultInv'
    <2>1. Holds(e)
          BY <1>t, <1>4 DEF QueueInv
    <2>2. QueueInv'
          BY <1>t, <1>4, <2>1 DEF Returns, QueueInv, Holds, CallPc
    <2>3. ResultInv'
          BY <1>t, <1>4 DEF Returns, ResultInv, Undecided, CallPc
    <2>4. QED
          BY <2>2, <2>3
  <1>5. ASSUME NEW e \in Execs, Answer(e)
        PROVE  QueueInv' /\ ResultInv'
    <2>1. QueueInv'
          BY <1>t, <1>5 DEF Answer, QueueInv, Holds, CallPc
    <2>2. ResultInv'
          BY <1>t, <1>5 DEF Answer, ResultInv, Undecided, CallPc
    <2>3. QED
          BY <2>1, <2>2
  <1>6. CASE UNCHANGED <<call, result, lockQueue>>
        BY <1>t, <1>6 DEF QueueInv, ResultInv, Undecided, Holds
  <1>7. QED
        BY <1>1, <1>2, <1>3, <1>4, <1>5, <1>6, LineSteps

\* What a step does to the calls.
LEMMA CallTypes ==
  LineInv /\ [Next]_vars =>
      /\ call' \in [Execs -> CallPc]
      /\ result' \in [Execs -> ExitReasons]
      /\ lockQueue' \in Seq(Execs)
  <1> SUFFICES ASSUME LineInv, [Next]_vars
               PROVE  /\ call' \in [Execs -> CallPc]
                      /\ result' \in [Execs -> ExitReasons]
                      /\ lockQueue' \in Seq(Execs)
      OBVIOUS
  <1>t. /\ call \in [Execs -> CallPc]
        /\ result \in [Execs -> ExitReasons]
        /\ lockQueue \in Seq(Execs)
        /\ QueueInv
        BY DEF LineInv, TypeOK
  <1>1. ASSUME NEW e \in Execs, Arrive(e) \/ Submit(e) \/ SubmitFails(e) \/ Answer(e)
        PROVE  /\ call' \in [Execs -> CallPc]
               /\ result' \in [Execs -> ExitReasons]
               /\ lockQueue' \in Seq(Execs)
    <2>1. CASE Arrive(e)
          BY <1>t, <2>1 DEF Arrive, CallPc, ExitReasons
    <2>2. CASE Submit(e) \/ Answer(e)
          BY <1>t, <2>2 DEF Submit, Answer, CallPc
    <2>3. CASE SubmitFails(e)
          BY <1>t, <2>3 DEF SubmitFails, Holds, CallPc, ExitReasons
    <2>4. QED
          BY <1>1, <2>1, <2>2, <2>3
  <1>2. ASSUME NEW e \in Execs, NEW reason \in {"ok", "error", "timeout", "kernel_dead"},
               call[e] = "polling", Returns(e, reason)
        PROVE  /\ call' \in [Execs -> CallPc]
               /\ result' \in [Execs -> ExitReasons]
               /\ lockQueue' \in Seq(Execs)
        BY <1>t, <1>2 DEF Returns, QueueInv, Holds, CallPc, ExitReasons
  <1>3. QED
        BY <1>t, <1>1, <1>2, LineSteps

\* Types, for every step.
LEMMA TypeNext == LineInv /\ [Next]_vars => TypeOK'
  <1> SUFFICES ASSUME LineInv, [Next]_vars
               PROVE  TypeOK'
      OBVIOUS
  <1>c. /\ call' \in [Execs -> CallPc]
        /\ result' \in [Execs -> ExitReasons]
        /\ lockQueue' \in Seq(Execs)
        BY CallTypes
  <1>t. TypeOK
        BY DEF LineInv
  <1>1. CASE \E e \in Execs : Arrive(e) \/ SubmitFails(e) \/ TimeOut(e) \/ ReceiveFails(e)
        BY <1>1, <1>c, <1>t DEF TypeOK, Arrive, SubmitFails, TimeOut, ReceiveFails, kernelVars
  <1>2. CASE \E e \in Execs : Submit(e)
        BY <1>2, <1>c, <1>t DEF TypeOK, Submit
  <1>3. CASE \E e \in Execs : Answer(e)
        BY <1>3, <1>c, <1>t DEF TypeOK, Answer, kernelVars
  <1>4. CASE \E e \in Execs : Skip(e) \/ SeeIdle(e)
    <2>1. iopub' \in Seq(Messages)
      <3>1. iopub \in Seq(Messages) /\ iopub # <<>>
            BY <1>4, <1>t DEF TypeOK, Skip, SeeIdle, Polls
      <3>2. iopub' = Tail(iopub)
            BY <1>4 DEF Skip, SeeIdle
      <3>3. QED
            BY <3>1, <3>2
    <2>2. UNCHANGED <<buf, channels, shell, cell, kernel, printed, outcome, audit>>
          BY <1>4 DEF Skip, SeeIdle, handlerVars
    <2>3. QED
          BY <1>c, <1>t, <2>1, <2>2 DEF TypeOK
  <1>5. ASSUME NEW e \in Execs, Gather(e)
        PROVE  TypeOK'
    <2>1. Head(iopub) \in Messages /\ Tail(iopub) \in Seq(Messages)
          BY <1>5, <1>t DEF Gather, Polls, TypeOK
    <2>2. Head(iopub).parent \in Execs
          BY <2>1 DEF Messages
    <2>3. buf' \in [Execs -> [streams : Seq(Execs), error : BOOLEAN]]
      <3>1. /\ buf[e].streams \in Seq(Execs)
            /\ Append(buf[e].streams, Head(iopub).parent) \in Seq(Execs)
            BY <1>t, <2>2 DEF TypeOK
      <3>2. CASE buf' = [buf EXCEPT ![e].streams = Append(@, Head(iopub).parent)]
            BY <1>t, <3>1, <3>2 DEF TypeOK
      <3>3. CASE buf' = [buf EXCEPT ![e].error = TRUE]
            BY <1>t, <3>3 DEF TypeOK
      <3>4. QED
            BY <1>5, <3>2, <3>3 DEF Gather
    <2>4. QED
          BY <1>5, <1>c, <1>t, <2>1, <2>3 DEF TypeOK, Gather
  <1>6. CASE RunNext \/ CellPrints \/ KernelDies
    <2>1. CASE RunNext
      <3>1. Head(shell) \in Execs /\ Tail(shell) \in Seq(Execs)
            BY <1>t, <2>1 DEF TypeOK, RunNext
      <3>2. QED
            BY <2>1, <3>1, <1>c, <1>t DEF TypeOK, RunNext, handlerVars
    <2>2. CASE CellPrints
      <3>1. Message("stream") \in Messages
            BY <1>t, <2>2 DEF TypeOK, CellPrints, Message, Messages
      <3>2. iopub' \in Seq(Messages)
            BY <1>t, <2>2, <3>1 DEF TypeOK, CellPrints
      <3>3. printed' \in [Execs -> 0 .. MaxOutput]
            BY <1>t, <2>2, ExecEnvironment DEF TypeOK, CellPrints
      <3>4. QED
            BY <2>2, <3>2, <3>3, <1>c, <1>t DEF TypeOK, CellPrints, handlerVars
    <2>3. CASE KernelDies
          BY <2>3, <1>c, <1>t DEF TypeOK, KernelDies, handlerVars
    <2>4. QED
          BY <1>6, <2>1, <2>2, <2>3
  <1>7. CASE CellEnds
    <2>1. Message("error") \in Messages /\ Message("idle") \in Messages
          BY <1>7, <1>t DEF CellEnds, Message, Messages, TypeOK
    <2>2. iopub' \in Seq(Messages)
      <3>1. iopub \in Seq(Messages)
            BY <1>t DEF TypeOK
      <3>2. iopub \o <<Message("error"), Message("idle")>> \in Seq(Messages)
            BY <2>1, <3>1
      <3>3. Append(iopub, Message("idle")) \in Seq(Messages)
            BY <2>1, <3>1
      <3>4. QED
            BY <1>7, <3>2, <3>3 DEF CellEnds
    <2>3. QED
          BY <1>7, <1>c, <1>t, <2>2 DEF TypeOK, CellEnds, handlerVars
  <1>8. CASE CloseBegins \/ Closed
        BY <1>8, <1>c, <1>t DEF TypeOK, CloseBegins, Closed, handlerVars, kernelVars
  <1>9. CASE UNCHANGED vars
        BY <1>9, <1>t DEF TypeOK, vars
  <1>10. QED
        BY <1>1, <1>2, <1>3, <1>4, <1>5, <1>6, <1>7, <1>8, <1>9
        DEF Next, CallStep, Poll, KernelStep, Quiet

\* However calls and kernel interleave, at most one call holds exec_lock, those
\* that wait for it are in line, and results are those of calls that ended
\* (exec.py:46-52).
THEOREM LineInvariance == Spec => []LineInv
  <1>1. LineInv /\ [Next]_vars => LineInv'
        BY QueueNext, TypeNext DEF LineInv
  <1>2. QED
        BY LineInit, <1>1, PTL DEF Spec

\* Calls, requests and messages keep their types (exec.py:30-81).
THEOREM ExecTypeCorrect == Spec => []TypeOK
  BY LineInvariance, PTL DEF LineInv

-----------------------------------------------------------------------------
KernelInv == RequestInv /\ ChannelInv

\* No call goes back to before its request.
LEMMA Forward ==
  ASSUME LineInv, [Next]_vars, NEW e \in Execs, NotSubmitted(e)'
  PROVE  NotSubmitted(e)
  <1>t. call \in [Execs -> CallPc]
        BY DEF LineInv, TypeOK
  <1>1. CASE \E f \in Execs : Arrive(f) \/ Submit(f) \/ SubmitFails(f) \/ Answer(f)
        BY <1>t, <1>1 DEF Arrive, Submit, SubmitFails, Answer, NotSubmitted
  <1>2. CASE \E f \in Execs, reason \in {"ok", "error", "timeout", "kernel_dead"} :
                call[f] = "polling" /\ Returns(f, reason)
        BY <1>t, <1>2 DEF Returns, NotSubmitted
  <1>3. CASE UNCHANGED call
        BY <1>3 DEF NotSubmitted
  <1>4. QED
        BY <1>1, <1>2, <1>3, LineSteps

\* What a step does to the kernel and its channels.
LEMMA KernelSteps ==
  ASSUME [Next]_vars
  PROVE  \/ \E e \in Execs : Submit(e)
         \/ \E e \in Execs : Polls(e) /\ (Skip(e) \/ Gather(e) \/ SeeIdle(e))
         \/ RunNext \/ CellPrints \/ CellEnds
         \/ UNCHANGED <<shell, cell, iopub, printed, outcome>>
  <1>1. CASE \E e \in Execs : Arrive(e) \/ SubmitFails(e) \/ TimeOut(e) \/ ReceiveFails(e)
                               \/ Answer(e)
        BY <1>1 DEF Arrive, SubmitFails, TimeOut, ReceiveFails, Answer, kernelVars
  <1>2. CASE \E e \in Execs : Skip(e) \/ Gather(e) \/ SeeIdle(e)
        BY <1>2 DEF Skip, Gather, SeeIdle
  <1>3. CASE KernelDies \/ CloseBegins \/ Closed
        BY <1>3 DEF KernelDies, CloseBegins, Closed, kernelVars
  <1>4. CASE UNCHANGED vars
        BY <1>4 DEF vars
  <1>5. QED
        BY <1>1, <1>2, <1>3, <1>4 DEF Next, CallStep, Poll, KernelStep, Quiet

\* Requests and messages, for every step.
LEMMA KernelNext == LineInv /\ KernelInv /\ [Next]_vars => KernelInv'
  <1> SUFFICES ASSUME LineInv, KernelInv, [Next]_vars
               PROVE  KernelInv'
      OBVIOUS
  <1>t. /\ call \in [Execs -> CallPc]
        /\ shell \in Seq(Execs)
        /\ cell \in Execs \cup {None}
        /\ iopub \in Seq(Messages)
        /\ outcome \in [Execs -> {"none", "ok", "error"}]
        /\ RequestInv
        /\ ChannelInv
        BY DEF LineInv, TypeOK, KernelInv
  <1>m. \A m \in Messages : m.parent \in Execs
        BY DEF Messages
  <1>f. \A e \in Execs : NotSubmitted(e)' => NotSubmitted(e)
        BY Forward
  <1>1. ASSUME NEW e \in Execs, Submit(e)
        PROVE  KernelInv'
    <2>1. NotSubmitted(e) /\ ~NotSubmitted(e)'
          BY <1>t, <1>1 DEF Submit, NotSubmitted
    <2>2. RequestInv'
      <3>1. \A i \in DOMAIN shell : shell[i] # e
            BY <1>t, <2>1 DEF RequestInv
      <3>2. /\ DOMAIN shell' = 1 .. Len(shell) + 1
            /\ \A i \in DOMAIN shell : shell'[i] = shell[i]
            /\ shell'[Len(shell) + 1] = e
            BY <1>t, <1>1 DEF Submit
      <3>3. e # cell /\ outcome[e] = "none"
            BY <1>t, <2>1, ExecEnvironment DEF RequestInv
      <3>4. UNCHANGED <<cell, outcome>>
            BY <1>1 DEF Submit
      <3>5. \A i \in DOMAIN shell : shell[i] \in Execs
            BY <1>t
      <3>6. \A i \in DOMAIN shell' : shell'[i] \in Execs
            BY <1>t, <3>2, <3>5
      <3>7. \A i, j \in DOMAIN shell' : shell'[i] = shell'[j] => i = j
            BY <1>t, <3>1, <3>2 DEF RequestInv
      <3>8. ASSUME NEW i \in DOMAIN shell'
            PROVE  /\ ~NotSubmitted(shell[i])'
                   /\ outcome'[shell'[i]] = "none"
                   /\ shell'[i] # cell'
        <4>1. CASE i \in DOMAIN shell
              BY <1>t, <1>f, <3>2, <3>4, <3>5, <4>1 DEF RequestInv, NotSubmitted
        <4>2. CASE i = Len(shell) + 1
              BY <2>1, <3>2, <3>3, <3>4, <4>2 DEF NotSubmitted
        <4>3. QED
              BY <1>t, <3>2, <4>1, <4>2
      <3>9. cell' # None => ~NotSubmitted(cell)' /\ outcome'[cell'] = "none"
            BY <1>t, <1>f, <3>4 DEF RequestInv, NotSubmitted
      <3>10. \A f \in Execs : NotSubmitted(f)' => outcome'[f] = "none"
            BY <1>t, <1>f, <3>4 DEF RequestInv
      <3>11. QED
            BY <3>7, <3>8, <3>9, <3>10 DEF RequestInv
    <2>3. ChannelInv'
      <3>1. UNCHANGED <<iopub, outcome>>
            BY <1>1 DEF Submit
      <3>2. \A i \in DOMAIN iopub : iopub[i].parent \in Execs
            BY <1>t, <1>m
      <3>3. QED
            BY <1>t, <1>f, <3>1, <3>2 DEF ChannelInv
    <2>4. QED
          BY <2>2, <2>3 DEF KernelInv
  <1>2. ASSUME NEW e \in Execs, Polls(e), Skip(e) \/ Gather(e) \/ SeeIdle(e)
        PROVE  KernelInv'
    <2>1. /\ iopub' = Tail(iopub)
          /\ UNCHANGED <<shell, cell, outcome>>
          BY <1>2 DEF Skip, Gather, SeeIdle
    <2>2. iopub # <<>>
          BY <1>2 DEF Polls
    <2>3. RequestInv'
      <3>1. \A i \in DOMAIN shell : shell[i] \in Execs
            BY <1>t
      <3>2. QED
            BY <1>t, <1>f, <2>1, <3>1 DEF RequestInv
    <2>4. ChannelInv'
      <3>1. \A i \in DOMAIN iopub' : i + 1 \in DOMAIN iopub /\ iopub'[i] = iopub[i + 1]
            BY <1>t, <2>1, <2>2
      <3>2. \A i \in DOMAIN iopub : iopub[i].parent \in Execs
            BY <1>t, <1>m
      <3>3. \A i \in DOMAIN iopub' : i \in Nat
            BY <1>t, <2>1, <2>2
      <3>4. QED
            BY <1>t, <1>f, <2>1, <3>1, <3>2, <3>3 DEF ChannelInv
    <2>5. QED
          BY <2>3, <2>4 DEF KernelInv
  <1>3. CASE RunNext
    <2>1. /\ shell # <<>>
          /\ cell = None
          /\ cell' = Head(shell)
          /\ shell' = Tail(shell)
          /\ UNCHANGED <<outcome, iopub>>
          BY <1>3 DEF RunNext
    <2>2. RequestInv'
      <3>1. \A i \in DOMAIN shell' :
               i + 1 \in DOMAIN shell /\ i + 1 # 1 /\ shell'[i] = shell[i + 1]
            BY <1>t, <2>1
      <3>2. 1 \in DOMAIN shell /\ cell' = shell[1]
            BY <1>t, <2>1
      <3>3. \A i \in DOMAIN shell : shell[i] \in Execs
            BY <1>t
      <3>4. \A i \in DOMAIN shell' : i \in Nat
            BY <1>t, <2>1
      <3>5. QED
            BY <1>t, <1>f, <2>1, <3>1, <3>2, <3>3, <3>4 DEF RequestInv
    <2>3. ChannelInv'
      <3>1. \A i \in DOMAIN iopub : iopub[i].parent \in Execs
            BY <1>t, <1>m
      <3>2. QED
            BY <1>t, <1>f, <2>1, <3>1 DEF ChannelInv
    <2>4. QED
          BY <2>2, <2>3 DEF KernelInv
  <1>4. CASE CellPrints
    <2>1. /\ cell # None
          /\ iopub' = Append(iopub, Message("stream"))
          /\ UNCHANGED <<shell, cell, outcome>>
          BY <1>4 DEF CellPrints, handlerVars
    <2>2. RequestInv'
      <3>1. \A i \in DOMAIN shell : shell[i] \in Execs
            BY <1>t
      <3>2. QED
            BY <1>t, <1>f, <2>1, <3>1 DEF RequestInv
    <2>3. ChannelInv'
      <3>1. \A i \in DOMAIN iopub : iopub[i].parent \in Execs
            BY <1>t, <1>m
      <3>2. /\ DOMAIN iopub' = 1 .. Len(iopub) + 1
            /\ \A i \in DOMAIN iopub : iopub'[i] = iopub[i]
            /\ iopub'[Len(iopub) + 1] = Message("stream")
            BY <1>t, <2>1
      <3>3. /\ Message("stream").parent = cell
            /\ Message("stream").type = "stream"
            BY DEF Message
      <3>4. ~NotSubmitted(cell) /\ outcome[cell] = "none"
            BY <1>t, <2>1 DEF RequestInv
      <3>5. QED
            BY <1>t, <1>f, <2>1, <3>1, <3>2, <3>3, <3>4 DEF ChannelInv
    <2>4. QED
          BY <2>2, <2>3 DEF KernelInv
  <1>5. CASE CellEnds
    <2>1. PICK how \in {"ok", "error"} :
             /\ cell # None
             /\ cell' = None
             /\ outcome' = [outcome EXCEPT ![cell] = how]
             /\ iopub' = IF how = "ok" THEN Append(iopub, Message("idle"))
                         ELSE iopub \o <<Message("error"), Message("idle")>>
             /\ UNCHANGED <<shell, call>>
          BY <1>5 DEF CellEnds, handlerVars
    <2>2. cell \in Execs /\ ~NotSubmitted(cell) /\ outcome[cell] = "none"
          BY <1>t, <2>1 DEF RequestInv
    <2>3. RequestInv'
      <3>1. \A i \in DOMAIN shell : shell[i] \in Execs
            BY <1>t
      <3>2. QED
            BY <1>t, <1>f, <2>1, <2>2, <3>1, ExecEnvironment DEF RequestInv
    <2>4. ChannelInv'
      <3>1. \A i \in DOMAIN iopub : /\ iopub[i].parent \in Execs
                                    /\ iopub[i].parent # cell \/ iopub[i].type # "idle"
            BY <1>t, <1>m, <2>2 DEF ChannelInv
      <3>2. /\ Message("idle").parent = cell
            /\ Message("idle").type = "idle"
            /\ Message("error").parent = cell
            /\ Message("error").type = "error"
            BY DEF Message
      <3>3. CASE how = "ok"
        <4>1. /\ DOMAIN iopub' = 1 .. Len(iopub) + 1
              /\ \A i \in DOMAIN iopub : iopub'[i] = iopub[i]
              /\ iopub'[Len(iopub) + 1] = Message("idle")
              BY <1>t, <2>1, <3>3
        <4>2. QED
              BY <1>t, <1>f, <2>1, <2>2, <3>1, <3>2, <4>1 DEF ChannelInv
      <3>4. CASE how = "error"
        <4>1. /\ DOMAIN iopub' = 1 .. Len(iopub) + 2
              /\ \A i \in DOMAIN iopub : iopub'[i] = iopub[i]
              /\ iopub'[Len(iopub) + 1] = Message("error")
              /\ iopub'[Len(iopub) + 2] = Message("idle")
              BY <1>t, <2>1, <3>4
        <4>2. \A i \in DOMAIN iopub' : i \in DOMAIN iopub \/ iopub'[i].parent = cell
              BY <1>t, <3>2, <4>1
        <4>3. \A i \in DOMAIN iopub' : ~NotSubmitted(iopub[i].parent)'
              BY <1>f, <2>2, <3>1, <4>1, <4>2, <1>t DEF ChannelInv, NotSubmitted
        <4>4. \A i \in DOMAIN iopub' :
                 iopub'[i].type = "idle" => outcome'[iopub'[i].parent] # "none"
              BY <1>t, <2>1, <2>2, <3>1, <4>1, <4>2 DEF ChannelInv
        <4>5. ASSUME NEW i \in DOMAIN iopub', NEW j \in DOMAIN iopub',
                     i < j, iopub'[i].type = "idle"
              PROVE  iopub'[j].parent # iopub'[i].parent
          <5>1. i \in DOMAIN iopub
                BY <1>t, <3>2, <4>1, <4>5
          <5>2. QED
                BY <1>t, <3>1, <4>1, <4>2, <4>5, <5>1 DEF ChannelInv
        <4>6. QED
              BY <4>3, <4>4, <4>5 DEF ChannelInv
      <3>5. QED
            BY <2>1, <3>3, <3>4
    <2>5. QED
          BY <2>3, <2>4 DEF KernelInv
  <1>6. CASE UNCHANGED <<shell, cell, iopub, printed, outcome>>
    <2>1. \A i \in DOMAIN shell : shell[i] \in Execs
          BY <1>t
    <2>2. \A i \in DOMAIN iopub : iopub[i].parent \in Execs
          BY <1>t, <1>m
    <2>3. QED
          BY <1>t, <1>f, <1>6, <2>1, <2>2 DEF KernelInv, RequestInv, ChannelInv
  <1>7. QED
        BY <1>1, <1>2, <1>3, <1>4, <1>5, <1>6, KernelSteps

\* At first nothing has been sent, on either channel.
LEMMA KernelInit == Init => KernelInv
  BY DEF Init, KernelInv, RequestInv, ChannelInv, NotSubmitted

\* Each request is queued or being run once, and of each cell's messages "idle"
\* is the last on the channel (kernel_client.py:116-175).
THEOREM KernelInvariance == Spec => [](LineInv /\ KernelInv)
  <1>1. Init => LineInv /\ KernelInv
        BY LineInit, KernelInit
  <1>2. LineInv /\ KernelInv /\ [Next]_vars => (LineInv /\ KernelInv)'
        BY QueueNext, TypeNext, KernelNext DEF LineInv
  <1>3. QED
        BY <1>1, <1>2, PTL DEF Spec

-----------------------------------------------------------------------------
\* A result is not taken back.
LEMMA ResultsStay ==
  ASSUME LineInv, [Next]_vars, NEW e \in Execs, result[e] # "none"
  PROVE  result'[e] = result[e]
  <1>t. result \in [Execs -> ExitReasons] /\ ResultInv
        BY DEF LineInv, TypeOK
  <1>1. CASE \E f \in Execs : Arrive(f) \/ Submit(f) \/ SubmitFails(f) \/ Answer(f)
        BY <1>t, <1>1 DEF Arrive, Submit, SubmitFails, Answer, ResultInv, Undecided
  <1>2. CASE \E f \in Execs, reason \in {"ok", "error", "timeout", "kernel_dead"} :
                call[f] = "polling" /\ Returns(f, reason)
        BY <1>t, <1>2 DEF Returns, ResultInv, Undecided
  <1>3. CASE UNCHANGED result
        BY <1>3
  <1>4. QED
        BY <1>1, <1>2, <1>3, LineSteps

\* While nothing is given up, a call stops polling when its cell is over.
LEMMA PollsOn ==
  ASSUME LineInv, KernelInv, [Next]_vars, NoneAbandoned', NEW e \in Execs,
         call[e] = "polling", outcome[e] = "none"
  PROVE  call'[e] = "polling"
  <1>t. /\ call \in [Execs -> CallPc]
        /\ result \in [Execs -> ExitReasons]
        /\ iopub \in Seq(Messages)
        /\ ChannelInv
        BY DEF LineInv, TypeOK, KernelInv
  <1>1. CASE \E f \in Execs : Arrive(f) \/ Submit(f) \/ SubmitFails(f) \/ Answer(f)
        BY <1>t, <1>1 DEF Arrive, Submit, SubmitFails, Answer
  <1>2. CASE \E f \in Execs : TimeOut(f) \/ ReceiveFails(f)
        BY <1>t, <1>2 DEF TimeOut, ReceiveFails, Returns, NoneAbandoned
  <1>3. ASSUME NEW f \in Execs, SeeIdle(f)
        PROVE  call'[e] = "polling"
    <2>1. iopub # <<>> /\ iopub[1].type = "idle" /\ iopub[1].parent = f
          BY <1>t, <1>3 DEF SeeIdle, Polls, IsStale
    <2>2. 1 \in DOMAIN iopub
          BY <1>t, <2>1
    <2>3. outcome[f] # "none"
          BY <1>t, <2>1, <2>2 DEF ChannelInv
    <2>4. QED
          BY <1>t, <1>3, <2>3 DEF SeeIdle, Returns
  <1>4. CASE UNCHANGED call
        BY <1>4
  <1>5. CASE \E f \in Execs : Skip(f) \/ Gather(f)
        BY <1>5 DEF Skip, Gather, handlerVars
  <1>6. CASE KernelStep \/ CloseBegins \/ Closed \/ UNCHANGED vars
        BY <1>6 DEF KernelStep, RunNext, CellPrints, CellEnds, KernelDies, CloseBegins,
                    Closed, handlerVars, vars
  <1>7. QED
        BY <1>1, <1>2, <1>3, <1>4, <1>5, <1>6 DEF Next, CallStep, Poll, Quiet

\* Whom the kernel serves, for every step.
LEMMA ServesNext == LineInv /\ KernelInv /\ ServesCaller /\ [Next]_vars => ServesCaller'
  <1> SUFFICES ASSUME LineInv, KernelInv, ServesCaller, [Next]_vars, NoneAbandoned'
               PROVE  /\ cell' # None => call'[cell'] = "polling"
                      /\ \A i \in DOMAIN shell' : call'[shell'[i]] = "polling"
      BY DEF ServesCaller
  <1>t. /\ call \in [Execs -> CallPc]
        /\ shell \in Seq(Execs)
        /\ cell \in Execs \cup {None}
        /\ RequestInv
        BY DEF LineInv, TypeOK, KernelInv
  <1>n. NoneAbandoned
        BY ResultsStay DEF NoneAbandoned
  <1>p. /\ cell # None => call'[cell] = "polling"
        /\ \A i \in DOMAIN shell : call'[shell[i]] = "polling"
    <2>1. cell # None => cell \in Execs /\ call[cell] = "polling" /\ outcome[cell] = "none"
          BY <1>t, <1>n DEF ServesCaller, RequestInv
    <2>2. \A i \in DOMAIN shell :
             shell[i] \in Execs /\ call[shell[i]] = "polling" /\ outcome[shell[i]] = "none"
          BY <1>t, <1>n DEF ServesCaller, RequestInv
    <2>3. QED
          BY <2>1, <2>2, PollsOn
  <1>1. CASE \E e \in Execs : Submit(e)
    <2>1. PICK e \in Execs : /\ call' = [call EXCEPT ![e] = "polling"]
                             /\ shell' = Append(shell, e)
                             /\ cell' = cell
          BY <1>1 DEF Submit
    <2>2. /\ DOMAIN shell' = 1 .. Len(shell) + 1
          /\ \A i \in DOMAIN shell : shell'[i] = shell[i]
          /\ shell'[Len(shell) + 1] = e
          BY <1>t, <2>1
    <2>3. call'[e] = "polling"
          BY <1>t, <2>1
    <2>4. QED
          BY <1>t, <1>p, <2>1, <2>2, <2>3
  <1>2. CASE RunNext
    <2>1. shell # <<>> /\ cell' = Head(shell) /\ shell' = Tail(shell)
          BY <1>2 DEF RunNext
    <2>2. 1 \in DOMAIN shell /\ Head(shell) = shell[1]
          BY <1>t, <2>1
    <2>3. \A i \in DOMAIN shell' : i + 1 \in DOMAIN shell /\ shell'[i] = shell[i + 1]
          BY <1>t, <2>1
    <2>4. QED
          BY <1>p, <2>1, <2>2, <2>3
  <1>3. CASE CellEnds
        BY <1>3, <1>p DEF CellEnds
  <1>4. CASE UNCHANGED <<shell, cell>>
        BY <1>4, <1>p
  <1>5. QED
        BY <1>1, <1>2, <1>3, <1>4, KernelSteps DEF Skip, Gather, SeeIdle, CellPrints

\* The kernel has nobody else's cell to run while a call polls, unless a call
\* has given its cell up (README.md:23-24, kernel_client.py:118-122).
THEOREM CallsAreSerialized == Spec => []ExclusiveUnlessAbandoned
  <1> DEFINE Inv == LineInv /\ KernelInv /\ ServesCaller
  <1>1. Init => Inv
        BY LineInit, KernelInit DEF Init, ServesCaller
  <1>2. Inv /\ [Next]_vars => Inv'
        BY QueueNext, TypeNext, KernelNext, ServesNext DEF LineInv
  <1>3. Inv => ExclusiveUnlessAbandoned
    <2> SUFFICES ASSUME Inv, NoneAbandoned, NEW e \in Execs, call[e] = "polling"
                 PROVE  /\ cell \in {None, e}
                        /\ \A i \in DOMAIN shell : shell[i] = e
        BY DEF ExclusiveUnlessAbandoned, NoneAbandoned
    <2>1. \A f \in Execs : call[f] = "polling" => f = e
          BY DEF LineInv, QueueInv, Holds
    <2>2. cell \in Execs \cup {None} /\ shell \in Seq(Execs)
          BY DEF LineInv, TypeOK
    <2>3. QED
          BY <2>1, <2>2 DEF ServesCaller
  <1>4. QED
        BY <1>1, <1>2, <1>3, PTL DEF Spec

-----------------------------------------------------------------------------
\* The audit events, for every step.
LEMMA AuditNext == LineInv /\ AuditInv /\ [Next]_vars => AuditInv'
  <1> SUFFICES ASSUME LineInv, AuditInv, [Next]_vars
               PROVE  AuditInv'
      OBVIOUS
  <1>t. /\ call \in [Execs -> CallPc]
        /\ result \in [Execs -> ExitReasons]
        /\ audit \in Seq(Execs)
        /\ ResultInv
        BY DEF LineInv, TypeOK
  <1>1. ASSUME NEW e \in Execs, Answer(e)
        PROVE  AuditInv'
    <2>1. /\ call[e] = "sampling"
          /\ call' = [call EXCEPT ![e] = "answered"]
          /\ audit' = Append(audit, e)
          /\ result' = result
          BY <1>1 DEF Answer
    <2>2. /\ DOMAIN audit' = 1 .. Len(audit) + 1
          /\ \A i \in DOMAIN audit : audit'[i] = audit[i]
          /\ audit'[Len(audit) + 1] = e
          BY <1>t, <2>1
    <2>3. \A i \in DOMAIN audit : audit[i] # e
          BY <2>1 DEF AuditInv
    <2>4. result[e] \notin {"refused", "raised"}
          BY <1>t, <2>1 DEF ResultInv
    <2>5. \A i, j \in DOMAIN audit' : audit'[i] = audit'[j] => i = j
          BY <1>t, <2>2, <2>3 DEF AuditInv
    <2>6. ASSUME NEW f \in Execs
          PROVE  (\E i \in DOMAIN audit' : audit'[i] = f) <=>
                    call'[f] = "answered" /\ result'[f] \notin {"refused", "raised"}
      <3>1. CASE f = e
            BY <1>t, <2>1, <2>2, <2>4, <3>1
      <3>2. CASE f # e
        <4>1. (\E i \in DOMAIN audit' : audit'[i] = f) <=> \E i \in DOMAIN audit : audit[i] = f
              BY <1>t, <2>2, <3>2
        <4>2. call'[f] = call[f]
              BY <1>t, <2>1, <3>2
        <4>3. QED
              BY <2>1, <4>1, <4>2 DEF AuditInv
      <3>3. QED
            BY <3>1, <3>2
    <2>7. QED
          BY <2>5, <2>6 DEF AuditInv
  <1>2. CASE \E e \in Execs : Arrive(e) \/ Submit(e) \/ SubmitFails(e)
    <2>1. audit' = audit
          BY <1>2 DEF Arrive, Submit, SubmitFails
    <2>2. \A f \in Execs :
             (call'[f] = "answered" /\ result'[f] \notin {"refused", "raised"}) <=>
                (call[f] = "answered" /\ result[f] \notin {"refused", "raised"})
          BY <1>t, <1>2 DEF Arrive, Submit, SubmitFails
    <2>3. QED
          BY <2>1, <2>2 DEF AuditInv
  <1>3. CASE \E e \in Execs : SeeIdle(e) \/ TimeOut(e) \/ ReceiveFails(e)
    <2>1. audit' = audit
          BY <1>3 DEF SeeIdle, TimeOut, ReceiveFails
    <2>2. \A f \in Execs :
             (call'[f] = "answered" /\ result'[f] \notin {"refused", "raised"}) <=>
                (call[f] = "answered" /\ result[f] \notin {"refused", "raised"})
          BY <1>t, <1>3 DEF SeeIdle, TimeOut, ReceiveFails, Polls, Returns
    <2>3. QED
          BY <2>1, <2>2 DEF AuditInv
  <1>4. CASE UNCHANGED <<call, result, audit>>
        BY <1>4 DEF AuditInv
  <1>5. CASE \E e \in Execs : Skip(e) \/ Gather(e)
        BY <1>4, <1>5 DEF Skip, Gather, handlerVars
  <1>6. CASE KernelStep \/ CloseBegins \/ Closed \/ UNCHANGED vars
        BY <1>4, <1>6 DEF KernelStep, RunNext, CellPrints, CellEnds, KernelDies, CloseBegins,
                    Closed, handlerVars, vars
  <1>7. QED
        BY <1>1, <1>2, <1>3, <1>5, <1>6 DEF Next, CallStep, Poll, Quiet

\* A call that has a result is in the audit log once, and no other call is
\* (exec.py:54-81).
THEOREM ResultsAreAudited == Spec => []AuditedOnce
  <1>1. Init => AuditInv
        BY DEF Init, AuditInv
  <1>2. LineInv /\ AuditInv => AuditedOnce
    <2> SUFFICES ASSUME LineInv, AuditInv, NEW e \in Execs
                 PROVE  RowsOf(e) =
                           IF call[e] = "answered" /\ result[e] \notin {"refused", "raised"}
                           THEN 1 ELSE 0
        BY DEF AuditedOnce
    <2>1. CASE call[e] = "answered" /\ result[e] \notin {"refused", "raised"}
      <3>1. PICK i \in DOMAIN audit : audit[i] = e
            BY <2>1 DEF AuditInv
      <3>2. {j \in DOMAIN audit : audit[j] = e} = {i}
            BY <3>1 DEF AuditInv
      <3>3. QED
            BY <2>1, <3>2, FS_Singleton DEF RowsOf
    <2>2. CASE ~(call[e] = "answered" /\ result[e] \notin {"refused", "raised"})
      <3>1. {j \in DOMAIN audit : audit[j] = e} = {}
            BY <2>2 DEF AuditInv
      <3>2. QED
            BY <2>2, <3>1, FS_EmptySet DEF RowsOf
    <2>3. QED
          BY <2>1, <2>2
  <1>3. QED
        BY <1>1, <1>2, AuditNext, LineInvariance, PTL DEF Spec

-----------------------------------------------------------------------------
\* What a step does to the buffers.
LEMMA BufferSteps ==
  ASSUME [Next]_vars
  PROVE  (\E e \in Execs : Gather(e)) \/ UNCHANGED buf
  <1>1. CASE \E e \in Execs : Arrive(e) \/ Submit(e) \/ SubmitFails(e) \/ Answer(e)
        BY <1>1 DEF Arrive, Submit, SubmitFails, Answer
  <1>2. CASE \E e \in Execs : Skip(e) \/ SeeIdle(e) \/ TimeOut(e) \/ ReceiveFails(e)
        BY <1>2 DEF Skip, SeeIdle, TimeOut, ReceiveFails, handlerVars
  <1>3. CASE KernelStep \/ CloseBegins \/ Closed \/ UNCHANGED vars
        BY <1>3 DEF KernelStep, RunNext, CellPrints, CellEnds, KernelDies, CloseBegins,
                    Closed, handlerVars, vars
  <1>4. QED
        BY <1>1, <1>2, <1>3 DEF Next, CallStep, Poll, Quiet

\* Whatever an abandoned cell still sends, no other call returns it
\* (kernel_client.py:133-135).
THEOREM OutputIsOwn == Spec => []OwnOutput
  <1>1. Init => OwnOutput
        BY DEF Init, OwnOutput
  <1>2. LineInv /\ OwnOutput /\ [Next]_vars => OwnOutput'
    <2> SUFFICES ASSUME LineInv, OwnOutput, NEW e \in Execs, Gather(e)
                 PROVE  OwnOutput'
        BY BufferSteps DEF OwnOutput
    <2>t. /\ buf \in [Execs -> [streams : Seq(Execs), error : BOOLEAN]]
          /\ buf[e].streams \in Seq(Execs)
          BY DEF LineInv, TypeOK
    <2>1. CASE buf' = [buf EXCEPT ![e].streams = Append(@, Head(iopub).parent)]
      <3>1. Head(iopub).parent = e
            BY DEF Gather, IsStale
      <3>2. \A i \in DOMAIN Append(buf[e].streams, e) : Append(buf[e].streams, e)[i] = e
            BY <2>t DEF OwnOutput
      <3>3. \A f \in Execs :
               buf'[f].streams = IF f = e THEN Append(buf[e].streams, e) ELSE buf[f].streams
            BY <2>t, <2>1, <3>1
      <3>4. QED
            BY <3>2, <3>3 DEF OwnOutput
    <2>2. CASE buf' = [buf EXCEPT ![e].error = TRUE]
          BY <2>t, <2>2 DEF OwnOutput
    <2>3. QED
          BY <2>1, <2>2 DEF Gather
  <1>3. QED
        BY <1>1, <1>2, LineInvariance, PTL DEF Spec

-----------------------------------------------------------------------------
ResultOf(e) ==
    /\ Len(buf[e].streams) + Cardinality(Streams(iopub, e)) = printed[e]
    /\ outcome[e] = "error" <=> buf[e].error \/ ErrorIn(iopub, e)

\* Receiving a message of another call, or a call that has seen "idle".
LEMMA UndecidedStays ==
  ASSUME LineInv, [Next]_vars, NEW e \in Execs, Undecided(e)'
  PROVE  Undecided(e)
  <1>t. call \in [Execs -> CallPc]
        BY DEF LineInv, TypeOK
  <1>1. CASE \E f \in Execs : Arrive(f) \/ Submit(f) \/ SubmitFails(f) \/ Answer(f)
        BY <1>t, <1>1 DEF Arrive, Submit, SubmitFails, Answer, Undecided
  <1>2. CASE \E f \in Execs, reason \in {"ok", "error", "timeout", "kernel_dead"} :
                call[f] = "polling" /\ Returns(f, reason)
        BY <1>t, <1>2 DEF Returns, Undecided
  <1>3. CASE UNCHANGED call
        BY <1>3 DEF Undecided
  <1>4. QED
        BY <1>1, <1>2, <1>3, LineSteps

\* Taking a message that is none of e's off the channel.
LEMMA TailOfOthers ==
  ASSUME NEW q \in Seq(Messages), q # <<>>, NEW e, Head(q).parent # e
  PROVE  /\ Cardinality(Streams(Tail(q), e)) = Cardinality(Streams(q, e))
         /\ ErrorIn(Tail(q), e) <=> ErrorIn(q, e)
  <1>1. Tail(q) \in Seq(Messages)
        OBVIOUS
  <1>2. Cardinality(Streams(Tail(q), e)) \in Nat
        BY <1>1, StreamsFinite
  <1>3. Cardinality(Streams(Tail(q), e)) = Cardinality(Streams(q, e))
        BY <1>2, StreamsTail
  <1>4. ErrorIn(Tail(q), e) <=> ErrorIn(q, e)
    <2>1. /\ \A i \in DOMAIN Tail(q) : i + 1 \in DOMAIN q /\ Tail(q)[i] = q[i + 1]
          /\ \A i \in DOMAIN q : i # 1 => i - 1 \in DOMAIN Tail(q) /\ Tail(q)[i - 1] = q[i]
          /\ q[1] = Head(q)
          OBVIOUS
    <2>2. QED
          BY <2>1 DEF ErrorIn
  <1>5. QED
        BY <1>3, <1>4

\* Sending one.
LEMMA AppendError ==
  ASSUME NEW q \in Seq(Messages), NEW m \in Messages, NEW e
  PROVE  ErrorIn(Append(q, m), e) <=> ErrorIn(q, e) \/ (m.parent = e /\ m.type = "error")
  <1>1. /\ DOMAIN Append(q, m) = DOMAIN q \cup {Len(q) + 1}
        /\ \A i \in DOMAIN q : Append(q, m)[i] = q[i]
        /\ Append(q, m)[Len(q) + 1] = m
        OBVIOUS
  <1>2. QED
        BY <1>1 DEF ErrorIn

\* What a call has gathered, for every step.
LEMMA GatherNext == LineInv /\ KernelInv /\ GatherInv /\ [Next]_vars => GatherInv'
  <1> SUFFICES ASSUME LineInv, KernelInv, GatherInv, [Next]_vars,
                      NEW e \in Execs, Undecided(e)'
               PROVE  ResultOf(e)'
      BY DEF GatherInv, ResultOf
  <1>t. /\ call \in [Execs -> CallPc]
        /\ buf \in [Execs -> [streams : Seq(Execs), error : BOOLEAN]]
        /\ cell \in Execs \cup {None}
        /\ iopub \in Seq(Messages)
        /\ printed \in [Execs -> 0 .. MaxOutput]
        /\ outcome \in [Execs -> {"none", "ok", "error"}]
        /\ RequestInv
        /\ ChannelInv
        /\ QueueInv
        BY DEF LineInv, TypeOK, KernelInv
  <1>g. Undecided(e) /\ ResultOf(e)
        BY UndecidedStays DEF GatherInv, ResultOf
  <1>n. /\ Cardinality(Streams(iopub, e)) \in Nat
        /\ Len(buf[e].streams) \in Nat
        /\ printed[e] \in Nat
        BY <1>t, StreamsFinite, ExecEnvironment
  <1>1. ASSUME NEW f \in Execs, Polls(f), Skip(f) \/ Gather(f) \/ SeeIdle(f),
               Head(iopub).parent # e
        PROVE  ResultOf(e)'
    <2>1. iopub # <<>> /\ iopub' = Tail(iopub) /\ UNCHANGED <<printed, outcome>>
          BY <1>1 DEF Polls, Skip, Gather, SeeIdle
    <2>2. buf'[e] = buf[e]
          BY <1>t, <1>1 DEF Skip, Gather, SeeIdle, IsStale, handlerVars
    <2>3. /\ Cardinality(Streams(Tail(iopub), e)) = Cardinality(Streams(iopub, e))
          /\ ErrorIn(Tail(iopub), e) <=> ErrorIn(iopub, e)
          BY <1>t, <1>1, <2>1, TailOfOthers
    <2>4. QED
          BY <1>g, <2>1, <2>2, <2>3 DEF ResultOf
  <1>2. ASSUME NEW f \in Execs, Polls(f), Skip(f) \/ Gather(f) \/ SeeIdle(f),
               Head(iopub).parent = e
        PROVE  ResultOf(e)'
    <2>1. /\ call[f] = "polling" /\ iopub # <<>> /\ iopub' = Tail(iopub)
          /\ UNCHANGED <<printed, outcome>>
          BY <1>2 DEF Polls, Skip, Gather, SeeIdle
    <2>2. 1 \in DOMAIN iopub /\ Head(iopub) = iopub[1]
          BY <1>t, <2>1
    <2>3. call[e] = "polling"
          BY <1>g, <1>2, <2>2, <1>t DEF Undecided, ChannelInv, NotSubmitted
    <2>4. f = e
          BY <1>t, <2>1, <2>3 DEF QueueInv, Holds
    <2>5. ~SeeIdle(e)
          BY <1>t DEF SeeIdle, Returns, Undecided
    <2>6. Gather(e)
          BY <1>2, <2>4, <2>5 DEF Skip, IsStale
    <2>7. /\ Tail(iopub) \in Seq(Messages)
          /\ Head(iopub) \in Messages
          /\ Head(iopub).type \in {"stream", "error"}
      <3>1. Tail(iopub) \in Seq(Messages) /\ Head(iopub) \in Messages
            BY <1>t, <2>1
      <3>2. Head(iopub).type # "idle"
            BY <2>6 DEF Gather
      <3>3. QED
            BY <3>1, <3>2 DEF Messages
    <2>8. /\ Cardinality(Streams(Tail(iopub), e)) \in Nat
          /\ Cardinality(Streams(iopub, e)) =
                Cardinality(Streams(Tail(iopub), e))
                  + (IF Head(iopub).type = "stream" THEN 1 ELSE 0)
          BY <1>t, <1>2, <2>1, <2>7, StreamsFinite, StreamsTail
    <2>9. CASE Head(iopub).type = "stream"
      <3>1. buf' = [buf EXCEPT ![e].streams = Append(@, Head(iopub).parent)]
            BY <2>6, <2>9 DEF Gather
      <3>2. /\ buf'[e].streams = Append(buf[e].streams, e)
            /\ buf'[e].error = buf[e].error
            BY <1>t, <1>2, <3>1
      <3>3. Len(buf'[e].streams) = Len(buf[e].streams) + 1
            BY <1>t, <3>2
      <3>4. ErrorIn(Tail(iopub), e) <=> ErrorIn(iopub, e)
        <4>1. /\ \A i \in DOMAIN Tail(iopub) :
                    i + 1 \in DOMAIN iopub /\ Tail(iopub)[i] = iopub[i + 1]
              /\ \A i \in DOMAIN iopub :
                    i # 1 => i - 1 \in DOMAIN Tail(iopub) /\ Tail(iopub)[i - 1] = iopub[i]
              BY <1>t, <2>1
        <4>2. QED
              BY <2>2, <2>9, <4>1 DEF ErrorIn
      <3>5. Len(buf'[e].streams) + Cardinality(Streams(Tail(iopub), e)) = printed[e]
        <4>1. Cardinality(Streams(iopub, e)) = Cardinality(Streams(Tail(iopub), e)) + 1
              BY <2>8, <2>9
        <4>2. Len(buf[e].streams) + Cardinality(Streams(iopub, e)) = printed[e]
              BY <1>g DEF ResultOf
        <4>3. QED
              BY <1>n, <2>8, <3>3, <4>1, <4>2
      <3>6. outcome[e] = "error" <=> buf'[e].error \/ ErrorIn(Tail(iopub), e)
            BY <1>g, <3>2, <3>4 DEF ResultOf
      <3>7. /\ Len(buf'[e].streams) + Cardinality(Streams(iopub', e)) = printed'[e]
            /\ outcome'[e] = "error" <=> buf'[e].error \/ ErrorIn(iopub', e)
            BY <2>1, <3>5, <3>6
      <3>8. QED
            BY <3>7 DEF ResultOf
    <2>10. CASE Head(iopub).type = "error"
      <3>1. buf' = [buf EXCEPT ![e].error = TRUE]
            BY <2>6, <2>10 DEF Gather
      <3>2. buf'[e].streams = buf[e].streams /\ buf'[e].error = TRUE
            BY <1>t, <3>1
      <3>3. ErrorIn(iopub, e)
            BY <1>2, <2>2, <2>10 DEF ErrorIn
      <3>4. QED
            BY <1>g, <1>n, <2>1, <2>8, <2>10, <3>2, <3>3 DEF ResultOf
    <2>11. QED
          BY <2>7, <2>9, <2>10
  <1>3. CASE CellPrints
    <2>1. /\ cell \in Execs
          /\ iopub' = Append(iopub, Message("stream"))
          /\ printed' = [printed EXCEPT ![cell] = @ + 1]
          /\ UNCHANGED <<buf, outcome>>
          BY <1>t, <1>3 DEF CellPrints, handlerVars
    <2>2. /\ Message("stream") \in Messages
          /\ Message("stream").parent = cell
          /\ Message("stream").type = "stream"
          BY <2>1 DEF Message, Messages
    <2>3. Cardinality(Streams(iopub', e)) =
             Cardinality(Streams(iopub, e)) + (IF cell = e THEN 1 ELSE 0)
          BY <1>t, <2>1, <2>2, StreamsAppend
    <2>4. ErrorIn(iopub', e) <=> ErrorIn(iopub, e)
          BY <1>t, <2>1, <2>2, AppendError
    <2>5. printed'[e] = printed[e] + (IF cell = e THEN 1 ELSE 0)
          BY <1>t, <1>n, <2>1
    <2>6. QED
          BY <1>g, <1>n, <2>1, <2>3, <2>4, <2>5 DEF ResultOf
  <1>4. CASE CellEnds
    <2>1. PICK how \in {"ok", "error"} :
             /\ cell \in Execs
             /\ outcome' = [outcome EXCEPT ![cell] = how]
             /\ iopub' = IF how = "ok" THEN Append(iopub, Message("idle"))
                         ELSE iopub \o <<Message("error"), Message("idle")>>
             /\ UNCHANGED <<buf, printed>>
          BY <1>t, <1>4 DEF CellEnds, handlerVars
    <2>2. /\ Message("idle") \in Messages
          /\ Message("idle").parent = cell
          /\ Message("idle").type = "idle"
          /\ Message("error") \in Messages
          /\ Message("error").parent = cell
          /\ Message("error").type = "error"
          BY <2>1 DEF Message, Messages
    <2>3. outcome[cell] = "none"
          BY <1>t, <2>1, ExecEnvironment DEF RequestInv
    <2>4. outcome'[e] = IF e = cell THEN how ELSE outcome[e]
          BY <1>t, <2>1
    <2>5. CASE how = "ok"
      <3>1. iopub' = Append(iopub, Message("idle"))
            BY <2>1, <2>5
      <3>2. Cardinality(Streams(iopub', e)) = Cardinality(Streams(iopub, e)) + 0
            BY <1>t, <2>2, <3>1, StreamsAppend
      <3>3. ErrorIn(iopub', e) <=> ErrorIn(iopub, e)
            BY <1>t, <2>2, <3>1, AppendError
      <3>4. QED
            BY <1>g, <1>n, <2>1, <2>3, <2>4, <2>5, <3>2, <3>3 DEF ResultOf
    <2>6. CASE how = "error"
      <3> DEFINE q == Append(iopub, Message("error"))
      <3>1. iopub' = Append(q, Message("idle"))
            BY <1>t, <2>1, <2>2, <2>6
      <3>2. q \in Seq(Messages)
            BY <1>t, <2>2
      <3>3. Cardinality(Streams(q, e)) = Cardinality(Streams(iopub, e)) + 0
            BY <1>t, <2>2, StreamsAppend
      <3>4. ErrorIn(q, e) <=> ErrorIn(iopub, e) \/ cell = e
            BY <1>t, <2>2, AppendError
      <3> HIDE DEF q
      <3>5. Cardinality(Streams(iopub', e)) = Cardinality(Streams(q, e)) + 0
            BY <2>2, <3>1, <3>2, StreamsAppend
      <3>6. ErrorIn(iopub', e) <=> ErrorIn(q, e)
            BY <2>2, <3>1, <3>2, AppendError
      <3>7. QED
            BY <1>g, <1>n, <2>1, <2>4, <2>6, <3>3, <3>4, <3>5, <3>6 DEF ResultOf
    <2>7. QED
          BY <2>5, <2>6
  <1>5. CASE (\E f \in Execs : Submit(f)) \/ RunNext
        BY <1>5, <1>g DEF Submit, RunNext, handlerVars, ResultOf
  <1>6. CASE UNCHANGED <<shell, cell, iopub, printed, outcome>>
    <2>1. CASE UNCHANGED buf
          BY <1>6, <1>g, <2>1 DEF ResultOf
    <2>2. CASE \E f \in Execs : Gather(f)
          BY <1>1, <1>2, <2>2 DEF Gather
    <2>3. QED
          BY <2>1, <2>2, BufferSteps
  <1>7. QED
        BY <1>1, <1>2, <1>3, <1>4, <1>5, <1>6, KernelSteps

\* A call that sees "idle" has seen all there was.
LEMMA IdleIsLast ==
  ASSUME LineInv, KernelInv, GatherInv, NEW e \in Execs, SeeIdle(e)
  PROVE  /\ outcome[e] = IF buf[e].error THEN "error" ELSE "ok"
         /\ Len(buf[e].streams) = printed[e]
  <1>t. /\ buf \in [Execs -> [streams : Seq(Execs), error : BOOLEAN]]
        /\ iopub \in Seq(Messages)
        /\ printed \in [Execs -> 0 .. MaxOutput]
        /\ outcome \in [Execs -> {"none", "ok", "error"}]
        /\ ChannelInv
        BY DEF LineInv, TypeOK, KernelInv
  <1>1. /\ call[e] = "polling"
        /\ 1 \in DOMAIN iopub
        /\ iopub[1].type = "idle"
        /\ iopub[1].parent = e
        BY <1>t DEF SeeIdle, Polls, IsStale
  <1>2. outcome[e] # "none"
        BY <1>t, <1>1 DEF ChannelInv
  <1>3. \A i \in DOMAIN iopub : i = 1 \/ iopub[i].parent # e
    <2>1. \A i \in DOMAIN iopub : i \in Nat /\ i >= 1
          BY <1>t
    <2>2. QED
          BY <1>t, <1>1, <2>1 DEF ChannelInv
  <1>4. Streams(iopub, e) = {} /\ ~ErrorIn(iopub, e)
        BY <1>1, <1>3 DEF Streams, ErrorIn
  <1>5. Len(buf[e].streams) + 0 = printed[e] /\ (outcome[e] = "error" <=> buf[e].error)
        BY <1>1, <1>4, FS_EmptySet DEF GatherInv, Undecided
  <1>6. Len(buf[e].streams) \in Nat
        BY <1>t
  <1>7. QED
        BY <1>t, <1>2, <1>5, <1>6

\* The results, for every step.
LEMMA ResultNext ==
  LineInv /\ KernelInv /\ GatherInv /\ CompleteResult /\ [Next]_vars => CompleteResult'
  <1> SUFFICES ASSUME LineInv, KernelInv, GatherInv, CompleteResult, [Next]_vars,
                      NEW e \in Execs, result'[e] \in {"ok", "error"}
               PROVE  outcome'[e] = result'[e] /\ Len(buf'[e].streams) = printed'[e]
      BY DEF CompleteResult
  <1>t. /\ call \in [Execs -> CallPc]
        /\ buf \in [Execs -> [streams : Seq(Execs), error : BOOLEAN]]
        /\ cell \in Execs \cup {None}
        /\ printed \in [Execs -> 0 .. MaxOutput]
        /\ result \in [Execs -> ExitReasons]
        /\ outcome \in [Execs -> {"none", "ok", "error"}]
        /\ RequestInv
        /\ ResultInv
        BY DEF LineInv, TypeOK, KernelInv
  <1>1. CASE SeeIdle(e)
    <2>1. /\ result'[e] = IF buf[e].error THEN "error" ELSE "ok"
          /\ UNCHANGED <<buf, printed, outcome>>
          BY <1>t, <1>1 DEF SeeIdle, Returns
    <2>2. QED
          BY <1>1, <2>1, IdleIsLast
  <1>2. CASE result'[e] = result[e]
    <2>1. outcome[e] = result[e] /\ Len(buf[e].streams) = printed[e]
          BY <1>2 DEF CompleteResult
    <2>2. ~Undecided(e)
          BY <1>t, <1>2 DEF ResultInv
    <2>3. cell # e
          BY <1>2, <1>t, <2>1, ExecEnvironment DEF RequestInv
    <2>4. outcome'[e] = outcome[e] /\ printed'[e] = printed[e]
          BY <1>t, <2>3, KernelSteps
          DEF Submit, Skip, Gather, SeeIdle, RunNext, CellPrints, CellEnds
    <2>5. buf'[e] = buf[e]
          BY <1>t, <2>2, BufferSteps DEF Gather, Polls, Undecided
    <2>6. QED
          BY <1>2, <2>1, <2>4, <2>5
  <1>3. \/ SeeIdle(e)
        \/ result'[e] = result[e]
    <2>1. CASE \E f \in Execs : Arrive(f) \/ SubmitFails(f)
          BY <1>t, <2>1 DEF Arrive, SubmitFails
    <2>2. CASE \E f \in Execs : TimeOut(f) \/ ReceiveFails(f)
          BY <1>t, <2>2 DEF TimeOut, ReceiveFails, Returns
    <2>3. CASE \E f \in Execs : SeeIdle(f)
          BY <1>t, <2>3 DEF SeeIdle, Returns
    <2>4. CASE \E f \in Execs : Submit(f) \/ Skip(f) \/ Gather(f) \/ Answer(f)
          BY <2>4 DEF Submit, Skip, Gather, Answer, handlerVars
    <2>5. CASE KernelStep \/ CloseBegins \/ Closed \/ UNCHANGED vars
          BY <2>5 DEF KernelStep, RunNext, CellPrints, CellEnds, KernelDies, CloseBegins,
                      Closed, handlerVars, vars
    <2>6. QED
          BY <2>1, <2>2, <2>3, <2>4, <2>5 DEF Next, CallStep, Poll, Quiet
  <1>4. QED
        BY <1>1, <1>2, <1>3

\* A call that ends with "ok" or "error" returns all that its cell printed, and
\* how its cell ended (kernel_client.py:116-175).
THEOREM ResultsAreComplete == Spec => []CompleteResult
  <1> DEFINE Inv == LineInv /\ KernelInv /\ GatherInv /\ CompleteResult
  <1>1. Init => Inv
    <2> SUFFICES ASSUME Init
                 PROVE  GatherInv /\ CompleteResult
        BY LineInit, KernelInit
    <2>1. \A e \in Execs : Streams(iopub, e) = {} /\ ~ErrorIn(iopub, e)
          BY DEF Init, Streams, ErrorIn
    <2>2. \A e \in Execs : /\ Cardinality(Streams(iopub, e)) = 0
                           /\ Len(buf[e].streams) = 0
                           /\ buf[e].error = FALSE
          BY <2>1, FS_EmptySet DEF Init
    <2>3. QED
          BY <2>1, <2>2 DEF Init, GatherInv, CompleteResult
  <1>2. Inv /\ [Next]_vars => Inv'
        BY QueueNext, TypeNext, KernelNext, GatherNext, ResultNext DEF LineInv
  <1>3. QED
        BY <1>1, <1>2, PTL DEF Spec
=============================================================================
