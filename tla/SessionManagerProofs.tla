------------------------ MODULE SessionManagerProofs ------------------------
(***************************************************************************)
(* Proofs about SessionManager, for any number of requests, conversations  *)
(* and containers, any cap and any set of failures.                        *)
(***************************************************************************)
EXTENDS SessionManager, TLAPS

\* An empty manager over an empty engine is well typed.
LEMMA InitType == Init => TypeOK
  BY DEF Init, DockerInit, TypeOK, DockerTypeOK, ContainerStates, NoTask, TaskPc, DestroyPc

\* Every step of the manager keeps the types.
LEMMA TypeStep == TypeOK /\ [Next]_vars => TypeOK'
<1> SUFFICES ASSUME TypeOK, [Next]_vars
             PROVE  TypeOK'
  OBVIOUS
<1> USE DEF TypeOK, DockerTypeOK, ContainerStates, TaskPc, DestroyPc, dockerVars,
            createVars, sessionVars, destroyVars
<1>1. ASSUME NEW r \in Reqs, NEW s \in Sids, Spawn(r, s)
      PROVE  TypeOK'
  BY <1>1 DEF Spawn, InFlight
<1>2. ASSUME NEW r \in Reqs, NEW s \in Sids, Join(r, s)
      PROVE  TypeOK'
  BY <1>2 DEF Join, InFlight
<1>3. ASSUME NEW r \in Reqs, NEW s \in Sids, Delete(r, s)
      PROVE  TypeOK'
  BY <1>3 DEF Delete, Marked, Closing, Destroyable, Destroyers
<1>4. ASSUME NEW r \in Reqs, Run(r)
      PROVE  TypeOK'
  BY <1>4 DEF Run, Launch
<1>5. ASSUME NEW r \in Reqs, RunFails(r)
      PROVE  TypeOK'
  BY <1>5 DEF RunFails, CreateFails, TaskEnds, NoTask
<1>6. ASSUME NEW r \in Reqs, StartFails(r)
      PROVE  TypeOK'
  BY <1>6 DEF StartFails, Launch, CreateFails, TaskEnds, NoTask
<1>7. ASSUME NEW r \in Reqs, PortsPublished(r)
      PROVE  TypeOK'
  BY <1>7 DEF PortsPublished
<1>8. ASSUME NEW r \in Reqs, CannotUse(r)
      PROVE  TypeOK'
  BY <1>8 DEF CannotUse
<1>9. ASSUME NEW r \in Reqs, KernelReady(r)
      PROVE  TypeOK'
  BY <1>9 DEF KernelReady, TaskEnds, NoTask
<1>10. ASSUME NEW r \in Reqs, Rollback(r)
       PROVE  TypeOK'
  BY <1>10 DEF Rollback, Remove, CreateFails, TaskEnds, NoTask
<1>11. ASSUME NEW r \in Reqs, RollbackFails(r)
       PROVE  TypeOK'
  BY <1>11 DEF RollbackFails, FailToRemove, CreateFails, TaskEnds, NoTask
<1>12. ASSUME NEW r \in Reqs, FinishDelete(r)
       PROVE  TypeOK'
  BY <1>12 DEF FinishDelete, MapAfter, StatusAfter, NoTask, Destroyers
<1>13. ASSUME NEW d \in Destroyers, KernelClosed(d)
       PROVE  TypeOK'
  BY <1>13 DEF KernelClosed
<1>14. ASSUME NEW d \in Destroyers, Kill(d)
       PROVE  TypeOK'
  BY <1>14 DEF Kill, Remove
<1>15. ASSUME NEW d \in Destroyers, KillFails(d)
       PROVE  TypeOK'
  <2>1. container' \in [Cids -> ContainerStates]
    BY <1>15 DEF KillFails, FailToRemove
  <2>2. destroyer' \in [Destroyers -> [pc : DestroyPc, sid : Sids \cup {None},
                                       c : Cids \cup {None}]]
    BY <1>15 DEF KillFails
  <2>3. QED
    BY <1>15, <2>1, <2>2 DEF KillFails, FailToRemove
<1>16. ASSUME NEW d \in Sweepers, FinishVictim(d)
       PROVE  TypeOK'
  <2> DEFINE live == {v \in victims[d] : Destroyable(v, MapAfter(d), StatusAfter(d))}
  <2>1. MapAfter(d) \in [Sids -> Cids \cup {None}]
    BY DEF MapAfter
  <2>2. StatusAfter(d) \in [Cids -> {"none", "ready", "destroying"}]
    BY DEF StatusAfter
  <2>3. /\ sessions' = MapAfter(d)
        /\ expired' \subseteq Cids
        /\ UNCHANGED <<phase, creating, task, waiting, dockerVars>>
    BY <1>16 DEF FinishVictim
  <2>4. CASE /\ status' = StatusAfter(d)
             /\ destroyer' = [destroyer EXCEPT ![d] = NoTask]
             /\ victims' = [victims EXCEPT ![d] = {}]
    BY <2>1, <2>2, <2>3, <2>4 DEF NoTask
  <2>5. ASSUME NEW v \in live, NEW skipped \in SUBSET (victims[d] \ live),
               status' = [StatusAfter(d) EXCEPT ![MapAfter(d)[v]] = "destroying"],
               destroyer' = [destroyer EXCEPT ![d] = Closing(v, MapAfter(d)[v])],
               victims' = [victims EXCEPT ![d] = @ \ (skipped \cup {v})]
        PROVE  TypeOK'
    <3>1. v \in Sids
      BY <2>5
    <3>2. Closing(v, MapAfter(d)[v]) \in
            [pc : DestroyPc, sid : Sids \cup {None}, c : Cids \cup {None}]
      BY <3>1, <2>1 DEF Closing
    <3> QED
      BY <2>1, <2>2, <2>3, <2>5, <3>2
  <2>6. QED
    BY <1>16, <2>4, <2>5 DEF FinishVictim
<1>17. ASSUME NEW s \in Sids, GoIdle(s) \/ Touch(s)
       PROVE  TypeOK'
  BY <1>17 DEF GoIdle, Touch, Ready
<1>18. CASE ReaperScan
  BY <1>18 DEF ReaperScan, Marked, Stale, Closing, Destroyers, Sweepers
<1>19. CASE Shutdown
  BY <1>19 DEF Shutdown, Marked, Mapped, Destroyable, Closing, Sweepers
<1>20. CASE ShutdownDone \/ Crash
  BY <1>20 DEF ShutdownDone, Crash, ProcessEnds, NoTask
<1>21. CASE Restart
  BY <1>21 DEF Restart, volatile
<1>22. CASE UNCHANGED vars
  BY <1>22 DEF vars, volatile
<1>23. ASSUME NEW c \in Cids, SandboxDies(c)
       PROVE  TypeOK'
  BY <1>23 DEF SandboxDies, Exits, volatile
<1>24. QED
  BY <1>1, <1>2, <1>3, <1>4, <1>5, <1>6, <1>7, <1>8, <1>9, <1>10, <1>11, <1>12, <1>13,
     <1>14, <1>15, <1>16, <1>17, <1>18, <1>19, <1>20, <1>21, <1>22, <1>23
     DEF Next, CreateStep, PortsTimeOut, KernelNotReady, DestroyStep, ProcessStep

\* Every variable of the manager and of the engine keeps its type: a step of a
\* create, of a destroy or of the reaper never leaves half an entry behind.
THEOREM TypeCorrect == Spec => []TypeOK
  BY InitType, TypeStep, PTL DEF Spec

-----------------------------------------------------------------------------
\* The map, the tasks and the destroys are empty at the start.
LEMMA InitInv == Init => IInv
  BY InitType DEF Init, DockerInit, IInv, NamesUnique, TasksOwn, TaskActive, MapWellFormed,
     Ready, DestroysOwn, Destroying, SingleDestroyer, ReadyHasContainer, Exists, NoTask

\* One step per action, and under it one per conjunct that the action can
\* disturb; the last one is for those that it cannot.
LEMMA InvStep == IInv /\ [Next]_vars => IInv'
<1> SUFFICES ASSUME IInv, [Next]_vars
             PROVE  IInv'
  OBVIOUS
<1> USE DEF IInv, TypeOK, DockerTypeOK, dockerVars, createVars, sessionVars, destroyVars,
            TaskPc, DestroyPc, Destroyers, Sweepers
<1>0. TypeOK'
  BY TypeStep
<1>1. ASSUME NEW r \in Reqs, NEW s \in Sids, Spawn(r, s)
      PROVE  IInv'
  <2>1. TasksOwn'
    BY <1>1, DistinctNames DEF Spawn, InFlight, TasksOwn, TaskOwns, TaskActive, Exists
  <2>2. NamesUnique' /\ MapWellFormed' /\ DestroysOwn' /\ SingleDestroyer' /\ ReadyHasContainer'
    BY <1>1 DEF Spawn, InFlight, NamesUnique, Exists, MapWellFormed, Ready, DestroysOwn,
                DestroyOwns,
           Destroying, SingleDestroyer, ReadyHasContainer
  <2>3. QED
    BY <1>0, <2>1, <2>2
<1>2. ASSUME NEW r \in Reqs, NEW s \in Sids, Join(r, s)
      PROVE  IInv'
  <2>1. TasksOwn'
    BY <1>2, DistinctNames DEF Join, InFlight, Free, TasksOwn, TaskOwns, TaskActive, Exists
  <2>2. NamesUnique' /\ MapWellFormed' /\ DestroysOwn' /\ SingleDestroyer' /\ ReadyHasContainer'
    BY <1>2 DEF Join, InFlight, NamesUnique, Exists, MapWellFormed, Ready, DestroysOwn,
                DestroyOwns,
           Destroying, SingleDestroyer, ReadyHasContainer
  <2>3. QED
    BY <1>0, <2>1, <2>2
<1>3. ASSUME NEW r \in Reqs, NEW s \in Sids, Delete(r, s)
      PROVE  IInv'
  <2>1. TasksOwn'
    BY <1>3 DEF Delete, Marked, Destroyable, TasksOwn, TaskOwns, TaskActive, Exists,
                MapWellFormed
  <2>2. MapWellFormed'
    BY <1>3 DEF Delete, Marked, MapWellFormed, Ready
  <2>3. DestroysOwn'
    BY <1>3 DEF Delete, Marked, Closing, Destroyable, DestroysOwn, DestroyOwns, Destroying,
                Exists,
           MapWellFormed, Ready, ReadyHasContainer
  <2>4. SingleDestroyer'
    BY <1>3 DEF Delete, Marked, Closing, Destroyable, SingleDestroyer, Destroying,
                DestroysOwn,
           DestroyOwns
  <2>5. NamesUnique' /\ ReadyHasContainer'
    BY <1>3 DEF Delete, Marked, NamesUnique, Exists, ReadyHasContainer
  <2>6. QED
    BY <1>0, <2>1, <2>2, <2>3, <2>4, <2>5
<1>4. ASSUME NEW r \in Reqs, Run(r)
      PROVE  IInv'
  <2>1. NamesUnique'
    BY <1>4 DEF Run, Launch, NameTaken, NamesUnique, Exists
  <2>2. TasksOwn'
    BY <1>4 DEF Run, Launch, Fresh, TasksOwn, TaskOwns, TaskActive, Exists
  <2>3. MapWellFormed'
    BY <1>4 DEF Run, Launch, Fresh, MapWellFormed, Ready
  <2>4. DestroysOwn'
    BY <1>4 DEF Run, Launch, Fresh, DestroysOwn, DestroyOwns, Destroying, Exists
  <2>5. ReadyHasContainer'
    BY <1>4 DEF Run, Launch, ReadyHasContainer, Exists
  <2>6. SingleDestroyer'
    BY <1>4 DEF Run, SingleDestroyer, Destroying
  <2>7. QED
    BY <1>0, <2>1, <2>2, <2>3, <2>4, <2>5, <2>6
<1>5. ASSUME NEW r \in Reqs, RunFails(r)
      PROVE  IInv'
  <2>1. TasksOwn'
    BY <1>5 DEF RunFails, CreateFails, TaskEnds, NoTask, TasksOwn, TaskOwns, TaskActive,
           Exists
  <2>2. NamesUnique' /\ MapWellFormed' /\ DestroysOwn' /\ SingleDestroyer' /\ ReadyHasContainer'
    BY <1>5 DEF RunFails, CreateFails, NamesUnique, Exists, MapWellFormed, Ready,
           DestroysOwn, DestroyOwns, Destroying, SingleDestroyer, ReadyHasContainer
  <2>3. QED
    BY <1>0, <2>1, <2>2
<1>6. ASSUME NEW r \in Reqs, StartFails(r)
      PROVE  IInv'
  <2>1. NamesUnique'
    BY <1>6 DEF StartFails, Launch, NameTaken, NamesUnique, Exists
  <2>2. TasksOwn'
    BY <1>6 DEF StartFails, Launch, Fresh, CreateFails, TaskEnds, NoTask, TasksOwn,
           TaskOwns, TaskActive, Exists
  <2>3. MapWellFormed'
    BY <1>6 DEF StartFails, Launch, Fresh, CreateFails, MapWellFormed, Ready
  <2>4. DestroysOwn'
    BY <1>6 DEF StartFails, Launch, Fresh, CreateFails, DestroysOwn, DestroyOwns,
           Destroying, Exists
  <2>5. ReadyHasContainer'
    BY <1>6 DEF StartFails, Launch, CreateFails, ReadyHasContainer, Exists
  <2>6. SingleDestroyer'
    BY <1>6 DEF StartFails, CreateFails, SingleDestroyer, Destroying
  <2>7. QED
    BY <1>0, <2>1, <2>2, <2>3, <2>4, <2>5, <2>6
<1>7. ASSUME NEW r \in Reqs, PortsPublished(r)
      PROVE  IInv'
  <2>1. TasksOwn'
    BY <1>7 DEF PortsPublished, TasksOwn, TaskOwns, TaskActive, Exists
  <2>2. NamesUnique' /\ MapWellFormed' /\ DestroysOwn' /\ SingleDestroyer' /\ ReadyHasContainer'
    BY <1>7 DEF PortsPublished, NamesUnique, Exists, MapWellFormed, Ready, DestroysOwn,
           DestroyOwns, Destroying, SingleDestroyer, ReadyHasContainer
  <2>3. QED
    BY <1>0, <2>1, <2>2
<1>8. ASSUME NEW r \in Reqs, task[r].pc \in {"ports", "kernel"}, CannotUse(r)
      PROVE  IInv'
  <2>1. TasksOwn'
    BY <1>8 DEF CannotUse, TasksOwn, TaskOwns, TaskActive, Exists
  <2>2. NamesUnique' /\ MapWellFormed' /\ DestroysOwn' /\ SingleDestroyer' /\ ReadyHasContainer'
    BY <1>8 DEF CannotUse, NamesUnique, Exists, MapWellFormed, Ready, DestroysOwn,
           DestroyOwns, Destroying, SingleDestroyer, ReadyHasContainer
  <2>3. QED
    BY <1>0, <2>1, <2>2
<1>9. ASSUME NEW r \in Reqs, KernelReady(r)
      PROVE  IInv'
  <2>1. TasksOwn'
    BY <1>9 DEF KernelReady, TaskEnds, NoTask, TasksOwn, TaskOwns, TaskActive, Exists
  <2>2. MapWellFormed'
    BY <1>9 DEF KernelReady, MapWellFormed, Ready, TasksOwn, TaskOwns, TaskActive
  <2>3. DestroysOwn'
    BY <1>9 DEF KernelReady, DestroysOwn, DestroyOwns, Destroying, Exists, TasksOwn,
           TaskOwns, TaskActive
  <2>4. ReadyHasContainer'
    BY <1>9 DEF KernelReady, ReadyHasContainer, Exists, TasksOwn, TaskOwns, TaskActive
  <2>5. NamesUnique' /\ SingleDestroyer'
    BY <1>9 DEF KernelReady, NamesUnique, Exists, SingleDestroyer, Destroying
  <2>6. QED
    BY <1>0, <2>1, <2>2, <2>3, <2>4, <2>5
<1>10. ASSUME NEW r \in Reqs, Rollback(r)
       PROVE  IInv'
  <2>1. NamesUnique'
    BY <1>10 DEF Rollback, Remove, NamesUnique, Exists
  <2>2. TasksOwn'
    BY <1>10 DEF Rollback, Remove, CreateFails, TaskEnds, NoTask, TasksOwn, TaskOwns,
           TaskActive, Exists
  <2>3. MapWellFormed'
    BY <1>10 DEF Rollback, Remove, CreateFails, MapWellFormed, Ready, TasksOwn, TaskOwns,
           TaskActive
  <2>4. DestroysOwn'
    BY <1>10 DEF Rollback, Remove, CreateFails, DestroysOwn, DestroyOwns, Destroying,
           Exists, TasksOwn, TaskOwns, TaskActive
  <2>5. ReadyHasContainer'
    BY <1>10 DEF Rollback, Remove, CreateFails, ReadyHasContainer, Exists, TasksOwn,
           TaskOwns, TaskActive
  <2>6. SingleDestroyer'
    BY <1>10 DEF Rollback, CreateFails, SingleDestroyer, Destroying
  <2>7. QED
    BY <1>0, <2>1, <2>2, <2>3, <2>4, <2>5, <2>6
<1>11. ASSUME NEW r \in Reqs, RollbackFails(r)
       PROVE  IInv'
  <2>1. NamesUnique'
    BY <1>11 DEF RollbackFails, FailToRemove, NamesUnique, Exists, TasksOwn, TaskOwns,
           TaskActive
  <2>2. TasksOwn'
    BY <1>11 DEF RollbackFails, FailToRemove, CreateFails, TaskEnds, NoTask, TasksOwn,
           TaskOwns, TaskActive, Exists
  <2>3. DestroysOwn'
    BY <1>11 DEF RollbackFails, FailToRemove, CreateFails, DestroysOwn, DestroyOwns,
           Destroying, Exists
  <2>4. ReadyHasContainer'
    BY <1>11 DEF RollbackFails, FailToRemove, CreateFails, ReadyHasContainer, Exists
  <2>5. MapWellFormed' /\ SingleDestroyer'
    BY <1>11 DEF FailToRemove, RollbackFails, CreateFails, MapWellFormed, Ready,
           SingleDestroyer, Destroying
  <2>6. QED
    BY <1>0, <2>1, <2>2, <2>3, <2>4, <2>5
<1>12. ASSUME NEW r \in Reqs, FinishDelete(r)
       PROVE  IInv'
  <2>1. TasksOwn'
    BY <1>12 DEF FinishDelete, StatusAfter, TasksOwn, TaskOwns, TaskActive, Exists
  <2>2. MapWellFormed'
    BY <1>12 DEF FinishDelete, MapAfter, StatusAfter, MapWellFormed, Ready, DestroysOwn,
           DestroyOwns, Destroying
  <2>3. DestroysOwn'
    BY <1>12, DistinctNames DEF FinishDelete, MapAfter, StatusAfter, NoTask, DestroysOwn,
           DestroyOwns, Destroying, Exists, SingleDestroyer
  <2>4. SingleDestroyer'
    BY <1>12 DEF FinishDelete, NoTask, SingleDestroyer, Destroying
  <2>5. ReadyHasContainer'
    BY <1>12 DEF FinishDelete, StatusAfter, ReadyHasContainer, Exists
  <2>6. NamesUnique'
    BY <1>12 DEF FinishDelete, NamesUnique, Exists
  <2>7. QED
    BY <1>0, <2>1, <2>2, <2>3, <2>4, <2>5, <2>6
<1>13. ASSUME NEW d \in Destroyers, KernelClosed(d)
       PROVE  IInv'
  <2>1. DestroysOwn' /\ SingleDestroyer'
    BY <1>13 DEF KernelClosed, DestroysOwn, DestroyOwns, Destroying, Exists, SingleDestroyer
  <2>2. NamesUnique' /\ TasksOwn' /\ MapWellFormed' /\ ReadyHasContainer'
    BY <1>13 DEF KernelClosed, NamesUnique, Exists, TasksOwn, TaskOwns, TaskActive,
           MapWellFormed, Ready, ReadyHasContainer
  <2>3. QED
    BY <1>0, <2>1, <2>2
<1>14. ASSUME NEW d \in Destroyers, Kill(d)
       PROVE  IInv'
  <2>1. NamesUnique'
    BY <1>14 DEF Kill, Remove, NamesUnique, Exists
  <2>2. TasksOwn'
    BY <1>14 DEF Kill, Remove, TasksOwn, TaskOwns, TaskActive, Exists, DestroysOwn,
           DestroyOwns, Destroying
  <2>3. MapWellFormed'
    BY <1>14 DEF Kill, Remove, MapWellFormed, Ready, DestroysOwn, DestroyOwns, Destroying
  <2>4. DestroysOwn'
    BY <1>14 DEF Kill, Remove, DestroysOwn, DestroyOwns, Destroying, Exists, SingleDestroyer
  <2>5. SingleDestroyer'
    BY <1>14 DEF Kill, SingleDestroyer, Destroying
  <2>6. ReadyHasContainer'
    BY <1>14 DEF Kill, Remove, ReadyHasContainer, Exists, DestroysOwn, DestroyOwns,
           Destroying
  <2>7. QED
    BY <1>0, <2>1, <2>2, <2>3, <2>4, <2>5, <2>6
<1>15. ASSUME NEW d \in Destroyers, KillFails(d)
       PROVE  IInv'
  <2>1. NamesUnique'
    BY <1>15 DEF KillFails, FailToRemove, NamesUnique, Exists, DestroysOwn, DestroyOwns,
           Destroying
  <2>2. TasksOwn'
    BY <1>15 DEF KillFails, FailToRemove, TasksOwn, TaskOwns, TaskActive, Exists
  <2>3. DestroysOwn'
    BY <1>15 DEF KillFails, FailToRemove, DestroysOwn, DestroyOwns, Destroying, Exists
  <2>4. SingleDestroyer'
    BY <1>15 DEF KillFails, SingleDestroyer, Destroying
  <2>5. ReadyHasContainer'
    BY <1>15 DEF KillFails, FailToRemove, ReadyHasContainer, Exists
  <2>6. MapWellFormed'
    BY <1>15 DEF FailToRemove, KillFails, MapWellFormed, Ready
  <2>7. QED
    BY <1>0, <2>1, <2>2, <2>3, <2>4, <2>5, <2>6
<1>16. ASSUME NEW d \in Sweepers, FinishVictim(d)
       PROVE  IInv'
  <2>1. TasksOwn'
    BY <1>16 DEF FinishVictim, MapAfter, StatusAfter, Closing, Destroyable, TasksOwn,
           TaskOwns, TaskActive, Exists, MapWellFormed
  <2>2. MapWellFormed'
    BY <1>16 DEF FinishVictim, MapAfter, StatusAfter, NoTask, Closing, MapWellFormed, Ready,
           DestroysOwn, DestroyOwns, Destroying, Exists
  <2>3. DestroysOwn'
    BY <1>16, DistinctNames DEF FinishVictim, MapAfter, StatusAfter, NoTask, Closing,
           Destroyable, DestroysOwn, DestroyOwns, Destroying, Exists, MapWellFormed, Ready,
           ReadyHasContainer, SingleDestroyer
  <2>4. SingleDestroyer'
    <3>1. CASE destroyer' = [destroyer EXCEPT ![d] = NoTask]
      BY <3>1 DEF NoTask, SingleDestroyer, Destroying
    <3>2. ASSUME NEW v \in victims[d],
                 Destroyable(v, MapAfter(d), StatusAfter(d)),
                 destroyer' = [destroyer EXCEPT ![d] = Closing(v, MapAfter(d)[v])]
          PROVE  SingleDestroyer'
      <4>1. ASSUME NEW e \in Destroyers, e # d, Destroying(e)
            PROVE  destroyer[e].c # MapAfter(d)[v]
        <5>1. Destroying(d)
          BY <1>16 DEF FinishVictim, Destroying
        <5>2. destroyer[e].c # destroyer[d].c
          BY <4>1, <5>1 DEF SingleDestroyer
        <5>3. StatusAfter(d)[destroyer[e].c] = "destroying"
          BY <4>1, <5>2 DEF StatusAfter, DestroysOwn, DestroyOwns
        <5>4. QED
          BY <3>2, <5>3 DEF Destroyable
      <4>2. QED
        BY <3>2, <4>1 DEF Closing, SingleDestroyer, Destroying
    <3>3. QED
      BY <1>16, <3>1, <3>2 DEF FinishVictim
  <2>5. ReadyHasContainer'
    BY <1>16 DEF FinishVictim, StatusAfter, ReadyHasContainer, Exists
  <2>6. NamesUnique'
    BY <1>16 DEF FinishVictim, NamesUnique, Exists
  <2>7. QED
    BY <1>0, <2>1, <2>2, <2>3, <2>4, <2>5, <2>6
<1>17. CASE ReaperScan
  <2>1. TasksOwn'
    BY <1>17 DEF ReaperScan, Marked, Stale, TasksOwn, TaskOwns, TaskActive, Exists, Ready
  <2>2. MapWellFormed'
    BY <1>17 DEF ReaperScan, Marked, MapWellFormed, Ready
  <2>3. DestroysOwn'
    BY <1>17 DEF ReaperScan, Marked, Stale, Closing, DestroysOwn, DestroyOwns, Destroying,
                 Exists,
           MapWellFormed, Ready, ReadyHasContainer
  <2>4. SingleDestroyer'
    BY <1>17 DEF ReaperScan, Marked, Stale, Closing, SingleDestroyer, Destroying,
                 DestroysOwn,
           DestroyOwns, Ready
  <2>5. ReadyHasContainer'
    BY <1>17 DEF ReaperScan, Marked, ReadyHasContainer, Exists
  <2>6. NamesUnique'
    BY <1>17 DEF ReaperScan, Marked, NamesUnique, Exists
  <2>7. QED
    BY <1>0, <2>1, <2>2, <2>3, <2>4, <2>5, <2>6
<1>18. CASE Shutdown
  <2>1. TasksOwn'
    BY <1>18 DEF Shutdown, Marked, Mapped, TasksOwn, TaskOwns, TaskActive, Exists,
                 MapWellFormed
  <2>2. MapWellFormed'
    BY <1>18 DEF Shutdown, Marked, MapWellFormed, Ready
  <2>3. DestroysOwn'
    BY <1>18 DEF Shutdown, Marked, Mapped, Destroyable, Closing, DestroysOwn, DestroyOwns,
           Destroying, Exists, MapWellFormed, Ready, ReadyHasContainer
  <2>4. SingleDestroyer'
    BY <1>18 DEF Shutdown, Marked, Destroyable, Closing, SingleDestroyer, Destroying,
                 DestroysOwn,
           DestroyOwns
  <2>5. ReadyHasContainer'
    BY <1>18 DEF Shutdown, Marked, ReadyHasContainer, Exists
  <2>6. NamesUnique'
    BY <1>18 DEF Shutdown, Marked, NamesUnique, Exists
  <2>7. QED
    BY <1>0, <2>1, <2>2, <2>3, <2>4, <2>5, <2>6
<1>19. ASSUME NEW s \in Sids, GoIdle(s) \/ Touch(s)
       PROVE  IInv'
  BY <1>0, <1>19 DEF GoIdle, Touch, NamesUnique, TasksOwn, TaskOwns, TaskActive,
     MapWellFormed, Ready, DestroysOwn, DestroyOwns, Destroying, SingleDestroyer,
     ReadyHasContainer, Exists
<1>20. CASE ShutdownDone \/ Crash
  BY <1>0, <1>20 DEF ShutdownDone, Crash, ProcessEnds, NoTask, NamesUnique, TasksOwn,
     TaskActive, MapWellFormed, Ready, DestroysOwn, Destroying, SingleDestroyer,
     ReadyHasContainer, Exists
<1>21. CASE Restart \/ UNCHANGED vars
  BY <1>0, <1>21 DEF Restart, vars, volatile, NamesUnique, TasksOwn, TaskOwns, TaskActive,
     MapWellFormed, Ready, DestroysOwn, DestroyOwns, Destroying, SingleDestroyer,
     ReadyHasContainer, Exists
<1>22. ASSUME NEW c \in Cids, SandboxDies(c)
       PROVE  IInv'
  <2>1. \A e \in Cids : container'[e] = "absent" <=> container[e] = "absent"
    BY <1>22 DEF SandboxDies, Exits
  <2>2. NamesUnique' /\ TasksOwn' /\ DestroysOwn' /\ ReadyHasContainer'
    BY <1>22, <2>1 DEF SandboxDies, Exits, volatile, NamesUnique, TasksOwn, TaskOwns,
           TaskActive, DestroysOwn, DestroyOwns, Destroying, ReadyHasContainer, Exists
  <2>3. MapWellFormed' /\ SingleDestroyer'
    BY <1>22 DEF SandboxDies, Exits, volatile, MapWellFormed, Ready, SingleDestroyer,
           Destroying
  <2>4. QED
    BY <1>0, <2>2, <2>3
<1>23. QED
  BY <1>1, <1>2, <1>3, <1>4, <1>5, <1>6, <1>7, <1>8, <1>9, <1>10, <1>11, <1>12, <1>13, <1>14,
     <1>15, <1>16, <1>17, <1>18, <1>19, <1>20, <1>21, <1>22
     DEF Next, CreateStep, PortsTimeOut, KernelNotReady, DestroyStep, ProcessStep

\* In every state of the manager its tasks own their containers, its destroys
\* their sessions, and the map agrees with the names of the containers.
THEOREM Invariance == Spec => []IInv
  BY InitInv, InvStep, PTL DEF Spec

-----------------------------------------------------------------------------
\* One create task per conversation, whatever the number of concurrent POSTs.
LEMMA InvImpliesSingleCreate == IInv => SingleCreate
  BY DEF IInv, TasksOwn, TaskOwns, SingleCreate

\* Concurrent POSTs for a conversation share one create task.
THEOREM CreateIsIdempotent == Spec => []SingleCreate
  BY Invariance, InvImpliesSingleCreate, PTL

\* One READY session per conversation: two READY sessions of one conversation
\* would be two containers of one name, which the engine refuses.
LEMMA InvImpliesUniqueReady == IInv => UniqueReady
  BY DEF IInv, NamesUnique, ReadyHasContainer, UniqueReady

\* A conversation has one READY session, even while its last one is destroyed.
THEOREM OneReadySession == Spec => []UniqueReady
  BY Invariance, InvImpliesUniqueReady, PTL

\* Neither a destroy nor the rollback of a create removes the container of a
\* READY session.
THEOREM ReadyIsBacked == Spec => []ReadyHasContainer
<1>1. IInv => ReadyHasContainer
  BY DEF IInv
<1>2. QED
  BY <1>1, Invariance, PTL

\* A DELETE, the reaper and shutdown() never destroy the same session.
THEOREM DestroyedOnce == Spec => []SingleDestroyer
<1>1. IInv => SingleDestroyer
  BY DEF IInv
<1>2. QED
  BY <1>1, Invariance, PTL

-----------------------------------------------------------------------------
(***************************************************************************)
(* When Docker's answer to a removal comes before the next kernel of the   *)
(* same conversation is up, the pop by id at the end of destroy() removes  *)
(* the right session.                                                      *)
(***************************************************************************)
MInv == IInv /\ DestroysMapped /\ ReadyIsMapped

\* Every step keeps it: KernelReady waits for the destroy of its predecessor.
LEMMA MInvStep == ~SlowRemoval /\ MInv /\ [Next]_vars => MInv'
<1> SUFFICES ASSUME ~SlowRemoval, MInv, [Next]_vars
             PROVE  DestroysMapped' /\ ReadyIsMapped'
  BY InvStep DEF MInv
<1> USE DEF MInv, IInv, TypeOK, DockerTypeOK, dockerVars, createVars, sessionVars,
            destroyVars, TaskPc, DestroyPc, Destroyers,
            Sweepers
<1>1. ASSUME NEW r \in Reqs, NEW s \in Sids, Delete(r, s)
      PROVE  DestroysMapped' /\ ReadyIsMapped'
  <2>1. DestroysMapped'
    BY <1>1 DEF Delete, Marked, Closing, DestroysMapped, Destroying
  <2>2. ReadyIsMapped'
    BY <1>1 DEF Delete, Marked, ReadyIsMapped
  <2>3. QED
    BY <2>1, <2>2
<1>2. ASSUME NEW r \in Reqs, Run(r)
      PROVE  DestroysMapped' /\ ReadyIsMapped'
  <2>1. DestroysMapped'
    BY <1>2 DEF Run, DestroysMapped, Destroying
  <2>2. ReadyIsMapped'
    BY <1>2 DEF Run, Launch, Fresh, ReadyIsMapped
  <2>3. QED
    BY <2>1, <2>2
<1>3. ASSUME NEW r \in Reqs, StartFails(r)
      PROVE  DestroysMapped' /\ ReadyIsMapped'
  <2>1. DestroysMapped'
    BY <1>3 DEF StartFails, CreateFails, DestroysMapped, Destroying
  <2>2. ReadyIsMapped'
    BY <1>3 DEF StartFails, Launch, Fresh, CreateFails, ReadyIsMapped
  <2>3. QED
    BY <2>1, <2>2
<1>4. ASSUME NEW r \in Reqs, KernelReady(r)
      PROVE  DestroysMapped' /\ ReadyIsMapped'
  <2>1. DestroysMapped'
    BY <1>4 DEF KernelReady, DestroysMapped, NamesUnique, TasksOwn, TaskOwns, TaskActive,
           DestroysOwn, DestroyOwns, Destroying
  <2>2. ReadyIsMapped'
    BY <1>4 DEF KernelReady, ReadyIsMapped, NamesUnique, TasksOwn, TaskOwns, TaskActive,
           ReadyHasContainer
  <2>3. QED
    BY <2>1, <2>2
<1>5. ASSUME NEW r \in Reqs, Rollback(r)
      PROVE  DestroysMapped' /\ ReadyIsMapped'
  <2>1. DestroysMapped'
    BY <1>5 DEF Rollback, CreateFails, DestroysMapped, Destroying
  <2>2. ReadyIsMapped'
    BY <1>5 DEF Rollback, Remove, CreateFails, ReadyIsMapped, TasksOwn, TaskOwns, TaskActive
  <2>3. QED
    BY <2>1, <2>2
<1>6. ASSUME NEW r \in Reqs, FinishDelete(r)
      PROVE  DestroysMapped' /\ ReadyIsMapped'
  <2>1. DestroysMapped'
    BY <1>6 DEF FinishDelete, MapAfter, NoTask, DestroysMapped, Destroying, SingleDestroyer,
           ReadyHasContainer, Exists
  <2>2. ReadyIsMapped'
    BY <1>6 DEF FinishDelete, MapAfter, StatusAfter, ReadyIsMapped, DestroysMapped,
           Destroying
  <2>3. QED
    BY <2>1, <2>2
<1>7. ASSUME NEW d \in Destroyers, KernelClosed(d)
      PROVE  DestroysMapped' /\ ReadyIsMapped'
  <2>1. DestroysMapped'
    BY <1>7 DEF KernelClosed, DestroysMapped, Destroying
  <2>2. ReadyIsMapped'
    BY <1>7 DEF KernelClosed, ReadyIsMapped
  <2>3. QED
    BY <2>1, <2>2
<1>8. ASSUME NEW d \in Destroyers, Kill(d)
      PROVE  DestroysMapped' /\ ReadyIsMapped'
  <2>1. DestroysMapped'
    BY <1>8 DEF Kill, DestroysMapped, Destroying
  <2>2. ReadyIsMapped'
    BY <1>8 DEF Kill, Remove, ReadyIsMapped, DestroysOwn, DestroyOwns, Destroying
  <2>3. QED
    BY <2>1, <2>2
<1>9. ASSUME NEW d \in Destroyers, KillFails(d)
      PROVE  DestroysMapped' /\ ReadyIsMapped'
  <2>1. DestroysMapped'
    BY <1>9 DEF KillFails, DestroysMapped, Destroying
  <2>2. ReadyIsMapped'
    BY <1>9 DEF KillFails, FailToRemove, ReadyIsMapped
  <2>3. QED
    BY <2>1, <2>2
<1>10. ASSUME NEW d \in Sweepers, FinishVictim(d)
       PROVE  DestroysMapped' /\ ReadyIsMapped'
  <2>1. DestroysMapped'
    BY <1>10 DEF FinishVictim, MapAfter, StatusAfter, NoTask, Closing, Destroyable,
           DestroysMapped, NamesUnique, TasksOwn, TaskOwns, TaskActive, MapWellFormed,
           Ready, Destroying, SingleDestroyer, ReadyHasContainer
  <2>2. ReadyIsMapped'
    BY <1>10 DEF FinishVictim, MapAfter, StatusAfter, NoTask, Closing, Destroyable,
           ReadyIsMapped, DestroysMapped, NamesUnique, TasksOwn, TaskOwns, TaskActive,
           MapWellFormed, Ready, Destroying, SingleDestroyer
  <2>3. QED
    BY <2>1, <2>2
<1>11. CASE ReaperScan
  <2>1. DestroysMapped'
    BY <1>11 DEF ReaperScan, Marked, Closing, DestroysMapped, Destroying
  <2>2. ReadyIsMapped'
    BY <1>11 DEF ReaperScan, Marked, ReadyIsMapped
  <2>3. QED
    BY <2>1, <2>2
<1>12. CASE Shutdown
  <2>1. DestroysMapped'
    BY <1>12 DEF Shutdown, Marked, Closing, DestroysMapped, Destroying
  <2>2. ReadyIsMapped'
    BY <1>12 DEF Shutdown, Marked, ReadyIsMapped
  <2>3. QED
    BY <2>1, <2>2
<1>13. CASE UNCHANGED <<sessions, status, destroyer, name>>
  BY <1>13 DEF DestroysMapped, ReadyIsMapped, Destroying
<1>14. CASE ProcessEnds
  BY <1>14 DEF ProcessEnds, DestroysMapped, ReadyIsMapped, Destroying, NoTask
<1>15. QED
  BY <1>1, <1>2, <1>3, <1>4, <1>5, <1>6, <1>7, <1>8, <1>9, <1>10, <1>11, <1>12, <1>13, <1>14
     DEF Next, CreateStep, DestroyStep, ProcessStep, Spawn, Join, RunFails, PortsPublished,
     PortsTimeOut, KernelNotReady, CannotUse, RollbackFails, CreateFails, FailToRemove,
     GoIdle, Touch, SandboxDies, Exits, ShutdownDone, Crash, Restart, vars, volatile

\* Under that condition a READY session can be reached under its id: get_or_create
\* returns it, and exec and DELETE find it.
THEOREM ReadyIsReachable == ~SlowRemoval => (Spec => []ReadyIsMapped)
<1> SUFFICES ASSUME ~SlowRemoval
             PROVE  Spec => []ReadyIsMapped
  OBVIOUS
<1>1. Init => MInv
  BY InitInv DEF Init, MInv, DestroysMapped, ReadyIsMapped, Destroying, NoTask
<1>2. MInv /\ [Next]_vars => MInv'
  BY MInvStep
<1>3. MInv => ReadyIsMapped
  BY DEF MInv
<1>4. QED
  BY <1>1, <1>2, <1>3, PTL DEF Spec

-----------------------------------------------------------------------------
(***************************************************************************)
(* The containers that nothing in the gateway refers to: a container left  *)
(* behind blocks its conversation, and while Docker starts and removes     *)
(* containers, in time, none is left behind.                               *)
(***************************************************************************)
\* Every container has the name of a session.
Named == \A c \in Cids : Exists(c) => name[c] \in Sids

NInv == IInv /\ Named

\* Only Run and StartFails give names, and they give that of a session.
LEMMA NamedStep == NInv /\ [Next]_vars => NInv'
<1> SUFFICES ASSUME NInv, [Next]_vars
             PROVE  Named'
  BY InvStep DEF NInv
<1> USE DEF NInv, IInv, TypeOK, DockerTypeOK, dockerVars, createVars, sessionVars,
            destroyVars, Named, Exists
<1>1. ASSUME NEW r \in Reqs, Run(r) \/ StartFails(r)
      PROVE  Named'
  <2>1. task[r].pc = "run"
    BY <1>1 DEF Run, StartFails
  <2>2. task[r].sid \in Sids
    BY <2>1 DEF TasksOwn, TaskOwns, TaskActive
  <2>3. PICK c \in Cids, how \in {"running", "stopped"} : Launch(c, task[r].sid, how)
    BY <1>1 DEF Run, StartFails
  <2>4. QED
    BY <2>2, <2>3 DEF Launch
<1>2. ASSUME NEW r \in Reqs, Rollback(r)
      PROVE  Named'
  BY <1>2 DEF Rollback, Remove
<1>3. ASSUME NEW r \in Reqs, RollbackFails(r)
      PROVE  Named'
  BY <1>3 DEF RollbackFails, FailToRemove, TasksOwn, TaskOwns, TaskActive
<1>4. ASSUME NEW d \in Destroyers, Kill(d)
      PROVE  Named'
  BY <1>4 DEF Kill, Remove
<1>5. ASSUME NEW d \in Destroyers, KillFails(d)
      PROVE  Named'
  BY <1>5 DEF KillFails, FailToRemove, DestroysOwn, DestroyOwns, Destroying
<1>6. ASSUME NEW c \in Cids, SandboxDies(c)
      PROVE  Named'
  BY <1>6 DEF SandboxDies, Exits
<1>7. CASE UNCHANGED dockerVars
  BY <1>7
<1>8. QED
  BY <1>1, <1>2, <1>3, <1>4, <1>5, <1>6, <1>7
     DEF Next, CreateStep, DestroyStep, ProcessStep, Spawn, Join, Delete, RunFails,
         PortsPublished, PortsTimeOut, KernelNotReady, CannotUse, KernelReady, FinishDelete,
         KernelClosed, FinishVictim, ReaperScan, GoIdle, Touch, Shutdown, ShutdownDone, Crash,
         ProcessEnds, Restart, vars, volatile

\* An orphan stays, and no step puts a session of its conversation in the map.
Blocks(c) ==
    /\ Orphan(c)'
    /\ sessions'[name[c]] # None => sessions'[name[c]] = sessions[name[c]]

LEMMA OrphanStep == NInv /\ [Next]_vars => \A c \in Orphans : Blocks(c)
<1> SUFFICES ASSUME NInv, [Next]_vars, NEW c \in Cids, Orphan(c)
             PROVE  Blocks(c)
  BY DEF Orphans
<1> USE DEF NInv, IInv, TypeOK, DockerTypeOK, dockerVars, createVars, sessionVars,
            destroyVars, Named, Exists, Orphan, Blocks,
            Destroyers, Sweepers
<1>1. ASSUME NEW r \in Reqs, NEW s \in Sids, Spawn(r, s) \/ Join(r, s)
      PROVE  Blocks(c)
  BY <1>1, DistinctNames DEF Spawn, InFlight, Join
<1>2. ASSUME NEW r \in Reqs, NEW s \in Sids, Delete(r, s)
      PROVE  Blocks(c)
  BY <1>2 DEF Delete, Marked, Closing
<1>3. ASSUME NEW r \in Reqs, Run(r)
      PROVE  Blocks(c)
  BY <1>3 DEF Run, Launch, Fresh
<1>4. ASSUME NEW r \in Reqs, RunFails(r)
      PROVE  Blocks(c)
  BY <1>4, DistinctNames DEF RunFails, CreateFails, TaskEnds, NoTask
<1>5. ASSUME NEW r \in Reqs, StartFails(r)
      PROVE  Blocks(c)
  <2>1. PICK n \in Cids : Fresh(n) /\ Launch(n, task[r].sid, "stopped")
    BY <1>5 DEF StartFails
  <2>2. n # c
    BY <2>1 DEF Fresh
  <2>3. container'[c] = container[c] /\ name'[c] = name[c]
    BY <2>1, <2>2 DEF Launch
  <2>4. /\ task' = [task EXCEPT ![r] = NoTask]
        /\ UNCHANGED <<sessions, destroyer>>
    BY <1>5 DEF StartFails, CreateFails, TaskEnds
  <2>5. \A q \in Reqs : task'[q].c # c
    BY <2>4, DistinctNames DEF NoTask
  <2>6. QED
    BY <2>3, <2>4, <2>5
<1>6. ASSUME NEW r \in Reqs, PortsPublished(r) \/ CannotUse(r)
      PROVE  Blocks(c)
  <2>1. PICK pc \in TaskPc : task' = [task EXCEPT ![r].pc = pc]
    BY <1>6 DEF PortsPublished, CannotUse, TaskPc
  <2>2. \A q \in Reqs : task'[q].c = task[q].c
    BY <2>1
  <2>3. UNCHANGED <<sessions, destroyer, container, name>>
    BY <1>6 DEF PortsPublished, CannotUse
  <2>4. QED
    BY <2>2, <2>3
<1>7. ASSUME NEW r \in Reqs, KernelReady(r)
      PROVE  Blocks(c)
  BY <1>7, DistinctNames
     DEF KernelReady, TaskEnds, NoTask, TasksOwn, TaskOwns, TaskActive, NamesUnique
<1>8. ASSUME NEW r \in Reqs, Rollback(r) \/ RollbackFails(r)
      PROVE  Blocks(c)
  BY <1>8, DistinctNames
     DEF Rollback, RollbackFails, Remove, FailToRemove, CreateFails, TaskEnds, NoTask
<1>9. ASSUME NEW d \in Destroyers, KernelClosed(d)
      PROVE  Blocks(c)
  BY <1>9 DEF KernelClosed
<1>10. ASSUME NEW d \in Destroyers, Kill(d) \/ KillFails(d)
       PROVE  Blocks(c)
  BY <1>10 DEF Kill, KillFails, Remove, FailToRemove
<1>11. ASSUME NEW r \in Reqs, FinishDelete(r)
       PROVE  Blocks(c)
  BY <1>11, DistinctNames DEF FinishDelete, MapAfter, NoTask
<1>12. ASSUME NEW d \in Sweepers, FinishVictim(d)
       PROVE  Blocks(c)
  BY <1>12, DistinctNames DEF FinishVictim, MapAfter, NoTask, Closing, Destroyable
<1>13. CASE ReaperScan
  BY <1>13 DEF ReaperScan, Marked, Stale, Closing
<1>14. CASE Shutdown
  BY <1>14 DEF Shutdown, Marked, Mapped, Closing
<1>15. CASE ProcessEnds
  BY <1>15, DistinctNames DEF ProcessEnds, NoTask
<1>16. CASE UNCHANGED <<sessions, task, destroyer, dockerVars>>
  BY <1>16
<1>17. ASSUME NEW e \in Cids, SandboxDies(e)
       PROVE  Blocks(c)
  BY <1>17 DEF SandboxDies, Exits, volatile
<1>18. QED
  BY <1>1, <1>2, <1>3, <1>4, <1>5, <1>6, <1>7, <1>8, <1>9, <1>10, <1>11, <1>12, <1>13, <1>14,
     <1>15, <1>16, <1>17
     DEF Next, CreateStep, DestroyStep, ProcessStep, PortsTimeOut, KernelNotReady, GoIdle,
         Touch, ShutdownDone, Crash, Restart, vars, volatile

\* A container that is left behind is never adopted nor removed, and its
\* conversation is refused a session for as long as it exists.
THEOREM OrphansBlock == Spec => OrphanBlocksConversation
<1>1. Init => NInv
  BY InitInv DEF Init, DockerInit, NInv, Named, Exists
<1>2. NInv /\ [Next]_vars =>
        [\A c \in Orphans :
            /\ c \in Orphans'
            /\ sessions'[name[c]] # None => sessions'[name[c]] = sessions[name[c]]]_vars
  BY OrphanStep DEF Blocks, Orphans
<1>3. QED
  BY <1>1, <1>2, NamedStep, PTL DEF Spec, OrphanBlocksConversation

-----------------------------------------------------------------------------
(***************************************************************************)
(* No container is left behind while the process lives.                    *)
(***************************************************************************)
\* What is idle refers to no container.
IdleIsEmpty ==
    /\ \A r \in Reqs : ~TaskActive(r) => task[r] = NoTask
    /\ \A d \in Destroyers : ~Destroying(d) => destroyer[d] = NoTask

\* shutdown() destroys sessions only while the process is stopping.
LifespanOnlyStops == Destroying(Lifespan) => phase = "stopping"

\* A session is marked DESTROYING only while a destroy() works on it.
MarkedIsDestroyed ==
    \A c \in Cids : status[c] = "destroying" =>
        \E d \in Destroyers : Destroying(d) /\ destroyer[d].c = c

\* A create, and a destroy of a client, are at work only while the process is up: the
\* server drains the requests before the lifespan goes on, and each create has one.
RequestsWhileUp == \A r \in Reqs : TaskActive(r) \/ Destroying(r) => phase = "up"

LInv == MInv /\ IdleIsEmpty /\ LifespanOnlyStops /\ MarkedIsDestroyed /\ RequestsWhileUp

\* They hold at the start.
LEMMA LInvInit == Init => LInv
  BY InitInv DEF Init, LInv, MInv, DestroysMapped, ReadyIsMapped, Destroying, TaskActive, NoTask,
                 IdleIsEmpty, LifespanOnlyStops, MarkedIsDestroyed, RequestsWhileUp, Destroyers,
                 Sweepers

\* Every step keeps these facts, whatever Docker does.
LEMMA LInvStep == ~SlowRemoval /\ LInv /\ [Next]_vars => LInv'
<1> DEFINE Extra == IdleIsEmpty /\ LifespanOnlyStops /\ MarkedIsDestroyed /\ RequestsWhileUp
<1> SUFFICES ASSUME ~SlowRemoval, LInv, [Next]_vars
             PROVE  Extra'
  BY MInvStep DEF LInv
<1> USE DEF LInv, MInv, IInv, TypeOK, DockerTypeOK, dockerVars, createVars, sessionVars,
            destroyVars, Destroyers, Sweepers, Exists
<1>1. ASSUME NEW r \in Reqs, NEW s \in Sids, Spawn(r, s) \/ Join(r, s)
      PROVE  Extra'
  <2>1. IdleIsEmpty'
    BY <1>1 DEF Spawn, InFlight, Join, IdleIsEmpty, TaskActive, Destroying, NoTask
  <2>2. LifespanOnlyStops'
    BY <1>1 DEF Spawn, InFlight, Join, LifespanOnlyStops, Destroying
  <2>3. MarkedIsDestroyed'
    BY <1>1 DEF Spawn, InFlight, Join, MarkedIsDestroyed, Destroying
  <2>4. RequestsWhileUp'
    BY <1>1 DEF Spawn, InFlight, Join, Free, RequestsWhileUp, TaskActive, Destroying
  <2>5. QED
    BY <2>1, <2>2, <2>3, <2>4
<1>2. ASSUME NEW r \in Reqs, NEW s \in Sids, Delete(r, s)
      PROVE  Extra'
  <2>1. IdleIsEmpty'
    BY <1>2 DEF Delete, Marked, Closing, IdleIsEmpty, TaskActive, Destroying, NoTask
  <2>2. LifespanOnlyStops'
    BY <1>2, DistinctNames DEF Delete, Marked, Closing, LifespanOnlyStops, Destroying
  <2>3. MarkedIsDestroyed'
    BY <1>2 DEF Delete, Marked, Closing, Free, MarkedIsDestroyed, Destroying
  <2>4. RequestsWhileUp'
    BY <1>2 DEF Delete, Closing, Free, RequestsWhileUp, TaskActive, Destroying
  <2>5. QED
    BY <2>1, <2>2, <2>3, <2>4
<1>3. ASSUME NEW r \in Reqs, Run(r) \/ StartFails(r)
      PROVE  Extra'
  <2>1. IdleIsEmpty'
    BY <1>3 DEF Run, StartFails, CreateFails, TaskEnds, IdleIsEmpty, TaskActive,
                Destroying, NoTask
  <2>2. LifespanOnlyStops'
    BY <1>3 DEF Run, StartFails, CreateFails, TaskEnds, LifespanOnlyStops, Destroying
  <2>3. MarkedIsDestroyed'
    BY <1>3 DEF Run, StartFails, CreateFails, TaskEnds, MarkedIsDestroyed, Destroying
  <2>4. RequestsWhileUp'
    BY <1>3 DEF Run, StartFails, CreateFails, TaskEnds, NoTask, RequestsWhileUp,
                TaskActive, Destroying
  <2>5. QED
    BY <2>1, <2>2, <2>3, <2>4
<1>4. ASSUME NEW r \in Reqs,
             RunFails(r) \/ PortsPublished(r) \/ PortsTimeOut(r) \/ KernelNotReady(r)
      PROVE  Extra'
  <2>1. IdleIsEmpty'
    BY <1>4 DEF RunFails, PortsPublished, PortsTimeOut,
                KernelNotReady, CannotUse, CreateFails, TaskEnds, IdleIsEmpty, TaskActive,
                Destroying, NoTask
  <2>2. LifespanOnlyStops'
    BY <1>4 DEF RunFails, PortsPublished, PortsTimeOut,
                KernelNotReady, CannotUse, CreateFails, TaskEnds, LifespanOnlyStops, Destroying
  <2>3. MarkedIsDestroyed'
    BY <1>4 DEF RunFails, PortsPublished, PortsTimeOut,
                KernelNotReady, CannotUse, CreateFails, TaskEnds, MarkedIsDestroyed, Destroying
  <2>4. RequestsWhileUp'
    <3>1. phase' = phase /\ destroyer' = destroyer /\ TaskActive(r)
      BY <1>4 DEF RunFails, PortsPublished, PortsTimeOut,
                KernelNotReady, CannotUse, CreateFails, TaskActive
    <3>2. \A q \in Reqs : q # r => task'[q] = task[q]
      BY <1>4 DEF RunFails, PortsPublished, PortsTimeOut,
                KernelNotReady, CannotUse, CreateFails, TaskEnds
    <3>3. QED
      BY <3>1, <3>2 DEF RequestsWhileUp, TaskActive, Destroying
  <2>5. QED
    BY <2>1, <2>2, <2>3, <2>4
<1>5. ASSUME NEW r \in Reqs, KernelReady(r)
      PROVE  Extra'
  <2>1. IdleIsEmpty'
    BY <1>5 DEF KernelReady, TaskEnds, IdleIsEmpty, TaskActive, Destroying, NoTask
  <2>2. LifespanOnlyStops'
    BY <1>5 DEF KernelReady, TaskEnds, LifespanOnlyStops, Destroying
  <2>3. MarkedIsDestroyed'
    BY <1>5 DEF KernelReady, TaskEnds, TasksOwn, TaskOwns, MarkedIsDestroyed, Destroying,
                TaskActive
  <2>4. RequestsWhileUp'
    BY <1>5 DEF KernelReady, TaskEnds, NoTask, RequestsWhileUp, TaskActive, Destroying
  <2>5. QED
    BY <2>1, <2>2, <2>3, <2>4
<1>6. ASSUME NEW r \in Reqs, Rollback(r) \/ RollbackFails(r)
      PROVE  Extra'
  <2>1. IdleIsEmpty'
    BY <1>6 DEF Rollback, RollbackFails, CreateFails, TaskEnds, IdleIsEmpty, TaskActive,
                Destroying, NoTask
  <2>2. LifespanOnlyStops'
    BY <1>6 DEF Rollback, RollbackFails, CreateFails, TaskEnds, LifespanOnlyStops, Destroying
  <2>3. MarkedIsDestroyed'
    BY <1>6 DEF Rollback, RollbackFails, CreateFails, TaskEnds, MarkedIsDestroyed, Destroying
  <2>4. RequestsWhileUp'
    BY <1>6 DEF Rollback, RollbackFails, CreateFails, TaskEnds, NoTask, RequestsWhileUp,
                TaskActive, Destroying
  <2>5. QED
    BY <2>1, <2>2, <2>3, <2>4
<1>7. ASSUME NEW d \in Destroyers, KernelClosed(d) \/ Kill(d) \/ KillFails(d)
      PROVE  Extra'
  <2>1. IdleIsEmpty'
    BY <1>7 DEF KernelClosed, Kill, KillFails, IdleIsEmpty, TaskActive, Destroying, NoTask
  <2>2. LifespanOnlyStops'
    BY <1>7 DEF KernelClosed, Kill, KillFails, LifespanOnlyStops, Destroying
  <2>3. MarkedIsDestroyed'
    BY <1>7 DEF KernelClosed, Kill, KillFails, MarkedIsDestroyed, Destroying
  <2>4. RequestsWhileUp'
    BY <1>7 DEF KernelClosed, Kill, KillFails, RequestsWhileUp, TaskActive, Destroying
  <2>5. QED
    BY <2>1, <2>2, <2>3, <2>4
<1>8. ASSUME NEW r \in Reqs, FinishDelete(r)
      PROVE  Extra'
  <2>1. IdleIsEmpty'
    BY <1>8 DEF FinishDelete, IdleIsEmpty, TaskActive, Destroying, NoTask
  <2>2. LifespanOnlyStops'
    BY <1>8 DEF FinishDelete, NoTask, LifespanOnlyStops, Destroying
  <2>3. MarkedIsDestroyed'
    BY <1>8 DEF FinishDelete, StatusAfter, NoTask, MarkedIsDestroyed, Destroying
  <2>4. RequestsWhileUp'
    BY <1>8 DEF FinishDelete, NoTask, RequestsWhileUp, TaskActive, Destroying
  <2>5. QED
    BY <2>1, <2>2, <2>3, <2>4
<1>9. ASSUME NEW d \in Sweepers, FinishVictim(d)
      PROVE  Extra'
  <2>1. IdleIsEmpty'
    BY <1>9 DEF FinishVictim, Closing, IdleIsEmpty, TaskActive, Destroying, NoTask
  <2>2. LifespanOnlyStops'
    BY <1>9 DEF FinishVictim, Closing, NoTask, LifespanOnlyStops, Destroying
  <2>3. MarkedIsDestroyed'
    BY <1>9 DEF FinishVictim, StatusAfter, MapAfter, Closing, NoTask, Destroyable,
                MarkedIsDestroyed, Destroying
  <2>4. RequestsWhileUp'
    BY <1>9, DistinctNames DEF FinishVictim, RequestsWhileUp, TaskActive, Destroying
  <2>5. QED
    BY <2>1, <2>2, <2>3, <2>4
<1>10. CASE ReaperScan
  <2>1. IdleIsEmpty'
    BY <1>10 DEF ReaperScan, Marked, Closing, IdleIsEmpty, TaskActive, Destroying, NoTask
  <2>2. LifespanOnlyStops'
    BY <1>10, DistinctNames DEF ReaperScan, Marked, Closing, LifespanOnlyStops, Destroying
  <2>3. MarkedIsDestroyed'
    BY <1>10 DEF ReaperScan, Marked, Closing, Stale, MarkedIsDestroyed, Destroying
  <2>4. RequestsWhileUp'
    BY <1>10, DistinctNames DEF ReaperScan, RequestsWhileUp, TaskActive, Destroying
  <2>5. QED
    BY <2>1, <2>2, <2>3, <2>4
<1>11. CASE Shutdown
  <2>1. IdleIsEmpty'
    BY <1>11 DEF Shutdown, Marked, Closing, IdleIsEmpty, TaskActive, Destroying, NoTask
  <2>2. LifespanOnlyStops'
    BY <1>11 DEF Shutdown, Marked, Closing, LifespanOnlyStops, Destroying
  <2>3. MarkedIsDestroyed'
    BY <1>11 DEF Shutdown, Marked, Closing, Mapped, LifespanOnlyStops, Destroyable,
                 MarkedIsDestroyed, Destroying
  <2>4. RequestsWhileUp'
    BY <1>11, DistinctNames DEF Shutdown, Drained, TasksOwn, TaskOwns, RequestsWhileUp,
                                TaskActive, Destroying
  <2>5. QED
    BY <2>1, <2>2, <2>3, <2>4
<1>12. CASE ProcessEnds
  <2>1. IdleIsEmpty'
    BY <1>12 DEF ProcessEnds, IdleIsEmpty, TaskActive, Destroying, NoTask
  <2>2. LifespanOnlyStops'
    BY <1>12 DEF ProcessEnds, NoTask, LifespanOnlyStops, Destroying
  <2>3. MarkedIsDestroyed'
    BY <1>12 DEF ProcessEnds, NoTask, MarkedIsDestroyed, Destroying
  <2>4. RequestsWhileUp'
    BY <1>12 DEF ProcessEnds, NoTask, RequestsWhileUp, TaskActive, Destroying
  <2>5. QED
    BY <2>1, <2>2, <2>3, <2>4
<1>13. CASE Restart
  <2>1. IdleIsEmpty'
    BY <1>13 DEF Restart, volatile, IdleIsEmpty, TaskActive, Destroying, NoTask
  <2>2. LifespanOnlyStops'
    BY <1>13 DEF Restart, volatile, LifespanOnlyStops, Destroying
  <2>3. MarkedIsDestroyed'
    BY <1>13 DEF Restart, volatile, MarkedIsDestroyed, Destroying
  <2>4. RequestsWhileUp'
    BY <1>13 DEF Restart, volatile, RequestsWhileUp, TaskActive, Destroying
  <2>5. QED
    BY <2>1, <2>2, <2>3, <2>4
<1>14. CASE UNCHANGED <<phase, status, task, destroyer, dockerVars>>
  <2>1. IdleIsEmpty'
    BY <1>14 DEF IdleIsEmpty, TaskActive, Destroying, NoTask
  <2>2. LifespanOnlyStops'
    BY <1>14 DEF LifespanOnlyStops, Destroying
  <2>3. MarkedIsDestroyed'
    BY <1>14 DEF MarkedIsDestroyed, Destroying
  <2>4. RequestsWhileUp'
    BY <1>14 DEF RequestsWhileUp, TaskActive, Destroying
  <2>5. QED
    BY <2>1, <2>2, <2>3, <2>4
<1>15. ASSUME NEW c \in Cids, SandboxDies(c)
       PROVE  Extra'
  <2>1. QED
    BY <1>15 DEF SandboxDies, volatile, IdleIsEmpty, LifespanOnlyStops, MarkedIsDestroyed,
           RequestsWhileUp, TaskActive, Destroying, NoTask
<1>16. QED
  BY <1>1, <1>2, <1>3, <1>4, <1>5, <1>6, <1>7, <1>8, <1>9, <1>10, <1>11, <1>12, <1>13,
     <1>14, <1>15
     DEF Next, CreateStep, DestroyStep, ProcessStep, GoIdle, Touch, ShutdownDone, Crash,
         vars, volatile

\* Docker starts and removes every container it is asked to.
DockerObeys == Failures \cap {"start", "kill"} = {}

\* Once the worker thread is through, the container is gone.
KilledIsGone == \A d \in Destroyers : destroyer[d].pc = "killed" => ~Exists(destroyer[d].c)

HInv == LInv /\ KilledIsGone

\* Every step keeps this as well.
LEMMA HInvStep == ~SlowRemoval /\ DockerObeys /\ HInv /\ [Next]_vars => HInv'
<1> SUFFICES ASSUME ~SlowRemoval, DockerObeys, HInv, [Next]_vars
             PROVE  KilledIsGone'
  BY LInvStep DEF HInv
<1> USE DEF HInv, LInv, MInv, IInv, TypeOK, DockerTypeOK, dockerVars, createVars, sessionVars,
            destroyVars, Destroyers, Sweepers, Exists,
            DockerObeys
<1>1. ASSUME NEW r \in Reqs, NEW s \in Sids, Spawn(r, s) \/ Join(r, s)
      PROVE  KilledIsGone'
  BY <1>1 DEF Spawn, InFlight, Join, KilledIsGone
<1>2. ASSUME NEW r \in Reqs, NEW s \in Sids, Delete(r, s)
      PROVE  KilledIsGone'
  BY <1>2 DEF Delete, Marked, Closing, KilledIsGone
<1>3. ASSUME NEW r \in Reqs, Run(r)
      PROVE  KilledIsGone'
  BY <1>3 DEF Run, Launch, Fresh, KilledIsGone, DestroysOwn, DestroyOwns, Destroying
<1>4. ASSUME NEW r \in Reqs, RunFails(r) \/ PortsPublished(r) \/ CannotUse(r)
      PROVE  KilledIsGone'
  BY <1>4 DEF RunFails, PortsPublished, CannotUse, CreateFails, TaskEnds, KilledIsGone
<1>5. ASSUME NEW r \in Reqs, KernelReady(r)
      PROVE  KilledIsGone'
  BY <1>5 DEF KernelReady, TaskEnds, KilledIsGone
<1>6. ASSUME NEW r \in Reqs, Rollback(r)
      PROVE  KilledIsGone'
  BY <1>6 DEF Rollback, Remove, CreateFails, TaskEnds, KilledIsGone
<1>7. ASSUME NEW d \in Destroyers, KernelClosed(d) \/ Kill(d)
      PROVE  KilledIsGone'
  <2>1. \A e \in Destroyers : e # d => destroyer'[e] = destroyer[e]
    BY <1>7 DEF KernelClosed, Kill
  <2>2. \A e \in Cids : ~Exists(e) => container'[e] = "absent"
    BY <1>7 DEF KernelClosed, Kill, Remove
  <2>3. \A e \in Destroyers : destroyer[e].pc = "killed" => destroyer[e].c \in Cids
    BY DEF DestroysOwn, DestroyOwns, Destroying
  <2>4. CASE KernelClosed(d)
    BY <2>1, <2>2, <2>3, <2>4 DEF KernelClosed, KilledIsGone
  <2>5. CASE Kill(d)
    <3>1. destroyer'[d].c \in Cids /\ container'[destroyer'[d].c] = "absent"
      BY <2>5 DEF Kill, Remove, DestroysOwn, DestroyOwns, Destroying
    <3>2. QED
      BY <2>1, <2>2, <2>3, <3>1 DEF KilledIsGone
  <2>6. QED
    BY <1>7, <2>4, <2>5
<1>8. ASSUME NEW r \in Reqs, FinishDelete(r)
      PROVE  KilledIsGone'
  BY <1>8 DEF FinishDelete, NoTask, KilledIsGone
<1>9. ASSUME NEW d \in Sweepers, FinishVictim(d)
      PROVE  KilledIsGone'
  <2>1. destroyer'[d].pc # "killed"
    BY <1>9 DEF FinishVictim, Closing, NoTask
  <2>2. \A e \in Destroyers : e # d => destroyer'[e] = destroyer[e]
    BY <1>9 DEF FinishVictim
  <2>3. UNCHANGED container
    BY <1>9 DEF FinishVictim
  <2>4. QED
    BY <2>1, <2>2, <2>3 DEF KilledIsGone
<1>10. CASE ReaperScan
  BY <1>10 DEF ReaperScan, Marked, Closing, KilledIsGone
<1>11. CASE Shutdown
  BY <1>11 DEF Shutdown, Marked, Closing, KilledIsGone
<1>12. CASE ProcessEnds
  BY <1>12 DEF ProcessEnds, NoTask, KilledIsGone
<1>13. CASE Restart
  BY <1>13 DEF Restart, volatile, KilledIsGone
<1>14. CASE UNCHANGED <<phase, status, task, destroyer, dockerVars>>
  BY <1>14 DEF KilledIsGone
<1>15. ASSUME NEW c \in Cids, SandboxDies(c)
       PROVE  KilledIsGone'
  <2>1. \A e \in Cids : container'[e] = "absent" <=> container[e] = "absent"
    BY <1>15 DEF SandboxDies, Exits
  <2>2. QED
    BY <1>15, <2>1 DEF SandboxDies, volatile, KilledIsGone, DestroysOwn, DestroyOwns,
           Destroying
<1>16. QED
  <2>1. \A r \in Reqs : ~RollbackFails(r)
    BY DEF RollbackFails
  <2>2. \A d \in Destroyers : ~KillFails(d)
    BY DEF KillFails
  <2>3. \A r \in Reqs : ~StartFails(r)
    BY DEF StartFails
  <2>4. QED
    BY <1>1, <1>2, <1>3, <1>4, <1>5, <1>6, <1>7, <1>8, <1>9, <1>10, <1>11, <1>12, <1>13,
       <1>14, <1>15, <2>1, <2>2, <2>3
       DEF Next, CreateStep, DestroyStep, ProcessStep, PortsTimeOut, KernelNotReady, GoIdle,
           Touch, ShutdownDone, Crash, vars, volatile

\* No step that leaves the process alive makes an orphan.
LEMMA NoNewOrphan ==
    ~SlowRemoval /\ DockerObeys /\ HInv /\ [Next]_vars =>
        (phase' # "down" => Orphans' \subseteq Orphans)
<1> SUFFICES ASSUME ~SlowRemoval, DockerObeys, HInv, [Next]_vars, phase' # "down",
                    NEW c \in Cids, Orphan(c)'
             PROVE  Orphan(c)
  BY DEF Orphans
<1> USE DEF HInv, LInv, MInv, IInv, TypeOK, DockerTypeOK, dockerVars, createVars, sessionVars,
            destroyVars, Destroyers, Sweepers, Exists,
            Orphan, DockerObeys
<1>1. ASSUME NEW r \in Reqs, NEW s \in Sids, Spawn(r, s) \/ Join(r, s)
      PROVE  Orphan(c)
  <2>1. UNCHANGED <<sessions, destroyer, dockerVars>> /\ \A q \in Reqs : q # r => task'[q] = task[q]
    BY <1>1 DEF Spawn, Join, sessionVars
  <2>2. ~TaskActive(r)
    BY <1>1, DistinctNames DEF Spawn, Join, Free, TasksOwn, TaskOwns
  <2>3. task[r].c # c
    BY <2>2, DistinctNames DEF IdleIsEmpty, NoTask
  <2>4. \A q \in Reqs : task[q].c # c
    BY <2>1, <2>3
  <2>5. QED
    BY <2>1, <2>4
<1>2. ASSUME NEW r \in Reqs, NEW s \in Sids, Delete(r, s)
      PROVE  Orphan(c)
  BY <1>2, DistinctNames DEF Delete, Marked, Free, IdleIsEmpty, NoTask
<1>3. ASSUME NEW r \in Reqs, Run(r)
      PROVE  Orphan(c)
  BY <1>3, DistinctNames DEF Run, Launch, TasksOwn, TaskOwns, TaskActive
<1>4. ASSUME NEW r \in Reqs, RunFails(r)
      PROVE  Orphan(c)
  BY <1>4, DistinctNames DEF RunFails, CreateFails, TaskEnds, TasksOwn, TaskOwns, TaskActive
<1>5. ASSUME NEW r \in Reqs, PortsPublished(r) \/ CannotUse(r)
      PROVE  Orphan(c)
  BY <1>5 DEF PortsPublished, CannotUse
<1>6. ASSUME NEW r \in Reqs, KernelReady(r)
      PROVE  Orphan(c)
  <2> DEFINE s == task[r].sid
  <2>1. /\ s \in Sids
        /\ task[r].c \in Cids
        /\ Exists(task[r].c)
        /\ name[task[r].c] = s
        /\ status[task[r].c] = "none"
    BY <1>6 DEF KernelReady, TasksOwn, TaskOwns, TaskActive
  <2>2. ~Ready(s)
    BY <2>1 DEF Ready, MapWellFormed, ReadyHasContainer, NamesUnique
  <2>3. sessions[s] # None => \E d \in Destroyers : Destroying(d) /\ destroyer[d].c = sessions[s]
    BY <2>1, <2>2 DEF Ready, MapWellFormed, MarkedIsDestroyed
  <2>4. \A d \in Destroyers : destroyer[d].c # c
    BY <1>6 DEF KernelReady
  <2>5. sessions' = [sessions EXCEPT ![s] = task[r].c]
    BY <1>6 DEF KernelReady
  <2>6. task[r].c # c
    BY <2>1, <2>5
  <2>7. \A v \in Sids : sessions[v] # c
    BY <2>1, <2>3, <2>4, <2>5, DistinctNames
  <2>8. \A q \in Reqs : task[q].c # c
    BY <1>6, <2>6 DEF KernelReady, TaskEnds
  <2>9. QED
    BY <1>6, <2>4, <2>7, <2>8 DEF KernelReady
<1>7. ASSUME NEW r \in Reqs, Rollback(r)
      PROVE  Orphan(c)
  BY <1>7 DEF Rollback, Remove, CreateFails, TaskEnds
<1>8. ASSUME NEW d \in Destroyers, KernelClosed(d) \/ Kill(d)
      PROVE  Orphan(c)
  BY <1>8 DEF KernelClosed, Kill, Remove
<1>9. ASSUME NEW r \in Reqs, FinishDelete(r)
      PROVE  Orphan(c)
  BY <1>9 DEF FinishDelete, MapAfter, DestroysMapped, Destroying, KilledIsGone
<1>10. ASSUME NEW d \in Sweepers, FinishVictim(d)
       PROVE  Orphan(c)
  <2>1. ~Exists(destroyer[d].c) /\ sessions[destroyer[d].sid] = destroyer[d].c
    BY <1>10 DEF FinishVictim, DestroysMapped, Destroying, KilledIsGone
  <2>2. Exists(c) /\ destroyer[d].c # c
    BY <1>10, <2>1 DEF FinishVictim
  <2>3. \A s \in Sids : sessions[s] # c
    BY <1>10, <2>1, <2>2 DEF FinishVictim, MapAfter
  <2>4. \A e \in Destroyers : destroyer[e].c # c
    <3>1. \A e \in Destroyers : e # d => destroyer'[e] = destroyer[e]
      BY <1>10 DEF FinishVictim
    <3>2. QED
      BY <2>2, <3>1
  <2>5. QED
    BY <1>10, <2>2, <2>3, <2>4 DEF FinishVictim
<1>11. CASE ReaperScan
  BY <1>11, DistinctNames DEF ReaperScan, Marked, IdleIsEmpty, NoTask
<1>12. CASE Shutdown
  BY <1>12, DistinctNames DEF Shutdown, Marked, IdleIsEmpty, LifespanOnlyStops, NoTask
<1>13. CASE UNCHANGED <<sessions, task, destroyer, dockerVars>>
  BY <1>13
<1>14. ASSUME NEW e \in Cids, SandboxDies(e)
       PROVE  Orphan(c)
  BY <1>14 DEF SandboxDies, Exits, volatile
<1>15. QED
  <2>1. \A r \in Reqs : ~RollbackFails(r) /\ ~StartFails(r)
    BY DEF RollbackFails, StartFails
  <2>2. \A d \in Destroyers : ~KillFails(d)
    BY DEF KillFails
  <2>3. QED
    BY <1>1, <1>2, <1>3, <1>4, <1>5, <1>6, <1>7, <1>8, <1>9, <1>10, <1>11, <1>12, <1>13,
       <1>14, <2>1, <2>2
       DEF Next, CreateStep, DestroyStep, ProcessStep, PortsTimeOut, KernelNotReady, GoIdle,
           Touch, ShutdownDone, Crash, ProcessEnds, Restart, vars, volatile

\* While Docker starts and removes what it is asked to, in time, no create, destroy,
\* sweep or shutdown leaves a container behind: only the end of the process does.
THEOREM NoneLeftBehind == ~SlowRemoval /\ DockerObeys => (Spec => NeverOrphaned)
<1> SUFFICES ASSUME ~SlowRemoval, DockerObeys
             PROVE  Spec => NeverOrphaned
  OBVIOUS
<1>1. Init => HInv
  <2>1. Init => LInv
    BY LInvInit
  <2>2. Init => KilledIsGone
    BY DEF Init, NoTask, KilledIsGone
  <2>3. QED
    BY <2>1, <2>2 DEF HInv
<1>2. HInv /\ [Next]_vars => HInv'
  BY HInvStep
<1>3. HInv /\ [Next]_vars => [phase' # "down" => Orphans' \subseteq Orphans]_vars
  BY NoNewOrphan
<1>4. QED
  BY <1>1, <1>2, <1>3, PTL DEF Spec, NeverOrphaned

-----------------------------------------------------------------------------
(***************************************************************************)
(* SessionManager implements SessionRegistry, when Docker's answer to a    *)
(* removal comes before the next kernel of the same conversation is up.    *)
(* Every step of the manager is a step of the registry or leaves it as it  *)
(* is; which one, the lemmas say, one per step of the registry.            *)
(***************************************************************************)
\* What the registry's variables stand for.
Opening == {s \in Sids : creating[s] # None}
Serving == [s \in Sids |-> ReadySession(s)]
Closings == {c \in Cids : status[c] = "destroying"}

\* Nothing that the registry knows of.
LEMMA Stutters ==
  ASSUME UNCHANGED <<creating, sessions, status>>
  PROVE  UNCHANGED Registry!registryVars
  BY DEF Registry!registryVars, ReadySession, Ready

\* A request spawns a create task.
LEMMA SpawnBegins ==
  ASSUME MInv, NEW r \in Reqs, NEW s \in Sids, Spawn(r, s)
  PROVE  Registry!Begin(s)
  <1> USE DEF MInv, IInv, TypeOK
  <1>1. s \notin Opening /\ Opening' = Opening \cup {s}
        BY DistinctNames DEF Spawn, InFlight, Opening
  <1>2. Serving[s] = None /\ Serving' = Serving /\ Closings' = Closings
        BY DEF Spawn, Serving, ReadySession, Ready, Closings, sessionVars
  <1>3. QED
        BY <1>1, <1>2 DEF Registry!Begin, Opening, Serving, Closings

\* A create task fails.
LEMMA FailureAborts ==
  ASSUME MInv, NEW r \in Reqs, TaskActive(r), CreateFails(r),
         NEW s \in Sids, s = task[r].sid
  PROVE  Registry!Abort(s)
  <1> USE DEF MInv, IInv, TypeOK
  <1>1. creating[s] = r
        BY DEF TasksOwn, TaskOwns
  <1>2. s \in Opening /\ Opening' = Opening \ {s}
        BY <1>1, DistinctNames DEF CreateFails, TaskEnds, Opening
  <1>3. Serving' = Serving /\ Closings' = Closings
        BY DEF CreateFails, Serving, ReadySession, Ready, Closings, sessionVars
  <1>4. QED
        BY <1>2, <1>3 DEF Registry!Abort, Opening, Serving, Closings

\* A kernel is up: the name of its container tells that no other session of
\* the conversation is READY.
LEMMA KernelAdmits ==
  ASSUME MInv, NEW r \in Reqs, KernelReady(r),
         NEW s \in Sids, s = task[r].sid, NEW c \in Cids, c = task[r].c
  PROVE  Registry!Admit(s, c)
  <1> USE DEF MInv, IInv, TypeOK
  <1>1. /\ creating[s] = r
        /\ Exists(c)
        /\ name[c] = s
        /\ status[c] = "none"
        BY DEF KernelReady, TasksOwn, TaskOwns, TaskActive
  <1>2. s \in Opening /\ Opening' = Opening \ {s}
        BY <1>1, DistinctNames DEF KernelReady, TaskEnds, Opening
  <1>3. ~Ready(s)
        BY <1>1 DEF Ready, MapWellFormed, ReadyHasContainer, NamesUnique
  <1>4. \A v \in Sids : sessions[v] # c
        BY <1>1, DistinctNames DEF MapWellFormed
  <1>5. Serving[s] = None /\ \A v \in Sids : Serving[v] # c
        BY <1>1, <1>3, <1>4, DistinctNames DEF Serving, ReadySession
  <1>6. Serving' = [Serving EXCEPT ![s] = c]
    <2>1. sessions' = [sessions EXCEPT ![s] = c] /\ status' = [status EXCEPT ![c] = "ready"]
          BY DEF KernelReady
    <2>2. ReadySession(s)' = c
          BY <1>1, <2>1, DistinctNames DEF ReadySession, Ready
    <2>3. \A v \in Sids \ {s} : ReadySession(v)' = ReadySession(v)
          BY <1>1, <1>4, <2>1 DEF ReadySession, Ready
    <2>4. QED
          BY <1>1, <2>2, <2>3 DEF Serving
  <1>7. c \notin Closings /\ Closings' = Closings
        BY <1>1 DEF KernelReady, Closings
  <1>8. QED
        BY <1>2, <1>5, <1>6, <1>7 DEF Registry!Admit, Opening, Serving, Closings

\* A session is marked.
LEMMA MarkingCloses ==
  ASSUME MInv, NEW s \in Sids, Ready(s), status' = Marked(s),
         UNCHANGED <<sessions, creating>>
  PROVE  Registry!Close(s)
  <1> USE DEF MInv, IInv, TypeOK
  <1>1. sessions[s] \in Cids /\ Serving[s] = sessions[s] /\ Serving[s] # None
        BY DEF Ready, Serving, ReadySession
  <1>2. Closings' = Closings \cup {sessions[s]}
        BY <1>1 DEF Closings, Marked
  <1>3. Serving' = [Serving EXCEPT ![s] = None]
    <2>1. ReadySession(s)' = None
          BY <1>1 DEF ReadySession, Ready, Marked
    <2>2. \A v \in Sids \ {s} : ReadySession(v)' = ReadySession(v)
          BY <1>1 DEF ReadySession, Ready, Marked, MapWellFormed
    <2>3. QED
          BY <2>1, <2>2 DEF Serving
  <1>4. Opening' = Opening
        BY DEF Opening
  <1>5. QED
        BY <1>1, <1>2, <1>3, <1>4 DEF Registry!Close, Opening, Serving, Closings

\* What a destroy works on is in the map under its id, and nowhere else.
LEMMA DestroyerHas ==
  ASSUME MInv, NEW d \in Destroyers, Destroying(d)
  PROVE  /\ destroyer[d].sid \in Sids
         /\ destroyer[d].c \in Cids
         /\ sessions[destroyer[d].sid] = destroyer[d].c
         /\ status[destroyer[d].c] = "destroying"
         /\ \A v \in Sids : sessions[v] = destroyer[d].c => v = destroyer[d].sid
  BY DEF MInv, IInv, DestroysOwn, DestroyOwns, DestroysMapped

\* The pop at the end of a destroy.
LEMMA PopServes ==
  ASSUME MInv, NEW d \in Destroyers, Destroying(d)
  PROVE  /\ \A v \in Sids : Destroyable(v, MapAfter(d), StatusAfter(d)) <=> Ready(v)
         /\ \A v \in Sids : Ready(v) => /\ v # destroyer[d].sid
                                        /\ MapAfter(d)[v] = sessions[v]
                                        /\ sessions[v] # destroyer[d].c
                                        /\ sessions[v] \in Cids
  <1> USE DEF MInv, IInv, TypeOK, MapAfter, StatusAfter
  <1>1. \A v \in Sids : sessions[v] # None =>
           sessions[v] \in Cids /\ status[sessions[v]] \in {"ready", "destroying"}
        BY DEF MapWellFormed
  <1>2. ASSUME NEW v \in Sids, Ready(v)
        PROVE  /\ v # destroyer[d].sid
               /\ MapAfter(d)[v] = sessions[v]
               /\ sessions[v] # destroyer[d].c
               /\ sessions[v] \in Cids
               /\ Destroyable(v, MapAfter(d), StatusAfter(d))
        BY <1>1, <1>2, DestroyerHas DEF Ready, Destroyable
  <1>3. ASSUME NEW v \in Sids, Destroyable(v, MapAfter(d), StatusAfter(d))
        PROVE  Ready(v)
        BY <1>1, <1>3, DestroyerHas DEF Ready, Destroyable
  <1>4. QED
        BY <1>2, <1>3

\* A destroy ends.
LEMMA PopCloses ==
  ASSUME MInv, NEW d \in Destroyers, Destroying(d),
         sessions' = MapAfter(d), status' = StatusAfter(d), UNCHANGED creating,
         NEW c \in Cids, c = destroyer[d].c
  PROVE  Registry!Closed(c)
  <1> USE DEF MInv, IInv, TypeOK
  <1>1. c \in Closings /\ Closings' = Closings \ {c}
        BY DestroyerHas DEF Closings, StatusAfter
  <1>2. \A v \in Sids : ReadySession(v)' = ReadySession(v)
        BY DestroyerHas DEF ReadySession, Ready, MapAfter, StatusAfter
  <1>3. Serving' = Serving /\ Opening' = Opening
        BY <1>2 DEF Serving, Opening
  <1>4. QED
        BY <1>1, <1>3 DEF Registry!Closed, Opening, Serving, Closings

\* A destroy of a sweep ends and the next one begins.
LEMMA PopClosesNext ==
  ASSUME MInv, NEW d \in Destroyers, Destroying(d), NEW v \in Sids,
         Destroyable(v, MapAfter(d), StatusAfter(d)),
         sessions' = MapAfter(d), UNCHANGED creating,
         status' = [StatusAfter(d) EXCEPT ![MapAfter(d)[v]] = "destroying"],
         NEW c \in Cids, c = destroyer[d].c
  PROVE  Registry!CloseNext(c, v)
  <1> USE DEF MInv, IInv, TypeOK
  <1>1. /\ Ready(v)
        /\ v # destroyer[d].sid
        /\ MapAfter(d)[v] = sessions[v]
        /\ sessions[v] # c
        /\ sessions[v] \in Cids
        BY PopServes
  <1>2. Serving[v] = sessions[v] /\ Serving[v] # None
        BY <1>1 DEF Serving, ReadySession, Ready
  <1>3. /\ c \in Closings
        /\ Closings' = (Closings \ {c}) \cup {sessions[v]}
        BY <1>1, DestroyerHas DEF Closings, StatusAfter
  <1>4. Serving' = [Serving EXCEPT ![v] = None]
    <2>1. ReadySession(v)' = None
          BY <1>1, DestroyerHas DEF ReadySession, Ready, StatusAfter
    <2>2. \A w \in Sids \ {v} : ReadySession(w)' = ReadySession(w)
          BY <1>1, DestroyerHas DEF ReadySession, Ready, MapAfter, StatusAfter, MapWellFormed
    <2>3. QED
          BY <2>1, <2>2 DEF Serving
  <1>5. Opening' = Opening
        BY DEF Opening
  <1>6. QED
        BY <1>2, <1>3, <1>4, <1>5 DEF Registry!CloseNext, Opening, Serving, Closings

\* The process ends.
LEMMA EndResets ==
  ASSUME ProcessEnds
  PROVE  Registry!Reset
  BY DEF ProcessEnds, Registry!Reset, ReadySession, Ready

-----------------------------------------------------------------------------
\* Every step of the manager is one of the registry, or none.
LEMMA RegistryStep ==
  MInv /\ [Next]_vars => [Registry!RegistryNext]_(Registry!registryVars)
  <1> SUFFICES ASSUME MInv, [Next]_vars
               PROVE  Registry!RegistryNext \/ UNCHANGED Registry!registryVars
      OBVIOUS
  <1> USE DEF Registry!RegistryNext, createVars, sessionVars, destroyVars
  <1>1. ASSUME NEW r \in Reqs, NEW s \in Sids, Spawn(r, s)
        PROVE  Registry!RegistryNext
        BY <1>1, SpawnBegins
  <1>2. ASSUME NEW r \in Reqs, NEW s \in Sids, Delete(r, s)
        PROVE  Registry!RegistryNext
    <2>1. Ready(s)
          BY <1>2 DEF Delete, Destroyable, Ready, MInv, IInv, TypeOK, MapWellFormed
    <2>2. QED
          BY <1>2, <2>1, MarkingCloses DEF Delete
  <1>3. ASSUME NEW r \in Reqs, RunFails(r) \/ StartFails(r) \/ Rollback(r) \/ RollbackFails(r)
        PROVE  Registry!RegistryNext
    <2>1. TaskActive(r) /\ CreateFails(r)
          BY <1>3 DEF RunFails, StartFails, Rollback, RollbackFails, TaskActive
    <2>2. PICK s \in Sids : s = task[r].sid
          BY <2>1 DEF MInv, IInv, TasksOwn, TaskOwns
    <2>3. QED
          BY <2>1, <2>2, FailureAborts
  <1>4. ASSUME NEW r \in Reqs, KernelReady(r)
        PROVE  Registry!RegistryNext
    <2>1. PICK s \in Sids, c \in Cids : s = task[r].sid /\ c = task[r].c
          BY <1>4 DEF KernelReady, MInv, IInv, TasksOwn, TaskOwns, TaskActive
    <2>2. QED
          BY <1>4, <2>1, KernelAdmits
  <1>5. ASSUME NEW r \in Reqs, FinishDelete(r)
        PROVE  Registry!RegistryNext
    <2>1. r \in Destroyers /\ Destroying(r)
          BY <1>5 DEF FinishDelete, Destroying, Destroyers
    <2>2. PICK c \in Cids : c = destroyer[r].c
          BY <2>1, DestroyerHas
    <2>3. QED
          BY <1>5, <2>1, <2>2, PopCloses DEF FinishDelete
  <1>6. ASSUME NEW d \in Sweepers, FinishVictim(d)
        PROVE  Registry!RegistryNext
    <2>1. d \in Destroyers /\ Destroying(d)
          BY <1>6 DEF FinishVictim, Destroying, Destroyers
    <2>2. PICK c \in Cids : c = destroyer[d].c
          BY <2>1, DestroyerHas
    <2>3. sessions' = MapAfter(d) /\ UNCHANGED creating
          BY <1>6 DEF FinishVictim
    <2>4. CASE status' = StatusAfter(d)
          BY <2>1, <2>2, <2>3, <2>4, PopCloses
    <2>5. ASSUME NEW v \in victims[d], Destroyable(v, MapAfter(d), StatusAfter(d)),
                 status' = [StatusAfter(d) EXCEPT ![MapAfter(d)[v]] = "destroying"]
          PROVE  Registry!RegistryNext
      <3>1. v \in Sids
            BY DEF MInv, IInv, TypeOK
      <3>2. QED
            BY <2>1, <2>2, <2>3, <2>5, <3>1, PopClosesNext
    <2>6. QED
          BY <1>6, <2>4, <2>5 DEF FinishVictim
  <1>7. CASE ReaperScan
    <2>1. PICK s \in Stale : status' = Marked(s)
          BY <1>7 DEF ReaperScan
    <2>2. s \in Sids /\ Ready(s)
          BY <2>1 DEF Stale
    <2>3. QED
          BY <1>7, <2>1, <2>2, MarkingCloses DEF ReaperScan
  <1>8. CASE Shutdown
    <2>1. UNCHANGED <<sessions, creating>>
          BY <1>8 DEF Shutdown
    <2>2. CASE UNCHANGED status
          BY <2>1, <2>2, Stutters
    <2>3. ASSUME NEW v \in Mapped, Destroyable(v, sessions, status), status' = Marked(v)
          PROVE  Registry!RegistryNext
      <3>1. v \in Sids /\ Ready(v)
            BY <2>3 DEF Mapped, Destroyable, Ready, MInv, IInv, TypeOK, MapWellFormed
      <3>2. QED
            BY <2>1, <2>3, <3>1, MarkingCloses
    <2>4. QED
          BY <1>8, <2>2, <2>3 DEF Shutdown
  <1>9. CASE ShutdownDone \/ Crash
        BY <1>9, EndResets DEF ShutdownDone, Crash
  <1>10. CASE UNCHANGED <<creating, sessions, status>>
        BY <1>10, Stutters
  <1>11. ASSUME NEW r \in Reqs,
                Run(r) \/ PortsPublished(r) \/ PortsTimeOut(r) \/ KernelNotReady(r)
         PROVE  UNCHANGED <<creating, sessions, status>>
         BY <1>11 DEF Run, PortsPublished, PortsTimeOut, KernelNotReady, CannotUse
  <1>12. ASSUME NEW d \in Destroyers, DestroyStep(d)
         PROVE  UNCHANGED <<creating, sessions, status>>
         BY <1>12 DEF DestroyStep, KernelClosed, Kill, KillFails
  <1>13. ASSUME NEW s \in Sids, (\E r \in Reqs : Join(r, s)) \/ GoIdle(s) \/ Touch(s)
         PROVE  UNCHANGED <<creating, sessions, status>>
         BY <1>13 DEF Join, GoIdle, Touch
  <1>14. CASE (\E c \in Cids : SandboxDies(c)) \/ Restart \/ UNCHANGED vars
         BY <1>10, <1>14 DEF SandboxDies, Restart, vars, volatile
  <1>15. QED
         BY <1>1, <1>2, <1>3, <1>4, <1>5, <1>6, <1>7, <1>8, <1>9, <1>10, <1>11, <1>12,
            <1>13, <1>14 DEF Next, CreateStep, ProcessStep

\* Whatever the interleaving of creates, destroys, sweeps and the end of the
\* process, callers see a registry: opening is begun once, no session takes
\* another one's place, none comes back (manager.py:70-180).
THEOREM ManagerImplementsRegistry == ~SlowRemoval => (Spec => ImplementsRegistry)
  <1> SUFFICES ASSUME ~SlowRemoval
               PROVE  Spec => ImplementsRegistry
      OBVIOUS
  <1>1. Init => MInv
        BY InitInv DEF Init, MInv, DestroysMapped, ReadyIsMapped, Destroying, NoTask
  <1>2. MInv /\ [Next]_vars => MInv'
        BY MInvStep
  <1>3. Init => Registry!RegistryInit
        BY DEF Init, Registry!RegistryInit, ReadySession, Ready
  <1>4. QED
        BY <1>1, <1>2, <1>3, RegistryStep, PTL DEF Spec, ImplementsRegistry, Registry!RegistrySpec
=============================================================================
