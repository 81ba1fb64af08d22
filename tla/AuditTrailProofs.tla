-------------------------- MODULE AuditTrailProofs --------------------------
(***************************************************************************)
(* The manager keeps the contract of the audit log, so that what is proved *)
(* of the log holds of the two together; and the log says what the map     *)
(* says.  For any number of requests, conversations and events.            *)
(*                                                                         *)
(* The invariant is that of the manager, with what relates its life, its   *)
(* map and its tasks to the log's.                                         *)
(***************************************************************************)
EXTENDS AuditTrail, SessionManagerProofs, FiniteSetTheorems

\* The create tasks there are.
Active == {r \in Reqs : TaskActive(r)}

TrailTypes == born \in [Cids -> Nat] /\ nextId \in Nat \ {0}

\* The lifespan: the log is there before the manager, and stop() is called when
\* shutdown() has returned.
Phases ==
    /\ phase = "down" <=> writer.pc = "none"
    /\ stopper # "none" => phase = "stopping" /\ ~Destroying(Lifespan)

\* A session is logged when it enters the map.
Booked == \A s \in Sids : sessions[s] # None => born[sessions[s]] # 0

\* There is room for the events to come.
Room ==
    /\ IsFiniteSet(Mapped)
    /\ IsFiniteSet(Active)
    /\ nextId + Owed <= MaxItems + 1

Extra == TrailTypes /\ Phases /\ Booked /\ Room

TInv == LInv /\ Extra

\* Every step is one of the manager.
LEMMA ManagerSteps == [TrailNext]_trailVars => [Next]_vars
  <1> SUFFICES ASSUME [TrailNext]_trailVars
               PROVE  [Next]_vars
      OBVIOUS
  <1>1. ASSUME NEW r \in Reqs, NEW s \in Sids, SpawnInBounds(r, s)
        PROVE  Next
        BY <1>1 DEF SpawnInBounds, Next
  <1>2. ASSUME NEW r \in Reqs, SessionOpens(r) \/ OtherCreateStep(r)
        PROVE  Next
        BY <1>2 DEF SessionOpens, OtherCreateStep, CreateStep, Next
  <1>3. ASSUME NEW d \in Destroyers, SessionEnds(d)
        PROVE  Next
        BY <1>3 DEF SessionEnds, Destroyers, Next
  <1>4. ASSUME NEW d \in Destroyers, OtherDestroyStep(d)
        PROVE  Next
        BY <1>4 DEF OtherDestroyStep, Next
  <1>5. CASE OtherStep
        BY <1>5 DEF OtherStep, ProcessStep, Next
  <1>6. CASE WriterStep \/ AuditStops \/ AuditStopped
        BY <1>6 DEF WriterStep, AuditStops, AuditStopped
  <1>7. CASE Exit \/ Killed \/ GatewayStarts
        BY <1>7 DEF Exit, Killed, GatewayStarts, EndsWithin, ProcessStep, Next
  <1>8. CASE UNCHANGED trailVars
        BY <1>8 DEF trailVars
  <1>9. QED
        BY <1>1, <1>2, <1>3, <1>4, <1>5, <1>6, <1>7, <1>8 DEF TrailNext, LifespanStep

\* What Owed counts.
LEMMA Counting ==
  ASSUME Room
  PROVE  /\ Cardinality(Mapped) \in Nat /\ Cardinality(Active) \in Nat
         /\ Owed = Cardinality(Mapped) + 2 * Cardinality(Active)
  BY FS_CardinalityType DEF Room, Owed, Active

\* A step that neither enters nor leaves the map.
LEMMA QuietStep ==
  ASSUME Extra, UNCHANGED <<sessions, auditVars, born>>,
         \A r \in Reqs : TaskActive(r)' => TaskActive(r),
         phase' = phase \/ (phase = "up" /\ phase' = "stopping"),
         phase = "stopping" /\ ~Destroying(Lifespan) => ~Destroying(Lifespan)'
  PROVE  Extra'
  <1>1. UNCHANGED <<sessions, born, writer, stopper, nextId>>
        BY DEF auditVars
  <1>2. TrailTypes' /\ Booked'
        BY <1>1 DEF Extra, TrailTypes, Booked
  <1>3. Phases'
        BY <1>1 DEF Extra, Phases
  <1>4. Mapped' = Mapped /\ Active' \in SUBSET Active
        BY <1>1 DEF Mapped, Active
  <1>5. /\ IsFiniteSet(Active') /\ Cardinality(Active') <= Cardinality(Active)
        /\ Cardinality(Active') \in Nat
        BY <1>4, FS_Subset, FS_CardinalityType DEF Extra, Room
  <1>6. Owed' = Cardinality(Mapped') + 2 * Cardinality(Active')
        BY DEF Owed, Active
  <1>7. Room'
        BY <1>1, <1>4, <1>5, <1>6, Counting, TrailEnvironment DEF Extra, TrailTypes, Room
  <1>8. QED
        BY <1>2, <1>3, <1>7 DEF Extra

\* A create begins.
LEMMA SpawnStep ==
  ASSUME TInv, NEW r \in Reqs, NEW s \in Sids, SpawnInBounds(r, s)
  PROVE  Extra'
  <1>1. /\ UNCHANGED <<sessions, born, writer, stopper, nextId, phase, destroyer>>
        /\ nextId + Owed + 1 <= MaxItems
        /\ task' = [task EXCEPT ![r] = [pc |-> "run", sid |-> s, c |-> None]]
        BY DEF SpawnInBounds, Spawn, Without, auditVars, sessionVars, destroyVars
  <1>2. TrailTypes' /\ Booked' /\ Phases'
        BY <1>1 DEF TInv, Extra, TrailTypes, Booked, Phases, Destroying
  <1>3. Mapped' = Mapped /\ Active' = Active \cup {r}
        BY <1>1 DEF Mapped, Active, TaskActive, TInv, LInv, MInv, IInv, TypeOK
  <1>4. /\ IsFiniteSet(Active \cup {r})
        /\ Cardinality(Active \cup {r}) <= Cardinality(Active) + 1
        /\ Cardinality(Active \cup {r}) \in Nat
    <2>1. IsFiniteSet(Active) /\ Cardinality(Active) \in Nat
          BY FS_CardinalityType DEF TInv, Extra, Room
    <2> HIDE DEF Active
    <2>2. /\ IsFiniteSet(Active \cup {r})
          /\ Cardinality(Active \cup {r}) = IF r \in Active THEN Cardinality(Active)
                                            ELSE Cardinality(Active) + 1
          BY <2>1, FS_AddElement
    <2>3. QED
          BY <2>1, <2>2
  <1>5. Owed' = Cardinality(Mapped') + 2 * Cardinality(Active')
        BY DEF Owed, Active
  <1>6. Room'
        BY <1>1, <1>3, <1>4, <1>5, Counting, TrailEnvironment DEF TInv, Extra, TrailTypes, Room
  <1>7. QED
        BY <1>2, <1>6 DEF Extra

\* The steps of the manager that do not touch the log.
LEMMA OtherSteps ==
  ASSUME TInv,
         \/ \E r \in Reqs : OtherCreateStep(r)
         \/ \E d \in Destroyers : OtherDestroyStep(d)
         \/ OtherStep
  PROVE  Extra' /\ UNCHANGED <<sessions, auditVars, born>>
  <1> USE DEF TInv, LInv, MInv, IInv, TypeOK, TaskActive, Destroying, Destroyers, Sweepers
  <1>1. ASSUME NEW r \in Reqs, OtherCreateStep(r)
        PROVE  /\ UNCHANGED <<sessions, auditVars, born, phase, destroyer>>
               /\ \A q \in Reqs : TaskActive(q)' => TaskActive(q)
    <2>1. UNCHANGED <<sessions, auditVars, born, phase, destroyer>>
          BY <1>1 DEF OtherCreateStep, Without, Run, RunFails, StartFails, PortsPublished,
                      PortsTimeOut, KernelNotReady, Rollback, RollbackFails, CannotUse,
                      CreateFails, sessionVars, destroyVars
    <2>2. TaskActive(r)
          BY <1>1 DEF OtherCreateStep, Run, RunFails, StartFails, PortsPublished,
                      PortsTimeOut, KernelNotReady, Rollback, RollbackFails
    <2>3. \A q \in Reqs : q # r => task'[q] = task[q]
          BY <1>1 DEF OtherCreateStep, Run, RunFails, StartFails, PortsPublished,
                      PortsTimeOut, KernelNotReady, Rollback, RollbackFails, CannotUse,
                      CreateFails, TaskEnds
    <2>4. QED
          BY <2>1, <2>2, <2>3
  <1>2. ASSUME NEW d \in Destroyers, OtherDestroyStep(d)
        PROVE  /\ UNCHANGED <<sessions, auditVars, born, phase, task>>
               /\ ~Destroying(Lifespan) => ~Destroying(Lifespan)'
        BY <1>2 DEF OtherDestroyStep, Without, DestroyStep, KernelClosed, Kill, KillFails,
                    sessionVars, createVars
  <1>3. ASSUME OtherStep
        PROVE  /\ UNCHANGED <<sessions, auditVars, born, task>>
               /\ phase' = phase \/ (phase = "up" /\ phase' = "stopping")
               /\ phase = "stopping" /\ ~Destroying(Lifespan) => ~Destroying(Lifespan)'
    <2>1. UNCHANGED <<auditVars, born>>
          BY <1>3 DEF OtherStep, Without
    <2>2. ASSUME NEW r \in Reqs, NEW s \in Sids, Join(r, s) \/ Delete(r, s)
          PROVE  /\ UNCHANGED <<sessions, task, phase>>
                 /\ ~Destroying(Lifespan) => ~Destroying(Lifespan)'
          BY <2>2, DistinctNames DEF Join, Delete, sessionVars, destroyVars, createVars
    <2>3. CASE \/ \E s \in Sids : GoIdle(s) \/ Touch(s)
               \/ \E c \in Cids : SandboxDies(c)
          BY <1>3, <2>1, <2>3 DEF GoIdle, Touch, SandboxDies, createVars, destroyVars, volatile,
                                  sessionVars
    <2>4. CASE ReaperScan
          BY <1>3, <2>1, <2>4, DistinctNames DEF ReaperScan, createVars
    <2>5. CASE Shutdown
          BY <1>3, <2>1, <2>5 DEF Shutdown, createVars
    <2>6. QED
          BY <1>3, <2>1, <2>2, <2>3, <2>4, <2>5 DEF OtherStep
  <1>4. CASE \E r \in Reqs : OtherCreateStep(r)
        BY <1>1, <1>4, QuietStep
  <1>5. CASE \E d \in Destroyers : OtherDestroyStep(d)
        BY <1>2, <1>5, QuietStep
  <1>6. CASE OtherStep
        BY <1>3, <1>6, QuietStep
  <1>7. QED
        BY <1>4, <1>5, <1>6

\* A kernel is up: the map has no session under its id, and none of its container.
LEMMA OpensFresh ==
  ASSUME ~SlowRemoval, TInv, NEW r \in Reqs, KernelReady(r)
  PROVE  /\ TaskActive(r) /\ task[r].sid \in Sids /\ task[r].c \in Cids
         /\ sessions[task[r].sid] = None
         /\ \A v \in Sids : sessions[v] # task[r].c
  <1> DEFINE c == task[r].c
             s == task[r].sid
  <1>m. MInv /\ IInv /\ TypeOK
        BY DEF TInv, LInv, MInv, IInv
  <1>1. TaskActive(r) /\ s \in Sids /\ c \in Cids
        BY <1>m DEF KernelReady, TaskActive, IInv, TasksOwn, TaskOwns
  <1>2. Exists(c) /\ name[c] = s /\ status[c] = "none"
        BY <1>m, <1>1 DEF KernelReady, IInv, TasksOwn, TaskOwns
  <1>3. ~Ready(s)
        BY <1>m, <1>1, <1>2 DEF Ready, IInv, MapWellFormed, ReadyHasContainer, NamesUnique, TypeOK
  <1>4. \A v \in Sids : sessions[v] # c
        BY <1>m, <1>1, <1>2, DistinctNames DEF IInv, MapWellFormed
  <1>5. sessions[s] = None
    <2> SUFFICES ASSUME sessions[s] # None
                 PROVE  FALSE
        OBVIOUS
    <2>1. sessions[s] \in Cids /\ status[sessions[s]] = "destroying"
      <3>1. sessions[s] \in Cids /\ status[sessions[s]] # "none"
            BY <1>m, <1>1 DEF IInv, MapWellFormed, TypeOK
      <3>2. status[sessions[s]] \in {"none", "ready", "destroying"}
            BY <1>m, <3>1 DEF TypeOK
      <3>3. QED
            BY <1>3, <3>1, <3>2 DEF Ready
    <2>2. PICK d \in Destroyers : Destroying(d) /\ destroyer[d].c = sessions[s]
          BY <2>1 DEF TInv, LInv, MarkedIsDestroyed
    <2>3. destroyer[d].sid = s
          BY <1>m, <1>1, <2>2, DestroyerHas
    <2>4. destroyer[d].pc # "killed"
          BY <2>3 DEF KernelReady
    <2>5. Exists(sessions[s]) /\ name[sessions[s]] = s
          BY <1>m, <2>2, <2>3, <2>4 DEF IInv, DestroysOwn, DestroyOwns
    <2>6. sessions[s] = c
          BY <1>m, <1>1, <1>2, <2>1, <2>5 DEF IInv, NamesUnique
    <2>7. QED
          BY <1>1, <1>4, <2>6
  <1>6. QED
        BY <1>1, <1>4, <1>5

\* The row that the log opens is that of the session the map now has.
LEMMA OpensStep ==
  ASSUME ~SlowRemoval, TInv, NEW r \in Reqs, SessionOpens(r)
  PROVE  Extra' /\ Audit!Next
  <1> DEFINE c == task[r].c
             s == task[r].sid
             n == nextId
  <1>1. /\ TaskActive(r) /\ s \in Sids /\ c \in Cids /\ sessions[s] = None
        /\ \A v \in Sids : sessions[v] # c
        BY OpensFresh DEF SessionOpens
  <1>2. /\ sessions' = [sessions EXCEPT ![s] = c] /\ task' = [task EXCEPT ![r] = NoTask]
        /\ UNCHANGED <<phase, destroyer>>
        /\ born' = [born EXCEPT ![c] = n]
        BY DEF SessionOpens, KernelReady, TaskEnds, destroyVars
  <1>3. Audit!Put("session_created", s, n) /\ nextId' = n + 1 /\ UNCHANGED <<writer, stopper>>
        BY DEF SessionOpens, Audit!Put
  <1>t. /\ sessions \in [Sids -> Cids \cup {None}] /\ born \in [Cids -> Nat] /\ n \in Nat \ {0}
        /\ task \in [Reqs -> [pc : TaskPc, sid : Sids \cup {None}, c : Cids \cup {None}]]
        /\ None \notin Cids /\ MaxItems \in Nat
        BY DistinctNames, TrailEnvironment
           DEF TInv, LInv, MInv, IInv, TypeOK, Extra, TrailTypes
  <1>p. phase = "up" /\ stopper = "none" /\ writer.pc # "none"
        BY <1>1 DEF TInv, LInv, RequestsWhileUp, Extra, Phases
  <1> HIDE DEF c, s, n
  <1>4. TrailTypes' /\ Booked'
    <2>1. TrailTypes'
      <3>1. n \in Nat /\ n + 1 \in Nat \ {0}
            BY <1>t
      <3>2. [born EXCEPT ![c] = n] \in [Cids -> Nat]
            BY <1>t, <3>1
      <3>3. QED
            BY <1>2, <1>3, <3>1, <3>2 DEF TrailTypes
    <2>2. ASSUME NEW v \in Sids, sessions'[v] # None
          PROVE  born'[sessions'[v]] # 0
      <3>1. CASE v = s
            BY <1>1, <1>2, <1>t, <3>1
      <3>2. CASE v # s
        <4>1. sessions'[v] = sessions[v] /\ sessions[v] \in Cids /\ sessions[v] # c
              BY <1>1, <1>2, <1>t, <2>2, <3>2
        <4>2. born'[sessions[v]] = born[sessions[v]]
              BY <1>2, <1>t, <4>1
        <4>3. QED
              BY <2>2, <4>1, <4>2 DEF TInv, Extra, Booked
      <3>3. QED
            BY <3>1, <3>2
    <2>3. QED
          BY <2>1, <2>2 DEF Booked
  <1>5. Phases'
        BY <1>2, <1>3 DEF TInv, Extra, Phases, Destroying
  <1>6. Room' /\ n + 1 <= MaxItems
    <2>1. Mapped' = Mapped \cup {s} /\ s \notin Mapped
          BY <1>1, <1>2, <1>t DEF Mapped
    <2>2. Active' = Active \ {r} /\ r \in Active
          BY <1>1, <1>2, <1>t DEF Active, TaskActive, NoTask
    <2>3. /\ IsFiniteSet(Mapped) /\ IsFiniteSet(Active)
          /\ Cardinality(Mapped) \in Nat /\ Cardinality(Active) \in Nat
          BY FS_CardinalityType DEF TInv, Extra, Room
    <2> HIDE DEF Active, Mapped
    <2>4. IsFiniteSet(Mapped \cup {s}) /\ Cardinality(Mapped \cup {s}) = Cardinality(Mapped) + 1
          BY <2>1, <2>3, FS_AddElement
    <2>5. IsFiniteSet(Active \ {r}) /\ Cardinality(Active \ {r}) = Cardinality(Active) - 1
          BY <2>2, <2>3, FS_RemoveElement
    <2>6. Owed' = Cardinality(Mapped') + 2 * Cardinality(Active')
          BY DEF Owed, Active
    <2>7. /\ Owed = Cardinality(Mapped) + 2 * Cardinality(Active)
          /\ nextId + Owed <= MaxItems + 1
          BY Counting DEF TInv, Extra, Room
    <2>8. Cardinality(Active \ {r}) \in Nat
          BY <2>5, FS_CardinalityType
    <2>9. Owed' = Owed - 1
          BY <2>1, <2>2, <2>3, <2>4, <2>5, <2>6, <2>7
    <2>10. QED
          BY <1>3, <1>t, <2>1, <2>2, <2>3, <2>4, <2>5, <2>7, <2>8, <2>9 DEF Room, n
  <1>7. Live[s] = 0 /\ Live' = [Live EXCEPT ![s] = n]
    <2>1. Live[s] = 0
          BY <1>1 DEF Live
    <2>2. sessions'[s] = c /\ born'[c] = n
          BY <1>1, <1>2, <1>t
    <2>3. ASSUME NEW v \in Sids, v # s
          PROVE  (IF sessions'[v] = None THEN 0 ELSE born'[sessions'[v]]) = Live[v]
      <3>1. sessions'[v] = sessions[v] /\ sessions[v] # c
            BY <1>1, <1>2, <1>t, <2>3
      <3>2. sessions[v] # None => born'[sessions[v]] = born[sessions[v]]
            BY <1>2, <1>t, <3>1
      <3>3. QED
            BY <3>1, <3>2 DEF Live
    <2>4. Live' = [v \in Sids |-> IF sessions'[v] = None THEN 0 ELSE born'[sessions'[v]]]
          BY DEF Live
    <2>5. QED
          BY <1>1, <1>t, <2>1, <2>2, <2>3, <2>4 DEF Live
  <1>8. Audit!SessionCreated(s)
    <2>1. nextId \in Audit!Ids
          BY <1>6, <1>t DEF Audit!Ids, n
    <2>2. QED
          BY <1>3, <1>7, <1>p, <2>1 DEF Audit!SessionCreated, Audit!Enqueue, Audit!Running, n
  <1>9. QED
        BY <1>1, <1>4, <1>5, <1>6, <1>8 DEF Extra, Audit!Next

\* The end that is enqueued is that of the session which leaves the map.
LEMMA EndsStep ==
  ASSUME TInv, NEW d \in Destroyers, SessionEnds(d)
  PROVE  Extra' /\ Audit!Next
  <1> DEFINE c == destroyer[d].c
             s == destroyer[d].sid
             n == nextId
  <1>m. MInv /\ IInv /\ TypeOK
        BY DEF TInv, LInv, MInv, IInv
  <1>0. destroyer[d].pc = "killed" /\ phase # "down"
        BY DEF SessionEnds, FinishDelete, FinishVictim, Alive
  <1>1. /\ s \in Sids /\ c \in Cids /\ sessions[s] = c
        /\ \A v \in Sids : sessions[v] = c => v = s
        BY <1>0, <1>m, DestroyerHas DEF Destroying
  <1>2. /\ sessions' = [sessions EXCEPT ![s] = None]
        /\ UNCHANGED <<phase, task, born>>
        BY DEF SessionEnds, FinishDelete, FinishVictim, MapAfter, createVars
  <1>3. /\ Audit!Put("session_destroyed", s, born[c])
        /\ nextId' = n + 1 /\ UNCHANGED <<writer, stopper>>
        BY DEF SessionEnds, LogEnd, Audit!Put
  <1>t. /\ sessions \in [Sids -> Cids \cup {None}] /\ born \in [Cids -> Nat] /\ n \in Nat \ {0}
        /\ None \notin Cids /\ MaxItems \in Nat
        BY DistinctNames, TrailEnvironment
           DEF TInv, LInv, MInv, IInv, TypeOK, Extra, TrailTypes
  <1>p. stopper = "none" /\ writer.pc # "none"
    <2>1. CASE d \in Reqs
      <3>1. phase = "up"
            BY <1>0, <2>1 DEF TInv, LInv, RequestsWhileUp, Destroying
      <3>2. QED
            BY <3>1 DEF TInv, Extra, Phases
    <2>2. CASE d = Lifespan
          BY <1>0, <2>2 DEF TInv, Extra, Phases, Destroying
    <2>3. CASE d = Reaper
      <3>1. phase = "up"
            BY <2>3, DistinctNames DEF SessionEnds, FinishVictim, Alive
      <3>2. QED
            BY <3>1 DEF TInv, Extra, Phases
    <2>4. QED
          BY <2>1, <2>2, <2>3 DEF Destroyers, Sweepers
  <1>q. Phases'
    <2>1. phase = "stopping" => stopper = "none"
          BY <1>p
    <2>2. QED
          BY <1>2, <1>3, <1>p DEF TInv, Extra, Phases
  <1> HIDE DEF c, s, n
  <1>4. TrailTypes' /\ Booked'
    <2>1. TrailTypes'
          BY <1>2, <1>3, <1>t DEF TrailTypes
    <2>2. ASSUME NEW v \in Sids, sessions'[v] # None
          PROVE  born'[sessions'[v]] # 0
          BY <1>1, <1>2, <1>t, <2>2 DEF TInv, Extra, Booked
    <2>3. QED
          BY <2>1, <2>2 DEF Booked
  <1>6. Room' /\ n <= MaxItems
    <2>1. Mapped' = Mapped \ {s} /\ s \in Mapped
          BY <1>1, <1>2, <1>t DEF Mapped
    <2>2. Active' = Active
          BY <1>2 DEF Active, TaskActive
    <2>3. /\ IsFiniteSet(Mapped) /\ IsFiniteSet(Active)
          /\ Cardinality(Mapped) \in Nat /\ Cardinality(Active) \in Nat
          BY FS_CardinalityType DEF TInv, Extra, Room
    <2> HIDE DEF Active, Mapped
    <2>4. IsFiniteSet(Mapped \ {s}) /\ Cardinality(Mapped \ {s}) = Cardinality(Mapped) - 1
          BY <2>1, <2>3, FS_RemoveElement
    <2>5. Cardinality(Mapped \ {s}) \in Nat
          BY <2>4, FS_CardinalityType
    <2>6. Owed' = Cardinality(Mapped') + 2 * Cardinality(Active')
          BY DEF Owed, Active
    <2>7. /\ Owed = Cardinality(Mapped) + 2 * Cardinality(Active)
          /\ nextId + Owed <= MaxItems + 1
          BY Counting DEF TInv, Extra, Room
    <2>8. Owed' = Owed - 1
          BY <2>1, <2>2, <2>3, <2>4, <2>6, <2>7
    <2>9. QED
          BY <1>3, <1>t, <2>1, <2>2, <2>3, <2>4, <2>5, <2>7, <2>8 DEF Room, n
  <1>7. Live[s] = born[c] /\ born[c] # 0 /\ Live' = [Live EXCEPT ![s] = 0]
    <2>1. Live[s] = born[c] /\ born[c] # 0
          BY <1>1, <1>t DEF Live, TInv, Extra, Booked
    <2>2. Live' = [v \in Sids |-> IF sessions'[v] = None THEN 0 ELSE born'[sessions'[v]]]
          BY DEF Live
    <2>3. sessions'[s] = None /\ \A v \in Sids : v # s => sessions'[v] = sessions[v]
          BY <1>1, <1>2, <1>t
    <2>4. ASSUME NEW v \in Sids, v # s
          PROVE  (IF sessions'[v] = None THEN 0 ELSE born'[sessions'[v]]) = Live[v]
          BY <1>2, <2>3, <2>4 DEF Live
    <2>5. QED
          BY <1>1, <2>1, <2>2, <2>3, <2>4 DEF Live
  <1>8. Audit!SessionDestroyed(s)
    <2>1. nextId \in Audit!Ids
          BY <1>6, <1>t DEF Audit!Ids, n
    <2>2. Audit!Enqueue("session_destroyed", s, Live[s])
          BY <1>3, <1>7, <1>p, <2>1 DEF Audit!Enqueue, Audit!Running
    <2>3. QED
          BY <1>7, <2>2 DEF Audit!SessionDestroyed
  <1>9. QED
        BY <1>1, <1>4, <1>6, <1>8, <1>q DEF Extra, Audit!Next

\* The writer task and stop().
LEMMA LogSteps ==
  ASSUME TInv, WriterStep \/ AuditStops \/ AuditStopped
  PROVE  Extra' /\ Audit!Next
  <1>1. UNCHANGED <<vars, born>>
        BY DEF WriterStep, AuditStops, AuditStopped
  <1>2. /\ nextId' = nextId
        /\ writer.pc = "none" <=> writer'.pc = "none"
        /\ stopper' = stopper \/ (phase = "stopping" /\ ~Destroying(Lifespan))
        /\ Audit!Next
    <2>1. CASE WriterStep
      <3>1. Audit!Next
            BY <2>1 DEF WriterStep, Audit!Next
      <3>2. nextId' = nextId /\ stopper' = stopper
            BY <2>1 DEF WriterStep, Audit!WriterStep, Audit!Open, Audit!OpenFails, Audit!Take,
                Audit!TakeStop, Audit!Write, Audit!ExecuteFails, Audit!CommitFails, Audit!Raised,
                Audit!ItemDone, Audit!CloseConnection, Audit!input
      <3>3. writer.pc # "none" /\ writer'.pc # "none"
            BY <2>1 DEF WriterStep, Audit!WriterStep, Audit!Open, Audit!OpenFails, Audit!Take,
                Audit!TakeStop, Audit!Write, Audit!ExecuteFails, Audit!CommitFails, Audit!Raised,
                Audit!ItemDone, Audit!CloseConnection, Audit!GoesTo, Audit!AfterStop
      <3>4. QED
            BY <3>1, <3>2, <3>3
    <2>2. CASE AuditStops
          BY <2>2 DEF AuditStops, ManagerIsDown, Audit!StopBegins, Audit!Next, Audit!input
    <2>3. CASE AuditStopped
          BY <2>3 DEF AuditStopped, TInv, Extra, Phases, Audit!StopReturns, Audit!Next,
                      Audit!CallerStep, Audit!input
    <2>4. QED
          BY <2>1, <2>2, <2>3
  <1>3. TrailTypes' /\ Booked' /\ Room'
    <2>1. Mapped' = Mapped /\ Active' = Active /\ Owed' = Owed /\ sessions' = sessions
          BY <1>1 DEF vars, volatile, createVars, sessionVars, Mapped, Active, TaskActive, Owed
    <2>2. QED
          BY <1>1, <1>2, <2>1 DEF TInv, Extra, TrailTypes, Booked, Room
  <1>4. Phases'
        BY <1>1, <1>2 DEF vars, volatile, destroyVars, TInv, Extra, Phases, Destroying
  <1>5. QED
        BY <1>2, <1>3, <1>4 DEF Extra

\* The process ends and starts.
LEMMA LifeSteps ==
  ASSUME TInv, Exit \/ Killed \/ GatewayStarts
  PROVE  Extra' /\ Audit!Next
  <1>1. CASE Exit \/ Killed
    <2>1. /\ ProcessEnds /\ born' = [c \in Cids |-> 0] /\ Audit!ProcessEnds
          BY <1>1 DEF Exit, Killed, EndsWithin, ShutdownDone, Crash
    <2>2. /\ phase' = "down" /\ sessions' = [s \in Sids |-> None]
          /\ task' = [r \in Reqs |-> NoTask] /\ stopper' = "none" /\ nextId' = nextId
          /\ writer'.pc = "none"
          BY <2>1 DEF ProcessEnds, Audit!ProcessEnds, Audit!GoesTo
    <2>3. TrailTypes' /\ Booked' /\ Phases'
          BY <2>1, <2>2 DEF TInv, Extra, TrailTypes, Booked, Phases
    <2>4. Mapped' = {} /\ Active' = {}
          BY <2>2 DEF Mapped, Active, TaskActive, NoTask
    <2>5. Owed' = 0
      <3>1. Owed' = Cardinality(Mapped') + 2 * Cardinality(Active')
            BY DEF Owed, Active
      <3>2. Cardinality(Mapped') = 0 /\ Cardinality(Active') = 0
            BY <2>4, FS_EmptySet
      <3>3. QED
            BY <3>1, <3>2
    <2>6. nextId <= MaxItems + 1
          BY Counting, TrailEnvironment DEF TInv, Extra, TrailTypes, Room
    <2>7. Room'
          BY <2>2, <2>3, <2>4, <2>5, <2>6, FS_EmptySet DEF TrailTypes, Room
    <2>8. Audit!Next
      <3>1. CASE Exit
            BY <3>1 DEF Exit, EndsWithin, Audit!Next, Audit!Exit
      <3>2. CASE Killed
        <4>1. MayCrash /\ phase # "down"
              BY <3>2 DEF Killed, EndsWithin, Crash
        <4>2. Audit!Running
              BY <4>1 DEF TInv, Extra, Phases, Audit!Running
        <4>3. QED
              BY <2>1, <4>1, <4>2 DEF Audit!Next, Audit!Crash
      <3>3. QED
            BY <1>1, <3>1, <3>2
    <2>9. QED
          BY <2>3, <2>7, <2>8 DEF Extra
  <1>2. CASE GatewayStarts
    <2>1. /\ phase' = "up" /\ phase = "down" /\ UNCHANGED <<sessions, task, born>>
          /\ Audit!Start /\ nextId' = nextId /\ stopper' = stopper /\ writer'.pc = "opening"
          BY <1>2 DEF GatewayStarts, Restart, volatile, sessionVars, createVars, Audit!Start,
                      Audit!GoesTo, Audit!input
    <2>2. Mapped' = Mapped /\ Active' = Active /\ Owed' = Owed
          BY <2>1 DEF Mapped, Active, TaskActive, Owed
    <2>3. TrailTypes' /\ Booked' /\ Room'
          BY <2>1, <2>2 DEF TInv, Extra, TrailTypes, Booked, Room
    <2>4. Phases'
          BY <2>1 DEF TInv, Extra, Phases
    <2>5. QED
          BY <2>1, <2>3, <2>4 DEF Extra, Audit!Next
  <1>3. QED
        BY <1>1, <1>2

\* Every step keeps the invariant, and is a step of the log or none.
LEMMA TrailStep ==
  ASSUME ~SlowRemoval, TInv, [TrailNext]_trailVars
  PROVE  TInv' /\ [Audit!Next]_(Audit!vars)
  <1>1. LInv'
        BY ManagerSteps, LInvStep DEF TInv
  <1>q. ASSUME UNCHANGED <<sessions, auditVars, born>>
        PROVE  UNCHANGED Audit!vars
    <2>1. Live' = Live
          BY <1>q DEF Live
    <2>2. QED
          BY <1>q, <2>1 DEF auditVars, Audit!vars, Audit!tables, Audit!queueVars, Audit!input
  <1>2. ASSUME NEW r \in Reqs, NEW s \in Sids, SpawnInBounds(r, s)
        PROVE  Extra' /\ (Audit!Next \/ UNCHANGED Audit!vars)
    <2>1. UNCHANGED <<sessions, auditVars, born>>
          BY <1>2 DEF SpawnInBounds, Spawn, Without, sessionVars
    <2>2. QED
          BY <1>2, <1>q, <2>1, SpawnStep
  <1>3. ASSUME NEW r \in Reqs, SessionOpens(r)
        PROVE  Extra' /\ (Audit!Next \/ UNCHANGED Audit!vars)
        BY <1>3, OpensStep
  <1>4. ASSUME NEW d \in Destroyers, SessionEnds(d)
        PROVE  Extra' /\ (Audit!Next \/ UNCHANGED Audit!vars)
        BY <1>4, EndsStep
  <1>5. ASSUME \/ \E r \in Reqs : OtherCreateStep(r)
               \/ \E d \in Destroyers : OtherDestroyStep(d)
               \/ OtherStep
        PROVE  Extra' /\ (Audit!Next \/ UNCHANGED Audit!vars)
        BY <1>5, <1>q, OtherSteps
  <1>6. ASSUME WriterStep \/ LifespanStep \/ Killed \/ GatewayStarts
        PROVE  Extra' /\ (Audit!Next \/ UNCHANGED Audit!vars)
        BY <1>6, LogSteps, LifeSteps DEF LifespanStep
  <1>7. ASSUME UNCHANGED trailVars
        PROVE  Extra' /\ (Audit!Next \/ UNCHANGED Audit!vars)
    <2>1. UNCHANGED <<vars, auditVars, born>>
          BY <1>7 DEF trailVars
    <2>2. UNCHANGED <<sessions, phase, task, destroyer>>
          BY <2>1 DEF vars, volatile, sessionVars, createVars, destroyVars
    <2>3. Extra'
          BY <2>1, <2>2, QuietStep DEF TInv, TaskActive, Destroying
    <2>4. QED
          BY <1>q, <2>1, <2>2, <2>3
  <1>8. Extra' /\ (Audit!Next \/ UNCHANGED Audit!vars)
        BY <1>2, <1>3, <1>4, <1>5, <1>6, <1>7 DEF TrailNext
  <1>9. QED
        BY <1>1, <1>8 DEF TInv

\* At the start.
LEMMA TrailStarts == TrailInit => TInv
  <1> SUFFICES ASSUME TrailInit
               PROVE  TInv
      OBVIOUS
  <1>1. LInv
        BY LInvInit DEF TrailInit
  <1>2. /\ sessions = [s \in Sids |-> None] /\ task = [r \in Reqs |-> NoTask] /\ phase = "up"
        /\ born = [c \in Cids |-> 0] /\ nextId = 1 /\ stopper = "none" /\ writer.pc = "opening"
        BY DEF TrailInit, Init, Audit!Initially
  <1>3. TrailTypes /\ Phases /\ Booked
        BY <1>2 DEF TrailTypes, Phases, Booked
  <1>4. Mapped = {} /\ Active = {}
        BY <1>2 DEF Mapped, Active, TaskActive, NoTask
  <1>5. Owed = 0
        BY <1>4, FS_EmptySet DEF Owed, Active
  <1>6. Room
        BY <1>2, <1>4, <1>5, FS_EmptySet, TrailEnvironment DEF Room
  <1>7. QED
        BY <1>1, <1>3, <1>6 DEF TInv, Extra

\* The manager makes only steps of the log's specification, although creates and
\* destroys may be at work when the lifespan begins to shut down (main.py:63-68), and
\* although a conversation is created anew while its old session is being destroyed
\* (manager.py:109-183).
THEOREM ManagerKeepsContract == ~SlowRemoval => (TrailSpec => KeepsContract)
  <1> SUFFICES ASSUME ~SlowRemoval
               PROVE  TrailSpec => KeepsContract
      OBVIOUS
  <1>1. TInv /\ [TrailNext]_trailVars => TInv'
        BY TrailStep
  <1>2. TInv /\ [TrailNext]_trailVars => [Audit!Next]_(Audit!vars)
        BY TrailStep
  <1>3. QED
        BY <1>1, <1>2, TrailStarts, PTL DEF TrailSpec, KeepsContract

-----------------------------------------------------------------------------
(***************************************************************************)
(* What the log says.                                                      *)
(***************************************************************************)
\* What is proved of the log, for the sessions of this manager.
Log == INSTANCE AuditWriterProofs WITH AuditSids <- Sids, live <- Live

\* Both instances of the log are the same.
LEMMA SameLog ==
  /\ Audit!Initially("opening") <=> Log!Initially("opening")
  /\ Audit!Next <=> Log!Next
  /\ Audit!vars' = Audit!vars <=> Log!vars' = Log!vars
  /\ Audit!TablesToBe = Log!TablesToBe
  <1>1. Audit!Initially("opening") <=> Log!Initially("opening")
        BY DEF Audit!Initially, Log!Initially, Audit!EmptyTables, Log!EmptyTables,
               Audit!NoFlush, Log!NoFlush
  <1>2. Audit!vars' = Audit!vars <=> Log!vars' = Log!vars
        BY DEF Audit!vars, Log!vars, Audit!tables, Log!tables, Audit!queueVars, Log!queueVars,
               Audit!input, Log!input
  <1>3. \A e, t : Audit!Apply(e, t) = Log!Apply(e, t)
        BY DEF Audit!Apply, Audit!OpenRows, Audit!RowToClose, Audit!Max, Log!Apply, Log!OpenRows,
               Log!RowToClose, Log!Max
  <1>4. Audit!TablesToBe = Log!TablesToBe
        BY DEF Audit!TablesToBe, Log!TablesToBe, Audit!FoldLeft, Log!FoldLeft,
               Audit!MapThenFoldSet, Log!MapThenFoldSet, Audit!Max, Log!Max,
               Audit!Apply, Log!Apply, Audit!OpenRows, Log!OpenRows, Audit!RowToClose,
               Log!RowToClose, Audit!OnTheWay, Log!OnTheWay, Audit!Last, Log!Last, Audit!Front,
               Log!Front
  <1>5. \A k, s, of : Audit!Enqueue(k, s, of) <=> Log!Enqueue(k, s, of)
        BY DEF Audit!Enqueue, Audit!Running, Audit!Ids, Audit!Put, Audit!tables, Log!Enqueue,
               Log!Running, Log!Ids, Log!Put, Log!tables
  <1>6. \A s : /\ Audit!SessionCreated(s) <=> Log!SessionCreated(s)
               /\ Audit!Exec(s) <=> Log!Exec(s)
               /\ Audit!SessionDestroyed(s) <=> Log!SessionDestroyed(s)
        BY <1>5 DEF Audit!SessionCreated, Audit!Exec, Audit!SessionDestroyed, Log!SessionCreated,
               Log!Exec, Log!SessionDestroyed
  <1>7. Audit!Read <=> Log!Read
        BY DEF Audit!Read, Audit!Running, Audit!ReadsCommitted, Audit!tables, Audit!queueVars,
               Audit!input, Log!Read, Log!Running, Log!ReadsCommitted, Log!tables, Log!queueVars,
               Log!input
  <1>8. /\ Audit!Open <=> Log!Open
        /\ Audit!OpenFails <=> Log!OpenFails
        /\ Audit!CloseConnection <=> Log!CloseConnection
        BY DEF Audit!Open, Audit!OpenFails, Audit!CloseConnection, Audit!GoesTo, Audit!tables,
               Audit!queueVars, Audit!input, Log!Open, Log!OpenFails, Log!CloseConnection,
               Log!GoesTo, Log!tables, Log!queueVars, Log!input
  <1>9. Audit!Take <=> Log!Take
        BY DEF Audit!Take, Audit!FirstOut, Audit!tables, Audit!input, Log!Take, Log!FirstOut,
               Log!tables, Log!input
  <1>10. Audit!TakeStop <=> Log!TakeStop
        BY DEF Audit!TakeStop, Audit!TaskDone, Audit!GoesTo, Audit!AfterStop, Audit!tables,
               Audit!input, Log!TakeStop, Log!TaskDone, Log!GoesTo, Log!AfterStop, Log!tables,
               Log!input
  <1>11. Audit!ItemDone <=> Log!ItemDone
        BY DEF Audit!ItemDone, Audit!TaskDone, Audit!GoesTo, Audit!input, Log!ItemDone,
               Log!TaskDone, Log!GoesTo, Log!input
  <1>12. /\ Audit!Write <=> Log!Write
         /\ Audit!ExecuteFails <=> Log!ExecuteFails
         /\ Audit!CommitFails <=> Log!CommitFails
         BY <1>3, <1>11
            DEF Audit!Write, Audit!ExecuteFails, Audit!CommitFails, Audit!Raised,
                Log!Write, Log!ExecuteFails, Log!CommitFails, Log!Raised
  <1>13. /\ Audit!StopBegins <=> Log!StopBegins
         /\ Audit!StopReturns <=> Log!StopReturns
        BY DEF Audit!StopBegins, Audit!StopReturns, Audit!Running, Audit!WithStop, Audit!tables,
               Audit!queueVars, Audit!input, Log!StopBegins, Log!StopReturns, Log!Running,
               Log!WithStop, Log!tables, Log!queueVars, Log!input
  <1>14. /\ Audit!FlushBegins <=> Log!FlushBegins
         /\ Audit!FlushReturns <=> Log!FlushReturns
        BY DEF Audit!FlushBegins, Audit!FlushReturns, Audit!Running, Audit!NoFlush, Audit!tables,
               Audit!input, Log!FlushBegins, Log!FlushReturns, Log!Running, Log!NoFlush,
               Log!tables, Log!input
  <1>15. /\ Audit!Exit <=> Log!Exit
         /\ Audit!Crash <=> Log!Crash
        BY DEF Audit!Exit, Audit!Crash, Audit!Running, Audit!ProcessEnds, Audit!NoFlush,
               Audit!GoesTo, Log!Exit, Log!Crash, Log!Running, Log!ProcessEnds, Log!NoFlush,
               Log!GoesTo
  <1>16. Audit!Start <=> Log!Start
        BY DEF Audit!Start, Audit!Running, Audit!GoesTo, Audit!tables, Audit!queueVars,
               Audit!input, Log!Start, Log!Running, Log!GoesTo, Log!tables, Log!queueVars,
               Log!input
  <1>17. Audit!Next <=> Log!Next
        BY <1>6, <1>7, <1>8, <1>9, <1>10, <1>12, <1>13, <1>14, <1>15, <1>16
           DEF Audit!Next, Audit!WriterStep, Audit!CallerStep, Log!Next, Log!WriterStep,
               Log!CallerStep
  <1>18. QED
        BY <1>1, <1>2, <1>4, <1>17

\* What the log assumes of its constants.
LEMMA LogConstants ==
  /\ MaxItems \in Nat /\ Faults \subseteq {"open", "execute", "commit"} /\ MayCrash \in BOOLEAN
  /\ Stop \notin Log!Events
  BY Environment, TrailEnvironment, TrailSentinel
     DEF Audit!Events, Audit!Kinds, Audit!Ids, Log!Events, Log!Kinds, Log!Ids

\* With the manager for a caller, the log is what it is proved to be.
LogInv == TInv /\ Log!AInv

\* It is at the start.
LEMMA LogStarts == TrailInit => LogInv
  <1> SUFFICES ASSUME TrailInit
               PROVE  LogInv
      OBVIOUS
  <1>1. Log!Initially("opening")
        BY SameLog DEF TrailInit
  <1>2. Log!AInv
        BY <1>1, LogConstants, Log!AInvInit
  <1>3. QED
        BY <1>2, TrailStarts DEF LogInv

\* It stays so.
LEMMA LogStep == ~SlowRemoval /\ LogInv /\ [TrailNext]_trailVars => LogInv'
  <1> SUFFICES ASSUME ~SlowRemoval, LogInv, [TrailNext]_trailVars
               PROVE  LogInv'
      OBVIOUS
  <1>1. TInv' /\ (Audit!Next \/ UNCHANGED Audit!vars)
        BY TrailStep DEF LogInv
  <1>2. Log!Next \/ UNCHANGED Log!vars
        BY <1>1, SameLog
  <1>3. Log!AInv'
        BY <1>2, LogConstants, Log!AInvNext DEF LogInv
  <1>4. QED
        BY <1>1, <1>3 DEF LogInv

\* What is proved of the log for a caller that keeps its contract holds of the log of
\* the manager: events are lost from the end only, stop() drains the queue before the
\* lifespan returns (main.py:68), and a row is closed by its own session.
THEOREM TrailIsLogged ==
    ~SlowRemoval =>
        (TrailSpec => [](/\ Log!CrashLosesSuffix
                         /\ Log!StopDrains
                         /\ Log!ClosedByItsOwnSession))
  <1> SUFFICES ASSUME ~SlowRemoval
               PROVE  TrailSpec => [](/\ Log!CrashLosesSuffix
                                      /\ Log!StopDrains
                                      /\ Log!ClosedByItsOwnSession)
      OBVIOUS
  <1>1. LogInv => /\ Log!CrashLosesSuffix
                  /\ Log!StopDrains
                  /\ Log!ClosedByItsOwnSession
        BY LogConstants, Log!InvLosesSuffix, Log!InvDrains, Log!InvClosesItsOwn DEF LogInv
  <1>2. QED
        BY <1>1, LogStarts, LogStep, PTL DEF TrailSpec

\* The log says of this process what its map says, as soon as what is on the way is
\* written: the rows that _write_one leaves open (audit.py:230-254) are those of the
\* sessions in the map, unless a write fails.
THEOREM LogIsTheMap ==
    ~SlowRemoval /\ Log!NoWriteFails => (TrailSpec => []TrailIsMap)
  <1> SUFFICES ASSUME ~SlowRemoval, Log!NoWriteFails
               PROVE  TrailSpec => []TrailIsMap
      OBVIOUS
  <1> DEFINE I == LogInv /\ Log!EndInv
  <1>1. TrailInit => I
    <2> SUFFICES ASSUME TrailInit
                 PROVE  Log!EndInv
        BY LogStarts
    <2>1. accepted = <<>> /\ failed = {}
          BY DEF TrailInit, Audit!Initially
    <2>2. QED
          BY <2>1 DEF Log!EndInv
  <1>2. I /\ [TrailNext]_trailVars => I'
    <2> SUFFICES ASSUME I, [TrailNext]_trailVars
                 PROVE  Log!EndInv'
        BY LogStep
    <2>1. Audit!Next \/ UNCHANGED Audit!vars
          BY TrailStep DEF LogInv
    <2>2. Log!Next \/ UNCHANGED Log!vars
          BY <2>1, SameLog
    <2>3. QED
          BY <2>2, LogConstants, Log!EndInvNext DEF LogInv
  <1>3. I => TrailIsMap
    <2> SUFFICES ASSUME I
                 PROVE  TrailIsMap
        OBVIOUS
    <2>1. {Live[s] : s \in {v \in Sids : Live[v] # 0}} =
          {e \in {accepted[i].id : i \in DOMAIN accepted} :
             \E j \in DOMAIN Log!TablesToBe.rows :
                 Log!TablesToBe.rows[j] \in [sid : Sids, of : {e}, closed : {0}]}
          BY LogConstants, Log!OpenRowsAreLive DEF LogInv
    <2>2. {Live[s] : s \in {v \in Sids : Live[v] # 0}} = {born[sessions[s]] : s \in Mapped}
      <3>1. \A s \in Sids : Live[s] # 0 <=> s \in Mapped
            BY DEF Live, Mapped, LogInv, TInv, Extra, Booked
      <3>2. \A s \in Mapped : Live[s] = born[sessions[s]]
            BY DEF Live, Mapped
      <3>3. Mapped \subseteq Sids
            BY DEF Mapped
      <3>4. QED
            BY <3>1, <3>2, <3>3
    <2>3. QED
          BY <2>1, <2>2, SameLog DEF TrailIsMap
  <1>4. QED
        BY <1>1, <1>2, <1>3, PTL DEF TrailSpec
=============================================================================
