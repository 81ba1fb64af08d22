-------------------------- MODULE ReaperClockProofs --------------------------
(***************************************************************************)
(* How long a session can be idle, for any number of sessions and any      *)
(* durations.                                                              *)
(***************************************************************************)
EXTENDS ReaperClock, FiniteSetTheorems, TLAPS

\* What is left of a round takes this long, without the destroy at work.
Left == Cardinality(victims) * DestroyTime

\* The reaper sleeps, destroys, or is about to destroy.
ReaperInv ==
    /\ current \notin ready
    /\ current \notin victims
    /\ current # None => timer <= DestroyTime
    /\ current = None /\ victims # {} => timer = 0
    /\ RoundOver => timer <= Period

\* A session that the next round will find, that this round will reach, or
\* that this round has missed.
IdleInv ==
    \A s \in ready :
        /\ RoundOver => idle[s] + timer <= IdleTtl + Period + RoundTime
        /\ ~RoundOver /\ s \in victims =>
              idle[s] + timer + Left - DestroyTime <= IdleTtl + Period + 2 * RoundTime
        /\ ~RoundOver /\ s \notin victims => idle[s] + timer + Left <= IdleTtl + RoundTime

BusyInv == \A s \in busy : idle[s] <= MaxCall

RInv == TypeOK /\ ReaperInv /\ IdleInv

\* Sets of sessions are finite.
LEMMA Finite ==
  ASSUME NEW S \in SUBSET Sids
  PROVE  IsFiniteSet(S) /\ Cardinality(S) \in Nat /\ Cardinality(S) <= Cardinality(Sids)
  BY Durations, FS_Subset, FS_CardinalityType

\* n destroys take n times as long as one.
LEMMA Times1 ==
  ASSUME NEW a \in Nat, NEW b \in Nat
  PROVE  /\ a <= b => a * DestroyTime <= b * DestroyTime
         /\ (a + 1) * DestroyTime = a * DestroyTime + DestroyTime
         /\ a * DestroyTime \in Nat
  <1>1. DestroyTime \in Nat
        BY Durations
  <1>2. QED
        BY <1>1

\* A round of destroying S leaves out s.
LEMMA OneLess ==
  ASSUME NEW S \in SUBSET Sids, NEW s \in Sids \ S
  PROVE  /\ Cardinality(S) * DestroyTime <= RoundTime
         /\ Cardinality(S) * DestroyTime \in Nat
         /\ RoundTime \in Nat
  <1>1. /\ IsFiniteSet(S) /\ Cardinality(S) \in Nat
        /\ Cardinality(S \cup {s}) = Cardinality(S) + 1
        /\ Cardinality(S \cup {s}) <= Cardinality(Sids)
        BY Finite, FS_AddElement
  <1>2. Cardinality(Sids) - 1 \in Nat /\ Cardinality(S) <= Cardinality(Sids) - 1
        BY <1>1, Finite
  <1>3. QED
        BY <1>1, <1>2, Times1 DEF RoundTime

\* One destroy less.
LEMMA Without ==
  ASSUME NEW S \in SUBSET Sids, NEW s \in S
  PROVE  /\ Cardinality(S) * DestroyTime = Cardinality(S \ {s}) * DestroyTime + DestroyTime
         /\ Cardinality(S \ {s}) * DestroyTime \in Nat
         /\ Cardinality(S) * DestroyTime \in Nat
         /\ Cardinality(S \ {s}) * DestroyTime <= RoundTime
  <1>1. /\ IsFiniteSet(S) /\ Cardinality(S) \in Nat
        /\ Cardinality(S \ {s}) = Cardinality(S) - 1
        BY Finite, FS_RemoveElement
  <1>2. Cardinality(S \ {s}) \in Nat
        BY Finite
  <1>3. Cardinality(S) = Cardinality(S \ {s}) + 1
        BY <1>1, <1>2
  <1>4. QED
        BY <1>1, <1>2, <1>3, Times1, OneLess

\* A list that has just been drawn up, and one that is missed.
LEMMA Sum ==
  ASSUME NEW i \in Nat, NEW l \in Nat, NEW d \in Nat, NEW t \in Nat, NEW p \in Nat,
         NEW r \in Nat, l - d <= r, i <= t + p + r
  PROVE  i + 0 + l - d <= t + p + 2 * r
  OBVIOUS

\* The durations are numbers.
LEMMA Numbers ==
  ASSUME TypeOK
  PROVE  /\ Left \in Nat
         /\ DestroyTime \in Nat /\ IdleTtl \in Nat /\ Period \in Nat /\ MaxCall \in Nat
         /\ MaxTime \in Nat
         /\ timer \in Nat
         /\ \A s \in Sids : idle[s] \in Nat
  <1>1. Cardinality(victims) \in Nat
        BY Finite DEF TypeOK
  <1>2. QED
        BY <1>1, Times1, Durations DEF Left, TypeOK, Times

\* A session that is new in this round, or has just been used.
LEMMA WorkLeft ==
  ASSUME TypeOK, ReaperInv, NEW s \in Sids, s # current
  PROVE  /\ RoundTime \in Nat
         /\ s \notin victims /\ ~RoundOver => timer + Left <= RoundTime
         /\ s \in victims => timer + Left - DestroyTime <= RoundTime
  <1>1. RoundTime \in Nat
        BY OneLess
  <1>2. CASE current = None /\ s \notin victims
        BY <1>1, <1>2, OneLess, Numbers DEF TypeOK, ReaperInv, RoundOver, Left
  <1>3. CASE current = None /\ s \in victims
    <2>1. timer = 0
          BY <1>3 DEF ReaperInv
    <2>2. /\ Left = Cardinality(victims \ {s}) * DestroyTime + DestroyTime
          /\ Cardinality(victims \ {s}) * DestroyTime \in Nat
          /\ Cardinality(victims \ {s}) * DestroyTime <= RoundTime
          BY <1>3, Without DEF TypeOK, Left
    <2>3. QED
          BY <1>1, <1>3, <2>1, <2>2, Numbers
  <1>4. CASE current # None
    <2> DEFINE S == victims \cup {current}
    <2>1. /\ S \in SUBSET Sids
          /\ current \in S
          /\ S \ {current} = victims
          /\ timer <= DestroyTime
          BY <1>4 DEF TypeOK, ReaperInv
    <2> HIDE DEF S
    <2>2. Cardinality(S) * DestroyTime = Left + DestroyTime /\ Left <= RoundTime
          BY <2>1, Without DEF Left
    <2>3. CASE s \notin victims
      <3>1. s \notin S
            BY <2>3 DEF S
      <3>2. Cardinality(S) * DestroyTime <= RoundTime
            BY <2>1, <3>1, OneLess
      <3>3. QED
            BY <1>1, <2>1, <2>2, <2>3, <3>2, Numbers
    <2>4. CASE s \in victims
          BY <1>1, <2>1, <2>2, <2>4, Numbers
    <2>5. QED
          BY <2>3, <2>4
  <1>5. QED
        BY <1>2, <1>3, <1>4

-----------------------------------------------------------------------------
\* At first there is no session and the reaper sleeps.
LEMMA RInvInit == Init => RInv
  BY Durations DEF Init, RInv, TypeOK, Times, ReaperInv, IdleInv, RoundOver

\* The types, for every step.
LEMMA RTypeNext == TypeOK /\ [Next]_vars => TypeOK'
  <1> SUFFICES ASSUME TypeOK, [Next]_vars
               PROVE  TypeOK'
      OBVIOUS
  <1> USE Durations DEF TypeOK, Times, reaperVars, Pause
  <1>1. ASSUME NEW s \in Sids, Create(s) \/ Delete(s)
        PROVE  TypeOK'
        BY <1>1 DEF Create, Delete
  <1>2. ASSUME NEW s \in Sids, DestroyNext(s)
        PROVE  TypeOK'
        BY <1>2 DEF DestroyNext
  <1>3. ASSUME NEW s \in Sids, CallBegins(s) \/ CallEnds(s)
        PROVE  TypeOK'
        BY <1>3 DEF CallBegins, CallEnds, Touch
  <1>4. CASE Scan
        BY <1>4 DEF Scan
  <1>5. CASE Destroyed
        BY <1>5 DEF Destroyed
  <1>6. CASE Tick
    <2>1. idle' \in [Sids -> 0 .. MaxTime] /\ age' \in [Sids -> 0 .. MaxTime]
          BY <1>6 DEF Tick, Later
    <2>2. QED
          BY <1>6, <2>1 DEF Tick
  <1>7. CASE UNCHANGED vars
        BY <1>7 DEF vars
  <1>8. QED
        BY <1>1, <1>2, <1>3, <1>4, <1>5, <1>6, <1>7 DEF Next

\* The reaper, for every step.
LEMMA ReaperNext == RInv /\ [Next]_vars => ReaperInv'
  <1> SUFFICES ASSUME RInv, [Next]_vars
               PROVE  ReaperInv'
      OBVIOUS
  <1> USE Durations, Numbers DEF RInv, TypeOK, ReaperInv, RoundOver, reaperVars, Pause
  <1>1. ASSUME NEW s \in Sids, Create(s) \/ Delete(s)
        PROVE  ReaperInv'
        BY <1>1 DEF Create, Delete
  <1>2. ASSUME NEW s \in Sids, DestroyNext(s)
        PROVE  ReaperInv'
        BY <1>2 DEF DestroyNext
  <1>3. ASSUME NEW s \in Sids, CallBegins(s) \/ CallEnds(s)
        PROVE  ReaperInv'
        BY <1>3 DEF CallBegins, CallEnds
  <1>4. CASE Scan
        BY <1>4 DEF Scan
  <1>5. CASE Destroyed
        BY <1>5 DEF Destroyed
  <1>6. CASE Tick
        BY <1>6 DEF Tick
  <1>7. CASE UNCHANGED vars
        BY <1>7 DEF vars
  <1>8. QED
        BY <1>1, <1>2, <1>3, <1>4, <1>5, <1>6, <1>7 DEF Next

\* The idle times, for every step.
LEMMA IdleNext == RInv /\ [Next]_vars => IdleInv'
  <1> SUFFICES ASSUME RInv, [Next]_vars, NEW v \in ready'
               PROVE  /\ RoundOver' => idle'[v] + timer' <= IdleTtl + Period + RoundTime
                      /\ ~RoundOver' /\ v \in victims' =>
                            idle'[v] + timer' + Left' - DestroyTime
                               <= IdleTtl + Period + 2 * RoundTime
                      /\ ~RoundOver' /\ v \notin victims' =>
                            idle'[v] + timer' + Left' <= IdleTtl + RoundTime
      BY DEF IdleInv, RoundTime
  <1>t. /\ TypeOK /\ ReaperInv /\ IdleInv
        /\ TypeOK' /\ ReaperInv'
        BY RTypeNext, ReaperNext DEF RInv
  <1>v. v \in Sids /\ v # current'
        BY <1>t DEF TypeOK, ReaperInv
  <1>n. /\ Left \in Nat /\ Left' \in Nat
        /\ DestroyTime \in Nat /\ IdleTtl \in Nat /\ Period \in Nat
        /\ timer \in Nat /\ timer' \in Nat
        /\ idle[v] \in Nat /\ idle'[v] \in Nat
        /\ RoundTime \in Nat
    <2>1. Left' \in Nat
      <3>1. Cardinality(victims') \in Nat
            BY <1>t, Finite DEF TypeOK
      <3>2. QED
            BY <3>1, Times1 DEF Left
    <2>2. idle'[v] \in Nat /\ timer' \in Nat
          BY <1>t, <1>v, Durations DEF TypeOK, Times
    <2>3. RoundTime \in Nat
      <3>1. v \notin {}
            OBVIOUS
      <3>2. QED
            BY <1>v, <3>1, OneLess
    <2>4. QED
          BY <1>t, <1>v, <2>1, <2>2, <2>3, Numbers
  \* A session that has just been created or used.
  <1>f. ASSUME UNCHANGED reaperVars, idle'[v] = 0
        PROVE  /\ RoundOver' => idle'[v] + timer' <= IdleTtl + Period + RoundTime
               /\ ~RoundOver' /\ v \in victims' =>
                     idle'[v] + timer' + Left' - DestroyTime
                        <= IdleTtl + Period + 2 * RoundTime
               /\ ~RoundOver' /\ v \notin victims' =>
                     idle'[v] + timer' + Left' <= IdleTtl + RoundTime
    <2>1. v # current
          BY <1>v, <1>f DEF reaperVars
    <2>2. /\ v \notin victims /\ ~RoundOver => timer + Left <= RoundTime
          /\ v \in victims => timer + Left - DestroyTime <= RoundTime
          /\ RoundOver => timer <= Period
          BY <1>t, <1>v, <2>1, WorkLeft DEF ReaperInv
    <2>3. timer' = timer /\ Left' = Left /\ victims' = victims /\ RoundOver' = RoundOver
          BY <1>f DEF reaperVars, Left, RoundOver
    <2>4. QED
          BY <1>f, <1>n, <2>2, <2>3
  \* One that was there, and of which nothing has changed.
  <1>u. ASSUME UNCHANGED reaperVars, v \in ready, idle'[v] = idle[v]
        PROVE  /\ RoundOver' => idle'[v] + timer' <= IdleTtl + Period + RoundTime
               /\ ~RoundOver' /\ v \in victims' =>
                     idle'[v] + timer' + Left' - DestroyTime
                        <= IdleTtl + Period + 2 * RoundTime
               /\ ~RoundOver' /\ v \notin victims' =>
                     idle'[v] + timer' + Left' <= IdleTtl + RoundTime
    <2>1. timer' = timer /\ Left' = Left /\ victims' = victims /\ RoundOver' = RoundOver
          BY <1>u DEF reaperVars, Left, RoundOver
    <2>2. QED
          BY <1>t, <1>u, <2>1 DEF IdleInv
  <1>1. CASE \E s \in Sids : Create(s) \/ CallBegins(s) \/ CallEnds(s)
    <2>1. /\ UNCHANGED reaperVars
          /\ idle'[v] = 0 \/ (v \in ready /\ idle'[v] = idle[v])
          BY <1>1, <1>t, <1>v DEF Create, CallBegins, CallEnds, Touch, TypeOK
    <2>2. QED
          BY <1>f, <1>u, <2>1
  <1>2. CASE (\E s \in Sids : Delete(s)) \/ UNCHANGED vars
    <2>1. UNCHANGED reaperVars /\ v \in ready /\ idle'[v] = idle[v]
          BY <1>2 DEF Delete, vars, reaperVars
    <2>2. QED
          BY <1>u, <2>1
  <1>3. ASSUME NEW s \in Sids, DestroyNext(s), s \in ready
        PROVE  /\ RoundOver' => idle'[v] + timer' <= IdleTtl + Period + RoundTime
               /\ ~RoundOver' /\ v \in victims' =>
                     idle'[v] + timer' + Left' - DestroyTime
                        <= IdleTtl + Period + 2 * RoundTime
               /\ ~RoundOver' /\ v \notin victims' =>
                     idle'[v] + timer' + Left' <= IdleTtl + RoundTime
    <2>1. /\ s \in victims /\ victims' = victims \ {s} /\ current' = s /\ timer' = DestroyTime
          /\ current = None /\ v \in ready /\ v # s /\ idle'[v] = idle[v] /\ timer = 0
          BY <1>3, <1>t DEF DestroyNext, ReaperInv
    <2>2. Left = Left' + DestroyTime
          BY <2>1, <1>t, Without DEF Left, TypeOK
    <2>3. ~RoundOver /\ ~RoundOver' /\ (v \in victims' <=> v \in victims)
          BY <2>1, Durations DEF RoundOver
    <2>4. QED
          BY <1>t, <1>n, <2>1, <2>2, <2>3 DEF IdleInv
  <1>4. ASSUME NEW s \in Sids, DestroyNext(s), s \notin ready
        PROVE  /\ RoundOver' => idle'[v] + timer' <= IdleTtl + Period + RoundTime
               /\ ~RoundOver' /\ v \in victims' =>
                     idle'[v] + timer' + Left' - DestroyTime
                        <= IdleTtl + Period + 2 * RoundTime
               /\ ~RoundOver' /\ v \notin victims' =>
                     idle'[v] + timer' + Left' <= IdleTtl + RoundTime
    <2>1. /\ s \in victims /\ victims' = victims \ {s} /\ current' = None
          /\ timer' = Pause(victims') /\ timer = 0 /\ current = None
          /\ v \in ready /\ v # s /\ idle'[v] = idle[v]
          BY <1>4, <1>t DEF DestroyNext, ReaperInv
    <2>2. Left = Left' + DestroyTime
          BY <2>1, <1>t, Without DEF Left, TypeOK
    <2>3. ~RoundOver /\ (v \in victims' <=> v \in victims)
          BY <2>1 DEF RoundOver
    <2>4. /\ RoundOver' => v \notin victims /\ timer' = Period
          /\ ~RoundOver' => timer' = 0
          BY <2>1, <2>3 DEF RoundOver, Pause
    <2>5. QED
          BY <1>t, <1>n, <2>1, <2>2, <2>3, <2>4 DEF IdleInv
  <1>5. CASE Scan
    <2>1. /\ RoundOver /\ timer = 0 /\ current' = None
          /\ victims' = {s \in ready : Expired(s)} /\ timer' = Pause(victims')
          /\ v \in ready /\ idle'[v] = idle[v]
          BY <1>5 DEF Scan, RoundOver
    <2>2. idle[v] <= IdleTtl + Period + RoundTime
          BY <1>t, <1>n, <2>1 DEF IdleInv
    <2>3. v \notin victims' => idle[v] <= IdleTtl
          BY <1>n, <2>1 DEF Expired
    <2>4. /\ RoundOver' => v \notin victims' /\ timer' = Period
          /\ ~RoundOver' => timer' = 0
          BY <2>1 DEF RoundOver, Pause
    <2>5. victims' \in SUBSET Sids
          BY <1>t DEF TypeOK
    <2>6. v \notin victims' => Left' <= RoundTime
          BY <1>v, <2>5, OneLess DEF Left
    <2>7. v \in victims' => Left' - DestroyTime <= RoundTime
      <3>1. ASSUME v \in victims'
            PROVE  /\ Cardinality(victims') * DestroyTime
                         = Cardinality(victims' \ {v}) * DestroyTime + DestroyTime
                   /\ Cardinality(victims' \ {v}) * DestroyTime \in Nat
                   /\ Cardinality(victims' \ {v}) * DestroyTime <= RoundTime
            BY <2>5, <3>1, Without
      <3>2. QED
            BY <1>n, <3>1 DEF Left
    <2>8. CASE RoundOver'
      <3>1. v \notin victims' /\ timer' = Period /\ idle'[v] <= IdleTtl
            BY <2>1, <2>3, <2>4, <2>8
      <3>2. idle'[v] + timer' <= IdleTtl + Period + RoundTime
            BY <1>n, <3>1
      <3>3. QED
            BY <2>8, <3>2
    <2>9. CASE ~RoundOver' /\ v \in victims'
      <3>1. timer' = 0 /\ Left' - DestroyTime <= RoundTime
            BY <2>4, <2>7, <2>9
      <3>2. idle'[v] <= IdleTtl + Period + RoundTime
            BY <2>1, <2>2
      <3>3. idle'[v] + timer' + Left' - DestroyTime <= IdleTtl + Period + 2 * RoundTime
            BY <1>n, <3>1, <3>2, Sum
      <3>4. QED
            BY <2>9, <3>3
    <2>10. CASE ~RoundOver' /\ v \notin victims'
      <3>1. timer' = 0 /\ Left' <= RoundTime /\ idle'[v] <= IdleTtl
            BY <2>1, <2>3, <2>4, <2>6, <2>10
      <3>2. idle'[v] + timer' + Left' <= IdleTtl + RoundTime
            BY <1>n, <3>1
      <3>3. QED
            BY <2>10, <3>2
    <2>11. QED
          BY <2>8, <2>9, <2>10
  <1>6. CASE Destroyed
    <2>1. /\ current # None /\ current' = None /\ victims' = victims
          /\ timer' = Pause(victims) /\ v \in ready /\ idle'[v] = idle[v]
          BY <1>6 DEF Destroyed
    <2>2. Left' = Left /\ ~RoundOver
          BY <2>1 DEF Left, RoundOver
    <2>3. /\ RoundOver' => v \notin victims /\ timer' = Period
          /\ ~RoundOver' => timer' = 0
          BY <2>1 DEF RoundOver, Pause
    <2>4. QED
          BY <1>t, <1>n, <2>1, <2>2, <2>3 DEF IdleInv
  <1>7. CASE Tick
    <2>1. /\ timer' = timer - 1 /\ victims' = victims /\ current' = current /\ v \in ready
          /\ idle'[v] = Later(idle[v])
          BY <1>7, <1>v DEF Tick
    <2>2. idle'[v] <= idle[v] + 1
          BY <1>n, <2>1, Durations DEF Later
    <2>3. Left' = Left /\ RoundOver' = RoundOver
          BY <2>1 DEF Left, RoundOver
    <2>4. QED
          BY <1>t, <1>n, <2>1, <2>2, <2>3 DEF IdleInv
  <1>8. QED
        BY <1>1, <1>2, <1>3, <1>4, <1>5, <1>6, <1>7 DEF Next

\* However the clients and the reaper interleave, what is left of the round and
\* the time a session has been idle add up to the bound (manager.py:188-209).
THEOREM ReaperInvariance == Spec => []RInv
  <1>1. RInv /\ [Next]_vars => RInv'
        BY RTypeNext, ReaperNext, IdleNext DEF RInv
  <1>2. QED
        BY RInvInit, <1>1, PTL DEF Spec

\* The ready sessions, the reaper's list and its timer keep their types
\* (manager.py:188-209).
THEOREM ClockTypeCorrect == Spec => []TypeOK
  BY ReaperInvariance, PTL DEF RInv

\* A session that nobody uses is evicted in bounded time (manager.py:188-209).
THEOREM EvictionIsBounded == Spec => []IdleIsBounded
  <1>1. RInv => IdleIsBounded
    <2> SUFFICES ASSUME RInv, NEW s \in ready
                 PROVE  idle[s] <= IdleTtl + Period + 2 * RoundTime
        BY DEF IdleIsBounded
    <2>1. s \in Sids /\ TypeOK /\ IdleInv
          BY DEF RInv, TypeOK
    <2>2. RoundTime \in Nat
      <3>1. s \notin {}
            OBVIOUS
      <3>2. QED
            BY <2>1, <3>1, OneLess
    <2>3. s \in victims => Left >= DestroyTime
      <3>1. ASSUME s \in victims
            PROVE  /\ Left = Cardinality(victims \ {s}) * DestroyTime + DestroyTime
                   /\ Cardinality(victims \ {s}) * DestroyTime \in Nat
            BY <2>1, <3>1, Without DEF Left, TypeOK
      <3>2. QED
            BY <2>1, <3>1, Numbers
    <2>4. QED
          BY <2>1, <2>2, <2>3, Numbers DEF IdleInv
  <1>2. QED
        BY <1>1, ReaperInvariance, PTL

\* No scan takes a session whose call is running for an idle one, as long as
\* calls are shorter than idle_ttl_s (exec.py:50-52).
THEOREM CallsAreSpared == Spec => ScanSparesBusy
  <1> DEFINE Inv == TypeOK /\ BusyInv
             Spared == \A s \in victims' \ victims : s \notin busy \/ ComputedAge(s) > MaxAge
  <1>1. Init => Inv
        BY RInvInit DEF Init, RInv, BusyInv
  <1>2. Inv /\ [Next]_vars => Inv'
    <2> SUFFICES ASSUME Inv, [Next]_vars
                 PROVE  BusyInv'
        BY RTypeNext
    <2> USE DEF BusyInv, TypeOK, Times
    <2>1. CASE \E s \in Sids : Create(s) \/ Delete(s) \/ DestroyNext(s)
          BY <2>1 DEF Create, Delete, DestroyNext
    <2>2. CASE \E s \in Sids : CallBegins(s) \/ CallEnds(s)
          BY <2>2, Durations DEF CallBegins, CallEnds, Touch
    <2>3. CASE Scan \/ Destroyed \/ UNCHANGED vars
          BY <2>3 DEF Scan, Destroyed, vars
    <2>4. CASE Tick
          BY <2>4, Durations DEF Tick, Later
    <2>5. QED
          BY <2>1, <2>2, <2>3, <2>4 DEF Next
  <1>3. Inv /\ [Next]_vars => [Spared]_vars
    <2> SUFFICES ASSUME Inv, Next, NEW s \in victims' \ victims
                 PROVE  s \notin busy \/ ComputedAge(s) > MaxAge
        OBVIOUS
    <2>1. Scan
          BY DEF Next, Create, Delete, DestroyNext, CallBegins, CallEnds, Destroyed, Tick,
                 reaperVars
    <2>2. Expired(s) /\ s \in ready
          BY <2>1 DEF Scan
    <2>3. CASE s \in busy
      <3>1. idle[s] \in Nat /\ idle[s] <= MaxCall
            BY <2>3, Durations DEF BusyInv, TypeOK, Times
      <3>2. QED
            BY <2>2, <3>1, Durations, CallsEndBeforeTtl DEF Expired
    <2>4. QED
          BY <2>3
  <1>4. QED
        BY <1>1, <1>2, <1>3, PTL DEF Spec, ScanSparesBusy
=============================================================================
