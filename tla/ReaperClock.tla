---------------------------- MODULE ReaperClock ----------------------------
(***************************************************************************)
(* The reaper of app/runtime/manager.py in time: how long a session can    *)
(* stay READY after it has exceeded idle_ttl_s or max_age_s.  Time passes  *)
(* in ticks; every other step is immediate.  SessionManager has the same   *)
(* reaper with its interleavings and without its clocks.                   *)
(***************************************************************************)
EXTENDS Integers, FiniteSets

CONSTANTS
    Sids,
    None,
    IdleTtl,      \* settings.idle_ttl_s
    MaxCall,      \* the longest exec call: timeout_s is at most 600 (models.py:44)
    MaxAge,       \* settings.max_age_s
    Period,       \* the reaper sleeps 120 s between two rounds
    DestroyTime,  \* how long one destroy() takes at most
    ClockOffset,  \* what the wall clock is ahead of the monotonic clock
    MaxTime       \* ages and idle times are not counted beyond this

ASSUME Durations ==
    /\ None \notin Sids
    /\ IsFiniteSet(Sids)
    /\ {IdleTtl, MaxCall, MaxAge, Period, DestroyTime, ClockOffset, MaxTime} \subseteq Nat

\* idle_ttl_s is 1800 unless the operator sets it; nothing compares it with the
\* limit on timeout_s.
ASSUME CallsEndBeforeTtl == MaxCall <= IdleTtl

VARIABLES
    ready,    \* the sessions that are READY
    busy,     \* those whose exec_lock a call holds
    idle,     \* ticks since last_used_at; of a busy session, since its call began
    age,      \* ticks since created_at
    victims,  \* what is left of to_destroy
    current,  \* the session the reaper is destroying
    timer     \* ticks left of the sleep, or of the destroy at most

reaperVars == <<victims, current, timer>>
vars == <<ready, busy, idle, age, reaperVars>>

Times == 0 .. MaxTime

TypeOK ==
    /\ ready \subseteq Sids
    /\ busy \subseteq ready
    /\ idle \in [Sids -> Times]
    /\ age \in [Sids -> Times]
    /\ victims \subseteq Sids
    /\ current \in Sids \cup {None}
    /\ timer \in Nat

\* Mutant: the count goes on.
LaterUnbounded(t) == t + 1

Later(t) == IF t < MaxTime THEN t + 1 ELSE t

\* now is a reading of the monotonic clock, and created_at is converted to a
\* reading of the wall clock.
ComputedAge(s) == age[s] - ClockOffset

Expired(s) == idle[s] > IdleTtl \/ ComputedAge(s) > MaxAge

-----------------------------------------------------------------------------
Create(s) ==
    /\ s \notin ready
    /\ s # current
    /\ ready' = ready \cup {s}
    /\ idle' = [idle EXCEPT ![s] = 0]
    /\ age' = [age EXCEPT ![s] = 0]
    /\ UNCHANGED <<busy, reaperVars>>

\* Mutant: touch() is forgotten.
NoTouch(s) == UNCHANGED idle

Touch(s) == idle' = [idle EXCEPT ![s] = 0]

\* POST /v1/sessions/s/exec gets the lock, and touches the session before and
\* after it lets the kernel run the cell.
CallBegins(s) ==
    /\ s \in ready \ busy
    /\ busy' = busy \cup {s}
    /\ Touch(s)
    /\ UNCHANGED <<ready, age, reaperVars>>

CallEnds(s) ==
    /\ s \in busy
    /\ busy' = busy \ {s}
    /\ Touch(s)
    /\ UNCHANGED <<ready, age, reaperVars>>

\* Mutant: the reaper sleeps after each destroy.
AlwaysSleep(rest) == Period

\* How long the reaper sleeps once it is through with one of its victims.
Pause(rest) == IF rest = {} THEN Period ELSE 0

RoundOver == current = None /\ victims = {}

\* The sleep is over.  A round that finds nothing is followed by a sleep.
Scan ==
    /\ RoundOver
    /\ timer = 0
    /\ victims' = {s \in ready : Expired(s)}
    /\ timer' = Pause(victims')
    /\ UNCHANGED <<ready, busy, idle, age, current>>

\* The list is gone through one destroy() after the other.
DestroyNext(s) ==
    /\ current = None
    /\ s \in victims
    /\ victims' = victims \ {s}
    /\ \/ /\ s \in ready
          /\ ready' = ready \ {s}
          /\ busy' = busy \ {s}
          /\ current' = s
          /\ timer' = DestroyTime
       \/ /\ s \notin ready
          /\ timer' = Pause(victims')
          /\ UNCHANGED <<ready, busy, current>>
    /\ UNCHANGED <<idle, age>>

Destroyed ==
    /\ current # None
    /\ current' = None
    /\ timer' = Pause(victims)
    /\ UNCHANGED <<ready, busy, idle, age, victims>>

\* DELETE by a client.
Delete(s) ==
    /\ s \in ready
    /\ ready' = ready \ {s}
    /\ busy' = busy \ {s}
    /\ UNCHANGED <<idle, age, reaperVars>>

Tick ==
    /\ timer > 0
    /\ \A s \in busy : idle[s] < MaxCall
    /\ timer' = timer - 1
    /\ idle' = [s \in Sids |-> IF s \in ready THEN Later(idle[s]) ELSE 0]
    /\ age' = [s \in Sids |-> IF s \in ready THEN Later(age[s]) ELSE 0]
    /\ UNCHANGED <<ready, busy, victims, current>>

-----------------------------------------------------------------------------
Init ==
    /\ ready = {}
    /\ busy = {}
    /\ idle = [s \in Sids |-> 0]
    /\ age = [s \in Sids |-> 0]
    /\ victims = {}
    /\ current = None
    /\ timer = Period

Next ==
    \/ \E s \in Sids : Create(s) \/ Delete(s) \/ DestroyNext(s)
    \/ \E s \in Sids : CallBegins(s) \/ CallEnds(s)
    \/ Scan \/ Destroyed \/ Tick

Spec == Init /\ [][Next]_vars

-----------------------------------------------------------------------------
\* What one round takes at most, for the sessions other than s.
RoundTime == (Cardinality(Sids) - 1) * DestroyTime

\* A session that nobody uses does not stay READY for longer than idle_ttl_s,
\* one sleep and two rounds of destroying the others: the round that just
\* missed it and the one that has it on its list (manager.py:189-209).
IdleIsBounded ==
    \A s \in ready : idle[s] <= IdleTtl + Period + 2 * RoundTime

\* A session whose call is still running is not idle, although touch() is called
\* only at its start and at its end (exec.py:50-52): no scan puts it on the
\* reaper's list, unless it is too old.
ScanSparesBusy ==
    [][\A s \in victims' \ victims : s \notin busy \/ ComputedAge(s) > MaxAge]_vars

\* "evicts sessions that exceed ... MAX_AGE_S" (README.md:17-19): in use or
\* not, a session is not READY for longer than that, with the same allowance.
AgeIsBounded ==
    \A s \in ready : age[s] <= MaxAge + Period + 2 * RoundTime
=============================================================================
