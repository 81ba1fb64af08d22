-------------------------- MODULE SessionRegistry --------------------------
(***************************************************************************)
(* What the session manager promises its callers, with no word of Docker,  *)
(* of tasks or of who asked: a registry that holds at most one ready       *)
(* session per conversation, that opens a session only for a conversation  *)
(* that has none, and in which a session that is being closed never comes  *)
(* back.                                                                   *)
(***************************************************************************)
CONSTANTS Sids, Cids, None

VARIABLES
    pending,    \* the conversations for which a session is being opened
    ready,      \* ready[s]: the session that serves conversation s
    closing     \* the sessions that are being closed

registryVars == <<pending, ready, closing>>

RegistryInit ==
    /\ pending = {}
    /\ ready = [s \in Sids |-> None]
    /\ closing = {}

\* Opening a session is begun once, and only when there is none.
Begin(s) ==
    /\ s \notin pending
    /\ ready[s] = None
    /\ pending' = pending \cup {s}
    /\ UNCHANGED <<ready, closing>>

Abort(s) ==
    /\ s \in pending
    /\ pending' = pending \ {s}
    /\ UNCHANGED <<ready, closing>>

\* The session that is opened takes the place of no other and is a new one.
Admit(s, c) ==
    /\ s \in pending
    /\ ready[s] = None
    /\ c \notin closing
    /\ \A v \in Sids : ready[v] # c
    /\ pending' = pending \ {s}
    /\ ready' = [ready EXCEPT ![s] = c]
    /\ UNCHANGED closing

Close(s) ==
    /\ ready[s] # None
    /\ closing' = closing \cup {ready[s]}
    /\ ready' = [ready EXCEPT ![s] = None]
    /\ UNCHANGED pending

Closed(c) ==
    /\ c \in closing
    /\ closing' = closing \ {c}
    /\ UNCHANGED <<pending, ready>>

\* A sweep goes from one session to the next in one step.
CloseNext(c, s) ==
    /\ c \in closing
    /\ ready[s] # None
    /\ closing' = (closing \ {c}) \cup {ready[s]}
    /\ ready' = [ready EXCEPT ![s] = None]
    /\ UNCHANGED pending

\* The process ends; the registry is in its memory only.
Reset ==
    /\ pending' = {}
    /\ ready' = [s \in Sids |-> None]
    /\ closing' = {}

RegistryNext ==
    \/ \E s \in Sids : Begin(s) \/ Abort(s) \/ Close(s)
    \/ \E s \in Sids, c \in Cids : Admit(s, c) \/ CloseNext(c, s)
    \/ \E c \in Cids : Closed(c)
    \/ Reset

RegistrySpec == RegistryInit /\ [][RegistryNext]_registryVars

\* Once a session is being closed its conversation is never served by it
\* again, and nobody else is.
RegistrySafe ==
    /\ \A s, v \in Sids : ready[s] # None /\ ready[s] = ready[v] => s = v
    /\ \A s \in Sids : ready[s] \notin closing
=============================================================================
