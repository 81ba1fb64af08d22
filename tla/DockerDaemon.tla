---------------------------- MODULE DockerDaemon ----------------------------
(***************************************************************************)
(* The Docker engine, as far as DockerRuntime (app/runtime/                 *)
(* docker_runtime.py) depends on it.  The engine is a process of its own:  *)
(* what it holds survives a crash or a restart of the gateway.              *)
(*                                                                         *)
(* Every sandbox container is created under the name "sbx-<session id>"    *)
(* (docker_runtime.py:181).  The engine refuses a second container of the  *)
(* same name, whatever the state of the first one is.                      *)
(***************************************************************************)
CONSTANTS
    Cids,       \* container ids
    Sids,       \* session ids (a conversation id is its session id)
    None        \* no container, no session, no request

VARIABLES
    container,  \* container[c]: what the engine knows of container c
    name        \* name[c]: the session id in c's name, None when c is absent

dockerVars == <<container, name>>

ContainerStates == {"absent", "stopped", "running"}

DockerTypeOK ==
    /\ container \in [Cids -> ContainerStates]
    /\ name \in [Cids -> Sids \cup {None}]

Exists(c) == container[c] # "absent"

\* Mutant: containers are created without a name of their session.
NeverTaken(s) == FALSE

NameTaken(s) == \E c \in Cids : Exists(c) /\ name[c] = s

\* The image, the bind mount, the ports and the limits of the container are
\* not told apart; st is "stopped" for a container created but not started.
Launch(c, s, st) ==
    /\ container' = [container EXCEPT ![c] = st]
    /\ name' = [name EXCEPT ![c] = s]

Remove(c) ==
    /\ container' = [container EXCEPT ![c] = "absent"]
    /\ name' = [name EXCEPT ![c] = None]

\* The container's process ends and nothing restarts it (external).
Exits(c) ==
    /\ container[c] = "running"
    /\ container' = [container EXCEPT ![c] = "stopped"]
    /\ UNCHANGED name

\* A removal that fails, before or after the container has been stopped.
FailToRemove(c) ==
    /\ \/ container' = [container EXCEPT ![c] = "stopped"]
       \/ UNCHANGED container
    /\ UNCHANGED name

DockerInit ==
    /\ container = [c \in Cids |-> "absent"]
    /\ name = [c \in Cids |-> None]
=============================================================================
