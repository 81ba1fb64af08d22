------------------------------ MODULE Workspace ------------------------------
(***************************************************************************)
(* Uploads and deletes (app/routers/files.py) in one workspace, each with  *)
(* its steps in a worker thread, among those of the sandbox that has the   *)
(* directory mounted, while sessions of the same id come and go over it    *)
(* (docker_runtime.py:147).                                                *)
(*                                                                         *)
(* A call looks its session up when it begins, and not again.  A path is   *)
(* what _safe_path makes of it then, with its links resolved.  The         *)
(* workspace is flat here: a directory in it would be an entry that        *)
(* uploads cannot open.  Each call is made once; an upload is told apart   *)
(* from any other content by its name, and is as long as Size says.        *)
(***************************************************************************)
EXTENDS Naturals, Sequences, FiniteSets

CONSTANTS
    Uploads,    \* the calls
    Deletes,
    Paths,      \* the paths in the workspace
    Size,       \* Size[u]: how many writes the data of upload u takes
    MaxSize,    \* settings.file_upload_max_mb
    Sandbox,    \* the program in the sandbox, as the author of a file
    None

ASSUME WorkspaceEnvironment ==
    /\ Size \in [Uploads -> Nat]
    /\ MaxSize \in Nat
    /\ Uploads \cap Deletes = {}
    /\ Sandbox \notin Uploads
    /\ None \notin Uploads \cup Paths

VARIABLES
    ready,      \* whether the manager has a READY session for this workspace
    file,       \* file[p]: the inode that p names, None when there is no p
    data,       \* data[i]: what inode i holds: who has written each block
    call,       \* call[c]: where the call is
    target,     \* target[c]: its path
    handle,     \* handle[u]: the inode that upload u has, or had, open
    written,    \* written[u]: how many blocks upload u has written
    answer,     \* answer[u]: the size_bytes that upload u was answered
    raced,      \* history: the uploads whose file another call, or the sandbox,
                \* has written or removed since they opened it
    unlinked    \* history: how many files have been removed by a DELETE

vars == <<ready, file, data, call, target, handle, written, answer, raced,
          unlinked>>
fileVars == <<file, data>>
callVars == <<call, target, handle, written, answer>>
history == <<raced, unlinked>>

Calls == Uploads \cup Deletes
Inodes == Uploads \cup Paths

Moves(c, pc) == call' = [call EXCEPT ![c] = pc]

\* Someone other than c changes inode i.
Races(c, i) == raced' = raced \cup {u \in Uploads \ {c} : handle[u] = i}

-----------------------------------------------------------------------------
\* require(): the session is there.
Begins(c, p) ==
    /\ ready
    /\ call[c] = "none"
    /\ Moves(c, "begun")
    /\ target' = [target EXCEPT ![c] = p]
    /\ UNCHANGED <<ready, fileVars, handle, written, answer, history>>

\* 400: the path has ".." in it, or it resolves to one outside the workspace.
PathRejected(c) ==
    /\ ready
    /\ call[c] = "none"
    /\ Moves(c, "refused")
    /\ UNCHANGED <<ready, fileVars, target, handle, written, answer, history>>

\* 413, before anything is written.
UploadRefused(u) ==
    /\ call[u] = "begun"
    /\ Size[u] > MaxSize
    /\ Moves(u, "refused")
    /\ UNCHANGED <<ready, fileVars, target, handle, written, answer, history>>

\* Mutant: the file is opened without being truncated.
AsItIs(i) == data[i]

\* write_bytes() truncates what is there.
Truncated(i) == <<>>

UploadOpens(u) ==
    LET i == IF file[target[u]] = None THEN u ELSE file[target[u]]
    IN  /\ call[u] = "begun"
        /\ Size[u] <= MaxSize
        /\ file' = [file EXCEPT ![target[u]] = i]
        /\ data' = [data EXCEPT ![i] = Truncated(i)]
        /\ handle' = [handle EXCEPT ![u] = i]
        /\ Races(u, i)
        /\ Moves(u, "writing")
        /\ UNCHANGED <<ready, target, written, answer, unlinked>>

\* The next block goes behind the last one of this call, whatever the file has
\* become since; what is skipped reads as None.
WrittenTo(d, n, u) ==
    [k \in 1 .. (IF n > Len(d) THEN n ELSE Len(d)) |->
        IF k = n THEN u ELSE IF k <= Len(d) THEN d[k] ELSE None]

UploadWrites(u) ==
    /\ call[u] = "writing"
    /\ written[u] < Size[u]
    /\ data' = [data EXCEPT ![handle[u]] = WrittenTo(@, written[u] + 1, u)]
    /\ written' = [written EXCEPT ![u] = @ + 1]
    /\ Races(u, handle[u])
    /\ UNCHANGED <<ready, file, call, target, handle, answer, unlinked>>

\* The directory cannot be made or the file not opened, and nothing has changed;
\* or the disk is full, and what has been written stays.
UploadFails(u) ==
    /\ call[u] = "writing" \/ (call[u] = "begun" /\ Size[u] <= MaxSize)
    /\ Moves(u, "failed")
    /\ UNCHANGED <<ready, fileVars, target, handle, written, answer, history>>

\* stat() goes by the path.
UploadAnswered(u) ==
    /\ call[u] = "writing"
    /\ written[u] = Size[u]
    /\ file[target[u]] # None
    /\ answer' = [answer EXCEPT ![u] = Len(data[file[target[u]]])]
    /\ Moves(u, "done")
    /\ UNCHANGED <<ready, fileVars, target, handle, written, history>>

\* The file has been removed since it was opened: 500.
UploadVanished(u) ==
    /\ call[u] = "writing"
    /\ written[u] = Size[u]
    /\ file[target[u]] = None
    /\ UploadFails(u)

-----------------------------------------------------------------------------
Unlink(c, p) ==
    /\ file' = [file EXCEPT ![p] = None]
    /\ Races(c, file[p])
    /\ UNCHANGED data

\* exists(): 404 if there is no such file.
DeleteChecks(d) ==
    /\ call[d] = "begun"
    /\ Moves(d, IF file[target[d]] = None THEN "refused" ELSE "checked")
    /\ UNCHANGED <<ready, fileVars, target, handle, written, answer, history>>

DeleteUnlinks(d) ==
    /\ call[d] = "checked"
    /\ file[target[d]] # None
    /\ Unlink(d, target[d])
    /\ unlinked' = unlinked + 1
    /\ Moves(d, "done")
    /\ UNCHANGED <<ready, target, handle, written, answer>>

\* Mutant: unlink(missing_ok=True).
MissingOk == "done"

Missing == "failed"

\* The file has been removed since it was looked for: 500.
DeleteVanished(d) ==
    /\ call[d] = "checked"
    /\ file[target[d]] = None
    /\ Moves(d, Missing)
    /\ UNCHANGED <<ready, fileVars, target, handle, written, answer, history>>

-----------------------------------------------------------------------------
(***************************************************************************)
(* The program in the sandbox (external) and the sessions.                 *)
(***************************************************************************)
SandboxWrites(p) ==
    LET i == IF file[p] = None THEN p ELSE file[p]
    IN  /\ ready
        /\ file[p] = None => \A u \in Uploads : handle[u] # p
        /\ file' = [file EXCEPT ![p] = i]
        /\ data' = [data EXCEPT ![i] = <<Sandbox>>]
        /\ Races(Sandbox, i)
        /\ UNCHANGED <<ready, callVars, unlinked>>

SandboxRemoves(p) ==
    /\ ready
    /\ file[p] # None
    /\ Unlink(Sandbox, p)
    /\ UNCHANGED <<ready, callVars, unlinked>>

SessionDestroyed ==
    /\ ready
    /\ ready' = FALSE
    /\ UNCHANGED <<fileVars, callVars, history>>

\* Mutant: a new session gets a new workspace.
EmptyWorkspace == [p \in Paths |-> None]

\* mkdir(exist_ok=True): what is there stays.
OldWorkspace == file

SessionCreated ==
    /\ ~ready
    /\ ready' = TRUE
    /\ file' = OldWorkspace
    /\ UNCHANGED <<data, callVars, history>>

Init ==
    /\ ready = TRUE
    /\ file = [p \in Paths |-> None]
    /\ data = [i \in Inodes |-> <<>>]
    /\ call = [c \in Calls |-> "none"]
    /\ target = [c \in Calls |-> None]
    /\ handle = [u \in Uploads |-> None]
    /\ written = [u \in Uploads |-> 0]
    /\ answer = [u \in Uploads |-> 0]
    /\ raced = {}
    /\ unlinked = 0

Next ==
    \/ \E c \in Calls : PathRejected(c) \/ \E p \in Paths : Begins(c, p)
    \/ \E u \in Uploads :
        \/ UploadRefused(u) \/ UploadOpens(u) \/ UploadWrites(u)
        \/ UploadFails(u) \/ UploadAnswered(u) \/ UploadVanished(u)
    \/ \E d \in Deletes : DeleteChecks(d) \/ DeleteUnlinks(d) \/ DeleteVanished(d)
    \/ \E p \in Paths : SandboxWrites(p) \/ SandboxRemoves(p)
    \/ SessionDestroyed \/ SessionCreated

Spec == Init /\ [][Next]_vars

-----------------------------------------------------------------------------
\* An upload that has been answered, and whose file nobody else has changed
\* since it was opened, is in the workspace: whole, with nothing of an older
\* and longer file behind it, of the size that the answer says, and under its
\* path, also in a later session of the same id.
UploadKept ==
    \A u \in Uploads \ raced : call[u] = "done" =>
        /\ file[target[u]] = handle[u]
        /\ data[handle[u]] = [k \in 1 .. Size[u] |-> u]
        /\ answer[u] = Size[u]

\* Each DELETE that is answered with deleted=true has removed a file of its
\* own: of two that race for one file, one fails.
DeletesCount == Cardinality({d \in Deletes : call[d] = "done"}) = unlinked
=============================================================================
