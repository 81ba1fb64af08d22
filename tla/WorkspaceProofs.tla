--------------------------- MODULE WorkspaceProofs ---------------------------
(***************************************************************************)
(* What uploads and deletes are answered is true of the files, for any     *)
(* number of calls on any number of paths, of any length.                  *)
(***************************************************************************)
EXTENDS Workspace, FiniteSetTheorems, TLAPS

Blocks == Uploads \cup {Sandbox, None}

Pcs == {"none", "begun", "refused", "writing", "checked", "done", "failed"}

Types ==
    /\ file \in [Paths -> Inodes \cup {None}]
    /\ data \in [Inodes -> Seq(Blocks)]
    /\ call \in [Calls -> Pcs]
    /\ target \in [Calls -> Paths \cup {None}]
    /\ handle \in [Uploads -> Inodes \cup {None}]
    /\ written \in [Uploads -> Nat]
    /\ answer \in [Uploads -> Nat]
    /\ raced \subseteq Uploads

Opened(u) == call[u] \in {"writing", "done"}

\* A call that is at work has a path, and one that has not opened its file has
\* written nothing.
CallInv ==
    /\ \A c \in Calls : call[c] \notin {"none", "refused"} => target[c] \in Paths
    /\ \A u \in Uploads : call[u] \in {"none", "begun"} => written[u] = 0
    /\ \A u \in Uploads : Opened(u) => handle[u] \in Inodes

\* What an upload that nobody interferes with has written so far is what its
\* path names.
KeptSoFar ==
    \A u \in Uploads \ raced : Opened(u) =>
        /\ file[target[u]] = handle[u]
        /\ data[handle[u]] = [k \in 1 .. written[u] |-> u]
        /\ call[u] = "done" => written[u] = Size[u] /\ answer[u] = Size[u]

UInv == Types /\ CallInv /\ KeptSoFar

-----------------------------------------------------------------------------
\* The next block of a file that the same upload has written so far.
LEMMA WrittenToOwn ==
  ASSUME NEW u, NEW n \in Nat
  PROVE  WrittenTo([k \in 1 .. n |-> u], n + 1, u) = [k \in 1 .. (n + 1) |-> u]
  <1> DEFINE d == [k \in 1 .. n |-> u]
  <1>1. Len(d) = n
        OBVIOUS
  <1>2. (IF n + 1 > Len(d) THEN n + 1 ELSE Len(d)) = n + 1
        BY <1>1
  <1>3. \A k \in 1 .. (n + 1) :
           (IF k = n + 1 THEN u ELSE IF k <= Len(d) THEN d[k] ELSE None) = u
        BY <1>1
  <1> HIDE DEF d
  <1>4. WrittenTo(d, n + 1, u) = [k \in 1 .. (n + 1) |-> u]
        BY <1>2, <1>3 DEF WrittenTo
  <1>5. QED
        BY <1>4 DEF d

\* A write leaves a file.
LEMMA WrittenToType ==
  ASSUME NEW d \in Seq(Blocks), NEW n \in Nat \ {0}, NEW u \in Uploads
  PROVE  WrittenTo(d, n, u) \in Seq(Blocks)
  <1> DEFINE m == IF n > Len(d) THEN n ELSE Len(d)
             f == [k \in 1 .. m |-> IF k = n THEN u ELSE IF k <= Len(d) THEN d[k] ELSE None]
  <1>1. m \in Nat /\ Len(d) \in Nat
        OBVIOUS
  <1>2. \A k \in 1 .. m : (IF k = n THEN u ELSE IF k <= Len(d) THEN d[k] ELSE None) \in Blocks
        BY <1>1 DEF Blocks
  <1>3. f \in [1 .. m -> Blocks]
        BY <1>2
  <1>4. f \in Seq(Blocks)
        BY <1>1, <1>3
  <1>5. QED
        BY <1>4 DEF WrittenTo

\* Every step keeps the types, and what is known of a call.
LEMMA CallStep ==
  ASSUME UInv, [Next]_vars
  PROVE  Types' /\ CallInv'
  <1> USE WorkspaceEnvironment DEF UInv, Types, CallInv, Pcs, Opened
  <1>e. Uploads \subseteq Calls /\ Deletes \subseteq Calls /\ Paths \subseteq Inodes
        /\ Uploads \subseteq Inodes /\ None \notin Inodes
        BY DEF Calls, Inodes
  <1>1. ASSUME NEW c \in Calls, NEW p \in Paths, Begins(c, p)
        PROVE  Types' /\ CallInv'
        BY <1>1, <1>e DEF Begins, Moves, fileVars, history
  <1>r. ASSUME NEW c \in Calls, PathRejected(c)
        PROVE  Types' /\ CallInv'
        BY <1>r, <1>e DEF PathRejected, Moves, fileVars, history
  <1>2. ASSUME NEW u \in Uploads, UploadRefused(u)
        PROVE  Types' /\ CallInv'
        BY <1>2, <1>e DEF UploadRefused, Moves, fileVars, history
  <1>3. ASSUME NEW u \in Uploads, UploadOpens(u)
        PROVE  Types' /\ CallInv'
    <2> DEFINE i == IF file[target[u]] = None THEN u ELSE file[target[u]]
    <2>1. /\ call[u] = "begun" /\ file' = [file EXCEPT ![target[u]] = i]
          /\ data' = [data EXCEPT ![i] = <<>>]
          /\ handle' = [handle EXCEPT ![u] = i]
          /\ raced' = raced \cup {v \in Uploads \ {u} : handle[v] = i}
          /\ call' = [call EXCEPT ![u] = "writing"]
          /\ UNCHANGED <<ready, target, written, answer, unlinked>>
          BY <1>3 DEF UploadOpens, Truncated, Races, Moves
    <2>2. target[u] \in Paths /\ i \in Inodes
          BY <2>1, <1>e
    <2> HIDE DEF i
    <2>3. <<>> \in Seq(Blocks)
          OBVIOUS
    <2>4. Types'
          BY <2>1, <2>2, <2>3, <1>e
    <2>5. CallInv'
          BY <2>1, <2>2, <1>e
    <2>6. QED
          BY <2>4, <2>5
  <1>4. ASSUME NEW u \in Uploads, UploadWrites(u)
        PROVE  Types' /\ CallInv'
    <2>1. /\ call[u] = "writing" /\ handle[u] \in Inodes
          /\ data' = [data EXCEPT ![handle[u]] = WrittenTo(data[handle[u]], written[u] + 1, u)]
          /\ written' = [written EXCEPT ![u] = written[u] + 1]
          /\ raced' = raced \cup {v \in Uploads \ {u} : handle[v] = handle[u]}
          /\ UNCHANGED <<ready, file, call, target, handle, answer, unlinked>>
          BY <1>4 DEF UploadWrites, Races
    <2>2. WrittenTo(data[handle[u]], written[u] + 1, u) \in Seq(Blocks)
      <3>1. data[handle[u]] \in Seq(Blocks) /\ written[u] + 1 \in Nat \ {0}
            BY <2>1
      <3>2. QED
            BY <3>1, WrittenToType
    <2>3. QED
          BY <2>1, <2>2, <1>e
  <1>5. ASSUME NEW u \in Uploads, UploadFails(u) \/ UploadVanished(u)
        PROVE  Types' /\ CallInv'
        BY <1>5, <1>e DEF UploadFails, UploadVanished, Moves, fileVars, history
  <1>6. ASSUME NEW u \in Uploads, UploadAnswered(u)
        PROVE  Types' /\ CallInv'
    <2>1. target[u] \in Paths /\ file[target[u]] \in Inodes
          BY <1>6, <1>e DEF UploadAnswered
    <2>2. Len(data[file[target[u]]]) \in Nat
          BY <2>1
    <2>3. QED
          BY <1>6, <1>e, <2>2 DEF UploadAnswered, Moves, fileVars, history
  <1>7. ASSUME NEW d \in Deletes, DeleteChecks(d) \/ DeleteVanished(d)
        PROVE  Types' /\ CallInv'
        BY <1>7, <1>e DEF DeleteChecks, DeleteVanished, Missing, Moves, fileVars, history
  <1>8. ASSUME NEW d \in Deletes, DeleteUnlinks(d)
        PROVE  Types' /\ CallInv'
        BY <1>8, <1>e DEF DeleteUnlinks, Unlink, Races, Moves
  <1>9. ASSUME NEW p \in Paths, SandboxWrites(p)
        PROVE  Types' /\ CallInv'
    <2> DEFINE i == IF file[p] = None THEN p ELSE file[p]
    <2>1. /\ file' = [file EXCEPT ![p] = i]
          /\ data' = [data EXCEPT ![i] = <<Sandbox>>]
          /\ raced' = raced \cup {u \in Uploads \ {Sandbox} : handle[u] = i}
          /\ UNCHANGED callVars
          BY <1>9 DEF SandboxWrites, Races
    <2>2. i \in Inodes
          BY <1>e
    <2> HIDE DEF i
    <2>3. <<Sandbox>> \in Seq(Blocks)
          BY DEF Blocks
    <2>4. QED
          BY <1>e, <2>1, <2>2, <2>3 DEF callVars
  <1>10. ASSUME NEW p \in Paths, SandboxRemoves(p)
         PROVE  Types' /\ CallInv'
         BY <1>10, <1>e DEF SandboxRemoves, Unlink, Races, callVars
  <1>11. CASE SessionDestroyed \/ SessionCreated
         BY <1>11 DEF SessionDestroyed, SessionCreated, OldWorkspace, fileVars, callVars, history
  <1>12. CASE UNCHANGED vars
         BY <1>12 DEF vars
  <1>13. QED
         BY <1>1, <1>r, <1>2, <1>3, <1>4, <1>5, <1>6, <1>7, <1>8, <1>9, <1>10, <1>11, <1>12
            DEF Next

\* The file of an upload that has not been raced changes only by its own calls,
\* and they keep it as it should be.
LEMMA KeptStep ==
  ASSUME UInv, [Next]_vars, CallInv'
  PROVE  KeptSoFar'
  <1> USE WorkspaceEnvironment DEF UInv, Types, CallInv, Pcs, Opened
  <1>e. Uploads \subseteq Calls /\ Deletes \subseteq Calls /\ Paths \subseteq Inodes
        /\ Uploads \subseteq Inodes /\ None \notin Inodes
        BY DEF Calls, Inodes
  <1> DEFINE Same(w) ==
               /\ file'[target'[w]] = file[target[w]] /\ handle'[w] = handle[w]
               /\ data'[handle[w]] = data[handle[w]] /\ written'[w] = written[w]
               /\ answer'[w] = answer[w] /\ w \notin raced
               /\ call'[w] = call[w]
  <1> DEFINE G(w) ==
               /\ file'[target'[w]] = handle'[w]
               /\ data'[handle'[w]] = [k \in 1 .. written'[w] |-> w]
               /\ call'[w] = "done" => written'[w] = Size[w] /\ answer'[w] = Size[w]
  <1> SUFFICES ASSUME NEW w \in Uploads, w \notin raced', call'[w] \in {"writing", "done"}
               PROVE  G(w)
      BY DEF KeptSoFar
  <1>k. ASSUME w \notin raced, Opened(w)
        PROVE  /\ file[target[w]] = handle[w] /\ handle[w] \in Inodes
               /\ data[handle[w]] = [k \in 1 .. written[w] |-> w]
               /\ target[w] \in Paths /\ file[target[w]] # None
        BY <1>k, <1>e DEF KeptSoFar
  <1>t. ASSUME Same(w), Opened(w)
        PROVE  G(w)
    <2>1. /\ file[target[w]] = handle[w]
          /\ data[handle[w]] = [k \in 1 .. written[w] |-> w]
          /\ call[w] = "done" => written[w] = Size[w] /\ answer[w] = Size[w]
          BY <1>t DEF KeptSoFar
    <2>2. data'[handle'[w]] = data[handle[w]] /\ written'[w] = written[w]
          BY <1>t
    <2>3. data'[handle'[w]] = [k \in 1 .. written'[w] |-> w]
          BY ONLY <2>1, <2>2, Zenon
    <2>4. file'[target'[w]] = handle'[w]
          BY <1>t, <2>1
    <2>5. call'[w] = "done" => written'[w] = Size[w] /\ answer'[w] = Size[w]
          BY <1>t, <2>1
    <2>6. QED
          BY ONLY <2>3, <2>4, <2>5, Zenon
  <1> HIDE DEF G
  <1>1. ASSUME NEW c \in Calls, NEW p \in Paths, Begins(c, p)
        PROVE  G(w)
    <2>1. Same(w) /\ Opened(w)
          BY <1>1, <1>e DEF Begins, Moves, fileVars, history
    <2>2. QED
          BY <2>1, <1>t
  <1>r. ASSUME NEW c \in Calls, PathRejected(c)
        PROVE  G(w)
    <2>1. Same(w) /\ Opened(w)
          BY <1>r, <1>e DEF PathRejected, Moves, fileVars, history
    <2>2. QED
          BY <2>1, <1>t
  <1>2. ASSUME NEW u \in Uploads, UploadRefused(u) \/ UploadFails(u) \/ UploadVanished(u)
        PROVE  G(w)
    <2>1. Same(w) /\ Opened(w)
          BY <1>2, <1>e DEF UploadRefused, UploadFails, UploadVanished, Moves, fileVars, history
    <2>2. QED
          BY <2>1, <1>t
  <1>3. ASSUME NEW u \in Uploads, UploadOpens(u)
        PROVE  G(w)
    <2> DEFINE i == IF file[target[u]] = None THEN u ELSE file[target[u]]
    <2>1. /\ call[u] = "begun" /\ file' = [file EXCEPT ![target[u]] = i]
          /\ data' = [data EXCEPT ![i] = <<>>]
          /\ handle' = [handle EXCEPT ![u] = i]
          /\ raced' = raced \cup {v \in Uploads \ {u} : handle[v] = i}
          /\ call' = [call EXCEPT ![u] = "writing"]
          /\ UNCHANGED <<ready, target, written, answer, unlinked>>
          BY <1>3 DEF UploadOpens, Truncated, Races, Moves
    <2>2. target[u] \in Paths /\ i \in Inodes /\ (file[target[u]] # None => i = file[target[u]])
          BY <2>1, <1>e
    <2> HIDE DEF i
    <2>3. CASE u = w
      <3>1. file'[target'[w]] = handle'[w] /\ data'[handle'[w]] = <<>> /\ written'[w] = 0
            BY <2>1, <2>2, <2>3, <1>e
      <3>2. <<>> = [k \in 1 .. 0 |-> w] /\ call'[w] = "writing"
            BY <2>1, <2>3, <1>e
      <3>3. QED
            BY <3>1, <3>2 DEF G
    <2>4. CASE u # w
      <3>1. w \notin raced /\ Opened(w) /\ handle[w] # i
            BY <2>1, <2>4, <1>e
      <3>2. target[w] # target[u]
            BY <3>1, <1>k, <2>2
      <3>3. Same(w)
            BY <2>1, <2>4, <2>2, <3>1, <3>2, <1>k, <1>e
      <3>4. QED
            BY <3>1, <3>3, <1>t
    <2>5. QED
          BY <2>3, <2>4
  <1>4. ASSUME NEW u \in Uploads, UploadWrites(u)
        PROVE  G(w)
    <2>1. /\ call[u] = "writing" /\ handle[u] \in Inodes
          /\ data' = [data EXCEPT ![handle[u]] = WrittenTo(data[handle[u]], written[u] + 1, u)]
          /\ written' = [written EXCEPT ![u] = written[u] + 1]
          /\ raced' = raced \cup {v \in Uploads \ {u} : handle[v] = handle[u]}
          /\ UNCHANGED <<ready, file, call, target, handle, answer, unlinked>>
          BY <1>4 DEF UploadWrites, Races
    <2>2. w \notin raced /\ Opened(w)
          BY <2>1
    <2>3. CASE u = w
      <3>1. data[handle[w]] = [k \in 1 .. written[w] |-> w] /\ written[w] \in Nat
            BY <2>2, <1>k
      <3>2. data'[handle[w]] = WrittenTo(data[handle[w]], written[w] + 1, w)
            BY <2>1, <2>3
      <3>4. WrittenTo([k \in 1 .. written[w] |-> w], written[w] + 1, w)
               = [k \in 1 .. (written[w] + 1) |-> w]
            BY ONLY <3>1, WrittenToOwn, Zenon
      <3>5. data'[handle[w]] = [k \in 1 .. (written[w] + 1) |-> w]
            BY ONLY <3>1, <3>2, <3>4, Zenon
      <3>3. written'[w] = written[w] + 1 /\ call'[w] = "writing" /\ handle'[w] = handle[w]
            /\ file'[target'[w]] = handle[w]
            BY <2>1, <2>3, <2>2, <1>k
      <3>6. data'[handle'[w]] = [k \in 1 .. written'[w] |-> w]
            BY ONLY <3>3, <3>5, Zenon
      <3>7. file'[target'[w]] = handle'[w] /\ call'[w] # "done"
            BY <3>3
      <3>8. QED
            BY ONLY <3>6, <3>7, Zenon DEF G
    <2>4. CASE u # w
      <3>1. handle[w] # handle[u]
            BY <2>1, <2>4
      <3>2. Same(w)
            BY <2>1, <2>2, <2>4, <3>1, <1>k, <1>e
      <3>3. QED
            BY <2>2, <3>2, <1>t
    <2>5. QED
          BY <2>3, <2>4
  <1>5. ASSUME NEW u \in Uploads, UploadAnswered(u)
        PROVE  G(w)
    <2>1. /\ call[u] = "writing" /\ written[u] = Size[u]
          /\ answer' = [answer EXCEPT ![u] = Len(data[file[target[u]]])]
          /\ call' = [call EXCEPT ![u] = "done"]
          /\ UNCHANGED <<file, data, target, handle, written, raced>>
          BY <1>5 DEF UploadAnswered, Moves, fileVars, history
    <2>2. w \notin raced /\ Opened(w)
          BY <2>1
    <2>3. CASE u = w
      <3>1. data[file[target[w]]] = [k \in 1 .. Size[w] |-> w] /\ Size[w] \in Nat
            /\ file[target[w]] = handle[w]
            BY <2>2, <2>1, <2>3, <1>k
      <3>2. Len([k \in 1 .. Size[w] |-> w]) = Size[w]
            BY <3>1
      <3>3. QED
            BY <2>1, <2>3, <3>1, <3>2 DEF G
    <2>4. CASE u # w
      <3>1. Same(w)
            BY <2>1, <2>2, <2>4
      <3>2. QED
            BY <2>2, <3>1, <1>t
    <2>5. QED
          BY <2>3, <2>4
  <1>6. ASSUME NEW d \in Deletes, DeleteChecks(d) \/ DeleteVanished(d)
        PROVE  G(w)
    <2>1. Same(w) /\ Opened(w)
          BY <1>6, <1>e DEF DeleteChecks, DeleteVanished, Missing, Moves, fileVars, history
    <2>2. QED
          BY <2>1, <1>t
  <1>7. ASSUME NEW p \in Paths, file' = [file EXCEPT ![p] = None],
               NEW c, c \notin Uploads, Races(c, file[p]),
               UNCHANGED <<data, target, handle, written, answer>>, call'[w] = call[w]
        PROVE  G(w)
    <2>1. w \notin raced /\ Opened(w) /\ handle[w] # file[p]
          BY <1>7 DEF Races
    <2>2. target[w] # p
          BY <2>1, <1>k
    <2>3. Same(w)
          BY <1>7, <2>1, <2>2, <1>k
    <2>4. QED
          BY <2>1, <2>3, <1>t
  <1>8. ASSUME NEW d \in Deletes, DeleteUnlinks(d)
        PROVE  G(w)
    <2>1. target[d] \in Paths /\ d \notin Uploads /\ call'[w] = call[w]
          BY <1>8, <1>e DEF DeleteUnlinks, Moves
    <2>2. QED
          BY <1>7, <1>8, <2>1 DEF DeleteUnlinks, Unlink
  <1>9. ASSUME NEW p \in Paths, SandboxWrites(p)
        PROVE  G(w)
    <2> DEFINE i == IF file[p] = None THEN p ELSE file[p]
    <2>1. /\ file' = [file EXCEPT ![p] = i]
          /\ data' = [data EXCEPT ![i] = <<Sandbox>>]
          /\ raced' = raced \cup {u \in Uploads \ {Sandbox} : handle[u] = i}
          /\ UNCHANGED <<call, target, handle, written, answer>>
          BY <1>9 DEF SandboxWrites, Races, callVars
    <2>2. i \in Inodes /\ (file[p] # None => i = file[p])
          BY <1>e
    <2> HIDE DEF i
    <2>3. w \notin raced /\ Opened(w) /\ handle[w] # i
          BY <2>1
    <2>4. target[w] # p
          BY <2>2, <2>3, <1>k
    <2>5. Same(w)
          BY <2>1, <2>2, <2>3, <2>4, <1>k, <1>e
    <2>6. QED
          BY <2>3, <2>5, <1>t
  <1>10. ASSUME NEW p \in Paths, SandboxRemoves(p)
         PROVE  G(w)
         BY <1>7, <1>10 DEF SandboxRemoves, Unlink, callVars
  <1>11. CASE SessionDestroyed \/ SessionCreated \/ UNCHANGED vars
    <2>1. Same(w) /\ Opened(w)
          BY <1>11 DEF SessionDestroyed, SessionCreated, OldWorkspace, fileVars, callVars,
                       history, vars
    <2>2. QED
          BY <2>1, <1>t
  <1>12. QED
         BY <1>1, <1>r, <1>2, <1>3, <1>4, <1>5, <1>6, <1>8, <1>9, <1>10, <1>11, Zenon DEF Next

\* An empty workspace that nobody has asked for anything.
LEMMA UInvInit == Init => UInv
  <1> SUFFICES ASSUME Init PROVE UInv
      OBVIOUS
  <1>1. <<>> \in Seq(Blocks)
        OBVIOUS
  <1>2. Types
        BY <1>1 DEF Init, Types, Pcs
  <1>3. CallInv /\ KeptSoFar
        BY WorkspaceEnvironment DEF Init, CallInv, KeptSoFar, Opened, Calls
  <1>4. QED
        BY <1>2, <1>3 DEF UInv

\* A finished upload nobody interfered with is on the disk as a whole, with the
\* size that was answered (upload_file, files.py:46).
THEOREM UploadStaysKept == Spec => []UploadKept
  <1>1. UInv /\ [Next]_vars => UInv'
        BY CallStep, KeptStep DEF UInv
  <1>2. UInv => UploadKept
        BY DEF UInv, KeptSoFar, UploadKept, Opened
  <1>3. QED
        BY UInvInit, <1>1, <1>2, PTL DEF Spec

-----------------------------------------------------------------------------
Answered == {d \in Deletes : call[d] = "done"}

\* DELETEs are counted when they are answered.
CountInv ==
    /\ call \in [Calls -> Pcs]
    /\ IsFiniteSet(Answered)
    /\ Cardinality(Answered) = unlinked

\* A step answers at most one DELETE, and then it has removed a file.
LEMMA CountStep ==
  ASSUME CountInv, [Next]_vars
  PROVE  CountInv'
  <1> USE WorkspaceEnvironment
  <1>e. Uploads \subseteq Calls /\ Deletes \subseteq Calls
        BY DEF Calls
  <1>1. ASSUME NEW c \in Calls, NEW pc \in Pcs, Moves(c, pc), call[c] # "done",
               c \in Deletes => pc # "done", unlinked' = unlinked
        PROVE  CountInv'
    <2>1. Answered' = Answered /\ call' \in [Calls -> Pcs]
          BY <1>1, <1>e DEF Answered, Moves, CountInv
    <2>2. QED
          BY <2>1, <1>1 DEF CountInv
  <1>2. ASSUME UNCHANGED <<call, unlinked>>
        PROVE  CountInv'
    <2>1. Answered' = Answered
          BY <1>2 DEF Answered
    <2>2. QED
          BY <2>1, <1>2 DEF CountInv
  <1>3. ASSUME NEW c \in Calls, NEW p \in Paths, Begins(c, p)
        PROVE  CountInv'
        BY <1>1, <1>3 DEF Begins, Pcs, history
  <1>r. ASSUME NEW c \in Calls, PathRejected(c)
        PROVE  CountInv'
        BY <1>1, <1>r DEF PathRejected, Pcs, history
  <1>4. ASSUME NEW u \in Uploads,
               \/ UploadRefused(u) \/ UploadOpens(u) \/ UploadFails(u)
               \/ UploadAnswered(u) \/ UploadVanished(u)
        PROVE  CountInv'
    <2>1. \E pc \in Pcs : Moves(u, pc)
          BY <1>4 DEF UploadRefused, UploadOpens, UploadFails, UploadAnswered, UploadVanished, Pcs
    <2>2. call[u] # "done" /\ unlinked' = unlinked
          BY <1>4 DEF UploadRefused, UploadOpens, UploadFails, UploadAnswered, UploadVanished,
                      history
    <2>3. QED
          BY <1>1, <2>1, <2>2, <1>e
  <1>5. ASSUME NEW d \in Deletes, DeleteChecks(d) \/ DeleteVanished(d)
        PROVE  CountInv'
    <2>1. \E pc \in Pcs \ {"done"} : Moves(d, pc)
          BY <1>5 DEF DeleteChecks, DeleteVanished, Missing, Pcs
    <2>2. call[d] # "done" /\ unlinked' = unlinked
          BY <1>5 DEF DeleteChecks, DeleteVanished, history
    <2>3. QED
          BY <1>1, <2>1, <2>2, <1>e
  <1>6. ASSUME NEW d \in Deletes, DeleteUnlinks(d)
        PROVE  CountInv'
    <2>1. call[d] = "checked" /\ call' = [call EXCEPT ![d] = "done"] /\ unlinked' = unlinked + 1
          BY <1>6 DEF DeleteUnlinks, Moves
    <2>2. Answered' = Answered \cup {d} /\ d \notin Answered /\ call' \in [Calls -> Pcs]
          BY <2>1, <1>e DEF Answered, CountInv, Pcs
    <2>3. IsFiniteSet(Answered') /\ Cardinality(Answered') = Cardinality(Answered) + 1
          BY <2>2, FS_AddElement DEF CountInv
    <2>4. QED
          BY <2>1, <2>2, <2>3 DEF CountInv
  <1>7. CASE \/ \E u \in Uploads : UploadWrites(u)
             \/ \E p \in Paths : SandboxWrites(p) \/ SandboxRemoves(p)
             \/ SessionDestroyed \/ SessionCreated \/ UNCHANGED vars
        BY <1>2, <1>7 DEF UploadWrites, SandboxWrites, SandboxRemoves, SessionDestroyed,
                          SessionCreated, callVars, history, vars
  <1>8. QED
        BY <1>3, <1>r, <1>4, <1>5, <1>6, <1>7 DEF Next

\* Two deletes never both report the removal of one file (delete_file,
\* files.py:134).
THEOREM DeletesAreCounted == Spec => []DeletesCount
  <1>1. Init => CountInv
    <2> SUFFICES ASSUME Init PROVE CountInv
        OBVIOUS
    <2>1. Answered = {}
          BY DEF Init, Answered, Calls
    <2>2. QED
          BY <2>1, FS_EmptySet DEF Init, CountInv, Pcs
  <1>2. CountInv /\ [Next]_vars => CountInv'
        BY CountStep
  <1>3. CountInv => DeletesCount
        BY DEF CountInv, Answered, DeletesCount
  <1>4. QED
        BY <1>1, <1>2, <1>3, PTL DEF Spec
=============================================================================
