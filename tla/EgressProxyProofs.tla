-------------------------- MODULE EgressProxyProofs --------------------------
(***************************************************************************)
(* How the gateway brings the proxy up, whatever the settings and whatever *)
(* fails, and what its configuration lets through, for allowlists of any   *)
(* length.                                                                 *)
(***************************************************************************)
EXTENDS EgressProxy, FiniteSetTheorems, TLAPS

\* A process that is up has read its settings; what it does to the proxy, it
\* does after it has found the network; it writes the file and creates the
\* container when there is none; what it believes of the network is so; and it
\* creates sandboxes only when start() is through.
StartInv ==
    /\ pc # "down" => allowlist \in Settings
    /\ pc \in Starting \ {"network"} => network_ready
    /\ pc \in {"config", "run"} => proxy.state = "absent"
    /\ network_ready => network /\ pc # "down"
    /\ proxy_ready => pc = "serving" /\ network_ready
    /\ sandboxes # {} => pc = "serving"

\* How the sandboxes of this process are connected.
SandboxInv ==
    \A s \in sandboxes :
        /\ s.net = "bridge" <=> ~network_ready
        /\ s.http_proxy => network_ready

EInv == TypeOK /\ StartInv /\ SandboxInv

\* What is rendered is the configuration of one of the settings.
LEMMA RenderedIsConf == allowlist \in Settings => Rendered \in Confs
  BY DEF Rendered, Confs

\* What containers.run() leaves when it fails, or is cut off, and when it does not.
LEMMA CreatedProxy ==
  /\ Created.state = "stopped" /\ Created.by = allowlist
  /\ Started.state = "running" /\ Started.conf = squidConf /\ Started.by = allowlist
  BY DEF Created, Started

\* A gateway that has never run satisfies the invariant.
LEMMA EInvInit == Init => EInv
  <1> SUFFICES ASSUME Init
               PROVE  EInv
      OBVIOUS
  <1>1. NoConf \in Confs
        BY DEF Confs
  <1>2. QED
        BY <1>1 DEF Init, EInv, TypeOK, StartInv, SandboxInv, NoProxy, Starting

\* Every step of start(), every failure in it, every end of the process, and
\* whatever becomes of the proxy preserves it.
LEMMA EInvNext == EInv /\ [Next]_vars => EInv'
  <1> SUFFICES ASSUME EInv, [Next]_vars
               PROVE  EInv'
      OBVIOUS
  <1>c. NoConf \in Confs
        BY DEF Confs
  <1> DEFINE Containers == [state : {"absent", "stopped", "running"}, conf : Confs,
                            connected : BOOLEAN, by : Settings \cup {NoList}]
  <1>p. NoProxy \in Containers /\ NoProxy.state = "absent"
        BY <1>c DEF NoProxy
  <1>r. pc = "run" => Created \in Containers /\ Started \in Containers
        BY <1>c DEF Created, Started, EInv, TypeOK, StartInv
  <1> USE DEF EInv, TypeOK, StartInv, SandboxInv, Starting
  <1>1. CASE Boot
        BY <1>1 DEF Boot
  <1>2. CASE EnsureNetwork
        BY <1>2 DEF EnsureNetwork
  <1>3. CASE NetworkFails
        BY <1>3 DEF NetworkFails, SoftFail
  <1>4. CASE AdoptProxy
        BY <1>4 DEF AdoptProxy
  <1>5. CASE ProxyNotRunning
        BY <1>5 DEF ProxyNotRunning
  <1>6. CASE WipeProxy
        BY <1>6, <1>p DEF WipeProxy
  <1>7. CASE WriteConfig
        BY <1>7, RenderedIsConf DEF WriteConfig
  <1>8. CASE RunProxy
    <2>1. proxy' \in Containers /\ pc' = "connect"
          BY <1>8, <1>r DEF RunProxy
    <2>2. QED
          BY <1>8, <2>1 DEF RunProxy
  <1>9. CASE ConnectProxy
        BY <1>9 DEF ConnectProxy
  <1>10. CASE EnsureProxyFails
        BY <1>10 DEF EnsureProxyFails, SoftFail
  <1>11. CASE WriteConfigFails
        BY <1>11, <1>c DEF WriteConfigFails, SoftFail
  <1>12. CASE RunProxyFails
    <2>1. proxy' \in Containers /\ pc' = "serving"
          BY <1>12, <1>p, <1>r DEF RunProxyFails, SoftFail
    <2>2. QED
          BY <1>12, <2>1 DEF RunProxyFails, SoftFail
  <1>13. CASE CreateSandbox
        BY <1>13 DEF CreateSandbox
  <1>14. CASE Exit
        BY <1>14 DEF Exit, ProcessEnds
  <1>15. CASE Crash
    <2>1. proxy' \in Containers /\ squidConf' \in Confs
          BY <1>15, <1>c, <1>r DEF Crash
    <2>2. QED
          BY <1>15, <2>1 DEF Crash, ProcessEnds
  <1>16. CASE ProxyStops
    <2>1. proxy' \in Containers /\ pc' = pc /\ pc \notin {"config", "run"}
          BY <1>16, <1>p DEF ProxyStops
    <2>2. QED
          BY <1>16, <2>1 DEF ProxyStops
  <1>17. CASE ProxyRestarts
        BY <1>17 DEF ProxyRestarts
  <1>18. CASE TearDown
    <2>1. proxy' \in Containers /\ pc' = "down" /\ proxy'.state = "absent"
          BY <1>18, <1>p DEF TearDown
    <2>2. ~network_ready /\ ~proxy_ready /\ sandboxes = {}
          BY <1>18 DEF TearDown
    <2>3. QED
          BY <1>18, <2>1, <2>2 DEF TearDown
  <1>19. CASE UNCHANGED vars
        BY <1>19 DEF vars
  <1>20. QED
        BY <1>1, <1>2, <1>3, <1>4, <1>5, <1>6, <1>7, <1>8, <1>9, <1>10, <1>11, <1>12,
           <1>13, <1>14, <1>15, <1>16, <1>17, <1>18, <1>19 DEF Next, StartStep

\* Whatever settings a start has and wherever it fails, the gateway, the network
\* and the container agree (proxy.py:97-210).
THEOREM ProxyInvariance == Spec => []EInv
  BY EInvInit, EInvNext, PTL DEF Spec

\* The phase of start(), its files and the container keep their types
\* (proxy.py:97-210).
THEOREM ProxyTypeCorrect == Spec => []TypeOK
  BY ProxyInvariance, PTL DEF EInv

\* No start, failure, exit or crash of the gateway takes down or replaces a
\* proxy that runs, or sets out to; only one that has been found down, and that
\* Docker restarts in the meantime, is removed (proxy.py:138-140, 173-180).
THEOREM ProxyOutlivesGateway == Spec => RunningProxyIsKept
  <1> DEFINE Keeps == proxy.state = "running" /\ pc' # pc /\ pc # "wipe" =>
                proxy'.state = "running" /\ proxy'.conf = proxy.conf /\ pc' # "wipe"
  <1>1. EInv /\ [Next]_vars => [Keeps]_vars
    <2> SUFFICES ASSUME EInv, Next
                 PROVE  Keeps
        BY DEF vars
    <2> USE DEF EInv, TypeOK, StartInv
    <2>1. CASE Boot \/ EnsureNetwork \/ AdoptProxy \/ ProxyNotRunning \/ CreateSandbox \/ Exit
          BY <2>1 DEF Boot, EnsureNetwork, AdoptProxy, ProxyNotRunning, CreateSandbox, Exit,
                      ProcessEnds
    <2>2. CASE NetworkFails \/ EnsureProxyFails \/ WriteConfigFails \/ RunProxyFails
          BY <2>2 DEF NetworkFails, EnsureProxyFails, WriteConfigFails, RunProxyFails, SoftFail
    <2>3. CASE WipeProxy \/ WriteConfig \/ RunProxy
          BY <2>3 DEF WipeProxy, WriteConfig, RunProxy
    <2>4. CASE ConnectProxy
          BY <2>4 DEF ConnectProxy
    <2>5. CASE Crash
          BY <2>5 DEF Crash, ProcessEnds
    <2>6. CASE ProxyStops \/ ProxyRestarts \/ TearDown
          BY <2>6 DEF ProxyStops, ProxyRestarts, TearDown
    <2>7. QED
          BY <2>1, <2>2, <2>3, <2>4, <2>5, <2>6 DEF Next, StartStep
  <1>2. QED
        BY ProxyInvariance, <1>1, PTL DEF Spec, RunningProxyIsKept

-----------------------------------------------------------------------------
(***************************************************************************)
(* What is in squid.conf.                                                  *)
(***************************************************************************)
\* The greatest of 1 .. m is m, and it is what makes a set of those numbers more
\* than one of 1 .. m-1.
LEMMA MaxOfLast ==
  ASSUME NEW m \in Nat, NEW t \in SUBSET (1 .. (m + 1)), m + 1 \in t
  PROVE  Max(t) = m + 1 /\ t \ {m + 1} \in SUBSET (1 .. m)
  <1>1. \A y \in t : y \in Nat /\ m + 1 >= y
        OBVIOUS
  <1>2. Max(t) \in t /\ \A y \in t : Max(t) >= y
        BY <1>1 DEF Max
  <1>a. \A x \in t : x >= m + 1 => x = m + 1
        BY <1>1
  <1>3. Max(t) = m + 1
        BY <1>a, <1>2
  <1>4. \A y \in t \ {m + 1} : y \in 1 .. m
        OBVIOUS
  <1>5. QED
        BY <1>3, <1>4

\* A set of numbers up to n has a greatest one.
LEMMA MaxIn ==
  ASSUME NEW n \in Nat, NEW t \in SUBSET (1 .. n), t # {}
  PROVE  Max(t) \in t
  <1> DEFINE T == {n - x : x \in t}
             R == OpToRel(<, Nat)
  <1>0. T \subseteq Nat
        OBVIOUS
  <1>1. T # {}
    <2>1. PICK x \in t : n - x \in T
          OBVIOUS
    <2>2. QED
          BY <2>1
  <1>2. IsWellFoundedOn(R, Nat)
        BY NatLessThanWellFounded
  <1>3. PICK m \in T : \A y \in T : ~ (<<y, m>> \in R)
    <2> HIDE DEF T, R
    <2>1. QED
          BY <1>0, <1>1, <1>2, WFMin
  <1>4. \A y \in T : ~ (y < m)
        BY <1>0, <1>3 DEF OpToRel
  <1>5. PICK x \in t : m = n - x
        OBVIOUS
  <1>6. ASSUME NEW y \in t
        PROVE  x >= y
    <2>1. n - y \in T /\ x \in Nat /\ y \in Nat /\ n - x = m
          BY <1>5
    <2>2. ~ (n - y < m)
          BY <1>4, <2>1
    <2>3. QED
          BY <2>1, <2>2
  <1>7. QED
        BY <1>6 DEF Max

\* What a fold goes through: for each set of positions, what comes of the
\* elements there.
Partial(g, n, b, H) ==
    g = [t \in SUBSET (1 .. n) |-> IF t = {} THEN b ELSE H[t][g[t \ {Max(t)}]]]

\* A fold is defined for every sequence.
LEMMA FoldExists ==
  ASSUME NEW n \in Nat, NEW X, NEW b \in X, NEW H \in [SUBSET Nat -> [X -> X]]
  PROVE  \E g \in [SUBSET (1 .. n) -> X] : Partial(g, n, b, H)
  <1> DEFINE P(m) == \E g \in [SUBSET (1 .. m) -> X] : Partial(g, m, b, H)
             Bad == {m \in Nat : ~P(m)}
             R == OpToRel(<, Nat)
  <1>1. P(0)
    <2>1. SUBSET (1 .. 0) = {{}}
          OBVIOUS
    <2> DEFINE g == [t \in SUBSET (1 .. 0) |-> b]
    <2>2. g \in [SUBSET (1 .. 0) -> X]
          OBVIOUS
    <2>3. Partial(g, 0, b, H)
          BY <2>1 DEF Partial
    <2>4. QED
          BY <2>2, <2>3
  <1>2. ASSUME NEW m \in Nat, P(m)
        PROVE  P(m + 1)
    <2>1. PICK g \in [SUBSET (1 .. m) -> X] : Partial(g, m, b, H)
          BY <1>2
    <2> DEFINE N == SUBSET (1 .. (m + 1))
               h == [t \in N |-> IF m + 1 \notin t THEN g[t] ELSE H[t][g[t \ {m + 1}]]]
    <2>2. \A t \in N : m + 1 \notin t => t \in SUBSET (1 .. m)
          OBVIOUS
    <2>3. \A t \in N : m + 1 \in t => t \ {m + 1} \in SUBSET (1 .. m) /\ Max(t) = m + 1
          BY MaxOfLast
    <2>4. h \in [N -> X]
      <3> SUFFICES ASSUME NEW t \in N
                   PROVE  (IF m + 1 \notin t THEN g[t] ELSE H[t][g[t \ {m + 1}]]) \in X
          OBVIOUS
      <3>1. CASE m + 1 \notin t
            BY <2>2, <3>1
      <3>2. CASE m + 1 \in t
        <4>1. g[t \ {m + 1}] \in X /\ t \in SUBSET Nat
              BY <2>3, <3>2
        <4>2. QED
              BY <3>2, <4>1
      <3>3. QED
            BY <3>1, <3>2
    <2>5. ASSUME NEW t \in N
          PROVE  h[t] = IF t = {} THEN b ELSE H[t][h[t \ {Max(t)}]]
      <3>1. CASE m + 1 \notin t
        <4>1. t \in SUBSET (1 .. m) /\ t \ {Max(t)} \in SUBSET (1 .. m)
              BY <2>2, <3>1
        <4>2. t \ {Max(t)} \in N /\ m + 1 \notin t \ {Max(t)}
              BY <3>1
        <4>3. h[t] = g[t] /\ h[t \ {Max(t)}] = g[t \ {Max(t)}]
              BY <3>1, <4>2
        <4>4. g[t] = IF t = {} THEN b ELSE H[t][g[t \ {Max(t)}]]
              BY <2>1, <4>1, Zenon DEF Partial
        <4>5. QED
              BY <4>3, <4>4
      <3>2. CASE m + 1 \in t
        <4>1. Max(t) = m + 1 /\ t \ {m + 1} \in N /\ m + 1 \notin t \ {m + 1}
              BY <2>3, <3>2
        <4>2. h[t \ {m + 1}] = g[t \ {m + 1}]
              BY <4>1
        <4>3. h[t] = H[t][g[t \ {m + 1}]] /\ t # {}
              BY <3>2
        <4>4. QED
              BY <4>1, <4>2, <4>3
      <3>3. QED
            BY <3>1, <3>2
    <2>6. h = [t \in N |-> IF t = {} THEN b ELSE H[t][h[t \ {Max(t)}]]]
      <3> HIDE DEF h
      <3>1. QED
            BY <2>4, <2>5
    <2>7. QED
      <3> HIDE DEF h
      <3>1. Partial(h, m + 1, b, H)
            BY <2>6 DEF Partial
      <3>2. QED
            BY <2>4, <3>1
  <1> HIDE DEF P
  <1>3. Bad = {}
    <2> SUFFICES ASSUME Bad # {}
                 PROVE  FALSE
        OBVIOUS
    <2>1. Bad \subseteq Nat
          OBVIOUS
    <2>2. IsWellFoundedOn(R, Nat)
          BY NatLessThanWellFounded
    <2>3. PICK k \in Bad : \A y \in Bad : ~ (<<y, k>> \in R)
      <3> HIDE DEF Bad, R
      <3>1. QED
            BY <2>1, <2>2, WFMin
    <2>4. k # 0
          BY <1>1
    <2>5. k - 1 \in Nat /\ k - 1 < k /\ k \in Nat
          BY <2>4
    <2>6. k - 1 \notin Bad
          BY <2>3, <2>5 DEF OpToRel
    <2>7. P(k - 1)
          BY <2>5, <2>6
    <2>8. P((k - 1) + 1)
          BY <2>5, <2>7, <1>2
    <2>9. (k - 1) + 1 = k
          BY <2>5
    <2>10. QED
          BY <2>8, <2>9
  <1>4. P(n)
        BY <1>3
  <1>5. QED
        BY <1>4 DEF P

-----------------------------------------------------------------------------
\* One turn of the loop of _dedup_subdomains.
Turn(kept, d) == IF CoveredBy(kept, d) THEN kept ELSE kept \cup {d}

\* What is kept after each turn of the loop.
Kept(k, s) ==
    /\ k[0] = {}
    /\ \A i \in DOMAIN s : k[i] = Turn(k[i - 1], s[i])

\* Dedup is its loop.
LEMMA DedupLoops ==
  ASSUME NEW D, NEW n \in Nat, NEW s \in [1 .. n -> D], s = ShortestFirst(D)
  PROVE  \E k : Kept(k, s) /\ Dedup(D) = k[n]
  <1> DEFINE Largest(t) == Max(t)
             H == [t \in SUBSET Nat |-> [x \in SUBSET D |->
                      IF Largest(t) \in 1 .. n THEN Turn(x, s[Largest(t)]) ELSE x]]
             G(g) == g = [t \in SUBSET (DOMAIN s) |->
                             IF t = {} THEN {} ELSE Turn(g[t \ {Largest(t)}], s[Largest(t)])]
             f == CHOOSE g : G(g)
  <1>1. \A x \in SUBSET D, d \in D : Turn(x, d) \in SUBSET D
        BY DEF Turn
  <1>2. H \in [SUBSET Nat -> [SUBSET D -> SUBSET D]]
    <2> HIDE DEF Largest
    <2>1. \A t \in SUBSET Nat, x \in SUBSET D :
             (IF Largest(t) \in 1 .. n THEN Turn(x, s[Largest(t)]) ELSE x) \in SUBSET D
          BY <1>1
    <2>2. QED
          BY <2>1
  <1>3. PICK g \in [SUBSET (1 .. n) -> SUBSET D] : Partial(g, n, {}, H)
    <2> HIDE DEF H
    <2>1. {} \in SUBSET D
          OBVIOUS
    <2>2. QED
          BY <1>2, <2>1, FoldExists
  <1>4. G(g)
    <2>1. ASSUME NEW t \in SUBSET (1 .. n), t # {}
          PROVE  H[t][g[t \ {Largest(t)}]] = Turn(g[t \ {Largest(t)}], s[Largest(t)])
      <3>a. Largest(t) \in t
            BY <2>1, MaxIn
      <3>1. Largest(t) \in 1 .. n /\ t \in SUBSET Nat /\ t \ {Largest(t)} \in SUBSET (1 .. n)
        <4>1. \A x \in t : x \in 1 .. n /\ t \ {x} \in SUBSET (1 .. n)
              OBVIOUS
        <4>2. t \in SUBSET Nat
              OBVIOUS
        <4> HIDE DEF Largest
        <4>3. QED
              BY <3>a, <4>1, <4>2
      <3>2. g[t \ {Largest(t)}] \in SUBSET D
            BY <3>1
      <3> HIDE DEF Largest
      <3>3. QED
            BY <3>1, <3>2
    <2>2. g = [t \in SUBSET (1 .. n) |-> IF t = {} THEN {} ELSE H[t][g[t \ {Largest(t)}]]]
          BY <1>3 DEF Partial
    <2> HIDE DEF Largest, H
    <2>3. \A t \in SUBSET (1 .. n) :
             g[t] = IF t = {} THEN {} ELSE Turn(g[t \ {Largest(t)}], s[Largest(t)])
          BY <2>1, <2>2
    <2>4. QED
          BY <2>3
  <1>5. G(f)
    <2> HIDE DEF G
    <2>1. QED
          BY <1>4
  <1>6. Dedup(D) = f[DOMAIN s]
        BY DEF Dedup, FoldLeft, MapThenFoldSet, Turn
  <1> DEFINE k == [i \in 0 .. n |-> f[1 .. i]]
  <1> HIDE DEF f
  <1>7. k[0] = {}
    <2>1. 1 .. 0 = {} /\ k[0] = f[1 .. 0]
          OBVIOUS
    <2>2. f[{}] = {}
          BY <1>5
    <2>3. QED
          BY <2>1, <2>2
  <1>8. ASSUME NEW i \in 1 .. n
        PROVE  k[i] = Turn(k[i - 1], s[i])
    <2>1. i - 1 \in Nat /\ (i - 1) + 1 = i /\ i \in 1 .. i
          OBVIOUS
    <2>2. Largest(1 .. i) = i
      <3>1. \A m \in Nat : \A t \in SUBSET (1 .. (m + 1)) : m + 1 \in t => Max(t) = m + 1
            BY MaxOfLast
      <3>2. 1 .. i \in SUBSET (1 .. ((i - 1) + 1)) /\ (i - 1) + 1 \in 1 .. i
            BY <2>1
      <3>3. Max(1 .. i) = (i - 1) + 1
            BY <2>1, <3>1, <3>2
      <3>4. QED
            BY <2>1, <3>3
    <2> HIDE DEF Largest
    <2>3. 1 .. i \in SUBSET (DOMAIN s) /\ 1 .. i # {} /\ (1 .. i) \ {i} = 1 .. (i - 1)
          BY <2>1
    <2>4. f[1 .. i] = Turn(f[1 .. (i - 1)], s[i])
          BY <1>5, <2>2, <2>3
    <2>5. QED
          BY <2>4
  <1>9. QED
    <2>1. k[n] = f[DOMAIN s]
          OBVIOUS
    <2> HIDE DEF k
    <2>2. Kept(k, s) /\ Dedup(D) = k[n]
          BY <1>6, <1>7, <1>8, <2>1 DEF Kept
    <2>3. QED
          BY <2>2

-----------------------------------------------------------------------------
\* A name is under another one when that is its end, label by label.
LEMMA SuffixIsEnd ==
  ASSUME NEW L, NEW s \in Seq(L), NEW t \in Seq(L)
  PROVE  IsSuffix(s, t) <=>
            /\ Len(s) <= Len(t)
            /\ \A i \in 1 .. Len(s) : s[i] = t[Len(t) - Len(s) + i]
  <1> DEFINE m == Len(s)
             n == Len(t)
             rs == Reverse(s)
             rt == Reverse(t)
  <1>1. m \in Nat /\ n \in Nat
        OBVIOUS
  <1>2. rs \in Seq(L) /\ Len(rs) = m /\ \A i \in 1 .. m : rs[i] = s[(m - i) + 1]
        BY DEF Reverse
  <1>3. rt \in Seq(L) /\ Len(rt) = n /\ \A i \in 1 .. n : rt[i] = t[(n - i) + 1]
        BY DEF Reverse
  <1> HIDE DEF rs, rt
  <1>4. ASSUME m <= n
        PROVE  SubSeq(rs, 1, m) = SubSeq(rt, 1, m) <=> \A i \in 1 .. m : rs[i] = rt[i]
        BY <1>1, <1>2, <1>3, <1>4
  <1>5. ASSUME m <= n
        PROVE  (\A i \in 1 .. m : rs[i] = rt[i]) <=> \A i \in 1 .. m : s[i] = t[n - m + i]
    <2>1. ASSUME \A i \in 1 .. m : rs[i] = rt[i], NEW i \in 1 .. m
          PROVE  s[i] = t[n - m + i]
      <3> DEFINE j == m - i + 1
      <3>1. j \in 1 .. m /\ j \in 1 .. n /\ (m - j) + 1 = i /\ (n - j) + 1 = n - m + i
            BY <1>1, <1>5
      <3> HIDE DEF j
      <3>2. rs[j] = s[i] /\ rt[j] = t[n - m + i]
            BY <1>2, <1>3, <3>1
      <3>3. QED
            BY <2>1, <3>1, <3>2
    <2>2. ASSUME \A i \in 1 .. m : s[i] = t[n - m + i], NEW i \in 1 .. m
          PROVE  rs[i] = rt[i]
      <3> DEFINE j == m - i + 1
      <3>1. j \in 1 .. m /\ i \in 1 .. n /\ (m - i) + 1 = j /\ (n - i) + 1 = n - m + j
            BY <1>1, <1>5
      <3> HIDE DEF j
      <3>2. rs[i] = s[j] /\ rt[i] = t[n - m + j]
            BY <1>2, <1>3, <3>1
      <3>3. QED
            BY <2>2, <3>1, <3>2
    <2>3. QED
          BY <2>1, <2>2
  <1>6. IsSuffix(s, t) <=> m <= n /\ SubSeq(rs, 1, m) = SubSeq(rt, 1, m)
        BY <1>2, <1>3 DEF IsSuffix, IsPrefix, rs, rt
  <1>7. QED
        BY <1>4, <1>5, <1>6

\* What is under a name that is under another one is under that.
LEMMA CoversTransitive ==
  ASSUME NEW L, NEW a \in Seq(L), NEW b \in Seq(L), NEW c \in Seq(L),
         Covers(a, b), Covers(b, c)
  PROVE  Covers(a, c)
  <1> DEFINE la == Len(a)
             lb == Len(b)
             lc == Len(c)
  <1>1. la \in Nat /\ lb \in Nat /\ lc \in Nat
        OBVIOUS
  <1>2. la <= lb /\ \A i \in 1 .. la : a[i] = b[lb - la + i]
        BY SuffixIsEnd DEF Covers
  <1>3. lb <= lc /\ \A i \in 1 .. lb : b[i] = c[lc - lb + i]
        BY SuffixIsEnd DEF Covers
  <1> HIDE DEF la, lb, lc
  <1>4. la <= lc
        BY <1>1, <1>2, <1>3
  <1>5. ASSUME NEW i \in 1 .. la
        PROVE  a[i] = c[lc - la + i]
    <2> DEFINE j == lb - la + i
    <2>1. j \in 1 .. lb /\ lc - lb + j = lc - la + i
          BY <1>1, <1>2
    <2> HIDE DEF j
    <2>2. b[j] = c[lc - lb + j]
          BY <1>3, <2>1
    <2>3. a[i] = b[j]
          BY <1>2 DEF j
    <2>4. QED
          BY <2>1, <2>2, <2>3
  <1>6. QED
        BY <1>4, <1>5, SuffixIsEnd DEF Covers, la, lb, lc

\* A name covers no other one that is as short.
LEMMA CoversShorter ==
  ASSUME NEW L, NEW a \in Seq(L), NEW b \in Seq(L), Covers(a, b), Len(b) <= Len(a)
  PROVE  a = b
  <1>1. Len(a) \in Nat /\ Len(b) \in Nat
        OBVIOUS
  <1>2. Len(a) <= Len(b) /\ \A i \in 1 .. Len(a) : a[i] = b[Len(b) - Len(a) + i]
        BY SuffixIsEnd DEF Covers
  <1>3. Len(a) = Len(b)
        BY <1>1, <1>2
  <1>4. \A i \in 1 .. Len(a) : a[i] = b[i]
        BY <1>1, <1>2, <1>3
  <1>5. QED
        BY <1>1, <1>3, <1>4

\* A name covers itself.
LEMMA CoversItself ==
  ASSUME NEW L, NEW a \in Seq(L)
  PROVE  Covers(a, a)
  <1>1. Len(a) \in Nat /\ \A i \in 1 .. Len(a) : a[i] = a[Len(a) - Len(a) + i]
        OBVIOUS
  <1>2. QED
        BY <1>1, SuffixIsEnd DEF Covers

-----------------------------------------------------------------------------
SortedOf(s, D) ==
    /\ s \in SetToSeqs(D)
    /\ \A i, j \in DOMAIN s : i < j => Len(s[i]) <= Len(s[j])

\* Every finite set of names can be sorted by length: the shortest comes first,
\* and then the others, sorted.
LEMMA SortExists ==
  ASSUME NEW L, NEW D \in SUBSET Seq(L), IsFiniteSet(D)
  PROVE  \E s : SortedOf(s, D)
  <1> DEFINE Sortable(T) == \E s : SortedOf(s, T)
             Bad == {n \in Nat : \E T \in SUBSET D : Cardinality(T) = n /\ ~Sortable(T)}
             R == OpToRel(<, Nat)
  <1>f. \A T \in SUBSET D : IsFiniteSet(T) /\ Cardinality(T) \in Nat
        BY FS_Subset, FS_CardinalityType
  <1>w. IsWellFoundedOn(R, Nat)
        BY NatLessThanWellFounded
  <1>1. Sortable({})
    <2> DEFINE s == [i \in 1 .. 0 |-> 0]
    <2>1. Cardinality({}) = 0 /\ 1 .. 0 = {}
          BY FS_EmptySet
    <2>2. s \in [1 .. Cardinality({}) -> {}]
          BY <2>1
    <2>3. SortedOf(s, {})
          BY <2>1, <2>2 DEF SortedOf, SetToSeqs
    <2>4. QED
          BY <2>3
  <1>2. ASSUME NEW T \in SUBSET D, T # {},
               \A U \in SUBSET D : Cardinality(U) < Cardinality(T) => Sortable(U)
        PROVE  Sortable(T)
    <2> DEFINE Lens == {Len(d) : d \in T}
    <2>1. Lens \subseteq Nat
          OBVIOUS
    <2>2. Lens # {}
      <3>1. PICK d \in T : Len(d) \in Lens
            BY <1>2
      <3>2. QED
            BY <3>1
    <2>3. PICK m \in Lens : \A y \in Lens : ~ (<<y, m>> \in R)
      <3> HIDE DEF Lens, R
      <3>1. QED
            BY <1>w, <2>1, <2>2, WFMin
    <2>4. PICK x \in T : Len(x) = m
          OBVIOUS
    <2>5. \A d \in T : Len(x) <= Len(d)
      <3> SUFFICES ASSUME NEW d \in T
                   PROVE  Len(x) <= Len(d)
          OBVIOUS
      <3>1. Len(d) \in Nat /\ Len(x) \in Nat /\ Len(d) \in Lens
            OBVIOUS
      <3>2. ~ (Len(d) < m)
            BY <2>1, <2>3, <3>1 DEF OpToRel
      <3>3. QED
            BY <2>4, <3>1, <3>2
    <2> DEFINE U == T \ {x}
               n == Cardinality(U)
    <2>6. n \in Nat /\ Cardinality(T) = n + 1 /\ U \in SUBSET D
      <3>1. IsFiniteSet(T) /\ Cardinality(T) \in Nat
            BY <1>f
      <3>2. n = Cardinality(T) - 1
            BY <3>1, FS_RemoveElement
      <3>3. n \in Nat
            BY <1>f
      <3>4. QED
            BY <3>1, <3>2, <3>3
    <2>7. PICK s : SortedOf(s, U)
      <3>1. n < Cardinality(T)
            BY <2>6
      <3> HIDE DEF Sortable
      <3>2. Sortable(U)
            BY <1>2, <2>6, <3>1
      <3>3. QED
            BY <3>2 DEF Sortable
    <2>8. /\ s \in [1 .. n -> U] /\ \A i, j \in 1 .. n : i # j => s[i] # s[j]
          /\ \A i, j \in 1 .. n : i < j => Len(s[i]) <= Len(s[j])
          BY <2>7 DEF SortedOf, SetToSeqs
    <2> HIDE DEF U, n
    <2>u. U \subseteq T /\ x \notin U
          BY DEF U
    <2> DEFINE r == [i \in 1 .. (n + 1) |-> IF i = 1 THEN x ELSE s[i - 1]]
    <2>9. \A i \in 1 .. (n + 1) : i # 1 => i - 1 \in 1 .. n /\ r[i] = s[i - 1] /\ s[i - 1] \in U
          BY <2>6, <2>8
    <2>10. r \in [1 .. (n + 1) -> T] /\ r[1] = x
           BY <2>6, <2>8, <2>u
    <2> HIDE DEF r
    <2>11. \A i, j \in 1 .. (n + 1) : i # j => r[i] # r[j]
      <3> SUFFICES ASSUME NEW i \in 1 .. (n + 1), NEW j \in 1 .. (n + 1), i # j, r[i] = r[j]
                   PROVE  FALSE
          OBVIOUS
      <3>1. CASE i = 1 \/ j = 1
            BY <2>9, <2>10, <2>u, <3>1
      <3>2. CASE i # 1 /\ j # 1
        <4>1. i - 1 # j - 1
              BY <2>6
        <4>2. s[i - 1] = s[j - 1] /\ i - 1 \in 1 .. n /\ j - 1 \in 1 .. n
              BY <2>9, <3>2
        <4>3. QED
              BY <2>8, <4>1, <4>2
      <3>3. QED
            BY <3>1, <3>2
    <2>12. \A i, j \in 1 .. (n + 1) : i < j => Len(r[i]) <= Len(r[j])
      <3> SUFFICES ASSUME NEW i \in 1 .. (n + 1), NEW j \in 1 .. (n + 1), i < j
                   PROVE  Len(r[i]) <= Len(r[j])
          OBVIOUS
      <3>1. CASE i = 1
            BY <2>5, <2>10, <3>1
      <3>2. CASE i # 1
        <4>1. j # 1 /\ i - 1 < j - 1
              BY <2>6, <3>2
        <4>2. i - 1 \in 1 .. n /\ j - 1 \in 1 .. n /\ r[i] = s[i - 1] /\ r[j] = s[j - 1]
              BY <2>9, <3>2, <4>1
        <4>3. QED
              BY <2>8, <4>1, <4>2
      <3>3. QED
            BY <3>1, <3>2
    <2>13. SortedOf(r, T)
           BY <2>6, <2>10, <2>11, <2>12 DEF SortedOf, SetToSeqs
    <2>14. QED
           BY <2>13
  <1> HIDE DEF Sortable
  <1>3. Bad = {}
    <2> SUFFICES ASSUME Bad # {}
                 PROVE  FALSE
        OBVIOUS
    <2>1. Bad \subseteq Nat
          OBVIOUS
    <2>2. PICK n \in Bad : \A y \in Bad : ~ (<<y, n>> \in R)
      <3> HIDE DEF Bad, R
      <3>1. QED
            BY <1>w, <2>1, WFMin
    <2>3. PICK T \in SUBSET D : Cardinality(T) = n /\ ~Sortable(T)
          OBVIOUS
    <2>4. ASSUME NEW U \in SUBSET D, Cardinality(U) < n
          PROVE  Sortable(U)
      <3>1. Cardinality(U) \in Nat
            BY <1>f
      <3>2. Cardinality(U) \notin Bad
            BY <2>1, <2>2, <2>4, <3>1 DEF OpToRel
      <3>3. QED
            BY <3>1, <3>2
    <2>5. T # {}
          BY <1>1, <2>3
    <2>6. QED
          BY <1>2, <2>3, <2>4, <2>5
  <1>4. Cardinality(D) \notin Bad
        BY <1>3
  <1>5. Sortable(D)
        BY <1>f, <1>4
  <1>6. QED
        BY <1>5 DEF Sortable

\* What sorted() returns holds the domains and no others, the shorter ones
\* first.
LEMMA SortedDomains ==
  ASSUME NEW L, NEW D \in SUBSET Seq(L), IsFiniteSet(D)
  PROVE  /\ ShortestFirst(D) \in [1 .. Cardinality(D) -> D]
         /\ \A d \in D : \E i \in 1 .. Cardinality(D) : ShortestFirst(D)[i] = d
         /\ \A i, j \in 1 .. Cardinality(D) :
               i < j => Len(ShortestFirst(D)[i]) <= Len(ShortestFirst(D)[j])
  <1> DEFINE n == Cardinality(D)
  <1>0. n \in Nat
        BY FS_CardinalityType
  <1>1. \E s : SortedOf(s, D)
        BY SortExists
  <1>2. PICK s : s = ShortestFirst(D)
        OBVIOUS
  <1>3. SortedOf(s, D)
        BY <1>1, <1>2 DEF SortedOf, ShortestFirst
  <1>4. s \in [1 .. n -> D] /\ \A i, j \in 1 .. n : i # j => s[i] # s[j]
        BY <1>3 DEF SortedOf, SetToSeqs
  <1>5. \A i, j \in 1 .. n : i < j => Len(s[i]) <= Len(s[j])
        BY <1>3, <1>4 DEF SortedOf
  <1>6. s \in Injection(1 .. n, D)
        BY <1>4 DEF Injection, IsInjective
  <1>7. IsFiniteSet(1 .. n) /\ Cardinality(1 .. n) = n
        BY <1>0, FS_Interval
  <1>8. s \in Surjection(1 .. n, D)
        BY <1>6, <1>7, FS_Injection
  <1>9. \A d \in D : \E i \in 1 .. n : s[i] = d
        BY <1>8 DEF Surjection
  <1>10. QED
         BY <1>2, <1>4, <1>5, <1>9

-----------------------------------------------------------------------------
\* _dedup_subdomains keeps some of the domains, for each of them one that covers
\* it, and none next to one that covers it.
LEMMA DedupKeeps ==
  ASSUME NEW L, NEW D \in SUBSET Seq(L), IsFiniteSet(D)
  PROVE  /\ Dedup(D) \subseteq D
         /\ \A d \in D : \E e \in Dedup(D) : Covers(e, d)
         /\ \A d, e \in Dedup(D) : Covers(d, e) => d = e
  <1> DEFINE n == Cardinality(D)
  <1>1. n \in Nat
        BY FS_CardinalityType
  <1>2. PICK s : s = ShortestFirst(D)
        OBVIOUS
  <1>3. /\ s \in [1 .. n -> D] /\ \A d \in D : \E i \in 1 .. n : s[i] = d
        /\ \A i, j \in 1 .. n : i < j => Len(s[i]) <= Len(s[j])
        BY <1>2, SortedDomains
  <1>4. PICK k : Kept(k, s) /\ Dedup(D) = k[n]
        BY <1>1, <1>2, <1>3, DedupLoops
  <1> HIDE DEF n
  <1> DEFINE P(m) ==
               /\ k[m] \subseteq {s[i] : i \in 1 .. m}
               /\ \A i \in 1 .. m : \E e \in k[m] : Covers(e, s[i])
               /\ \A d, e \in k[m] : Covers(d, e) => d = e
             Bad == {m \in 0 .. n : ~P(m)}
             R == OpToRel(<, Nat)
  <1>5. P(0)
        BY <1>4 DEF Kept
  <1>6. ASSUME NEW m \in 0 .. n, m < n, P(m)
        PROVE  P(m + 1)
    <2> DEFINE d == s[m + 1]
    <2>1. m + 1 \in 1 .. n /\ DOMAIN s = 1 .. n /\ (m + 1) - 1 = m
          BY <1>1, <1>3, <1>6
    <2>2. k[m + 1] = Turn(k[m], d)
          BY <1>4, <2>1 DEF Kept
    <2>3. /\ \A i \in 1 .. m : i \in 1 .. n /\ i < m + 1 /\ i \in 1 .. (m + 1)
          /\ \A i \in 1 .. (m + 1) : i \in 1 .. m \/ i = m + 1
          BY <1>1, <1>6
    <2>4. \A e \in k[m] : e \in Seq(L) /\ Len(e) <= Len(d)
          BY <1>3, <1>6, <2>1, <2>3
    <2>5. d \in Seq(L)
          BY <1>3, <2>1
    <2>6. k[m] \subseteq {s[i] : i \in 1 .. (m + 1)} /\ d \in {s[i] : i \in 1 .. (m + 1)}
          BY <1>6, <2>1, <2>3
    <2>7. CASE CoveredBy(k[m], d)
      <3>1. k[m + 1] = k[m]
            BY <2>2, <2>7 DEF Turn
      <3>2. \E e \in k[m] : Covers(e, d)
            BY <2>7 DEF CoveredBy
      <3> HIDE DEF d
      <3>3. \A i \in 1 .. (m + 1) : \E e \in k[m] : Covers(e, s[i])
            BY <1>6, <2>3, <3>2 DEF d
      <3>4. QED
            BY <1>6, <2>6, <3>1, <3>3
    <2>8. CASE ~CoveredBy(k[m], d)
      <3>1. k[m + 1] = k[m] \cup {d}
            BY <2>2, <2>8 DEF Turn
      <3>2. \A i \in 1 .. (m + 1) : \E e \in k[m + 1] : Covers(e, s[i])
            BY <1>6, <2>3, <2>5, <3>1, CoversItself
      <3>3. ASSUME NEW x \in k[m + 1], NEW y \in k[m + 1], Covers(x, y)
            PROVE  x = y
        <4>1. CASE x = d /\ y \in k[m]
              BY <2>4, <2>5, <3>3, <4>1, CoversShorter
        <4>2. CASE x \in k[m] /\ y = d
              BY <2>8, <3>3, <4>2 DEF CoveredBy
        <4>3. CASE x \in k[m] /\ y \in k[m]
              BY <1>6, <3>3, <4>3
        <4>4. QED
              BY <3>1, <4>1, <4>2, <4>3
      <3>4. k[m + 1] \subseteq {s[i] : i \in 1 .. (m + 1)}
            BY <2>6, <3>1
      <3>5. QED
            BY <3>2, <3>3, <3>4
    <2>9. QED
          BY <2>7, <2>8
  <1> HIDE DEF P
  <1>7. Bad = {}
    <2> SUFFICES ASSUME Bad # {}
                 PROVE  FALSE
        OBVIOUS
    <2>1. Bad \subseteq Nat
          OBVIOUS
    <2>2. IsWellFoundedOn(R, Nat)
          BY NatLessThanWellFounded
    <2>3. PICK m \in Bad : \A y \in Bad : ~ (<<y, m>> \in R)
      <3> HIDE DEF Bad, R
      <3>1. QED
            BY <2>1, <2>2, WFMin
    <2>4. m # 0 /\ m \in 0 .. n
          BY <1>5
    <2>5. m - 1 \in 0 .. n /\ m - 1 < n /\ m - 1 < m /\ (m - 1) + 1 = m /\ m - 1 \in Nat
          BY <1>1, <2>4
    <2>6. m - 1 \notin Bad
          BY <2>1, <2>3, <2>5 DEF OpToRel
    <2>7. P(m - 1)
          BY <2>5, <2>6
    <2>8. P(m)
          BY <1>6, <2>5, <2>7
    <2>9. QED
          BY <2>8
  <1>8. P(n)
        BY <1>1, <1>7
  <1>9. {s[i] : i \in 1 .. n} \subseteq D
        BY <1>3
  <1>10. QED
         BY <1>3, <1>4, <1>8, <1>9 DEF P

\* The domains of squid.conf cover exactly the hosts that the entries name, and
\* squid can parse them.
LEMMA RenderKeeps ==
  ASSUME NEW L, NEW setting \in Seq([form : {"host", "dot", "star", "blank"}, name : Seq(L)])
  PROVE  LET conf == Render(Entries(setting))
         IN  /\ conf # {}
             /\ \A d, e \in conf : Covers(d, e) => d = e
             /\ \A h \in Seq(L) : ~Covers(NeverAllowed, h) =>
                   (Matches(conf, h) <=>
                      \E i \in DOMAIN setting :
                         setting[i].form # "blank" /\ IsSuffix(setting[i].name, h))
  <1> DEFINE I == {j \in DOMAIN setting : setting[j].form # "blank"}
             D == {Normalize(e) : e \in Entries(setting)}
             kept == Dedup(D)
  <1>1. /\ \A i \in I : setting[i].name \in D
        /\ \A d \in D : \E i \in I : d = setting[i].name
        BY DEF Entries, Normalize
  <1>2. D \in SUBSET Seq(L)
    <2>1. ASSUME NEW i \in I
          PROVE  setting[i].name \in Seq(L)
      <3> DEFINE E == [form : {"host", "dot", "star", "blank"}, name : Seq(L)]
      <3>1. setting \in Seq(E) /\ i \in DOMAIN setting
            OBVIOUS
      <3>2. setting[i] \in E
        <4> HIDE DEF E
        <4>1. QED
              BY <3>1
      <3>3. QED
            BY <3>2
    <2> HIDE DEF D
    <2>2. QED
          BY <1>1, <2>1
  <1>3. IsFiniteSet(D)
    <2> DEFINE f == [i \in I |-> setting[i].name]
    <2>1. Len(setting) \in Nat /\ I \in SUBSET (1 .. Len(setting))
          OBVIOUS
    <2>2. IsFiniteSet(I)
          BY <2>1, FS_Interval, FS_Subset
    <2> HIDE DEF I, D
    <2>3. f \in [I -> D] /\ \A d \in D : \E i \in I : f[i] = d
          BY <1>1
    <2>4. f \in Surjection(I, D)
          BY <2>3 DEF Surjection
    <2>5. QED
          BY <2>2, <2>4, FS_Surjection
  <1>4. /\ kept \subseteq D
        /\ \A d \in D : \E e \in kept : Covers(e, d)
        /\ \A d, e \in kept : Covers(d, e) => d = e
    <2> HIDE DEF D
    <2>1. QED
          BY <1>2, <1>3, DedupKeeps
  <1> DEFINE conf == Render(Entries(setting))
  <1>5. conf = IF kept = {} THEN {NeverAllowed} ELSE kept
        BY DEF Render
  <1> HIDE DEF I, D, kept, conf
  <1>6. conf # {} /\ \A d, e \in conf : Covers(d, e) => d = e
        BY <1>4, <1>5
  <1>7. ASSUME NEW h \in Seq(L), ~Covers(NeverAllowed, h)
        PROVE  Matches(conf, h) <=> \E i \in I : Covers(setting[i].name, h)
    <2>1. ASSUME NEW d \in conf, Covers(d, h)
          PROVE  \E i \in I : Covers(setting[i].name, h)
      <3>1. d \in kept
            BY <1>5, <1>7, <2>1
      <3>2. PICK i \in I : d = setting[i].name
            BY <1>1, <1>4, <3>1
      <3>3. QED
            BY <2>1, <3>2
    <2>2. ASSUME NEW i \in I, Covers(setting[i].name, h)
          PROVE  Matches(conf, h)
      <3>1. PICK e \in kept : Covers(e, setting[i].name)
            BY <1>1, <1>4
      <3>2. e \in Seq(L) /\ setting[i].name \in Seq(L)
            BY <1>1, <1>2, <1>4
      <3>3. Covers(e, h)
            BY <2>2, <3>1, <3>2, CoversTransitive
      <3>4. QED
            BY <1>5, <3>1, <3>3 DEF Matches
    <2>3. QED
          BY <2>1, <2>2 DEF Matches
  <1>8. \A h : (\E i \in I : Covers(setting[i].name, h)) <=>
               \E i \in DOMAIN setting :
                  setting[i].form # "blank" /\ IsSuffix(setting[i].name, h)
        BY DEF I, Covers
  <1>9. QED
        BY <1>6, <1>7, <1>8 DEF conf

-----------------------------------------------------------------------------
\* squid.conf is complete when a container is created; while there is one, the
\* file stays as it was then, so that squid reads the same at each start.
ConfInv ==
    /\ pc = "run" => squidConf = Rendered
    /\ proxy.state # "absent" => proxy.by \in Settings /\ squidConf = Render(Entries(proxy.by))
    /\ proxy.state = "running" => proxy.conf = squidConf

\* Only a start without a container writes the file, and only a complete one is
\* read, whoever starts squid.
LEMMA ConfInvNext == EInv /\ ConfInv /\ [Next]_vars => ConfInv'
  <1> SUFFICES ASSUME EInv, ConfInv, [Next]_vars
               PROVE  ConfInv'
      OBVIOUS
  <1>p. NoProxy.state = "absent"
        BY DEF NoProxy
  <1> USE DEF EInv, TypeOK, StartInv, ConfInv, Starting, Rendered
  <1>1. CASE Boot \/ EnsureNetwork \/ AdoptProxy \/ ProxyNotRunning \/ CreateSandbox \/ Exit
        BY <1>1 DEF Boot, EnsureNetwork, AdoptProxy, ProxyNotRunning, CreateSandbox, Exit,
                    ProcessEnds
  <1>2. CASE NetworkFails \/ EnsureProxyFails \/ WriteConfigFails
        BY <1>2 DEF NetworkFails, EnsureProxyFails, WriteConfigFails, SoftFail
  <1>3. CASE WipeProxy
        BY <1>3, <1>p DEF WipeProxy
  <1>4. CASE WriteConfig
        BY <1>4 DEF WriteConfig
  <1>5. CASE RunProxy
    <2>1. /\ proxy'.state = "running" /\ proxy'.conf = squidConf /\ proxy'.by = allowlist
          /\ squidConf' = squidConf /\ pc' = "connect" /\ pc = "run"
          BY <1>5, CreatedProxy DEF RunProxy
    <2>2. QED
          BY <2>1
  <1>6. CASE RunProxyFails
    <2>1. /\ proxy'.state = "absent" \/ (proxy'.state = "stopped" /\ proxy'.by = allowlist)
          /\ squidConf' = squidConf /\ pc' = "serving" /\ pc = "run"
          BY <1>6, <1>p, CreatedProxy DEF RunProxyFails, SoftFail
    <2>2. QED
          BY <2>1
  <1>7. CASE ConnectProxy
        BY <1>7 DEF ConnectProxy
  <1>8. CASE Crash
    <2>1. CASE pc = "run"
      <3>1. /\ proxy'.state = "absent" \/ (proxy'.state = "stopped" /\ proxy'.by = allowlist)
            /\ squidConf' = squidConf /\ pc' = "down"
            BY <1>8, <2>1, CreatedProxy DEF Crash, ProcessEnds
      <3>2. QED
            BY <2>1, <3>1
    <2>2. CASE pc # "run"
          BY <1>8, <2>2 DEF Crash, ProcessEnds
    <2>3. QED
          BY <2>1, <2>2
  <1>9. CASE ProxyStops
        BY <1>9, <1>p DEF ProxyStops
  <1>10. CASE ProxyRestarts
        BY <1>10 DEF ProxyRestarts
  <1>11. CASE TearDown
        BY <1>11, <1>p DEF TearDown
  <1>12. CASE UNCHANGED vars
        BY <1>12 DEF vars
  <1>13. QED
        BY <1>1, <1>2, <1>3, <1>4, <1>5, <1>6, <1>7, <1>8, <1>9, <1>10, <1>11, <1>12
           DEF Next, StartStep

\* A running proxy has read the file that was rendered when its container was
\* created (proxy.py:182-203).
THEOREM ConfInvariance == Spec => [](EInv /\ ConfInv)
  <1>1. Init => EInv /\ ConfInv
    <2>1. Init => ConfInv
          BY DEF Init, ConfInv, NoProxy
    <2>2. QED
          BY <2>1, EInvInit
  <1>2. (EInv /\ ConfInv) /\ [Next]_vars => (EInv /\ ConfInv)'
        BY EInvNext, ConfInvNext
  <1>3. QED
        BY <1>1, <1>2, PTL DEF Spec

\* What is rendered from any of the settings parses, and serves it.
LEMMA RenderedSetting ==
  ASSUME NEW s \in Settings
  PROVE  LET conf == Render(Entries(s))
         IN  /\ conf # NoConf
             /\ \A d, e \in conf : Covers(d, e) => d = e
             /\ \A h \in Hosts : Matches(conf, h) <=> Allows(s, h)
  <1>1. s \in Seq([form : {"host", "dot", "star", "blank"}, name : Seq(Labels)])
        BY EgressEnvironment DEF Forms
  <1>2. \A h \in Hosts : h \in Seq(Labels) /\ ~Covers(NeverAllowed, h)
        BY EgressEnvironment
  <1>3. QED
        BY <1>1, <1>2, RenderKeeps DEF NoConf, Allows

\* However many starts are killed or fail on the way, squid is only ever started
\* from a complete file without redundant entries, by a start of the gateway or
\* by Docker (_dedup_subdomains, proxy.py:48-62, and _ensure_proxy,
\* proxy.py:169-203).
THEOREM SquidAlwaysParses == Spec => []SquidParses
  <1>1. ConfInv => SquidParses
        BY RenderedSetting DEF ConfInv, SquidParses
  <1>2. QED
        BY ConfInvariance, <1>1, PTL

\* A proxy lets through exactly what the allowlist of the process that created
\* it names, for as long as there is its container (render_squid_conf,
\* proxy.py:65-71, and _ensure_proxy, proxy.py:169-203).
THEOREM AllowlistIsServed == Spec => []ProxyServesItsAllowlist
  <1>1. ConfInv => ProxyServesItsAllowlist
        BY RenderedSetting DEF ConfInv, ProxyServesItsAllowlist
  <1>2. QED
        BY ConfInvariance, <1>1, PTL

\* Where sbx-net is up, the sandboxes of a process reach only what the allowlist
\* that the proxy was created with allows, whatever has failed, stopped or been
\* restarted.  A sandbox is on the default bridge, and not confined, only where
\* sbx-net could not be set up, and is not told of a proxy then (proxy.py:105-113,
\* docker_runtime.py:159-173).
THEOREM FailuresAreSafe == Spec => []SafeFailureMode
  <1>1. EInv /\ ConfInv => SafeFailureMode
    <2> SUFFICES ASSUME EInv, ConfInv, NEW s \in sandboxes
                 PROVE  /\ s.net = "bridge" => ~network_ready /\ ~s.http_proxy
                        /\ network_ready => \A h \in Hosts : Reaches(s, h) => Allows(proxy.by, h)
        BY DEF SafeFailureMode
    <2>1. ASSUME network_ready, NEW h \in Hosts, Reaches(s, h)
          PROVE  Allows(proxy.by, h)
      <3>1. s.net # "bridge"
            BY <2>1 DEF EInv, SandboxInv
      <3>2. proxy.state = "running" /\ Matches(proxy.conf, h)
            BY <2>1, <3>1 DEF Reaches
      <3>3. proxy.by \in Settings /\ proxy.conf = Render(Entries(proxy.by))
            BY <3>2 DEF ConfInv
      <3>4. QED
            BY <3>2, <3>3, RenderedSetting
    <2>2. QED
          BY <2>1 DEF EInv, SandboxInv, StartInv
  <1>2. QED
        BY ConfInvariance, <1>1, PTL
=============================================================================
