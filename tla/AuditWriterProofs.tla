-------------------------- MODULE AuditWriterProofs --------------------------
(***************************************************************************)
(* The safety properties of AuditWriter, for any number of sessions and    *)
(* events, whatever fails and whenever the process dies.                   *)
(*                                                                         *)
(* The first part is about tables that the first d events of a sequence    *)
(* have been written to; the second one is about the queue, which decides  *)
(* what d is.                                                              *)
(***************************************************************************)
EXTENDS AuditWriter, FiniteSetTheorems, TLAPS

Tables == [execs : SUBSET Ids, rows : Seq(Rows)]

RowOf(e, t) == \E k \in DOMAIN t.rows : t.rows[k].of = e.id

ClosedRowOf(e, t) == \E k \in DOMAIN t.rows : t.rows[k].of = e.of /\ t.rows[k].closed = e.of

RecordedIn(e, t) ==
    \/ e.kind = "exec" /\ e.id \in t.execs
    \/ e.kind = "session_created" /\ RowOf(e, t)
    \/ e.kind = "session_destroyed" /\ ClosedRowOf(e, t)

ExcusedBy(e, f) == e.id \in f \/ e.of \in f

\* acc[j] opens session g of s.
Opens(acc, j, s, g) == acc[j].kind = "session_created" /\ acc[j].sid = s /\ acc[j].id = g

\* Between j and i, no session of s is opened or closed.
Calm(acc, j, i, s) == \A k \in (j + 1) .. (i - 1) : acc[k].kind = "exec" \/ acc[k].sid # s

\* The events of one process: their ids increase, and the end of a session
\* comes next after its beginning, of the events of its session id.
OneProcess(acc) ==
    /\ acc \in Seq(Events)
    /\ \A i, j \in DOMAIN acc : i < j => acc[i].id < acc[j].id
    /\ \A i \in DOMAIN acc : acc[i].kind = "session_created" => acc[i].of = acc[i].id
    /\ \A i \in DOMAIN acc : acc[i].kind = "session_destroyed" =>
          \E j \in 1 .. (i - 1) :
             Opens(acc, j, acc[i].sid, acc[i].of) /\ Calm(acc, j, i, acc[i].sid)

\* What has been recorded, or has failed.
Present(t, acc, d, f) == \A i \in 1 .. d : RecordedIn(acc[i], t) \/ ExcusedBy(acc[i], f)

\* Nothing is recorded before its turn.
NoExecAhead(t, acc, d) == \A x \in t.execs : \A i \in (d + 1) .. Len(acc) : x < acc[i].id

\* A row is of one of these events, or of an earlier process.
RowsKnown(t, acc, d) ==
    \A k \in DOMAIN t.rows :
        \/ \E m \in 1 .. d : Opens(acc, m, t.rows[k].sid, t.rows[k].of)
        \/ \A m \in 1 .. Len(acc) : t.rows[k].of < acc[m].id

RowsInOrder(t) == \A k, l \in DOMAIN t.rows : k < l => t.rows[k].of < t.rows[l].of

\* The row of a session whose end has not been written is open.
OpenStays(t, acc, d) ==
    \A j \in 1 .. d : \A k \in DOMAIN t.rows :
        /\ acc[j].kind = "session_created"
        /\ t.rows[k].of = acc[j].id
        /\ Calm(acc, j, d + 1, acc[j].sid)
        => t.rows[k].closed = 0

OwnClose(t, f) == \A k \in DOMAIN t.rows : t.rows[k].closed \in {0, t.rows[k].of} \cup f

\* The first d events of acc have been written to t, or have failed.
WrittenIn(t, acc, d, f) ==
    /\ t \in Tables
    /\ Present(t, acc, d, f)
    /\ NoExecAhead(t, acc, d)
    /\ RowsKnown(t, acc, d)
    /\ RowsInOrder(t)
    /\ OpenStays(t, acc, d)
    /\ OwnClose(t, f)

\* All ids in t are less than n.
Below(t, n) == (\A x \in t.execs : x < n) /\ \A k \in DOMAIN t.rows : t.rows[k].of < n

-----------------------------------------------------------------------------

\* A set of numbers up to n has a greatest one.
LEMMA MaxIsMax ==
  ASSUME NEW n \in Nat, NEW S \in SUBSET (1 .. n), S # {}
  PROVE  Max(S) \in S /\ \A y \in S : Max(S) >= y
  <1> DEFINE T == {n - x : x \in S}
             R == OpToRel(<, Nat)
  <1>1. T \subseteq Nat
        OBVIOUS
  <1>2. T # {}
    <2>1. PICK x \in S : TRUE
          OBVIOUS
    <2>2. n - x \in T
          OBVIOUS
    <2>3. QED
          BY <2>2
  <1>3. IsWellFoundedOn(R, Nat)
        BY NatLessThanWellFounded
  <1>4. PICK m \in T : \A y \in T : ~ (<<y, m>> \in R)
    <2> HIDE DEF T, R
    <2>1. QED
          BY <1>1, <1>2, <1>3, WFMin
  <1>5. \A y \in T : ~ (y < m)
        BY <1>1, <1>4 DEF OpToRel
  <1>6. PICK x \in S : m = n - x
        OBVIOUS
  <1>7. \A y \in S : x >= y
        BY <1>5, <1>6
  <1>8. QED
        BY <1>7 DEF Max

\* An event that fails changes nothing.
LEMMA PassesOver ==
  ASSUME NEW acc, OneProcess(acc), NEW d \in Nat, d < Len(acc), NEW f,
         NEW t, WrittenIn(t, acc, d, f)
  PROVE  WrittenIn(t, acc, d + 1, f \cup {acc[d + 1].id})
  <1> DEFINE g == f \cup {acc[d + 1].id}
  <1> USE DEF WrittenIn
  <1>0. acc \in Seq(Events) /\ Len(acc) \in Nat /\ DOMAIN acc = 1 .. Len(acc)
        BY DEF OneProcess
  <1>1. Present(t, acc, d + 1, g)
        BY DEF Present, ExcusedBy
  <1>2. NoExecAhead(t, acc, d + 1)
        BY <1>0 DEF NoExecAhead
  <1>3. RowsKnown(t, acc, d + 1)
        BY <1>0 DEF RowsKnown
  <1>4. OpenStays(t, acc, d + 1)
    <2> SUFFICES ASSUME NEW j \in 1 .. (d + 1), NEW k \in DOMAIN t.rows,
                        acc[j].kind = "session_created", t.rows[k].of = acc[j].id,
                        Calm(acc, j, d + 2, acc[j].sid)
                 PROVE  t.rows[k].closed = 0
        BY DEF OpenStays
    <2>1. CASE j = d + 1
      <3>1. t.rows[k].of < acc[j].id
        <4>1. CASE \E m \in 1 .. d : Opens(acc, m, t.rows[k].sid, t.rows[k].of)
              BY <1>0, <2>1, <4>1 DEF Opens, OneProcess
        <4>2. CASE \A m \in 1 .. Len(acc) : t.rows[k].of < acc[m].id
              BY <1>0, <2>1, <4>2
        <4>3. QED
              BY <4>1, <4>2 DEF RowsKnown
      <3>2. acc[j].id \in Nat
        <4>1. acc[j] \in Events
              BY <1>0
        <4>2. QED
              BY <4>1, AuditEnvironment DEF Events, Ids
      <3>3. QED
            BY <3>1, <3>2
    <2>2. CASE j \in 1 .. d
      <3>1. Calm(acc, j, d + 1, acc[j].sid)
            BY <2>2 DEF Calm
      <3>2. QED
            BY <2>2, <3>1 DEF OpenStays
    <2>3. QED
          BY <2>1, <2>2
  <1>5. OwnClose(t, g)
        BY DEF OwnClose
  <1>6. QED
        BY <1>1, <1>2, <1>3, <1>4, <1>5

\* More failures excuse more.
LEMMA MoreFailures ==
  ASSUME NEW acc, NEW d, NEW f, NEW g, f \subseteq g, NEW t, WrittenIn(t, acc, d, f)
  PROVE  WrittenIn(t, acc, d, g)
  BY DEF WrittenIn, Present, ExcusedBy, OwnClose

\* A new event is enqueued.
LEMMA Grows ==
  ASSUME NEW acc \in Seq(Events), NEW e \in Events, NEW d \in Nat, d <= Len(acc), NEW f,
         NEW t, WrittenIn(t, acc, d, f), Below(t, e.id)
  PROVE  WrittenIn(t, Append(acc, e), d, f)
  <1> DEFINE a == Append(acc, e)
  <1> USE DEF WrittenIn
  <1>0. /\ Len(acc) \in Nat /\ Len(a) = Len(acc) + 1
        /\ \A i \in 1 .. Len(acc) : a[i] = acc[i]
        /\ a[Len(acc) + 1] = e
        OBVIOUS
  <1> HIDE DEF a
  <1>d. \A i \in 1 .. d : a[i] = acc[i]
        BY <1>0
  <1>1. Present(t, a, d, f)
        BY <1>d DEF Present
  <1>2. NoExecAhead(t, a, d)
    <2> SUFFICES ASSUME NEW x \in t.execs, NEW i \in (d + 1) .. Len(a)
                 PROVE  x < a[i].id
        BY DEF NoExecAhead
    <2>1. CASE i \in (d + 1) .. Len(acc)
          BY <1>0, <2>1 DEF NoExecAhead
    <2>2. CASE i = Len(acc) + 1
          BY <1>0, <2>2 DEF Below
    <2>3. QED
          BY <1>0, <2>1, <2>2
  <1>3. RowsKnown(t, a, d)
    <2> SUFFICES ASSUME NEW k \in DOMAIN t.rows
                 PROVE  \/ \E m \in 1 .. d : Opens(a, m, t.rows[k].sid, t.rows[k].of)
                        \/ \A m \in 1 .. Len(a) : t.rows[k].of < a[m].id
        BY DEF RowsKnown
    <2>1. CASE \E m \in 1 .. d : Opens(acc, m, t.rows[k].sid, t.rows[k].of)
          BY <1>d, <2>1 DEF Opens
    <2>2. CASE \A m \in 1 .. Len(acc) : t.rows[k].of < acc[m].id
      <3>1. t.rows[k].of < e.id
            BY DEF Below
      <3>2. ASSUME NEW m \in 1 .. Len(a)
            PROVE  t.rows[k].of < a[m].id
        <4>1. CASE m = Len(acc) + 1
              BY <1>0, <3>1, <4>1
        <4>2. CASE m \in 1 .. Len(acc)
              BY <1>0, <2>2, <4>2
        <4>3. QED
              BY <1>0, <4>1, <4>2
      <3>3. QED
            BY <3>2
    <2>3. QED
          BY <2>1, <2>2 DEF RowsKnown
  <1>4. OpenStays(t, a, d)
    <2> SUFFICES ASSUME NEW j \in 1 .. d, NEW k \in DOMAIN t.rows,
                        a[j].kind = "session_created", t.rows[k].of = a[j].id,
                        Calm(a, j, d + 1, a[j].sid)
                 PROVE  t.rows[k].closed = 0
        BY DEF OpenStays
    <2>1. a[j] = acc[j]
          BY <1>d
    <2>2. Calm(acc, j, d + 1, acc[j].sid)
          BY <1>d, <2>1 DEF Calm
    <2>3. QED
          BY <2>1, <2>2 DEF OpenStays
  <1>5. QED
        BY <1>1, <1>2, <1>3, <1>4 DEF a

\* The process has ended: no event is left to be written.
LEMMA Forgets ==
  ASSUME NEW acc, NEW d, NEW f, NEW t, WrittenIn(t, acc, d, f)
  PROVE  WrittenIn(t, <<>>, 0, f \ {0})
  BY DEF WrittenIn, Present, NoExecAhead, RowsKnown, RowsInOrder, OpenStays, OwnClose

\* Writing the next event, if it is an execution.
LEMMA WritesExec ==
  ASSUME NEW acc, OneProcess(acc), NEW d \in Nat, d < Len(acc), NEW f,
         NEW t, WrittenIn(t, acc, d, f), acc[d + 1].kind = "exec"
  PROVE  WrittenIn(Apply(acc[d + 1], t), acc, d + 1, f)
  <1> DEFINE e == acc[d + 1]
             u == Apply(e, t)
  <1> USE DEF WrittenIn
  <1>0. acc \in Seq(Events) /\ Len(acc) \in Nat /\ DOMAIN acc = 1 .. Len(acc)
        BY DEF OneProcess
  <1>e. e \in Events
        BY <1>0
  <1>u. /\ u.execs = t.execs \cup {e.id} /\ u.rows = t.rows
        /\ u \in Tables
    <2>1. u = [t EXCEPT !.execs = @ \cup {e.id}]
          BY DEF Apply
    <2>2. QED
          BY <1>e, <2>1 DEF Tables, Events
  <1> HIDE DEF u
  <1>1. Present(u, acc, d + 1, f)
    <2>1. ASSUME NEW i \in 1 .. d
          PROVE  RecordedIn(acc[i], u) \/ ExcusedBy(acc[i], f)
          BY <1>u DEF Present, RecordedIn, RowOf, ClosedRowOf
    <2>2. RecordedIn(e, u)
          BY <1>u DEF RecordedIn
    <2>3. QED
          BY <2>1, <2>2 DEF Present
  <1>2. NoExecAhead(u, acc, d + 1)
        BY <1>0, <1>u DEF NoExecAhead, OneProcess
  <1>3. RowsKnown(u, acc, d + 1) /\ RowsInOrder(u) /\ OwnClose(u, f)
        BY <1>u DEF RowsKnown, RowsInOrder, OwnClose
  <1>4. OpenStays(u, acc, d + 1)
    <2>1. WrittenIn(t, acc, d + 1, f \cup {e.id})
          BY PassesOver
    <2>2. QED
          BY <1>u, <2>1 DEF OpenStays
  <1>5. QED
        BY <1>u, <1>1, <1>2, <1>3, <1>4 DEF u

\* Writing the next event, if it opens a session.
LEMMA WritesRow ==
  ASSUME NEW acc, OneProcess(acc), NEW d \in Nat, d < Len(acc), NEW f,
         NEW t, WrittenIn(t, acc, d, f), acc[d + 1].kind = "session_created"
  PROVE  WrittenIn(Apply(acc[d + 1], t), acc, d + 1, f)
  <1> DEFINE e == acc[d + 1]
             u == Apply(e, t)
             r == [sid |-> e.sid, of |-> e.id, closed |-> 0]
             n == Len(t.rows)
  <1> USE DEF WrittenIn
  <1>0. acc \in Seq(Events) /\ Len(acc) \in Nat /\ DOMAIN acc = 1 .. Len(acc)
        BY DEF OneProcess
  <1>e. e \in Events /\ e.id \in Ids /\ e.sid \in AuditSids
    <2>1. e \in Events
          BY <1>0
    <2>2. QED
          BY <2>1 DEF Events
  <1>t. t.rows \in Seq(Rows) /\ n \in Nat /\ DOMAIN t.rows = 1 .. n
        BY DEF Tables
  <1>u. /\ u.execs = t.execs /\ u.rows = Append(t.rows, r)
        /\ u \in Tables
    <2>1. u = [t EXCEPT !.rows = Append(@, r)]
          BY DEF Apply
    <2>2. Append(t.rows, r) \in Seq(Rows)
          BY <1>e, <1>t DEF Rows
    <2>3. QED
          BY <2>1, <2>2 DEF Tables
  <1>r. /\ DOMAIN u.rows = 1 .. (n + 1)
        /\ \A k \in 1 .. n : u.rows[k] = t.rows[k]
        /\ u.rows[n + 1] = r
        BY <1>t, <1>u
  <1>b. \A k \in 1 .. n : t.rows[k].of < e.id
    <2> TAKE k \in 1 .. n
    <2>1. CASE \E m \in 1 .. d : Opens(acc, m, t.rows[k].sid, t.rows[k].of)
          BY <1>0, <2>1 DEF Opens, OneProcess
    <2>2. CASE \A m \in 1 .. Len(acc) : t.rows[k].of < acc[m].id
          BY <1>0, <2>2
    <2>3. QED
          BY <1>t, <2>1, <2>2 DEF RowsKnown
  <1>p. WrittenIn(t, acc, d + 1, f \cup {e.id})
        BY PassesOver
  <1>k. \A k \in 1 .. n : k \in DOMAIN t.rows /\ u.rows[k] = t.rows[k]
        BY <1>t, <1>r
  <1> HIDE DEF u, n, r
  <1>1. Present(u, acc, d + 1, f)
    <2>1. ASSUME NEW i \in 1 .. d
          PROVE  RecordedIn(acc[i], u) \/ ExcusedBy(acc[i], f)
      <3>1. RowOf(acc[i], t) => RowOf(acc[i], u)
            BY <1>t, <1>r DEF RowOf
      <3>2. ClosedRowOf(acc[i], t) => ClosedRowOf(acc[i], u)
            BY <1>t, <1>r DEF ClosedRowOf
      <3>3. QED
            BY <1>u, <3>1, <3>2 DEF Present, RecordedIn
    <2>2. RecordedIn(e, u)
          BY <1>t, <1>r DEF RecordedIn, RowOf, r
    <2>3. QED
          BY <2>1, <2>2 DEF Present
  <1>2. NoExecAhead(u, acc, d + 1)
        BY <1>0, <1>u DEF NoExecAhead
  <1>3. RowsKnown(u, acc, d + 1)
    <2> SUFFICES ASSUME NEW k \in 1 .. (n + 1)
                 PROVE  \/ \E m \in 1 .. (d + 1) : Opens(acc, m, u.rows[k].sid, u.rows[k].of)
                        \/ \A m \in 1 .. Len(acc) : u.rows[k].of < acc[m].id
        BY <1>r DEF RowsKnown
    <2>1. CASE k = n + 1
      <3>1. Opens(acc, d + 1, u.rows[k].sid, u.rows[k].of)
            BY <1>r, <2>1 DEF Opens, r
      <3>2. QED
            BY <3>1
    <2>2. CASE k \in 1 .. n
          BY <1>p, <1>t, <1>r, <2>2 DEF RowsKnown
    <2>3. QED
          BY <1>t, <2>1, <2>2
  <1>4. RowsInOrder(u)
    <2> SUFFICES ASSUME NEW k \in 1 .. (n + 1), NEW l \in 1 .. (n + 1), k < l
                 PROVE  u.rows[k].of < u.rows[l].of
        BY <1>r DEF RowsInOrder
    <2>0. k \in 1 .. n
          BY <1>t
    <2>1. CASE l = n + 1
      <3>1. u.rows[l].of = e.id
            BY <1>r, <2>1 DEF r
      <3>2. QED
            BY <1>k, <1>b, <2>0, <3>1
    <2>2. CASE l \in 1 .. n
          BY <1>k, <2>0, <2>2 DEF RowsInOrder
    <2>3. QED
          BY <1>t, <2>1, <2>2
  <1>5. OpenStays(u, acc, d + 1)
    <2> SUFFICES ASSUME NEW j \in 1 .. (d + 1), NEW k \in 1 .. (n + 1),
                        acc[j].kind = "session_created", u.rows[k].of = acc[j].id,
                        Calm(acc, j, d + 1 + 1, acc[j].sid)
                 PROVE  u.rows[k].closed = 0
        BY <1>r DEF OpenStays
    <2>1. CASE k = n + 1
          BY <1>r, <2>1 DEF r
    <2>2. CASE k \in 1 .. n
      <3>1. OpenStays(t, acc, d + 1)
            BY <1>p
      <3>2. QED
            BY <1>k, <2>2, <3>1 DEF OpenStays
    <2>3. QED
          BY <1>t, <2>1, <2>2
  <1>6. OwnClose(u, f)
    <2> SUFFICES ASSUME NEW k \in 1 .. (n + 1)
                 PROVE  u.rows[k].closed \in {0, u.rows[k].of} \cup f
        BY <1>r DEF OwnClose
    <2>1. CASE k = n + 1
          BY <1>r, <2>1 DEF r
    <2>2. CASE k \in 1 .. n
      <3>1. OwnClose(t, f)
            OBVIOUS
      <3>2. QED
            BY <1>k, <2>2, <3>1 DEF OwnClose
    <2>3. QED
          BY <1>t, <2>1, <2>2
  <1>7. QED
        BY <1>u, <1>1, <1>2, <1>3, <1>4, <1>5, <1>6 DEF u

\* Of an event of the sequence.
LEMMA EventFields ==
  ASSUME NEW acc, OneProcess(acc), NEW i \in 1 .. Len(acc)
  PROVE  /\ acc[i] \in Events
         /\ acc[i].id \in Ids /\ acc[i].of \in Ids /\ acc[i].sid \in AuditSids
         /\ acc[i].id \in Nat \ {0} /\ acc[i].of \in Nat \ {0}
  <1>1. acc[i] \in Events
        BY DEF OneProcess
  <1>2. acc[i].id \in Ids /\ acc[i].of \in Ids /\ acc[i].sid \in AuditSids
        BY <1>1 DEF Events
  <1>3. QED
        BY <1>1, <1>2, AuditEnvironment DEF Ids

\* The row of a session of this process: the event that opened it.
LEMMA RowIsOf ==
  ASSUME NEW acc, OneProcess(acc), NEW d \in Nat, d <= Len(acc),
         NEW t, t \in Tables, RowsKnown(t, acc, d),
         NEW k \in DOMAIN t.rows, NEW j \in 1 .. Len(acc), t.rows[k].of >= acc[j].id
  PROVE  \E m \in j .. d :
            /\ Opens(acc, m, t.rows[k].sid, t.rows[k].of)
            /\ t.rows[k].of = acc[j].id => m = j
  <1>0. acc \in Seq(Events) /\ Len(acc) \in Nat /\ DOMAIN acc = 1 .. Len(acc)
        BY DEF OneProcess
  <1>1. t.rows[k].of \in Nat
    <2>1. t.rows \in Seq(Rows)
          BY DEF Tables
    <2>2. t.rows[k] \in Rows
          BY <2>1
    <2>3. QED
          BY <2>2, AuditEnvironment DEF Rows, Ids
  <1>2. acc[j].id \in Nat
        BY EventFields
  <1>3. PICK m \in 1 .. d : Opens(acc, m, t.rows[k].sid, t.rows[k].of)
    <2>1. ~ \A m \in 1 .. Len(acc) : t.rows[k].of < acc[m].id
          BY <1>1, <1>2
    <2>2. QED
          BY <2>1 DEF RowsKnown
  <1>4. m \in 1 .. Len(acc) /\ acc[m].id = t.rows[k].of
        BY <1>0, <1>3 DEF Opens
  <1>5. ~ (m < j)
    <2>1. m < j => acc[m].id < acc[j].id
          BY <1>0, <1>4 DEF OneProcess
    <2>2. QED
          BY <1>1, <1>2, <1>4, <2>1
  <1>6. t.rows[k].of = acc[j].id => ~ (j < m)
    <2>1. j < m => acc[j].id < acc[m].id
          BY <1>0, <1>4 DEF OneProcess
    <2>2. QED
          BY <1>1, <1>2, <1>4, <2>1
  <1>7. QED
        BY <1>0, <1>3, <1>5, <1>6

\* The row that the end of a session finds is its own, unless the row could not
\* be written.
LEMMA ClosesOwnRow ==
  ASSUME NEW acc, OneProcess(acc), NEW d \in Nat, d < Len(acc), NEW f,
         NEW t, WrittenIn(t, acc, d, f), acc[d + 1].kind = "session_destroyed",
         acc[d + 1].of \notin f
  PROVE  LET O == OpenRows(t.rows, acc[d + 1].sid)
         IN  O # {} /\ t.rows[Max(O)].of = acc[d + 1].of
  <1> DEFINE e == acc[d + 1]
             O == OpenRows(t.rows, e.sid)
             c == Max(O)
  <1>0. acc \in Seq(Events) /\ Len(acc) \in Nat /\ DOMAIN acc = 1 .. Len(acc)
        BY DEF OneProcess
  <1>t. t \in Tables /\ t.rows \in Seq(Rows) /\ Len(t.rows) \in Nat
        BY DEF WrittenIn, Tables
  <1>d. DOMAIN t.rows = 1 .. Len(t.rows)
        BY <1>t
  <1>1. PICK j \in 1 .. d : Opens(acc, j, e.sid, e.of) /\ Calm(acc, j, d + 1, e.sid)
    <2>1. d + 1 \in DOMAIN acc /\ (d + 1) - 1 = d
          BY <1>0
    <2>2. QED
          BY <2>1 DEF OneProcess
  <1>2. /\ j \in 1 .. Len(acc) /\ acc[j].kind = "session_created" /\ acc[j].sid = e.sid
        /\ acc[j].id = e.of /\ acc[j].of = e.of /\ e.of \in Nat
    <2>1. j \in 1 .. Len(acc) /\ d + 1 \in 1 .. Len(acc)
          BY <1>0
    <2>2. e.of \in Nat
          BY <2>1, EventFields
    <2>3. acc[j].kind = "session_created" /\ acc[j].sid = e.sid /\ acc[j].id = e.of
          BY <1>1 DEF Opens
    <2>4. acc[j].of = acc[j].id
          BY <1>0, <2>1, <2>3 DEF OneProcess
    <2>5. QED
          BY <2>1, <2>2, <2>3, <2>4
  <1>3. PICK k \in DOMAIN t.rows : t.rows[k].of = e.of
    <2>1. RecordedIn(acc[j], t) \/ ExcusedBy(acc[j], f)
          BY DEF WrittenIn, Present
    <2>2. QED
          BY <1>2, <2>1 DEF RecordedIn, ExcusedBy, RowOf
  <1>4. t.rows[k].sid = e.sid
    <2>1. PICK m \in j .. d : /\ Opens(acc, m, t.rows[k].sid, t.rows[k].of)
                              /\ t.rows[k].of = acc[j].id => m = j
          BY <1>0, <1>2, <1>3, <1>t, RowIsOf DEF WrittenIn
    <2>2. QED
          BY <1>2, <1>3, <2>1 DEF Opens
  <1>5. t.rows[k].closed = 0
        BY <1>1, <1>2, <1>3 DEF WrittenIn, OpenStays
  <1>6. k \in O /\ O \in SUBSET (1 .. Len(t.rows))
        BY <1>d, <1>4, <1>5 DEF OpenRows
  <1>7. c \in O /\ c >= k
        BY <1>6, <1>t, MaxIsMax
  <1>8. ~ (k < c)
    <2> SUFFICES ASSUME k < c
                 PROVE  FALSE
        OBVIOUS
    <2>1. c \in DOMAIN t.rows /\ t.rows[c].sid = e.sid
          BY <1>7 DEF OpenRows
    <2>2. t.rows[k].of < t.rows[c].of
          BY <2>1 DEF WrittenIn, RowsInOrder
    <2>3. t.rows[c].of \in Nat
      <3>1. t.rows[c] \in Rows
            BY <1>t, <2>1
      <3>2. QED
            BY <3>1, AuditEnvironment DEF Rows, Ids
    <2>4. t.rows[c].of >= acc[j].id
          BY <1>2, <1>3, <2>2, <2>3
    <2>5. PICK m \in j .. d : Opens(acc, m, t.rows[c].sid, t.rows[c].of)
      <3>1. RowsKnown(t, acc, d) /\ d <= Len(acc) /\ j \in 1 .. Len(acc)
            BY <1>0, <1>2 DEF WrittenIn
      <3> HIDE DEF c
      <3>2. QED
            BY <1>t, <2>1, <2>4, <3>1, RowIsOf
    <2>6. m # j
          BY <1>2, <1>3, <2>2, <2>3, <2>5 DEF Opens
    <2>7. m \in (j + 1) .. ((d + 1) - 1)
          BY <2>5, <2>6
    <2>8. QED
          BY <1>1, <2>1, <2>5, <2>7 DEF Calm, Opens
  <1>9. c = k
        BY <1>d, <1>6, <1>7, <1>8
  <1>10. QED
        BY <1>3, <1>6, <1>9

\* Writing the next event, if it is the end of a session.
LEMMA WritesEnd ==
  ASSUME NEW acc, OneProcess(acc), NEW d \in Nat, d < Len(acc), NEW f,
         NEW t, WrittenIn(t, acc, d, f), acc[d + 1].kind = "session_destroyed"
  PROVE  WrittenIn(Apply(acc[d + 1], t), acc, d + 1, f)
  <1> DEFINE e == acc[d + 1]
             O == OpenRows(t.rows, e.sid)
             c == Max(O)
             u == Apply(e, t)
  <1>0. acc \in Seq(Events) /\ Len(acc) \in Nat /\ DOMAIN acc = 1 .. Len(acc)
        BY DEF OneProcess
  <1>e. d + 1 \in 1 .. Len(acc) /\ e.of \in Ids /\ e.id \in Ids /\ e.of # 0
    <2>1. d + 1 \in 1 .. Len(acc)
          BY <1>0
    <2>2. QED
          BY <2>1, EventFields
  <1>t. t \in Tables /\ t.rows \in Seq(Rows) /\ Len(t.rows) \in Nat
        BY DEF WrittenIn, Tables
  <1>d. DOMAIN t.rows = 1 .. Len(t.rows)
        BY <1>t
  <1>p. WrittenIn(t, acc, d + 1, f \cup {e.id})
        BY PassesOver
  <1>f. e.of \in f \/ (O # {} /\ t.rows[c].of = e.of)
        BY ClosesOwnRow
  <1>1. CASE O = {}
    <2>1. u = t
          BY <1>1 DEF Apply
    <2>2. e.of \in f
          BY <1>f, <1>1
    <2>3. Present(t, acc, d + 1, f)
      <3>1. ASSUME NEW i \in 1 .. (d + 1)
            PROVE  RecordedIn(acc[i], t) \/ ExcusedBy(acc[i], f)
        <4>1. CASE i = d + 1
              BY <2>2, <4>1 DEF ExcusedBy
        <4>2. CASE i \in 1 .. d
              BY <4>2 DEF WrittenIn, Present
        <4>3. QED
              BY <4>1, <4>2
      <3>2. QED
            BY <3>1 DEF Present
    <2>4. WrittenIn(t, acc, d + 1, f)
          BY <1>p, <2>3 DEF WrittenIn
    <2>5. QED
          BY <2>1, <2>4
  <1>2. CASE O # {}
    <2>c. c \in DOMAIN t.rows /\ t.rows[c].sid = e.sid /\ t.rows[c].closed = 0
      <3>1. O \in SUBSET (1 .. Len(t.rows))
            BY <1>d DEF OpenRows
      <3>2. c \in O
            BY <1>2, <1>t, <3>1, MaxIsMax
      <3>3. QED
            BY <3>2 DEF OpenRows
    <2>r. \A k \in DOMAIN t.rows :
             t.rows[k] \in Rows /\ t.rows[k].of \in Ids /\ t.rows[k].of \in Nat
      <3>1. \A k \in DOMAIN t.rows : t.rows[k] \in Rows
            BY <1>t
      <3>2. QED
            BY <3>1, AuditEnvironment DEF Rows, Ids
    <2>u. /\ u.execs = t.execs
          /\ u.rows = [t.rows EXCEPT ![c] = [t.rows[c] EXCEPT !.closed = e.of]]
          /\ u \in Tables
      <3>1. u = [t EXCEPT !.rows = [t.rows EXCEPT ![c] = [t.rows[c] EXCEPT !.closed = e.of]]]
            BY <1>2 DEF Apply, RowToClose
      <3>2. [t.rows[c] EXCEPT !.closed = e.of] \in Rows
            BY <1>e, <2>c, <2>r DEF Rows
      <3>3. [t.rows EXCEPT ![c] = [t.rows[c] EXCEPT !.closed = e.of]] \in Seq(Rows)
            BY <1>t, <1>d, <2>c, <3>2
      <3>4. QED
            BY <1>t, <3>1, <3>3 DEF Tables
    <2>k. /\ DOMAIN u.rows = DOMAIN t.rows
          /\ \A k \in DOMAIN t.rows : u.rows[k].of = t.rows[k].of /\ u.rows[k].sid = t.rows[k].sid
          /\ \A k \in DOMAIN t.rows : k # c => u.rows[k] = t.rows[k]
          /\ u.rows[c].closed = e.of
      <3>1. t.rows[c] \in Rows
            BY <2>c, <2>r
      <3> DEFINE q == [t.rows[c] EXCEPT !.closed = e.of]
      <3>3. q.of = t.rows[c].of /\ q.sid = t.rows[c].sid /\ q.closed = e.of
            BY <3>1 DEF Rows
      <3> HIDE DEF q
      <3>4. u.rows = [t.rows EXCEPT ![c] = q]
            BY <2>u DEF q
      <3>5. QED
            BY <2>c, <3>3, <3>4
    <2> HIDE DEF u, c
    <2>1. Present(u, acc, d + 1, f)
      <3>1. ASSUME NEW i \in 1 .. d
            PROVE  RecordedIn(acc[i], u) \/ ExcusedBy(acc[i], f)
        <4>1. RowOf(acc[i], t) => RowOf(acc[i], u)
              BY <2>k DEF RowOf
        <4>2. ClosedRowOf(acc[i], t) => ClosedRowOf(acc[i], u)
          <5>1. acc[i].of # 0
                BY <1>0, EventFields
          <5>2. QED
                BY <2>c, <2>k, <5>1 DEF ClosedRowOf
        <4>3. RecordedIn(acc[i], t) \/ ExcusedBy(acc[i], f)
              BY DEF WrittenIn, Present
        <4>4. QED
              BY <2>u, <4>1, <4>2, <4>3 DEF RecordedIn
      <3>2. RecordedIn(e, u) \/ ExcusedBy(e, f)
        <4>1. CASE e.of \in f
              BY <4>1 DEF ExcusedBy
        <4>2. CASE t.rows[c].of = e.of
              BY <2>c, <2>k, <4>2 DEF RecordedIn, ClosedRowOf
        <4>3. QED
              BY <1>f, <4>1, <4>2 DEF c
      <3>3. QED
            BY <3>1, <3>2 DEF Present
    <2>2. NoExecAhead(u, acc, d + 1) /\ RowsKnown(u, acc, d + 1) /\ RowsInOrder(u)
          BY <1>p, <2>u, <2>k DEF WrittenIn, NoExecAhead, RowsKnown, RowsInOrder
    <2>3. OpenStays(u, acc, d + 1)
      <3> SUFFICES ASSUME NEW j \in 1 .. (d + 1), NEW k \in DOMAIN t.rows,
                          acc[j].kind = "session_created", u.rows[k].of = acc[j].id,
                          Calm(acc, j, d + 1 + 1, acc[j].sid)
                   PROVE  u.rows[k].closed = 0
          BY <2>k DEF OpenStays
      <3>1. CASE k # c
        <4>1. OpenStays(t, acc, d + 1)
              BY <1>p DEF WrittenIn
        <4>2. QED
              BY <2>k, <3>1, <4>1 DEF OpenStays
      <3>2. CASE k = c
        <4>1. j \in 1 .. Len(acc) /\ j # d + 1
              BY <1>0
        <4>2. t.rows[c].of = acc[j].id
              BY <2>k, <3>2
        <4>3. t.rows[c].of >= acc[j].id
              BY <2>r, <2>c, <4>2
        <4>4. PICK m \in j .. (d + 1) : /\ Opens(acc, m, t.rows[c].sid, t.rows[c].of)
                                        /\ t.rows[c].of = acc[j].id => m = j
          <5>1. RowsKnown(t, acc, d + 1) /\ d + 1 <= Len(acc)
                BY <1>p, <1>0 DEF WrittenIn
          <5>2. QED
                BY <1>t, <2>c, <4>1, <4>3, <5>1, RowIsOf
        <4>5. acc[j].sid = e.sid
              BY <2>c, <4>2, <4>4 DEF Opens
        <4>6. d + 1 \in (j + 1) .. ((d + 1 + 1) - 1)
              BY <4>1
        <4>7. QED
              BY <4>5, <4>6 DEF Calm
      <3>3. QED
            BY <3>1, <3>2
    <2>4. OwnClose(u, f)
      <3> SUFFICES ASSUME NEW k \in DOMAIN t.rows
                   PROVE  u.rows[k].closed \in {0, u.rows[k].of} \cup f
          BY <2>k DEF OwnClose
      <3>1. CASE k # c
            BY <2>k, <3>1 DEF WrittenIn, OwnClose
      <3>2. CASE k = c
            BY <1>f, <2>k, <3>2 DEF c
      <3>3. QED
            BY <3>1, <3>2
    <2>5. QED
          BY <2>u, <2>1, <2>2, <2>3, <2>4 DEF WrittenIn, u
  <1>3. QED
        BY <1>1, <1>2

\* Writing the next event.
LEMMA Writes ==
  ASSUME NEW acc, OneProcess(acc), NEW d \in Nat, d < Len(acc), NEW f,
         NEW t, WrittenIn(t, acc, d, f)
  PROVE  /\ WrittenIn(Apply(acc[d + 1], t), acc, d + 1, f)
         /\ t.execs \subseteq Apply(acc[d + 1], t).execs
         /\ \A n \in Nat : Below(t, n) /\ acc[d + 1].id < n => Below(Apply(acc[d + 1], t), n)
  <1> DEFINE e == acc[d + 1]
             u == Apply(e, t)
  <1>0. acc \in Seq(Events) /\ Len(acc) \in Nat /\ DOMAIN acc = 1 .. Len(acc)
        BY DEF OneProcess
  <1>e. d + 1 \in 1 .. Len(acc) /\ e \in Events /\ e.id \in Nat
    <2>1. d + 1 \in 1 .. Len(acc)
          BY <1>0
    <2>2. QED
          BY <2>1, EventFields
  <1>k. e.kind \in {"exec", "session_created", "session_destroyed"}
        BY <1>e DEF Events, Kinds
  <1>1. WrittenIn(u, acc, d + 1, f)
        BY <1>k, WritesExec, WritesRow, WritesEnd
  <1>2. u.execs = t.execs \/ u.execs = t.execs \cup {e.id}
        BY <1>k DEF Apply, WrittenIn, Tables
  <1>3. ASSUME NEW n \in Nat, Below(t, n), e.id < n, NEW k \in DOMAIN u.rows
        PROVE  u.rows[k].of < n
    <2>1. u.rows[k].of \in Nat
      <3>1. u.rows \in Seq(Rows)
            BY <1>1 DEF WrittenIn, Tables
      <3>2. u.rows[k] \in Rows
            BY <3>1
      <3>3. QED
            BY <3>2, AuditEnvironment DEF Rows, Ids
    <2>2. CASE \E m \in 1 .. (d + 1) : Opens(acc, m, u.rows[k].sid, u.rows[k].of)
      <3>1. PICK m \in 1 .. (d + 1) : acc[m].id = u.rows[k].of
            BY <2>2 DEF Opens
      <3>2. m \in DOMAIN acc /\ d + 1 \in DOMAIN acc
            BY <1>0
      <3>3. m < d + 1 => acc[m].id < e.id
            BY <3>2 DEF OneProcess
      <3>4. m = d + 1 \/ m < d + 1
            OBVIOUS
      <3>5. QED
            BY <1>e, <1>3, <2>1, <3>1, <3>3, <3>4
    <2>3. CASE \A m \in 1 .. Len(acc) : u.rows[k].of < acc[m].id
          BY <1>e, <1>3, <2>1, <2>3
    <2>4. QED
          BY <1>1, <2>2, <2>3 DEF WrittenIn, RowsKnown
  <1>4. QED
        BY <1>1, <1>2, <1>3 DEF Below

-----------------------------------------------------------------------------
(***************************************************************************)
(* The queue.                                                              *)
(***************************************************************************)
WriterPcs == {"opening", "idle", "writing", "closing", "ended", "none"}

Types ==
    /\ db \in Tables
    /\ mine \in Tables
    /\ queue \in Seq(Events \cup {Stop})
    /\ unfinished \in Nat
    /\ writer \in [pc : WriterPcs, item : Events \cup {Nothing}]
    /\ stopper \in {"none", "waiting", "returned"}
    /\ flusher \in [pc : {"none", "waiting", "woken"}, upTo : Nat]
    /\ live \in [AuditSids -> Ids \cup {0}]
    /\ nextId \in Nat \ {0}
    /\ accepted \in Seq(Events)
    /\ failed \subseteq Ids \cup {0}

SentinelQueued == queue # <<>> /\ queue[Len(queue)] = Stop

\* How many events are in the queue, in the writer's hands, and behind it.
Queued == IF SentinelQueued THEN Len(queue) - 1 ELSE Len(queue)
AtHand == IF writer.pc = "writing" THEN 1 ELSE 0
Done == Len(accepted) - Queued - AtHand

\* First in, first out, and the sentinel is the last.
QueueInv ==
    /\ Done \in Nat
    /\ \A i \in 1 .. Queued : queue[i] = accepted[Done + AtHand + i]
    /\ writer.pc = "writing" => writer.item = accepted[Done + 1]
    /\ unfinished = Len(queue) + AtHand
    /\ SentinelQueued => stopper # "none"
    /\ writer.pc \in {"opening", "idle", "writing"} /\ stopper # "none" =>
          SentinelQueued /\ stopper = "waiting"
    /\ writer.pc = "closing" => queue = <<>> /\ stopper = "waiting"
    /\ writer.pc = "ended" => 0 \in failed \/ (queue = <<>> /\ stopper # "none")
    /\ writer.pc = "none" => accepted = <<>> /\ queue = <<>> /\ stopper = "none"
    /\ stopper = "returned" => writer.pc = "ended"

\* Who flushes waits for events that there are, until they are done.
FlushInv ==
    /\ flusher.upTo <= Len(accepted)
    /\ flusher.pc = "woken" => flusher.upTo <= Done

\* The events have the ids up to nextId, and the manager's sessions have been
\* opened and not closed.
EventInv ==
    /\ OneProcess(accepted)
    /\ Len(accepted) < nextId
    /\ nextId <= MaxItems + 1
    /\ \A i \in 1 .. Len(accepted) : accepted[i].id < nextId
    /\ \A s \in AuditSids : live[s] # 0 =>
          \E j \in 1 .. Len(accepted) :
             Opens(accepted, j, s, live[s]) /\ Calm(accepted, j, Len(accepted) + 1, s)

TableInv ==
    /\ WrittenIn(db, accepted, Done, failed)
    /\ WrittenIn(mine, accepted, Done, failed)
    /\ Below(db, nextId)
    /\ Below(mine, nextId)
    /\ db.execs \subseteq mine.execs
    /\ seen \subseteq db.execs

AInv == Types /\ QueueInv /\ FlushInv /\ EventInv /\ TableInv

\* Nothing has been enqueued.
LEMMA AInvInit ==
  ASSUME NEW pc \in {"none", "opening"}, Initially(pc)
  PROVE  AInv
  <1> USE AuditEnvironment DEF Initially, EmptyTables, NoFlush
  <1>1. Types
        BY DEF Types, Tables, WriterPcs
  <1>2. ~SentinelQueued /\ Queued = 0 /\ AtHand = 0
        BY DEF SentinelQueued, Queued, AtHand
  <1>3. Done = 0
        BY <1>2 DEF Done
  <1>4. QueueInv /\ FlushInv
        BY <1>2, <1>3 DEF QueueInv, FlushInv
  <1>5. EventInv
        BY DEF EventInv, OneProcess
  <1>6. WrittenIn(EmptyTables, <<>>, 0, {})
        BY DEF WrittenIn, Tables, Present, NoExecAhead, RowsKnown, RowsInOrder, OpenStays, OwnClose
  <1>7. TableInv
        BY <1>3, <1>6 DEF TableInv, Below
  <1>8. QED
        BY <1>1, <1>4, <1>5, <1>7 DEF AInv

\* A step that leaves accepted, and what is done of it, as they are.
LEMMA SameCounts ==
  ASSUME UNCHANGED <<queue, accepted, unfinished, writer, stopper>>
  PROVE  /\ SentinelQueued' = SentinelQueued /\ Queued' = Queued /\ AtHand' = AtHand
         /\ Done' = Done
  BY DEF SentinelQueued, Queued, AtHand, Done

\* What enqueueing does.
LEMMA EnqueuesOne ==
  ASSUME AInv, NEW s \in AuditSids, SessionCreated(s) \/ Exec(s) \/ SessionDestroyed(s)
  PROVE  \E e \in Events :
            /\ queue' = Append(queue, e)
            /\ accepted' = Append(accepted, e)
            /\ unfinished' = unfinished + 1
            /\ nextId' = nextId + 1
            /\ UNCHANGED <<tables, writer, stopper, flusher, failed, seen>>
            /\ writer.pc # "none"
            /\ stopper = "none"
            /\ nextId \in Ids
            /\ e.id = nextId
            /\ e.sid = s
            /\ \/ e.kind = "session_created" /\ e.of = e.id /\ live' = [live EXCEPT ![s] = e.id]
               \/ e.kind = "exec" /\ live' = live
               \/ /\ e.kind = "session_destroyed"
                  /\ live[s] # 0
                  /\ e.of = live[s]
                  /\ live' = [live EXCEPT ![s] = 0]
  <1> USE DEF Enqueue, Put, Running, AInv, Types
  <1>1. CASE SessionCreated(s)
    <2>1. PICK e : e = [kind |-> "session_created", sid |-> s, id |-> nextId, of |-> nextId]
          OBVIOUS
    <2>2. e \in Events /\ nextId \in Ids
          BY <1>1, <2>1 DEF SessionCreated, Events, Kinds
    <2>3. QED
          BY <1>1, <2>1, <2>2 DEF SessionCreated
  <1>2. CASE Exec(s)
    <2>1. PICK e : e = [kind |-> "exec", sid |-> s, id |-> nextId, of |-> nextId]
          OBVIOUS
    <2>2. e \in Events /\ nextId \in Ids
          BY <1>2, <2>1 DEF Exec, Events, Kinds
    <2>3. QED
          BY <1>2, <2>1, <2>2 DEF Exec
  <1>3. CASE SessionDestroyed(s)
    <2>1. PICK e : e = [kind |-> "session_destroyed", sid |-> s, id |-> nextId, of |-> live[s]]
          OBVIOUS
    <2>2. e \in Events /\ nextId \in Ids
          BY <1>3, <2>1 DEF SessionDestroyed, Events, Kinds
    <2>3. QED
          BY <1>3, <2>1, <2>2 DEF SessionDestroyed
  <1>4. QED
        BY <1>1, <1>2, <1>3

\* Every event is done, in the writer's hands or in the queue.
LEMMA Counts ==
  ASSUME AInv
  PROVE  /\ Len(queue) \in Nat /\ Len(accepted) \in Nat /\ Queued \in Nat
         /\ AtHand \in {0, 1}
         /\ Done \in Nat /\ Len(accepted) = Done + AtHand + Queued
         /\ SentinelQueued => Len(queue) = Queued + 1
         /\ ~SentinelQueued => Len(queue) = Queued
  BY DEF AInv, Types, QueueInv, SentinelQueued, Queued, AtHand, Done

\* The sentinel is the last in the queue, and no event is taken for it.
LEMMA HeadOfQueue ==
  ASSUME AInv, queue # <<>>
  PROVE  /\ Head(queue) = Stop => queue = <<Stop>> /\ SentinelQueued /\ Queued = 0
         /\ Head(queue) # Stop => Queued >= 1
  <1>1. queue \in Seq(Events \cup {Stop}) /\ Len(queue) \in Nat \ {0} /\ Head(queue) = queue[1]
        BY DEF AInv, Types
  <1>2. ASSUME Queued >= 1
        PROVE  Head(queue) # Stop
    <2>1. queue[1] = accepted[Done + AtHand + 1]
          BY <1>2, Counts DEF AInv, QueueInv
    <2>2. Done + AtHand + 1 \in 1 .. Len(accepted)
          BY <1>2, Counts
    <2>3. accepted[Done + AtHand + 1] \in Events
          BY <2>2 DEF AInv, Types
    <2>4. QED
          BY <1>1, <2>1, <2>3, Sentinel
  <1>3. ASSUME Queued = 0
        PROVE  queue = <<Stop>> /\ SentinelQueued
    <2>1. SentinelQueued /\ Len(queue) = 1
          BY <1>1, <1>3, Counts
    <2>2. queue[1] = Stop
          BY <2>1 DEF SentinelQueued
    <2>3. QED
          BY <1>1, <2>1, <2>2
  <1>4. QED
        BY <1>1, <1>2, <1>3, Counts

\* An event is enqueued.
LEMMA EnqueueStep ==
  ASSUME AInv, NEW s \in AuditSids, SessionCreated(s) \/ Exec(s) \/ SessionDestroyed(s)
  PROVE  AInv'
  <1>1. PICK e \in Events :
            /\ queue' = Append(queue, e)
            /\ accepted' = Append(accepted, e)
            /\ unfinished' = unfinished + 1
            /\ nextId' = nextId + 1
            /\ UNCHANGED <<tables, writer, stopper, flusher, failed, seen>>
            /\ writer.pc # "none"
            /\ stopper = "none"
            /\ nextId \in Ids
            /\ e.id = nextId
            /\ e.sid = s
            /\ \/ e.kind = "session_created" /\ e.of = e.id /\ live' = [live EXCEPT ![s] = e.id]
               \/ e.kind = "exec" /\ live' = live
               \/ /\ e.kind = "session_destroyed"
                  /\ live[s] # 0
                  /\ e.of = live[s]
                  /\ live' = [live EXCEPT ![s] = 0]
        BY EnqueuesOne
  <1> DEFINE n == Len(accepted)
  <1>a. /\ n \in Nat /\ accepted \in Seq(Events) /\ queue \in Seq(Events \cup {Stop})
        /\ Len(queue) \in Nat /\ nextId \in Nat \ {0}
        BY DEF AInv, Types
  <1>e. e \in Events /\ e # Stop /\ e.id \in Ids /\ e.of \in Ids /\ e.id \in Nat \ {0}
    <2>1. e \in Events
          OBVIOUS
    <2>2. e # Stop
          BY <2>1, Sentinel
    <2>3. e.id \in Ids /\ e.of \in Ids
          BY <2>1 DEF Events
    <2>4. QED
          BY <2>2, <2>3, AuditEnvironment DEF Ids
  <1>q. /\ Len(queue') = Len(queue) + 1 /\ queue'[Len(queue) + 1] = e
        /\ \A i \in 1 .. Len(queue) : queue'[i] = queue[i]
        /\ queue' # <<>> /\ queue' \in Seq(Events \cup {Stop})
    <2>1. queue' = Append(queue, e) /\ e \in Events \cup {Stop}
          BY <1>1
    <2>2. QED
          BY <1>a, <2>1
  <1>n. /\ Len(accepted') = n + 1 /\ accepted'[n + 1] = e
        /\ \A i \in 1 .. n : accepted'[i] = accepted[i]
        /\ accepted' \in Seq(Events)
        BY <1>1, <1>a
  <1>c. /\ ~SentinelQueued /\ ~SentinelQueued'
        /\ Queued = Len(queue) /\ Queued' = Len(queue) + 1
        /\ AtHand' = AtHand
        /\ Done' = Done /\ n = Done + AtHand + Queued
    <2>1. ~SentinelQueued
          BY <1>1 DEF AInv, QueueInv
    <2>2. ~SentinelQueued'
          BY <1>e, <1>q DEF SentinelQueued
    <2>3. Queued = Len(queue) /\ Queued' = Len(queue) + 1
          BY <1>q, <2>1, <2>2 DEF Queued
    <2>4. AtHand' = AtHand
          BY <1>1 DEF AtHand
    <2>5. Done' = Done
          BY <1>a, <1>n, <2>3, <2>4, Counts DEF Done
    <2>6. QED
          BY <2>1, <2>2, <2>3, <2>4, <2>5, Counts
  <1>2. Types'
    <2>1. live' \in [AuditSids -> Ids \cup {0}]
          BY <1>1, <1>e DEF AInv, Types
    <2>2. QED
          BY <1>1, <1>a, <1>q, <1>n, <2>1 DEF AInv, Types, tables
  <1>3. QueueInv'
    <2>1. ASSUME NEW i \in 1 .. Queued'
          PROVE  queue'[i] = accepted'[Done' + AtHand' + i]
      <3>1. CASE i \in 1 .. Queued
        <4>1. Done + AtHand + i \in 1 .. n
              BY <1>c, <3>1, Counts
        <4>2. QED
              BY <1>c, <1>q, <1>n, <3>1, <4>1 DEF AInv, QueueInv
      <3>2. CASE i = Len(queue) + 1
            BY <1>c, <1>q, <1>n, <3>2, Counts
      <3>3. QED
            BY <1>c, <3>1, <3>2, Counts
    <2>2. writer.pc = "writing" => writer.item = accepted'[Done + 1]
      <3>1. writer.pc = "writing" => Done + 1 \in 1 .. n
            BY <1>c, Counts DEF AtHand
      <3>2. QED
            BY <1>n, <3>1 DEF AInv, QueueInv
    <2>3. unfinished' = Len(queue') + AtHand'
      <3>1. unfinished = Len(queue) + AtHand /\ unfinished' = unfinished + 1
            BY <1>1 DEF AInv, QueueInv
      <3>2. QED
            BY <1>a, <1>c, <1>q, <3>1, Counts
    <2>4. writer.pc # "closing" /\ (writer.pc = "ended" => 0 \in failed)
          BY <1>1 DEF AInv, QueueInv
    <2>5. QED
          BY <1>1, <1>c, <2>1, <2>2, <2>3, <2>4, Counts DEF AInv, QueueInv
  <1>4. FlushInv'
        BY <1>1, <1>a, <1>c, <1>n DEF AInv, Types, FlushInv
  <1>5. EventInv'
    <2>a. /\ OneProcess(accepted) /\ n < nextId
          /\ \A i \in 1 .. n : accepted[i].id < nextId
          BY DEF AInv, EventInv
    <2>1. OneProcess(accepted')
      <3>1. ASSUME NEW i \in 1 .. (n + 1), NEW j \in 1 .. (n + 1), i < j
            PROVE  accepted'[i].id < accepted'[j].id
        <4>1. CASE j = n + 1
          <5>1. i \in 1 .. n
                BY <1>a, <3>1, <4>1
          <5>2. accepted[i].id < nextId /\ accepted'[i] = accepted[i] /\ accepted'[j] = e
                BY <1>n, <2>a, <4>1, <5>1
          <5>3. QED
                BY <1>1, <5>2
        <4>2. CASE j \in 1 .. n
          <5>1. i \in 1 .. n
                BY <1>a, <3>1, <4>2
          <5>2. i \in DOMAIN accepted /\ j \in DOMAIN accepted
                BY <1>a, <4>2, <5>1
          <5>3. accepted[i].id < accepted[j].id
                BY <2>a, <3>1, <5>2 DEF OneProcess
          <5>4. accepted'[i] = accepted[i] /\ accepted'[j] = accepted[j]
                BY <1>n, <4>2, <5>1
          <5>5. QED
                BY <5>3, <5>4
        <4>3. QED
              BY <1>a, <4>1, <4>2
      <3>2. ASSUME NEW i \in 1 .. (n + 1), accepted'[i].kind = "session_created"
            PROVE  accepted'[i].of = accepted'[i].id
            BY <1>1, <1>a, <1>n, <2>a, <3>2 DEF OneProcess
      <3>3. ASSUME NEW i \in 1 .. (n + 1), accepted'[i].kind = "session_destroyed"
            PROVE  \E j \in 1 .. (i - 1) : /\ Opens(accepted', j, accepted'[i].sid, accepted'[i].of)
                                           /\ Calm(accepted', j, i, accepted'[i].sid)
        <4>1. CASE i = n + 1
          <5>1. e.kind = "session_destroyed" /\ live[s] # 0 /\ e.of = live[s] /\ e.sid = s
                BY <1>1, <1>n, <3>3, <4>1
          <5>2. PICK j \in 1 .. n : /\ Opens(accepted, j, s, live[s])
                                    /\ Calm(accepted, j, n + 1, s)
                BY <5>1 DEF AInv, EventInv
          <5>3. Opens(accepted', j, s, live[s]) /\ Calm(accepted', j, n + 1, s)
                BY <1>a, <1>n, <5>2 DEF Opens, Calm
          <5>4. QED
                BY <1>a, <1>n, <4>1, <5>1, <5>3
        <4>2. CASE i \in 1 .. n
          <5>1. i \in DOMAIN accepted /\ accepted'[i] = accepted[i]
                BY <1>a, <1>n, <4>2
          <5>2. PICK j \in 1 .. (i - 1) : /\ Opens(accepted, j, accepted[i].sid, accepted[i].of)
                                          /\ Calm(accepted, j, i, accepted[i].sid)
                BY <2>a, <3>3, <5>1 DEF OneProcess
          <5>3. \A k \in 1 .. i : accepted'[k] = accepted[k]
                BY <1>a, <1>n, <4>2
          <5>4. /\ Opens(accepted', j, accepted[i].sid, accepted[i].of)
                /\ Calm(accepted', j, i, accepted[i].sid)
                BY <4>2, <5>2, <5>3 DEF Opens, Calm
          <5>5. QED
                BY <5>1, <5>4
        <4>3. QED
              BY <1>a, <4>1, <4>2
      <3>4. DOMAIN accepted' = 1 .. (n + 1)
            BY <1>n
      <3> HIDE DEF n
      <3>5. QED
            BY <1>n, <3>1, <3>2, <3>3, <3>4 DEF OneProcess
    <2>2. Len(accepted') < nextId' /\ nextId' <= MaxItems + 1
          BY <1>1, <1>a, <1>n, <2>a, AuditEnvironment DEF Ids
    <2>3. ASSUME NEW i \in 1 .. Len(accepted')
          PROVE  accepted'[i].id < nextId'
      <3>1. CASE i = n + 1
            BY <1>1, <1>a, <1>n, <3>1
      <3>2. CASE i \in 1 .. n
        <4>1. accepted[i].id \in Nat
              BY <2>a, <3>2, EventFields
        <4>2. QED
              BY <1>1, <1>a, <1>n, <2>a, <3>2, <4>1
      <3>3. QED
            BY <1>a, <1>n, <3>1, <3>2
    <2>4. ASSUME NEW r \in AuditSids, live'[r] # 0
          PROVE  \E j \in 1 .. Len(accepted') :
                    Opens(accepted', j, r, live'[r]) /\ Calm(accepted', j, Len(accepted') + 1, r)
      <3>l. live \in [AuditSids -> Ids \cup {0}]
            BY DEF AInv, Types
      <3>1. CASE r = s /\ e.kind = "session_created"
        <4>1. live'[r] = e.id
              BY <1>1, <3>1, <3>l
        <4>2. Opens(accepted', n + 1, r, live'[r]) /\ Calm(accepted', n + 1, n + 2, r)
              BY <1>1, <1>a, <1>n, <3>1, <4>1 DEF Opens, Calm
        <4>3. QED
              BY <1>a, <1>n, <4>2
      <3>2. CASE r # s \/ e.kind = "exec"
        <4>1. live'[r] = live[r]
              BY <1>1, <3>2, <3>l
        <4>2. PICK j \in 1 .. n : /\ Opens(accepted, j, r, live[r])
                                  /\ Calm(accepted, j, n + 1, r)
              BY <2>4, <4>1 DEF AInv, EventInv
        <4>3. Opens(accepted', j, r, live[r])
              BY <1>n, <4>2 DEF Opens
        <4>4. Calm(accepted', j, n + 2, r)
          <5>1. ASSUME NEW k \in (j + 1) .. (n + 1)
                PROVE  accepted'[k].kind = "exec" \/ accepted'[k].sid # r
            <6>1. CASE k = n + 1
                  BY <1>1, <1>n, <3>2, <6>1
            <6>2. CASE k \in (j + 1) .. n
                  BY <1>a, <1>n, <4>2, <6>2 DEF Calm
            <6>3. QED
                  BY <1>a, <6>1, <6>2
          <5>2. QED
                BY <1>a, <5>1 DEF Calm
        <4>5. QED
              BY <1>a, <1>n, <4>1, <4>3, <4>4
      <3>3. CASE r = s /\ e.kind = "session_destroyed"
            BY <1>1, <2>4, <3>3, <3>l
      <3>4. QED
            BY <1>1, <3>1, <3>2, <3>3
    <2>5. QED
          BY <2>1, <2>2, <2>3, <2>4 DEF EventInv
  <1>6. TableInv'
    <2>1. /\ WrittenIn(db, accepted, Done, failed) /\ WrittenIn(mine, accepted, Done, failed)
          /\ Below(db, nextId) /\ Below(mine, nextId)
          /\ db.execs \subseteq mine.execs /\ seen \subseteq db.execs
          BY DEF AInv, TableInv
    <2>2. Done \in Nat /\ Done <= Len(accepted)
          BY Counts
    <2>3. /\ WrittenIn(db, Append(accepted, e), Done, failed)
          /\ WrittenIn(mine, Append(accepted, e), Done, failed)
      <3>1. Below(db, e.id) /\ Below(mine, e.id)
            BY <1>1, <2>1
      <3>2. QED
            BY <1>a, <2>1, <2>2, <3>1, Grows
    <2>4. /\ WrittenIn(db', accepted', Done', failed')
          /\ WrittenIn(mine', accepted', Done', failed')
          BY <1>1, <1>c, <2>3 DEF tables
    <2>5. \A t : Below(t, nextId) /\ t \in Tables => Below(t, nextId + 1)
      <3> SUFFICES ASSUME NEW t \in Tables, Below(t, nextId)
                   PROVE  Below(t, nextId + 1)
          OBVIOUS
      <3>1. \A x \in t.execs : x \in Nat
            BY AuditEnvironment DEF Tables, Ids
      <3>2. \A k \in DOMAIN t.rows : t.rows[k].of \in Nat
        <4>1. \A k \in DOMAIN t.rows : t.rows[k] \in Rows
              BY DEF Tables
        <4>2. QED
              BY <4>1, AuditEnvironment DEF Rows, Ids
      <3>3. QED
            BY <1>a, <3>1, <3>2 DEF Below
    <2>6. Below(db', nextId') /\ Below(mine', nextId')
          BY <1>1, <2>1, <2>5 DEF tables, AInv, Types
    <2>7. QED
          BY <1>1, <2>1, <2>4, <2>6 DEF TableInv, tables
  <1>7. QED
        BY <1>2, <1>3, <1>4, <1>5, <1>6 DEF AInv

\* The writer gets the next event from the queue.
LEMMA TakeStep ==
  ASSUME AInv, Take
  PROVE  AInv'
  <1>1. /\ writer.pc = "idle" /\ queue # <<>> /\ Head(queue) # Stop /\ queue' = Tail(queue)
        /\ writer' = [pc |-> "writing", item |-> Head(queue)]
        /\ UNCHANGED <<tables, unfinished, flusher, stopper, input, failed, seen>>
        BY DEF Take, FirstOut
  <1>a. /\ queue \in Seq(Events \cup {Stop}) /\ Len(queue) \in Nat \ {0}
        /\ accepted \in Seq(Events) /\ Len(accepted) \in Nat
        /\ Head(queue) = queue[1]
        BY <1>1 DEF AInv, Types
  <1>b. Queued >= 1
        BY <1>1, HeadOfQueue
  <1>q. /\ Len(queue') = Len(queue) - 1
        /\ \A i \in 1 .. Len(queue') : queue'[i] = queue[i + 1]
        /\ queue' \in Seq(Events \cup {Stop}) /\ Len(queue') \in Nat
    <2>1. queue' = Tail(queue)
          BY <1>1
    <2>2. QED
          BY <1>a, <2>1
  <1>s. SentinelQueued' = SentinelQueued
    <2>1. CASE Len(queue) = 1
      <3>1. ~SentinelQueued
            BY <1>b, <2>1, Counts
      <3>2. queue' = <<>>
            BY <1>q, <2>1
      <3>3. QED
            BY <3>1, <3>2 DEF SentinelQueued
    <2>2. CASE Len(queue) # 1
      <3>1. queue'[Len(queue')] = queue[Len(queue)]
            BY <1>a, <1>q, <2>2
      <3>2. queue' # <<>>
            BY <1>a, <1>q, <2>2
      <3>3. QED
            BY <1>1, <3>1, <3>2 DEF SentinelQueued
    <2>3. QED
          BY <2>1, <2>2
  <1>c. /\ AtHand = 0 /\ AtHand' = 1 /\ Queued' = Queued - 1 /\ Done' = Done
        /\ Len(accepted) = Done + Queued /\ Done \in Nat /\ Queued \in Nat
    <2>1. AtHand = 0 /\ AtHand' = 1
          BY <1>1 DEF AtHand
    <2>2. Queued' = Queued - 1
          BY <1>a, <1>q, <1>s DEF Queued
    <2>3. accepted' = accepted
          BY <1>1 DEF input
    <2>4. Done' = Len(accepted) - Queued' - AtHand'
          BY <2>3 DEF Done
    <2>5. QED
          BY <1>a, <2>1, <2>2, <2>4, Counts
  <1>i. Head(queue) = accepted[Done + 1] /\ accepted[Done + 1] \in Events
    <2>1. queue[1] = accepted[Done + AtHand + 1]
          BY <1>b, <1>c DEF AInv, QueueInv
    <2>2. Done + 1 \in 1 .. Len(accepted)
          BY <1>b, <1>c
    <2>3. QED
          BY <1>a, <1>c, <2>1, <2>2
  <1>2. Types'
        BY <1>1, <1>q, <1>i DEF AInv, Types, tables, input, WriterPcs
  <1>3. QueueInv'
    <2>1. ASSUME NEW i \in 1 .. Queued'
          PROVE  queue'[i] = accepted'[Done' + AtHand' + i]
      <3>1. i + 1 \in 1 .. Queued /\ i \in 1 .. Len(queue')
            BY <1>c, <1>q, Counts
      <3>2. queue[i + 1] = accepted[Done + AtHand + (i + 1)]
            BY <3>1 DEF AInv, QueueInv
      <3>3. Done + AtHand + (i + 1) = Done' + AtHand' + i
            BY <1>c
      <3>4. QED
            BY <1>1, <1>q, <3>1, <3>2, <3>3 DEF input
    <2>2. writer'.pc = "writing" /\ writer'.item = accepted'[Done' + 1]
          BY <1>1, <1>c, <1>i DEF input
    <2>3. unfinished' = Len(queue') + AtHand'
      <3>1. unfinished' = Len(queue) + AtHand
            BY <1>1 DEF AInv, QueueInv
      <3>2. QED
            BY <1>a, <1>c, <1>q, <3>1
    <2>4. QED
          BY <1>1, <1>c, <1>s, <2>1, <2>2, <2>3 DEF AInv, QueueInv
  <1>4. FlushInv'
        BY <1>1, <1>c DEF AInv, FlushInv, input
  <1>5. EventInv'
        BY <1>1 DEF AInv, EventInv, input
  <1>6. TableInv'
    <2>1. /\ WrittenIn(db', accepted', Done', failed')
          /\ WrittenIn(mine', accepted', Done', failed')
          BY <1>1, <1>c DEF AInv, TableInv, tables, input
    <2>2. QED
          BY <1>1, <2>1 DEF AInv, TableInv, tables, input
  <1>7. QED
        BY <1>2, <1>3, <1>4, <1>5, <1>6 DEF AInv

\* The writer gets the sentinel, and there is nothing behind it.
LEMMA TakeStopStep ==
  ASSUME AInv, TakeStop
  PROVE  AInv'
  <1>1. /\ writer.pc = "idle" /\ queue # <<>> /\ Head(queue) = Stop /\ queue' = Tail(queue)
        /\ writer' = [pc |-> "closing", item |-> Nothing]
        /\ unfinished' = unfinished - 1
        /\ flusher' = IF unfinished' = 0 /\ flusher.pc = "waiting"
                      THEN [flusher EXCEPT !.pc = "woken"] ELSE flusher
        /\ UNCHANGED <<tables, stopper, input, failed, seen>>
        BY DEF TakeStop, TaskDone, GoesTo, AfterStop
  <1>q. queue = <<Stop>> /\ SentinelQueued /\ Queued = 0 /\ queue' = <<>>
        BY <1>1, HeadOfQueue
  <1>c. /\ ~SentinelQueued' /\ AtHand = 0 /\ AtHand' = 0 /\ Queued' = 0
        /\ Done' = Done /\ Done = Len(accepted) /\ Len(accepted) \in Nat
    <2>1. ~SentinelQueued' /\ AtHand = 0 /\ AtHand' = 0 /\ Queued' = 0
          BY <1>1, <1>q DEF SentinelQueued, AtHand, Queued
    <2>2. Done' = Len(accepted) - 0 - 0
          BY <1>1, <2>1 DEF Done, input
    <2>3. QED
          BY <1>q, <2>1, <2>2, Counts
  <1>u. unfinished = 1 /\ unfinished' = 0
    <2>1. unfinished = Len(queue) + AtHand
          BY DEF AInv, QueueInv
    <2>2. Len(queue) = 1
          BY <1>q
    <2>3. QED
          BY <1>1, <1>c, <2>1, <2>2
  <1>2. Types'
        BY <1>1, <1>q, <1>u DEF AInv, Types, tables, input, WriterPcs
  <1>3. QueueInv'
    <2>1. stopper = "waiting"
          BY <1>1, <1>q DEF AInv, QueueInv
    <2>2. Len(queue') = 0
          BY <1>q
    <2>3. QED
          BY <1>1, <1>q, <1>c, <1>u, <2>1, <2>2 DEF QueueInv
  <1>4. FlushInv'
    <2>1. flusher'.upTo = flusher.upTo
          BY <1>1 DEF AInv, Types
    <2>2. QED
          BY <1>1, <1>c, <2>1 DEF AInv, Types, FlushInv, input
  <1>5. EventInv'
        BY <1>1 DEF AInv, EventInv, input
  <1>6. TableInv'
    <2>1. /\ WrittenIn(db', accepted', Done', failed')
          /\ WrittenIn(mine', accepted', Done', failed')
          BY <1>1, <1>c DEF AInv, TableInv, tables, input
    <2>2. QED
          BY <1>1, <2>1 DEF AInv, TableInv, tables, input
  <1>7. QED
        BY <1>2, <1>3, <1>4, <1>5, <1>6 DEF AInv

\* The writer is done with the event at hand, whatever became of it.
LEMMA ItemSteps ==
  ASSUME AInv, ItemDone, db' \in Tables, mine' \in Tables,
         failed' = failed \/ failed' = failed \cup {writer.item.id}
  PROVE  /\ Types' /\ QueueInv' /\ FlushInv' /\ EventInv'
         /\ Done' = Done + 1 /\ Done < Len(accepted) /\ writer.item = accepted[Done + 1]
  <1>1. /\ writer.pc = "writing" /\ writer' = [pc |-> "idle", item |-> Nothing]
        /\ unfinished' = unfinished - 1
        /\ flusher' = IF unfinished' = 0 /\ flusher.pc = "waiting"
                      THEN [flusher EXCEPT !.pc = "woken"] ELSE flusher
        /\ UNCHANGED <<queue, stopper, input, seen>>
        BY DEF ItemDone, TaskDone, GoesTo
  <1>a. Len(queue) \in Nat /\ Len(accepted) \in Nat /\ accepted \in Seq(Events)
        BY DEF AInv, Types
  <1>c. /\ SentinelQueued' = SentinelQueued /\ AtHand = 1 /\ AtHand' = 0 /\ Queued' = Queued
        /\ Done' = Done + 1 /\ Len(accepted) = Done + 1 + Queued /\ Done \in Nat
        /\ Queued \in Nat
    <2>1. SentinelQueued' = SentinelQueued /\ AtHand = 1 /\ AtHand' = 0 /\ Queued' = Queued
          BY <1>1 DEF SentinelQueued, AtHand, Queued
    <2>2. Done' = Len(accepted) - Queued - 0
          BY <1>1, <2>1 DEF Done, input
    <2>3. QED
          BY <1>a, <2>1, <2>2, Counts
  <1>i. /\ writer.item = accepted[Done + 1] /\ Done + 1 \in 1 .. Len(accepted)
        /\ writer.item.id \in Ids
    <2>1. writer.item = accepted[Done + 1]
          BY <1>1 DEF AInv, QueueInv
    <2>2. Done + 1 \in 1 .. Len(accepted)
          BY <1>c
    <2>3. QED
          BY <2>1, <2>2, EventFields DEF AInv, EventInv
  <1>u. unfinished' = Len(queue) /\ unfinished' \in Nat
    <2>1. unfinished = Len(queue) + AtHand
          BY DEF AInv, QueueInv
    <2>2. QED
          BY <1>a, <1>1, <1>c, <2>1
  <1>2. Types'
    <2>1. flusher' \in [pc : {"none", "waiting", "woken"}, upTo : Nat]
          BY <1>1 DEF AInv, Types
    <2>2. QED
          BY <1>1, <1>i, <1>u, <2>1 DEF AInv, Types, input, WriterPcs
  <1>3. QueueInv'
    <2>1. ASSUME NEW i \in 1 .. Queued'
          PROVE  queue'[i] = accepted'[Done' + AtHand' + i]
      <3>1. queue[i] = accepted[Done + AtHand + i]
            BY <1>c DEF AInv, QueueInv
      <3>2. Done + AtHand + i = Done' + AtHand' + i
            BY <1>c
      <3>3. QED
            BY <1>1, <3>1, <3>2 DEF input
    <2>2. QED
          BY <1>1, <1>a, <1>c, <1>u, <2>1 DEF AInv, QueueInv
  <1>4. FlushInv'
    <2>1. flusher'.upTo = flusher.upTo /\ flusher.upTo \in Nat
          BY <1>1 DEF AInv, Types
    <2>2. flusher'.pc = "woken" => flusher.pc = "woken" \/ unfinished' = 0
          BY <1>1 DEF AInv, Types
    <2>3. unfinished' = 0 => Done' = Len(accepted)
          BY <1>a, <1>c, <1>u, Counts
    <2>4. flusher.pc = "woken" => flusher.upTo <= Done
          BY DEF AInv, FlushInv
    <2>5. flusher.upTo <= Len(accepted)
          BY DEF AInv, FlushInv
    <2>6. QED
          BY <1>1, <1>c, <2>1, <2>2, <2>3, <2>4, <2>5 DEF FlushInv, input
  <1>5. EventInv'
        BY <1>1 DEF AInv, EventInv, input
  <1>6. QED
        BY <1>2, <1>3, <1>4, <1>5, <1>c, <1>i

\* The event at hand is written.
LEMMA WriteStep ==
  ASSUME AInv, Write
  PROVE  AInv'
  <1>1. /\ ItemDone /\ mine' = Apply(writer.item, mine) /\ db' = mine'
        /\ failed' = failed
        BY DEF Write
  <1>2. writer.pc = "writing" /\ UNCHANGED <<input, seen>>
        BY <1>1 DEF ItemDone
  <1>3. writer.item = accepted[Done + 1] /\ Done \in Nat /\ Done < Len(accepted)
    <2>1. AtHand = 1
          BY <1>2 DEF AtHand
    <2>2. QED
          BY <1>2, <2>1, Counts DEF AInv, QueueInv
  <1>4. /\ WrittenIn(mine', accepted, Done + 1, failed)
        /\ mine.execs \subseteq mine'.execs
        /\ \A n \in Nat : Below(mine, n) /\ accepted[Done + 1].id < n => Below(mine', n)
        BY <1>1, <1>3, Writes DEF AInv, EventInv, TableInv
  <1>5. db' \in Tables /\ mine' \in Tables
        BY <1>1, <1>4 DEF WrittenIn
  <1>6. /\ Types' /\ QueueInv' /\ FlushInv' /\ EventInv' /\ Done' = Done + 1
        BY <1>1, <1>5, ItemSteps
  <1>7. Below(mine', nextId)
    <2>1. Done + 1 \in 1 .. Len(accepted)
          BY <1>3, Counts
    <2>2. nextId \in Nat /\ accepted[Done + 1].id < nextId /\ Below(mine, nextId)
          BY <2>1 DEF AInv, Types, EventInv, TableInv
    <2>3. QED
          BY <1>4, <2>2
  <1>8. WrittenIn(mine', accepted', Done', failed')
        BY <1>1, <1>2, <1>4, <1>6 DEF input
  <1>9. TableInv'
        BY <1>1, <1>2, <1>4, <1>7, <1>8 DEF AInv, TableInv, input
  <1>10. QED
        BY <1>6, <1>9 DEF AInv

\* The write of the event at hand fails, and it may leave its transaction open.
LEMMA FailStep ==
  ASSUME AInv, ExecuteFails \/ CommitFails
  PROVE  AInv'
  <1>1. /\ ItemDone /\ db' = db /\ failed' = failed \cup {writer.item.id}
        /\ mine' = mine \/ mine' = db \/ mine' = Apply(writer.item, mine)
        BY DEF ExecuteFails, CommitFails, Raised
  <1>2. writer.pc = "writing" /\ UNCHANGED <<input, seen>>
        BY <1>1 DEF ItemDone
  <1>3. writer.item = accepted[Done + 1] /\ Done \in Nat /\ Done < Len(accepted)
    <2>1. AtHand = 1
          BY <1>2 DEF AtHand
    <2>2. QED
          BY <1>2, <2>1, Counts DEF AInv, QueueInv
  <1> DEFINE g == failed \cup {writer.item.id}
  <1>t. /\ OneProcess(accepted)
        /\ WrittenIn(db, accepted, Done, failed) /\ WrittenIn(mine, accepted, Done, failed)
        /\ Below(db, nextId) /\ Below(mine, nextId)
        /\ db.execs \subseteq mine.execs /\ seen \subseteq db.execs
        BY DEF AInv, EventInv, TableInv
  <1>4. WrittenIn(db, accepted, Done + 1, g) /\ WrittenIn(mine, accepted, Done + 1, g)
        BY <1>3, <1>t, PassesOver
  <1>5. /\ WrittenIn(Apply(writer.item, mine), accepted, Done + 1, failed)
        /\ mine.execs \subseteq Apply(writer.item, mine).execs
        /\ \A n \in Nat : Below(mine, n) /\ accepted[Done + 1].id < n
              => Below(Apply(writer.item, mine), n)
        BY <1>3, <1>t, Writes
  <1>6. WrittenIn(Apply(writer.item, mine), accepted, Done + 1, g)
        BY <1>5, MoreFailures
  <1>7. Below(Apply(writer.item, mine), nextId)
    <2>1. Done + 1 \in 1 .. Len(accepted)
          BY <1>3, Counts
    <2>2. nextId \in Nat /\ accepted[Done + 1].id < nextId
          BY <2>1 DEF AInv, Types, EventInv
    <2>3. QED
          BY <1>t, <1>5, <2>2
  <1>8. /\ WrittenIn(db', accepted, Done + 1, g) /\ WrittenIn(mine', accepted, Done + 1, g)
        /\ Below(mine', nextId) /\ db.execs \subseteq mine'.execs
        BY <1>1, <1>t, <1>4, <1>5, <1>6, <1>7
  <1>9. db' \in Tables /\ mine' \in Tables
        BY <1>8 DEF WrittenIn
  <1>10. /\ Types' /\ QueueInv' /\ FlushInv' /\ EventInv' /\ Done' = Done + 1
        BY <1>1, <1>9, ItemSteps
  <1>11. WrittenIn(db', accepted', Done', failed') /\ WrittenIn(mine', accepted', Done', failed')
        BY <1>1, <1>2, <1>8, <1>10 DEF input
  <1>12. TableInv'
        BY <1>1, <1>2, <1>t, <1>8, <1>11 DEF TableInv, input
  <1>13. QED
        BY <1>10, <1>12 DEF AInv

\* The writer's connection is made, or cannot be.
LEMMA OpenStep ==
  ASSUME AInv, Open \/ OpenFails
  PROVE  AInv'
  <1>1. /\ writer.pc = "opening"
        /\ \/ writer'.pc = "idle" /\ failed' = failed
           \/ writer'.pc = "ended" /\ failed' = failed \cup {0}
        /\ writer' = [pc |-> writer'.pc, item |-> Nothing]
        /\ UNCHANGED <<tables, queueVars, stopper, input, seen>>
        BY DEF Open, OpenFails, GoesTo
  <1>c. /\ SentinelQueued' = SentinelQueued /\ Queued' = Queued /\ AtHand = 0 /\ AtHand' = 0
        /\ Done' = Done
        BY <1>1 DEF SentinelQueued, Queued, AtHand, Done, queueVars, input
  <1>2. Types'
        BY <1>1 DEF AInv, Types, WriterPcs, tables, queueVars, input
  <1>3. QueueInv'
    <2>1. \A i \in 1 .. Queued : queue[i] = accepted[Done + AtHand + i]
          BY DEF AInv, QueueInv
    <2>2. writer'.pc = "ended" => 0 \in failed'
          BY <1>1
    <2>3. stopper # "returned"
          BY <1>1 DEF AInv, QueueInv
    <2>4. QED
          BY <1>1, <1>c, <2>1, <2>2, <2>3 DEF AInv, QueueInv, queueVars, input
  <1>4. FlushInv' /\ EventInv'
        BY <1>1, <1>c DEF AInv, FlushInv, EventInv, queueVars, input
  <1>5. TableInv'
    <2>1. failed \subseteq failed'
          BY <1>1
    <2>2. WrittenIn(db, accepted, Done, failed') /\ WrittenIn(mine, accepted, Done, failed')
          BY <2>1, MoreFailures DEF AInv, TableInv
    <2>3. /\ WrittenIn(db', accepted', Done', failed')
          /\ WrittenIn(mine', accepted', Done', failed')
          BY <1>1, <1>c, <2>2 DEF tables, input
    <2>4. QED
          BY <1>1, <2>3 DEF AInv, TableInv, tables, input
  <1>6. QED
        BY <1>2, <1>3, <1>4, <1>5 DEF AInv

\* An open transaction is rolled back.
LEMMA CloseStep ==
  ASSUME AInv, CloseConnection
  PROVE  AInv'
  <1>1. /\ writer.pc = "closing" /\ mine' = db
        /\ writer' = [pc |-> "ended", item |-> Nothing]
        /\ UNCHANGED <<db, queueVars, stopper, input, failed, seen>>
        BY DEF CloseConnection, GoesTo
  <1>c. /\ SentinelQueued' = SentinelQueued /\ Queued' = Queued /\ AtHand = 0 /\ AtHand' = 0
        /\ Done' = Done
        BY <1>1 DEF SentinelQueued, Queued, AtHand, Done, queueVars, input
  <1>2. Types'
        BY <1>1 DEF AInv, Types, WriterPcs, queueVars, input
  <1>3. QueueInv'
    <2>1. \A i \in 1 .. Queued : queue[i] = accepted[Done + AtHand + i]
          BY DEF AInv, QueueInv
    <2>2. queue = <<>> /\ stopper = "waiting"
          BY <1>1 DEF AInv, QueueInv
    <2>3. QED
          BY <1>1, <1>c, <2>1, <2>2 DEF AInv, QueueInv, queueVars, input
  <1>4. FlushInv' /\ EventInv'
        BY <1>1, <1>c DEF AInv, FlushInv, EventInv, queueVars, input
  <1>5. TableInv'
    <2>1. /\ WrittenIn(db', accepted', Done', failed')
          /\ WrittenIn(mine', accepted', Done', failed')
          BY <1>1, <1>c DEF AInv, TableInv, input
    <2>2. QED
          BY <1>1, <2>1 DEF AInv, TableInv, input
  <1>6. QED
        BY <1>2, <1>3, <1>4, <1>5 DEF AInv

\* stop() is called: the sentinel is enqueued.
LEMMA StopBeginsStep ==
  ASSUME AInv, StopBegins
  PROVE  AInv'
  <1>1. /\ writer.pc # "none" /\ stopper = "none" /\ stopper' = "waiting"
        /\ queue' = Append(queue, Stop) /\ unfinished' = unfinished + 1
        /\ UNCHANGED <<tables, writer, flusher, input, failed, seen>>
        BY DEF StopBegins, Running, WithStop
  <1>a. queue \in Seq(Events \cup {Stop}) /\ Len(queue) \in Nat /\ ~SentinelQueued
        BY <1>1 DEF AInv, Types, QueueInv
  <1>q. /\ Len(queue') = Len(queue) + 1 /\ queue'[Len(queue) + 1] = Stop
        /\ \A i \in 1 .. Len(queue) : queue'[i] = queue[i]
        /\ queue' # <<>> /\ queue' \in Seq(Events \cup {Stop})
    <2>1. Stop \in Events \cup {Stop} /\ queue' = Append(queue, Stop)
          BY <1>1
    <2>2. QED
          BY <1>a, <2>1
  <1>c. /\ SentinelQueued' /\ Queued' = Queued /\ Queued = Len(queue) /\ AtHand' = AtHand
        /\ Done' = Done
    <2>1. SentinelQueued'
          BY <1>q DEF SentinelQueued
    <2>2. Queued' = Queued /\ Queued = Len(queue)
          BY <1>a, <1>q, <2>1 DEF Queued
    <2>3. QED
          BY <1>1, <2>1, <2>2 DEF AtHand, Done, input
  <1>2. Types'
        BY <1>1, <1>q DEF AInv, Types, tables, input
  <1>3. QueueInv'
    <2>1. \A i \in 1 .. Queued' : queue'[i] = accepted'[Done' + AtHand' + i]
          BY <1>1, <1>c, <1>q DEF AInv, QueueInv, input
    <2>2. unfinished' = Len(queue') + AtHand'
      <3>1. unfinished = Len(queue) + AtHand
            BY DEF AInv, QueueInv
      <3>2. QED
            BY <1>1, <1>a, <1>c, <1>q, <3>1, Counts
    <2>3. writer.pc # "closing" /\ (writer.pc = "ended" => 0 \in failed)
          BY <1>1 DEF AInv, QueueInv
    <2>4. writer.pc = "writing" => writer.item = accepted[Done + 1]
          BY DEF AInv, QueueInv
    <2>5. QED
          BY <1>1, <1>c, <2>1, <2>2, <2>3, <2>4, Counts DEF QueueInv, input
  <1>4. FlushInv' /\ EventInv'
        BY <1>1, <1>c DEF AInv, FlushInv, EventInv, input
  <1>5. TableInv'
    <2>1. /\ WrittenIn(db', accepted', Done', failed')
          /\ WrittenIn(mine', accepted', Done', failed')
          BY <1>1, <1>c DEF AInv, TableInv, tables, input
    <2>2. QED
          BY <1>1, <2>1 DEF AInv, TableInv, tables, input
  <1>6. QED
        BY <1>2, <1>3, <1>4, <1>5 DEF AInv

\* The calls of flush() and of the readers, and the return of stop().
LEMMA CallStep ==
  ASSUME AInv, Read \/ StopReturns \/ FlushBegins \/ FlushReturns
  PROVE  AInv'
  <1>1. /\ UNCHANGED <<tables, queue, unfinished, writer, input, failed>>
        /\ seen' = seen \/ seen' = db.execs
        /\ \/ stopper' = stopper
           \/ stopper = "waiting" /\ writer.pc = "ended" /\ stopper' = "returned"
        /\ \/ flusher' = flusher
           \/ flusher' = [pc |-> "none", upTo |-> 0]
           \/ flusher' = [pc |-> IF unfinished = 0 THEN "woken" ELSE "waiting",
                          upTo |-> Len(accepted)]
        BY DEF Read, ReadsCommitted, StopReturns, FlushBegins, FlushReturns, NoFlush, queueVars
  <1>a. Len(accepted) \in Nat /\ Len(queue) \in Nat
        BY Counts
  <1>c. /\ SentinelQueued' = SentinelQueued /\ Queued' = Queued /\ AtHand' = AtHand
        /\ Done' = Done
        BY <1>1 DEF SentinelQueued, Queued, AtHand, Done, input
  <1>2. Types'
    <2>1. flusher' \in [pc : {"none", "waiting", "woken"}, upTo : Nat]
          BY <1>1, <1>a DEF AInv, Types
    <2>2. QED
          BY <1>1, <2>1 DEF AInv, Types, tables, input
  <1>3. QueueInv'
    <2>1. \A i \in 1 .. Queued : queue[i] = accepted[Done + AtHand + i]
          BY DEF AInv, QueueInv
    <2>2. SentinelQueued => stopper' # "none"
          BY <1>1 DEF AInv, QueueInv
    <2>3. QED
          BY <1>1, <1>c, <2>1, <2>2 DEF AInv, QueueInv, input
  <1>4. FlushInv'
    <2>1. unfinished = 0 => Done = Len(accepted)
      <3>1. unfinished = Len(queue) + AtHand
            BY DEF AInv, QueueInv
      <3>2. QED
            BY <1>a, <3>1, Counts
    <2>2. Len(accepted) <= Len(accepted) /\ 0 <= Done
          BY <1>a, Counts
    <2>3. QED
          BY <1>1, <1>a, <1>c, <2>1, <2>2 DEF AInv, FlushInv, input
  <1>5. EventInv'
        BY <1>1 DEF AInv, EventInv, input
  <1>6. TableInv'
    <2>1. /\ WrittenIn(db', accepted', Done', failed')
          /\ WrittenIn(mine', accepted', Done', failed')
          BY <1>1, <1>c DEF AInv, TableInv, tables, input
    <2>2. QED
          BY <1>1, <2>1 DEF AInv, TableInv, tables, input
  <1>7. QED
        BY <1>2, <1>3, <1>4, <1>5, <1>6 DEF AInv

\* The process ends: only what is committed is left.
LEMMA ProcessEndsStep ==
  ASSUME AInv, ProcessEnds
  PROVE  AInv'
  <1>1. /\ writer' = [pc |-> "none", item |-> Nothing] /\ mine' = db /\ queue' = <<>>
        /\ unfinished' = 0 /\ stopper' = "none" /\ flusher' = [pc |-> "none", upTo |-> 0]
        /\ live' = [s \in AuditSids |-> 0] /\ accepted' = <<>> /\ failed' = failed \ {0}
        /\ UNCHANGED <<db, nextId, seen>>
        BY DEF ProcessEnds, GoesTo, NoFlush
  <1>c. ~SentinelQueued' /\ Queued' = 0 /\ AtHand' = 0 /\ Done' = 0
    <2>1. ~SentinelQueued' /\ Queued' = 0 /\ AtHand' = 0
          BY <1>1 DEF SentinelQueued, Queued, AtHand
    <2>2. QED
          BY <1>1, <2>1 DEF Done
  <1>2. Types'
    <2>1. live' \in [AuditSids -> Ids \cup {0}]
          BY <1>1
    <2>2. QED
          BY <1>1, <2>1 DEF AInv, Types, WriterPcs
  <1>3. QueueInv' /\ FlushInv'
        BY <1>1, <1>c DEF QueueInv, FlushInv
  <1>4. EventInv'
    <2>1. OneProcess(<<>>)
          BY DEF OneProcess
    <2>2. nextId \in Nat \ {0} /\ nextId <= MaxItems + 1
          BY DEF AInv, Types, EventInv
    <2>3. QED
          BY <1>1, <2>1, <2>2 DEF EventInv
  <1>5. TableInv'
    <2>1. WrittenIn(db, <<>>, 0, failed \ {0})
          BY Forgets DEF AInv, TableInv
    <2>2. WrittenIn(db', accepted', Done', failed') /\ WrittenIn(mine', accepted', Done', failed')
          BY <1>1, <1>c, <2>1
    <2>3. QED
          BY <1>1, <2>2 DEF AInv, TableInv
  <1>6. QED
        BY <1>2, <1>3, <1>4, <1>5 DEF AInv

\* The process starts.
LEMMA StartStep ==
  ASSUME AInv, Start
  PROVE  AInv'
  <1>1. /\ writer.pc = "none" /\ writer' = [pc |-> "opening", item |-> Nothing]
        /\ UNCHANGED <<tables, queueVars, stopper, input, failed, seen>>
        BY DEF Start, Running, GoesTo
  <1>c. /\ SentinelQueued' = SentinelQueued /\ Queued' = Queued /\ AtHand = 0 /\ AtHand' = 0
        /\ Done' = Done
        BY <1>1 DEF SentinelQueued, Queued, AtHand, Done, queueVars, input
  <1>2. Types'
        BY <1>1 DEF AInv, Types, WriterPcs, tables, queueVars, input
  <1>3. QueueInv'
    <2>1. \A i \in 1 .. Queued : queue[i] = accepted[Done + AtHand + i]
          BY DEF AInv, QueueInv
    <2>2. queue = <<>> /\ stopper = "none"
          BY <1>1 DEF AInv, QueueInv
    <2>3. QED
          BY <1>1, <1>c, <2>1, <2>2 DEF AInv, QueueInv, queueVars, input
  <1>4. FlushInv' /\ EventInv'
        BY <1>1, <1>c DEF AInv, FlushInv, EventInv, queueVars, input
  <1>5. TableInv'
    <2>1. /\ WrittenIn(db', accepted', Done', failed')
          /\ WrittenIn(mine', accepted', Done', failed')
          BY <1>1, <1>c DEF AInv, TableInv, tables, input
    <2>2. QED
          BY <1>1, <2>1 DEF AInv, TableInv, tables, input
  <1>6. QED
        BY <1>2, <1>3, <1>4, <1>5 DEF AInv

-----------------------------------------------------------------------------
(***************************************************************************)
(* The theorems.                                                           *)
(***************************************************************************)

\* Every step keeps the invariant.
LEMMA AInvNext == AInv /\ [Next]_vars => AInv'
  <1> SUFFICES ASSUME AInv, [Next]_vars
               PROVE  AInv'
      OBVIOUS
  <1>1. CASE \E s \in AuditSids : SessionCreated(s) \/ Exec(s) \/ SessionDestroyed(s)
        BY <1>1, EnqueueStep
  <1>2. CASE Open \/ OpenFails
        BY <1>2, OpenStep
  <1>3. CASE Take
        BY <1>3, TakeStep
  <1>4. CASE TakeStop
        BY <1>4, TakeStopStep
  <1>5. CASE Write
        BY <1>5, WriteStep
  <1>6. CASE ExecuteFails \/ CommitFails
        BY <1>6, FailStep
  <1>7. CASE CloseConnection
        BY <1>7, CloseStep
  <1>8. CASE StopBegins
        BY <1>8, StopBeginsStep
  <1>9. CASE Read \/ StopReturns \/ FlushBegins \/ FlushReturns
        BY <1>9, CallStep
  <1>10. CASE Exit \/ Crash
        BY <1>10, ProcessEndsStep DEF Exit, Crash
  <1>11. CASE Start
        BY <1>11, StartStep
  <1>12. CASE UNCHANGED vars
    <2>1. UNCHANGED <<tables, queueVars, writer, stopper, input, failed, seen>>
          BY <1>12 DEF vars
    <2>2. Done' = Done /\ QueueInv'
      <3>1. /\ SentinelQueued' = SentinelQueued /\ Queued' = Queued /\ AtHand' = AtHand
            /\ Done' = Done
            BY <2>1, SameCounts DEF queueVars, input
      <3>2. QED
            BY <2>1, <3>1 DEF AInv, QueueInv, queueVars, input
    <2>3. /\ WrittenIn(db', accepted', Done', failed')
          /\ WrittenIn(mine', accepted', Done', failed')
          BY <2>1, <2>2 DEF AInv, TableInv, tables, input
    <2>4. TableInv'
          BY <2>1, <2>3 DEF AInv, TableInv, tables, input
    <2>5. Types' /\ FlushInv' /\ EventInv'
          BY <2>1, <2>2 DEF AInv, Types, FlushInv, EventInv, tables, queueVars, input
    <2>6. QED
          BY <2>2, <2>4, <2>5 DEF AInv
  <1>13. QED
        BY <1>1, <1>2, <1>3, <1>4, <1>5, <1>6, <1>7, <1>8, <1>9, <1>10, <1>11, <1>12
           DEF Next, WriterStep, CallerStep

\* Events are taken and done in the order in which they were enqueued, and the
\* tables hold those that are done and no other, except for the ones that have
\* failed (audit.py:182-198).
THEOREM AuditInvariance == Spec => []AInv
  <1>1. Init => AInv
        BY AInvInit DEF Init
  <1>2. QED
        BY <1>1, AInvNext, PTL DEF Spec

\* Tables, queue, events and callers keep their types (audit.py:96-289).
THEOREM AuditTypeCorrect == Spec => []TypeOK
  <1>1. AInv => TypeOK
    <2> SUFFICES ASSUME AInv
                 PROVE  TypeOK
        OBVIOUS
    <2>1. TablesOK(db) /\ TablesOK(mine)
          BY DEF AInv, Types, Tables, TablesOK
    <2>2. flusher \in [pc : {"none", "waiting", "woken"}, upTo : 0 .. MaxItems]
      <3>1. /\ flusher \in [pc : {"none", "waiting", "woken"}, upTo : Nat]
            /\ flusher.upTo <= Len(accepted) /\ Len(accepted) < nextId /\ nextId <= MaxItems + 1
            /\ nextId \in Nat
            BY DEF AInv, Types, FlushInv, EventInv
      <3>2. flusher.upTo \in 0 .. MaxItems
            BY <3>1, Counts, AuditEnvironment
      <3>3. QED
            BY <3>1, <3>2
    <2>3. seen \subseteq Ids
          BY DEF AInv, Types, TableInv, Tables
    <2>4. writer.pc \in WriterPcs /\ writer.item \in Events \cup {Nothing}
          BY DEF AInv, Types
    <2>5. QED
          BY <2>1, <2>2, <2>3, <2>4 DEF AInv, Types, TypeOK, WriterPcs
  <1>2. QED
        BY <1>1, AuditInvariance, PTL

\* The properties and this module speak of the same.
LEMMA SameWords ==
  ASSUME NEW e \in Events
  PROVE  /\ Recorded(e) <=> RecordedIn(e, db)
         /\ Excused(e) <=> ExcusedBy(e, failed)
  <1>1. e.kind \in Kinds
        BY DEF Events
  <1>2. Excused(e) <=> ExcusedBy(e, failed)
        BY DEF Excused, ExcusedBy
  <1>3. Recorded(e) <=> RecordedIn(e, db)
        BY <1>1 DEF Recorded, RecordedIn, RowOf, ClosedRowOf, Kinds
  <1>4. QED
        BY <1>2, <1>3

\* What is done is on disk, or has failed.
LEMMA DoneIsRecorded ==
  ASSUME AInv, NEW i \in 1 .. Done
  PROVE  Recorded(accepted[i]) \/ Excused(accepted[i])
  <1>1. RecordedIn(accepted[i], db) \/ ExcusedBy(accepted[i], failed)
        BY DEF AInv, TableInv, WrittenIn, Present
  <1>2. accepted[i] \in Events
    <2>1. i \in 1 .. Len(accepted)
          BY Counts
    <2>2. QED
          BY <2>1 DEF AInv, Types
  <1>3. QED
        BY <1>1, <1>2, SameWords

\* What is not done is not on disk.
LEMMA RecordedIsDone ==
  ASSUME AInv, NEW j \in 1 .. Len(accepted), Recorded(accepted[j])
  PROVE  j <= Done
  <1> SUFFICES ASSUME Done < j
               PROVE  FALSE
      BY Counts
  <1>a. /\ OneProcess(accepted) /\ Done \in Nat /\ Len(accepted) \in Nat /\ Done <= Len(accepted)
        /\ db \in Tables /\ NoExecAhead(db, accepted, Done) /\ RowsKnown(db, accepted, Done)
        /\ OpenStays(db, accepted, Done)
        BY Counts DEF AInv, EventInv, TableInv, WrittenIn
  <1>e. /\ accepted[j] \in Events /\ accepted[j].id \in Nat \ {0} /\ accepted[j].of \in Nat \ {0}
        /\ DOMAIN accepted = 1 .. Len(accepted)
        BY <1>a, EventFields DEF OneProcess
  <1>1. RecordedIn(accepted[j], db)
        BY <1>e, SameWords
  <1>2. CASE accepted[j].kind = "exec"
    <2>1. accepted[j].id \in db.execs
          BY <1>1, <1>2 DEF RecordedIn
    <2>2. j \in (Done + 1) .. Len(accepted)
          BY <1>a
    <2>3. QED
          BY <1>a, <1>e, <2>1, <2>2 DEF NoExecAhead
  <1>3. CASE accepted[j].kind = "session_created"
    <2>1. PICK k \in DOMAIN db.rows : db.rows[k].of = accepted[j].id
          BY <1>1, <1>3 DEF RecordedIn, RowOf
    <2>2. db.rows[k].of >= accepted[j].id
          BY <1>e, <2>1
    <2>3. \E m \in j .. Done : Opens(accepted, m, db.rows[k].sid, db.rows[k].of)
          BY <1>a, <2>2, RowIsOf
    <2>4. QED
          BY <1>a, <2>3
  <1>4. CASE accepted[j].kind = "session_destroyed"
    <2>1. PICK k \in DOMAIN db.rows :
             db.rows[k].of = accepted[j].of /\ db.rows[k].closed = accepted[j].of
          BY <1>1, <1>4 DEF RecordedIn, ClosedRowOf
    <2>2. PICK i \in 1 .. (j - 1) : /\ Opens(accepted, i, accepted[j].sid, accepted[j].of)
                                    /\ Calm(accepted, i, j, accepted[j].sid)
          BY <1>a, <1>e, <1>4 DEF OneProcess
    <2>3. /\ i \in 1 .. Len(accepted) /\ db.rows[k].of = accepted[i].id
          /\ db.rows[k].of >= accepted[i].id
          BY <1>e, <2>1, <2>2 DEF Opens
    <2>4. PICK m \in i .. Done : db.rows[k].of = accepted[i].id => m = i
          BY <1>a, <2>3, RowIsOf
    <2>5. i \in 1 .. Done
          BY <2>2, <2>3, <2>4
    <2>6. Calm(accepted, i, Done + 1, accepted[i].sid)
      <3>1. accepted[i].sid = accepted[j].sid
            BY <2>2 DEF Opens
      <3>2. \A n \in (i + 1) .. ((Done + 1) - 1) : n \in (i + 1) .. (j - 1)
            BY <1>a, <2>5
      <3>3. QED
            BY <2>2, <3>1, <3>2 DEF Calm
    <2>7. accepted[i].kind = "session_created"
          BY <2>2 DEF Opens
    <2>8. db.rows[k].closed = 0
          BY <1>a, <2>3, <2>5, <2>6, <2>7 DEF OpenStays
    <2>9. QED
          BY <1>e, <2>1, <2>8
  <1>5. QED
        BY <1>1, <1>2, <1>3, <1>4 DEF RecordedIn

\* What is on disk has everything before it done.
LEMMA InvLosesSuffix == AInv => CrashLosesSuffix
  <1> SUFFICES ASSUME AInv, NEW i \in DOMAIN accepted, NEW j \in DOMAIN accepted,
                      i < j, Recorded(accepted[j])
               PROVE  Recorded(accepted[i]) \/ Excused(accepted[i])
      BY DEF CrashLosesSuffix
  <1>1. DOMAIN accepted = 1 .. Len(accepted)
        BY DEF AInv, Types
  <1>2. j <= Done
        BY <1>1, RecordedIsDone
  <1>3. i \in 1 .. Done
        BY <1>1, <1>2, Counts
  <1>4. QED
        BY <1>3, DoneIsRecorded

\* "crash may lose the last few rows" (audit.py:8), and no others: of the events
\* before one that is on disk, only those are missing whose write has failed.
THEOREM AuditLosesSuffixOnly == Spec => []CrashLosesSuffix
  BY InvLosesSuffix, AuditInvariance, PTL

\* Once stop() has returned, nothing is in the queue.
LEMMA InvDrains == AInv => StopDrains
  <1> SUFFICES ASSUME AInv, stopper = "returned", 0 \notin failed, NEW i \in DOMAIN accepted
               PROVE  Recorded(accepted[i]) \/ Excused(accepted[i])
      BY DEF StopDrains
  <1>1. writer.pc = "ended" /\ queue = <<>>
        BY DEF AInv, QueueInv
  <1>2. AtHand = 0 /\ Queued = 0
        BY <1>1 DEF AtHand, Queued, SentinelQueued
  <1>3. Done = Len(accepted)
        BY <1>2, Counts
  <1>4. i \in 1 .. Done
        BY <1>3 DEF AInv, Types
  <1>5. QED
        BY <1>4, DoneIsRecorded

\* When stop() has returned (audit.py:105-116), every event that was enqueued is on
\* disk or has failed, unless the database could not be opened.
THEOREM AuditStopDrains == Spec => []StopDrains
  BY InvDrains, AuditInvariance, PTL

\* Who flushes is woken when its events are done.
LEMMA InvIsBarrier == AInv => FlushIsBarrier
  <1> SUFFICES ASSUME AInv, flusher.pc = "woken", NEW i \in 1 .. flusher.upTo
               PROVE  Recorded(accepted[i]) \/ Excused(accepted[i])
      BY DEF FlushIsBarrier
  <1>1. i \in 1 .. Done
        BY Counts DEF AInv, Types, FlushInv
  <1>2. QED
        BY <1>1, DoneIsRecorded

\* When flush() returns (audit.py:118-122), what had been enqueued when it was called
\* is on disk or has failed.
THEOREM AuditFlushIsBarrier == Spec => []FlushIsBarrier
  BY InvIsBarrier, AuditInvariance, PTL

\* Rows are closed by their own sessions.
LEMMA InvClosesItsOwn == AInv => ClosedByItsOwnSession
  BY DEF AInv, TableInv, WrittenIn, OwnClose, ClosedByItsOwnSession

\* The UPDATE of audit.py:249-254 goes by the session id, and closes the row of the
\* session that has ended.
THEOREM AuditClosesItsOwn == Spec => []ClosedByItsOwnSession
  BY InvClosesItsOwn, AuditInvariance, PTL

\* No GET shows less than an earlier one: what is read is committed, and nothing that
\* is committed is ever taken back.
THEOREM AuditReadsNeverShrink == Spec => ReadsNeverShrink
  <1>1. AInv /\ [Next]_vars => [seen \subseteq seen']_seen
    <2> SUFFICES ASSUME AInv, Next, seen' # seen
                 PROVE  seen \subseteq seen'
        BY DEF vars
    <2>1. seen' = db.execs
      <3>1. CASE Read
            BY <3>1 DEF Read, ReadsCommitted
      <3>2. ASSUME NEW s \in AuditSids, SessionCreated(s) \/ Exec(s) \/ SessionDestroyed(s)
            PROVE  FALSE
            BY <3>2 DEF SessionCreated, Exec, SessionDestroyed, Enqueue, Put
      <3>3. CASE WriterStep
            BY <3>3 DEF WriterStep, Open, OpenFails, Take, TakeStop, Write, ExecuteFails,
                        CommitFails, Raised, ItemDone, CloseConnection
      <3>4. CASE StopBegins \/ FlushBegins \/ CallerStep
            BY <3>4 DEF StopBegins, FlushBegins, CallerStep, StopReturns, FlushReturns
      <3>5. CASE Exit \/ Crash \/ Start
            BY <3>5 DEF Exit, Crash, Start, ProcessEnds
      <3>6. QED
            BY <3>1, <3>2, <3>3, <3>4, <3>5 DEF Next
    <2>2. QED
          BY <2>1 DEF AInv, TableInv
  <1>2. QED
        BY <1>1, AuditInvariance, PTL DEF Spec, ReadsNeverShrink

-----------------------------------------------------------------------------
(***************************************************************************)
(* What the tables will be.                                                *)
(***************************************************************************)
\* The greatest of 1 .. m is m, and it is what makes a set of those numbers more
\* than one of 1 .. m-1.
LEMMA MaxOfLast ==
  ASSUME NEW m \in Nat, NEW t \in SUBSET (1 .. (m + 1)), m + 1 \in t
  PROVE  Max(t) = m + 1 /\ t \ {m + 1} \in SUBSET (1 .. m)
  <1>1. \A y \in t : y \in Nat /\ m + 1 >= y
        OBVIOUS
  <1>2. Max(t) \in t /\ \A y \in t : Max(t) >= y
        BY <1>1 DEF Max
  <1>a. \A x \in t : x >= m + 1 => x = m + 1
        BY <1>1
  <1>3. Max(t) = m + 1
        BY <1>a, <1>2
  <1>4. \A y \in t \ {m + 1} : y \in 1 .. m
        OBVIOUS
  <1>5. QED
        BY <1>3, <1>4

\* What a fold goes through: for each set of positions, what comes of the
\* elements there.
Partial(g, n, b, H) ==
    g = [t \in SUBSET (1 .. n) |-> IF t = {} THEN b ELSE H[t][g[t \ {Max(t)}]]]

\* A fold is defined for every sequence.
LEMMA FoldExists ==
  ASSUME NEW n \in Nat, NEW X, NEW b \in X, NEW H \in [SUBSET Nat -> [X -> X]]
  PROVE  \E g \in [SUBSET (1 .. n) -> X] : Partial(g, n, b, H)
  <1> DEFINE P(m) == \E g \in [SUBSET (1 .. m) -> X] : Partial(g, m, b, H)
             Bad == {m \in Nat : ~P(m)}
             R == OpToRel(<, Nat)
  <1>1. P(0)
    <2>1. SUBSET (1 .. 0) = {{}}
          OBVIOUS
    <2> DEFINE g == [t \in SUBSET (1 .. 0) |-> b]
    <2>2. g \in [SUBSET (1 .. 0) -> X]
          OBVIOUS
    <2>3. Partial(g, 0, b, H)
          BY <2>1 DEF Partial
    <2>4. QED
          BY <2>2, <2>3
  <1>2. ASSUME NEW m \in Nat, P(m)
        PROVE  P(m + 1)
    <2>1. PICK g \in [SUBSET (1 .. m) -> X] : Partial(g, m, b, H)
          BY <1>2
    <2> DEFINE N == SUBSET (1 .. (m + 1))
               h == [t \in N |-> IF m + 1 \notin t THEN g[t] ELSE H[t][g[t \ {m + 1}]]]
    <2>2. \A t \in N : m + 1 \notin t => t \in SUBSET (1 .. m)
          OBVIOUS
    <2>3. \A t \in N : m + 1 \in t => t \ {m + 1} \in SUBSET (1 .. m) /\ Max(t) = m + 1
          BY MaxOfLast
    <2>4. h \in [N -> X]
      <3> SUFFICES ASSUME NEW t \in N
                   PROVE  (IF m + 1 \notin t THEN g[t] ELSE H[t][g[t \ {m + 1}]]) \in X
          OBVIOUS
      <3>1. CASE m + 1 \notin t
            BY <2>2, <3>1
      <3>2. CASE m + 1 \in t
        <4>1. g[t \ {m + 1}] \in X /\ t \in SUBSET Nat
              BY <2>3, <3>2
        <4>2. QED
              BY <3>2, <4>1
      <3>3. QED
            BY <3>1, <3>2
    <2>5. ASSUME NEW t \in N
          PROVE  h[t] = IF t = {} THEN b ELSE H[t][h[t \ {Max(t)}]]
      <3>1. CASE m + 1 \notin t
        <4>1. t \in SUBSET (1 .. m) /\ t \ {Max(t)} \in SUBSET (1 .. m)
              BY <2>2, <3>1
        <4>2. t \ {Max(t)} \in N /\ m + 1 \notin t \ {Max(t)}
              BY <3>1
        <4>3. h[t] = g[t] /\ h[t \ {Max(t)}] = g[t \ {Max(t)}]
              BY <3>1, <4>2
        <4>4. g[t] = IF t = {} THEN b ELSE H[t][g[t \ {Max(t)}]]
              BY <2>1, <4>1, Zenon DEF Partial
        <4>5. QED
              BY <4>3, <4>4
      <3>2. CASE m + 1 \in t
        <4>1. Max(t) = m + 1 /\ t \ {m + 1} \in N /\ m + 1 \notin t \ {m + 1}
              BY <2>3, <3>2
        <4>2. h[t \ {m + 1}] = g[t \ {m + 1}]
              BY <4>1
        <4>3. h[t] = H[t][g[t \ {m + 1}]] /\ t # {}
              BY <3>2
        <4>4. QED
              BY <4>1, <4>2, <4>3
      <3>3. QED
            BY <3>1, <3>2
    <2>6. h = [t \in N |-> IF t = {} THEN b ELSE H[t][h[t \ {Max(t)}]]]
      <3> HIDE DEF h
      <3>1. QED
            BY <2>4, <2>5
    <2>7. QED
      <3> HIDE DEF h
      <3>1. Partial(h, m + 1, b, H)
            BY <2>6 DEF Partial
      <3>2. QED
            BY <2>4, <3>1
  <1> HIDE DEF P
  <1>3. Bad = {}
    <2> SUFFICES ASSUME Bad # {}
                 PROVE  FALSE
        OBVIOUS
    <2>1. Bad \subseteq Nat
          OBVIOUS
    <2>2. IsWellFoundedOn(R, Nat)
          BY NatLessThanWellFounded
    <2>3. PICK k \in Bad : \A y \in Bad : ~ (<<y, k>> \in R)
      <3> HIDE DEF Bad, R
      <3>1. QED
            BY <2>1, <2>2, WFMin
    <2>4. k # 0
          BY <1>1
    <2>5. k - 1 \in Nat /\ k - 1 < k /\ k \in Nat
          BY <2>4
    <2>6. k - 1 \notin Bad
          BY <2>3, <2>5 DEF OpToRel
    <2>7. P(k - 1)
          BY <2>5, <2>6
    <2>8. P((k - 1) + 1)
          BY <2>5, <2>7, <1>2
    <2>9. (k - 1) + 1 = k
          BY <2>5
    <2>10. QED
          BY <2>8, <2>9
  <1>4. P(n)
        BY <1>3
  <1>5. QED
        BY <1>4 DEF P

\* A write leaves tables.
LEMMA ApplyType ==
  ASSUME NEW e \in Events, NEW t \in Tables
  PROVE  Apply(e, t) \in Tables
  <1>e. /\ e.kind \in {"exec", "session_created", "session_destroyed"}
        /\ e.id \in Ids /\ e.of \in Ids /\ e.sid \in AuditSids
        BY DEF Events, Kinds
  <1>t. t.execs \in SUBSET Ids /\ t.rows \in Seq(Rows)
        BY DEF Tables
  <1>1. CASE e.kind = "exec"
    <2>1. Apply(e, t) = [t EXCEPT !.execs = @ \cup {e.id}]
          BY <1>1 DEF Apply
    <2>2. QED
          BY <1>e, <2>1 DEF Tables
  <1>2. CASE e.kind = "session_created"
    <2> DEFINE r == [sid |-> e.sid, of |-> e.id, closed |-> 0]
    <2>1. Apply(e, t) = [t EXCEPT !.rows = Append(@, r)]
          BY <1>2 DEF Apply
    <2>2. r \in Rows
          BY <1>e DEF Rows
    <2> HIDE DEF r
    <2>3. Append(t.rows, r) \in Seq(Rows)
          BY <1>t, <2>2
    <2>4. QED
          BY <2>1, <2>3 DEF Tables
  <1>3. CASE e.kind = "session_destroyed" /\ OpenRows(t.rows, e.sid) = {}
        BY <1>3 DEF Apply
  <1>4. CASE e.kind = "session_destroyed" /\ OpenRows(t.rows, e.sid) # {}
    <2> DEFINE O == OpenRows(t.rows, e.sid)
               c == RowToClose(t.rows, e.sid)
    <2>1. Len(t.rows) \in Nat /\ O \in SUBSET (1 .. Len(t.rows))
          BY <1>t DEF OpenRows
    <2>2. c \in DOMAIN t.rows
      <3>1. Max(O) \in O
        <4> HIDE DEF O
        <4>1. QED
              BY <1>4, <2>1, MaxIsMax DEF O
      <3>2. QED
            BY <3>1 DEF RowToClose, OpenRows
    <2>3. Apply(e, t) = [t EXCEPT !.rows[c].closed = e.of]
          BY <1>4 DEF Apply
    <2> HIDE DEF O, c
    <2>4. [t.rows[c] EXCEPT !.closed = e.of] \in Rows
      <3>1. t.rows[c] \in Rows
            BY <1>t, <2>2
      <3>2. QED
            BY <1>e, <3>1 DEF Rows
    <2>5. [t.rows EXCEPT ![c].closed = e.of] \in Seq(Rows)
          BY <1>t, <2>2, <2>4
    <2>6. QED
          BY <2>3, <2>5 DEF Tables
  <1>5. QED
        BY <1>e, <1>1, <1>2, <1>3, <1>4

\* The tables after each of the events on the way.
Becoming(k, es) ==
    /\ k[0] = mine
    /\ \A i \in DOMAIN es : k[i] = Apply(es[i], k[i - 1])

\* What is on the way is written one after the other.
LEMMA ToBeLoops ==
  ASSUME mine \in Tables, NEW n \in Nat, NEW es \in [1 .. n -> Events], es = OnTheWay
  PROVE  \E k : Becoming(k, es) /\ TablesToBe = k[n]
  <1> DEFINE L(t) == Max(t)
             H == [t \in SUBSET Nat |-> [x \in Tables |->
                      IF L(t) \in 1 .. n THEN Apply(es[L(t)], x) ELSE x]]
             G(g) == g = [t \in SUBSET (DOMAIN es) |->
                             IF t = {} THEN mine ELSE Apply(es[L(t)], g[t \ {L(t)}])]
             f == CHOOSE g : G(g)
  <1>1. \A x \in Tables, e \in Events : Apply(e, x) \in Tables
        BY ApplyType
  <1>2. H \in [SUBSET Nat -> [Tables -> Tables]]
    <2> HIDE DEF L
    <2>1. \A t \in SUBSET Nat, x \in Tables :
             (IF L(t) \in 1 .. n THEN Apply(es[L(t)], x) ELSE x) \in Tables
          BY <1>1
    <2>2. QED
          BY <2>1
  <1>3. PICK g \in [SUBSET (1 .. n) -> Tables] : Partial(g, n, mine, H)
    <2> HIDE DEF H
    <2>1. QED
          BY <1>2, FoldExists
  <1>4. G(g)
    <2>1. ASSUME NEW t \in SUBSET (1 .. n), t # {}
          PROVE  H[t][g[t \ {L(t)}]] = Apply(es[L(t)], g[t \ {L(t)}])
      <3>1. L(t) \in t
            BY <2>1, MaxIsMax
      <3>2. \A x \in t : x \in 1 .. n /\ t \ {x} \in SUBSET (1 .. n)
            OBVIOUS
      <3>3. t \in SUBSET Nat
            OBVIOUS
      <3> HIDE DEF L
      <3>4. L(t) \in 1 .. n /\ t \ {L(t)} \in SUBSET (1 .. n)
            BY <3>1, <3>2
      <3>5. g[t \ {L(t)}] \in Tables
            BY <3>4
      <3>6. QED
            BY <3>3, <3>4, <3>5
    <2>2. g = [t \in SUBSET (1 .. n) |-> IF t = {} THEN mine ELSE H[t][g[t \ {L(t)}]]]
          BY <1>3 DEF Partial
    <2> HIDE DEF L, H
    <2>3. \A t \in SUBSET (1 .. n) :
             g[t] = IF t = {} THEN mine ELSE Apply(es[L(t)], g[t \ {L(t)}])
          BY <2>1, <2>2
    <2>4. QED
          BY <2>3
  <1>5. G(f)
    <2> HIDE DEF G
    <2>1. QED
          BY <1>4
  <1>6. TablesToBe = f[DOMAIN es]
        BY DEF TablesToBe, FoldLeft, MapThenFoldSet
  <1> DEFINE k == [i \in 0 .. n |-> f[1 .. i]]
  <1> HIDE DEF f
  <1>7. k[0] = mine
    <2>1. 1 .. 0 = {} /\ k[0] = f[1 .. 0]
          OBVIOUS
    <2>2. f[{}] = mine
          BY <1>5
    <2>3. QED
          BY <2>1, <2>2
  <1>8. ASSUME NEW i \in 1 .. n
        PROVE  k[i] = Apply(es[i], k[i - 1])
    <2>1. i - 1 \in Nat /\ (i - 1) + 1 = i /\ i \in 1 .. i
          OBVIOUS
    <2>2. L(1 .. i) = i
      <3>1. Max(1 .. ((i - 1) + 1)) = (i - 1) + 1
            BY <2>1, MaxOfLast
      <3>2. QED
            BY <2>1, <3>1
    <2> HIDE DEF L
    <2>3. 1 .. i \in SUBSET (DOMAIN es) /\ 1 .. i # {} /\ (1 .. i) \ {i} = 1 .. (i - 1)
          BY <2>1
    <2>4. f[1 .. i] = Apply(es[i], f[1 .. (i - 1)])
          BY <1>5, <2>2, <2>3
    <2>5. QED
          BY <2>4
  <1>9. QED
    <2>1. k[n] = f[DOMAIN es]
          OBVIOUS
    <2> HIDE DEF k
    <2>2. Becoming(k, es) /\ TablesToBe = k[n]
          BY <1>6, <1>7, <1>8, <2>1 DEF Becoming
    <2>3. QED
          BY <2>2

\* What is on the way are the events behind those that are done.
LEMMA OnTheWayIsRest ==
  ASSUME AInv
  PROVE  /\ OnTheWay \in Seq(Events) /\ Len(OnTheWay) = Len(accepted) - Done
         /\ \A i \in 1 .. Len(OnTheWay) : OnTheWay[i] = accepted[Done + i]
  <1> DEFINE q == IF queue # <<>> /\ Last(queue) = Stop THEN Front(queue) ELSE queue
             h == IF writer.pc = "writing" THEN <<writer.item>> ELSE <<>>
  <1>c. /\ Len(queue) \in Nat /\ Len(accepted) \in Nat /\ Queued \in Nat /\ AtHand \in {0, 1}
        /\ Done \in Nat /\ Len(accepted) = Done + AtHand + Queued
        /\ SentinelQueued => Len(queue) = Queued + 1
        /\ ~SentinelQueued => Len(queue) = Queued
        BY Counts
  <1>t. queue \in Seq(Events \cup {Stop}) /\ accepted \in Seq(Events)
        BY DEF AInv, Types
  <1>1. \A i \in 1 .. Queued : queue[i] = accepted[Done + AtHand + i] /\ queue[i] \in Events
    <2> SUFFICES ASSUME NEW i \in 1 .. Queued
                 PROVE  queue[i] = accepted[Done + AtHand + i] /\ queue[i] \in Events
        OBVIOUS
    <2>1. queue[i] = accepted[Done + AtHand + i]
          BY DEF AInv, QueueInv
    <2>2. Done + AtHand + i \in 1 .. Len(accepted)
          BY <1>c
    <2>3. QED
          BY <1>t, <2>1, <2>2
  <1>2. q \in Seq(Events) /\ Len(q) = Queued /\ \A i \in 1 .. Queued : q[i] = queue[i]
    <2>1. CASE SentinelQueued
      <3>1. q = SubSeq(queue, 1, Len(queue) - 1)
            BY <2>1 DEF SentinelQueued, Last, Front
      <3>2. Len(queue) - 1 = Queued
            BY <1>c, <2>1
      <3> HIDE DEF q
      <3>3. q = SubSeq(queue, 1, Queued)
            BY <3>1, <3>2
      <3>4. QED
            BY <1>c, <1>t, <1>1, <2>1, <3>3
    <2>2. CASE ~SentinelQueued
      <3>1. q = queue
            BY <2>2 DEF SentinelQueued, Last
      <3>2. Len(queue) = Queued
            BY <1>c, <2>2
      <3> HIDE DEF q
      <3>3. QED
            BY <1>t, <1>1, <3>1, <3>2
    <2>3. QED
          BY <2>1, <2>2
  <1>3. h \in Seq(Events) /\ Len(h) = AtHand /\ \A i \in 1 .. AtHand : h[i] = accepted[Done + i]
    <2>1. CASE writer.pc = "writing"
      <3>1. AtHand = 1 /\ h = <<writer.item>> /\ writer.item = accepted[Done + 1]
            BY <2>1 DEF AtHand, AInv, QueueInv
      <3>2. Done + 1 \in 1 .. Len(accepted)
            BY <1>c, <3>1
      <3>3. QED
            BY <1>t, <3>1, <3>2
    <2>2. CASE writer.pc # "writing"
          BY <2>2 DEF AtHand
    <2>3. QED
          BY <2>1, <2>2
  <1>4. OnTheWay = h \o q
        BY DEF OnTheWay
  <1> HIDE DEF h, q
  <1>5. OnTheWay \in Seq(Events) /\ Len(OnTheWay) = AtHand + Queued
    <2>1. h \o q \in Seq(Events) /\ Len(h \o q) = Len(h) + Len(q)
          BY <1>2, <1>3
    <2>2. QED
          BY <1>2, <1>3, <1>4, <2>1
  <1>6. ASSUME NEW i \in 1 .. (AtHand + Queued)
        PROVE  OnTheWay[i] = accepted[Done + i]
    <2>1. CASE i \in 1 .. AtHand
          BY <1>2, <1>3, <1>4, <2>1
    <2>2. CASE i \notin 1 .. AtHand
      <3> DEFINE j == i - AtHand
      <3>1. j \in 1 .. Queued /\ Done + AtHand + j = Done + i
            BY <1>c, <2>2
      <3>2. OnTheWay[i] = q[j]
            BY <1>2, <1>3, <1>4, <1>c, <2>2
      <3> HIDE DEF j
      <3>3. q[j] = accepted[Done + AtHand + j]
            BY <1>1, <1>2, <3>1
      <3>4. QED
            BY <3>1, <3>2, <3>3
    <2>3. QED
          BY <2>1, <2>2
  <1>7. QED
        BY <1>5, <1>6, <1>c

\* Then every event has been written or has failed.
LEMMA ToBeWritten ==
  ASSUME AInv
  PROVE  WrittenIn(TablesToBe, accepted, Len(accepted), failed)
  <1> DEFINE n == Len(accepted) - Done
             W(m) == \E t : WrittenIn(t, accepted, Done + m, failed)
  <1>c. Done \in Nat /\ Len(accepted) \in Nat /\ n \in Nat /\ Done + n = Len(accepted)
        BY Counts
  <1>1. PICK es : es = OnTheWay
        OBVIOUS
  <1>2. es \in [1 .. n -> Events] /\ \A i \in 1 .. n : es[i] = accepted[Done + i]
        BY <1>1, OnTheWayIsRest
  <1>3. PICK k : Becoming(k, es) /\ TablesToBe = k[n]
        BY <1>c, <1>1, <1>2, ToBeLoops DEF AInv, Types
  <1> HIDE DEF n
  <1> DEFINE Q(m) == WrittenIn(k[m], accepted, Done + m, failed)
             Bad == {m \in 0 .. n : ~Q(m)}
             R == OpToRel(<, Nat)
  <1>4. Q(0)
        BY <1>c, <1>3 DEF Becoming, AInv, TableInv
  <1>5. ASSUME NEW m \in 0 .. n, m < n, Q(m)
        PROVE  Q(m + 1)
    <2>1. m + 1 \in 1 .. n /\ (m + 1) - 1 = m /\ DOMAIN es = 1 .. n
          BY <1>c, <1>2, <1>5
    <2>2. k[m + 1] = Apply(es[m + 1], k[m])
          BY <1>3, <2>1 DEF Becoming
    <2>3. es[m + 1] = accepted[(Done + m) + 1]
      <3>1. Done + (m + 1) = (Done + m) + 1
            BY <1>c, <1>5
      <3>2. QED
            BY <1>2, <2>1, <3>1
    <2> DEFINE d == Done + m
    <2>4. d \in Nat /\ d < Len(accepted) /\ Done + (m + 1) = d + 1
          BY <1>c, <1>5
    <2>5. OneProcess(accepted) /\ WrittenIn(k[m], accepted, d, failed)
          BY <1>5 DEF AInv, EventInv
    <2> HIDE DEF d
    <2>6. WrittenIn(Apply(accepted[d + 1], k[m]), accepted, d + 1, failed)
          BY <2>4, <2>5, Writes
    <2>7. QED
          BY <2>2, <2>3, <2>4, <2>6 DEF d
  <1> HIDE DEF Q
  <1>6. Bad = {}
    <2> SUFFICES ASSUME Bad # {}
                 PROVE  FALSE
        OBVIOUS
    <2>1. Bad \subseteq Nat
          OBVIOUS
    <2>2. IsWellFoundedOn(R, Nat)
          BY NatLessThanWellFounded
    <2>3. PICK m \in Bad : \A y \in Bad : ~ (<<y, m>> \in R)
      <3> HIDE DEF Bad, R
      <3>1. QED
            BY <2>1, <2>2, WFMin
    <2>4. m # 0 /\ m \in 0 .. n
          BY <1>4
    <2>5. m - 1 \in 0 .. n /\ m - 1 < n /\ m - 1 < m /\ (m - 1) + 1 = m /\ m - 1 \in Nat
          BY <1>c, <2>4
    <2>6. m - 1 \notin Bad
          BY <2>1, <2>3, <2>5 DEF OpToRel
    <2>7. Q(m - 1)
          BY <2>5, <2>6
    <2>8. Q(m)
          BY <1>5, <2>5, <2>7
    <2>9. QED
          BY <2>8
  <1>7. Q(n)
        BY <1>c, <1>6
  <1>8. QED
        BY <1>c, <1>3, <1>7 DEF Q

\* The session of id g is over, as far as acc tells.
EndIn(acc, g) ==
    \E k \in 1 .. Len(acc) : acc[k].kind = "session_destroyed" /\ acc[k].of = g

\* Every session that has been opened is the manager's or is over, and nothing has
\* failed but the opening of the database.
EndInv ==
    /\ failed \subseteq {0}
    /\ \A i \in 1 .. Len(accepted) :
          accepted[i].kind = "session_created" =>
             \/ live[accepted[i].sid] = accepted[i].id
             \/ EndIn(accepted, accepted[i].id)

NoWriteFails == Faults \cap {"execute", "commit"} = {}

\* A session that is over stays so when an event is enqueued.
LEMMA EndStays ==
  ASSUME NEW acc \in Seq(Events), NEW e \in Events, NEW g, EndIn(acc, g)
  PROVE  EndIn(Append(acc, e), g)
  <1>1. PICK k \in 1 .. Len(acc) : acc[k].kind = "session_destroyed" /\ acc[k].of = g
        BY DEF EndIn
  <1>2. k \in 1 .. Len(Append(acc, e)) /\ Append(acc, e)[k] = acc[k]
        OBVIOUS
  <1>3. QED
        BY <1>1, <1>2 DEF EndIn

\* Every step keeps this, as long as writes do not fail.
LEMMA EndInvNext ==
  ASSUME AInv, EndInv, [Next]_vars, NoWriteFails
  PROVE  EndInv'
  <1>a. /\ accepted \in Seq(Events) /\ Len(accepted) \in Nat
        /\ live \in [AuditSids -> Ids \cup {0}] /\ OneProcess(accepted)
        BY DEF AInv, Types, EventInv
  <1>i. \A i \in 1 .. Len(accepted) :
           /\ accepted[i] \in Events /\ accepted[i].sid \in AuditSids /\ accepted[i].id # 0
        BY <1>a, EventFields
  <1>1. ASSUME NEW s \in AuditSids, SessionCreated(s) \/ Exec(s) \/ SessionDestroyed(s)
        PROVE  EndInv'
    <2>1. PICK e \in Events : accepted' = Append(accepted, e) /\ failed' = failed /\
             \/ /\ e.kind = "session_created" /\ live[s] = 0 /\ e.sid = s
                /\ live' = [live EXCEPT ![s] = e.id]
             \/ e.kind = "exec" /\ live' = live
             \/ /\ e.kind = "session_destroyed" /\ e.of = live[s]
                /\ live' = [live EXCEPT ![s] = 0]
      <3>1. ASSUME NEW k \in Kinds, NEW g \in Ids, Enqueue(k, s, g)
            PROVE  /\ [kind |-> k, sid |-> s, id |-> nextId, of |-> g] \in Events
                   /\ accepted' = Append(accepted, [kind |-> k, sid |-> s, id |-> nextId, of |-> g])
                   /\ failed' = failed /\ nextId \in Ids
            BY <3>1 DEF Enqueue, Put, Events
      <3>2. CASE SessionCreated(s)
        <4>1. nextId \in Ids
              BY <3>2 DEF SessionCreated, Enqueue
        <4>2. Enqueue("session_created", s, nextId)
              BY <3>2 DEF SessionCreated
        <4>3. "session_created" \in Kinds
              BY DEF Kinds
        <4>4. QED
              BY <3>1, <3>2, <4>1, <4>2, <4>3 DEF SessionCreated
      <3>3. CASE Exec(s)
        <4>1. nextId \in Ids /\ Enqueue("exec", s, nextId)
              BY <3>3 DEF Exec, Enqueue
        <4>2. "exec" \in Kinds
              BY DEF Kinds
        <4>3. QED
              BY <3>1, <3>3, <4>1, <4>2 DEF Exec
      <3>4. CASE SessionDestroyed(s)
        <4>1. live[s] \in Ids /\ Enqueue("session_destroyed", s, live[s])
              BY <1>a, <3>4 DEF SessionDestroyed
        <4>2. "session_destroyed" \in Kinds
              BY DEF Kinds
        <4>3. QED
              BY <3>1, <3>4, <4>1, <4>2 DEF SessionDestroyed
      <3>5. QED
            BY <1>1, <3>2, <3>3, <3>4
    <2> DEFINE a == Append(accepted, e)
    <2>2. /\ Len(a) = Len(accepted) + 1 /\ a[Len(accepted) + 1] = e
          /\ \A i \in 1 .. Len(accepted) : a[i] = accepted[i]
          BY <1>a
    <2> SUFFICES ASSUME NEW i \in 1 .. Len(a), a[i].kind = "session_created"
                 PROVE  live'[a[i].sid] = a[i].id \/ EndIn(a, a[i].id)
          BY <2>1 DEF EndInv
    <2> HIDE DEF a
    <2>3. CASE i = Len(accepted) + 1
      <3>1. a[i] = e
            BY <2>2, <2>3
      <3>2. e.sid = s /\ live' = [live EXCEPT ![s] = e.id]
            BY <2>1, <3>1
      <3>3. QED
            BY <1>a, <3>1, <3>2
    <2>4. CASE i \in 1 .. Len(accepted)
      <3>1. a[i] = accepted[i] /\ accepted[i].sid \in AuditSids /\ accepted[i].id # 0
            BY <1>i, <2>2, <2>4
      <3>2. CASE EndIn(accepted, accepted[i].id)
            BY <1>a, <3>1, <3>2, EndStays DEF a
      <3>3. CASE live[accepted[i].sid] = accepted[i].id
        <4>1. CASE accepted[i].sid # s
          <5>1. live'[accepted[i].sid] = live[accepted[i].sid]
                BY <1>a, <2>1, <3>1, <4>1
          <5>2. QED
                BY <3>1, <3>3, <5>1
        <4>2. CASE accepted[i].sid = s /\ e.kind = "session_destroyed"
          <5>1. e.of = accepted[i].id
                BY <2>1, <3>3, <4>2
          <5>2. Len(accepted) + 1 \in 1 .. Len(a)
                BY <1>a, <2>2
          <5>3. EndIn(a, accepted[i].id)
                BY <2>2, <4>2, <5>1, <5>2 DEF EndIn
          <5>4. QED
                BY <3>1, <5>3
        <4>3. CASE accepted[i].sid = s /\ e.kind # "session_destroyed"
          <5>1. live' = live
                BY <2>1, <3>1, <3>3, <4>3
          <5>2. QED
                BY <3>1, <3>3, <5>1
        <4>4. QED
              BY <4>1, <4>2, <4>3
      <3>4. QED
            BY <2>4, <3>1, <3>2, <3>3 DEF EndInv
    <2>5. QED
          BY <1>a, <2>2, <2>3, <2>4
  <1>2. CASE Exit \/ Crash
    <2>1. accepted' = <<>> /\ failed' = failed \ {0}
          BY <1>2 DEF Exit, Crash, ProcessEnds
    <2>2. QED
          BY <2>1 DEF EndInv
  <1>3. CASE \/ Read \/ StopBegins \/ FlushBegins \/ CallerStep \/ Start \/ UNCHANGED vars
             \/ Open \/ Take \/ TakeStop \/ Write \/ CloseConnection
    <2>1. UNCHANGED <<accepted, live, failed>>
          BY <1>3 DEF Read, StopBegins, FlushBegins, CallerStep, StopReturns, FlushReturns,
                      Start, vars, Open, Take, TakeStop, Write, ItemDone, CloseConnection, input
    <2>2. QED
          BY <2>1 DEF EndInv, EndIn
  <1>4. CASE OpenFails
    <2>1. UNCHANGED <<accepted, live>> /\ failed' = failed \cup {0}
          BY <1>4 DEF OpenFails, input
    <2>2. QED
          BY <2>1 DEF EndInv, EndIn
  <1>5. ~(ExecuteFails \/ CommitFails)
        BY DEF ExecuteFails, CommitFails, NoWriteFails
  <1>6. QED
        BY <1>1, <1>2, <1>3, <1>4, <1>5 DEF Next, WriterStep

\* Once everything is written, the rows of this process that are open are those of
\* the manager's sessions.
LEMMA OpenRowsAreLive ==
  ASSUME AInv, EndInv
  PROVE  {live[s] : s \in {v \in AuditSids : live[v] # 0}} =
         {e \in {accepted[i].id : i \in DOMAIN accepted} :
            \E j \in DOMAIN TablesToBe.rows :
                TablesToBe.rows[j] \in [sid : AuditSids, of : {e}, closed : {0}]}
  <1> DEFINE n == Len(accepted)
  <1>1. PICK t : t = TablesToBe
        OBVIOUS
  <1>2. /\ t \in Tables /\ Present(t, accepted, n, failed) /\ RowsKnown(t, accepted, n)
        /\ RowsInOrder(t) /\ OpenStays(t, accepted, n)
        BY <1>1, ToBeWritten DEF WrittenIn
  <1>a. /\ accepted \in Seq(Events) /\ n \in Nat /\ DOMAIN accepted = 1 .. n
        /\ live \in [AuditSids -> Ids \cup {0}] /\ OneProcess(accepted)
        BY DEF AInv, Types, EventInv
  <1>i. \A i \in 1 .. n :
           /\ accepted[i].id \in Nat \ {0} /\ accepted[i].of \in Nat \ {0}
           /\ ~ExcusedBy(accepted[i], failed)
    <2> TAKE i \in 1 .. n
    <2>1. accepted[i].id \in Nat \ {0} /\ accepted[i].of \in Nat \ {0}
          BY <1>a, EventFields
    <2>2. QED
          BY <2>1 DEF EndInv, ExcusedBy
  <1>r. t.rows \in Seq(Rows) /\ \A k \in DOMAIN t.rows : t.rows[k] \in Rows
        BY <1>2 DEF Tables
  <1> HIDE DEF n
  <1>3. ASSUME NEW s \in AuditSids, live[s] # 0
        PROVE  \E i \in 1 .. n : /\ accepted[i].id = live[s]
                                 /\ \E j \in DOMAIN t.rows :
                                      t.rows[j] \in [sid : AuditSids, of : {live[s]}, closed : {0}]
    <2>1. PICK i \in 1 .. n : /\ Opens(accepted, i, s, live[s])
                              /\ Calm(accepted, i, n + 1, s)
          BY <1>3 DEF AInv, EventInv, n
    <2>2. accepted[i].kind = "session_created" /\ accepted[i].sid = s /\ accepted[i].id = live[s]
          BY <2>1 DEF Opens
    <2>3. RowOf(accepted[i], t)
          BY <1>2, <1>i, <2>2 DEF Present, RecordedIn
    <2>4. PICK j \in DOMAIN t.rows : t.rows[j].of = live[s]
          BY <2>2, <2>3 DEF RowOf
    <2>5. t.rows[j].closed = 0
          BY <1>2, <2>1, <2>2, <2>4 DEF OpenStays
    <2>6. t.rows[j] \in [sid : AuditSids, of : {live[s]}, closed : {0}]
          BY <1>r, <2>4, <2>5 DEF Rows
    <2>7. QED
          BY <2>2, <2>6
  <1>4. ASSUME NEW i \in 1 .. n, NEW j \in DOMAIN t.rows,
               t.rows[j] \in [sid : AuditSids, of : {accepted[i].id}, closed : {0}]
        PROVE  \E s \in AuditSids : live[s] # 0 /\ accepted[i].id = live[s]
    <2>1. t.rows[j].of = accepted[i].id /\ t.rows[j].closed = 0
          BY <1>4
    <2>2. ~ (t.rows[j].of < accepted[i].id)
          BY <1>i, <2>1
    <2>3. PICK m \in 1 .. n : Opens(accepted, m, t.rows[j].sid, t.rows[j].of)
          BY <1>2, <2>2 DEF RowsKnown, n
    <2>4. accepted[m].kind = "session_created" /\ accepted[m].id = accepted[i].id
          BY <2>1, <2>3 DEF Opens
    <2>5. ~EndIn(accepted, accepted[m].id)
      <3> SUFFICES ASSUME EndIn(accepted, accepted[m].id)
                   PROVE  FALSE
          OBVIOUS
      <3>1. PICK k \in 1 .. n : accepted[k].kind = "session_destroyed"
                                   /\ accepted[k].of = accepted[i].id
            BY <2>4 DEF EndIn, n
      <3>2. ClosedRowOf(accepted[k], t)
            BY <1>2, <1>i, <3>1 DEF Present, RecordedIn
      <3>3. PICK l \in DOMAIN t.rows : /\ t.rows[l].of = accepted[i].id
                                       /\ t.rows[l].closed = accepted[i].id
            BY <3>1, <3>2 DEF ClosedRowOf
      <3>4. l \in Nat /\ j \in Nat
            BY <1>r
      <3>5. l = j
        <4>1. ~ (t.rows[l].of < t.rows[j].of) /\ ~ (t.rows[j].of < t.rows[l].of)
              BY <1>i, <2>1, <3>3
        <4>2. ~ (l < j) /\ ~ (j < l)
              BY <1>2, <4>1 DEF RowsInOrder
        <4>3. QED
              BY <3>4, <4>2
      <3>6. QED
            BY <1>i, <2>1, <3>3, <3>5
    <2>6. live[accepted[m].sid] = accepted[m].id
          BY <2>4, <2>5 DEF EndInv, n
    <2>7. accepted[m].sid \in AuditSids
          BY <1>a, EventFields DEF n
    <2>8. QED
          BY <1>i, <2>4, <2>6, <2>7
  <1>5. QED
        BY <1>1, <1>3, <1>4, <1>a DEF n
=============================================================================
