-------------------------- MODULE PackageListProofs --------------------------
(***************************************************************************)
(* ListedOnce, for any number of requests, templates, callers and threads. *)
(***************************************************************************)
EXTENDS PackageList, TLAPS

\* Only the holder of the lock lists, and only what is not in the cache.
HolderLists ==
    \A q \in Lookups : lookup[q].pc = "listing" =>
        /\ Holds(q)
        /\ lookup[q].image \notin cache

PInv == line \in Seq(Lookups) /\ DOMAIN lookup = Lookups /\ HolderLists

\* At first nobody is in the line and nothing is listed.
LEMMA PInvInit == Init => PInv
  BY DEF Init, PInv, HolderLists, NoLookup

\* Every step preserves it: the lock is handed on when a listing ends.
LEMMA PInvNext == PInv /\ [Next]_vars => PInv'
  <1> SUFFICES ASSUME PInv, [Next]_vars
               PROVE  PInv'
      OBVIOUS
  <1> USE DEF PInv, HolderLists, Holds
  <1>1. ASSUME NEW q \in Lookups, NEW n \in Names, Ask(q, n)
        PROVE  PInv'
        BY <1>1 DEF Ask
  <1>2. ASSUME NEW q \in Lookups, Hit(q)
        PROVE  PInv'
        BY <1>2 DEF Hit, Answer, NoLookup
  <1>3. ASSUME NEW q \in Lookups, Miss(q)
        PROVE  PInv'
        BY <1>3 DEF Miss
  <1>c. ASSUME NEW q \in Lookups, NoClient(q)
        PROVE  PInv'
        BY <1>c DEF NoClient, AnswerError, Answer, NoLookup
  <1>4. ASSUME NEW q \in Lookups, Listed(q)
        PROVE  PInv'
        BY <1>4 DEF Listed, Answer, NoLookup
  <1>5. ASSUME NEW q \in Lookups, ListFails(q)
        PROVE  PInv'
        BY <1>5 DEF ListFails, AnswerError, Answer, NoLookup
  <1>6. ASSUME NEW x \in Callers, Call(x) \/ CallEnds(x)
        PROVE  PInv'
        BY <1>6 DEF Call, CallEnds
  <1>7. CASE ThreadTakes
        BY <1>7 DEF ThreadTakes
  <1>8. CASE UNCHANGED vars
        BY <1>8 DEF vars
  <1>9. QED
        BY <1>1, <1>2, <1>3, <1>c, <1>4, <1>5, <1>6, <1>7, <1>8 DEF Next, LookupStep

\* No image is listed while it is in the cache or while one is being listed
\* (env.py:55-61): the lock is held across the listing.
THEOREM ListedOnceHolds == Spec => []ListedOnce
  <1>1. PInv => ListedOnce
        BY DEF PInv, HolderLists, Holds, ListedOnce
  <1>2. QED
        BY PInvInit, PInvNext, <1>1, PTL DEF Spec
=============================================================================
