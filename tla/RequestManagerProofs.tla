------------------------ MODULE RequestManagerProofs ------------------------
(***************************************************************************)
(* Proofs about RequestManager: for every set of requests and streams, every *)
(* whitelist and every size of the queues.                                 *)
(***************************************************************************)
EXTENDS RequestManager, SequenceTheorems, WellFoundedInduction, TLAPS

Results == {"idle", "none", "write", "full", "ok", "ctx", "removed", "closed"}

CallerTypes ==
    /\ result \in [Requests -> Results]
    /\ submitted \subseteq Requests /\ canceled \subseteq Requests
    /\ replies \subseteq [stID : StreamIDs, req : Requests]
    /\ watching \subseteq Requests /\ writing \subseteq Requests

QueueTypes == high \in Seq(Requests) /\ low \in Seq(Requests)

TableTypes ==
    /\ pendings \subseteq Requests /\ owner \in [Requests -> Objects \cup {None}]
    /\ streams \in [StreamIDs -> Nat]
    /\ cur \in [StreamIDs -> Requests \cup {None}]
    /\ available \subseteq StreamIDs

ManagerTypes == objects \in [StreamIDs -> Nat] /\ live \subseteq StreamIDs

ControlTypes == loop \in {"select", "batch", "refresh", "closed"} /\ left \in Nat

TypeOK == CallerTypes /\ QueueTypes /\ TableTypes /\ ManagerTypes /\ ControlTypes

----------------------------------------------------------------------------
(* The tables of the loop.                                                 *)

\* A request was given to an object before it was written or became pending, and
\* every object is one the stream manager has made.
Owned ==
    /\ \A r \in writing : owner[r] \in Objects
    /\ \A r \in pendings :
        /\ owner[r] \in Objects
        /\ owner[r].n # 0
        /\ owner[r].n <= objects[owner[r].id]

\* The object registered under an ID is one of the objects of the ID, a live ID has
\* one, and the object that is still to be registered is newer than the owner of
\* every pending request.
Numbered ==
    \A id \in StreamIDs :
        /\ streams[id] <= objects[id]
        /\ id \in live => objects[id] # 0
        /\ id \in live /\ streams[id] = 0
             => \A r \in pendings : owner[r].id = id => owner[r].n < objects[id]

\* A stream serves a pending request that it owns, and a pending request, done or not,
\* whose owner is registered is the one its owner serves.
Serving ==
    /\ \A id \in StreamIDs : cur[id] # None =>
        cur[id] \in pendings /\ owner[cur[id]] = Object(id)
    /\ \A r \in pendings : owner[r] = Object(owner[r].id) => cur[owner[r].id] = r

\* The owner of an open pending request is registered.
OpenIsServed == \A r \in pendings : ~isDone(r) => owner[r] = Object(owner[r].id)

----------------------------------------------------------------------------
(* Where requests are.                                                     *)

Distinct(q) == \A i, j \in DOMAIN q : q[i] = q[j] => i = j

Queued == ToSet(high) \cup ToSet(low)

\* No request is in two places, and one that was not made is in none.
Exclusive ==
    /\ Distinct(high) /\ Distinct(low)
    /\ ToSet(high) \cap ToSet(low) = {}
    /\ submitted \cap Queued = {} /\ submitted \cap pendings = {} /\ Queued \cap pendings = {}
    /\ \A r \in submitted \cup Queued \cup pendings : result[r] # "idle"

\* While the loop runs no open request is lost; the queues keep their limit.
Kept ==
    /\ Len(high) <= MaxWaiting /\ Len(low) <= MaxWaiting
    /\ loop # "closed" =>
        \A r \in Requests : result[r] = "none" => r \in submitted \cup Queued \cup pendings

TableInv == Owned /\ Numbered /\ Serving /\ OpenIsServed

PlaceInv == Exclusive /\ Kept

IInv == TypeOK /\ TableInv /\ PlaceInv

----------------------------------------------------------------------------
(* Sequences.                                                              *)

\* The least element that skipDone takes exists: its positions are natural numbers.
LEMMA MinOfNat ==
    ASSUME NEW S \in SUBSET Nat, S # {}
    PROVE  Min(S) \in S /\ \A x \in S : Min(S) <= x
<1> DEFINE R == {ss \in Nat \X Nat : ss[1] < ss[2]}
<1>0. IsWellFoundedOn(R, Nat)
  BY NatLessThanWellFounded DEF OpToRel
<1>1. PICK m \in S : \A y \in S : <<y, m>> \notin R
  <2> HIDE DEF R
  <2> QED BY <1>0, WFMin
<1>2. ASSUME NEW y \in S PROVE m <= y
  <2>1. <<y, m>> \in Nat \X Nat /\ ~(<<y, m>>[1] < <<y, m>>[2])
    BY <1>1
  <2> QED BY <2>1
<1> QED BY <1>2 DEF Min

\* The queues hold requests.
LEMMA QueuedRequests ==
    ASSUME QueueTypes
    PROVE  Queued \subseteq Requests /\ Len(high) \in Nat /\ Len(low) \in Nat
<1>1. ASSUME NEW q \in Seq(Requests) PROVE ToSet(q) \subseteq Requests /\ Len(q) \in Nat
  <2>1. Len(q) \in Nat /\ DOMAIN q = 1..Len(q)
    BY LenProperties
  <2>2. \A i \in 1..Len(q) : q[i] \in Requests
    BY ElementOfSeq
  <2> QED BY <2>1, <2>2 DEF ToSet
<1> QED BY <1>1 DEF QueueTypes, Queued

\* requestQueue.push of a request that is not in the queue.
LEMMA PushFacts ==
    ASSUME NEW q \in Seq(Requests), NEW r \in Requests, r \notin ToSet(q), Distinct(q),
           Len(q) < MaxWaiting
    PROVE  /\ push(q, r) \in Seq(Requests)
           /\ Distinct(push(q, r))
           /\ ToSet(push(q, r)) = ToSet(q) \cup {r}
           /\ Len(push(q, r)) <= MaxWaiting
<1>1. push(q, r) = Append(q, r)
  BY LimitsAssumption, LenProperties DEF push, Full
<1> DEFINE s == Append(q, r)
<1>2. /\ s \in Seq(Requests) /\ Len(s) = Len(q) + 1
      /\ \A i \in 1..Len(q) : s[i] = q[i]
      /\ s[Len(q) + 1] = r
  BY AppendProperties
<1>3. /\ DOMAIN q = 1..Len(q) /\ DOMAIN s = 1..(Len(q) + 1) /\ Len(q) \in Nat
  BY <1>2, LenProperties
<1>4. \A i \in 1..(Len(q) + 1) : i \in 1..Len(q) \/ i = Len(q) + 1
  BY <1>3
<1>5. Distinct(s)
  BY <1>2, <1>3, <1>4 DEF Distinct, ToSet
<1>6. ToSet(s) = ToSet(q) \cup {r}
  BY <1>2, <1>3, <1>4 DEF ToSet
<1> QED BY <1>1, <1>2, <1>3, <1>5, <1>6, LimitsAssumption

\* What is left of a queue when its front is dropped.
LEMMA SuffixFacts ==
    ASSUME NEW q \in Seq(Requests), Distinct(q), NEW m \in 1..(Len(q) + 1)
    PROVE  LET s == SubSeq(q, m, Len(q))
           IN  /\ s \in Seq(Requests)
               /\ Distinct(s)
               /\ ToSet(s) = {q[i] : i \in m..Len(q)}
               /\ Len(s) = Len(q) - m + 1
<1> DEFINE s == SubSeq(q, m, Len(q))
<1>1. DOMAIN q = 1..Len(q) /\ Len(q) \in Nat /\ m \in Nat /\ \A i \in m..Len(q) : q[i] \in Requests
  BY LenProperties, ElementOfSeq
<1>2. /\ s \in Seq(Requests)
      /\ Len(s) = Len(q) - m + 1
      /\ \A i \in 1..(Len(q) - m + 1) : s[i] = q[m + i - 1]
  BY <1>1, SubSeqProperties
<1>3. DOMAIN s = 1..(Len(q) - m + 1)
  BY <1>2, LenProperties
<1>4. \A i \in DOMAIN s : m + i - 1 \in m..Len(q) /\ s[i] = q[m + i - 1]
  BY <1>1, <1>2, <1>3
<1>5. Distinct(s)
  <2> SUFFICES ASSUME NEW i \in DOMAIN s, NEW j \in DOMAIN s, s[i] = s[j]
               PROVE  i = j
    BY DEF Distinct
  <2>1. m + i - 1 \in DOMAIN q /\ m + j - 1 \in DOMAIN q /\ q[m + i - 1] = q[m + j - 1]
    BY <1>1, <1>4
  <2>2. m + i - 1 = m + j - 1
    BY <2>1 DEF Distinct
  <2> QED BY <1>1, <1>3, <2>2
<1>6. \A k \in m..Len(q) : k - m + 1 \in DOMAIN s /\ s[k - m + 1] = q[k]
  BY <1>1, <1>2, <1>3
<1>7. ToSet(s) = {q[i] : i \in m..Len(q)}
  <2>1. ToSet(s) \subseteq {q[i] : i \in m..Len(q)}
    BY <1>4 DEF ToSet
  <2>2. {q[i] : i \in m..Len(q)} \subseteq ToSet(s)
    <3> SUFFICES ASSUME NEW k \in m..Len(q) PROVE q[k] \in ToSet(s)
      OBVIOUS
    <3> QED BY <1>6 DEF ToSet
  <2> QED BY <2>1, <2>2
<1> QED BY <1>2, <1>5, <1>7

\* requestQueue.remove takes the one element of a request out of the queue.
LEMMA RemoveFacts ==
    ASSUME NEW q \in Seq(Requests), Distinct(q), NEW r
    PROVE  /\ remove(q, r) \in Seq(Requests)
           /\ Distinct(remove(q, r))
           /\ ToSet(remove(q, r)) = ToSet(q) \ {r}
           /\ Len(remove(q, r)) <= Len(q)
<1>0. DOMAIN q = 1..Len(q) /\ Len(q) \in Nat /\ \A i \in 1..Len(q) : q[i] \in Requests
  BY LenProperties, ElementOfSeq
<1>1. CASE ~ \E i \in DOMAIN q : q[i] = r
  BY <1>0, <1>1 DEF remove, ToSet
<1>2. CASE \E i \in DOMAIN q : q[i] = r
  <2>0. PICK k \in 1..Len(q) : k = (CHOOSE i \in DOMAIN q : q[i] = r) /\ q[k] = r
    BY <1>0, <1>2
  <2>1. k \in 1..Len(q) /\ k \in Nat /\ q[k] = r
    BY <1>0, <2>0
  <2> DEFINE a == SubSeq(q, 1, k - 1)  b == SubSeq(q, k + 1, Len(q))  s == a \o b
  <2>2. remove(q, r) = s
    BY <1>2, <2>0 DEF remove, RemoveAt
  <2>3. /\ a \in Seq(Requests) /\ Len(a) = k - 1
        /\ \A i \in 1..(k - 1) : a[i] = q[i]
    BY <1>0, <2>1, SubSeqProperties
  <2>4. /\ b \in Seq(Requests) /\ Len(b) = Len(q) - k
        /\ \A i \in 1..(Len(q) - k) : b[i] = q[k + i]
    <3>1. /\ b \in Seq(Requests)
          /\ Len(b) = IF k + 1 <= Len(q) THEN Len(q) - (k + 1) + 1 ELSE 0
          /\ \A i \in 1..(Len(q) - (k + 1) + 1) : b[i] = q[k + 1 + i - 1]
      BY <1>0, <2>1, SubSeqProperties
    <3> HIDE DEF b
    <3>2. Len(b) = Len(q) - k
      <4>1. CASE k + 1 <= Len(q)
        <5>1. Len(b) = Len(q) - (k + 1) + 1
          BY <3>1, <4>1
        <5> QED BY <1>0, <2>1, <5>1
      <4>2. CASE ~(k + 1 <= Len(q))
        <5>1. Len(b) = 0
          BY <3>1, <4>2
        <5>2. Len(q) \in Nat
          BY <1>0
        <5>3. k = Len(q)
          BY <4>2, <5>2
        <5> QED BY <5>1, <5>2, <5>3
      <4> QED BY <4>1, <4>2
    <3>3. ASSUME NEW i \in 1..(Len(q) - k) PROVE b[i] = q[k + i]
      <4>1. i \in 1..(Len(q) - (k + 1) + 1) /\ k + 1 + i - 1 = k + i
        BY <1>0, <2>1
      <4> QED BY <3>1, <4>1
    <3> QED BY <3>1, <3>2, <3>3
  <2> HIDE DEF a, b
  <2>5. /\ s \in Seq(Requests) /\ Len(s) = Len(q) - 1 /\ DOMAIN s = 1..(Len(q) - 1)
        /\ \A i \in 1..(Len(q) - 1) : s[i] = IF i < k THEN q[i] ELSE q[i + 1]
    <3>1. /\ s \in Seq(Requests) /\ Len(s) = Len(a) + Len(b)
          /\ \A i \in 1..(Len(a) + Len(b)) : s[i] = IF i <= Len(a) THEN a[i] ELSE b[i - Len(a)]
      BY <2>3, <2>4, ConcatProperties
    <3>2. Len(s) = Len(q) - 1 /\ DOMAIN s = 1..(Len(q) - 1)
      <4>1. Len(s) = Len(q) - 1
        BY <1>0, <2>1, <2>3, <2>4, <3>1
      <4>2. DOMAIN s = 1..Len(s)
        BY <3>1, LenProperties
      <4> QED BY <4>1, <4>2
    <3>3. ASSUME NEW i \in 1..(Len(q) - 1) PROVE s[i] = IF i < k THEN q[i] ELSE q[i + 1]
      <4>1. CASE i < k
        BY <1>0, <2>1, <2>3, <2>4, <3>1, <4>1
      <4>2. CASE ~(i < k)
        <5>1. s[i] = b[i - (k - 1)] /\ i - (k - 1) \in 1..(Len(q) - k)
          BY <1>0, <2>1, <2>3, <2>4, <3>1, <4>2
        <5>2. b[i - (k - 1)] = q[k + (i - (k - 1))]
          BY <5>1, <2>4
        <5>3. k + (i - (k - 1)) = i + 1
          BY <2>1
        <5> QED BY <4>2, <5>1, <5>2, <5>3
      <4> QED BY <4>1, <4>2
    <3> QED BY <3>1, <3>2, <3>3
  <2> HIDE DEF s
  <2> DEFINE at(i) == IF i < k THEN i ELSE i + 1
  <2>6. \A i \in DOMAIN s : at(i) \in DOMAIN q \ {k} /\ s[i] = q[at(i)]
    BY <1>0, <2>1, <2>5
  <2>7. Distinct(s)
    <3> SUFFICES ASSUME NEW i \in DOMAIN s, NEW j \in DOMAIN s, s[i] = s[j]
                 PROVE  i = j
      BY DEF Distinct
    <3>1. at(i) = at(j)
      BY <2>6 DEF Distinct
    <3> QED BY <1>0, <2>1, <2>5, <3>1
  <2>8. ToSet(s) = ToSet(q) \ {r}
    <3>1. ASSUME NEW x \in ToSet(s) PROVE x \in ToSet(q) \ {r}
      BY <2>1, <2>6, <1>0 DEF ToSet, Distinct
    <3>2. ASSUME NEW x \in ToSet(q) \ {r} PROVE x \in ToSet(s)
      <4>1. PICK j \in 1..Len(q) : q[j] = x /\ j # k
        BY <1>0, <2>1 DEF ToSet
      <4>2. CASE j < k
        BY <1>0, <2>1, <2>5, <4>1, <4>2 DEF ToSet
      <4>3. CASE j > k
        <5>1. j - 1 \in 1..(Len(q) - 1) /\ ~(j - 1 < k) /\ (j - 1) + 1 = j
          BY <1>0, <2>1, <4>1, <4>3
        <5>2. s[j - 1] = q[j]
          BY <2>5, <5>1
        <5> QED BY <2>5, <4>1, <5>1, <5>2 DEF ToSet
      <4> QED BY <2>1, <4>1, <4>2, <4>3
    <3> QED BY <3>1, <3>2
  <2> QED BY <1>0, <2>2, <2>5, <2>7, <2>8
<1> QED BY <1>1, <1>2

\* getNextRequest stops at the first request that is not done: the ones before it
\* are dropped, the ones behind it stay.
LEMMA SkipFacts ==
    ASSUME NEW q \in Seq(Requests), Distinct(q), skipDone(q) # <<>>
    PROVE  /\ Head(skipDone(q)) \in ToSet(q)
           /\ ~isDone(Head(skipDone(q)))
           /\ Tail(skipDone(q)) \in Seq(Requests)
           /\ Distinct(Tail(skipDone(q)))
           /\ ToSet(Tail(skipDone(q))) \subseteq ToSet(q) \ {Head(skipDone(q))}
           /\ \A r \in ToSet(q) \ ToSet(Tail(skipDone(q))) :
                 r = Head(skipDone(q)) \/ isDone(r)
           /\ Len(Tail(skipDone(q))) < Len(q)
<1> DEFINE open == {i \in DOMAIN q : ~isDone(q[i])}  m == Min(open)
<1>0. DOMAIN q = 1..Len(q) /\ Len(q) \in Nat
  BY LenProperties
<1>1. open # {} /\ skipDone(q) = SubSeq(q, m, Len(q))
  BY DEF skipDone
<1>2. m \in open /\ \A i \in open : m <= i
  <2>1. open \in SUBSET Nat
    BY <1>0
  <2> HIDE DEF open
  <2> QED BY <1>1, <2>1, MinOfNat
<1> HIDE DEF m
<1>3. /\ m \in 1..Len(q) /\ ~isDone(q[m])
      /\ \A i \in 1..Len(q) : i < m => isDone(q[i])
  BY <1>0, <1>2
<1>4. Head(skipDone(q)) = q[m] /\ Tail(skipDone(q)) = SubSeq(q, m + 1, Len(q))
  BY <1>0, <1>1, <1>3, HeadTailOfSubSeq
<1> DEFINE t == SubSeq(q, m + 1, Len(q))
<1>5. /\ t \in Seq(Requests) /\ Distinct(t)
      /\ ToSet(t) = {q[i] : i \in (m + 1)..Len(q)}
      /\ Len(t) = Len(q) - (m + 1) + 1
  <2>1. m + 1 \in 1..(Len(q) + 1)
    BY <1>0, <1>3
  <2> QED BY <2>1, SuffixFacts
<1>t. Tail(skipDone(q)) = t
  BY <1>4
<1> HIDE DEF t
<1>6. ToSet(t) \subseteq ToSet(q) \ {q[m]}
  <2> SUFFICES ASSUME NEW i \in (m + 1)..Len(q)
               PROVE  q[i] \in ToSet(q) \ {q[m]}
    BY <1>5
  <2> QED BY <1>0, <1>3 DEF ToSet, Distinct
<1>7. ASSUME NEW r \in ToSet(q) \ ToSet(t)
      PROVE  r = q[m] \/ isDone(r)
  <2>1. PICK i \in 1..Len(q) : r = q[i]
    BY <1>0 DEF ToSet
  <2>2. ~(i > m)
    BY <1>0, <1>3, <1>5, <2>1
  <2> QED BY <1>0, <1>3, <2>1, <2>2
<1>8. q[m] \in ToSet(q) /\ Len(t) < Len(q)
  BY <1>0, <1>3, <1>5 DEF ToSet
<1> QED BY <1>3, <1>4, <1>t, <1>5, <1>6, <1>7, <1>8

\* getNextRequest finds nothing in a queue all of whose requests are done.
LEMMA SkipNone ==
    ASSUME NEW q \in Seq(Requests), skipDone(q) = <<>>
    PROVE  \A r \in ToSet(q) : isDone(r)
<1> DEFINE open == {i \in DOMAIN q : ~isDone(q[i])}  m == Min(open)
<1>0. DOMAIN q = 1..Len(q) /\ Len(q) \in Nat /\ \A i \in 1..Len(q) : q[i] \in Requests
  BY LenProperties, ElementOfSeq
<1>1. CASE open = {}
  BY <1>0, <1>1 DEF ToSet
<1>2. CASE open # {}
  <2>1. m \in open /\ skipDone(q) = SubSeq(q, m, Len(q))
    <3>1. open \in SUBSET Nat
      BY <1>0
    <3>2. skipDone(q) = SubSeq(q, m, Len(q))
      BY <1>2 DEF skipDone
    <3> HIDE DEF open
    <3> QED BY <1>2, <3>1, <3>2, MinOfNat
  <2> HIDE DEF m
  <2>2. m \in 1..Len(q)
    BY <1>0, <2>1
  <2>3. Len(SubSeq(q, m, Len(q))) = Len(q) - m + 1
    BY <1>0, <2>2, SubSeqProperties
  <2>4. Len(SubSeq(q, m, Len(q))) = 0
    <3>1. Len(skipDone(q)) = 0
      OBVIOUS
    <3> QED BY <2>1, <3>1, Zenon
  <2> QED BY <1>0, <2>2, <2>3, <2>4
<1> QED BY <1>1, <1>2

\* The request getNextRequest pops, and the queues it leaves: the popped request has
\* left both, only requests that are done went with it, and there is room again in the
\* high priority queue.
LEMMA PopFacts ==
    ASSUME TypeOK, Exclusive, Kept, Waiting
    PROVE  /\ Popped \in Requests /\ Popped \in Queued /\ ~isDone(Popped)
           /\ highRest \in Seq(Requests) /\ lowRest \in Seq(Requests)
           /\ Distinct(highRest) /\ Distinct(lowRest)
           /\ ToSet(highRest) \subseteq ToSet(high) \ {Popped}
           /\ ToSet(lowRest) \subseteq ToSet(low) \ {Popped}
           /\ \A r \in Queued : r \in ToSet(highRest) \cup ToSet(lowRest) \cup {Popped} \/ isDone(r)
           /\ Len(highRest) < MaxWaiting /\ Len(lowRest) <= MaxWaiting
<1>0. /\ high \in Seq(Requests) /\ low \in Seq(Requests) /\ Distinct(high) /\ Distinct(low)
      /\ Len(high) \in Nat /\ Len(low) \in Nat
      /\ Len(high) <= MaxWaiting /\ Len(low) <= MaxWaiting
      /\ ToSet(high) \cap ToSet(low) = {}
  BY LenProperties DEF TypeOK, QueueTypes, Exclusive, Kept
<1>1. ToSet(high) \subseteq Requests /\ ToSet(low) \subseteq Requests
  BY <1>0, ElementOfSeq, LenProperties DEF ToSet
<1>2. CASE FromHigh
  <2>1. Popped = Head(skipDone(high)) /\ highRest = Tail(skipDone(high)) /\ lowRest = low
    BY <1>2 DEF Popped, highRest, lowRest
  <2>2. /\ Popped \in ToSet(high) /\ ~isDone(Popped)
        /\ highRest \in Seq(Requests) /\ Distinct(highRest)
        /\ ToSet(highRest) \subseteq ToSet(high) \ {Popped}
        /\ \A r \in ToSet(high) \ ToSet(highRest) : r = Popped \/ isDone(r)
        /\ Len(highRest) < Len(high)
    BY <1>0, <1>2, <2>1, SkipFacts DEF FromHigh
  <2>3. Len(highRest) < MaxWaiting
    BY <1>0, <2>2, LenProperties, LimitsAssumption
  <2> QED BY <1>0, <1>1, <2>1, <2>2, <2>3 DEF Queued
<1>3. CASE ~FromHigh
  <2>1. /\ Popped = Head(skipDone(low)) /\ highRest = <<>> /\ lowRest = Tail(skipDone(low))
        /\ skipDone(low) # <<>> /\ skipDone(high) = <<>>
    BY <1>3 DEF Popped, highRest, lowRest, FromHigh, Waiting
  <2>2. /\ Popped \in ToSet(low) /\ ~isDone(Popped)
        /\ lowRest \in Seq(Requests) /\ Distinct(lowRest)
        /\ ToSet(lowRest) \subseteq ToSet(low) \ {Popped}
        /\ \A r \in ToSet(low) \ ToSet(lowRest) : r = Popped \/ isDone(r)
        /\ Len(lowRest) < Len(low)
    BY <1>0, <2>1, SkipFacts
  <2>3. \A r \in ToSet(high) : isDone(r)
    BY <1>0, <2>1, SkipNone
  <2>4. highRest \in Seq(Requests) /\ Distinct(highRest) /\ ToSet(highRest) = {} /\ Len(highRest) = 0
    BY <2>1 DEF Distinct, ToSet
  <2>5. Len(lowRest) <= MaxWaiting /\ Len(highRest) < MaxWaiting
    BY <1>0, <2>2, <2>4, LenProperties, LimitsAssumption
  <2> QED BY <1>0, <1>1, <2>2, <2>3, <2>4, <2>5 DEF Queued
<1> QED BY <1>2, <1>3

----------------------------------------------------------------------------
(* The inductive invariant.                                                *)

\* Initially nothing was requested and no stream is known.
LEMMA InitIInv == Init => IInv
<1> SUFFICES ASSUME Init PROVE IInv
  OBVIOUS
<1>1. TypeOK
  BY DEF Init, TypeOK, CallerTypes, QueueTypes, TableTypes, ManagerTypes, ControlTypes, Results
<1>2. TableInv
  BY DEF Init, TableInv, Owned, Numbered, Serving, OpenIsServed
<1>3. PlaceInv
  BY LimitsAssumption DEF Init, PlaceInv, Exclusive, Kept, Distinct, Queued, ToSet
<1> QED BY <1>1, <1>2, <1>3 DEF IInv

\* doneWithResponse keeps the results well-formed.
LEMMA DoneTypes ==
    ASSUME TypeOK, NEW rs, NEW res \in Results, result' = doneWithResponse(rs, res)
    PROVE  result' \in [Requests -> Results]
BY DEF TypeOK, CallerTypes, doneWithResponse, Results

\* removePendingRequest keeps the tables well-formed.
LEMMA RemovePendingTypes ==
    ASSUME TypeOK, Owned, NEW r \in Requests, removePendingRequest(r)
    PROVE  TableTypes'
<1>1. CASE r \in pendings /\ owner[r] # None
  <2>1. owner[r] \in Objects /\ owner[r].id \in StreamIDs
    BY <1>1 DEF Owned, Objects
  <2> QED BY <1>1, <2>1 DEF removePendingRequest, TypeOK, TableTypes
<1>2. CASE ~(r \in pendings /\ owner[r] # None)
  BY <1>2 DEF removePendingRequest, TypeOK, TableTypes
<1> QED BY <1>1, <1>2

\* Every step keeps the types.
LEMMA TypeStep == IInv /\ [Next]_vars => TypeOK'
<1> SUFFICES ASSUME IInv, [Next]_vars PROVE TypeOK'
  OBVIOUS
<1> USE DEF vars, goroutines, queues, table, env, control
<1>0. TypeOK /\ Owned /\ Exclusive /\ Kept
  BY DEF IInv, TableInv, PlaceInv
<1>1. ASSUME NEW r \in Requests, DoRequest(r) PROVE TypeOK'
  BY <1>0, <1>1 DEF DoRequest, TypeOK, CallerTypes, QueueTypes, TableTypes, ManagerTypes, ControlTypes, Results
<1>2. ASSUME NEW r \in Requests, ContextDone(r) \/ WatchDone(r) PROVE TypeOK'
  BY <1>0, <1>2 DEF ContextDone, WatchDone, TypeOK, CallerTypes, QueueTypes, TableTypes, ManagerTypes, ControlTypes
<1>3. ASSUME NEW r \in Requests, WriteBytes(r) PROVE TypeOK'
  <2>1. owner[r].id \in StreamIDs
    BY <1>0, <1>3 DEF WriteBytes, Owned, Objects
  <2> QED BY <1>0, <1>3, <2>1
        DEF WriteBytes, TypeOK, CallerTypes, QueueTypes, TableTypes, ManagerTypes, ControlTypes
<1>4. ASSUME NEW r \in Requests, WriteBytesFails(r) PROVE TypeOK'
  <2>1. result' \in [Requests -> Results]
    BY <1>0, <1>4, DoneTypes DEF WriteBytesFails, Results
  <2> QED BY <1>0, <1>4, <2>1
        DEF WriteBytesFails, TypeOK, CallerTypes, QueueTypes, TableTypes, ManagerTypes, ControlTypes
<1>5. ASSUME NEW r \in Requests, handleNewRequest(r) PROVE TypeOK'
  <2>1. result' \in [Requests -> Results]
    <3>1. result' = result \/ result' = doneWithResponse({r}, "full")
      BY <1>5 DEF handleNewRequest
    <3> QED BY <1>0, <3>1, DoneTypes DEF TypeOK, CallerTypes, Results
  <2>2. QueueTypes'
    <3>1. \A q \in Seq(Requests) : push(q, r) \in Seq(Requests)
      BY AppendProperties DEF push
    <3> QED BY <1>0, <1>5, <3>1 DEF handleNewRequest, TypeOK, QueueTypes
  <2> QED BY <1>0, <1>5, <2>1, <2>2
        DEF handleNewRequest, TypeOK, CallerTypes, TableTypes, ManagerTypes, ControlTypes
<1>6. ASSUME NEW r \in Requests, handleCancelRequest(r) PROVE TypeOK'
  <2>1. result' \in [Requests -> Results]
    BY <1>0, <1>6, DoneTypes DEF handleCancelRequest, Results
  <2>2. QueueTypes'
    BY <1>0, <1>6, RemoveFacts DEF handleCancelRequest, Exclusive, TypeOK, QueueTypes
  <2>3. TableTypes'
    BY <1>0, <1>6, RemovePendingTypes DEF handleCancelRequest
  <2> QED BY <1>0, <1>6, <2>1, <2>2, <2>3
        DEF handleCancelRequest, TypeOK, CallerTypes, ManagerTypes, ControlTypes
<1>7. ASSUME NEW id \in StreamIDs, AddStream(id) PROVE TypeOK'
  BY <1>0, <1>7 DEF AddStream, TypeOK, CallerTypes, QueueTypes, TableTypes, ManagerTypes, ControlTypes
<1>8. ASSUME NEW id \in StreamIDs, RemoveStream(id) PROVE TypeOK'
  BY <1>0, <1>8 DEF RemoveStream, TypeOK, CallerTypes, QueueTypes, TableTypes, ManagerTypes, ControlTypes
<1>9. ASSUME NEW id \in StreamIDs, AssignNext(id) PROVE TypeOK'
  <2>1. Popped \in Requests /\ highRest \in Seq(Requests) /\ lowRest \in Seq(Requests)
    BY <1>0, <1>9, PopFacts DEF AssignNext
  <2>2. Object(id) \in Objects
    BY <1>0 DEF Object, Objects, TypeOK, TableTypes
  <2>3. left > 0 /\ left' = left - 1
    BY <1>9 DEF AssignNext
  <2>4. TableTypes'
    BY <1>0, <1>9, <2>1, <2>2 DEF AssignNext, TypeOK, TableTypes
  <2> QED BY <1>0, <1>9, <2>1, <2>3, <2>4
        DEF AssignNext, TypeOK, CallerTypes, QueueTypes, ManagerTypes, ControlTypes
<1>10. ASSUME NEW d \in replies, LoseResponse(d) PROVE TypeOK'
  BY <1>0, <1>10 DEF LoseResponse, TypeOK, CallerTypes, QueueTypes, TableTypes, ManagerTypes, ControlTypes
<1>11. ASSUME NEW d \in replies, handleDeliverData(d) PROVE TypeOK'
  <2>1. d.req \in Requests
    BY <1>0 DEF TypeOK, CallerTypes
  <2>2. CASE validateDelivery(d)
    <3>1. result' \in [Requests -> Results]
      BY <1>0, <1>11, <2>2, DoneTypes DEF handleDeliverData, Results
    <3>2. TableTypes'
      BY <1>0, <1>11, <2>1, <2>2, RemovePendingTypes DEF handleDeliverData
    <3> QED BY <1>0, <1>11, <3>1, <3>2
          DEF handleDeliverData, TypeOK, CallerTypes, QueueTypes, ManagerTypes, ControlTypes
  <2>3. CASE ~validateDelivery(d)
    BY <1>0, <1>11, <2>3
      DEF handleDeliverData, TypeOK, CallerTypes, QueueTypes, TableTypes, ManagerTypes, ControlTypes
  <2> QED BY <2>2, <2>3
<1>12. CASE Tick \/ ReceiveEvent
  BY <1>0, <1>12 DEF Tick, ReceiveEvent, TypeOK, CallerTypes, QueueTypes, TableTypes, ManagerTypes, ControlTypes
<1>13. CASE StartBatch
  BY <1>0, <1>13, LimitsAssumption
    DEF StartBatch, TypeOK, CallerTypes, QueueTypes, TableTypes, ManagerTypes, ControlTypes
<1>14. CASE EndBatch
  <2>1. QueueTypes'
    <3>1. UNCHANGED <<high, low>> \/ (high' = <<>> /\ low' = <<>>)
      BY <1>14 DEF EndBatch
    <3>2. <<>> \in Seq(Requests)
      OBVIOUS
    <3> QED BY <1>0, <3>1, <3>2 DEF TypeOK, QueueTypes
  <2> QED BY <1>0, <1>14, <2>1 DEF EndBatch, TypeOK, CallerTypes, TableTypes, ManagerTypes, ControlTypes
<1>15. CASE NoStream
  <2>1. highRest \in Seq(Requests) /\ lowRest \in Seq(Requests) /\ Popped \in Requests
    BY <1>0, <1>15, PopFacts DEF NoStream
  <2>2. push(highRest, Popped) \in Seq(Requests)
    BY <2>1, AppendProperties DEF push
  <2> QED BY <1>0, <1>15, <2>1, <2>2
        DEF NoStream, TypeOK, CallerTypes, QueueTypes, TableTypes, ManagerTypes, ControlTypes
<1>16. CASE refreshStreams
  <2>1. result' \in [Requests -> Results]
    BY <1>0, <1>16, DoneTypes DEF refreshStreams, Results
  <2>2. TableTypes'
    BY <1>0, <1>16 DEF refreshStreams, added, removed, TypeOK, TableTypes, ManagerTypes
  <2> QED BY <1>0, <1>16, <2>1, <2>2
        DEF refreshStreams, TypeOK, CallerTypes, QueueTypes, ManagerTypes, ControlTypes
<1>17. CASE Close
  <2>1. result' \in [Requests -> Results]
    BY <1>0, <1>17, DoneTypes DEF Close, Results
  <2> QED BY <1>0, <1>17, <2>1
        DEF Close, TypeOK, CallerTypes, QueueTypes, TableTypes, ManagerTypes, ControlTypes
<1>18. CASE UNCHANGED vars
  BY <1>0, <1>18 DEF TypeOK, CallerTypes, QueueTypes, TableTypes, ManagerTypes, ControlTypes
<1> QED BY <1>1, <1>2, <1>3, <1>4, <1>5, <1>6, <1>7, <1>8, <1>9, <1>10, <1>11, <1>12,
           <1>13, <1>14, <1>15, <1>16, <1>17, <1>18 DEF Next, Step

----------------------------------------------------------------------------
(* The tables.                                                             *)

\* A step that changes no table of the loop and reopens no pending request.
LEMMA TableFrame ==
    ASSUME TypeOK, TableInv, UNCHANGED <<table, objects, live>>, writing' \subseteq writing,
           \A r \in pendings : isDone(r) => isDone(r)'
    PROVE  TableInv'
<1> USE DEF table
<1>1. Owned'
  BY DEF TableInv, Owned
<1>2. Numbered'
  BY DEF TableInv, Numbered
<1>3. Serving'
  BY DEF TableInv, Serving, Object
<1>4. OpenIsServed'
  BY DEF TableInv, OpenIsServed, Object
<1> QED BY <1>1, <1>2, <1>3, <1>4 DEF TableInv

\* removePendingRequest frees the slot of the object that serves the request and of
\* no other: the request of an earlier object of the same peer leaves it alone.
LEMMA RemovePendingTables ==
    ASSUME TypeOK, TableInv, NEW r \in Requests, removePendingRequest(r),
           UNCHANGED <<objects, live, writing>>, \A x \in pendings : isDone(x) => isDone(x)'
    PROVE  TableInv'
<1> USE DEF TypeOK, TableTypes
<1>0. UNCHANGED <<owner, streams>> /\ pendings' = pendings \ {r}
  BY DEF removePendingRequest
<1>1. Owned'
  BY <1>0 DEF TableInv, Owned
<1>2. Numbered'
  BY <1>0 DEF TableInv, Numbered
<1>3. OpenIsServed'
  BY <1>0 DEF TableInv, OpenIsServed, Object
<1>4. Serving'
  <2>1. CASE r \notin pendings
    <3>1. pendings' = pendings /\ cur' = cur
      BY <2>1 DEF removePendingRequest
    <3> QED BY <1>0, <3>1 DEF TableInv, Serving, Object
  <2>2. CASE r \in pendings
    <3> DEFINE id == owner[r].id
    <3>1. owner[r] \in Objects /\ id \in StreamIDs /\ owner[r] # None
      BY <2>2, NilAssumption DEF TableInv, Owned, Objects
    <3>2. cur' = [cur EXCEPT ![id] = IF owner[r] = Object(id) THEN None ELSE @]
      BY <2>2, <3>1 DEF removePendingRequest
    <3>3. \A i \in StreamIDs \ {id} : cur'[i] = cur[i]
      BY <3>1, <3>2
    <3>4. \A i \in StreamIDs : Object(i)' = Object(i)
      BY <1>0 DEF Object
    <3>5. ASSUME NEW i \in StreamIDs, cur[i] = r PROVE i = id /\ owner[r] = Object(id)
      <4>1. owner[r] = Object(i)
        BY <2>2, <3>5, NilAssumption DEF TableInv, Serving
      <4>2. Object(i).id = i
        BY DEF Object
      <4> QED BY <4>1, <4>2
    <3>6. \A i \in StreamIDs : cur'[i] # None => cur'[i] = cur[i] /\ cur[i] # r
      BY <3>1, <3>2, <3>3, <3>5
    <3>7. \A i \in StreamIDs : cur'[i] # None =>
            cur'[i] \in pendings' /\ owner'[cur'[i]] = Object(i)'
      BY <1>0, <3>4, <3>6 DEF TableInv, Serving
    <3>8. ASSUME NEW x \in pendings', owner'[x] = Object(owner[x].id)'
          PROVE  cur'[owner'[x].id] = x
      <4>1. x \in pendings /\ x # r /\ owner[x].id \in StreamIDs /\ owner[x] = Object(owner[x].id)
        BY <1>0, <3>8 DEF TableInv, Owned, Objects, Object
      <4>2. cur[owner[x].id] = x
        BY <4>1 DEF TableInv, Serving
      <4>3. ~(owner[x].id = id /\ owner[r] = Object(id))
        BY <2>2, <4>1, <4>2 DEF TableInv, Serving
      <4>4. cur'[owner[x].id] = cur[owner[x].id]
        BY <3>1, <3>2, <3>3, <4>1, <4>3
      <4> QED BY <1>0, <4>2, <4>4
    <3> QED BY <3>7, <3>8 DEF Serving
  <2> QED BY <2>1, <2>2
<1> QED BY <1>1, <1>2, <1>3, <1>4 DEF TableInv

\* addPendingRequest gives a request to an idle stream that is registered.
LEMMA AssignTables ==
    ASSUME TypeOK, TableInv, PlaceInv, NEW id \in StreamIDs, AssignNext(id)
    PROVE  TableInv'
<1> USE DEF TypeOK, TableTypes
<1> DEFINE r == Popped
<1>0. r \in Requests /\ r \notin pendings
  BY PopFacts DEF AssignNext, PlaceInv, Exclusive
<1>1. /\ owner' = [owner EXCEPT ![r] = Object(id)] /\ cur' = [cur EXCEPT ![id] = r]
      /\ pendings' = pendings \cup {r} /\ writing' = writing \cup {r}
      /\ UNCHANGED <<result, streams, objects, live>>
      /\ streams[id] # 0 /\ cur[id] = None
  BY DEF AssignNext, env, pickAvailableStream, Sane
<1> HIDE DEF r
<1>2. Object(id) \in Objects /\ Object(id).id = id /\ Object(id).n = streams[id] /\ streams[id] \in Nat
  BY DEF Object, Objects
<1>3. \A i \in StreamIDs : Object(i)' = Object(i)
  BY <1>1 DEF Object
<1>4. owner'[r] = Object(id) /\ \A x \in Requests \ {r} : owner'[x] = owner[x]
  BY <1>0, <1>1
<1>5. cur'[id] = r /\ \A i \in StreamIDs \ {id} : cur'[i] = cur[i]
  BY <1>1
<1>6. Owned'
  <2>1. streams[id] <= objects[id]
    BY DEF TableInv, Numbered
  <2>2. ASSUME NEW x \in writing' PROVE owner'[x] \in Objects
    BY <1>1, <1>2, <1>4, <2>2 DEF TableInv, Owned, CallerTypes
  <2>3. ASSUME NEW x \in pendings'
        PROVE  owner'[x] \in Objects /\ owner'[x].n # 0 /\ owner'[x].n <= objects'[owner'[x].id]
    <3>1. CASE x = r
      BY <1>1, <1>2, <1>4, <2>1, <3>1
    <3>2. CASE x # r
      BY <1>1, <1>4, <2>3, <3>2 DEF TableInv, Owned
    <3> QED BY <3>1, <3>2
  <2> QED BY <2>2, <2>3 DEF Owned
<1>7. Numbered'
  <2> SUFFICES ASSUME NEW i \in StreamIDs, i \in live, streams[i] = 0, NEW x \in pendings', owner'[x].id = i
               PROVE  owner'[x].n < objects[i]
    BY <1>1 DEF TableInv, Numbered
  <2>1. x # r
    BY <1>1, <1>2, <1>4
  <2> QED BY <1>1, <1>4, <2>1 DEF TableInv, Numbered
<1>8. OpenIsServed'
  <2> SUFFICES ASSUME NEW x \in pendings', ~isDone(x)' PROVE owner'[x] = Object(owner[x].id)'
    BY DEF OpenIsServed
  <2>1. CASE x = r
    BY <1>1, <1>2, <1>4, <2>1 DEF Object
  <2>2. CASE x # r
    <3>1. x \in pendings /\ ~isDone(x) /\ owner'[x] = owner[x]
      BY <1>1, <1>4, <2>2 DEF isDone
    <3> QED BY <3>1, <1>1 DEF TableInv, OpenIsServed, Object
  <2> QED BY <2>1, <2>2
<1>9. Serving'
  <2>1. ASSUME NEW i \in StreamIDs, cur'[i] # None
        PROVE  cur'[i] \in pendings' /\ owner'[cur'[i]] = Object(i)'
    <3>1. CASE i = id
      BY <1>1, <1>3, <1>4, <1>5, <3>1
    <3>2. CASE i # id
      <4>1. cur[i] \in pendings /\ owner[cur[i]] = Object(i)
        BY <1>5, <2>1, <3>2 DEF TableInv, Serving
      <4> QED BY <1>0, <1>1, <1>3, <1>4, <1>5, <3>2, <4>1
    <3> QED BY <3>1, <3>2
  <2>2. ASSUME NEW x \in pendings', owner'[x] = Object(owner[x].id)'
        PROVE  cur'[owner'[x].id] = x
    <3>1. CASE x = r
      BY <1>2, <1>4, <1>5, <3>1
    <3>2. CASE x # r
      <4>1. x \in pendings /\ x \in Requests /\ owner'[x] = owner[x] /\ owner[x].id \in StreamIDs
        BY <1>1, <1>4, <2>2, <3>2 DEF TableInv, Owned, Objects
      <4>2. cur[owner[x].id] = x
        BY <1>1, <2>2, <4>1 DEF TableInv, Serving, Object
      <4>3. owner[x].id # id
        BY <1>1, <4>1, <4>2, NilAssumption
      <4> QED BY <1>5, <4>1, <4>2, <4>3
    <3> QED BY <3>1, <3>2
  <2> QED BY <2>1, <2>2 DEF Serving
<1> QED BY <1>6, <1>7, <1>8, <1>9 DEF TableInv

\* refreshStreams answers the requests of the streams it takes out, and registers only
\* objects that own no pending request.
LEMMA RefreshTables ==
    ASSUME TypeOK, TableInv, refreshStreams
    PROVE  TableInv'
<1> USE DEF TypeOK, TableTypes, ManagerTypes
<1>0. UNCHANGED <<writing, pendings, owner, objects, live>>
  BY DEF refreshStreams, goroutines, env
<1>1. \A id \in StreamIDs :
        /\ id \in added => streams[id] = 0 /\ id \in live /\ streams'[id] = objects[id] /\ cur'[id] = None
        /\ id \in removed => streams[id] # 0 /\ id \notin live /\ streams'[id] = 0 /\ cur'[id] = None
        /\ id \notin added \cup removed => streams'[id] = streams[id] /\ cur'[id] = cur[id]
  BY DEF refreshStreams, added, removed
<1>2. \A r \in Requests : /\ isDone(r) => isDone(r)'
                          /\ \A id \in removed : cur[id] = r => isDone(r)'
  <2> DEFINE rs == {cur[id] : id \in removed} \ {None}
  <2>1. \A r \in Requests : result'[r] = "none" => result[r] = "none" /\ r \notin rs
    BY DEF refreshStreams, doneWithResponse
  <2> QED BY <2>1, NilAssumption DEF isDone
<1>3. Owned'
  BY <1>0 DEF TableInv, Owned
<1>4. Numbered'
  <2> SUFFICES ASSUME NEW id \in StreamIDs
               PROVE  /\ streams'[id] <= objects[id]
                      /\ id \in live => objects[id] # 0
                      /\ id \in live /\ streams'[id] = 0
                           => \A r \in pendings : owner[r].id = id => owner[r].n < objects[id]
    BY <1>0 DEF Numbered
  <2>1. CASE id \in added
    BY <1>1, <2>1 DEF TableInv, Numbered
  <2>2. CASE id \in removed
    BY <1>1, <2>2 DEF TableInv, Numbered
  <2>3. CASE id \notin added \cup removed
    BY <1>1, <2>3 DEF TableInv, Numbered
  <2> QED BY <2>1, <2>2, <2>3
<1>5. ASSUME NEW r \in pendings
      PROVE  LET id == owner[r].id
             IN  /\ id \in StreamIDs
                 /\ owner[r] = Object(id)' => id \notin added \cup removed
                 /\ owner[r] = Object(id) => id \notin added
  <2> DEFINE id == owner[r].id
  <2>1. id \in StreamIDs /\ owner[r].n # 0
    BY DEF TableInv, Owned, Objects
  <2>2. (id \in added => owner[r].n # objects[id])
    BY <1>1, <2>1 DEF TableInv, Numbered
  <2>3. Object(id)'.n = streams'[id] /\ Object(id).n = streams[id]
    BY <1>0 DEF Object
  <2> QED BY <1>1, <2>1, <2>2, <2>3
<1>6. Serving'
  <2>1. ASSUME NEW id \in StreamIDs, cur'[id] # None
        PROVE  cur'[id] \in pendings' /\ owner'[cur'[id]] = Object(id)'
    BY <1>0, <1>1, <2>1 DEF TableInv, Serving, Object
  <2>2. ASSUME NEW r \in pendings', owner'[r] = Object(owner[r].id)'
        PROVE  cur'[owner'[r].id] = r
    <3>1. owner[r].id \in StreamIDs /\ owner[r].id \notin added \cup removed
      BY <1>0, <1>5, <2>2
    <3>2. owner[r] = Object(owner[r].id)
      BY <1>0, <1>1, <2>2, <3>1 DEF Object
    <3> QED BY <1>0, <1>1, <3>1, <3>2 DEF TableInv, Serving
  <2> QED BY <2>1, <2>2 DEF Serving
<1>7. OpenIsServed'
  <2> SUFFICES ASSUME NEW r \in pendings', ~isDone(r)'
               PROVE  owner'[r] = Object(owner[r].id)'
    BY DEF OpenIsServed
  <2>1. r \in pendings /\ r \in Requests /\ ~isDone(r)
    BY <1>0, <1>2
  <2>2. owner[r] = Object(owner[r].id) /\ cur[owner[r].id] = r
    BY <2>1 DEF TableInv, OpenIsServed, Serving
  <2>3. owner[r].id \in StreamIDs /\ owner[r].id \notin added \cup removed
    BY <1>2, <1>5, <2>1, <2>2
  <2> QED BY <1>0, <1>1, <2>2, <2>3 DEF Object
<1> QED BY <1>3, <1>4, <1>6, <1>7 DEF TableInv

\* Every step keeps the tables consistent.
LEMMA TableStep == IInv /\ [Next]_vars => TableInv'
<1> SUFFICES ASSUME IInv, [Next]_vars PROVE TableInv'
  OBVIOUS
<1> USE DEF vars, goroutines, queues, env, control
<1>0. TypeOK /\ TableInv /\ PlaceInv
  BY DEF IInv
<1>p. pendings \subseteq Requests
  BY <1>0 DEF TypeOK, TableTypes
<1>1. ASSUME NEW r \in Requests, DoRequest(r) PROVE TableInv'
  <2>1. \A x \in pendings : isDone(x) => isDone(x)'
    <3>1. r \notin pendings
      BY <1>0, <1>1 DEF DoRequest, PlaceInv, Exclusive
    <3> QED BY <1>0, <1>1, <1>p, <3>1 DEF DoRequest, isDone, TypeOK, CallerTypes
  <2> QED BY <1>0, <1>1, <2>1, TableFrame DEF DoRequest
<1>2. ASSUME NEW r \in Requests, ContextDone(r) \/ WatchDone(r) \/ WriteBytes(r) PROVE TableInv'
  BY <1>0, <1>2, TableFrame DEF ContextDone, WatchDone, WriteBytes, isDone
<1>3. ASSUME NEW r \in Requests, WriteBytesFails(r) PROVE TableInv'
  <2>1. \A x \in pendings : isDone(x) => isDone(x)'
    BY <1>0, <1>3, <1>p DEF WriteBytesFails, doneWithResponse, isDone
  <2> QED BY <1>0, <1>3, <2>1, TableFrame DEF WriteBytesFails
<1>4. ASSUME NEW r \in Requests, handleNewRequest(r) PROVE TableInv'
  <2>1. result' = result \/ result' = doneWithResponse({r}, "full")
    BY <1>4 DEF handleNewRequest
  <2>2. \A x \in pendings : isDone(x) => isDone(x)'
    <3>1. CASE result' = result
      BY <3>1 DEF isDone
    <3>2. CASE result' = doneWithResponse({r}, "full")
      BY <1>0, <1>p, <3>2 DEF doneWithResponse, isDone
    <3> QED BY <2>1, <3>1, <3>2
  <2> QED BY <1>0, <1>4, <2>2, TableFrame DEF handleNewRequest
<1>5. ASSUME NEW r \in Requests, handleCancelRequest(r) PROVE TableInv'
  <2>1. \A x \in pendings : isDone(x) => isDone(x)'
    BY <1>0, <1>5, <1>p DEF handleCancelRequest, doneWithResponse, isDone
  <2> QED BY <1>0, <1>5, <2>1, RemovePendingTables DEF handleCancelRequest
<1>6. ASSUME NEW id \in StreamIDs, AddStream(id) PROVE TableInv'
  <2> USE DEF TypeOK, TableTypes, ManagerTypes
  <2>1. /\ UNCHANGED <<result, writing, pendings, owner, streams, cur>> /\ live' = live \cup {id} /\ id \notin live
        /\ objects'[id] = objects[id] + 1 /\ \A i \in StreamIDs \ {id} : objects'[i] = objects[i]
    BY <1>0, <1>6 DEF AddStream, table
  <2>2. Owned'
    <3> SUFFICES ASSUME NEW r \in pendings PROVE owner[r].n <= objects'[owner[r].id]
      BY <1>0, <2>1 DEF TableInv, Owned
    <3>1. owner[r].id \in StreamIDs /\ owner[r].n \in Nat /\ owner[r].n <= objects[owner[r].id]
      BY <1>0 DEF TableInv, Owned, Objects
    <3> QED BY <1>0, <2>1, <3>1
  <2>3. Numbered'
    <3> SUFFICES ASSUME NEW i \in StreamIDs
                 PROVE  /\ streams[i] <= objects'[i]
                        /\ i \in live' => objects'[i] # 0
                        /\ i \in live' /\ streams[i] = 0
                             => \A r \in pendings : owner[r].id = i => owner[r].n < objects'[i]
      BY <2>1 DEF Numbered
    <3>1. CASE i = id
      <4>1. \A r \in pendings : owner[r].n \in Nat /\ owner[r].n <= objects[owner[r].id]
        BY <1>0 DEF TableInv, Owned, Objects
      <4> QED BY <1>0, <2>1, <3>1, <4>1 DEF TableInv, Numbered
    <3>2. CASE i # id
      BY <1>0, <2>1, <3>2 DEF TableInv, Numbered
    <3> QED BY <3>1, <3>2
  <2>4. Serving' /\ OpenIsServed'
    BY <1>0, <2>1 DEF TableInv, Serving, OpenIsServed, Object, isDone
  <2> QED BY <2>2, <2>3, <2>4 DEF TableInv
<1>7. ASSUME NEW id \in StreamIDs, RemoveStream(id) PROVE TableInv'
  <2>1. UNCHANGED <<result, writing, pendings, owner, streams, cur, objects>> /\ live' \subseteq live
    BY <1>7 DEF RemoveStream, table
  <2>2. Owned' /\ Numbered'
    BY <1>0, <2>1 DEF TableInv, Owned, Numbered
  <2>3. Serving' /\ OpenIsServed'
    BY <1>0, <2>1 DEF TableInv, Serving, OpenIsServed, Object, isDone
  <2> QED BY <2>2, <2>3 DEF TableInv
<1>8. ASSUME NEW id \in StreamIDs, AssignNext(id) PROVE TableInv'
  BY <1>0, <1>8, AssignTables
<1>9. ASSUME NEW d \in replies, LoseResponse(d) PROVE TableInv'
  BY <1>0, <1>9, TableFrame DEF LoseResponse, isDone
<1>10. ASSUME NEW d \in replies, handleDeliverData(d) PROVE TableInv'
  <2>1. d.req \in Requests
    BY <1>0 DEF TypeOK, CallerTypes
  <2>2. CASE validateDelivery(d)
    <3>1. \A x \in pendings : isDone(x) => isDone(x)'
      BY <1>0, <1>10, <1>p, <2>2 DEF handleDeliverData, doneWithResponse, isDone
    <3> QED BY <1>0, <1>10, <2>1, <2>2, <3>1, RemovePendingTables DEF handleDeliverData
  <2>3. CASE ~validateDelivery(d)
    BY <1>0, <1>10, <2>3, TableFrame DEF handleDeliverData, isDone
  <2> QED BY <2>2, <2>3
<1>11. CASE Tick \/ StartBatch \/ EndBatch \/ NoStream \/ ReceiveEvent \/ UNCHANGED vars
  BY <1>0, <1>11, TableFrame DEF Tick, StartBatch, EndBatch, NoStream, ReceiveEvent, isDone, table
<1>12. CASE refreshStreams
  BY <1>0, <1>12, RefreshTables
<1>13. CASE Close
  <2>1. /\ pendings' = {} /\ UNCHANGED <<writing, owner, objects, live>>
        /\ \A id \in StreamIDs : streams'[id] = 0 /\ cur'[id] = None
    BY <1>13 DEF Close
  <2>2. Owned'
    BY <1>0, <2>1 DEF TableInv, Owned
  <2>3. Numbered'
    <3>1. \A id \in StreamIDs : objects[id] \in Nat /\ (id \in live => objects[id] # 0)
      BY <1>0 DEF TypeOK, ManagerTypes, TableInv, Numbered
    <3> QED BY <2>1, <3>1 DEF Numbered
  <2>4. Serving' /\ OpenIsServed'
    BY <2>1 DEF Serving, OpenIsServed
  <2> QED BY <2>2, <2>3, <2>4 DEF TableInv
<1> QED BY <1>1, <1>2, <1>3, <1>4, <1>5, <1>6, <1>7, <1>8, <1>9, <1>10, <1>11, <1>12, <1>13
        DEF Next, Step

----------------------------------------------------------------------------
(* Where requests are.                                                     *)

\* A step that moves no request and opens none.
LEMMA PlaceFrame ==
    ASSUME TypeOK, PlaceInv, UNCHANGED <<submitted, high, low, pendings>>,
           \A r \in Requests : /\ result'[r] = "idle" => result[r] = "idle"
                               /\ result'[r] = "none" => result[r] = "none",
           loop' # "closed" => loop # "closed"
    PROVE  PlaceInv'
<1>1. Queued \subseteq Requests
  BY QueuedRequests DEF TypeOK
<1>2. Queued' = Queued
  BY DEF Queued
<1>3. /\ submitted' = submitted /\ high' = high /\ low' = low /\ pendings' = pendings
      /\ submitted \subseteq Requests /\ pendings \subseteq Requests
  BY DEF TypeOK, CallerTypes, TableTypes
<1>4. Exclusive'
  <2>1. \A r \in submitted \cup Queued \cup pendings : result'[r] # "idle"
    BY <1>1, <1>3 DEF PlaceInv, Exclusive
  <2> QED BY <1>2, <1>3, <2>1 DEF PlaceInv, Exclusive
<1>5. Kept'
  <2>1. loop' # "closed" =>
          \A r \in Requests : result'[r] = "none" => r \in submitted \cup Queued \cup pendings
    BY DEF PlaceInv, Kept
  <2> QED BY <1>2, <1>3, <2>1 DEF PlaceInv, Kept
<1> QED BY <1>4, <1>5 DEF PlaceInv

\* Every step keeps every request in at most one place, and open requests in one.
LEMMA PlaceStep == IInv /\ [Next]_vars => PlaceInv'
<1> SUFFICES ASSUME IInv, [Next]_vars PROVE PlaceInv'
  OBVIOUS
<1> USE DEF vars, goroutines, queues, table, env, control
<1>0. TypeOK /\ PlaceInv /\ Exclusive /\ Kept
  BY DEF IInv, PlaceInv
<1>t. /\ result \in [Requests -> Results] /\ submitted \subseteq Requests /\ pendings \subseteq Requests
      /\ high \in Seq(Requests) /\ low \in Seq(Requests) /\ Queued \subseteq Requests
      /\ Len(high) \in Nat /\ Len(low) \in Nat
  BY <1>0, QueuedRequests DEF TypeOK, CallerTypes, TableTypes, QueueTypes
<1>1. ASSUME NEW r \in Requests, DoRequest(r) PROVE PlaceInv'
  <2>1. /\ result[r] = "idle" /\ result' = [result EXCEPT ![r] = "none"]
        /\ submitted' = submitted \cup {r} /\ UNCHANGED <<high, low, pendings, loop>>
    BY <1>1 DEF DoRequest
  <2>2. Queued' = Queued
    BY <2>1 DEF Queued
  <2>3. r \notin Queued /\ r \notin pendings
    BY <1>0, <2>1 DEF Exclusive
  <2>4. Exclusive'
    BY <1>0, <1>t, <2>1, <2>2, <2>3 DEF Exclusive
  <2>5. Kept'
    BY <1>0, <1>t, <2>1, <2>2 DEF Kept
  <2> QED BY <2>4, <2>5 DEF PlaceInv
<1>2. ASSUME NEW r \in Requests, ContextDone(r) \/ WatchDone(r) \/ WriteBytes(r) PROVE PlaceInv'
  BY <1>0, <1>2, PlaceFrame DEF ContextDone, WatchDone, WriteBytes
<1>3. ASSUME NEW r \in Requests, WriteBytesFails(r) PROVE PlaceInv'
  <2>1. \A x \in Requests : /\ result'[x] = "idle" => result[x] = "idle"
                            /\ result'[x] = "none" => result[x] = "none"
    BY <1>3 DEF WriteBytesFails, doneWithResponse
  <2> QED BY <1>0, <1>3, <2>1, PlaceFrame DEF WriteBytesFails
<1>4. ASSUME NEW r \in Requests, handleNewRequest(r) PROVE PlaceInv'
  <2> DEFINE q == IF r \in HighPriority THEN high ELSE low
  <2>1. r \in submitted /\ submitted' = submitted \ {r} /\ UNCHANGED <<pendings, loop>>
    BY <1>4 DEF handleNewRequest
  <2>2. r \notin Queued /\ r \notin pendings /\ result[r] # "idle"
    BY <1>0, <2>1 DEF Exclusive
  <2>3. CASE Full(q)
    <3>1. UNCHANGED <<high, low>> /\ result' = doneWithResponse({r}, "full")
      BY <1>4, <2>3 DEF handleNewRequest
    <3>2. Queued' = Queued
      BY <3>1 DEF Queued
    <3>3. \A x \in Requests : /\ result'[x] = "idle" => result[x] = "idle"
                              /\ result'[x] = "none" => result[x] = "none" /\ x # r
      BY <3>1 DEF doneWithResponse
    <3>4. Exclusive'
      BY <1>0, <1>t, <2>1, <3>1, <3>2, <3>3 DEF Exclusive
    <3>5. Kept'
      BY <1>0, <1>t, <2>1, <3>1, <3>2, <3>3 DEF Kept
    <3> QED BY <3>4, <3>5 DEF PlaceInv
  <2>4. CASE ~Full(q)
    <3>1. q \in Seq(Requests) /\ Len(q) < MaxWaiting /\ Distinct(q) /\ r \notin ToSet(q)
      BY <1>0, <1>t, <2>2, <2>4, LimitsAssumption DEF Full, Exclusive, Queued
    <3>2. /\ push(q, r) \in Seq(Requests) /\ Distinct(push(q, r))
          /\ ToSet(push(q, r)) = ToSet(q) \cup {r} /\ Len(push(q, r)) <= MaxWaiting
      BY <3>1, PushFacts
    <3>3. result' = result
      BY <1>4, <2>4 DEF handleNewRequest
    <3>4. \/ q = high /\ high' = push(q, r) /\ low' = low
          \/ q = low /\ low' = push(q, r) /\ high' = high
      BY <1>4, <2>4 DEF handleNewRequest
    <3> HIDE DEF q
    <3>5. Queued' = Queued \cup {r}
      BY <3>2, <3>4 DEF Queued
    <3>6. Exclusive'
      <4>1. Distinct(high)' /\ Distinct(low)'
        BY <1>0, <3>2, <3>4 DEF Exclusive, Distinct
      <4>2. ToSet(high') \cap ToSet(low') = {}
        BY <1>0, <2>2, <3>2, <3>4 DEF Exclusive, Queued
      <4> QED BY <1>0, <2>1, <2>2, <3>3, <3>5, <4>1, <4>2 DEF Exclusive
    <3>7. Kept'
      BY <1>0, <2>1, <3>2, <3>3, <3>4, <3>5 DEF Kept
    <3> QED BY <3>6, <3>7 DEF PlaceInv
  <2> QED BY <2>3, <2>4
<1>5. ASSUME NEW r \in Requests, handleCancelRequest(r) PROVE PlaceInv'
  <2>1. /\ high' = remove(high, r) /\ low' = remove(low, r) /\ pendings' = pendings \ {r}
        /\ result' = doneWithResponse({r}, "ctx") /\ UNCHANGED <<submitted, loop>>
    BY <1>5 DEF handleCancelRequest, removePendingRequest
  <2>2. /\ Distinct(high') /\ ToSet(high') = ToSet(high) \ {r} /\ Len(high') <= Len(high)
        /\ Distinct(low') /\ ToSet(low') = ToSet(low) \ {r} /\ Len(low') <= Len(low)
        /\ high' \in Seq(Requests) /\ low' \in Seq(Requests)
    BY <1>0, <1>t, <2>1, RemoveFacts DEF Exclusive
  <2>3. Queued' = Queued \ {r}
    BY <2>2 DEF Queued
  <2>4. \A x \in Requests : /\ result'[x] = "idle" => result[x] = "idle"
                            /\ result'[x] = "none" => result[x] = "none" /\ x # r
    BY <2>1 DEF doneWithResponse
  <2>5. Exclusive'
    BY <1>0, <1>t, <2>1, <2>2, <2>3, <2>4 DEF Exclusive
  <2>6. Kept'
    <3>1. Len(high') <= MaxWaiting /\ Len(low') <= MaxWaiting
      BY <1>0, <1>t, <2>2, LenProperties, LimitsAssumption DEF Kept
    <3> QED BY <1>0, <2>1, <2>3, <2>4, <3>1 DEF Kept
  <2> QED BY <2>5, <2>6 DEF PlaceInv
<1>6. ASSUME NEW id \in StreamIDs, AddStream(id) \/ RemoveStream(id) PROVE PlaceInv'
  BY <1>0, <1>6, PlaceFrame DEF AddStream, RemoveStream
<1>7. ASSUME NEW id \in StreamIDs, AssignNext(id) PROVE PlaceInv'
  <2>1. /\ pendings' = pendings \cup {Popped} /\ high' = highRest /\ low' = lowRest
        /\ UNCHANGED <<result, submitted, loop>> /\ Waiting
    BY <1>7 DEF AssignNext
  <2>2. /\ Popped \in Requests /\ Popped \in Queued
        /\ Distinct(highRest) /\ Distinct(lowRest)
        /\ ToSet(highRest) \subseteq ToSet(high) \ {Popped}
        /\ ToSet(lowRest) \subseteq ToSet(low) \ {Popped}
        /\ \A r \in Queued : r \in ToSet(highRest) \cup ToSet(lowRest) \cup {Popped} \/ isDone(r)
        /\ Len(highRest) < MaxWaiting /\ Len(lowRest) <= MaxWaiting
        /\ highRest \in Seq(Requests)
    BY <1>0, <2>1, PopFacts
  <2>3. Queued' \subseteq Queued \ {Popped}
    BY <2>1, <2>2 DEF Queued
  <2>4. Exclusive'
    <3>1. Distinct(high)' /\ Distinct(low)' /\ ToSet(high') \cap ToSet(low') = {}
      BY <1>0, <2>1, <2>2 DEF Exclusive, Distinct
    <3>2. /\ submitted' \cap Queued' = {} /\ submitted' \cap pendings' = {} /\ Queued' \cap pendings' = {}
          /\ \A r \in submitted' \cup Queued' \cup pendings' : result'[r] # "idle"
      BY <1>0, <2>1, <2>2, <2>3 DEF Exclusive
    <3> QED BY <3>1, <3>2 DEF Exclusive
  <2>5. Kept'
    <3>1. Len(high') <= MaxWaiting /\ Len(low') <= MaxWaiting
      BY <2>1, <2>2, LenProperties, LimitsAssumption
    <3>2. \A r \in Queued : result[r] = "none" => r \in Queued' \cup {Popped}
      BY <2>1, <2>2 DEF Queued, isDone
    <3> QED BY <1>0, <2>1, <3>1, <3>2 DEF Kept
  <2> QED BY <2>4, <2>5 DEF PlaceInv
<1>8. ASSUME NEW d \in replies, LoseResponse(d) PROVE PlaceInv'
  BY <1>0, <1>8, PlaceFrame DEF LoseResponse
<1>9. ASSUME NEW d \in replies, handleDeliverData(d) PROVE PlaceInv'
  <2>1. CASE validateDelivery(d)
    <3>1. /\ pendings' = pendings \ {d.req} /\ result' = doneWithResponse({d.req}, "ok")
          /\ UNCHANGED <<submitted, high, low, loop>>
      BY <1>9, <2>1 DEF handleDeliverData, removePendingRequest
    <3>2. Queued' = Queued
      BY <3>1 DEF Queued
    <3>3. \A x \in Requests : /\ result'[x] = "idle" => result[x] = "idle"
                              /\ result'[x] = "none" => result[x] = "none" /\ x # d.req
      BY <3>1 DEF doneWithResponse
    <3>4. Exclusive'
      BY <1>0, <1>t, <3>1, <3>2, <3>3 DEF Exclusive
    <3>5. Kept'
      BY <1>0, <1>t, <3>1, <3>2, <3>3 DEF Kept
    <3> QED BY <3>4, <3>5 DEF PlaceInv
  <2>2. CASE ~validateDelivery(d)
    BY <1>0, <1>9, <2>2, PlaceFrame DEF handleDeliverData
  <2> QED BY <2>1, <2>2
<1>10. CASE Tick \/ StartBatch \/ ReceiveEvent \/ UNCHANGED vars
  BY <1>0, <1>10, PlaceFrame DEF Tick, StartBatch, ReceiveEvent
<1>11. CASE EndBatch
  <2>1. CASE UNCHANGED queues
    BY <1>0, <1>11, <2>1, PlaceFrame DEF EndBatch
  <2>2. CASE ~Waiting /\ high' = <<>> /\ low' = <<>>
    <3>1. UNCHANGED <<result, submitted, pendings>> /\ loop # "closed"
      BY <1>11 DEF EndBatch
    <3>2. \A r \in Queued : result[r] # "none"
      BY <1>t, <2>2, SkipNone DEF Waiting, Queued, isDone
    <3>3. Queued' = {} /\ ToSet(high') = {} /\ ToSet(low') = {} /\ Len(high') = 0 /\ Len(low') = 0
      BY <2>2 DEF Queued, ToSet
    <3>4. Exclusive'
      <4>1. Distinct(high)' /\ Distinct(low)'
        BY <2>2 DEF Distinct
      <4> QED BY <1>0, <3>1, <3>3, <4>1 DEF Exclusive
    <3>5. Kept'
      BY <1>0, <3>1, <3>2, <3>3, LimitsAssumption DEF Kept
    <3> QED BY <3>4, <3>5 DEF PlaceInv
  <2> QED BY <1>11, <2>1, <2>2 DEF EndBatch
<1>12. CASE NoStream
  <2>1. /\ high' = push(highRest, Popped) /\ low' = lowRest /\ Waiting
        /\ UNCHANGED <<result, submitted, pendings>> /\ loop # "closed"
    BY <1>12 DEF NoStream
  <2>2. /\ Popped \in Requests /\ Popped \in Queued
        /\ highRest \in Seq(Requests) /\ Distinct(highRest) /\ Distinct(lowRest)
        /\ ToSet(highRest) \subseteq ToSet(high) \ {Popped}
        /\ ToSet(lowRest) \subseteq ToSet(low) \ {Popped}
        /\ \A r \in Queued : r \in ToSet(highRest) \cup ToSet(lowRest) \cup {Popped} \/ isDone(r)
        /\ Len(highRest) < MaxWaiting /\ Len(lowRest) <= MaxWaiting
    BY <1>0, <2>1, PopFacts
  <2>3. /\ Distinct(high') /\ ToSet(high') = ToSet(highRest) \cup {Popped} /\ Len(high') <= MaxWaiting
    BY <2>1, <2>2, PushFacts
  <2>4. Queued' \subseteq Queued
    BY <2>1, <2>2, <2>3 DEF Queued
  <2>5. Exclusive'
    <3>1. Distinct(high)' /\ Distinct(low)' /\ ToSet(high') \cap ToSet(low') = {}
      BY <1>0, <2>1, <2>2, <2>3 DEF Exclusive, Distinct
    <3> QED BY <1>0, <2>1, <2>4, <3>1 DEF Exclusive
  <2>6. Kept'
    <3>1. \A r \in Queued : result[r] = "none" => r \in Queued'
      BY <2>1, <2>2, <2>3 DEF Queued, isDone
    <3> QED BY <1>0, <2>1, <2>2, <2>3, <3>1 DEF Kept
  <2> QED BY <2>5, <2>6 DEF PlaceInv
<1>13. CASE refreshStreams
  <2>1. \A x \in Requests : /\ result'[x] = "idle" => result[x] = "idle"
                            /\ result'[x] = "none" => result[x] = "none"
    BY <1>13 DEF refreshStreams, doneWithResponse
  <2> QED BY <1>0, <1>13, <2>1, PlaceFrame DEF refreshStreams
<1>14. CASE Close
  <2>1. /\ high' = <<>> /\ low' = <<>> /\ pendings' = {} /\ loop' = "closed" /\ UNCHANGED submitted
        /\ result' = doneWithResponse(pendings, "closed")
    BY <1>14 DEF Close
  <2>2. \A x \in Requests : result'[x] = "idle" => result[x] = "idle"
    BY <2>1 DEF doneWithResponse
  <2>3. Queued' = {} /\ ToSet(high') = {} /\ ToSet(low') = {} /\ Len(high') = 0 /\ Len(low') = 0
    BY <2>1 DEF Queued, ToSet
  <2>4. Distinct(high)' /\ Distinct(low)'
    BY <2>1 DEF Distinct
  <2> QED BY <1>0, <1>t, <2>1, <2>2, <2>3, <2>4, LimitsAssumption DEF PlaceInv, Exclusive, Kept
<1> QED BY <1>1, <1>2, <1>3, <1>4, <1>5, <1>6, <1>7, <1>8, <1>9, <1>10, <1>11, <1>12, <1>13, <1>14
        DEF Next, Step

----------------------------------------------------------------------------
(* The theorems.                                                           *)

\* The inductive invariant holds in every state of the request manager.
THEOREM Invariance == Spec => []IInv
<1>1. IInv /\ [Next]_vars => IInv'
  BY TypeStep, TableStep, PlaceStep DEF IInv
<1> QED BY InitIInv, <1>1, PTL DEF Spec

\* No stream ever serves two open requests: whatever streams disconnect and
\* reconnect, contexts end and writes fail, the owner of an open pending request is
\* the object registered under its ID and serves that request (pickAvailableStream,
\* addPendingRequest, removePendingRequest, refreshStreams).
THEOREM StreamsServeOne == Spec => []OneRequestPerStream
<1>1. IInv => OneRequestPerStream
  BY DEF IInv, TableInv, OpenIsServed, Serving, OneRequestPerStream
<1> QED BY Invariance, <1>1, PTL

\* Until the manager is closed every open request is in exactly one place, with any
\* queue limit: the push in getNextRequest whose error is ignored never fails.
THEOREM RequestsAreKept == Spec => []NoLostRequest
<1>1. IInv => NoLostRequest
  <2> SUFFICES ASSUME IInv, loop # "closed", NEW r \in Requests, result[r] = "none"
               PROVE  \E p \in Places(r) : Places(r) = {p}
    BY DEF NoLostRequest
  <2>0. Exclusive /\ r \in submitted \cup Queued \cup pendings
    BY DEF IInv, PlaceInv, Kept
  <2> DEFINE inSubmitted == {<<"submitted", 0>> : x \in submitted \cap {r}}
             inHigh == {<<"high", i>> : i \in {k \in DOMAIN high : high[k] = r}}
             inLow == {<<"low", i>> : i \in {k \in DOMAIN low : low[k] = r}}
             inPending == {<<"pending", 0>> : x \in pendings \cap {r}}
  <2>1. Places(r) = inSubmitted \cup inHigh \cup inLow \cup inPending
    BY DEF Places
  <2>2. r \notin ToSet(high) => inHigh = {}
    BY DEF ToSet
  <2>3. r \notin ToSet(low) => inLow = {}
    BY DEF ToSet
  <2>4. ASSUME r \in ToSet(high) PROVE \E p : inHigh = {p}
    <3>1. PICK k \in DOMAIN high : high[k] = r
      BY <2>4 DEF ToSet
    <3>2. {i \in DOMAIN high : high[i] = r} = {k}
      BY <2>0, <3>1 DEF Exclusive, Distinct
    <3>3. inHigh = {<<"high", k>>}
      BY <3>2
    <3> HIDE DEF inHigh
    <3> QED BY <3>3
  <2>5. ASSUME r \in ToSet(low) PROVE \E p : inLow = {p}
    <3>1. PICK k \in DOMAIN low : low[k] = r
      BY <2>5 DEF ToSet
    <3>2. {i \in DOMAIN low : low[i] = r} = {k}
      BY <2>0, <3>1 DEF Exclusive, Distinct
    <3>3. inLow = {<<"low", k>>}
      BY <3>2
    <3> HIDE DEF inLow
    <3> QED BY <3>3
  <2>6. /\ inSubmitted = IF r \in submitted THEN {<<"submitted", 0>>} ELSE {}
        /\ inPending = IF r \in pendings THEN {<<"pending", 0>>} ELSE {}
    OBVIOUS
  <2> HIDE DEF inSubmitted, inHigh, inLow, inPending
  <2>7. \E p : Places(r) = {p}
    <3>1. CASE r \in submitted
      <4>1. r \notin ToSet(high) /\ r \notin ToSet(low) /\ r \notin pendings
        BY <2>0, <3>1 DEF Exclusive, Queued
      <4> QED BY <2>1, <2>2, <2>3, <2>6, <3>1, <4>1
    <3>2. CASE r \in ToSet(high)
      <4>1. r \notin submitted /\ r \notin ToSet(low) /\ r \notin pendings
        BY <2>0, <3>2 DEF Exclusive, Queued
      <4> QED BY <2>1, <2>3, <2>4, <2>6, <3>2, <4>1
    <3>3. CASE r \in ToSet(low)
      <4>1. r \notin submitted /\ r \notin ToSet(high) /\ r \notin pendings
        BY <2>0, <3>3 DEF Exclusive, Queued
      <4> QED BY <2>1, <2>2, <2>5, <2>6, <3>3, <4>1
    <3>4. CASE r \in pendings
      <4>1. r \notin submitted /\ r \notin ToSet(high) /\ r \notin ToSet(low)
        BY <2>0, <3>4 DEF Exclusive, Queued
      <4> QED BY <2>1, <2>2, <2>3, <2>6, <3>4, <4>1
    <3> QED BY <2>0, <3>1, <3>2, <3>3, <3>4 DEF Queued
  <2> QED BY <2>7
<1> QED BY Invariance, <1>1, PTL

\* Except for a late cancellation, a stream only becomes available when it is
\* registered and serves nothing: validateDelivery lets no answer of an earlier
\* connection free the stream that serves another request now.
THEOREM LateAnswers == Spec => LateAnswerFreesNothing
<1> DEFINE A == canceled \subseteq canceled' =>
                  \A id \in available' \ available : streams'[id] # 0 /\ cur'[id] = None
<1>1. IInv /\ [Next]_vars => A
  <2> SUFFICES ASSUME IInv, [Next]_vars, canceled \subseteq canceled', NEW id \in available', id \notin available
               PROVE  streams'[id] # 0 /\ cur'[id] = None
    OBVIOUS
  <2> USE DEF vars, goroutines, queues, table, env, control
  <2>0. TypeOK /\ TableInv
    BY DEF IInv
  <2>1. ASSUME NEW r \in Requests, handleCancelRequest(r) PROVE FALSE
    BY <2>1 DEF handleCancelRequest
  <2>2. CASE refreshStreams
    <3>1. id \in added /\ id \in StreamIDs /\ id \in live
      BY <2>0, <2>2 DEF refreshStreams, added, TypeOK, ManagerTypes
    <3>2. objects[id] # 0
      BY <2>0, <3>1 DEF TableInv, Numbered
    <3> QED BY <2>2, <3>1, <3>2 DEF refreshStreams
  <2>3. ASSUME NEW d \in replies, handleDeliverData(d) PROVE streams'[id] # 0 /\ cur'[id] = None
    <3>1. validateDelivery(d) /\ removePendingRequest(d.req)
      BY <2>3 DEF handleDeliverData
    <3>2. /\ d.req \in Requests /\ d.stID \in StreamIDs /\ d.req \in pendings
          /\ streams[d.stID] # 0 /\ owner[d.req].id = d.stID /\ cur[d.stID] = d.req
          /\ owner[d.req] # None
      BY <2>0, <3>1 DEF validateDelivery, TypeOK, CallerTypes
    <3>3. owner[d.req] = Object(d.stID)
      BY <2>0, <3>2, NilAssumption DEF TableInv, Serving
    <3>4. /\ available' = available \cup {d.stID} /\ streams' = streams
          /\ cur' = [cur EXCEPT ![d.stID] = None]
      BY <3>1, <3>2, <3>3 DEF removePendingRequest
    <3> QED BY <2>0, <3>2, <3>4 DEF TypeOK, TableTypes
  <2>4. ASSUME NEW r \in Requests,
               \/ DoRequest(r) \/ ContextDone(r) \/ WatchDone(r) \/ WriteBytes(r) \/ WriteBytesFails(r)
               \/ handleNewRequest(r)
        PROVE  FALSE
    BY <2>4 DEF DoRequest, ContextDone, WatchDone, WriteBytes, WriteBytesFails, handleNewRequest
  <2>5. ASSUME NEW i \in StreamIDs, AddStream(i) \/ RemoveStream(i) \/ AssignNext(i) PROVE FALSE
    BY <2>5 DEF AddStream, RemoveStream, AssignNext
  <2>6. ASSUME NEW d \in replies, LoseResponse(d) PROVE FALSE
    BY <2>6 DEF LoseResponse
  <2>7. CASE Tick \/ StartBatch \/ EndBatch \/ NoStream \/ ReceiveEvent \/ Close \/ UNCHANGED vars
    BY <2>7 DEF Tick, StartBatch, EndBatch, NoStream, ReceiveEvent, Close
  <2> QED BY <2>1, <2>2, <2>3, <2>4, <2>5, <2>6, <2>7 DEF Next, Step
<1>2. Spec => [][A]_vars
  BY Invariance, <1>1, PTL DEF Spec
<1> QED BY <1>2 DEF LateAnswerFreesNothing
=============================================================================
