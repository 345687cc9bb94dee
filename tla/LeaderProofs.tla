---------------------------- MODULE LeaderProofs ----------------------------
(***************************************************************************)
(* Proofs about what a node runs besides the handlers of FBFT.  ViewClock: *)
(* for any number of nodes, any timeouts and any slot that is no shorter   *)
(* than the view change timeout.  MessageSender: for any number of blocks  *)
(* and of retries.  LeaderRotation: for any committee, epoch and run.      *)
(***************************************************************************)
EXTENDS Sequences, ViewClock, Induction

\* The nodes' clocks agree, and a node waits for a view no longer than a slot lasts
\* (27 and 45 seconds in consensus/config.go).
Synchronous ==
    /\ PhaseTimeout \in Nat \ {0} /\ ViewChangeTimeout \in Nat \ {0}
    /\ ViewChangeSlot \in Nat /\ ViewChangeTimeout <= ViewChangeSlot
    /\ Behind = [n \in Nodes |-> 0]

\* How long the nodes have been on the block.
Stuck == now - head.time

TypeOK ==
    /\ now \in Nat /\ head.time \in Nat /\ head.time <= now
    /\ timer \in [Nodes -> Nat] /\ changing \subseteq Nodes
    /\ DOMAIN vcID = Nodes /\ DOMAIN leader = Nodes

\* When a node that is changing views started its view change.
StartedAt(n) == Stuck + timer[n] - ViewChangeTimeout

\* The timer of a node that is not changing views runs since the block, and no timer
\* runs out at the time of the block itself.
Waiting ==
    /\ \A n \in Nodes \ changing : timer[n] + Stuck <= PhaseTimeout
    /\ Stuck = 0 => \A n \in Nodes : timer[n] > 0

\* A node that is changing views is on the view of the slot it started in.
Changing ==
    \A n \in changing :
        /\ timer[n] <= ViewChangeTimeout
        /\ StartedAt(n) > 0
        /\ vcID[n] = StartedAt(n) \div ViewChangeSlot + 1 + StuckView
        /\ leader[n] = GetNextLeaderKey(vcID[n])

IInv == TypeOK /\ Waiting /\ Changing

----------------------------------------------------------------------------
\* All the moments of a slot have the same quotient: the one getNextViewID adds to
\* the view.
LEMMA SameSlot ==
    ASSUME NEW d \in Nat \ {0}, NEW t \in Nat, (t + 1) % d = 0,
           NEW s \in Nat, s <= t, t - s < d
    PROVE  s \div d = (t + 1) \div d - 1
<1> DEFINE k == (t + 1) \div d  q == s \div d
<1>1. k \in Int /\ q \in Int /\ t + 1 = d * k
  OBVIOUS
<1>2. d * q <= s /\ s < d * q + d
  OBVIOUS
<1> HIDE DEF k, q
<1>3. d * q < d * k /\ d * k <= d * q + d + (d - 1)
  BY <1>1, <1>2
<1>4. d * (q + 1) = d * q + d /\ d * (q + 2) = d * q + d + d
  BY <1>1
<1>5. q < k
  BY <1>1, <1>3
<1>6. k < q + 2
  BY <1>1, <1>3, <1>4
<1> QED BY <1>1, <1>5, <1>6 DEF k, q

\* Every step keeps the invariant.
LEMMA Inductive ==
    ASSUME Synchronous
    PROVE  IInv /\ [Next]_vars => IInv'
<1> SUFFICES ASSUME IInv, [Next]_vars PROVE IInv'
  OBVIOUS
<1> USE DEF Synchronous, IInv, TypeOK
<1>0. Stuck \in Nat
  BY DEF Stuck
<1>1. CASE Tick
  <2>1. /\ now' = now + 1 /\ timer' = [n \in Nodes |-> timer[n] - 1]
        /\ UNCHANGED <<head, changing, vcID, leader>>
        /\ \A n \in Nodes : timer[n] > 0
    BY <1>1 DEF Tick
  <2>2. TypeOK'
    BY <2>1
  <2>3. Stuck' = Stuck + 1 /\ \A n \in Nodes : timer'[n] = timer[n] - 1 /\ timer[n] \in Nat
    BY <2>1 DEF Stuck
  <2>4. Waiting'
    BY <1>0, <2>1, <2>3 DEF Waiting
  <2>5. Changing'
    <3> SUFFICES ASSUME NEW n \in changing
                 PROVE  /\ timer'[n] <= ViewChangeTimeout
                        /\ StartedAt(n)' > 0
                        /\ vcID'[n] = StartedAt(n)' \div ViewChangeSlot + 1 + StuckView'
                        /\ leader'[n] = GetNextLeaderKey(vcID[n])'
      BY <2>1 DEF Changing
    <3>1. StartedAt(n)' = StartedAt(n)
      BY <1>0, <2>3 DEF StartedAt
    <3>2. StuckView' = StuckView /\ GetNextLeaderKey(vcID[n])' = GetNextLeaderKey(vcID[n])
      BY <2>1 DEF StuckView, GetNextLeaderKey
    <3> QED BY <2>1, <2>3, <3>1, <3>2 DEF Changing
  <2> QED BY <2>2, <2>4, <2>5
<1>2. CASE Commit
  <2>1. /\ head'.time = now /\ now' = now /\ changing' = {} /\ timer' = [n \in Nodes |-> PhaseTimeout]
        /\ leader' = [n \in Nodes |-> head'.leader] /\ vcID' = vcID
    BY <1>2 DEF Commit
  <2>2. TypeOK'
    BY <2>1
  <2>3. Waiting'
    BY <2>1 DEF Waiting, Stuck
  <2>4. Changing'
    BY <2>1 DEF Changing
  <2> QED BY <2>2, <2>3, <2>4
<1>3. ASSUME NEW n \in Nodes, StartViewChange(n) PROVE IInv'
  <2>1. /\ timer[n] = 0 /\ changing' = changing \cup {n} /\ UNCHANGED <<now, head>>
        /\ vcID' = [vcID EXCEPT ![n] = GetNextViewID(n).view]
        /\ leader' = [leader EXCEPT ![n] = GetNextLeaderKey(GetNextViewID(n).view)]
        /\ timer' = [timer EXCEPT ![n] = GetNextViewID(n).wait]
    BY <1>3 DEF StartViewChange
  <2>2. Stuck > 0
    BY <1>0, <2>1 DEF Waiting
  <2>3. /\ GetNextViewID(n).view = Stuck \div ViewChangeSlot + 1 + StuckView
        /\ GetNextViewID(n).wait = ViewChangeTimeout
    BY <2>2 DEF GetNextViewID, Clock, Stuck
  <2>4. TypeOK'
    BY <2>1, <2>3
  <2>5. Stuck' = Stuck /\ StuckView' = StuckView
    BY <2>1 DEF Stuck, StuckView
  <2>6. Waiting'
    BY <2>1, <2>2, <2>5 DEF Waiting
  <2>7. Changing'
    <3> SUFFICES ASSUME NEW m \in changing'
                 PROVE  /\ timer'[m] <= ViewChangeTimeout
                        /\ StartedAt(m)' > 0
                        /\ vcID'[m] = StartedAt(m)' \div ViewChangeSlot + 1 + StuckView'
                        /\ leader'[m] = GetNextLeaderKey(vcID[m])'
      BY DEF Changing
    <3>1. CASE m = n
      <4>1. timer'[n] = ViewChangeTimeout /\ vcID'[n] = Stuck \div ViewChangeSlot + 1 + StuckView
        BY <2>1, <2>3
      <4>2. StartedAt(n)' = Stuck
        BY <1>0, <2>5, <4>1 DEF StartedAt
      <4>3. leader'[n] = GetNextLeaderKey(vcID[n])'
        BY <2>1 DEF GetNextLeaderKey, StuckView
      <4> QED BY <2>2, <2>5, <3>1, <4>1, <4>2, <4>3
    <3>2. CASE m # n
      <4>1. /\ m \in changing /\ m \in Nodes /\ timer'[m] = timer[m] /\ vcID'[m] = vcID[m]
            /\ leader'[m] = leader[m]
        BY <2>1, <3>2
      <4>2. StartedAt(m)' = StartedAt(m)
        BY <2>5, <4>1 DEF StartedAt
      <4>3. GetNextLeaderKey(vcID[m])' = GetNextLeaderKey(vcID[m])
        BY <2>1, <4>1 DEF GetNextLeaderKey, StuckView
      <4> QED BY <2>5, <4>1, <4>2, <4>3 DEF Changing
    <3> QED BY <3>1, <3>2
  <2> QED BY <2>4, <2>6, <2>7
<1>4. CASE UNCHANGED vars
  <2>1. UNCHANGED <<now, head, timer, changing, vcID, leader>>
    BY <1>4 DEF vars
  <2> QED BY <2>1 DEF Waiting, Changing, Stuck, StartedAt, StuckView, GetNextLeaderKey
<1> QED BY <1>1, <1>2, <1>3, <1>4 DEF Next

\* Nodes that are stuck on a block meet: by the end of every slot all of them are
\* changing to the same view and follow the same leader, whenever each of them timed
\* out (getNextViewID, getNextLeaderKey), as long as their clocks agree and the view
\* change timeout does not exceed the slot.
THEOREM StuckNodesMeet ==
    ASSUME Synchronous
    PROVE  Spec => []NodesMeet
<1>1. Init => IInv
  BY DEF Synchronous, Init, IInv, TypeOK, Waiting, Changing, Stuck
<1>2. IInv => NodesMeet
  <2> SUFFICES ASSUME IInv, SlotEnds, NEW m \in Nodes, NEW n \in Nodes
               PROVE  m \in changing /\ vcID[m] = vcID[n] /\ leader[m] = leader[n]
    BY DEF NodesMeet
  <2>1. /\ Stuck \in Nat /\ (Stuck + 1) % ViewChangeSlot = 0 /\ Stuck >= PhaseTimeout
        /\ ViewChangeSlot \in Nat \ {0} /\ \A x \in Nodes : timer[x] \in Nat /\ timer[x] > 0
    BY DEF IInv, TypeOK, SlotEnds, Stuck, Synchronous
  <2>2. \A x \in Nodes : x \in changing
    BY <2>1 DEF IInv, Waiting, Synchronous
  <2>3. ASSUME NEW x \in Nodes
        PROVE  /\ vcID[x] = (Stuck + 1) \div ViewChangeSlot - 1 + 1 + StuckView
               /\ leader[x] = GetNextLeaderKey(vcID[x])
    <3>1. /\ StartedAt(x) \in Nat /\ StartedAt(x) <= Stuck /\ Stuck - StartedAt(x) < ViewChangeSlot
      BY <2>1, <2>2 DEF IInv, Changing, StartedAt, Synchronous
    <3>2. StartedAt(x) \div ViewChangeSlot = (Stuck + 1) \div ViewChangeSlot - 1
      BY <2>1, <3>1, SameSlot
    <3> QED BY <2>2, <3>2 DEF IInv, Changing
  <2> QED BY <2>2, <2>3
<1> QED BY <1>1, <1>2, Inductive, PTL DEF Spec

-----------------------------------------------------------------------------
(* MessageSender.                                                          *)

CONSTANTS RetryTimes, Blocks

VARIABLES senderBlockNum, messagesToRetry, active, watched, retry, retryCount, late,
          step, storing, preCommit

Sender == INSTANCE MessageSender

SenderTypes ==
    /\ senderBlockNum \in Nat /\ watched.block \in Nat /\ late \in Nat
    /\ step = <<step[1], step[2]>> /\ step[1] \in Nat

\* A message that was sent late is not about to be sent: its goroutine has to compare
\* the block numbers again, and the sender's number never goes back.
SentOnce ==
    watched.type # "COMMITTED" =>
        \/ late = 0
        \/ late = 1 /\ watched.block < senderBlockNum /\ retry # "send"

SenderInv == SenderTypes /\ SentOnce

\* Every step of the leader's handlers, of preCommitAndPropose and of the retry
\* goroutine keeps the invariant.
LEMMA SenderInductive ==
    ASSUME SenderInv, [Sender!Next]_Sender!vars
    PROVE  SenderInv'
<1> USE DEF SenderInv, SenderTypes, SentOnce
<1>1. ASSUME UNCHANGED <<senderBlockNum, watched, late>>, retry' # "send" \/ retry' = retry,
             step' = <<step'[1], step'[2]>>, step'[1] \in Nat
      PROVE  SenderInv'
  BY <1>1
<1>2. ASSUME NEW types, Sender!StopRetry(types) PROVE UNCHANGED <<senderBlockNum, watched, late, retry>>
  BY <1>2 DEF Sender!StopRetry
<1>3. ASSUME NEW m, Sender!StoreAndRetry(m)
      PROVE  UNCHANGED <<senderBlockNum, watched, late>> /\ (retry' # "send" \/ retry' = retry)
  BY <1>3 DEF Sender!StoreAndRetry
<1>4. CASE Sender!BlockChannel
  BY <1>4 DEF Sender!BlockChannel, Sender!Reset
<1>5. ASSUME NEW at, NEW m, Sender!Begin(at, m) PROVE SenderInv'
  <2>1. Sender!StopRetry({m.type}) /\ step' = step
    BY <1>5 DEF Sender!Begin
  <2> QED BY <1>1, <1>2, <2>1
<1>6. CASE Sender!Announce
  <2> DEFINE m == Sender!Message("ANNOUNCE", step[1], FALSE)
  <2>1. Sender!Begin("announce", m) \/ (Sender!StoreAndRetry(m) /\ step' = <<step[1], "prepared">>)
    BY <1>6 DEF Sender!Announce
  <2> HIDE DEF m
  <2> QED BY <1>1, <1>3, <1>5, <2>1
<1>7. CASE Sender!DidReachPrepareQuorum
  <2> DEFINE m == Sender!Message("PREPARED", step[1], FALSE)
  <2>1. \/ Sender!Begin("prepared", m)
        \/ Sender!StoreAndRetry(m) /\ step' = <<step[1], "stop">>
        \/ Sender!StopRetry({"ANNOUNCE", "COMMITTED"}) /\ step' = <<step[1], "quorum">>
    BY <1>7 DEF Sender!DidReachPrepareQuorum
  <2> HIDE DEF m
  <2> QED BY <1>1, <1>2, <1>3, <1>5, <2>1
<1>8. CASE Sender!OnCommit
  <2>1. Sender!StopRetry({"PREPARED"}) /\ step' = <<step[1], "final">>
    BY <1>8 DEF Sender!OnCommit
  <2> QED BY <1>1, <1>2, <2>1
<1>9. CASE Sender!FinalCommit
  <2> DEFINE m == Sender!Message("COMMITTED", step[1], TRUE)
  <2>1. \/ Sender!Begin("final", m)
        \/ /\ Sender!StoreAndRetry(m)
           /\ step' = <<step[1] + 1, "announce">> \/ step' = <<step[1], "end">>
    BY <1>9 DEF Sender!FinalCommit
  <2> HIDE DEF m
  <2> QED BY <1>1, <1>3, <1>5, <2>1
<1>10. ASSUME NEW b \in 1..Blocks, Sender!PreCommitAndPropose(b) PROVE SenderInv'
  <2>1. /\ step' = step
        /\ \/ Sender!StopRetry({"COMMITTED"})
           \/ Sender!StoreAndRetry(Sender!Message("COMMITTED", b, FALSE))
    BY <1>10 DEF Sender!PreCommitAndPropose
  <2> QED BY <1>1, <1>2, <1>3, <2>1
<1>11. CASE Sender!RetryWakes
  BY <1>1, <1>11 DEF Sender!RetryWakes
<1>12. CASE Sender!RetryChecksNumber
  BY <1>12 DEF Sender!RetryChecksNumber
<1>13. CASE Sender!RetrySends
  BY <1>13 DEF Sender!RetrySends
<1>14. CASE UNCHANGED Sender!vars
  BY <1>1, <1>14 DEF Sender!vars
<1> QED
  BY <1>4, <1>6, <1>7, <1>8, <1>9, <1>10, <1>11, <1>12, <1>13, <1>14
  DEF Sender!Next, Sender!Leader, Sender!Retry

\* Whatever the interleaving of the retry goroutine with Reset, a message of an earlier
\* round other than COMMITTED is sent at most once more (Retry checks the number last).
THEOREM RetriesEnd ==
    Sender!Spec => []Sender!StopsWithRound
<1>1. Sender!Init => SenderInv
  BY DEF Sender!Init, Sender!Messages, SenderInv, SenderTypes, SentOnce
<1>2. SenderInv => Sender!StopsWithRound
  BY DEF SenderInv, SenderTypes, SentOnce, Sender!StopsWithRound
<1> QED BY <1>1, <1>2, SenderInductive, PTL DEF Sender!Spec
-----------------------------------------------------------------------------
(* LeaderRotation.                                                         *)

CONSTANTS NumKeys, Owner, NumItcNodes, External, BlocksInRow, BlocksCountAliveness,
          EpochLength, Alive, Flaky, MaxGap, Impatient

VARIABLES lead, proposer, coinbase, count, position, signers, bitmaps, silent

Rotation == INSTANCE LeaderRotation WITH leader <- lead

\* The run of a leader is no shorter than the number of headers that are looked at:
\* minimumBlocksForLeaderInRow is blocksCountAliveness.
RunCoversHeaders ==
    /\ NumKeys \in Nat \ {0} /\ NumItcNodes \in Nat
    /\ BlocksCountAliveness \in Nat \ {0} /\ BlocksInRow \in Nat
    /\ BlocksCountAliveness <= BlocksInRow
    /\ EpochLength \in Nat \ {0} /\ MaxGap \in Nat
    /\ Alive \subseteq Rotation!KeyIndexes /\ Flaky \subseteq Rotation!KeyIndexes

\* NthNextValidator ends: it finds a key of another validator.
SearchEnds ==
    External => \A key \in Rotation!KeyIndexes, next \in 1..NumKeys :
                    Rotation!NthNextValidator(key, next) # Rotation!Hangs

RotationTypes ==
    /\ lead \in Rotation!KeyIndexes \cup {Rotation!Hangs}
    /\ proposer \in Rotation!KeyIndexes \cup {Rotation!Hangs}
    /\ lead # Rotation!Hangs => proposer # Rotation!Hangs
    /\ coinbase \in Rotation!KeyIndexes
    /\ count \in Nat /\ position \in Nat
    /\ signers \subseteq Rotation!KeyIndexes
    /\ bitmaps \in Seq(SUBSET Rotation!KeyIndexes)
    /\ silent \in [Rotation!KeyIndexes -> Nat]

\* The headers of the epoch cover the leader's run, or as much of it as is looked at,
\* and a key is silent for no longer than its latest signature in them is old.
HeadersCoverRun ==
    /\ Len(bitmaps) <= BlocksCountAliveness
    /\ Len(bitmaps) = BlocksCountAliveness \/ Len(bitmaps) >= count
    /\ \A k \in signers : silent[k] = 0
    /\ \A i \in 1..Len(bitmaps) : \A k \in bitmaps[i] : silent[k] <= i

RotationInv == RotationTypes /\ HeadersCoverRun

\* The least element of a nonempty set of numbers, and of two.
LEMMA LeastIn ==
    ASSUME NEW S, S \subseteq Nat, S # {}
    PROVE  Rotation!Min(S) \in S
<1>1. PICK m \in S : \A y \in S : m <= y
  BY MinOfNat, Zenon
<1> QED BY <1>1, Zenon DEF Rotation!Min

LEMMA LeastOfTwo ==
    ASSUME NEW a \in Nat, NEW b \in Nat
    PROVE  Rotation!Min({a, b}) = IF a <= b THEN a ELSE b
<1>1. /\ a <= b => a \in {a, b} /\ \A y \in {a, b} : a <= y
      /\ ~(a <= b) => b \in {a, b} /\ \A y \in {a, b} : b <= y
  OBVIOUS
<1>2. \A x \in {a, b} : (\A y \in {a, b} : x <= y) => x = IF a <= b THEN a ELSE b
  OBVIOUS
<1> QED BY <1>1, <1>2 DEF Rotation!Min

\* A search that ends names a key of the committee (NthNextItc, NthNextValidator).
LEMMA NextIsKey ==
    ASSUME RunCoversHeaders, NEW key \in Rotation!KeyIndexes, NEW next \in Nat
    PROVE  Rotation!NthNext(key, next) \in Rotation!KeyIndexes \cup {Rotation!Hangs}
<1>1. /\ Rotation!NumOperated \in Nat \ {0} /\ Rotation!NumOperated <= NumKeys
      /\ key \in Nat /\ NumKeys \in Nat \ {0}
  BY DEF RunCoversHeaders, Rotation!NumOperated, Rotation!KeyIndexes
<1>2. Rotation!NthNextItc(key, next) \in Rotation!KeyIndexes
  <2>1. (key + next) % Rotation!NumOperated \in 0..Rotation!NumOperated - 1
    BY <1>1
  <2> QED BY <1>1, <2>1 DEF Rotation!NthNextItc, Rotation!KeyIndexes
<1>3. Rotation!NthNextValidator(key, next) \in Rotation!KeyIndexes \cup {Rotation!Hangs}
  <2> DEFINE visit(i) == (key + i * next + (i - 1)) % NumKeys
             others == {i \in 1..NumKeys : Owner[visit(i)] # Owner[key]}
  <2>1. ASSUME NEW i \in 1..NumKeys PROVE visit(i) \in Rotation!KeyIndexes
    <3>1. i * next \in Nat
      BY <1>1
    <3>2. key + i * next + (i - 1) \in Nat
      BY <1>1, <3>1
    <3> QED BY <1>1, <3>2 DEF Rotation!KeyIndexes
  <2>2. others # {} => Rotation!Min(others) \in 1..NumKeys
    <3>1. others \subseteq 1..NumKeys /\ others \subseteq Nat
      BY <1>1
    <3> HIDE DEF others
    <3> QED BY <3>1, LeastIn, Zenon
  <2>3. Rotation!NthNextValidator(key, next)
            = IF others = {} THEN Rotation!Hangs ELSE visit(Rotation!Min(others))
    BY DEF Rotation!NthNextValidator
  <2> HIDE DEF visit, others
  <2> QED BY <2>1, <2>2, <2>3
<1> QED BY <1>2, <1>3 DEF Rotation!NthNext

\* Where every key has its own validator the search always ends.
LEMMA OneKeyEach ==
    ASSUME RunCoversHeaders, NumKeys > 1,
           \A j \in Rotation!KeyIndexes, k \in Rotation!KeyIndexes : Owner[j] = Owner[k] => j = k
    PROVE  SearchEnds
<1> SUFFICES ASSUME NEW key \in Rotation!KeyIndexes, NEW next \in 1..NumKeys
             PROVE  Rotation!NthNextValidator(key, next) # Rotation!Hangs
  BY DEF SearchEnds
<1> DEFINE visit(i) == (key + i * next + (i - 1)) % NumKeys
           others == {i \in 1..NumKeys : Owner[visit(i)] # Owner[key]}
<1>1. NumKeys \in Nat /\ key \in 0..NumKeys - 1
  BY DEF RunCoversHeaders, Rotation!KeyIndexes
<1>2. ASSUME NEW i \in 1..NumKeys PROVE visit(i) \in Rotation!KeyIndexes
  <2>1. i * next \in Nat
    BY <1>1
  <2>2. key + i * next + (i - 1) \in Nat
    BY <1>1, <2>1
  <2> QED BY <1>1, <2>2 DEF Rotation!KeyIndexes
<1>3. next < NumKeys => visit(1) # key
  <2> HAVE next < NumKeys
  <2>1. visit(1) = (key + next) % NumKeys
    BY <1>1
  <2>2. CASE key + next < NumKeys
    <3>1. (key + next) % NumKeys = key + next
      BY <1>1, <2>2
    <3> QED BY <1>1, <2>1, <3>1
  <2>3. CASE key + next >= NumKeys
    <3>1. (key + next) % NumKeys = key + next - NumKeys
      BY <1>1, <2>3
    <3> QED BY <1>1, <2>1, <3>1
  <2> QED BY <1>1, <2>2, <2>3
<1>4. next = NumKeys => visit(2) # key
  <2> HAVE next = NumKeys
  <2>1. visit(2) = (key + 1 + 2 * NumKeys) % NumKeys
    BY <1>1
  <2>2. CASE key + 1 < NumKeys
    <3>1. (key + 1 + 2 * NumKeys) % NumKeys = key + 1
      BY <1>1, <2>2
    <3> QED BY <1>1, <2>1, <3>1
  <2>3. CASE key + 1 = NumKeys
    <3>1. (3 * NumKeys) % NumKeys = 0
      BY <1>1
    <3>2. key + 1 + 2 * NumKeys = 3 * NumKeys
      BY <1>1, <2>3
    <3> QED BY <1>1, <2>1, <2>3, <3>1, <3>2
  <2> QED BY <1>1, <2>2, <2>3
<1>5. others # {}
  <2> HIDE DEF visit
  <2>1. ASSUME NEW i \in 1..NumKeys, visit(i) # key PROVE others # {}
    BY <1>2, <2>1
  <2>2. 1 \in 1..NumKeys /\ 2 \in 1..NumKeys /\ (next < NumKeys \/ next = NumKeys)
    BY <1>1
  <2> HIDE DEF others
  <2> QED BY <1>3, <1>4, <2>1, <2>2
<1>6. PICK i \in 1..NumKeys : Rotation!NthNextValidator(key, next) = visit(i)
  <2>1. others \subseteq 1..NumKeys /\ others \subseteq Nat
    BY <1>1
  <2>2. Rotation!NthNextValidator(key, next)
            = IF others = {} THEN Rotation!Hangs ELSE visit(Rotation!Min(others))
    BY DEF Rotation!NthNextValidator
  <2> HIDE DEF others, visit
  <2>3. Rotation!Min(others) \in others
    BY <1>5, <2>1, LeastIn, Zenon
  <2> QED BY <1>5, <2>1, <2>2, <2>3
<1> HIDE DEF visit
<1> QED BY <1>1, <1>2, <1>6 DEF Rotation!KeyIndexes, Rotation!Hangs

\* What a commit does to the headers that are looked at.
LEMMA HeadersPushed ==
    ASSUME RunCoversHeaders, RotationInv, NEW s, Rotation!Commit(s)
    PROVE  LET old == IF Rotation!LastInEpoch THEN <<>> ELSE bitmaps
           IN  /\ bitmaps' \in Seq(SUBSET Rotation!KeyIndexes)
               /\ Len(bitmaps') = IF Len(old) + 1 <= BlocksCountAliveness
                                  THEN Len(old) + 1 ELSE BlocksCountAliveness
               /\ bitmaps'[1] = signers
               /\ \A i \in 2..Len(bitmaps') : bitmaps'[i] = old[i - 1]
<1> DEFINE old == IF Rotation!LastInEpoch THEN <<>> ELSE bitmaps
           all == <<signers>> \o old
           n == Rotation!Min({Len(all), BlocksCountAliveness})
<1>1. old \in Seq(SUBSET Rotation!KeyIndexes) /\ <<signers>> \in Seq(SUBSET Rotation!KeyIndexes)
  BY DEF RotationInv, RotationTypes
<1>2. bitmaps' = SubSeq(all, 1, n)
  BY DEF Rotation!Commit
<1> HIDE DEF old
<1>3. /\ all \in Seq(SUBSET Rotation!KeyIndexes) /\ Len(all) = Len(old) + 1 /\ all[1] = signers
      /\ \A i \in 2..Len(all) : all[i] = old[i - 1]
      /\ Len(old) \in Nat
  BY <1>1
<1> HIDE DEF all
<1>4. BlocksCountAliveness \in Nat \ {0}
  BY DEF RunCoversHeaders
<1>5. n = IF Len(old) + 1 <= BlocksCountAliveness THEN Len(old) + 1 ELSE BlocksCountAliveness
  BY <1>3, <1>4, LeastOfTwo
<1> HIDE DEF n
<1>6. n \in 1..Len(all)
  BY <1>3, <1>4, <1>5
<1>7. /\ SubSeq(all, 1, n) \in Seq(SUBSET Rotation!KeyIndexes) /\ Len(SubSeq(all, 1, n)) = n
      /\ \A i \in 1..n : SubSeq(all, 1, n)[i] = all[i]
  BY <1>3, <1>6
<1>8. /\ bitmaps' \in Seq(SUBSET Rotation!KeyIndexes)
      /\ Len(bitmaps') = IF Len(old) + 1 <= BlocksCountAliveness
                         THEN Len(old) + 1 ELSE BlocksCountAliveness
      /\ bitmaps'[1] = signers
      /\ \A i \in 2..Len(bitmaps') : bitmaps'[i] = old[i - 1]
  BY <1>2, <1>3, <1>5, <1>6, <1>7
<1> QED BY <1>8 DEF old
\* A leader that has had its run hands over to a key that is not asleep.
LEMMA HandsOver ==
    ASSUME RunCoversHeaders, SearchEnds, lead \in Rotation!KeyIndexes, NEW maps
    PROVE  LET next == Rotation!NextAwake(lead, lead, maps)
           IN  /\ next \in Rotation!KeyIndexes
               /\ next = lead \/ ~Rotation!Asleep(next, maps)
<1> DEFINE stops == {o \in 1..NumKeys : \/ Rotation!NthNext(lead, o) = Rotation!Hangs
                                        \/ ~Rotation!Asleep(Rotation!NthNext(lead, o), maps)}
           next == Rotation!NextAwake(lead, lead, maps)
<1> SUFFICES next \in Rotation!KeyIndexes /\ (next = lead \/ ~Rotation!Asleep(next, maps))
  OBVIOUS
<1>1. next = IF stops = {} THEN lead ELSE Rotation!NthNext(lead, Rotation!Min(stops))
  BY DEF Rotation!NextAwake
<1>2. stops # {} => Rotation!Min(stops) \in stops
  <2>1. stops \subseteq Nat
    BY DEF RunCoversHeaders
  <2> HIDE DEF stops
  <2> QED BY <2>1, LeastIn, Zenon
<1>3. ASSUME NEW o \in 1..NumKeys
      PROVE  Rotation!NthNext(lead, o) \in Rotation!KeyIndexes
  <2>1. Rotation!NthNext(lead, o) \in Rotation!KeyIndexes \cup {Rotation!Hangs}
    BY NextIsKey DEF RunCoversHeaders
  <2>2. NumKeys \in Nat
    BY DEF RunCoversHeaders
  <2>3. ~External => Rotation!NthNext(lead, o) # Rotation!Hangs
    <3>1. /\ Rotation!NumOperated \in Nat \ {0} /\ Rotation!NumOperated <= NumKeys /\ lead + o \in Nat
      BY DEF RunCoversHeaders, Rotation!NumOperated, Rotation!KeyIndexes
    <3>2. (lead + o) % Rotation!NumOperated < NumKeys
      BY <2>2, <3>1
    <3> QED BY <2>2, <3>1, <3>2 DEF Rotation!NthNext, Rotation!NthNextItc, Rotation!Hangs
  <2>4. External => Rotation!NthNext(lead, o) # Rotation!Hangs
    BY DEF SearchEnds, Rotation!NthNext
  <2> QED BY <2>1, <2>3, <2>4
<1>4. \A k \in Rotation!KeyIndexes : k # Rotation!Hangs
  BY DEF RunCoversHeaders, Rotation!KeyIndexes, Rotation!Hangs
<1> HIDE DEF next
<1>5. CASE stops = {}
  BY <1>1, <1>5
<1>6. CASE stops # {}
  <2>1. PICK o \in 1..NumKeys : next = Rotation!NthNext(lead, o) /\ o \in stops
    BY <1>1, <1>2, <1>6
  <2> QED BY <1>3, <1>4, <2>1
<1> HIDE DEF stops
<1> QED BY <1>5, <1>6

\* A commit keeps the invariant.
LEMMA CommitKeeps ==
    ASSUME RunCoversHeaders, SearchEnds, RotationInv,
           NEW s \in SUBSET Rotation!KeyIndexes, Rotation!Commit(s)
    PROVE  RotationInv'
<1> DEFINE old == IF Rotation!LastInEpoch THEN <<>> ELSE bitmaps
<1>1. /\ bitmaps' \in Seq(SUBSET Rotation!KeyIndexes)
      /\ Len(bitmaps') = IF Len(old) + 1 <= BlocksCountAliveness
                         THEN Len(old) + 1 ELSE BlocksCountAliveness
      /\ bitmaps'[1] = signers
      /\ \A i \in 2..Len(bitmaps') : bitmaps'[i] = old[i - 1]
  BY HeadersPushed
<1>2. /\ lead \in Rotation!KeyIndexes /\ proposer \in Rotation!KeyIndexes
      /\ coinbase' = proposer /\ proposer' = lead' /\ signers' = s
      /\ position' = (position + 1) % EpochLength
      /\ count' = IF coinbase = proposer /\ ~Rotation!LastInEpoch
                  THEN Rotation!Min({count + 1, BlocksInRow}) ELSE 1
      /\ silent' = [k \in Rotation!KeyIndexes |->
                       IF k \in s THEN 0
                       ELSE Rotation!Min({silent[k] + 1, BlocksCountAliveness + 1})]
  BY DEF RotationInv, RotationTypes, Rotation!Commit
<1>3. lead' \in Rotation!KeyIndexes
  <2>1. lead' = lead \/ lead' = Rotation!NextAwake(lead, lead, bitmaps')
    BY DEF Rotation!Commit
  <2> QED BY <1>2, <2>1, HandsOver
<1>4. /\ BlocksCountAliveness \in Nat \ {0} /\ BlocksInRow \in Nat /\ EpochLength \in Nat \ {0}
      /\ BlocksCountAliveness <= BlocksInRow
  BY DEF RunCoversHeaders
<1>5. \A k \in Rotation!KeyIndexes :
         /\ silent[k] \in Nat /\ silent'[k] \in Nat /\ silent'[k] <= silent[k] + 1
         /\ k \in s => silent'[k] = 0
  <2> TAKE k \in Rotation!KeyIndexes
  <2>1. silent[k] \in Nat
    BY DEF RotationInv, RotationTypes
  <2>2. Rotation!Min({silent[k] + 1, BlocksCountAliveness + 1})
            = IF silent[k] + 1 <= BlocksCountAliveness + 1
              THEN silent[k] + 1 ELSE BlocksCountAliveness + 1
    BY <1>4, <2>1, LeastOfTwo
  <2>3. silent'[k] = IF k \in s THEN 0 ELSE Rotation!Min({silent[k] + 1, BlocksCountAliveness + 1})
    BY <1>2
  <2> QED BY <1>4, <2>1, <2>2, <2>3
<1>6. count \in Nat /\ count' \in Nat /\ count' <= IF Rotation!LastInEpoch THEN 1 ELSE count + 1
  <2>1. count \in Nat
    BY DEF RotationInv, RotationTypes
  <2>2. Rotation!Min({count + 1, BlocksInRow})
            = IF count + 1 <= BlocksInRow THEN count + 1 ELSE BlocksInRow
    BY <1>4, <2>1, LeastOfTwo
  <2> QED BY <1>2, <1>4, <2>1, <2>2
<1>7. RotationTypes'
  <2>1. position' \in Nat
    BY <1>2, <1>4 DEF RotationInv, RotationTypes
  <2>2. silent' \in [Rotation!KeyIndexes -> Nat]
    BY <1>2, <1>5
  <2>3. \A k \in Rotation!KeyIndexes : k # Rotation!Hangs
    BY DEF RunCoversHeaders, Rotation!KeyIndexes, Rotation!Hangs
  <2> QED BY <1>1, <1>2, <1>3, <1>6, <2>1, <2>2, <2>3 DEF RotationTypes
<1>8. /\ Len(old) \in Nat
      /\ ~Rotation!LastInEpoch => old = bitmaps
      /\ Rotation!LastInEpoch => Len(old) = 0
      /\ \A i \in 1..Len(old) : \A k \in old[i] : k \in Rotation!KeyIndexes /\ silent[k] <= i
  BY DEF RotationInv, RotationTypes, HeadersCoverRun
<1>9. Len(bitmaps') <= BlocksCountAliveness
      /\ (Len(bitmaps') = BlocksCountAliveness \/ Len(bitmaps') >= count')
  <2>1. ~Rotation!LastInEpoch => Len(old) = BlocksCountAliveness \/ Len(old) >= count
    BY <1>8 DEF RotationInv, HeadersCoverRun
  <2> HIDE DEF old
  <2> QED BY <1>1, <1>4, <1>6, <1>8, <2>1
<1>10. ASSUME NEW i \in 1..Len(bitmaps'), NEW k \in bitmaps'[i] PROVE silent'[k] <= i
  <2>1. CASE i = 1
    <3>1. k \in signers /\ k \in Rotation!KeyIndexes /\ silent[k] = 0
      BY <1>1, <1>10, <2>1 DEF RotationInv, RotationTypes, HeadersCoverRun
    <3> QED BY <1>5, <2>1, <3>1
  <2>2. CASE i # 1
    <3> HIDE DEF old
    <3>1. i \in 2..Len(bitmaps') /\ i - 1 \in 1..Len(old)
      BY <1>1, <1>4, <1>8, <2>2
    <3>2. k \in old[i - 1]
      BY <1>1, <1>10, <3>1
    <3>3. k \in Rotation!KeyIndexes /\ silent[k] <= i - 1
      BY <1>8, <3>1, <3>2
    <3> QED BY <1>5, <3>1, <3>3
  <2> QED BY <2>1, <2>2
<1> QED BY <1>2, <1>5, <1>7, <1>9, <1>10 DEF RotationInv, HeadersCoverRun

\* Commits and view changes keep the invariant.
LEMMA RotationInductive ==
    ASSUME RunCoversHeaders, SearchEnds, RotationInv, [Rotation!Next]_Rotation!vars
    PROVE  RotationInv'
<1>1. ASSUME NEW some \in SUBSET Flaky, Rotation!Commit(Alive \cup some) PROVE RotationInv'
  <2>1. Alive \cup some \in SUBSET Rotation!KeyIndexes
    BY DEF RunCoversHeaders
  <2> QED BY <1>1, <2>1, CommitKeeps
<1>2. ASSUME NEW gap \in 1..MaxGap, Rotation!ViewChange(gap) PROVE RotationInv'
  <2> DEFINE from == IF Rotation!LastInEpoch THEN 0 ELSE coinbase
  <2>1. from \in Rotation!KeyIndexes /\ gap \in Nat
    BY DEF RunCoversHeaders, Rotation!KeyIndexes, RotationInv, RotationTypes
  <2>2. /\ lead' = Rotation!NthNext(from, gap) /\ proposer' \in {lead', proposer} /\ lead # Rotation!Hangs
        /\ UNCHANGED <<coinbase, count, position, signers, bitmaps, silent>>
    BY <1>2 DEF Rotation!ViewChange
  <2> HIDE DEF from
  <2>3. lead' \in Rotation!KeyIndexes \cup {Rotation!Hangs}
    BY <2>1, <2>2, NextIsKey
  <2> QED BY <2>2, <2>3 DEF RotationInv, RotationTypes, HeadersCoverRun
<1>3. CASE UNCHANGED Rotation!vars
  BY <1>3 DEF Rotation!vars, RotationInv, RotationTypes, HeadersCoverRun
<1> QED BY <1>1, <1>2, <1>3 DEF Rotation!Next

\* A leader that has had its run hands over only to a key that signed one of the latest
\* blocks (rotateLeader), for every committee, epoch length and run: the headers of the
\* epoch that are there when the run ends are always as many as are looked at, because
\* the run is no shorter (minimumBlocksForLeaderInRow).
THEOREM LeadersHaveSigned ==
    ASSUME RunCoversHeaders, SearchEnds
    PROVE  Rotation!Spec => Rotation!RotatesToSigner
<1> DEFINE Signed == position' # position /\ lead' # lead => silent'[lead'] <= BlocksCountAliveness
<1>1. Rotation!Init => RotationInv
  <2> SUFFICES ASSUME Rotation!Init PROVE RotationInv
    OBVIOUS
  <2>1. RotationTypes
    BY DEF Rotation!Init, RotationTypes, RunCoversHeaders, Rotation!KeyIndexes, Rotation!Hangs
  <2>2. Len(bitmaps) = 1 /\ bitmaps[1] = Alive \cup Flaky /\ signers = Alive \cup Flaky /\ count = 1
    BY DEF Rotation!Init
  <2>3. \A k \in Alive \cup Flaky : silent[k] = 0
    BY DEF Rotation!Init, RunCoversHeaders
  <2> QED BY <2>1, <2>2, <2>3 DEF RotationInv, HeadersCoverRun, RunCoversHeaders
<1>2. ASSUME RotationInv, RotationInv', [Rotation!Next]_Rotation!vars PROVE Signed
  <2> SUFFICES ASSUME position' # position, lead' # lead
               PROVE  silent'[lead'] <= BlocksCountAliveness
    OBVIOUS
  <2>1. PICK s : Rotation!Commit(s)
    BY <1>2 DEF Rotation!Next, Rotation!ViewChange, Rotation!vars
  <2>2. lead' = Rotation!NextAwake(lead, lead, bitmaps') /\ count' >= BlocksInRow
        /\ lead \in Rotation!KeyIndexes
    BY <1>2, <2>1 DEF Rotation!Commit, RotationInv, RotationTypes, RunCoversHeaders
  <2>3. lead' \in Rotation!KeyIndexes /\ ~Rotation!Asleep(lead', bitmaps')
    BY <2>2, HandsOver
  <2>4. /\ BlocksCountAliveness \in Nat /\ BlocksInRow \in Nat /\ BlocksCountAliveness <= BlocksInRow
        /\ count' \in Nat /\ Len(bitmaps') \in Nat /\ Len(bitmaps') <= BlocksCountAliveness
        /\ Len(bitmaps') = BlocksCountAliveness \/ Len(bitmaps') >= count'
    BY <1>2 DEF RunCoversHeaders, RotationInv, RotationTypes, HeadersCoverRun
  <2>5. PICK i \in 1..Len(bitmaps') : lead' \in bitmaps'[i]
    BY <2>2, <2>3, <2>4 DEF Rotation!Asleep
  <2>6. silent'[lead'] <= i /\ silent'[lead'] \in Nat
    BY <1>2, <2>3, <2>5 DEF RotationInv, RotationTypes, HeadersCoverRun
  <2> QED BY <2>4, <2>6
<1>3. RotationInv /\ RotationInv' /\ [Rotation!Next]_Rotation!vars => [Signed]_Rotation!vars
  BY <1>2
<1>4. RotationInv /\ [Rotation!Next]_Rotation!vars => RotationInv'
  BY RotationInductive
<1> QED BY <1>1, <1>3, <1>4, PTL DEF Rotation!Spec, Rotation!RotatesToSigner
=============================================================================
