--------------------------- MODULE FollowerProofs ---------------------------
(***************************************************************************)
(* A node other than the leader, while the view does not change: whatever   *)
(* it handles, it keeps a block of the leader's chain, with signatures of a *)
(* quorum for every block, and its log and its messages are about blocks of *)
(* that chain or about the block of the leader's round.  The lemmas hold    *)
(* for every size of the committee, all weights and heights; FBFTProofs     *)
(* puts them together with the leader.                                      *)
(***************************************************************************)
EXTENDS FBFTHandlers, Induction, FiniteSetTheorems

(***************************************************************************)
(* Blocks.                                                                  *)
(***************************************************************************)
Headers == [view : Nat, leader : Node, nonce : Nat]

\* A chain that node 1 has led from the first block.
IsChain(t) ==
  /\ t \in Seq(Headers) /\ Len(t) > 0
  /\ \A i \in 1..Len(t) : t[i].view = i /\ t[i].leader = 1

\* The blocks of the chain t.
BlocksOf(t) == {SubSeq(t, 1, k) : k \in 1..Len(t)}

\* A block of a chain is a chain, and its number and its header are known.
LEMMA BlockFacts ==
  ASSUME NEW t, IsChain(t), NEW b \in BlocksOf(t)
  PROVE  /\ IsChain(b) /\ b # NoBlock /\ Number(b) = Len(b)
         /\ Number(b) \in 1..Number(t) /\ Number(t) \in Nat
         /\ b = SubSeq(t, 1, Number(b))
         /\ Header(b).view = Number(b) /\ Header(b).leader = 1
<1>1. PICK k \in 1..Len(t) : b = SubSeq(t, 1, k)  BY Zenon DEF BlocksOf
<1>2. t \in Seq(Headers) /\ Len(t) \in Nat  BY DEF IsChain
<1>3. b \in Seq(Headers) /\ Len(b) = k /\ \A i \in 1..k : b[i] = t[i]
  BY <1>1, <1>2
<1>4. IsChain(b)  BY <1>1, <1>2, <1>3 DEF IsChain
<1>5. b # NoBlock  BY <1>3, <1>1 DEF NoBlock
<1> QED  BY <1>1, <1>2, <1>3, <1>4, <1>5 DEF Number, Header, IsChain

\* A chain has one block of a number.
LEMMA SameNumber ==
  ASSUME NEW t, IsChain(t), NEW b \in BlocksOf(t), NEW c \in BlocksOf(t),
         Number(b) = Number(c)
  PROVE  b = c
BY BlockFacts, Zenon

\* A chain is its own last block.
LEMMA ChainItself ==
  ASSUME NEW t, IsChain(t)  PROVE t \in BlocksOf(t)
<1>1. t \in Seq(Headers) /\ Len(t) \in 1..Len(t)  BY DEF IsChain
<1>2. t = SubSeq(t, 1, Len(t))  BY <1>1
<1> QED  BY <1>1, <1>2, Zenon DEF BlocksOf

\* The blocks of a block of a chain are those of the chain up to its number.
LEMMA BlocksOfBlock ==
  ASSUME NEW t, IsChain(t), NEW c \in BlocksOf(t)
  PROVE  \A b : b \in BlocksOf(c) <=> b \in BlocksOf(t) /\ Number(b) <= Number(c)
<1> SUFFICES ASSUME NEW b
             PROVE b \in BlocksOf(c) <=> b \in BlocksOf(t) /\ Number(b) <= Number(c)
    BY Zenon
<1>1. IsChain(c) /\ c = SubSeq(t, 1, Number(c)) /\ Number(c) \in 1..Number(t) /\ Number(t) \in Nat
  BY BlockFacts, Zenon
<1>2. t \in Seq(Headers) /\ Number(t) = Len(t) /\ Len(c) = Number(c)  BY <1>1, Zenon DEF IsChain, Number
<1>3. \A k \in 1..Number(c) : SubSeq(c, 1, k) = SubSeq(t, 1, k)
  BY <1>1, <1>2
<1>4. ASSUME b \in BlocksOf(c) PROVE b \in BlocksOf(t) /\ Number(b) <= Number(c)
  <2>1. Number(b) \in 1..Number(c) /\ b = SubSeq(c, 1, Number(b))  BY <1>1, <1>4, BlockFacts, Zenon
  <2>2. b = SubSeq(t, 1, Number(b)) /\ Number(b) \in 1..Len(t)  BY <2>1, <1>1, <1>2, <1>3
  <2> QED  BY <2>1, <2>2, <1>1 DEF BlocksOf
<1>5. ASSUME b \in BlocksOf(t), Number(b) <= Number(c) PROVE b \in BlocksOf(c)
  <2>1. Number(b) \in 1..Number(t) /\ b = SubSeq(t, 1, Number(b))  BY <1>5, BlockFacts, Zenon
  <2>2. b = SubSeq(c, 1, Number(b)) /\ Number(b) \in 1..Len(c)  BY <2>1, <1>1, <1>2, <1>3, <1>5
  <2> QED  BY <2>2, Zenon DEF BlocksOf
<1> QED  BY <1>4, <1>5, Zenon

\* A block of a longer chain on top of a shorter one is the next one.
LEMMA ChildNumber ==
  ASSUME NEW t, IsChain(t), NEW b \in BlocksOf(t), NEW c \in BlocksOf(t), Parent(b) = c
  PROVE  Number(b) = Number(c) + 1
<1>1. b \in Seq(Headers) /\ Len(b) \in Nat /\ Len(b) > 0  BY BlockFacts DEF IsChain
<1> DEFINE k == Len(b) - 1
<1>2. k \in 0..Len(b)  BY <1>1
<1> HIDE DEF k
<1>3. Len(SubSeq(b, 1, k)) = k  BY <1>1, <1>2
<1> QED  BY <1>1, <1>3 DEF Number, Parent, k

(***************************************************************************)
(* Voting power.                                                            *)
(***************************************************************************)
\* The sums of the weights of the keys of S.
IsSum(f, S) ==
  /\ f \in [0..N -> Nat] /\ f[0] = 0
  /\ \A k \in 1..N : f[k] = f[k - 1] + (IF k \in S THEN Weight[k] ELSE 0)

\* The loop of computeTotalPowerByMask has a result.
LEMMA PowerIsSum == \A S : \E f : IsSum(f, S) /\ Power(S) = f[N]
<1> SUFFICES ASSUME NEW S PROVE \E f : IsSum(f, S) /\ Power(S) = f[N]  BY Zenon
<1> DEFINE w(k) == IF k \in S THEN Weight[k] ELSE 0
           F == [k \in 1..N |-> [v \in Nat |-> v + w(k)]]
           sum == CHOOSE f : f = [k \in 0..N |-> IF k = 0 THEN 0 ELSE f[k - 1] + w(k)]
<1>0. Power(S) = sum[N]  BY Zenon DEF Power
<1>1. N \in Nat /\ \A k \in 1..N : w(k) \in Nat  BY CommitteeAssumption, Zenon DEF Node
<1> HIDE DEF w
<1>2. F \in Steps(N, Nat) /\ \A k \in 1..N : \A v \in Nat : F[k][v] = v + w(k)
  <2>1. \A k \in 1..N : [v \in Nat |-> v + w(k)] \in [Nat -> Nat]  BY <1>1
  <2>2. F \in Steps(N, Nat)  BY <2>1, Zenon DEF Steps
  <2> QED  BY <2>2, Zenon
<1> HIDE DEF F
<1>3. PICK f : Values(f, N, Nat, 0, F)  BY <1>1, <1>2, Iteration, Zenon
<1>4. f \in [0..N -> Nat] /\ f[0] = 0 /\ \A k \in 1..N : f[k] = f[k - 1] + w(k)
  <2>1. f \in [0..N -> Nat] /\ f[0] = 0 /\ \A k \in 1..N : f[k] = F[k][f[k - 1]]
    BY <1>3, Zenon DEF Values
  <2>2. \A k \in 1..N : k - 1 \in 0..N  BY <1>1
  <2> QED  BY <2>1, <2>2, <1>2, Zenon
<1>5. f = [k \in 0..N |-> IF k = 0 THEN 0 ELSE f[k - 1] + w(k)]
  BY <1>1, <1>4
<1>6. sum = [k \in 0..N |-> IF k = 0 THEN 0 ELSE sum[k - 1] + w(k)]
  BY <1>5, Zenon
<1> HIDE DEF sum
<1>7. sum[0] = 0 /\ \A k \in 1..N : sum[k] = sum[k - 1] + w(k)
  BY <1>1, <1>6
<1>8. sum = f
  <2> DEFINE Bad == {k \in 0..N : sum[k] # f[k]}
  <2>1. Bad \subseteq Nat  BY <1>1
  <2>2. Bad = {}
    <3> SUFFICES ASSUME Bad # {} PROVE FALSE  BY Zenon
    <3> HIDE DEF Bad
    <3>1. PICK k \in Bad : \A j \in Bad : k <= j  BY <2>1, MinOfNat, Zenon
    <3> USE DEF Bad
    <3>2. k \in 1..N  BY <3>1, <1>4, <1>7, <1>1
    <3>3. k - 1 \in 0..N /\ k - 1 \notin Bad  BY <3>1, <3>2, <1>1
    <3> QED  BY <3>1, <3>2, <3>3, <1>4, <1>7, Zenon
  <2>3. \A k \in 0..N : sum[k] = f[k]  BY <2>2, Zenon
  <2>4. DOMAIN sum = 0..N /\ sum = [k \in 0..N |-> sum[k]]  BY <1>6, Zenon
  <2>5. f = [k \in 0..N |-> f[k]]  BY <1>4, Zenon
  <2> QED  BY <2>3, <2>4, <2>5, Zenon
<1> QED  BY <1>4, <1>8, <1>0, Zenon DEF IsSum, w

\* More keys have no less power.
LEMMA PowerGrows ==
  ASSUME NEW S, NEW T, S \subseteq T
  PROVE  Power(S) \in Nat /\ Power(T) \in Nat /\ Power(S) <= Power(T)
<1>1. PICK f : IsSum(f, S) /\ Power(S) = f[N]  BY PowerIsSum, Zenon
<1>2. PICK g : IsSum(g, T) /\ Power(T) = g[N]  BY PowerIsSum, Zenon
<1>3. N \in Nat /\ \A k \in 1..N : Weight[k] \in Nat  BY CommitteeAssumption, Zenon DEF Node
<1> DEFINE Bad == {k \in 0..N : ~(f[k] <= g[k])}
<1>4. Bad = {}
  <2> SUFFICES ASSUME Bad # {} PROVE FALSE  BY Zenon
  <2>1. Bad \subseteq Nat  BY <1>3
  <2> HIDE DEF Bad
  <2>2. PICK k \in Bad : \A j \in Bad : k <= j  BY <2>1, MinOfNat, Zenon
  <2> USE DEF Bad
  <2>3. k \in 1..N  BY <1>1, <1>2, <1>3 DEF IsSum
  <2>4. k - 1 \in 0..N /\ f[k - 1] <= g[k - 1]  BY <2>2, <2>3, <1>3
  <2>5. f[k] = f[k - 1] + (IF k \in S THEN Weight[k] ELSE 0)  BY <1>1, <2>3, Zenon DEF IsSum
  <2>6. g[k] = g[k - 1] + (IF k \in T THEN Weight[k] ELSE 0)  BY <1>2, <2>3, Zenon DEF IsSum
  <2>7. f[k - 1] \in Nat /\ g[k - 1] \in Nat /\ Weight[k] \in Nat
    BY <1>1, <1>2, <1>3, <2>3, <2>4, Zenon DEF IsSum
  <2>8. f[k] <= g[k]  BY <2>4, <2>5, <2>6, <2>7
  <2> QED  BY <2>8, Zenon
<1>5. N \in 0..N  BY <1>3
<1>6. f[N] <= g[N]  BY <1>4, <1>5, Zenon
<1> QED  BY <1>1, <1>2, <1>5, <1>6 DEF IsSum

\* A set with a quorum in it is a quorum.
LEMMA QuorumGrows ==
  ASSUME NEW S, NEW T, S \subseteq T, IsQuorum(S)
  PROVE  IsQuorum(T)
<1>1. Power(S) \in Nat /\ Power(T) \in Nat /\ Power(S) <= Power(T)  BY PowerGrows, Zenon
<1>2. Power(Node) \in Nat  BY PowerGrows, Zenon
<1> QED  BY <1>1, <1>2 DEF IsQuorum

\* All keys together are a quorum.
LEMMA AllAreQuorum == IsQuorum(Node)
<1>1. PICK g : IsSum(g, Node) /\ Power(Node) = g[N]  BY PowerIsSum, Zenon
<1>2. N \in Nat /\ \A k \in 1..N : Weight[k] \in Nat  BY CommitteeAssumption, Zenon DEF Node
<1>3. PICK n \in 1..N : Weight[n] > 0  BY CommitteeAssumption, Zenon DEF Node
<1> DEFINE Bad == {k \in n..N : ~(g[k] > 0)}
<1>4. Bad = {}
  <2> SUFFICES ASSUME Bad # {} PROVE FALSE  BY Zenon
  <2>0. Bad \subseteq Nat  BY <1>2
  <2> HIDE DEF Bad
  <2>1. PICK k \in Bad : \A j \in Bad : k <= j  BY <2>0, MinOfNat, Zenon
  <2> USE DEF Bad
  <2>2. k \in 1..N /\ k - 1 \in 0..N /\ k \in Node  BY <1>2 DEF Node
  <2>3. g[k] = g[k - 1] + Weight[k] /\ g[k - 1] \in Nat /\ Weight[k] \in Nat
    BY <1>1, <1>2, <2>2, Zenon DEF IsSum
  <2>4. CASE k = n  BY <2>3, <2>4, <1>3
  <2>5. CASE k # n  BY <2>1, <2>2, <2>3, <2>5
  <2> QED  BY <2>4, <2>5, Zenon
<1>5. g[N] > 0 /\ g[N] \in Nat  BY <1>1, <1>2, <1>4 DEF IsSum
<1> QED  BY <1>1, <1>5 DEF IsQuorum

(***************************************************************************)
(* Messages and logs.  The committed blocks are those of a chain c, and the *)
(* announced ones those of a chain t that begins with c.                    *)
(***************************************************************************)
Frontier(c, t) == IsChain(t) /\ c \in BlocksOf(t)

LeaderTypes == {"ANNOUNCE", "PREPARED", "COMMITTED"}

\* A message of the leader, or what a log keeps of it.
FromRound(m, c, t) ==
  /\ m.type \in LeaderTypes /\ m.from = 1
  /\ m.block \in BlocksOf(t) /\ m.num = Number(m.block) /\ m.view = m.num
  /\ m.type = "COMMITTED" => m.block \in BlocksOf(c) /\ m.mask \subseteq Node

Vote(m, t) ==
  /\ m.type \in {"PREPARE", "COMMIT"} /\ m.from \in Node
  /\ m.block \in BlocksOf(t)
  /\ m.type = "COMMIT" => m.num = Number(m.block) /\ m.signed = m.block

Sound(m, c, t) ==
  \/ FromRound(m, c, t) /\ (m.type # "COMMITTED" => m.body = m.block)
  \/ Vote(m, t)

Logged(e, c, t) ==
  FromRound(e, c, t) /\ (e.type = "COMMITTED" /\ e.verified => IsQuorum(e.mask))

SoundLog(log, c, t) ==
  /\ DOMAIN log = {"messages", "blocks", "verifiedBlocks"}
  /\ IsFiniteSet(log.messages)
  /\ \A e \in log.messages : Logged(e, c, t)

\* What the log keeps of a message of the leader.
LEMMA EntryLogged ==
  ASSUME NEW c, NEW t, NEW m, FromRound(m, c, t), NEW v,
         m.type = "COMMITTED" /\ v => IsQuorum(m.mask)
  PROVE  Logged(Entry(m, v), c, t)
BY Zenon DEF FromRound, Logged, Entry

\* A log stays sound when a sound entry is added,
LEMMA AddSound ==
  ASSUME NEW c, NEW t, NEW log, SoundLog(log, c, t), NEW m, NEW v, Logged(Entry(m, v), c, t)
  PROVE  SoundLog(AddMessage(log, m, v), c, t)
<1> DEFINE old == {x \in log.messages : id(x) # id(m)}
           e == Entry(m, v)
<1>1. IsFiniteSet(old)
  <2>1. old \subseteq log.messages /\ IsFiniteSet(log.messages)  BY Zenon DEF SoundLog
  <2> QED  BY <2>1, FS_Subset, Zenon
<1>2. IsFiniteSet(old \cup {e})  BY <1>1, FS_AddElement, Zenon
<1>3. \A x \in old : Logged(x, c, t)  BY Zenon DEF SoundLog
<1>4. AddMessage(log, m, v) = [log EXCEPT !.messages = old \cup {e}]  BY Zenon DEF AddMessage
<1>5. Logged(e, c, t)  OBVIOUS
<1> HIDE DEF old, e
<1> QED  BY <1>2, <1>3, <1>4, <1>5, Zenon DEF SoundLog

\* or a block, or a block is marked,
LEMMA MarkSound ==
  ASSUME NEW c, NEW t, NEW log, SoundLog(log, c, t), NEW b
  PROVE  SoundLog(AddBlock(log, b), c, t) /\ SoundLog(MarkBlockVerified(log, b), c, t)
BY Zenon DEF SoundLog, AddBlock, MarkBlockVerified

\* or it is pruned.
LEMMA PruneSound ==
  ASSUME NEW c, NEW t, NEW log, SoundLog(log, c, t), NEW bn
  PROVE  SoundLog(PruneCacheBeforeBlock(log, bn), c, t)
<1> DEFINE kept == {m \in log.messages : m.num + 1 >= bn}
<1>1. kept \subseteq log.messages /\ IsFiniteSet(log.messages)  BY Zenon DEF SoundLog
<1>2. IsFiniteSet(kept)  BY <1>1, FS_Subset, Zenon
<1>3. \A e \in kept : Logged(e, c, t)  BY Zenon DEF SoundLog
<1> HIDE DEF kept
<1>4. /\ PruneCacheBeforeBlock(log, bn).messages = kept
      /\ DOMAIN PruneCacheBeforeBlock(log, bn) = {"messages", "blocks", "verifiedBlocks"}
  BY Zenon DEF PruneCacheBeforeBlock, kept
<1> QED  BY <1>2, <1>3, <1>4, Zenon DEF SoundLog

\* Nothing becomes unsound when blocks are announced and committed.
LEMMA SoundLater ==
  ASSUME NEW c, NEW t, NEW d, NEW u, Frontier(c, t), Frontier(d, u),
         c \in BlocksOf(d), t \in BlocksOf(u)
  PROVE  /\ \A b : b \in BlocksOf(c) => b \in BlocksOf(d)
         /\ \A m : FromRound(m, c, t) => FromRound(m, d, u)
         /\ \A m : Sound(m, c, t) => Sound(m, d, u)
         /\ \A log : SoundLog(log, c, t) => SoundLog(log, d, u)
<1>1. IsChain(d)  BY BlockFacts, Zenon DEF Frontier
<1>2. \A b : b \in BlocksOf(c) => b \in BlocksOf(d)  BY <1>1, BlocksOfBlock, Zenon
<1>3. \A b : b \in BlocksOf(t) => b \in BlocksOf(u)  BY BlocksOfBlock, Zenon DEF Frontier
<1>4. \A m : FromRound(m, c, t) => FromRound(m, d, u)  BY <1>2, <1>3, Zenon DEF FromRound
<1>5. \A m : Vote(m, t) => Vote(m, u)  BY <1>3, Zenon DEF Vote
<1>6. \A m : Sound(m, c, t) => Sound(m, d, u)  BY <1>4, <1>5, Zenon DEF Sound
<1>7. \A e : Logged(e, c, t) => Logged(e, d, u)  BY <1>4, Zenon DEF Logged
<1>8. \A log : SoundLog(log, c, t) => SoundLog(log, d, u)  BY <1>7, Zenon DEF SoundLog
<1> QED  BY <1>2, <1>4, <1>6, <1>8, Zenon

(***************************************************************************)
(* Nodes.                                                                   *)
(***************************************************************************)
Fields ==
  {"me", "mode", "blockNum", "view", "vcView", "leader", "hash", "body", "prepare",
   "commit", "prepareBitmap", "commitBitmap", "log", "vc", "timers", "chain",
   "commitSigs", "slot", "ready", "proposed", "due", "validating", "replaying",
   "inserting", "grace", "downloading", "startedCh", "finishedCh", "restarted", "out"}

\* The commit signatures a node stores: of each of its blocks those of a quorum.
Signatures(s) ==
  /\ DOMAIN s.commitSigs = 1..Number(s.chain)
  /\ \A k \in 1..Number(s.chain) :
       s.commitSigs[k] \subseteq Node /\ IsQuorum(s.commitSigs[k])

\* The stored signatures of a node do not get fewer from s to u.
Keeps(s, u) ==
  \A k \in DOMAIN s.commitSigs :
    /\ k \in DOMAIN u.commitSigs
    /\ Cardinality(s.commitSigs[k]) <= Cardinality(u.commitSigs[k])

\* A node that is not the leader.  It works on the block after its chain, or on
\* an earlier one while blocks are being downloaded.
Follower(n, s, c, t) ==
  /\ DOMAIN s = Fields
  /\ s.me = n /\ s.leader = 1 /\ s.mode \in {"Normal", "Syncing"}
  /\ s.chain \in BlocksOf(c)
  /\ s.blockNum \in Nat /\ s.blockNum <= Number(s.chain) + 1 /\ s.view = s.blockNum
  /\ s.startedCh \/ (~s.downloading /\ ~s.finishedCh) =>
       s.blockNum = Number(s.chain) + 1
  /\ SoundLog(s.log, c, t)
  /\ Signatures(s)
  /\ \A m \in s.validating : m.type = "ANNOUNCE" /\ Sound(m, c, t)
  /\ s.inserting = {}
  /\ \A m \in s.out : Sound(m, c, t)

\* A step of such a node.
Follows(n, s, u, c, t) == Follower(n, u, c, t) /\ Keeps(s, u)

\* A set of nodes is finite.
LEMMA NodesAreFinite ==
  ASSUME NEW S, S \subseteq Node
  PROVE  IsFiniteSet(S) /\ Cardinality(S) \in Nat
<1>1. IsFiniteSet(Node)  BY CommitteeAssumption, FS_Interval DEF Node
<1>2. IsFiniteSet(S)  BY <1>1, FS_Subset, Zenon
<1> QED  BY <1>2, FS_CardinalityType, Zenon

\* Signatures that stay as they are do not get fewer.
LEMMA SameSignatures ==
  ASSUME NEW s, NEW u, Signatures(s), u.commitSigs = s.commitSigs
  PROVE  Keeps(s, u)
<1>1. \A k \in DOMAIN s.commitSigs : Cardinality(s.commitSigs[k]) \in Nat
  BY NodesAreFinite, Zenon DEF Signatures
<1> QED  BY <1>1 DEF Keeps

\* A step after a step.
LEMMA KeepsOn ==
  ASSUME NEW s, NEW u, NEW v, Signatures(s), Signatures(u), Signatures(v),
         Keeps(s, u), Keeps(u, v)
  PROVE  Keeps(s, v)
<1> SUFFICES ASSUME NEW k \in DOMAIN s.commitSigs
             PROVE /\ k \in DOMAIN v.commitSigs
                   /\ Cardinality(s.commitSigs[k]) <= Cardinality(v.commitSigs[k])
    BY Zenon DEF Keeps
<1>1. k \in DOMAIN u.commitSigs /\ k \in DOMAIN v.commitSigs  BY Zenon DEF Keeps
<1>2. /\ Cardinality(s.commitSigs[k]) \in Nat /\ Cardinality(u.commitSigs[k]) \in Nat
      /\ Cardinality(v.commitSigs[k]) \in Nat
  BY <1>1, NodesAreFinite, Zenon DEF Signatures
<1>3. Cardinality(s.commitSigs[k]) <= Cardinality(u.commitSigs[k])  BY Zenon DEF Keeps
<1>4. Cardinality(u.commitSigs[k]) <= Cardinality(v.commitSigs[k])  BY <1>1, Zenon DEF Keeps
<1> QED  BY <1>1, <1>2, <1>3, <1>4

\* The fields of a follower that a handler of votes and blocks leaves alone.
Core == {"me", "leader", "chain", "blockNum", "view", "startedCh", "downloading",
         "finishedCh", "commitSigs", "inserting"}

\* A node is a follower whatever its timers, hash, votes and other fields of
\* which Follower says nothing.
LEMMA FollowerFrame ==
  ASSUME NEW n, NEW c, NEW t, NEW s, Follower(n, s, c, t), NEW u, DOMAIN u = Fields,
         \A x \in Core : u[x] = s[x],
         u.mode \in {"Normal", "Syncing"}, SoundLog(u.log, c, t),
         \A m \in u.validating : m.type = "ANNOUNCE" /\ Sound(m, c, t),
         \A m \in u.out : Sound(m, c, t)
  PROVE  Follows(n, s, u, c, t)
<1>0. /\ u.me = s.me /\ u.leader = s.leader /\ u.chain = s.chain
      /\ u.blockNum = s.blockNum /\ u.view = s.view /\ u.startedCh = s.startedCh
      /\ u.downloading = s.downloading /\ u.finishedCh = s.finishedCh
      /\ u.commitSigs = s.commitSigs /\ u.inserting = s.inserting
  BY Zenon DEF Core
<1>1. Signatures(s) /\ Signatures(u)  BY <1>0, Zenon DEF Follower, Signatures
<1>2. Keeps(s, u)  BY <1>0, <1>1, SameSignatures, Zenon
<1> QED  BY <1>0, <1>1, <1>2, Zenon DEF Follower, Follows

\* What a follower has.
LEMMA FollowerHas ==
  ASSUME NEW n, NEW c, NEW t, NEW s, Follower(n, s, c, t)
  PROVE  /\ DOMAIN s = Fields /\ s.mode \in {"Normal", "Syncing"} /\ SoundLog(s.log, c, t)
         /\ \A m \in s.validating : m.type = "ANNOUNCE" /\ Sound(m, c, t)
         /\ \A m \in s.out : Sound(m, c, t)
BY Zenon DEF Follower

\* A follower may do nothing, or leave for the downloader.
LEMMA FollowerIdles ==
  ASSUME NEW n, NEW c, NEW t, NEW s, Follower(n, s, c, t)
  PROVE  Follows(n, s, s, c, t) /\ Follows(n, s, spinUpStateSync(s), c, t)
<1>1. Follows(n, s, s, c, t)  BY FollowerHas, FollowerFrame, Zenon
<1> DEFINE u == spinUpStateSync(s)
<1>0. DOMAIN s = Fields  BY FollowerHas, Zenon
<1>2. /\ DOMAIN u = Fields /\ u.mode = "Syncing"
      /\ \A x \in Fields \ {"mode", "timers"} : u[x] = s[x]
  BY <1>0, Zenon DEF spinUpStateSync, Fields
<1> HIDE DEF u
<1>3. Follows(n, s, u, c, t)  BY <1>2, FollowerHas, FollowerFrame DEF Core, Fields
<1> QED  BY <1>1, <1>3, Zenon DEF u

(***************************************************************************)
(* The validators' handlers.                                                *)
(***************************************************************************)
\* Logging a message of the leader.
LEMMA LogsRound ==
  ASSUME NEW n, NEW c, NEW t, NEW s, Follower(n, s, c, t), NEW m, FromRound(m, c, t),
         m.type = "COMMITTED" => IsQuorum(m.mask)
  PROVE  /\ DOMAIN LogVerified(s, m) = Fields
         /\ SoundLog(LogVerified(s, m).log, c, t)
         /\ \A x \in Fields \ {"log"} : LogVerified(s, m)[x] = s[x]
<1>1. Logged(Entry(m, TRUE), c, t)  BY EntryLogged, Zenon
<1>2. SoundLog(s.log, c, t) /\ DOMAIN s = Fields  BY Zenon DEF Follower
<1>3. SoundLog(AddMessage(s.log, m, TRUE), c, t)  BY <1>1, <1>2, AddSound, Zenon
<1> QED  BY <1>2, <1>3, Zenon DEF LogVerified, AddVerifiedMessage, Fields

\* onAnnounce never meets two blocks of one number, so it starts no view change;
\* it votes for the block of the message.
LEMMA FollowAnnounce ==
  ASSUME NEW c, NEW t, Frontier(c, t), NEW n \in Node, NEW s, Follower(n, s, c, t),
         NEW m, Sound(m, c, t), m.type = "ANNOUNCE", NEW u \in onAnnounce(s, m)
  PROVE  Follows(n, s, u, c, t)
<1>1. FromRound(m, c, t)  BY Zenon DEF Sound, Vote
<1>2. \A x \in GetMessagesByTypeSeqView(s.log, "ANNOUNCE", m.num, m.view) : x.block = m.block
  <2> SUFFICES ASSUME NEW x \in s.log.messages, x.num = m.num PROVE x.block = m.block
      BY Zenon DEF GetMessagesByTypeSeqView
  <2>1. FromRound(x, c, t)  BY Zenon DEF Follower, SoundLog, Logged
  <2> QED  BY <1>1, <2>1, SameNumber, Zenon DEF FromRound, Frontier
<1>3. \A first \in AnnounceChoices(s, m) : \A x \in first : x.block = m.block
  BY <1>2, Zenon DEF AnnounceChoices
<1>4. \A v \in afterAnnounceChecks(s, m) : v = s  BY <1>3, Zenon DEF afterAnnounceChecks
<1>5. u = announced(s, m)  BY <1>4, Zenon DEF onAnnounce
<1> DEFINE s1 == [LogVerified(s, m) EXCEPT !.hash = m.block]
<1>6. /\ DOMAIN s1 = Fields /\ SoundLog(s1.log, c, t) /\ s1.hash = m.block
      /\ \A x \in Fields \ {"log", "hash"} : s1[x] = s[x]
  <2>1. /\ DOMAIN LogVerified(s, m) = Fields
        /\ SoundLog(LogVerified(s, m).log, c, t)
        /\ \A x \in Fields \ {"log"} : LogVerified(s, m)[x] = s[x]
    BY <1>1, LogsRound
  <2> QED  BY <2>1, Zenon DEF Fields
<1> HIDE DEF s1
<1>7. Sound(PrepareMsg(s1), c, t)
  <2>1. Vote(PrepareMsg(s1), t)  BY <1>1, <1>6, Zenon DEF Vote, PrepareMsg, FromRound, Follower, Fields
  <2> QED  BY <2>1, Zenon DEF Sound
<1>8. Follows(n, s, s, c, t) /\ Follows(n, s, spinUpStateSync(s), c, t)
  BY FollowerIdles, Zenon
<1>9. Follows(n, s, s1, c, t)  BY <1>6, FollowerHas, FollowerFrame DEF Core, Fields
<1>10. Follows(n, s, [Send(s1, PrepareMsg(s1)) EXCEPT !.validating = @ \cup {m}], c, t)
  <2> DEFINE v == [Send(s1, PrepareMsg(s1)) EXCEPT !.validating = @ \cup {m}]
  <2>1. /\ DOMAIN v = Fields /\ v.validating = s.validating \cup {m}
        /\ v.out = s.out \cup {PrepareMsg(s1)}
        /\ \A x \in Fields \ {"validating", "out"} : v[x] = s1[x]
    BY <1>6, Zenon DEF Send, Fields
  <2> HIDE DEF v
  <2>2. \A x \in v.validating : x.type = "ANNOUNCE" /\ Sound(x, c, t)
    BY <2>1, Zenon DEF Follower
  <2>3. \A x \in v.out : Sound(x, c, t)  BY <2>1, <1>7, Zenon DEF Follower
  <2>4. Follows(n, s, v, c, t)
    <3>1. /\ \A x \in Core : v[x] = s[x] 
          /\ v.mode = s.mode /\ v.log = s1.log
      BY <2>1, <1>6, Zenon DEF Core, Fields
    <3> QED  BY <2>1, <2>2, <2>3, <3>1, <1>6, FollowerHas, FollowerFrame
  <2> QED  BY <2>4, Zenon DEF v
<1> QED  BY <1>5, <1>8, <1>9, <1>10, Zenon DEF announced, s1

\* validateNewBlock changes the log and the block body.
LEMMA ValidationKeeps ==
  ASSUME NEW c, NEW t, NEW n, NEW s, Follower(n, s, c, t),
         NEW m, Sound(m, c, t), m.type \in {"ANNOUNCE", "PREPARED"}
  PROVE  /\ DOMAIN validateNewBlock(s, m) = Fields
         /\ SoundLog(validateNewBlock(s, m).log, c, t)
         /\ \A x \in Fields \ {"log", "body"} : validateNewBlock(s, m)[x] = s[x]
<1> DEFINE s1 == [s EXCEPT !.log = AddBlock(@, m.body)]
           s2 == [LogVerified(s1, m) EXCEPT !.body = m.body]
           s3 == verifyBlock(s2, m.body)
<1>0. FromRound(m, c, t)  BY Zenon DEF Sound, Vote
<1>1. DOMAIN s1 = Fields /\ SoundLog(s1.log, c, t) /\ \A x \in Fields \ {"log"} : s1[x] = s[x]
  BY MarkSound, Zenon DEF Follower, Fields
<1>2. Follower(n, s1, c, t)
  BY <1>1, FollowerHas, FollowerFrame DEF Follows, Core, Fields
<1>3. /\ DOMAIN LogVerified(s1, m) = Fields /\ SoundLog(LogVerified(s1, m).log, c, t)
      /\ \A x \in Fields \ {"log"} : LogVerified(s1, m)[x] = s1[x]
  BY <1>0, <1>2, LogsRound
<1> HIDE DEF s1
<1>4. /\ DOMAIN s2 = Fields /\ SoundLog(s2.log, c, t)
      /\ \A x \in Fields \ {"log", "body"} : s2[x] = s[x]
  BY <1>1, <1>3, Zenon DEF Fields
<1> HIDE DEF s2
<1>5. /\ DOMAIN s3 = Fields /\ SoundLog(s3.log, c, t)
      /\ \A x \in Fields \ {"log", "body"} : s3[x] = s[x]
  BY <1>4, MarkSound, Zenon DEF verifyBlock, Fields
<1> HIDE DEF s3
<1>6. validateNewBlock(s, m) \in {s, s1, s2, s3}
  BY Zenon DEF validateNewBlock, s1, s2, s3
<1>7. DOMAIN s = Fields /\ SoundLog(s.log, c, t)  BY Zenon DEF Follower
<1> QED  BY <1>1, <1>4, <1>5, <1>6, <1>7, Zenon

\* onPrepared votes for the block of the message, which it has validated.
LEMMA FollowPrepared ==
  ASSUME NEW c, NEW t, Frontier(c, t), NEW n \in Node, NEW s, Follower(n, s, c, t),
         NEW m, Sound(m, c, t), m.type = "PREPARED"
  PROVE  Follows(n, s, onPrepared(s, m), c, t)
<1> DEFINE s1 == IF m.num > s.blockNum THEN spinUpStateSync(s) ELSE s
           s2 == validateNewBlock(s1, m)
           b == validatedBlock(s1, m)
           s3 == [s2 EXCEPT !.prepareBitmap = m.mask, !.hash = m.block]
           s4 == IF s3.mode = "Normal" /\ b # NoBlock
                 THEN Send(s3, CommitMsg(s3, b)) ELSE s3
           s5 == [s4 EXCEPT !.replaying = @ \cup {b}]
<1>0. FromRound(m, c, t) /\ m.body = m.block  BY Zenon DEF Sound, Vote
<1>1. Follows(n, s, s, c, t) /\ Follows(n, s, spinUpStateSync(s), c, t)
  BY FollowerIdles, Zenon
<1>2. /\ DOMAIN s1 = Fields /\ SoundLog(s1.log, c, t) /\ s1.mode \in {"Normal", "Syncing"}
      /\ \A x \in Fields \ {"mode", "timers"} : s1[x] = s[x]
  BY Zenon DEF Follower, spinUpStateSync, Fields
<1>3. Follower(n, s1, c, t)  BY <1>1, Zenon DEF Follows
<1>4. b = m.block \/ b = NoBlock  BY <1>0, Zenon DEF validatedBlock
<1> HIDE DEF s1, b
<1>5. /\ DOMAIN s2 = Fields /\ SoundLog(s2.log, c, t)
      /\ \A x \in Fields \ {"log", "body"} : s2[x] = s1[x]
  BY <1>3, ValidationKeeps
<1> HIDE DEF s2
<1>6. Follows(n, s, s2, c, t)
  <2>1. /\ \A x \in Core : s2[x] = s[x]
        /\ s2.mode = s1.mode /\ s2.validating = s.validating /\ s2.out = s.out
    BY <1>2, <1>5, Zenon DEF Core, Fields
  <2> QED  BY <2>1, <1>2, <1>5, FollowerHas, FollowerFrame
<1>7. /\ DOMAIN s3 = Fields /\ s3.hash = m.block
      /\ \A x \in Fields \ {"prepareBitmap", "hash"} : s3[x] = s2[x]
  BY <1>5, Zenon DEF Fields
<1> HIDE DEF s3
<1>8. ASSUME m.num = s.blockNum, b # NoBlock PROVE Sound(CommitMsg(s3, b), c, t)
  <2>1. s3.me = n /\ s3.blockNum = m.num /\ s3.hash = m.block /\ b = m.block
    BY <1>2, <1>4, <1>5, <1>7, <1>8 DEF Follower, Fields
  <2>2. Vote(CommitMsg(s3, b), t)  BY <1>0, <2>1, Zenon DEF Vote, CommitMsg, FromRound
  <2> QED  BY <2>2, Zenon DEF Sound
<1>9. ASSUME m.num = s.blockNum
      PROVE  /\ DOMAIN s4 = Fields /\ \A x \in s4.out : Sound(x, c, t)
             /\ \A x \in Fields \ {"out"} : s4[x] = s3[x]
  <2>1. \A x \in s3.out : Sound(x, c, t)  BY <1>2, <1>5, <1>7 DEF Follower, Fields
  <2>2. CASE s3.mode = "Normal" /\ b # NoBlock
    <3>1. s4 = Send(s3, CommitMsg(s3, b))  BY <2>2, Zenon
    <3> HIDE DEF s4
    <3>2. /\ DOMAIN s4 = Fields /\ s4.out = s3.out \cup {CommitMsg(s3, b)}
          /\ \A x \in Fields \ {"out"} : s4[x] = s3[x]
      BY <3>1, <1>7, Zenon DEF Send, Fields
    <3> QED  BY <3>2, <2>1, <2>2, <1>8, <1>9, Zenon
  <2>3. CASE ~(s3.mode = "Normal" /\ b # NoBlock)  BY <2>3, <2>1, <1>7, Zenon
  <2> QED  BY <2>2, <2>3, Zenon
<1> HIDE DEF s4
<1>10. ASSUME m.num = s.blockNum PROVE Follows(n, s, s4, c, t)
  <2>1. \A x \in Core : s4[x] = s[x]  BY <1>2, <1>5, <1>7, <1>9, <1>10 DEF Core, Fields
  <2>2. /\ s4.mode \in {"Normal", "Syncing"} /\ SoundLog(s4.log, c, t)
        /\ s4.validating = s.validating
    BY <1>2, <1>5, <1>7, <1>9, <1>10 DEF Fields
  <2> QED  BY <2>1, <2>2, <1>9, <1>10, FollowerHas, FollowerFrame, Zenon
<1>11. ASSUME m.num = s.blockNum PROVE Follows(n, s, s5, c, t)
  <2>1. DOMAIN s5 = Fields /\ \A x \in Fields \ {"replaying"} : s5[x] = s4[x]
    BY <1>9, <1>11, Zenon DEF Fields
  <2> HIDE DEF s5
  <2>2. Follower(n, s4, c, t) /\ Keeps(s, s4)  BY <1>10, <1>11, Zenon DEF Follows
  <2>3. /\ \A x \in Core : s5[x] = s4[x] 
        /\ s5.mode = s4.mode /\ s5.log = s4.log /\ s5.validating = s4.validating
        /\ s5.out = s4.out /\ s5.commitSigs = s4.commitSigs
    BY <2>1, Zenon DEF Core, Fields
  <2>4. Follower(n, s5, c, t)  BY <2>1, <2>2, <2>3, FollowerHas, FollowerFrame DEF Follows
  <2>5. Keeps(s, s5)  BY <2>2, <2>3, Zenon DEF Keeps
  <2> QED  BY <2>4, <2>5, Zenon DEF Follows
<1> HIDE DEF s5
<1>12. \/ onPrepared(s, m) \in {s, s1, s2}
       \/ m.num = s.blockNum /\ onPrepared(s, m) \in {s4, s5}
  <2>1. m.num \in Nat /\ s.blockNum \in Nat
    BY <1>0, BlockFacts DEF FromRound, Follower, Frontier
  <2>2. onPrepared(s, m) = IF m.num < s.blockNum THEN s
                           ELSE IF ~IsQuorum(m.mask) \/ ~m.ok THEN s1
                           ELSE IF m.view # s.view \/ m.num > s.blockNum THEN s2
                           ELSE IF b = NoBlock THEN s4 ELSE s5
    BY Zenon DEF onPrepared, s1, s2, b, s3, s4, s5
  <2> QED  BY <2>1, <2>2
<1>13. Follows(n, s, s1, c, t)  BY <1>1, Zenon DEF s1
<1> QED  BY <1>1, <1>6, <1>10, <1>11, <1>12, <1>13, Zenon

(***************************************************************************)
(* Committing.                                                              *)
(***************************************************************************)
\* InsertChain adds the next block with its signatures.
LEMMA Inserts ==
  ASSUME NEW c, IsChain(c), NEW s, DOMAIN s = Fields, s.chain \in BlocksOf(c), Signatures(s),
         NEW b \in BlocksOf(c), Parent(b) = s.chain,
         NEW mask, mask \subseteq Node, IsQuorum(mask)
  PROVE  LET u == InsertChain(s, b, mask) IN
         /\ DOMAIN u = Fields /\ u.chain = b
         /\ \A x \in Fields \ {"chain", "slot", "commitSigs"} : u[x] = s[x]
         /\ Number(b) = Number(s.chain) + 1
         /\ Signatures(u) /\ Keeps(s, u) /\ u.commitSigs[Number(b)] = mask
<1> DEFINE u == InsertChain(s, b, mask)
<1>1. Number(b) = Number(s.chain) + 1 /\ Number(s.chain) \in Nat  BY ChildNumber, BlockFacts
<1>2. /\ DOMAIN u = Fields /\ u.chain = b /\ u.commitSigs = Put(s.commitSigs, Number(b), mask)
      /\ \A x \in Fields \ {"chain", "slot", "commitSigs"} : u[x] = s[x]
  BY Zenon DEF InsertChain, Fields
<1> HIDE DEF u
<1>3. /\ DOMAIN u.commitSigs = 1..Number(b) /\ u.commitSigs[Number(b)] = mask
      /\ \A k \in 1..Number(s.chain) : u.commitSigs[k] = s.commitSigs[k]
  BY <1>1, <1>2 DEF Put, Signatures
<1>4. Signatures(u)
  <2>1. \A k \in 1..Number(s.chain) : s.commitSigs[k] \subseteq Node /\ IsQuorum(s.commitSigs[k])
    BY Zenon DEF Signatures
  <2>2. \A k \in 1..Number(b) : k \in 1..Number(s.chain) \/ k = Number(b)  BY <1>1
  <2>3. \A k \in 1..Number(b) : u.commitSigs[k] \subseteq Node /\ IsQuorum(u.commitSigs[k])
    BY <2>1, <2>2, <1>3, Zenon
  <2> QED  BY <2>3, <1>2, <1>3, Zenon DEF Signatures
<1>5. Keeps(s, u)
  <2>1. \A k \in DOMAIN s.commitSigs : Cardinality(s.commitSigs[k]) \in Nat
    BY NodesAreFinite, Zenon DEF Signatures
  <2> QED  BY <2>1, <1>1, <1>3 DEF Keeps, Signatures
<1> QED  BY <1>1, <1>2, <1>3, <1>4, <1>5, Zenon DEF u

\* The leader stays the leader when a node comes back from syncing.
LEMMA InformationKeeps ==
  ASSUME NEW s, DOMAIN s = Fields, s.leader = 1, Header(s.chain).leader = 1
  PROVE  LET u == updateConsensusInformation(s) IN
         /\ DOMAIN u = Fields /\ u.mode = "Normal" /\ u.leader = 1
         /\ \A x \in Fields \ {"mode", "leader", "hash", "body", "prepare", "commit",
                               "prepareBitmap", "commitBitmap", "vc"} : u[x] = s[x]
BY Zenon DEF updateConsensusInformation, resetState, resetViewChangeState, Fields

\* commitBlock commits the block of the round.
LEMMA Commits ==
  ASSUME NEW c, NEW t, Frontier(c, t), NEW n, NEW s, Follower(n, s, c, t),
         NEW m, Logged(m, c, t), m.type = "COMMITTED", IsQuorum(m.mask),
         m.num = s.blockNum, CanCommit(s, m.block)
  PROVE  LET u == commitBlock(verifyBlock(s, m.block), m.block, m) IN
         Follows(n, s, u, c, t) /\ u.blockNum = s.blockNum + 1
<1> DEFINE b == m.block
           s0 == verifyBlock(s, b)
           s1 == IF Number(s0.chain) < Number(b) THEN InsertChain(s0, b, m.mask) ELSE s0
           s2 == PostConsensusProcessing(s1)
           u == setupForNewConsensus(s2, b, m)
<1>0. /\ b \in BlocksOf(c) /\ Number(b) = s.blockNum /\ m.view = Number(b) /\ m.mask \subseteq Node
      /\ IsChain(c)
  BY BlockFacts, Zenon DEF Logged, FromRound, Frontier
<1>1. /\ Number(b) \in Nat /\ s.chain \in BlocksOf(c) /\ Number(s.chain) \in Nat
      /\ Signatures(s) /\ DOMAIN s = Fields
  BY <1>0, BlockFacts DEF Follower
<1>2. /\ DOMAIN s0 = Fields /\ SoundLog(s0.log, c, t)
      /\ \A x \in Fields \ {"log"} : s0[x] = s[x]
  BY <1>1, MarkSound, Zenon DEF Follower, verifyBlock, Fields
<1> HIDE DEF s0
<1>3. s0.chain = s.chain /\ s0.commitSigs = s.commitSigs /\ Signatures(s0)
  BY <1>1, <1>2, Zenon DEF Fields, Signatures
<1>4. /\ DOMAIN s1 = Fields /\ s1.chain \in BlocksOf(c) /\ Signatures(s1) /\ Keeps(s0, s1)
      /\ \A x \in Fields \ {"chain", "slot", "commitSigs"} : s1[x] = s0[x]
      /\ \/ s1.chain = b
         \/ s1.chain = s.chain /\ Number(b) <= Number(s.chain)
  <2>1. CASE Number(s0.chain) < Number(b)
    <3>1. Parent(b) = s0.chain  BY <2>1, <1>3, Zenon DEF CanCommit, CanInsert
    <3>2. s1 = InsertChain(s0, b, m.mask)  BY <2>1, Zenon
    <3> HIDE DEF s1
    <3> QED  BY <3>1, <3>2, <1>0, <1>1, <1>2, <1>3, Inserts
  <2>2. CASE ~(Number(s0.chain) < Number(b))
    <3>1. s1 = s0  BY <2>2, Zenon
    <3>2. Keeps(s0, s0)  BY <1>3, SameSignatures, Zenon
    <3> HIDE DEF s1
    <3> QED  BY <2>2, <3>1, <3>2, <1>1, <1>2, <1>3
  <2> QED  BY <2>1, <2>2, Zenon
<1> HIDE DEF s1
<1>5. s1.leader = 1 /\ s1.mode \in {"Normal", "Syncing"} /\ Header(s1.chain).leader = 1
  BY <1>0, <1>2, <1>4, BlockFacts DEF Follower, Fields
<1>6. /\ DOMAIN s2 = Fields /\ s2.mode \in {"Normal", "Syncing"} /\ s2.leader = 1
      /\ \A x \in Fields \ {"mode", "leader", "hash", "body", "prepare", "commit",
                            "prepareBitmap", "commitBitmap", "vc"} : s2[x] = s1[x]
  <2>1. CASE ~IsLeader(s1) /\ s1.mode = "Syncing"
    <3>1. s2 = updateConsensusInformation(s1)  BY <2>1, Zenon DEF PostConsensusProcessing
    <3> HIDE DEF s2
    <3> QED  BY <3>1, <1>4, <1>5, InformationKeeps, Zenon
  <2>2. CASE ~(~IsLeader(s1) /\ s1.mode = "Syncing")
    <3>1. s2 = s1  BY <2>2, Zenon DEF PostConsensusProcessing
    <3> HIDE DEF s2
    <3> QED  BY <3>1, <1>4, <1>5, Zenon
  <2> QED  BY <2>1, <2>2, Zenon
<1> HIDE DEF s2
<1>7. /\ DOMAIN u = Fields /\ u.blockNum = Number(b) + 1 /\ u.view = m.view + 1
      /\ u.log = PruneCacheBeforeBlock(s2.log, Number(b))
      /\ \A x \in {"me", "leader", "mode", "chain", "startedCh", "downloading", "finishedCh",
                   "commitSigs", "inserting", "validating", "out"} : u[x] = s2[x]
  BY <1>6 DEF setupForNewConsensus, resetState, Fields
<1> HIDE DEF u
<1>8. SoundLog(u.log, c, t)
  <2>1. s2.log = s0.log  BY <1>4, <1>6, Zenon DEF Fields
  <2> QED  BY <2>1, <1>2, <1>7, PruneSound
<1>9. u.commitSigs = s1.commitSigs /\ u.chain = s1.chain  BY <1>6, <1>7, Zenon DEF Fields
<1>10. Signatures(u) /\ Keeps(s, u)
  BY <1>3, <1>4, <1>9, Zenon DEF Signatures, Keeps
<1>11. /\ u.me = s.me /\ u.startedCh = s.startedCh /\ u.downloading = s.downloading
       /\ u.finishedCh = s.finishedCh /\ u.inserting = s.inserting
       /\ u.validating = s.validating /\ u.out = s.out
  BY <1>2, <1>4, <1>6, <1>7 DEF Fields
<1>12. /\ u.blockNum \in Nat /\ u.blockNum <= Number(u.chain) + 1 /\ u.view = u.blockNum
       /\ s.blockNum = Number(s.chain) + 1 => u.blockNum = Number(u.chain) + 1
  BY <1>0, <1>1, <1>4, <1>7, <1>9
<1>13. u.leader = 1 /\ u.mode \in {"Normal", "Syncing"} /\ u.chain \in BlocksOf(c)
  BY <1>4, <1>6, <1>7, <1>9, Zenon
<1>14. Follower(n, u, c, t)
  BY <1>7, <1>8, <1>10, <1>11, <1>12, <1>13, Zenon DEF Follower
<1>15. u = commitBlock(verifyBlock(s, b), b, m)  BY Zenon DEF commitBlock, u, s2, s1, s0
<1> QED  BY <1>0, <1>7, <1>10, <1>14, <1>15, Zenon DEF Follows

\* The steps of the three loops: tryCatchup, AddConsensusLastMile, and the replay
\* of COMMITTED messages.
LoopStep(loop, e, m) ==
  CASE loop = "catchUp" -> catchUp(e, m)
    [] loop = "insert"  -> insertNext(e, m)
    [] OTHER            -> UNION {replayNext(m, x) : x \in e}

Ran(f, loop, first, q, k) ==
  f = [i \in 0..k |-> IF i = 0 THEN first ELSE LoopStep(loop, f[i - 1], q[i])]

\* The loops have results.
LEMMA LoopsRun ==
  ASSUME NEW loop, NEW first, NEW q, NEW k \in Nat
  PROVE  \E f : Ran(f, loop, first, q, k)
<1> DEFINE Bad == {j \in Nat : ~ \E f : Ran(f, loop, first, q, j)}
<1>1. \E f : Ran(f, loop, first, q, 0)
  <2> DEFINE f == [i \in 0..0 |-> first]
  <2>1. f = [i \in 0..0 |-> IF i = 0 THEN first ELSE LoopStep(loop, f[i - 1], q[i])]  OBVIOUS
  <2> QED  BY <2>1, Zenon DEF Ran
<1>2. ASSUME NEW j \in Nat, j > 0, NEW g, Ran(g, loop, first, q, j - 1)
      PROVE  \E f : Ran(f, loop, first, q, j)
  <2> DEFINE f == [i \in 0..j |-> IF i = j THEN LoopStep(loop, g[j - 1], q[j]) ELSE g[i]]
  <2>1. /\ f[j] = LoopStep(loop, g[j - 1], q[j])
        /\ \A i \in 0..(j - 1) : f[i] = g[i]
    BY <1>2
  <2>2. /\ g[0] = first
        /\ \A i \in 1..(j - 1) : g[i] = LoopStep(loop, g[i - 1], q[i])
    BY <1>2 DEF Ran
  <2>3. DOMAIN f = 0..j /\ f = [i \in 0..j |-> f[i]]  BY Zenon
  <2> HIDE DEF f
  <2>4. \A i \in 0..j : f[i] = IF i = 0 THEN first ELSE LoopStep(loop, f[i - 1], q[i])
    <3> TAKE i \in 0..j
    <3>1. CASE i = 0  BY <3>1, <2>1, <2>2, <1>2
    <3>2. CASE i # 0 /\ i < j
      <4>1. i \in 1..(j - 1) /\ i \in 0..(j - 1) /\ i - 1 \in 0..(j - 1)  BY <3>2
      <4> QED  BY <4>1, <3>2, <2>1, <2>2, Zenon
    <3>3. CASE i = j
      <4>1. j - 1 \in 0..(j - 1) /\ j # 0  BY <1>2
      <4> QED  BY <4>1, <3>3, <2>1, Zenon
    <3> QED  BY <3>1, <3>2, <3>3
  <2>5. f = [i \in 0..j |-> IF i = 0 THEN first ELSE LoopStep(loop, f[i - 1], q[i])]
    BY <2>3, <2>4, Zenon
  <2> QED  BY <2>5, Zenon DEF Ran
<1>3. Bad = {}
  <2> SUFFICES ASSUME Bad # {} PROVE FALSE  BY Zenon
  <2>1. Bad \subseteq Nat  BY Zenon
  <2> HIDE DEF Bad
  <2>2. PICK j \in Bad : \A i \in Bad : j <= i  BY <2>1, MinOfNat, Zenon
  <2>3. j \in Nat /\ ~ \E f : Ran(f, loop, first, q, j)  BY <2>2, Zenon DEF Bad
  <2>4. j > 0  BY <2>3, <1>1
  <2>5. j - 1 \in Nat /\ j - 1 \notin Bad  BY <2>2, <2>3, <2>4
  <2>6. PICK g : Ran(g, loop, first, q, j - 1)  BY <2>5, Zenon DEF Bad
  <2> QED  BY <2>3, <2>4, <2>6, <1>2, Zenon
<1> QED  BY <1>3, Zenon

\* The messages of the last mile are the commits of consecutive blocks.
LEMMA LastMile ==
  ASSUME NEW c, NEW t, NEW log, SoundLog(log, c, t), NEW bn \in Nat,
         NEW q \in getLastMileBlocksAndMsg(log, bn)
  PROVE  /\ Len(q) \in Nat
         /\ \A i \in 1..Len(q) :
              /\ Logged(q[i], c, t) /\ q[i].type = "COMMITTED" /\ IsQuorum(q[i].mask)
              /\ q[i].num = bn + i - 1
<1>1. Cardinality(log.messages) \in Nat  BY FS_CardinalityType, Zenon DEF SoundLog
<1>2. PICK k \in 0..Cardinality(log.messages) :
        /\ q \in [1..k -> log.messages]
        /\ \A i \in 1..k : q[i] \in GetCommittedBlockAndMsgsFromNumber(log, bn + i - 1)
  BY Zenon DEF getLastMileBlocksAndMsg
<1>3. k \in Nat  BY <1>1, <1>2
<1>4. Len(q) = k  BY <1>2, <1>3
<1>5. \A i \in 1..k : /\ q[i] \in log.messages /\ q[i].type = "COMMITTED" /\ q[i].verified
                      /\ q[i].num = bn + i - 1
  BY <1>2, Zenon DEF GetCommittedBlockAndMsgsFromNumber, GetMessagesByTypeSeq
<1> QED  BY <1>3, <1>4, <1>5, Zenon DEF SoundLog, Logged

\* One round of the loop of tryCatchup.
LEMMA CatchUpStep ==
  ASSUME NEW c, NEW t, Frontier(c, t), NEW n, NEW s, Follower(n, s, c, t), NEW e,
         Follows(n, s, e.node, c, t), NEW j, e.more => e.node.blockNum = j,
         NEW m, Logged(m, c, t), m.type = "COMMITTED", IsQuorum(m.mask), m.num = j
  PROVE  /\ Follows(n, s, catchUp(e, m).node, c, t)
         /\ catchUp(e, m).more => catchUp(e, m).node.blockNum = j + 1
<1>1. CASE e.more /\ CanVerify(e.node, m.block) /\ CanCommit(e.node, m.block)
  <2> DEFINE u == commitBlock(verifyBlock(e.node, m.block), m.block, m)
  <2>1. Follower(n, e.node, c, t) /\ Keeps(s, e.node)  BY Zenon DEF Follows
  <2>2. Follows(n, e.node, u, c, t) /\ u.blockNum = j + 1  BY <1>1, <2>1, Commits
  <2> HIDE DEF u
  <2>3. Signatures(s) /\ Signatures(e.node) /\ Signatures(u) /\ Keeps(e.node, u)
    BY <2>1, <2>2, Zenon DEF Follower, Follows
  <2>4. Follows(n, s, u, c, t)  BY <2>1, <2>2, <2>3, KeepsOn, Zenon DEF Follows
  <2>5. catchUp(e, m).node = u  BY <1>1, Zenon DEF catchUp, u
  <2> QED  BY <2>2, <2>4, <2>5, Zenon
<1>2. CASE ~(e.more /\ CanVerify(e.node, m.block) /\ CanCommit(e.node, m.block))
  <2>1. catchUp(e, m) = [node |-> e.node, more |-> FALSE]  BY <1>2, Zenon DEF catchUp
  <2> QED  BY <2>1
<1> QED  BY <1>1, <1>2, Zenon

\* tryCatchup only commits blocks that the leader has committed.
LEMMA CatchesUp ==
  ASSUME NEW c, NEW t, Frontier(c, t), NEW n, NEW s, Follower(n, s, c, t),
         NEW u \in tryCatchup(s)
  PROVE  Follows(n, s, u, c, t)
<1> DEFINE first == [node |-> s, more |-> TRUE]
           ran(q) == CHOOSE f : f = [i \in 0..Len(q) |->
                       IF i = 0 THEN first ELSE catchUp(f[i - 1], q[i])]
<1>1. PICK q \in getLastMileBlocksAndMsg(s.log, s.blockNum) :
        u = postCatchup(s, ran(q)[Len(q)].node)
  BY Zenon DEF tryCatchup
<1>2. /\ Len(q) \in Nat
      /\ \A i \in 1..Len(q) :
           /\ Logged(q[i], c, t) /\ q[i].type = "COMMITTED" /\ IsQuorum(q[i].mask)
           /\ q[i].num = s.blockNum + i - 1
  BY LastMile DEF Follower
<1> DEFINE f == ran(q)
<1>3. f = [i \in 0..Len(q) |-> IF i = 0 THEN first ELSE catchUp(f[i - 1], q[i])]
  <2>1. \A e, m : LoopStep("catchUp", e, m) = catchUp(e, m)  BY Zenon DEF LoopStep
  <2>2. PICK g : Ran(g, "catchUp", first, q, Len(q))  BY <1>2, LoopsRun, Zenon
  <2>3. g = [i \in 0..Len(q) |-> IF i = 0 THEN first ELSE catchUp(g[i - 1], q[i])]
    BY <2>1, <2>2, Zenon DEF Ran
  <2> QED  BY <2>3, Zenon
<1> HIDE DEF f, first
<1>4. f[0] = first /\ \A i \in 1..Len(q) : f[i] = catchUp(f[i - 1], q[i])
  <2>1. 0 \in 0..Len(q) /\ \A i \in 1..Len(q) : i \in 0..Len(q) /\ i # 0  BY <1>2
  <2>2. \A i \in 0..Len(q) : f[i] = IF i = 0 THEN first ELSE catchUp(f[i - 1], q[i])
    BY <1>3, Zenon
  <2> QED  BY <2>1, <2>2, Zenon
<1> USE DEF first
<1> DEFINE Good(i) == /\ Follows(n, s, f[i].node, c, t)
                      /\ f[i].more => f[i].node.blockNum = s.blockNum + i
           Bad == {i \in 0..Len(q) : ~Good(i)}
<1>5. Good(0)
  <2>1. f[0].node = s  BY <1>4
  <2>2. Follows(n, s, s, c, t) /\ s.blockNum + 0 = s.blockNum
    BY FollowerIdles DEF Follower
  <2> QED  BY <2>1, <2>2, Zenon
<1>6. ASSUME NEW i \in 1..Len(q), Good(i - 1) PROVE Good(i)
  <2>1. s.blockNum \in Nat /\ f[i] = catchUp(f[i - 1], q[i])  BY <1>4, Zenon DEF Follower
  <2>2. s.blockNum + i - 1 = s.blockNum + (i - 1) /\ s.blockNum + (i - 1) + 1 = s.blockNum + i
    BY <2>1, <1>2
  <2> DEFINE e == f[i - 1]
             m == q[i]
             j == s.blockNum + (i - 1)
  <2>3. Follows(n, s, e.node, c, t) /\ (e.more => e.node.blockNum = j)  BY <1>6, Zenon
  <2>4. Logged(m, c, t) /\ m.type = "COMMITTED" /\ IsQuorum(m.mask) /\ m.num = j
    BY <1>2, <2>2, Zenon
  <2>5. f[i] = catchUp(e, m) /\ j + 1 = s.blockNum + i  BY <2>1, <2>2, Zenon
  <2> HIDE DEF e, m, j, f
  <2>6. /\ Follows(n, s, catchUp(e, m).node, c, t)
        /\ catchUp(e, m).more => catchUp(e, m).node.blockNum = j + 1
    BY <2>3, <2>4, CatchUpStep
  <2> QED  BY <2>5, <2>6, Zenon
<1> HIDE DEF Good
<1>7. Bad = {}
  <2> SUFFICES ASSUME Bad # {} PROVE FALSE  BY Zenon
  <2>1. Bad \subseteq Nat  BY <1>2
  <2> HIDE DEF Bad
  <2>2. PICK i \in Bad : \A j \in Bad : i <= j  BY <2>1, MinOfNat, Zenon
  <2>3. i \in 0..Len(q) /\ ~Good(i)  BY <2>2, Zenon DEF Bad
  <2>4. i \in 1..Len(q)  BY <2>3, <1>2, <1>5
  <2>5. i - 1 \in 0..Len(q) /\ i - 1 \notin Bad  BY <2>2, <2>4, <1>2
  <2> QED  BY <2>3, <2>4, <2>5, <1>6, Zenon DEF Bad
<1>8. Len(q) \in 0..Len(q)  BY <1>2
<1>9. Follows(n, s, f[Len(q)].node, c, t)  BY <1>7, <1>8, Zenon DEF Good
<1>10. f[Len(q)].node.mode # "ViewChanging"  BY <1>9, Zenon DEF Follows, Follower
<1>11. u = f[Len(q)].node  BY <1>1, <1>10, Zenon DEF postCatchup, f
<1> QED  BY <1>9, <1>11, Zenon

\* A step after a step.
LEMMA FollowsOn ==
  ASSUME NEW n, NEW c, NEW t, NEW s, Follower(n, s, c, t), NEW u, Follows(n, s, u, c, t),
         NEW v, Follows(n, u, v, c, t)
  PROVE  Follows(n, s, v, c, t)
<1>1. Signatures(s) /\ Signatures(u) /\ Signatures(v)  BY Zenon DEF Follower, Follows
<1> QED  BY <1>1, KeepsOn, Zenon DEF Follows

\* A timer that starts or stops.
LEMMA TimersFree ==
  ASSUME NEW n, NEW c, NEW t, NEW s, Follower(n, s, c, t), NEW u, Follows(n, s, u, c, t), NEW x
  PROVE  Follows(n, s, Start(u, x), c, t) /\ Follows(n, s, Stop(u, x), c, t)
<1>1. Follower(n, u, c, t) /\ DOMAIN u = Fields  BY Zenon DEF Follows, Follower
<1>2. \A v \in {Start(u, x), Stop(u, x)} :
        DOMAIN v = Fields /\ \A y \in Fields \ {"timers"} : v[y] = u[y]
  BY <1>1, Zenon DEF Start, Stop, Fields
<1>3. \A v \in {Start(u, x), Stop(u, x)} : Follows(n, u, v, c, t)
  <2> TAKE v \in {Start(u, x), Stop(u, x)}
  <2>1. /\ \A y \in Core : v[y] = u[y]
        /\ v.mode = u.mode /\ v.log = u.log /\ v.validating = u.validating /\ v.out = u.out
    BY <1>2, Zenon DEF Core, Fields
  <2> QED  BY <1>1, <1>2, <2>1, FollowerHas, FollowerFrame
<1> QED  BY <1>3, FollowsOn, Zenon

\* onCommitted replaces a stored signature only by one of more signers, logs the
\* message and catches up.
LEMMA FollowCommitted ==
  ASSUME NEW c, NEW t, Frontier(c, t), NEW n, NEW s, Follower(n, s, c, t),
         NEW m, FromRound(m, c, t), m.type = "COMMITTED", NEW u \in onCommitted(s, m)
  PROVE  Follows(n, s, u, c, t)
<1> DEFINE s1 == IF m.num > s.blockNum THEN spinUpStateSync(s) ELSE s
           s2 == [s1 EXCEPT !.log = AddNotVerifiedMessage(@, m)]
           v == LogVerified(s2, m)
           s3 == overrideCommitSig(v, m)
           after(w) ==
             IF m.num > w.blockNum \/ w.mode = "ViewChanging" THEN w
             ELSE IF s.blockNum < w.blockNum
             THEN Start(Stop(w, "bootstrap"), "consensus") ELSE Stop(w, "bootstrap")
<1>0. u \in IF m.num + 1 < s.blockNum THEN {s}
            ELSE IF ~HasBlock(s.log, m.block) \/ ~IsQuorum(m.mask) \/ ~m.ok THEN {s2}
            ELSE {after(w) : w \in tryCatchup(s3)}
  <2>1. \A x : UNION {tryCatchup(e) : e \in {x}} = tryCatchup(x)  BY Zenon
  <2> QED  BY <2>1, Zenon DEF onCommitted
<1>1. Follows(n, s, s, c, t) /\ Follows(n, s, s1, c, t)  BY FollowerIdles, Zenon
<1>2. Follower(n, s1, c, t) /\ DOMAIN s1 = Fields  BY <1>1, Zenon DEF Follows, Follower
<1> HIDE DEF s1
<1>3. SoundLog(AddNotVerifiedMessage(s1.log, m), c, t)
  <2>1. Logged(Entry(m, FALSE), c, t)  BY EntryLogged, Zenon
  <2> QED  BY <2>1, <1>2, AddSound, Zenon DEF AddNotVerifiedMessage, Follower
<1>4. /\ DOMAIN s2 = Fields /\ SoundLog(s2.log, c, t)
      /\ \A x \in Fields \ {"log"} : s2[x] = s1[x]
  BY <1>2, <1>3, Zenon DEF Fields
<1> HIDE DEF s2
<1>5. Follows(n, s1, s2, c, t)
  <2>1. /\ \A x \in Core : s2[x] = s1[x]
        /\ s2.mode = s1.mode /\ s2.validating = s1.validating /\ s2.out = s1.out
    BY <1>4, Zenon DEF Core, Fields
  <2> QED  BY <2>1, <1>2, <1>4, FollowerHas, FollowerFrame, Zenon
<1>6. Follows(n, s, s2, c, t) /\ Follower(n, s2, c, t)
  BY <1>1, <1>5, FollowsOn, Zenon DEF Follows
<1>7. ASSUME IsQuorum(m.mask), NEW w \in tryCatchup(s3) PROVE Follows(n, s, after(w), c, t)
  <2>1. /\ DOMAIN v = Fields /\ SoundLog(v.log, c, t)
        /\ \A x \in Fields \ {"log"} : v[x] = s2[x]
    BY <1>6, <1>7, LogsRound
  <2> HIDE DEF v
  <2>2. Follows(n, s2, v, c, t) /\ Follower(n, v, c, t)
    <3>1. /\ \A x \in Core : v[x] = s2[x]
          /\ v.mode = s2.mode /\ v.validating = s2.validating /\ v.out = s2.out
      BY <2>1, Zenon DEF Core, Fields
    <3> QED  BY <3>1, <2>1, <1>6, FollowerHas, FollowerFrame DEF Follows
  <2>3. Follows(n, v, s3, c, t)
    <3>1. CASE ~InChain(v, m.block) \/ m.num \notin DOMAIN v.commitSigs
      <4>1. s3 = [v EXCEPT !.commitBitmap = m.mask]  BY <3>1, Zenon DEF overrideCommitSig
      <4> HIDE DEF s3
      <4>2. DOMAIN s3 = Fields /\ \A x \in Fields \ {"commitBitmap"} : s3[x] = v[x]
        BY <4>1, <2>1, Zenon DEF Fields
      <4>3. /\ \A x \in Core : s3[x] = v[x]
            /\ s3.mode = v.mode /\ s3.validating = v.validating /\ s3.out = v.out /\ s3.log = v.log
        BY <4>2, Zenon DEF Core, Fields
      <4> QED  BY <4>2, <4>3, <2>2, FollowerHas, FollowerFrame
    <3>2. CASE ~(~InChain(v, m.block) \/ m.num \notin DOMAIN v.commitSigs)
      <4> DEFINE new == IF Cardinality(m.mask) > Cardinality(v.commitSigs[m.num])
                        THEN m.mask ELSE v.commitSigs[m.num]
      <4>1. /\ DOMAIN s3 = Fields /\ s3.commitSigs = [v.commitSigs EXCEPT ![m.num] = new]
            /\ \A x \in Fields \ {"commitBitmap", "commitSigs"} : s3[x] = v[x]
        BY <3>2, <2>1, Zenon DEF overrideCommitSig, Fields
      <4>2. /\ m.mask \subseteq Node /\ IsQuorum(m.mask) /\ Signatures(v)
            /\ m.num \in DOMAIN v.commitSigs
        BY <1>7, <2>2, <3>2, Zenon DEF FromRound, Follower
      <4>3. /\ new \subseteq Node /\ IsQuorum(new) /\ Cardinality(new) \in Nat
            /\ Cardinality(v.commitSigs[m.num]) <= Cardinality(new)
        <5>1. /\ v.commitSigs[m.num] \subseteq Node /\ IsQuorum(v.commitSigs[m.num])
              /\ Cardinality(v.commitSigs[m.num]) \in Nat /\ Cardinality(m.mask) \in Nat
          BY <4>2, NodesAreFinite, Zenon DEF Signatures
        <5> QED  BY <5>1, <4>2
      <4> HIDE DEF new, s3
      <4>4. s3.chain = v.chain  BY <4>1, Zenon DEF Fields
      <4>5. /\ DOMAIN s3.commitSigs = DOMAIN v.commitSigs /\ s3.commitSigs[m.num] = new
            /\ \A k \in DOMAIN v.commitSigs \ {m.num} : s3.commitSigs[k] = v.commitSigs[k]
        BY <4>1, <4>2, Zenon
      <4>6. Signatures(s3)  BY <4>2, <4>3, <4>4, <4>5, Zenon DEF Signatures
      <4>7. Keeps(v, s3)
        <5>1. \A k \in DOMAIN v.commitSigs : Cardinality(v.commitSigs[k]) \in Nat
          BY <4>2, NodesAreFinite, Zenon DEF Signatures
        <5> QED  BY <5>1, <4>2, <4>3, <4>5 DEF Keeps
      <4>8. \A x \in {"me", "leader", "mode", "chain", "blockNum", "view", "startedCh",
                      "downloading", "finishedCh", "log", "validating", "inserting", "out"} :
              s3[x] = v[x]
        BY <4>1, Zenon DEF Fields
      <4> QED  BY <4>1, <4>6, <4>7, <4>8, <2>2, Zenon DEF Follows, Follower
    <3> QED  BY <3>1, <3>2, Zenon
  <2> HIDE DEF s3
  <2>4. Follows(n, s, s3, c, t) /\ Follower(n, s3, c, t)
    BY <1>6, <2>2, <2>3, FollowsOn, Zenon DEF Follows
  <2>5. Follows(n, s3, w, c, t)  BY <2>4, <1>7, CatchesUp, Zenon
  <2>6. Follows(n, s, w, c, t)  BY <2>4, <2>5, FollowsOn, Zenon
  <2>7. Follows(n, s, Stop(w, "bootstrap"), c, t)  BY <2>6, TimersFree, Zenon
  <2>8. Follows(n, s, Start(Stop(w, "bootstrap"), "consensus"), c, t)  BY <2>7, TimersFree, Zenon
  <2> QED  BY <2>6, <2>7, <2>8, Zenon
<1> HIDE DEF after, s3
<1>8. CASE m.num + 1 < s.blockNum  BY <1>0, <1>1, <1>8, Zenon
<1>9. CASE ~(m.num + 1 < s.blockNum) /\ (~HasBlock(s.log, m.block) \/ ~IsQuorum(m.mask) \/ ~m.ok)
  BY <1>0, <1>6, <1>9, Zenon
<1>10. CASE ~(m.num + 1 < s.blockNum) /\ ~(~HasBlock(s.log, m.block) \/ ~IsQuorum(m.mask) \/ ~m.ok)
  <2>1. PICK w \in tryCatchup(s3) : u = after(w)  BY <1>0, <1>10, Zenon
  <2> QED  BY <2>1, <1>7, <1>10, Zenon
<1> QED  BY <1>8, <1>9, <1>10, Zenon

\* One round of the replay of the COMMITTED messages of a block.
LEMMA ReplayStep ==
  ASSUME NEW c, NEW t, Frontier(c, t), NEW n, NEW s, Follower(n, s, c, t), NEW pending,
         \A m \in pending : FromRound(m, c, t) /\ m.type = "COMMITTED",
         NEW e, Follows(n, s, e.node, c, t), e.left \subseteq pending,
         NEW d \in replayNext(s, e)
  PROVE  Follows(n, s, d.node, c, t) /\ d.left \subseteq pending
<1>1. PICK m \in e.left : d \in {[node |-> w, left |-> e.left \ {m}]
          : w \in IF e.node.blockNum > s.blockNum THEN {e.node} ELSE onCommitted(e.node, m)}
  BY Zenon DEF replayNext
<1>2. PICK w \in IF e.node.blockNum > s.blockNum THEN {e.node} ELSE onCommitted(e.node, m) :
        d = [node |-> w, left |-> e.left \ {m}]
  BY <1>1, Zenon
<1>3. Follower(n, e.node, c, t) /\ FromRound(m, c, t) /\ m.type = "COMMITTED"
  BY <1>1, Zenon DEF Follows
<1>4. Follows(n, s, w, c, t)
  <2>1. CASE e.node.blockNum > s.blockNum  BY <2>1, <1>2, Zenon
  <2>2. CASE ~(e.node.blockNum > s.blockNum)
    <3>1. w \in onCommitted(e.node, m)  BY <2>2, <1>2, Zenon
    <3>2. Follows(n, e.node, w, c, t)  BY <3>1, <1>3, FollowCommitted, Zenon
    <3> QED  BY <3>2, FollowsOn, Zenon
  <2> QED  BY <2>1, <2>2, Zenon
<1> QED  BY <1>2, <1>4, Zenon

\* The goroutine of onPrepared, in whatever order it finds the messages.
LEMMA FollowReplay ==
  ASSUME NEW c, NEW t, Frontier(c, t), NEW n, NEW s, Follower(n, s, c, t), NEW b,
         NEW u \in replayCommitted(s, b)
  PROVE  Follows(n, s, u, c, t)
<1> DEFINE pending == GetNotVerifiedCommittedMessages(s.log, Number(b), Header(b).view, b)
           s0 == [s EXCEPT !.replaying = @ \ {b}]
           first == [node |-> s0, left |-> pending]
           K == Cardinality(pending)
           f == CHOOSE g : g = [k \in 0..K |->
                  IF k = 0 THEN {first} ELSE UNION {replayNext(s, e) : e \in g[k - 1]}]
<1>1. u \in {e.node : e \in f[K]}  BY Zenon DEF replayCommitted
<1>2. /\ K \in Nat
      /\ \A m \in pending : FromRound(m, c, t) /\ m.type = "COMMITTED"
  <2>1. pending \subseteq s.log.messages /\ IsFiniteSet(s.log.messages)
    BY Zenon DEF Follower, SoundLog, GetNotVerifiedCommittedMessages
  <2>2. IsFiniteSet(pending)  BY <2>1, FS_Subset, Zenon
  <2>3. K \in Nat  BY <2>2, FS_CardinalityType, Zenon
  <2>4. \A m \in pending : FromRound(m, c, t) /\ m.type = "COMMITTED"
    BY Zenon DEF Follower, SoundLog, Logged, GetNotVerifiedCommittedMessages
  <2> QED  BY <2>3, <2>4, Zenon
<1>3. Follows(n, s, s0, c, t)
  <2>1. DOMAIN s0 = Fields /\ \A x \in Fields \ {"replaying"} : s0[x] = s[x]
    BY FollowerHas DEF Fields
  <2> HIDE DEF s0
  <2>2. /\ \A x \in Core : s0[x] = s[x]
        /\ s0.mode = s.mode /\ s0.log = s.log /\ s0.validating = s.validating /\ s0.out = s.out
    BY <2>1, Zenon DEF Core, Fields
  <2> QED  BY <2>1, <2>2, FollowerHas, FollowerFrame
<1> HIDE DEF s0, pending, K
<1>4. first.node = s0 /\ first.left = pending  BY Zenon
<1> HIDE DEF first
<1>5. f = [k \in 0..K |-> IF k = 0 THEN {first} ELSE UNION {replayNext(s, e) : e \in f[k - 1]}]
  <2> DEFINE q == [i \in 1..K |-> s]
  <2>1. PICK g : Ran(g, "replay", {first}, q, K)  BY <1>2, LoopsRun, Zenon
  <2>2. g = [k \in 0..K |-> IF k = 0 THEN {first} ELSE LoopStep("replay", g[k - 1], q[k])]
    BY <2>1, Zenon DEF Ran
  <2>3. \A k \in 0..K : (IF k = 0 THEN {first} ELSE LoopStep("replay", g[k - 1], q[k]))
                      = (IF k = 0 THEN {first} ELSE UNION {replayNext(s, e) : e \in g[k - 1]})
    <3> TAKE k \in 0..K
    <3>1. CASE k = 0  BY <3>1, Zenon
    <3>2. CASE k # 0
      <4>1. k \in 1..K  BY <3>2, <1>2
      <4>2. q[k] = s  BY <4>1, Zenon
      <4> HIDE DEF q
      <4>3. LoopStep("replay", g[k - 1], q[k]) = UNION {replayNext(q[k], x) : x \in g[k - 1]}
        BY Zenon DEF LoopStep
      <4> QED  BY <3>2, <4>2, <4>3, Zenon
    <3> QED  BY <3>1, <3>2, Zenon
  <2>4. g = [k \in 0..K |-> IF k = 0 THEN {first} ELSE UNION {replayNext(s, e) : e \in g[k - 1]}]
    BY <2>2, <2>3, Zenon
  <2> QED  BY <2>4, Zenon
<1> HIDE DEF f
<1>6. /\ f[0] = {first}
      /\ \A k \in 1..K : f[k] = UNION {replayNext(s, e) : e \in f[k - 1]}
  BY <1>2, <1>5
<1> DEFINE Good(k) == \A e \in f[k] : Follows(n, s, e.node, c, t) /\ e.left \subseteq pending
           Bad == {k \in 0..K : ~Good(k)}
<1>7. Good(0)  BY <1>3, <1>4, <1>6, Zenon
<1>8. ASSUME NEW k \in 1..K, Good(k - 1) PROVE Good(k)
  <2> SUFFICES ASSUME NEW d \in f[k]
               PROVE  Follows(n, s, d.node, c, t) /\ d.left \subseteq pending
      BY Zenon
  <2>1. PICK e \in f[k - 1] : d \in replayNext(s, e)  BY <1>6
  <2>2. Follows(n, s, e.node, c, t) /\ e.left \subseteq pending  BY <1>8, <2>1, Zenon
  <2> QED  BY <2>1, <2>2, <1>2, ReplayStep, Zenon
<1> HIDE DEF Good
<1>9. Bad = {}
  <2> SUFFICES ASSUME Bad # {} PROVE FALSE  BY Zenon
  <2>1. Bad \subseteq Nat  BY <1>2
  <2> HIDE DEF Bad
  <2>2. PICK k \in Bad : \A j \in Bad : k <= j  BY <2>1, MinOfNat, Zenon
  <2>3. k \in 0..K /\ ~Good(k)  BY <2>2, Zenon DEF Bad
  <2>4. k \in 1..K  BY <2>3, <1>2, <1>7
  <2>5. k - 1 \in 0..K /\ k - 1 \notin Bad  BY <2>2, <2>4, <1>2
  <2> QED  BY <2>3, <2>4, <2>5, <1>8, Zenon DEF Bad
<1>10. Good(K)  BY <1>2, <1>9
<1> QED  BY <1>1, <1>10, Zenon DEF Good

(***************************************************************************)
(* Synchronisation.                                                         *)
(***************************************************************************)
\* A block of the leader's chain that the downloader inserts.
LEMMA FollowInsert ==
  ASSUME NEW c, NEW t, Frontier(c, t), NEW n, NEW s, Follower(n, s, c, t),
         ~s.startedCh, s.downloading \/ s.finishedCh,
         NEW b \in BlocksOf(c), Parent(b) = s.chain, NEW mask, mask \subseteq Node, IsQuorum(mask)
  PROVE  LET u == InsertChain(s, b, mask) IN
         /\ Follows(n, s, u, c, t)
         /\ u.startedCh = s.startedCh /\ u.finishedCh = s.finishedCh
<1> DEFINE u == InsertChain(s, b, mask)
<1>1. /\ IsChain(c) /\ DOMAIN s = Fields /\ s.chain \in BlocksOf(c) /\ Signatures(s)
  BY BlockFacts, Zenon DEF Follower, Frontier
<1>2. /\ DOMAIN u = Fields /\ u.chain = b /\ Number(b) = Number(s.chain) + 1
      /\ \A x \in Fields \ {"chain", "slot", "commitSigs"} : u[x] = s[x]
      /\ Signatures(u) /\ Keeps(s, u)
  BY <1>1, Inserts
<1> HIDE DEF u
<1>3. \A x \in {"me", "leader", "mode", "blockNum", "view", "startedCh", "downloading",
                "finishedCh", "log", "validating", "inserting", "out"} : u[x] = s[x]
  BY <1>2, Zenon DEF Fields
<1>4. Number(s.chain) \in Nat /\ Number(b) \in Nat  BY <1>1, BlockFacts
<1>5. /\ s.blockNum \in Nat /\ s.blockNum <= Number(s.chain) + 1  BY Zenon DEF Follower
<1>6. /\ u.blockNum \in Nat /\ u.blockNum <= Number(u.chain) + 1
      /\ ~(u.startedCh \/ (~u.downloading /\ ~u.finishedCh))
  BY <1>2, <1>3, <1>4, <1>5
<1>7. Follower(n, u, c, t)  BY <1>2, <1>3, <1>6, Zenon DEF Follower
<1> QED  BY <1>2, <1>3, <1>7, Zenon DEF Follows, u

\* One round of the loop of AddConsensusLastMile.
LEMMA InsertStep ==
  ASSUME NEW c, NEW t, Frontier(c, t), NEW n, NEW s, Follower(n, s, c, t), NEW e,
         Follows(n, s, e.node, c, t), ~e.node.startedCh, e.node.finishedCh,
         NEW m, Logged(m, c, t), m.type = "COMMITTED", IsQuorum(m.mask)
  PROVE  LET u == insertNext(e, m).node IN
         Follows(n, s, u, c, t) /\ ~u.startedCh /\ u.finishedCh
<1>1. CASE e.more /\ CanInsert(e.node, m.block)
  <2> DEFINE v == verifyBlock(e.node, m.block)
             u == InsertChain(v, m.block, m.mask)
  <2>1. Follower(n, e.node, c, t) /\ DOMAIN e.node = Fields  BY Zenon DEF Follows, Follower
  <2>2. /\ DOMAIN v = Fields /\ SoundLog(v.log, c, t)
        /\ \A x \in Fields \ {"log"} : v[x] = e.node[x]
    BY <2>1, MarkSound, Zenon DEF Follower, verifyBlock, Fields
  <2> HIDE DEF v
  <2>3. /\ \A x \in Core : v[x] = e.node[x]
        /\ v.mode = e.node.mode /\ v.validating = e.node.validating /\ v.out = e.node.out
        /\ v.chain = e.node.chain /\ ~v.startedCh /\ v.finishedCh
    BY <2>2, Zenon DEF Core, Fields
  <2>4. Follows(n, e.node, v, c, t)  BY <2>1, <2>2, <2>3, FollowerHas, FollowerFrame
  <2>5. Follows(n, s, v, c, t) /\ Follower(n, v, c, t)  BY <2>4, FollowsOn, Zenon DEF Follows
  <2>6. m.block \in BlocksOf(c) /\ m.mask \subseteq Node /\ Parent(m.block) = v.chain
    BY <1>1, <2>3, Zenon DEF Logged, FromRound, CanInsert
  <2>7. Follows(n, v, u, c, t) /\ ~u.startedCh /\ u.finishedCh
    BY <2>3, <2>5, <2>6, FollowInsert
  <2> HIDE DEF u
  <2>8. Follows(n, s, u, c, t)  BY <2>5, <2>7, FollowsOn, Zenon
  <2>9. insertNext(e, m).node = u  BY <1>1, Zenon DEF insertNext, u, v
  <2> QED  BY <2>7, <2>8, <2>9, Zenon
<1>2. CASE ~(e.more /\ CanInsert(e.node, m.block))
  <2>1. insertNext(e, m).node = e.node  BY <1>2, Zenon DEF insertNext
  <2> QED  BY <2>1, Zenon
<1> QED  BY <1>1, <1>2, Zenon

\* AddConsensusLastMile inserts the blocks whose COMMITTED is in the log.
LEMMA FollowLastMile ==
  ASSUME NEW c, NEW t, Frontier(c, t), NEW n, NEW s, Follower(n, s, c, t),
         ~s.startedCh, s.finishedCh, NEW u \in AddConsensusLastMile(s)
  PROVE  Follows(n, s, u, c, t) /\ ~u.startedCh /\ u.finishedCh
<1> DEFINE first == [node |-> s, more |-> TRUE]
           ran(q) == CHOOSE f : f = [i \in 0..Len(q) |->
                       IF i = 0 THEN first ELSE insertNext(f[i - 1], q[i])]
           bn == Number(s.chain) + 1
<1>1. PICK q \in getLastMileBlocksAndMsg(s.log, bn) : u = ran(q)[Len(q)].node
  BY Zenon DEF AddConsensusLastMile
<1>2. /\ Len(q) \in Nat
      /\ \A i \in 1..Len(q) : Logged(q[i], c, t) /\ q[i].type = "COMMITTED" /\ IsQuorum(q[i].mask)
  <2>1. bn \in Nat  BY BlockFacts DEF Follower, Frontier
  <2> HIDE DEF bn
  <2> QED  BY <2>1, LastMile DEF Follower
<1> DEFINE f == ran(q)
<1>3. f = [i \in 0..Len(q) |-> IF i = 0 THEN first ELSE insertNext(f[i - 1], q[i])]
  <2>1. \A e, m : LoopStep("insert", e, m) = insertNext(e, m)  BY Zenon DEF LoopStep
  <2>2. PICK g : Ran(g, "insert", first, q, Len(q))  BY <1>2, LoopsRun, Zenon
  <2>3. g = [i \in 0..Len(q) |-> IF i = 0 THEN first ELSE insertNext(g[i - 1], q[i])]
    BY <2>1, <2>2, Zenon DEF Ran
  <2> QED  BY <2>3, Zenon
<1> HIDE DEF f, first
<1>4. f[0] = first /\ \A i \in 1..Len(q) : f[i] = insertNext(f[i - 1], q[i])
  <2>1. 0 \in 0..Len(q) /\ \A i \in 1..Len(q) : i \in 0..Len(q) /\ i # 0  BY <1>2
  <2>2. \A i \in 0..Len(q) : f[i] = IF i = 0 THEN first ELSE insertNext(f[i - 1], q[i])
    BY <1>3, Zenon
  <2> QED  BY <2>1, <2>2, Zenon
<1> USE DEF first
<1> DEFINE Good(i) == /\ Follows(n, s, f[i].node, c, t)
                      /\ ~f[i].node.startedCh /\ f[i].node.finishedCh
           Bad == {i \in 0..Len(q) : ~Good(i)}
<1>5. Good(0)
  <2>1. f[0].node = s  BY <1>4
  <2> QED  BY <2>1, FollowerIdles, Zenon
<1>6. ASSUME NEW i \in 1..Len(q), Good(i - 1) PROVE Good(i)
  <2>1. /\ Follows(n, s, f[i - 1].node, c, t)
        /\ ~f[i - 1].node.startedCh /\ f[i - 1].node.finishedCh
    BY <1>6, Zenon
  <2>2. Logged(q[i], c, t) /\ q[i].type = "COMMITTED" /\ IsQuorum(q[i].mask)  BY <1>2, Zenon
  <2>3. LET v == insertNext(f[i - 1], q[i]).node IN
        Follows(n, s, v, c, t) /\ ~v.startedCh /\ v.finishedCh
    BY <2>1, <2>2, InsertStep, Zenon
  <2> QED  BY <1>4, <2>3, Zenon
<1> HIDE DEF Good
<1>7. Bad = {}
  <2> SUFFICES ASSUME Bad # {} PROVE FALSE  BY Zenon
  <2>1. Bad \subseteq Nat  BY <1>2
  <2> HIDE DEF Bad
  <2>2. PICK i \in Bad : \A j \in Bad : i <= j  BY <2>1, MinOfNat, Zenon
  <2>3. i \in 0..Len(q) /\ ~Good(i)  BY <2>2, Zenon DEF Bad
  <2>4. i \in 1..Len(q)  BY <2>3, <1>2, <1>5
  <2>5. i - 1 \in 0..Len(q) /\ i - 1 \notin Bad  BY <2>2, <2>4, <1>2
  <2> QED  BY <2>3, <2>4, <2>5, <1>6, Zenon DEF Bad
<1>8. Good(Len(q))  BY <1>2, <1>7
<1> QED  BY <1>1, <1>8, Zenon DEF Good, f

\* What makes a node a follower that works on the block after its chain.
LEMMA FollowsChain ==
  ASSUME NEW n, NEW c, NEW t, NEW s, Follower(n, s, c, t), NEW u, DOMAIN u = Fields,
         u.me = n, u.leader = 1, u.mode \in {"Normal", "Syncing"}, u.chain = s.chain,
         Number(s.chain) \in Nat, u.blockNum = Number(s.chain) + 1, u.view = u.blockNum,
         u.commitSigs = s.commitSigs, u.inserting = {}, SoundLog(u.log, c, t),
         \A m \in u.validating : m.type = "ANNOUNCE" /\ Sound(m, c, t),
         \A m \in u.out : Sound(m, c, t)
  PROVE  Follows(n, s, u, c, t)
<1>1. Signatures(s) /\ Signatures(u)  BY Zenon DEF Follower, Signatures
<1>2. Keeps(s, u)  BY <1>1, SameSignatures, Zenon
<1>3. u.chain \in BlocksOf(c) /\ u.blockNum \in Nat /\ u.blockNum <= Number(u.chain) + 1
  BY DEF Follower
<1>4. Follower(n, u, c, t)  BY <1>1, <1>3, Zenon DEF Follower
<1> QED  BY <1>2, <1>4, Zenon DEF Follows

\* The header of a follower's chain is that of a round of the leader.
LEMMA FollowerHeader ==
  ASSUME NEW c, NEW t, Frontier(c, t), NEW n, NEW s, Follower(n, s, c, t)
  PROVE  /\ Number(s.chain) \in Nat /\ Number(s.chain) >= 1
         /\ Header(s.chain).view = Number(s.chain) /\ Header(s.chain).leader = 1
<1>1. IsChain(c) /\ s.chain \in BlocksOf(c)  BY BlockFacts, Zenon DEF Follower, Frontier
<1> QED  BY <1>1, BlockFacts

\* After a download the node goes on with the block after its chain.
LEMMA FollowSynchronized ==
  ASSUME NEW c, NEW t, Frontier(c, t), NEW n, NEW s, Follower(n, s, c, t),
         ~s.startedCh, s.finishedCh, NEW u \in BlocksSynchronized(s)
  PROVE  Follows(n, s, u, c, t)
<1>1. PICK v \in AddConsensusLastMile(s) : u = syncReadyChan([v EXCEPT !.finishedCh = FALSE])
  BY Zenon DEF BlocksSynchronized
<1>2. Follows(n, s, v, c, t)  BY <1>1, FollowLastMile, Zenon
<1>3. Follower(n, v, c, t) /\ DOMAIN v = Fields /\ v.leader = 1 /\ v.me = n /\ v.inserting = {}
  BY <1>2, Zenon DEF Follows, Follower
<1>4. /\ Number(v.chain) \in Nat /\ Header(v.chain).view = Number(v.chain)
      /\ Header(v.chain).leader = 1
  BY <1>3, FollowerHeader
<1>5. /\ v.blockNum \in Nat /\ v.blockNum <= Number(v.chain) + 1 /\ v.view = v.blockNum
      /\ v.mode \in {"Normal", "Syncing"}
  BY <1>3, Zenon DEF Follower
<1> DEFINE w == [v EXCEPT !.finishedCh = FALSE]
           behind == w.blockNum < Number(w.chain) + 1
           x == setViewIDs([w EXCEPT !.blockNum = Number(w.chain) + 1], Header(w.chain).view + 1)
           y == IF behind THEN x ELSE w
           z == updateConsensusInformation(y)
<1>6. u = IF behind \/ w.mode = "Syncing" THEN Start(z, "consensus") ELSE w
  BY <1>1, Zenon DEF syncReadyChan
<1>7. DOMAIN w = Fields /\ \A f \in Fields \ {"finishedCh"} : w[f] = v[f]
  BY <1>3, Zenon DEF Fields
<1> HIDE DEF w
<1>8. w.chain = v.chain /\ w.blockNum = v.blockNum  BY <1>7, Zenon DEF Fields
<1>9. /\ DOMAIN x = Fields /\ x.blockNum = Number(v.chain) + 1 /\ x.view = Number(v.chain) + 1
      /\ \A f \in Fields \ {"blockNum", "view", "vcView"} : x[f] = w[f]
  BY <1>4, <1>7, <1>8, Zenon DEF setViewIDs, Fields
<1> HIDE DEF x
<1>10. /\ DOMAIN y = Fields /\ y.blockNum = Number(v.chain) + 1 /\ y.view = y.blockNum
       /\ \A f \in Fields \ {"blockNum", "view", "vcView", "finishedCh"} : y[f] = v[f]
  <2>1. CASE behind
    <3>1. y = x  BY <2>1, Zenon
    <3> QED  BY <3>1, <1>7, <1>9, Zenon
  <2>2. CASE ~behind
    <3>1. y = w  BY <2>2, Zenon
    <3>2. w.blockNum = Number(v.chain) + 1  BY <2>2, <1>4, <1>5, <1>8
    <3>3. w.view = v.view  BY <1>7, Zenon DEF Fields
    <3> QED  BY <3>1, <3>2, <3>3, <1>5, <1>7, <1>8, Zenon
  <2> QED  BY <2>1, <2>2, Zenon
<1> HIDE DEF y
<1>11. y.leader = 1 /\ Header(y.chain).leader = 1  BY <1>3, <1>4, <1>10, Zenon DEF Fields
<1>12. /\ DOMAIN z = Fields /\ z.mode = "Normal" /\ z.leader = 1
       /\ \A f \in Fields \ {"mode", "leader", "hash", "body", "prepare", "commit",
                             "prepareBitmap", "commitBitmap", "vc"} : z[f] = y[f]
  BY <1>10, <1>11, InformationKeeps, Zenon
<1> HIDE DEF z
<1>13. /\ z.me = n /\ z.chain = v.chain /\ z.blockNum = Number(v.chain) + 1
       /\ z.view = z.blockNum /\ z.commitSigs = v.commitSigs /\ z.inserting = {}
       /\ z.log = v.log /\ z.validating = v.validating /\ z.out = v.out
  BY <1>3, <1>10, <1>12 DEF Fields
<1>14. Follows(n, v, z, c, t)  BY <1>3, <1>4, <1>12, <1>13, FollowerHas, FollowsChain
<1>15. Follows(n, v, Start(z, "consensus"), c, t)  BY <1>3, <1>14, TimersFree, Zenon
<1>16. ASSUME ~behind PROVE Follows(n, v, w, c, t)
  <2>1. w.blockNum = Number(v.chain) + 1  BY <1>16, <1>4, <1>5, <1>8
  <2>2. /\ w.me = n /\ w.leader = 1 /\ w.mode = v.mode /\ w.chain = v.chain
        /\ w.view = v.view /\ w.commitSigs = v.commitSigs /\ w.inserting = {}
        /\ w.log = v.log /\ w.validating = v.validating /\ w.out = v.out
    BY <1>3, <1>7, Zenon DEF Fields
  <2> QED  BY <2>1, <2>2, <1>3, <1>4, <1>5, <1>7, <1>8, FollowerHas, FollowsChain
<1> HIDE DEF behind
<1>17. Follows(n, v, u, c, t)  BY <1>6, <1>15, <1>16, Zenon
<1> QED  BY <1>2, <1>17, FollowsOn, Zenon

\* The events of a download: it starts, its start is noticed, and it ends.
LEMMA FollowDownload ==
  ASSUME NEW c, NEW t, Frontier(c, t), NEW n, NEW s, Follower(n, s, c, t)
  PROVE  /\ ~s.downloading /\ ~s.startedCh /\ ~s.finishedCh => Follows(n, s, startSyncing(s), c, t)
         /\ s.startedCh => Follows(n, s, BlocksNotSynchronized(s), c, t)
         /\ Follows(n, s, finishSyncing(s), c, t)
<1>0. /\ DOMAIN s = Fields /\ s.me = n /\ s.leader = 1 /\ s.mode \in {"Normal", "Syncing"}
      /\ s.view = s.blockNum /\ s.inserting = {} /\ Number(s.chain) \in Nat
  BY FollowerHeader, Zenon DEF Follower
<1>1. ASSUME ~s.downloading, ~s.startedCh, ~s.finishedCh PROVE Follows(n, s, startSyncing(s), c, t)
  <2> DEFINE u == startSyncing(s)
  <2>1. DOMAIN u = Fields /\ \A x \in Fields \ {"downloading", "startedCh"} : u[x] = s[x]
    BY <1>0, Zenon DEF startSyncing, Fields
  <2>2. s.blockNum = Number(s.chain) + 1  BY <1>1, Zenon DEF Follower
  <2> HIDE DEF u
  <2>3. /\ u.me = n /\ u.leader = 1 /\ u.mode = s.mode /\ u.chain = s.chain
        /\ u.blockNum = s.blockNum /\ u.view = s.view /\ u.commitSigs = s.commitSigs
        /\ u.inserting = {} /\ u.log = s.log /\ u.validating = s.validating /\ u.out = s.out
    BY <1>0, <2>1, Zenon DEF Fields
  <2>4. Follows(n, s, u, c, t)  BY <1>0, <2>1, <2>2, <2>3, FollowerHas, FollowsChain
  <2> QED  BY <2>4, Zenon DEF u
<1>2. ASSUME s.startedCh PROVE Follows(n, s, BlocksNotSynchronized(s), c, t)
  <2> DEFINE u == BlocksNotSynchronized(s)
  <2>1. /\ DOMAIN u = Fields /\ u.blockNum = Number(s.chain) + 1 /\ u.mode = "Syncing"
        /\ \A x \in Fields \ {"blockNum", "mode", "startedCh"} : u[x] = s[x]
    BY <1>0, Zenon DEF BlocksNotSynchronized, syncNotReadyChan, Fields
  <2>2. s.blockNum = Number(s.chain) + 1  BY <1>2, Zenon DEF Follower
  <2> HIDE DEF u
  <2>3. /\ u.me = n /\ u.leader = 1 /\ u.chain = s.chain
        /\ u.view = s.view /\ u.commitSigs = s.commitSigs
        /\ u.inserting = {} /\ u.log = s.log /\ u.validating = s.validating /\ u.out = s.out
    BY <1>0, <2>1, Zenon DEF Fields
  <2>4. Follows(n, s, u, c, t)  BY <1>0, <2>1, <2>2, <2>3, FollowerHas, FollowsChain
  <2> QED  BY <2>4, Zenon DEF u
<1>3. Follows(n, s, finishSyncing(s), c, t)
  <2> DEFINE u == finishSyncing(s)
  <2>1. /\ DOMAIN u = Fields /\ u.finishedCh = TRUE
        /\ \A x \in Fields \ {"downloading", "finishedCh"} : u[x] = s[x]
    BY <1>0, Zenon DEF finishSyncing, Fields
  <2> HIDE DEF u
  <2>2. /\ u.me = s.me /\ u.leader = s.leader /\ u.mode = s.mode /\ u.chain = s.chain
        /\ u.blockNum = s.blockNum /\ u.view = s.view /\ u.startedCh = s.startedCh
        /\ u.commitSigs = s.commitSigs /\ u.inserting = s.inserting /\ u.log = s.log
        /\ u.validating = s.validating /\ u.out = s.out
    BY <2>1, Zenon DEF Fields
  <2>3. Signatures(s) /\ Signatures(u)  BY <2>2, Zenon DEF Follower, Signatures
  <2>4. Keeps(s, u)  BY <2>2, <2>3, SameSignatures, Zenon
  <2>5. Follower(n, u, c, t)  BY <2>1, <2>2, <2>3, Zenon DEF Follower
  <2> QED  BY <2>4, <2>5, Zenon DEF Follows, u
<1> QED  BY <1>1, <1>2, <1>3, Zenon

(***************************************************************************)
(* The other steps of a follower.                                           *)
(***************************************************************************)
\* A step that touches nothing of which Follower speaks.
LEMMA FollowerRests ==
  ASSUME NEW n, NEW c, NEW t, NEW s, Follower(n, s, c, t), NEW u, DOMAIN u = Fields,
         \A x \in Fields \ {"timers", "hash", "body", "ready", "due", "grace"} : u[x] = s[x]
  PROVE  Follows(n, s, u, c, t)
<1>1. /\ \A x \in Core : u[x] = s[x]
      /\ u.mode = s.mode /\ u.log = s.log /\ u.validating = s.validating /\ u.out = s.out
  BY Zenon DEF Core, Fields
<1> QED  BY <1>1, FollowerHas, FollowerFrame

\* A follower proposes nothing, announces nothing and commits nothing after a
\* grace period: it only drops what it was told to do as a leader.
LEMMA FollowIdle ==
  ASSUME NEW n, n # 1, NEW c, NEW t, NEW s, Follower(n, s, c, t)
  PROVE  /\ Follows(n, s, propose(s), c, t)
         /\ \A b : Follows(n, s, announce([s EXCEPT !.due = @ \ {b}], b), c, t)
         /\ \A v : Follows(n, s, endOfGrace(s, v), c, t)
         /\ \A x : Follows(n, s, [s EXCEPT !.timers = x], c, t)
<1>0. DOMAIN s = Fields /\ s.me = n /\ s.leader = 1 /\ ~IsLeader(s)  BY Zenon DEF Follower, IsLeader
<1>1. Follows(n, s, propose(s), c, t)
  <2> DEFINE u == propose(s)
  <2>1. u = [s EXCEPT !.ready = @ - 1]  BY <1>0, Zenon DEF propose
  <2>2. DOMAIN u = Fields /\ \A x \in Fields \ {"ready"} : u[x] = s[x]  BY <1>0, <2>1, Zenon DEF Fields
  <2> HIDE DEF u
  <2>3. Follows(n, s, u, c, t)  BY <2>2, FollowerRests, Zenon
  <2> QED  BY <2>3, Zenon DEF u
<1>2. ASSUME NEW b PROVE Follows(n, s, announce([s EXCEPT !.due = @ \ {b}], b), c, t)
  <2> DEFINE v == [s EXCEPT !.due = @ \ {b}]
             u == [v EXCEPT !.hash = b, !.body = b]
  <2>1. DOMAIN v = Fields /\ \A x \in Fields \ {"due"} : v[x] = s[x]  BY <1>0, Zenon DEF Fields
  <2> HIDE DEF v
  <2>2. ~IsLeader(v)  BY <1>0, <2>1, Zenon DEF IsLeader, Fields
  <2>3. announce(v, b) = u  BY <2>2, Zenon DEF announce
  <2>4. DOMAIN u = Fields /\ \A x \in Fields \ {"due", "hash", "body"} : u[x] = s[x]
    BY <2>1, Zenon DEF Fields
  <2> HIDE DEF u
  <2>5. Follows(n, s, u, c, t)  BY <2>4, FollowerRests, Zenon
  <2> QED  BY <2>3, <2>5, Zenon DEF v
<1>3. ASSUME NEW v PROVE Follows(n, s, endOfGrace(s, v), c, t)
  <2> DEFINE u == [s EXCEPT !.grace = @ \ {v}]
  <2>1. DOMAIN u = Fields /\ \A x \in Fields \ {"grace"} : u[x] = s[x]  BY <1>0, Zenon DEF Fields
  <2> HIDE DEF u
  <2>2. ~IsLeader(u)  BY <1>0, <2>1, Zenon DEF IsLeader, Fields
  <2>3. finalCommit(u) = u  BY <2>2, Zenon DEF finalCommit
  <2>4. endOfGrace(s, v) = u  BY <2>3, Zenon DEF endOfGrace, u
  <2> QED  BY <2>1, <2>4, FollowerRests, Zenon
<1>4. ASSUME NEW x PROVE Follows(n, s, [s EXCEPT !.timers = x], c, t)
  <2> DEFINE u == [s EXCEPT !.timers = x]
  <2>1. DOMAIN u = Fields /\ \A y \in Fields \ {"timers"} : u[y] = s[y]  BY <1>0, Zenon DEF Fields
  <2> HIDE DEF u
  <2>2. Follows(n, s, u, c, t)  BY <2>1, FollowerRests, Zenon
  <2> QED  BY <2>2, Zenon DEF u
<1> QED  BY <1>1, <1>2, <1>3, <1>4, Zenon

\* The background validation of an announced block.
LEMMA FollowValidation ==
  ASSUME NEW c, NEW t, NEW n, NEW s, Follower(n, s, c, t), NEW m \in s.validating
  PROVE  Follows(n, s, validateNewBlock([s EXCEPT !.validating = @ \ {m}], m), c, t)
<1> DEFINE v == [s EXCEPT !.validating = @ \ {m}]
           u == validateNewBlock(v, m)
<1>1. /\ DOMAIN v = Fields /\ v.validating = s.validating \ {m}
      /\ \A x \in Fields \ {"validating"} : v[x] = s[x]
  BY Zenon DEF Follower, Fields
<1> HIDE DEF v
<1>2. m.type = "ANNOUNCE" /\ Sound(m, c, t)  BY Zenon DEF Follower
<1>3. Follows(n, s, v, c, t) /\ Follower(n, v, c, t)
  <2>1. /\ \A x \in Core : v[x] = s[x]
        /\ v.mode = s.mode /\ v.log = s.log /\ v.out = s.out
    BY <1>1, Zenon DEF Core, Fields
  <2>2. \A x \in v.validating : x.type = "ANNOUNCE" /\ Sound(x, c, t)  BY <1>1, FollowerHas, Zenon
  <2>3. Follows(n, s, v, c, t)  BY <2>1, <2>2, <1>1, FollowerHas, FollowerFrame
  <2> QED  BY <2>3, Zenon DEF Follows
<1>4. /\ DOMAIN u = Fields /\ SoundLog(u.log, c, t)
      /\ \A x \in Fields \ {"log", "body"} : u[x] = v[x]
  BY <1>2, <1>3, ValidationKeeps
<1> HIDE DEF u
<1>5. Follows(n, v, u, c, t)
  <2>1. /\ \A x \in Core : u[x] = v[x]
        /\ u.mode = v.mode /\ u.validating = v.validating /\ u.out = v.out
    BY <1>4, Zenon DEF Core, Fields
  <2> QED  BY <2>1, <1>3, <1>4, FollowerHas, FollowerFrame
<1>6. Follows(n, s, u, c, t)  BY <1>3, <1>5, FollowsOn, Zenon
<1> QED  BY <1>6, Zenon DEF u, v

\* A node restarts on its chain and the commit signatures it has stored.
LEMMA FollowRestart ==
  ASSUME NEW c, NEW t, Frontier(c, t), NEW n, NEW s, Follower(n, s, c, t),
         NEW u, u = [Fresh(n, s.chain, Node) EXCEPT
                       !.commitSigs = s.commitSigs, !.proposed = s.proposed,
                       !.ready = IF s.proposed < MaxProposals THEN @ ELSE 0,
                       !.slot = s.slot, !.restarted = TRUE]
  PROVE  Follows(n, s, u, c, t)
<1> DEFINE b == s.chain
           w == Fresh(n, b, Node)
<1>1. /\ Number(b) \in Nat /\ Header(b).view = Number(b) /\ Header(b).leader = 1
  BY FollowerHeader, Zenon
<1>2. /\ DOMAIN w = Fields /\ w.me = n /\ w.leader = 1 /\ w.mode = "Normal" /\ w.chain = b
      /\ w.blockNum = Number(b) + 1 /\ w.view = Number(b) + 1 /\ w.inserting = {}
      /\ w.log = EmptyLog /\ w.validating = {} /\ w.out = {}
  BY <1>1, Zenon DEF Fresh, Fields
<1>3. u = [w EXCEPT !.commitSigs = s.commitSigs, !.proposed = s.proposed,
                    !.ready = IF s.proposed < MaxProposals THEN @ ELSE 0,
                    !.slot = s.slot, !.restarted = TRUE]
  BY Zenon
<1> HIDE DEF w
<1>4. /\ DOMAIN u = Fields /\ u.me = n /\ u.leader = 1 /\ u.mode = "Normal" /\ u.chain = b
      /\ u.blockNum = Number(b) + 1 /\ u.view = Number(b) + 1 /\ u.inserting = {}
      /\ u.log = EmptyLog /\ u.validating = {} /\ u.out = {} /\ u.commitSigs = s.commitSigs
  <2>1. DOMAIN u = Fields /\ u.commitSigs = s.commitSigs  BY <1>2, <1>3, Zenon DEF Fields
  <2>2. \A x \in {"me", "leader", "mode", "chain", "blockNum", "view"} : u[x] = w[x]
    BY <1>2, <1>3, Zenon DEF Fields
  <2>3. \A x \in {"inserting", "log", "validating", "out"} : u[x] = w[x]
    BY <1>2, <1>3, Zenon DEF Fields
  <2> QED  BY <1>2, <2>1, <2>2, <2>3, Zenon
<1>5. SoundLog(u.log, c, t)
  <2>1. IsFiniteSet({})  BY FS_EmptySet, Zenon
  <2> QED  BY <2>1, <1>4 DEF SoundLog, EmptyLog
<1> QED  BY <1>1, <1>4, <1>5, FollowsChain, Zenon

\* The slot of a view change is the view it asks for, two above the view of the
\* current block or later.
LEMMA ViewChangeSlot ==
  ASSUME NEW s, DOMAIN s = Fields, Header(s.chain).view \in Nat, Header(s.chain).view >= 1,
         NEW u \in startViewChange(s)
  PROVE  u.slot \in Nat /\ u.slot >= 3
<1>1. PICK v \in getNextViewID(s), chosen \in PreparedChoices(s) : u = requestView(s, v, chosen)
  BY DEF startViewChange
<1> DEFINE s1 == [s EXCEPT !.timers = {"viewchange"}, !.mode = "ViewChanging",
                           !.vcView = v, !.slot = v, !.leader = getNextLeaderKey(s, v)]
           s2 == InitPayload(s1, v, chosen)
           s3 == VerifyOwn(s2, chosen)
<1>2. v \in Nat /\ v >= 3  BY BoundsAssumption DEF getNextViewID
<1>3. DOMAIN s1 = Fields /\ s1.slot = v  BY Zenon DEF Fields
<1>4. u = Send(s3, ViewChangeMsg(s2, chosen))  BY <1>1, Zenon DEF requestView
<1> HIDE DEF s1
<1>5. \A x : DOMAIN x = Fields => /\ DOMAIN VerifyOwn(x, chosen) = Fields
                                  /\ VerifyOwn(x, chosen).slot = x.slot
  BY Zenon DEF VerifyOwn, verifyBlock, Fields
<1>6. DOMAIN s2 = Fields /\ s2.slot = v
  <2> DEFINE own == << v, s1.me >>
             m1 == OwnM1(s1, chosen)
             inited == own \in s1.vc.bhpSigs \cup s1.vc.nilSigs
             vc1 == IF m1 = {}
                    THEN [s1.vc EXCEPT !.nilSigs = @ \cup {own}]
                    ELSE [s1.vc EXCEPT !.bhpSigs = @ \cup {own},
                                       !.m1Payload = IF @ = {} THEN m1 ELSE @]
             x == IF inited THEN s1 ELSE [VerifyOwn(s1, chosen) EXCEPT !.vc = vc1]
  <2>1. s2 = [x EXCEPT !.vc.viewIDSigs = @ \cup {own}]  BY Zenon DEF InitPayload
  <2>2. DOMAIN VerifyOwn(s1, chosen) = Fields /\ VerifyOwn(s1, chosen).slot = v
    BY <1>3, <1>5, Zenon
  <2> HIDE DEF vc1, inited, own
  <2>3. DOMAIN x = Fields /\ x.slot = v  BY <1>3, <2>2, Zenon DEF Fields
  <2> HIDE DEF x, s2
  <2> QED  BY <2>1, <2>3, Zenon DEF Fields
<1> HIDE DEF s2
<1>7. DOMAIN s3 = Fields /\ s3.slot = v  BY <1>5, <1>6, Zenon
<1> HIDE DEF s3
<1>8. u.slot = v  BY <1>4, <1>7, Zenon DEF Send, Fields
<1> QED  BY <1>2, <1>8, Zenon

=============================================================================
