----------------------------- MODULE FBFTProofs -----------------------------
(***************************************************************************)
(* The committee without a change of view, for every size, weights and      *)
(* number of blocks: as long as no timer starts a view change and the       *)
(* leader, node 1, does not restart, the committee implements               *)
(* ChainAgreement and keeps its other safety properties.  The other nodes   *)
(* may lag, download, restart and validate early; messages may be lost,     *)
(* repeated and reordered.                                                  *)
(*                                                                          *)
(* The invariant (IInv) compares every node with the leader.  The leader is *)
(* in one of six phases of a round; all other nodes have blocks of its      *)
(* chain; and every message and log entry is about a block of its chain or  *)
(* about the block of its round.  A lemma per handler says that it keeps a  *)
(* follower a follower (Follow...) or the leader in a phase (Lead...).      *)
(***************************************************************************)
EXTENDS FBFT, FollowerProofs

(***************************************************************************)
(* The leader, and the committee.                                           *)
(***************************************************************************)
\* The last announced block, or the chain between two rounds.
Top(s) == IF s.hash = NoBlock THEN s.chain ELSE s.hash

\* Between two rounds: nothing is announced, and there are no votes.
Between(s) ==
  /\ s.hash = NoBlock /\ s.commit = NoVotes /\ s.commitBitmap = {} /\ s.grace = {}
  /\ s.blockNum = Number(s.chain) + 1

\* In a round: the block of the round has been announced, and who votes for its
\* commit votes for this block.
Voting(s) ==
  /\ s.hash # NoBlock /\ s.due = {} /\ s.body = s.hash /\ HasBlock(s.log, s.hash)
  /\ IsChain(s.hash) /\ s.blockNum = Number(s.hash)
  /\ DOMAIN s.commit = s.commitBitmap /\ s.commitBitmap \subseteq Node
  /\ \A k \in s.commitBitmap : s.commit[k] = s.hash

\* The insertion of block b by the pre-commit, with the signatures of a quorum.
Job(job, b) ==
  /\ job.block = b /\ FromRound(job.msg, b, b) /\ job.msg.type = "COMMITTED"
  /\ job.msg.block = b /\ job.msg.mask \subseteq Node /\ IsQuorum(job.msg.mask)

\* The leader proposes, announces, collects votes, and commits the block twice:
\* before the grace period and after it, in either order.
Ready(s) == Between(s) /\ s.inserting = {} /\ s.due = {} /\ s.ready \in {0, 1}
Proposed(s) ==
  /\ Between(s) /\ s.inserting = {} /\ s.ready = 0
  /\ \E b \in s.due : s.due = {b} /\ IsChain(b) /\ Parent(b) = s.chain /\ Number(b) = s.blockNum
Collecting(s) ==
  /\ Voting(s) /\ Parent(s.hash) = s.chain /\ Number(s.hash) = Number(s.chain) + 1
  /\ s.inserting = {} /\ s.grace = {} /\ s.ready = 0
Committing(s) ==
  /\ Voting(s) /\ Parent(s.hash) = s.chain /\ Number(s.hash) = Number(s.chain) + 1
  /\ s.grace = {s.view} /\ s.ready = 0 /\ IsQuorum(s.commitBitmap)
  /\ \E job \in s.inserting : /\ s.inserting = {job} /\ Job(job, s.hash)
                             /\ job.msg.mask \subseteq s.commitBitmap
PreCommitted(s) ==
  /\ Voting(s) /\ s.chain = s.hash /\ s.inserting = {} /\ s.grace = {s.view}
  /\ s.ready \in {0, 1} /\ IsQuorum(s.commitBitmap)
  /\ s.commitSigs[Number(s.chain)] \subseteq s.commitBitmap
Finished(s) ==
  /\ Between(s) /\ s.due = {} /\ s.ready = 0
  /\ \E job \in s.inserting : s.inserting = {job} /\ Job(job, s.chain)

Phases(s) ==
  \/ Ready(s) \/ Proposed(s) \/ Collecting(s)
  \/ Committing(s) \/ PreCommitted(s) \/ Finished(s)

Leader(s) ==
  /\ DOMAIN s = Fields /\ DOMAIN s.log = {"messages", "blocks", "verifiedBlocks"}
  /\ s.me = 1 /\ s.leader = 1 /\ s.mode = "Normal"
  /\ s.validating = {} /\ s.replaying = {}
  /\ ~s.downloading /\ ~s.startedCh /\ ~s.finishedCh
  /\ IsChain(s.chain) /\ s.view = s.blockNum /\ s.proposed \in Nat
  /\ Signatures(s)
  /\ Phases(s)

\* The leader is ahead of all other nodes, and what was sent is sound.
Committee(nd, ms) ==
  LET c == nd[1].chain
      t == Top(nd[1])
  IN /\ DOMAIN nd = Node
     /\ Leader(nd[1]) /\ nd[1].out = {}
     /\ \A n \in Node \ {1} : Follower(n, nd[n], c, t) /\ nd[n].out = {}
     /\ \A m \in ms : Sound(m, c, t)

\* No timer starts a view change, and the leader does not restart.
Calm == \A e \in Scenarios : 1 \notin e.restarting /\ (e.views <= 2 \/ e.impatient = {})

IInv == Committee(node, msgs) /\ env \in Scenarios

\* A step of the leader from s to u.
Heads(s, u) ==
  /\ Leader(u) /\ Keeps(s, u)
  /\ Frontier(u.chain, Top(u)) /\ s.chain \in BlocksOf(u.chain) /\ Top(s) \in BlocksOf(Top(u))
  /\ Number(u.chain) <= Number(s.chain) + 1

\* The parent of a block of the leader.
LEMMA ParentBlock ==
  ASSUME NEW b, IsChain(b), NEW p, IsChain(p), Parent(b) = p
  PROVE  p \in BlocksOf(b) /\ Number(b) = Number(p) + 1 /\ Number(p) \in Nat /\ Number(p) >= 1
<1>1. b \in Seq(Headers) /\ Len(b) \in Nat /\ Len(b) > 0 /\ Len(p) \in Nat /\ Len(p) > 0
  BY DEF IsChain
<1> DEFINE k == Len(b) - 1
<1>2. k \in 0..Len(b)  BY <1>1
<1>3. p = SubSeq(b, 1, k)  BY Zenon DEF Parent
<1> HIDE DEF k
<1>4. Len(p) = k  BY <1>1, <1>2, <1>3
<1>5. k \in 1..Len(b)  BY <1>1, <1>2, <1>4
<1>6. p \in BlocksOf(b)  BY <1>3, <1>5, Zenon DEF BlocksOf
<1> QED  BY <1>1, <1>4, <1>6 DEF Number, k

\* The announced block is the leader's chain or the next block on top of it.
LEMMA LeaderFrontier ==
  ASSUME NEW s, Leader(s)
  PROVE  /\ Frontier(s.chain, Top(s)) /\ IsChain(s.chain) /\ IsChain(Top(s))
         /\ s.chain \in BlocksOf(s.chain) /\ Top(s) \in BlocksOf(Top(s))
         /\ Number(s.chain) \in Nat /\ Number(s.chain) >= 1
         /\ Header(s.chain).view = Number(s.chain) /\ Header(s.chain).leader = 1
<1>1. IsChain(s.chain) /\ Phases(s)  BY Zenon DEF Leader
<1>2. IsChain(Top(s)) /\ s.chain \in BlocksOf(Top(s))
  <2>1. CASE Between(s)  BY <2>1, <1>1, ChainItself, Zenon DEF Between, Top
  <2>2. CASE Voting(s) /\ Parent(s.hash) = s.chain
    BY <2>2, <1>1, ParentBlock, Zenon DEF Voting, Top
  <2>3. CASE Voting(s) /\ s.chain = s.hash  BY <2>3, <1>1, ChainItself, Zenon DEF Voting, Top
  <2> QED  BY <1>1, <2>1, <2>2, <2>3, Zenon
           DEF Phases, Ready, Proposed, Collecting, Committing, PreCommitted, Finished
<1>3. s.chain \in BlocksOf(s.chain) /\ Top(s) \in BlocksOf(Top(s))  BY <1>1, <1>2, ChainItself, Zenon
<1>4. /\ Number(s.chain) \in 1..Number(s.chain) /\ Number(s.chain) \in Nat
      /\ Header(s.chain).view = Number(s.chain) /\ Header(s.chain).leader = 1
  BY <1>1, <1>3, BlockFacts, Zenon
<1> QED  BY <1>1, <1>2, <1>3, <1>4 DEF Frontier

\* A step that leaves the leader in its phase.
LEMMA LeaderRests ==
  ASSUME NEW s, Leader(s), NEW u, DOMAIN u = Fields,
         \A x \in Fields \ {"timers", "out"} : u[x] = s[x]
  PROVE  Heads(s, u)
<1>1. /\ u.me = s.me /\ u.leader = s.leader /\ u.mode = s.mode /\ u.log = s.log
      /\ u.validating = s.validating /\ u.replaying = s.replaying
      /\ u.downloading = s.downloading /\ u.startedCh = s.startedCh
      /\ u.finishedCh = s.finishedCh /\ u.chain = s.chain /\ u.view = s.view
      /\ u.blockNum = s.blockNum /\ u.proposed = s.proposed /\ u.commitSigs = s.commitSigs
  BY Zenon DEF Fields
<1>2. /\ u.hash = s.hash /\ u.body = s.body /\ u.commit = s.commit
      /\ u.commitBitmap = s.commitBitmap /\ u.grace = s.grace /\ u.due = s.due
      /\ u.inserting = s.inserting /\ u.ready = s.ready
  BY Zenon DEF Fields
<1>3. Between(u) <=> Between(s)  BY <1>1, <1>2, Zenon DEF Between
<1>4. Voting(u) <=> Voting(s)  BY <1>1, <1>2 DEF Voting
<1>5. Phases(u)
  <2>1. Phases(s)  BY Zenon DEF Leader
  <2>2. Ready(s) => Ready(u)  BY <1>1, <1>2, <1>3, Zenon DEF Ready
  <2>3. Proposed(s) => Proposed(u)  BY <1>1, <1>2, <1>3, Zenon DEF Proposed
  <2>4. Collecting(s) => Collecting(u)  BY <1>1, <1>2, <1>4, Zenon DEF Collecting
  <2>5. Committing(s) => Committing(u)  BY <1>1, <1>2, <1>4, Zenon DEF Committing
  <2>6. PreCommitted(s) => PreCommitted(u)  BY <1>1, <1>2, <1>4, Zenon DEF PreCommitted
  <2>7. Finished(s) => Finished(u)  BY <1>1, <1>2, <1>3, Zenon DEF Finished
  <2> QED  BY <2>1, <2>2, <2>3, <2>4, <2>5, <2>6, <2>7, Zenon DEF Phases
<1>6. Signatures(s) /\ Signatures(u)  BY <1>1, Zenon DEF Leader, Signatures
<1>7. Leader(u)  BY <1>1, <1>5, <1>6, Zenon DEF Leader
<1>8. Keeps(s, u)  BY <1>1, <1>6, SameSignatures, Zenon
<1>9. Top(u) = Top(s)  BY <1>1, <1>2, Zenon DEF Top
<1> QED  BY <1>1, <1>7, <1>8, <1>9, LeaderFrontier, SMTT(20) DEF Heads

\* The leader builds a block on its chain.
LEMMA LeadPropose ==
  ASSUME NEW s, Leader(s), s.ready > 0, s.grace = {}
  PROVE  Heads(s, propose(s)) /\ propose(s).out = s.out
<1> DEFINE h == [view |-> s.view, leader |-> s.me, nonce |-> s.proposed]
           b == proposal(s)
           s1 == [s EXCEPT !.ready = @ - 1]
           s2 == [s1 EXCEPT !.proposed = @ + 1]
           u == [s2 EXCEPT !.due = @ \cup {b}]
<1>1. Ready(s)
  BY DEF Leader, Phases, Ready, Proposed, Collecting, Committing, PreCommitted, Finished
<1>2. Between(s) /\ s.inserting = {} /\ s.due = {} /\ s.ready = 1  BY <1>1 DEF Ready
<1>3. /\ IsChain(s.chain) /\ s.view = s.blockNum /\ s.me = 1 /\ s.proposed \in Nat
      /\ s.blockNum = Number(s.chain) + 1 /\ IsLeader(s) /\ DOMAIN s = Fields
  BY <1>2, Zenon DEF Leader, Between, IsLeader
<1>4. s.chain \in Seq(Headers) /\ Len(s.chain) \in Nat /\ Len(s.chain) > 0 /\ 1 \in Node
  BY <1>3, CommitteeAssumption DEF IsChain, Node
<1>5. h \in Headers /\ h.view = Len(s.chain) + 1 /\ h.leader = 1
  BY <1>3, <1>4 DEF Headers, Number
<1>6. b = Append(s.chain, h)  BY Zenon DEF proposal
<1> HIDE DEF h, b
<1>7. /\ b \in Seq(Headers) /\ Len(b) = Len(s.chain) + 1 /\ b[Len(b)] = h
      /\ \A i \in 1..Len(s.chain) : b[i] = s.chain[i]
  BY <1>4, <1>5, <1>6
<1>8. IsChain(b)
  <2> SUFFICES ASSUME NEW i \in 1..Len(b) PROVE b[i].view = i /\ b[i].leader = 1
      BY <1>4, <1>7 DEF IsChain
  <2>1. CASE i = Len(b)  BY <2>1, <1>5, <1>7, Zenon
  <2>2. CASE i # Len(b)
    <3>1. i \in 1..Len(s.chain)  BY <2>2, <1>4, <1>7
    <3> QED  BY <3>1, <1>3, <1>7, Zenon DEF IsChain
  <2> QED  BY <2>1, <2>2, Zenon
<1>9. Parent(b) = s.chain /\ Number(b) = s.blockNum
  <2>1. SubSeq(b, 1, Len(s.chain)) = s.chain  BY <1>4, <1>7
  <2>2. Len(b) - 1 = Len(s.chain)  BY <1>4, <1>7
  <2> QED  BY <2>1, <2>2, <1>3, <1>7, Zenon DEF Parent, Number
<1>10. propose(s) = u
  <2>1. ~(Number(proposal(s)) < s.blockNum)  BY <1>3, <1>4, <1>9 DEF b, Number
  <2> QED  BY <2>1, <1>3, Zenon DEF propose, b
<1>11. /\ DOMAIN u = Fields /\ u.ready = 0 /\ u.proposed = s.proposed + 1 /\ u.due = {b}
       /\ \A x \in Fields \ {"ready", "proposed", "due"} : u[x] = s[x]
  <2>1. DOMAIN s1 = Fields /\ s1.ready = 0 /\ \A x \in Fields \ {"ready"} : s1[x] = s[x]
    BY <1>2, <1>3 DEF Fields
  <2> HIDE DEF s1
  <2>2. /\ DOMAIN s2 = Fields /\ s2.proposed = s.proposed + 1
        /\ \A x \in Fields \ {"proposed"} : s2[x] = s1[x]
    BY <2>1, Zenon DEF Fields
  <2> HIDE DEF s2
  <2>3. DOMAIN u = Fields /\ u.due = {b} /\ \A x \in Fields \ {"due"} : u[x] = s2[x]
    BY <2>1, <2>2, <1>2, Zenon DEF Fields
  <2> HIDE DEF u
  <2> QED  BY <2>1, <2>2, <2>3, Zenon DEF Fields
<1> HIDE DEF u
<1>12. /\ u.me = s.me /\ u.leader = s.leader /\ u.mode = s.mode /\ u.log = s.log
       /\ u.validating = s.validating /\ u.replaying = s.replaying
       /\ u.downloading = s.downloading /\ u.startedCh = s.startedCh
       /\ u.finishedCh = s.finishedCh /\ u.chain = s.chain /\ u.view = s.view
       /\ u.blockNum = s.blockNum /\ u.commitSigs = s.commitSigs /\ u.out = s.out
       /\ u.hash = s.hash /\ u.commit = s.commit /\ u.commitBitmap = s.commitBitmap
       /\ u.grace = s.grace /\ u.inserting = s.inserting
  BY <1>11, Zenon DEF Fields
<1>13. Proposed(u)  BY <1>2, <1>8, <1>9, <1>11, <1>12, Zenon DEF Proposed, Between
<1>14. Signatures(s) /\ Signatures(u)  BY <1>12, Zenon DEF Leader, Signatures
<1>15. Leader(u)  BY <1>3, <1>11, <1>12, <1>13, <1>14, SMTT(20) DEF Leader, Phases
<1>16. Keeps(s, u) /\ Top(u) = Top(s)  BY <1>12, <1>14, SameSignatures, Zenon DEF Top
<1> QED  BY <1>10, <1>12, <1>15, <1>16, LeaderFrontier, SMTT(20) DEF Heads

\* What a leader sends is sound.
Speaks(u) == \A m \in u.out : Sound(m, u.chain, Top(u))

\* A message that the leader constructs in a round.
LEMMA RoundMessage ==
  ASSUME NEW c, NEW t, NEW s, s.me = 1, s.view = s.blockNum, s.hash \in BlocksOf(t),
         s.blockNum = Number(s.hash),
         NEW m, m.type \in LeaderTypes, m.from = s.me, m.num = s.blockNum, m.view = s.view,
         m.block = s.hash,
         m.type = "COMMITTED" => s.hash \in BlocksOf(c) /\ m.mask \subseteq Node,
         m.type # "COMMITTED" => m.body = s.hash
  PROVE  FromRound(m, c, t) /\ Sound(m, c, t)
<1>1. FromRound(m, c, t)  BY Zenon DEF FromRound
<1> QED  BY <1>1, Zenon DEF Sound

\* Nobody has voted at first.
LEMMA NoVoters == DOMAIN NoVotes = {}
<1>1. << >> \in Seq(Nat) /\ Len(<< >>) = 0  OBVIOUS
<1>2. \A q \in Seq(Nat) : DOMAIN q = 1..Len(q)  OBVIOUS
<1>3. 1..0 = {}  OBVIOUS
<1> QED  BY <1>1, <1>2, <1>3, Zenon DEF NoVotes

\* The log of the leader holds the block of the round.
LEMMA LeaderLogs ==
  ASSUME NEW s, DOMAIN s = Fields, DOMAIN s.log = {"messages", "blocks", "verifiedBlocks"}, NEW m
  PROVE  LET u == LogVerified(s, m) IN
         /\ DOMAIN u = Fields /\ DOMAIN u.log = {"messages", "blocks", "verifiedBlocks"}
         /\ u.log.blocks = s.log.blocks
         /\ \A x \in Fields \ {"log"} : u[x] = s[x]
<1> DEFINE log == AddVerifiedMessage(s.log, m)
<1>1. DOMAIN log = {"messages", "blocks", "verifiedBlocks"} /\ log.blocks = s.log.blocks
  BY Zenon DEF AddVerifiedMessage, AddMessage
<1>2. LogVerified(s, m) = [s EXCEPT !.log = log]  BY Zenon DEF LogVerified
<1> HIDE DEF log
<1> QED  BY <1>1, <1>2, Zenon DEF Fields

\* announce starts the round of the block.
LEMMA LeadAnnounce ==
  ASSUME NEW s, Leader(s), s.out = {}, NEW b \in s.due,
         NEW u, u = announce([s EXCEPT !.due = @ \ {b}], b)
  PROVE  Heads(s, u) /\ Speaks(u)
<1> DEFINE s0 == [s EXCEPT !.due = @ \ {b}]
           s1 == [s0 EXCEPT !.hash = b, !.body = b]
           m == LeaderMsg(s1, "ANNOUNCE", b, {}, TRUE)
           l == LogVerified(s1, m)
           s2 == [l EXCEPT !.log = AddBlock(@, b), !.prepareBitmap = @ \cup {s0.me}]
           s3 == [s2 EXCEPT !.prepare = Put(@, s0.me, b)]
           s4 == Send(s3, m)
<1>1. Proposed(s)
  BY Zenon DEF Leader, Phases, Ready, Proposed, Collecting, Committing, PreCommitted, Finished, Voting
<1>2. /\ Between(s) /\ s.inserting = {} /\ s.ready = 0 /\ s.due = {b} /\ IsChain(b)
      /\ Parent(b) = s.chain /\ Number(b) = s.blockNum
  BY <1>1, Zenon DEF Proposed
<1>3. /\ DOMAIN s = Fields /\ DOMAIN s.log = {"messages", "blocks", "verifiedBlocks"}
      /\ s.me = 1 /\ s.leader = 1 /\ s.view = s.blockNum /\ IsChain(s.chain)
  BY Zenon DEF Leader
<1>4. DOMAIN s0 = Fields /\ s0.due = {} /\ \A x \in Fields \ {"due"} : s0[x] = s[x]
  BY <1>2, <1>3, Zenon DEF Fields
<1> HIDE DEF s0
<1>5. /\ DOMAIN s1 = Fields /\ s1.hash = b /\ s1.body = b
      /\ \A x \in Fields \ {"hash", "body"} : s1[x] = s0[x]
  BY <1>4, Zenon DEF Fields
<1>m. m = LeaderMsg(s1, "ANNOUNCE", b, {}, TRUE)  BY Zenon
<1> HIDE DEF s1, m
<1>6. /\ DOMAIN l = Fields /\ DOMAIN l.log = {"messages", "blocks", "verifiedBlocks"}
      /\ \A x \in Fields \ {"log"} : l[x] = s1[x]
  <2>1. s1.log = s.log  BY <1>4, <1>5, Zenon DEF Fields
  <2> QED  BY <2>1, <1>3, <1>5, LeaderLogs
<1> HIDE DEF l
<1>7. /\ DOMAIN s2 = Fields /\ DOMAIN s2.log = {"messages", "blocks", "verifiedBlocks"}
      /\ HasBlock(s2.log, b) /\ \A x \in Fields \ {"log", "prepareBitmap"} : s2[x] = l[x]
  <2> DEFINE log == AddBlock(l.log, b)
  <2>1. DOMAIN log = {"messages", "blocks", "verifiedBlocks"} /\ b \in log.blocks
    BY <1>6, Zenon DEF AddBlock
  <2>2. s2 = [l EXCEPT !.log = log, !.prepareBitmap = @ \cup {s0.me}]  BY Zenon
  <2> HIDE DEF log, s2
  <2> QED  BY <2>1, <2>2, <1>6, Zenon DEF HasBlock, Fields
<1> HIDE DEF s2
<1>8. DOMAIN s3 = Fields /\ \A x \in Fields \ {"prepare"} : s3[x] = s2[x]  BY <1>7, Zenon DEF Fields
<1> HIDE DEF s3
<1>9. /\ DOMAIN s4 = Fields /\ s4.out = s3.out \cup {m}
      /\ \A x \in Fields \ {"out"} : s4[x] = s3[x]
  BY <1>8, Zenon DEF Send, Fields
<1>10. u \in {s2, s4}
  <2>1. IsLeader(s0)  BY <1>3, <1>4, Zenon DEF IsLeader, Fields
  <2>2. u = IF ~IsLeader(s0) THEN s1 ELSE IF s0.me \in DOMAIN s0.prepare THEN s2 ELSE s4
    BY Zenon DEF announce, s0, s1, m, l, s2, s3
  <2> QED  BY <2>1, <2>2, Zenon
<1>11. Sound(m, s.chain, b)
  <2>1. b \in BlocksOf(b)  BY <1>2, ChainItself, Zenon
  <2>2. s1.me = 1 /\ s1.view = s1.blockNum /\ s1.hash = b /\ s1.blockNum = Number(b)
    BY <1>2, <1>3, <1>4, <1>5, Zenon DEF Fields
  <2>3. /\ m.type = "ANNOUNCE" /\ m.from = s1.me /\ m.num = s1.blockNum /\ m.view = s1.view
        /\ m.block = s1.hash /\ m.body = b
    BY <1>m, Zenon DEF LeaderMsg
  <2>4. m.type \in LeaderTypes /\ m.type # "COMMITTED"  BY <2>3, Zenon DEF LeaderTypes
  <2> QED  BY <2>1, <2>2, <2>3, <2>4, RoundMessage, Zenon
<1> HIDE DEF s4
<1>12. /\ DOMAIN u = Fields /\ DOMAIN u.log = {"messages", "blocks", "verifiedBlocks"}
       /\ HasBlock(u.log, b) /\ u.out \subseteq {m} /\ u.hash = b /\ u.body = b /\ u.due = {}
       /\ \A x \in Fields \ {"log", "prepare", "prepareBitmap", "out", "hash", "body", "due"} :
            u[x] = s[x]
  <2>1. s2.out = {} /\ s2.hash = b /\ s2.body = b /\ s2.due = {}
    BY <1>4, <1>5, <1>6, <1>7, Zenon DEF Fields
  <2>2. \A x \in Fields \ {"log", "prepareBitmap", "hash", "body", "due"} : s2[x] = s[x]
    BY <1>4, <1>5, <1>6, <1>7 DEF Fields
  <2>3. s4.out = {m} /\ s4.log = s2.log /\ s4.hash = b /\ s4.body = b /\ s4.due = {}
    BY <1>8, <1>9, <2>1, Zenon DEF Fields
  <2>4. \A x \in Fields \ {"log", "prepare", "prepareBitmap", "out", "hash", "body", "due"} :
          s4[x] = s[x]
    BY <1>8, <1>9, <2>2, Zenon DEF Fields
  <2> QED  BY <1>7, <1>9, <1>10, <2>1, <2>2, <2>3, <2>4, Zenon
<1>13. /\ u.me = s.me /\ u.leader = s.leader /\ u.mode = s.mode
       /\ u.validating = s.validating /\ u.replaying = s.replaying
       /\ u.downloading = s.downloading /\ u.startedCh = s.startedCh
       /\ u.finishedCh = s.finishedCh /\ u.chain = s.chain /\ u.view = s.view
       /\ u.blockNum = s.blockNum /\ u.commitSigs = s.commitSigs /\ u.proposed = s.proposed
       /\ u.commit = s.commit /\ u.commitBitmap = s.commitBitmap /\ u.ready = s.ready
       /\ u.grace = s.grace /\ u.inserting = s.inserting
  BY <1>12, Zenon DEF Fields
<1>14. b # NoBlock /\ s.chain \in BlocksOf(b) /\ b \in BlocksOf(b) /\ Number(b) = Number(s.chain) + 1
  BY <1>2, <1>3, ParentBlock, ChainItself, BlockFacts, Zenon
<1>15. Voting(u)
  <2>1. DOMAIN u.commit = {} /\ u.commitBitmap = {}  BY <1>2, <1>13, NoVoters, Zenon DEF Between
  <2> QED  BY <2>1, <1>2, <1>12, <1>13, <1>14, Zenon DEF Voting
<1>16. Collecting(u)  BY <1>2, <1>12, <1>13, <1>14, <1>15, Zenon DEF Collecting, Between
<1>17. Signatures(s) /\ Signatures(u)  BY <1>13, Zenon DEF Leader, Signatures
<1>18. Leader(u)  BY <1>3, <1>12, <1>13, <1>16, <1>17, Zenon DEF Leader, Phases
<1>19. Keeps(s, u) /\ Top(u) = b /\ Top(s) = s.chain
  BY <1>2, <1>12, <1>13, <1>14, <1>17, SameSignatures, Zenon DEF Top, Between
<1>20. Number(u.chain) <= Number(s.chain) + 1  BY <1>13, LeaderFrontier
<1> QED  BY <1>11, <1>12, <1>13, <1>14, <1>18, <1>19, <1>20, LeaderFrontier, Zenon DEF Heads, Speaks

\* From s to u there are only further votes for the block of the round.
MoreVotes(s, u) ==
  /\ DOMAIN u = Fields
  /\ \A x \in Fields \ {"prepare", "prepareBitmap", "commit", "commitBitmap", "log", "out"} :
       u[x] = s[x]
  /\ DOMAIN u.log = {"messages", "blocks", "verifiedBlocks"} /\ u.log.blocks = s.log.blocks
  /\ s.commitBitmap \subseteq u.commitBitmap /\ u.commitBitmap \subseteq Node
  /\ DOMAIN u.commit = u.commitBitmap
  /\ \A k \in u.commitBitmap : u.commit[k] = s.hash

\* They leave the leader in its phase.
LEMMA LeaderVotes ==
  ASSUME NEW s, Leader(s), Voting(s), NEW u, MoreVotes(s, u)
  PROVE  /\ Heads(s, u) /\ Voting(u)
         /\ u.hash = s.hash /\ u.chain = s.chain /\ Top(u) = s.hash /\ Top(s) = s.hash
<1>1. /\ u.me = s.me /\ u.leader = s.leader /\ u.mode = s.mode
      /\ u.validating = s.validating /\ u.replaying = s.replaying
      /\ u.downloading = s.downloading /\ u.startedCh = s.startedCh
      /\ u.finishedCh = s.finishedCh /\ u.chain = s.chain /\ u.view = s.view
      /\ u.blockNum = s.blockNum /\ u.commitSigs = s.commitSigs /\ u.proposed = s.proposed
      /\ u.hash = s.hash /\ u.body = s.body /\ u.due = s.due /\ u.ready = s.ready
      /\ u.grace = s.grace /\ u.inserting = s.inserting
  BY Zenon DEF Fields, MoreVotes
<1>2. Voting(u)  BY <1>1, Zenon DEF Voting, HasBlock, MoreVotes
<1>3. IsQuorum(s.commitBitmap) => IsQuorum(u.commitBitmap)  BY QuorumGrows, Zenon DEF MoreVotes
<1>4. Phases(u)
  <2>1. Phases(s) /\ ~Between(s)  BY Zenon DEF Leader, Voting, Between
  <2>2. Collecting(s) => Collecting(u)  BY <1>1, <1>2, Zenon DEF Collecting
  <2>3. Committing(s) => Committing(u)
    <3> SUFFICES ASSUME Committing(s) PROVE Committing(u)  BY Zenon
    <3>1. PICK job \in s.inserting : /\ s.inserting = {job} /\ Job(job, s.hash)
                                     /\ job.msg.mask \subseteq s.commitBitmap
      BY Zenon DEF Committing
    <3>2. job.msg.mask \subseteq u.commitBitmap  BY <3>1, Zenon DEF MoreVotes
    <3> QED  BY <3>1, <3>2, <1>1, <1>2, <1>3, Zenon DEF Committing
  <2>4. PreCommitted(s) => PreCommitted(u)
    <3>1. s.commitBitmap \subseteq u.commitBitmap  BY Zenon DEF MoreVotes
    <3> QED  BY <3>1, <1>1, <1>2, <1>3, Zenon DEF PreCommitted
  <2> QED  BY <2>1, <2>2, <2>3, <2>4, Zenon DEF Phases, Ready, Proposed, Finished
<1>5. Signatures(s) /\ Signatures(u)  BY <1>1, Zenon DEF Leader, Signatures
<1>6. Leader(u)  BY <1>1, <1>4, <1>5, Zenon DEF Leader, MoreVotes
<1>7. Keeps(s, u) /\ Top(u) = s.hash /\ Top(s) = s.hash
  BY <1>1, <1>5, SameSignatures, Zenon DEF Top, Voting
<1> QED  BY <1>1, <1>2, <1>6, <1>7, LeaderFrontier, SMTT(20) DEF Heads

\* A leader that is not between two rounds collects votes.
LEMMA LeaderInRound ==
  ASSUME NEW s, Leader(s), ~Between(s)
  PROVE  /\ Voting(s) /\ Top(s) = s.hash /\ s.hash \in BlocksOf(s.hash) /\ IsChain(s.hash)
         /\ Collecting(s) \/ Committing(s) \/ PreCommitted(s)
<1>1. Collecting(s) \/ Committing(s) \/ PreCommitted(s)
  BY Zenon DEF Leader, Phases, Ready, Proposed, Finished
<1>2. Voting(s)  BY <1>1, Zenon DEF Collecting, Committing, PreCommitted
<1> QED  BY <1>1, <1>2, ChainItself, Zenon DEF Voting, Top

\* A vote that counts is one for the block of the round.
LEMMA VoteCounts ==
  ASSUME NEW s, Leader(s), NEW m, Sound(m, s.chain, Top(s)),
         \/ m.type = "PREPARE" /\ CountsPrepare(s, m)
         \/ m.type = "COMMIT" /\ CountsCommit(s, m)
  PROVE  ~Between(s) /\ m.block = s.hash /\ m.from \in Node
<1>1. Vote(m, Top(s))  BY Zenon DEF Sound, FromRound, LeaderTypes
<1>2. IsChain(Top(s)) /\ m.block \in BlocksOf(Top(s)) /\ m.from \in Node
  BY <1>1, LeaderFrontier, Zenon DEF Vote
<1>3. m.block # NoBlock /\ Number(m.block) \in 1..Number(Top(s)) /\ Number(Top(s)) \in Nat
  BY <1>2, BlockFacts, Zenon
<1>4. CASE m.type = "PREPARE" /\ CountsPrepare(s, m)
  <2>1. m.block = s.hash  BY <1>4, Zenon DEF CountsPrepare
  <2> QED  BY <2>1, <1>2, <1>3, Zenon DEF Between
<1>5. CASE m.type = "COMMIT" /\ CountsCommit(s, m)
  <2>1. Number(m.block) = s.blockNum
    BY <1>1, <1>5, Zenon DEF CountsCommit, isRightBlockNumAndViewID, Vote
  <2>2. ~Between(s)
    <3> SUFFICES ASSUME Between(s) PROVE FALSE  BY Zenon
    <3>1. Top(s) = s.chain /\ s.blockNum = Number(s.chain) + 1  BY Zenon DEF Between, Top
    <3> QED  BY <3>1, <2>1, <1>3
  <2>3. Voting(s) /\ Top(s) = s.hash /\ s.hash \in BlocksOf(s.hash) /\ IsChain(s.hash)
    BY <2>2, LeaderInRound, Zenon
  <2>4. Number(s.hash) = Number(m.block)  BY <2>1, <2>3, Zenon DEF Voting
  <2> QED  BY <1>2, <2>2, <2>3, <2>4, SameNumber, Zenon
<1> QED  BY <1>4, <1>5, Zenon

\* onPrepare counts the vote; with a quorum the leader sends PREPARED and votes itself.
LEMMA LeadPrepare ==
  ASSUME NEW s, Leader(s), s.out = {}, NEW m, Sound(m, s.chain, Top(s)), m.type = "PREPARE",
         CountsPrepare(s, m), NEW u, u = onPrepare(s, m)
  PROVE  Heads(s, u) /\ Speaks(u)
<1> DEFINE s1 == [s EXCEPT !.prepare = Put(@, m.from, m.block),
                           !.prepareBitmap = @ \cup {m.from}]
           p == LeaderMsg(s1, "PREPARED", s1.body, s1.prepareBitmap,
                          Verifies(s1.prepare, s1.prepareBitmap, s1.hash))
           l == LogVerified(s1, p)
           s2 == [l EXCEPT !.commitBitmap = @ \cup {s1.me}]
           s3 == [s2 EXCEPT !.commit = Put(@, s1.me, s1.body)]
           s4 == Send(s3, p)
<1>1. ~Between(s)  BY VoteCounts, Zenon
<1>2. /\ Voting(s) /\ Top(s) = s.hash /\ s.hash \in BlocksOf(s.hash)
  BY <1>1, LeaderInRound, Zenon
<1>3. /\ DOMAIN s = Fields /\ DOMAIN s.log = {"messages", "blocks", "verifiedBlocks"}
      /\ s.me = 1 /\ s.view = s.blockNum /\ 1 \in Node
  BY CommitteeAssumption DEF Leader, Node
<1>4. /\ s.body = s.hash /\ s.hash # NoBlock /\ s.blockNum = Number(s.hash)
      /\ DOMAIN s.commit = s.commitBitmap /\ s.commitBitmap \subseteq Node
      /\ \A k \in s.commitBitmap : s.commit[k] = s.hash
  BY <1>2, Zenon DEF Voting
<1>5. DOMAIN s1 = Fields /\ \A x \in Fields \ {"prepare", "prepareBitmap"} : s1[x] = s[x]
  BY <1>3, Zenon DEF Fields
<1>p. p = LeaderMsg(s1, "PREPARED", s1.body, s1.prepareBitmap,
                    Verifies(s1.prepare, s1.prepareBitmap, s1.hash))
  BY Zenon
<1> HIDE DEF s1, p
<1>6. /\ s1.log = s.log /\ s1.me = 1 /\ s1.body = s.hash /\ s1.hash = s.hash
      /\ s1.view = s1.blockNum /\ s1.blockNum = Number(s1.hash) /\ s1.commit = s.commit
      /\ s1.commitBitmap = s.commitBitmap /\ s1.out = {}
  BY <1>3, <1>4, <1>5, Zenon DEF Fields
<1>7. Sound(p, s.chain, s.hash)
  <2>1. /\ p.type = "PREPARED" /\ p.from = s1.me /\ p.num = s1.blockNum /\ p.view = s1.view
        /\ p.block = s1.hash /\ p.body = s1.body
    BY <1>p, Zenon DEF LeaderMsg
  <2>2. p.type \in LeaderTypes /\ p.type # "COMMITTED"  BY <2>1, Zenon DEF LeaderTypes
  <2> QED  BY <2>1, <2>2, <1>2, <1>6, RoundMessage, Zenon
<1>8. /\ DOMAIN l = Fields /\ DOMAIN l.log = {"messages", "blocks", "verifiedBlocks"}
      /\ l.log.blocks = s.log.blocks /\ \A x \in Fields \ {"log"} : l[x] = s1[x]
  BY <1>3, <1>5, <1>6, LeaderLogs
<1> HIDE DEF l
<1>9. /\ DOMAIN s2 = Fields /\ s2.commitBitmap = s.commitBitmap \cup {1}
      /\ \A x \in Fields \ {"commitBitmap"} : s2[x] = l[x]
  BY <1>6, <1>8, Zenon DEF Fields
<1> HIDE DEF s2
<1>10. s2.commit = s.commit /\ s2.out = {} /\ s2.log = l.log  BY <1>6, <1>8, <1>9, Zenon DEF Fields
<1>11. /\ DOMAIN s3 = Fields /\ s3.commit = Put(s.commit, 1, s.hash)
       /\ \A x \in Fields \ {"commit"} : s3[x] = s2[x]
  BY <1>6, <1>9, <1>10, Zenon DEF Fields
<1> HIDE DEF s3
<1>12. /\ DOMAIN s4 = Fields /\ s4.out = {p}
       /\ \A x \in Fields \ {"out"} : s4[x] = s3[x]
  <2>1. s3.out = {}  BY <1>10, <1>11, Zenon DEF Fields
  <2> QED  BY <2>1, <1>11, Zenon DEF Send, Fields
<1> HIDE DEF s4
<1>13. \/ u = s1
       \/ u = s2 /\ 1 \in DOMAIN s.commit
       \/ u = s4
  <2>1. u = IF IsQuorum(DOMAIN s1.prepare) THEN didReachPrepareQuorum(s1) ELSE s1
    BY Zenon DEF onPrepare, s1
  <2>2. didReachPrepareQuorum(s1) = IF s1.body = NoBlock THEN l
                                    ELSE IF s1.me \in DOMAIN s1.commit THEN s2 ELSE s4
    BY Zenon DEF didReachPrepareQuorum, p, l, s2, s3, s4
  <2> QED  BY <2>1, <2>2, <1>4, <1>6, Zenon
<1> DEFINE Same(v) ==
             \A x \in Fields \ {"prepare", "prepareBitmap", "commit", "commitBitmap", "log", "out"} :
               v[x] = s[x]
<1>14. Same(s1) /\ Same(s2) /\ Same(s4)
  <2>1. Same(s1)  BY <1>5, Zenon
  <2>2. Same(s2)  BY <2>1, <1>8, <1>9, Zenon
  <2>3. Same(s4)  BY <2>2, <1>11, <1>12, Zenon
  <2> QED  BY <2>1, <2>2, <2>3, Zenon
<1>15. CASE u = s1
  <2>1. MoreVotes(s, s1)  BY <1>14, <1>3, <1>4, <1>5, <1>6, Zenon DEF MoreVotes
  <2>2. Heads(s, u)  BY <1>15, <2>1, <1>2, LeaderVotes, Zenon
  <2> QED  BY <2>2, <1>15, <1>6, Zenon DEF Speaks
<1>16. CASE u = s2 /\ 1 \in DOMAIN s.commit
  <2>1. s2.commitBitmap = s.commitBitmap  BY <1>4, <1>9, <1>16, Zenon
  <2>2. MoreVotes(s, s2)  BY <2>1, <1>14, <1>4, <1>8, <1>9, <1>10, Zenon DEF MoreVotes
  <2>3. Heads(s, u)  BY <1>16, <2>2, <1>2, LeaderVotes, Zenon
  <2> QED  BY <2>3, <1>16, <1>10, Zenon DEF Speaks
<1>17. CASE u = s4
  <2>1. s4.commit = Put(s.commit, 1, s.hash) /\ s4.commitBitmap = s.commitBitmap \cup {1}
        /\ s4.log = l.log
    BY <1>9, <1>10, <1>11, <1>12, Zenon DEF Fields
  <2>2. /\ DOMAIN s4.commit = s4.commitBitmap /\ s4.commitBitmap \subseteq Node
        /\ s.commitBitmap \subseteq s4.commitBitmap
        /\ \A k \in s4.commitBitmap : s4.commit[k] = s.hash
    BY <2>1, <1>3, <1>4, Zenon DEF Put
  <2>3. MoreVotes(s, s4)  BY <2>1, <2>2, <1>8, <1>12, <1>14, Zenon DEF MoreVotes
  <2>4. Heads(s, s4) /\ s4.chain = s.chain /\ Top(s4) = s.hash  BY <2>3, <1>2, LeaderVotes, Zenon
  <2> QED  BY <2>4, <1>7, <1>12, <1>17, Zenon DEF Speaks
<1> QED  BY <1>13, <1>15, <1>16, <1>17, Zenon

\* onCommit counts the vote; with the vote that makes a quorum the leader starts the
\* pre-commit and the grace period.
LEMMA LeadCommit ==
  ASSUME NEW s, Leader(s), s.out = {}, NEW m, Sound(m, s.chain, Top(s)), m.type = "COMMIT",
         CountsCommit(s, m), NEW u, u = onCommit(s, m)
  PROVE  Heads(s, u) /\ Speaks(u)
<1> DEFINE s1 == [s EXCEPT !.commit = Put(@, m.from, m.block),
                           !.commitBitmap = @ \cup {m.from}]
           s2 == [s1 EXCEPT !.log = MarkBlockVerified(@, m.block)]
           p == LeaderMsg(s2, "COMMITTED", NoBlock, s2.commitBitmap,
                          Verifies(s2.commit, s2.commitBitmap, s2.hash))
           l == LogVerified(s2, p)
           job == [msg |-> p, block |-> m.block]
           s3 == [l EXCEPT !.inserting = @ \cup {job}]
           s4 == [s3 EXCEPT !.grace = @ \cup {s.view}]
<1>1. ~Between(s) /\ m.block = s.hash /\ m.from \in Node  BY VoteCounts, Zenon
<1>2. /\ Voting(s) /\ Top(s) = s.hash /\ s.hash \in BlocksOf(s.hash) /\ IsChain(s.hash)
      /\ Collecting(s) \/ Committing(s) \/ PreCommitted(s)
  BY <1>1, LeaderInRound, Zenon
<1>3. /\ DOMAIN s = Fields /\ DOMAIN s.log = {"messages", "blocks", "verifiedBlocks"}
      /\ s.me = 1 /\ s.view = s.blockNum
  BY Zenon DEF Leader
<1>4. /\ s.body = s.hash /\ s.blockNum = Number(s.hash)
      /\ DOMAIN s.commit = s.commitBitmap /\ s.commitBitmap \subseteq Node
      /\ \A k \in s.commitBitmap : s.commit[k] = s.hash
  BY <1>2, Zenon DEF Voting
<1>5. /\ DOMAIN s1 = Fields /\ s1.commit = Put(s.commit, m.from, s.hash)
      /\ s1.commitBitmap = s.commitBitmap \cup {m.from}
      /\ \A x \in Fields \ {"commit", "commitBitmap"} : s1[x] = s[x]
  BY <1>1, <1>3, Zenon DEF Fields
<1> HIDE DEF s1
<1>6. /\ DOMAIN s1.commit = s1.commitBitmap /\ s1.commitBitmap \subseteq Node
      /\ s.commitBitmap \subseteq s1.commitBitmap
      /\ \A k \in s1.commitBitmap : s1.commit[k] = s.hash
  BY <1>1, <1>4, <1>5, Zenon DEF Put
<1>7. s1.log = s.log /\ s1.out = {}  BY <1>5, Zenon DEF Fields
<1>8. MoreVotes(s, s1)
  <2>1. \A x \in Fields \ {"prepare", "prepareBitmap", "commit", "commitBitmap", "log", "out"} :
          s1[x] = s[x]
    BY <1>5, Zenon
  <2> QED  BY <2>1, <1>3, <1>5, <1>6, <1>7, Zenon DEF MoreVotes
<1>9. Heads(s, s1) /\ Speaks(s1)  BY <1>2, <1>7, <1>8, LeaderVotes, Zenon DEF Speaks
<1>10. ASSUME ~IsQuorum(DOMAIN s.commit), IsQuorum(DOMAIN s1.commit)
       PROVE  /\ Heads(s, s4) /\ Speaks(s4)
              /\ Verifies(s2.commit, s2.commitBitmap, m.block)
  <2>1. /\ DOMAIN s2 = Fields /\ DOMAIN s2.log = {"messages", "blocks", "verifiedBlocks"}
        /\ s2.log.blocks = s.log.blocks
        /\ \A x \in Fields \ {"log"} : s2[x] = s1[x]
    <3> DEFINE log == MarkBlockVerified(s1.log, m.block)
    <3>1. DOMAIN log = {"messages", "blocks", "verifiedBlocks"} /\ log.blocks = s.log.blocks
      BY <1>3, <1>7, Zenon DEF MarkBlockVerified
    <3>2. s2 = [s1 EXCEPT !.log = log]  BY Zenon
    <3> HIDE DEF log, s2
    <3> QED  BY <3>1, <3>2, <1>5, Zenon DEF Fields
  <2>p. p = LeaderMsg(s2, "COMMITTED", NoBlock, s2.commitBitmap,
                      Verifies(s2.commit, s2.commitBitmap, s2.hash))
    BY Zenon
  <2> HIDE DEF s2, p
  <2>2. /\ s2.me = 1 /\ s2.view = s2.blockNum /\ s2.hash = s.hash /\ s2.blockNum = Number(s.hash)
        /\ s2.commit = s1.commit /\ s2.commitBitmap = s1.commitBitmap
    BY <1>3, <1>4, <1>5, <2>1, Zenon DEF Fields
  <2>3. Verifies(s2.commit, s2.commitBitmap, m.block)
    BY <1>1, <1>6, <2>2, Zenon DEF Verifies
  <2>4. /\ p.type = "COMMITTED" /\ p.from = s2.me /\ p.num = s2.blockNum /\ p.view = s2.view
        /\ p.block = s2.hash /\ p.mask = s1.commitBitmap
    BY <2>p, <2>2, Zenon DEF LeaderMsg
  <2>5. FromRound(p, s.hash, s.hash)
    <3>1. p.type \in LeaderTypes  BY <2>4, Zenon DEF LeaderTypes
    <3> QED  BY <3>1, <2>2, <2>4, <1>2, <1>6, RoundMessage, Zenon
  <2>6. /\ DOMAIN l = Fields /\ DOMAIN l.log = {"messages", "blocks", "verifiedBlocks"}
        /\ l.log.blocks = s.log.blocks /\ \A x \in Fields \ {"log"} : l[x] = s2[x]
    BY <2>1, LeaderLogs
  <2> HIDE DEF l
  <2>7. \A x \in Fields \ {"log", "commit", "commitBitmap"} : l[x] = s[x]
    BY <1>5, <2>1, <2>6, Zenon
  <2>8. l.commit = s1.commit /\ l.commitBitmap = s1.commitBitmap
    BY <2>1, <2>6, Zenon DEF Fields
  <2>9. Collecting(s)
    <3>1. ~IsQuorum(s.commitBitmap)  BY <1>4, <1>10, Zenon
    <3> QED  BY <3>1, <1>2, Zenon DEF Committing, PreCommitted
  <2>10. /\ l.inserting = {} /\ l.grace = {} /\ l.view = s.view /\ l.out = {}
    BY <2>7, <2>9, Zenon DEF Collecting, Fields
  <2>11. job.block = s.hash /\ job.msg = p  BY <1>1, Zenon
  <2> HIDE DEF job
  <2>12. DOMAIN s3 = Fields /\ s3.inserting = {job} /\ \A x \in Fields \ {"inserting"} : s3[x] = l[x]
    BY <2>6, <2>10, Zenon DEF Fields
  <2> HIDE DEF s3
  <2>13. DOMAIN s4 = Fields /\ s4.grace = {s.view} /\ \A x \in Fields \ {"grace"} : s4[x] = s3[x]
    BY <2>10, <2>12, Zenon DEF Fields
  <2> HIDE DEF s4
  <2>14. /\ s4.inserting = {job} /\ s4.commit = s1.commit /\ s4.commitBitmap = s1.commitBitmap
         /\ s4.log = l.log /\ s4.out = {}
    BY <2>8, <2>10, <2>12, <2>13, Zenon DEF Fields
  <2>15. \A x \in Fields \ {"log", "commit", "commitBitmap", "inserting", "grace"} : s4[x] = s[x]
    BY <2>7, <2>12, <2>13, Zenon
  <2>16. /\ s4.me = s.me /\ s4.leader = s.leader /\ s4.mode = s.mode
         /\ s4.validating = s.validating /\ s4.replaying = s.replaying
         /\ s4.downloading = s.downloading /\ s4.startedCh = s.startedCh
         /\ s4.finishedCh = s.finishedCh /\ s4.chain = s.chain /\ s4.view = s.view
         /\ s4.blockNum = s.blockNum /\ s4.commitSigs = s.commitSigs /\ s4.proposed = s.proposed
         /\ s4.hash = s.hash /\ s4.body = s.body /\ s4.due = s.due /\ s4.ready = s.ready
    BY <2>15, Zenon DEF Fields
  <2>17. Voting(s4)  BY <1>2, <1>6, <2>6, <2>14, <2>16, SMTT(20) DEF Voting, HasBlock
  <2>18. Committing(s4)
    <3>1. IsQuorum(s4.commitBitmap)  BY <1>6, <1>10, <2>14, Zenon
    <3>2. Job(job, s.hash) /\ job.msg.mask \subseteq s4.commitBitmap
      BY <1>6, <1>10, <2>2, <2>4, <2>5, <2>11, <2>14, Zenon DEF Job
    <3> QED  BY <3>1, <3>2, <2>9, <2>13, <2>14, <2>16, <2>17, Zenon DEF Committing, Collecting
  <2>19. Signatures(s) /\ Signatures(s4)  BY <2>16, Zenon DEF Leader, Signatures
  <2>20. Leader(s4)  BY <2>6, <2>13, <2>14, <2>16, <2>18, <2>19, Zenon DEF Leader, Phases
  <2>21. Keeps(s, s4) /\ Top(s4) = s.hash
    BY <1>2, <2>16, <2>19, SameSignatures, Zenon DEF Top, Voting
  <2>22. Heads(s, s4)  BY <1>2, <2>16, <2>20, <2>21, LeaderFrontier, SMTT(20) DEF Heads
  <2> QED  BY <2>3, <2>14, <2>22, Zenon DEF Speaks
<1>11. u = IF ~IsQuorum(DOMAIN s.commit) /\ IsQuorum(DOMAIN s1.commit)
           THEN [preCommitAndPropose(s2, m.block) EXCEPT !.grace = @ \cup {s.view}] ELSE s1
  BY Zenon DEF onCommit, s1
<1>12. preCommitAndPropose(s2, m.block) =
         IF Verifies(s2.commit, s2.commitBitmap, m.block) THEN s3 ELSE l
  BY Zenon DEF preCommitAndPropose
<1> HIDE DEF s2, s3, l
<1> QED  BY <1>9, <1>10, <1>11, <1>12, Zenon

\* The pre-commit inserts the block of the round and tells the proposer, unless the
\* end of the grace period has inserted the block already.
LEMMA LeadPreCommit ==
  ASSUME NEW s, Leader(s), s.out = {}, NEW job \in s.inserting, NEW u, u = preCommit(s, job)
  PROVE  Heads(s, u) /\ Speaks(u)
<1> DEFINE s0 == [s EXCEPT !.inserting = @ \ {job}]
           s1 == Send(s0, job.msg)
           s2 == IF InChain(s, job.block) THEN s1 ELSE InsertChain(s1, job.block, job.msg.mask)
           s3 == Start(s2, "consensus")
           b == job.block
<1>1. Committing(s) \/ Finished(s)
  BY Zenon DEF Leader, Phases, Ready, Proposed, Collecting, Committing, PreCommitted, Finished
<1>2. /\ DOMAIN s = Fields /\ DOMAIN s.log = {"messages", "blocks", "verifiedBlocks"}
      /\ IsChain(s.chain) /\ Number(s.chain) \in Nat /\ s.view = s.blockNum /\ Signatures(s)
      /\ s.proposed \in Nat
  BY LeaderFrontier, Zenon DEF Leader
<1>3. /\ s.inserting = {job} /\ s.ready = 0 /\ s.due = {}
      /\ Job(job, IF Committing(s) THEN s.hash ELSE s.chain)
  BY <1>1, Zenon DEF Committing, Finished, Voting, Between
<1>4. DOMAIN s0 = Fields /\ s0.inserting = {} /\ \A x \in Fields \ {"inserting"} : s0[x] = s[x]
  BY <1>2, <1>3, Zenon DEF Fields
<1> HIDE DEF s0
<1>5. /\ DOMAIN s1 = Fields /\ s1.out = {job.msg} /\ s1.inserting = {}
      /\ \A x \in Fields \ {"inserting", "out"} : s1[x] = s[x]
  <2>1. s0.out = {}  BY <1>4, Zenon DEF Fields
  <2> QED  BY <2>1, <1>4, Zenon DEF Send, Fields
<1> HIDE DEF s1
<1>6. s1.chain = s.chain /\ s1.commitSigs = s.commitSigs /\ Signatures(s1)
  BY <1>2, <1>5, Zenon DEF Fields, Signatures
<1>7. /\ DOMAIN s2 = Fields /\ Signatures(s2) /\ Keeps(s, s2) /\ s2.chain = b
      /\ InChain(s, b) \/ CanInsert(s, b)
      /\ \A x \in Fields \ {"chain", "slot", "commitSigs"} : s2[x] = s1[x]
      /\ Committing(s) => s2.commitSigs[Number(b)] = job.msg.mask
  <2>1. CASE Committing(s)
    <3>1. /\ b = s.hash /\ job.msg.mask \subseteq Node /\ IsQuorum(job.msg.mask)
          /\ IsChain(b) /\ Parent(b) = s.chain /\ Number(b) = Number(s.chain) + 1
      BY <2>1, <1>3, Zenon DEF Job, Committing, Voting
    <3>2. s.chain \in BlocksOf(b) /\ b \in BlocksOf(b)  BY <3>1, <1>2, ParentBlock, ChainItself, Zenon
    <3>3. ~InChain(s, b) /\ CanInsert(s, b)  BY <3>1, <1>2 DEF InChain, CanInsert
    <3>4. s2 = InsertChain(s1, b, job.msg.mask)  BY <3>3, Zenon
    <3> HIDE DEF s2, b
    <3>5. /\ DOMAIN s2 = Fields /\ Signatures(s2) /\ Keeps(s1, s2) /\ s2.chain = b
          /\ \A x \in Fields \ {"chain", "slot", "commitSigs"} : s2[x] = s1[x]
          /\ s2.commitSigs[Number(b)] = job.msg.mask
      BY <3>1, <3>2, <3>4, <1>5, <1>6, Inserts, SMTT(20)
    <3>6. Keeps(s, s2)  BY <3>5, <1>6, Zenon DEF Keeps
    <3> QED  BY <3>3, <3>5, <3>6, Zenon
  <2>2. CASE ~Committing(s)
    <3>1. b = s.chain /\ b \in Seq(Headers) /\ Number(b) = Len(b)
      BY <2>2, <1>2, <1>3, Zenon DEF Job, IsChain, Number
    <3>2. InChain(s, b)
      <4>1. SubSeq(b, 1, Len(b)) = b  BY <3>1
      <4> QED  BY <4>1, <3>1, <1>2, SMTT(20) DEF InChain
    <3>3. s2 = s1  BY <3>2, Zenon
    <3>4. Keeps(s, s1)  BY <1>2, <1>6, SameSignatures, Zenon
    <3> QED  BY <2>2, <3>1, <3>2, <3>3, <3>4, <1>5, <1>6, Zenon
  <2> QED  BY <2>1, <2>2, Zenon
<1> HIDE DEF s2
<1>8. DOMAIN s3 = Fields /\ \A x \in Fields \ {"timers"} : s3[x] = s2[x]
  BY <1>7, Zenon DEF Start, Fields
<1>9. u = ReadySignal(s3)  BY <1>7, Zenon DEF preCommit, s3, s2, s1, s0
<1> HIDE DEF s3
<1>10. /\ DOMAIN u = Fields /\ u.ready \in {0, 1}
       /\ \A x \in Fields \ {"ready"} : u[x] = s3[x]
  <2>1. s3.ready = 0  BY <1>3, <1>5, <1>7, <1>8, Zenon DEF Fields
  <2> QED  BY <2>1, <1>8, <1>9 DEF ReadySignal, Fields
<1>11. /\ u.chain = b /\ u.out = {job.msg} /\ u.inserting = {} /\ u.commitSigs = s2.commitSigs
  BY <1>5, <1>7, <1>8, <1>10, Zenon DEF Fields
<1>12. \A x \in Fields \ {"ready", "timers", "chain", "slot", "commitSigs", "inserting", "out"} :
         u[x] = s[x]
  BY <1>5, <1>7, <1>8, <1>10
<1>13. /\ u.me = s.me /\ u.leader = s.leader /\ u.mode = s.mode /\ u.log = s.log
       /\ u.validating = s.validating /\ u.replaying = s.replaying
       /\ u.downloading = s.downloading /\ u.startedCh = s.startedCh
       /\ u.finishedCh = s.finishedCh /\ u.view = s.view
       /\ u.blockNum = s.blockNum /\ u.proposed = s.proposed /\ u.grace = s.grace
       /\ u.hash = s.hash /\ u.body = s.body /\ u.due = s.due /\ u.commit = s.commit
       /\ u.commitBitmap = s.commitBitmap
  BY <1>12, Zenon DEF Fields
<1>14. Signatures(u) /\ Keeps(s, u)  BY <1>7, <1>11, Zenon DEF Signatures, Keeps
<1>15. CASE Committing(s)
  <2>1. /\ b = s.hash /\ Job(job, s.hash) /\ IsChain(b) /\ Parent(b) = s.chain
        /\ Number(b) = Number(s.chain) + 1 /\ Voting(s) /\ IsQuorum(s.commitBitmap)
        /\ s.grace = {s.view} /\ job.msg.mask \subseteq s.commitBitmap
    BY <1>15, <1>3, Zenon DEF Job, Committing, Voting
  <2>2. s.chain \in BlocksOf(b) /\ b \in BlocksOf(b)  BY <2>1, <1>2, ParentBlock, ChainItself, Zenon
  <2>3. Voting(u)  BY <2>1, <1>13, SMTT(20) DEF Voting
  <2>4. PreCommitted(u)
    BY <2>1, <2>3, <1>3, <1>7, <1>10, <1>11, <1>13, <1>15, SMTT(20) DEF PreCommitted
  <2>5. Leader(u)  BY <2>1, <2>4, <1>2, <1>10, <1>11, <1>13, <1>14, Zenon DEF Leader, Phases
  <2>6. Top(s) = b /\ Top(u) = b  BY <2>1, <1>13, Zenon DEF Top, Voting
  <2>7. Number(u.chain) <= Number(s.chain) + 1  BY <2>1, <1>2, <1>11
  <2>8. Heads(s, u)  BY <2>1, <2>2, <2>5, <2>6, <2>7, <1>11, <1>14, Zenon DEF Heads, Frontier
  <2>9. Sound(job.msg, u.chain, Top(u))  BY <2>1, <2>6, <1>11, Zenon DEF Job, Sound
  <2> QED  BY <2>8, <2>9, <1>11, Zenon DEF Speaks
<1>16. CASE ~Committing(s)
  <2>1. /\ b = s.chain /\ Job(job, s.chain) /\ Between(s)  BY <1>1, <1>3, <1>16, Zenon DEF Job, Finished
  <2>2. Between(u)  BY <2>1, <1>11, <1>13, Zenon DEF Between
  <2>3. Ready(u)  BY <2>2, <1>3, <1>10, <1>11, <1>13, Zenon DEF Ready
  <2>4. Leader(u)  BY <2>1, <2>3, <1>2, <1>10, <1>11, <1>13, <1>14, Zenon DEF Leader, Phases
  <2>5. Top(s) = b /\ Top(u) = b  BY <2>1, <1>11, <1>13, Zenon DEF Top, Between
  <2>6. Heads(s, u)  BY <2>1, <2>4, <2>5, <1>11, <1>14, LeaderFrontier, SMTT(20) DEF Heads
  <2>7. Sound(job.msg, u.chain, Top(u))  BY <2>1, <2>5, <1>11, Zenon DEF Job, Sound
  <2> QED  BY <2>6, <2>7, <1>11, Zenon DEF Speaks
<1> QED  BY <1>15, <1>16, Zenon

\* The end of the grace period commits the block of the round with all the votes
\* collected by then: the block is inserted unless the pre-commit has inserted it, its
\* commit signature is replaced, and the next round begins.
LEMMA LeadEndOfGrace ==
  ASSUME NEW s, Leader(s), s.out = {}, NEW v \in s.grace, NEW u, u = endOfGrace(s, v)
  PROVE  Heads(s, u) /\ Speaks(u)
<1> DEFINE s0 == [s EXCEPT !.grace = @ \ {v}]
           b == s.hash
           n == Number(b)
           m == LeaderMsg(s0, "COMMITTED", NoBlock, s0.commitBitmap,
                          Verifies(s0.commit, s0.commitBitmap, s0.hash))
           l == LogVerified(s0, m)
           w == [l EXCEPT !.commitSigs = Put(@, Number(s0.hash), s0.commitBitmap)]
           s2 == Send(w, m)
           i == IF Number(s2.chain) < Number(s0.hash)
                THEN InsertChain(s2, s0.hash, m.mask) ELSE s2
           r == [i EXCEPT !.blockNum = Number(s0.hash) + 1, !.view = m.view + 1,
                          !.log = PruneCacheBeforeBlock(@, Number(s0.hash))]
           s4 == resetState(r)
<1>1. Committing(s) \/ PreCommitted(s)
  BY Zenon DEF Leader, Phases, Ready, Proposed, Collecting, Committing, PreCommitted, Finished, Between
<1>2. /\ DOMAIN s = Fields /\ DOMAIN s.log = {"messages", "blocks", "verifiedBlocks"}
      /\ s.me = 1 /\ s.leader = 1 /\ s.mode = "Normal" /\ s.view = s.blockNum
      /\ IsChain(s.chain) /\ Number(s.chain) \in Nat /\ Signatures(s)
  BY LeaderFrontier, Zenon DEF Leader
<1>3. /\ Voting(s) /\ s.grace = {s.view} /\ v = s.view /\ IsQuorum(s.commitBitmap)
      /\ IsChain(b) /\ b # NoBlock /\ s.blockNum = n /\ HasBlock(s.log, b) /\ s.due = {}
      /\ DOMAIN s.commit = s.commitBitmap /\ s.commitBitmap \subseteq Node
      /\ \A k \in s.commitBitmap : s.commit[k] = b
  BY <1>1, Zenon DEF Committing, PreCommitted, Voting
<1>4. /\ n \in Nat /\ n > 0 /\ b \in BlocksOf(b) /\ s.chain \in BlocksOf(b)
      /\ n <= Number(s.chain) + 1 /\ Number(s.chain) <= n
      /\ n = Number(s.chain) => PreCommitted(s) /\ s.chain = b
      /\ Number(s.chain) < n => /\ Committing(s) /\ Parent(b) = s.chain
                                /\ n = Number(s.chain) + 1
  <2>1. n \in Nat /\ n > 0  BY <1>3 DEF IsChain, Number
  <2>2. b \in BlocksOf(b)  BY <1>3, ChainItself, Zenon
  <2>3. CASE Committing(s)
    <3>1. Parent(b) = s.chain /\ n = Number(s.chain) + 1  BY <2>3, Zenon DEF Committing
    <3> QED  BY <2>1, <2>2, <2>3, <3>1, <1>2, <1>3, ParentBlock, SMTT(20)
  <2>4. CASE PreCommitted(s)
    <3>1. s.chain = b  BY <2>4, Zenon DEF PreCommitted
    <3> QED  BY <2>1, <2>2, <2>4, <3>1, SMTT(20)
  <2> QED  BY <2>3, <2>4, <1>1, Zenon
<1>5. DOMAIN s0 = Fields /\ s0.grace = {} /\ \A x \in Fields \ {"grace"} : s0[x] = s[x]
  BY <1>2, <1>3, Zenon DEF Fields
<1>m. m = LeaderMsg(s0, "COMMITTED", NoBlock, s0.commitBitmap,
                    Verifies(s0.commit, s0.commitBitmap, s0.hash))
  BY Zenon
<1> HIDE DEF s0, m
<1>6. /\ s0.me = 1 /\ s0.leader = 1 /\ s0.view = n /\ s0.blockNum = n /\ s0.hash = b
      /\ s0.commit = s.commit /\ s0.commitBitmap = s.commitBitmap /\ s0.log = s.log
      /\ s0.out = {} /\ s0.commitSigs = s.commitSigs /\ s0.chain = s.chain /\ s0.mode = "Normal"
  BY <1>2, <1>3, <1>5, Zenon DEF Fields
<1>7. /\ m.type = "COMMITTED" /\ m.from = 1 /\ m.num = n /\ m.view = n /\ m.block = b
      /\ m.mask = s.commitBitmap
  BY <1>m, <1>6, Zenon DEF LeaderMsg
<1>8. m.ok
  <2>1. Verifies(s0.commit, s0.commitBitmap, s0.hash)  BY <1>3, <1>6, Zenon DEF Verifies
  <2> QED  BY <2>1, <1>m, Zenon DEF LeaderMsg
<1>9. FromRound(m, b, b) /\ Sound(m, b, b)
  BY <1>3, <1>4, <1>7, Zenon DEF FromRound, Sound, LeaderTypes
<1>10. /\ DOMAIN l = Fields /\ DOMAIN l.log = {"messages", "blocks", "verifiedBlocks"}
       /\ l.log.blocks = s.log.blocks /\ \A x \in Fields \ {"log"} : l[x] = s0[x]
  BY <1>2, <1>5, <1>6, LeaderLogs, SMTT(20)
<1> HIDE DEF l
<1>11. l.commitSigs = s.commitSigs /\ l.out = {} /\ l.chain = s.chain
  BY <1>6, <1>10, Zenon DEF Fields
<1>12. /\ DOMAIN w = Fields /\ w.commitSigs = Put(s.commitSigs, n, s.commitBitmap)
       /\ \A x \in Fields \ {"commitSigs"} : w[x] = l[x]
  BY <1>6, <1>10, <1>11, Zenon DEF Fields
<1> HIDE DEF w
<1>13. /\ DOMAIN s2 = Fields /\ s2.out = {m} /\ \A x \in Fields \ {"out"} : s2[x] = w[x]
  <2>1. w.out = {}  BY <1>11, <1>12, Zenon DEF Fields
  <2> QED  BY <2>1, <1>12, Zenon DEF Send, Fields
<1> HIDE DEF s2
<1>14. /\ s2.chain = s.chain /\ s2.commitSigs = Put(s.commitSigs, n, s.commitBitmap)
       /\ s2.log = l.log /\ s2.me = 1 /\ s2.leader = 1 /\ s2.mode = "Normal"
  BY <1>6, <1>10, <1>11, <1>12, <1>13, SMTT(20) DEF Fields
<1>15. /\ DOMAIN i = Fields /\ i.chain = b
       /\ DOMAIN i.commitSigs = 1..n
       /\ \A k \in 1..n : i.commitSigs[k] = IF k = n THEN s.commitBitmap ELSE s.commitSigs[k]
       /\ \A x \in Fields \ {"chain", "slot", "commitSigs"} : i[x] = s2[x]
  <2>1. DOMAIN s.commitSigs = 1..Number(s.chain)  BY <1>2, Zenon DEF Signatures
  <2> DEFINE one == Put(s.commitSigs, n, s.commitBitmap)
             two == Put(one, n, s.commitBitmap)
  <2>2. /\ DOMAIN one = 1..n
        /\ \A k \in 1..n : one[k] = IF k = n THEN s.commitBitmap ELSE s.commitSigs[k]
    <3>1. DOMAIN one = 1..Number(s.chain) \cup {n}  BY <2>1, Zenon DEF Put
    <3>2. 1..Number(s.chain) \cup {n} = 1..n  BY <1>2, <1>4
    <3> QED  BY <3>1, <3>2, <2>1, Zenon DEF Put
  <2> HIDE DEF one
  <2>3. /\ DOMAIN two = 1..n
        /\ \A k \in 1..n : two[k] = IF k = n THEN s.commitBitmap ELSE s.commitSigs[k]
    <3>1. DOMAIN two = 1..n \cup {n} /\ 1..n \cup {n} = 1..n  BY <2>2, <1>4 DEF Put
    <3> QED  BY <3>1, <2>2, Zenon DEF Put
  <2> HIDE DEF two
  <2>4. CASE Number(s.chain) < n
    <3>1. i = InsertChain(s2, b, s.commitBitmap)  BY <2>4, <1>6, <1>7, <1>14, Zenon
    <3> HIDE DEF i
    <3>2. s2.commitSigs = one  BY <1>14, Zenon DEF one
    <3>3. i = [s2 EXCEPT !.chain = b, !.slot = 0, !.commitSigs = two]
      BY <3>1, <3>2, Zenon DEF InsertChain, two
    <3>4. /\ DOMAIN i = Fields /\ i.chain = b /\ i.commitSigs = two
          /\ \A x \in Fields \ {"chain", "slot", "commitSigs"} : i[x] = s2[x]
      BY <3>3, <1>13, Zenon DEF Fields
    <3> QED  BY <3>4, <2>3, Zenon
  <2>5. CASE ~(Number(s.chain) < n)
    <3>1. i = s2 /\ s.chain = b  BY <2>5, <1>2, <1>4, <1>6, <1>14, SMTT(20)
    <3> HIDE DEF i
    <3> QED  BY <3>1, <2>2, <1>13, <1>14, Zenon DEF one
  <2> QED  BY <2>4, <2>5, Zenon
<1> HIDE DEF i
<1>16. i.log = l.log /\ i.me = 1 /\ i.leader = 1 /\ i.mode = "Normal"
  BY <1>14, <1>15, Zenon DEF Fields
<1>17. /\ DOMAIN r = Fields /\ r.blockNum = n + 1 /\ r.view = n + 1
       /\ DOMAIN r.log = {"messages", "blocks", "verifiedBlocks"}
       /\ \A x \in Fields \ {"blockNum", "view", "log"} : r[x] = i[x]
  <2> DEFINE log == PruneCacheBeforeBlock(i.log, n)
  <2>1. DOMAIN log = {"messages", "blocks", "verifiedBlocks"}  BY Zenon DEF PruneCacheBeforeBlock
  <2>2. r = [i EXCEPT !.blockNum = n + 1, !.view = n + 1, !.log = log]  BY <1>6, <1>7, Zenon
  <2> HIDE DEF log, r
  <2> QED  BY <2>1, <2>2, <1>15, Zenon DEF Fields
<1> HIDE DEF r
<1>18. /\ DOMAIN s4 = Fields /\ s4.hash = NoBlock /\ s4.commit = NoVotes
       /\ s4.commitBitmap = {}
       /\ \A x \in Fields \ {"hash", "body", "prepare", "commit", "prepareBitmap", "commitBitmap"} :
            s4[x] = r[x]
  BY <1>17, Zenon DEF resetState, Fields
<1>19. u = Stop(s4, "bootstrap")
  <2>1. u = finalCommit(s0)  BY <1>3, Zenon DEF endOfGrace, s0
  <2>2. CanCommit(s2, s0.hash)  BY <1>4, <1>6, <1>14, Zenon DEF CanCommit, CanInsert
  <2>3. HasBlock(l.log, s0.hash) /\ IsLeader(s0)
    BY <1>3, <1>6, <1>10, Zenon DEF HasBlock, IsLeader
  <2>4. commitBlock(s2, s0.hash, m) = s4
    <3>1. PostConsensusProcessing(i) = i  BY <1>16, Zenon DEF PostConsensusProcessing, IsLeader
    <3>2. commitBlock(s2, s0.hash, m) = setupForNewConsensus(PostConsensusProcessing(i), s0.hash, m)
      BY Zenon DEF commitBlock, i
    <3> QED  BY <3>1, <3>2, Zenon DEF setupForNewConsensus, s4, r
  <2>5. finalCommit(s0) = IF ~IsLeader(s0) THEN s0
                          ELSE IF ~HasBlock(l.log, s0.hash) \/ ~m.ok THEN l
                          ELSE Stop(IF CanCommit(s2, s0.hash) THEN commitBlock(s2, s0.hash, m)
                                    ELSE s2, "bootstrap")
    BY Zenon DEF finalCommit, m, l, w, s2
  <2> HIDE DEF s4
  <2> QED  BY <2>1, <2>2, <2>3, <2>4, <2>5, <1>8, Zenon
<1> HIDE DEF s4
<1>20. DOMAIN u = Fields /\ \A x \in Fields \ {"timers"} : u[x] = s4[x]
  BY <1>18, <1>19, Zenon DEF Stop, Fields
<1>21. /\ u.chain = b /\ u.blockNum = n + 1 /\ u.view = n + 1 /\ u.hash = NoBlock
       /\ u.commit = NoVotes /\ u.commitBitmap = {} /\ u.out = {m} /\ u.grace = {}
       /\ u.log = r.log /\ u.commitSigs = i.commitSigs
  BY <1>5, <1>10, <1>12, <1>13, <1>15, <1>17, <1>18, <1>20, SMTT(20) DEF Fields
<1> DEFINE Rest == Fields \ {"timers", "hash", "body", "prepare", "commit", "prepareBitmap",
                     "commitBitmap", "blockNum", "view", "log", "chain", "slot", "commitSigs",
                     "out", "grace"}
<1>22. \A x \in Rest : u[x] = s[x]
  <2>1. \A x \in Rest : i[x] = s[x]  BY <1>5, <1>10, <1>12, <1>13, <1>15, SMTT(20)
  <2> QED  BY <2>1, <1>17, <1>18, <1>20, Zenon
<1>23. /\ u.me = s.me /\ u.leader = s.leader /\ u.mode = s.mode
       /\ u.validating = s.validating /\ u.replaying = s.replaying
       /\ u.downloading = s.downloading /\ u.startedCh = s.startedCh
       /\ u.finishedCh = s.finishedCh /\ u.proposed = s.proposed /\ u.due = s.due
       /\ u.ready = s.ready /\ u.inserting = s.inserting
  BY <1>22, Zenon DEF Fields
<1>24. Signatures(u)
  BY <1>2, <1>3, <1>4, <1>15, <1>21, SMTT(20) DEF Signatures
<1>25. Keeps(s, u)
  <2> SUFFICES ASSUME NEW k \in DOMAIN s.commitSigs
               PROVE  /\ k \in DOMAIN u.commitSigs
                      /\ Cardinality(s.commitSigs[k]) <= Cardinality(u.commitSigs[k])
    BY Zenon DEF Keeps
  <2>1. k \in 1..Number(s.chain) /\ s.commitSigs[k] \subseteq Node  BY <1>2, Zenon DEF Signatures
  <2>2. k \in 1..n /\ k \in DOMAIN u.commitSigs  BY <2>1, <1>2, <1>4, <1>15, <1>21, SMTT(20)
  <2>3. CASE k = n
    <3>1. PreCommitted(s) /\ s.chain = b  BY <2>1, <2>3, <1>2, <1>4, SMTT(20)
    <3>2. s.commitSigs[k] \subseteq s.commitBitmap  BY <3>1, <2>3, Zenon DEF PreCommitted
    <3>3. u.commitSigs[k] = s.commitBitmap  BY <2>2, <2>3, <1>15, <1>21, Zenon
    <3>4. IsFiniteSet(s.commitBitmap)  BY <1>3, NodesAreFinite, Zenon
    <3>5. Cardinality(s.commitSigs[k]) <= Cardinality(s.commitBitmap)
      BY <3>2, <3>4, FS_Subset, Zenon
    <3> QED  BY <3>3, <3>5, <2>2, Zenon
  <2>4. CASE k # n
    <3>1. u.commitSigs[k] = s.commitSigs[k]  BY <2>2, <2>4, <1>15, <1>21, Zenon
    <3>2. Cardinality(s.commitSigs[k]) \in Nat  BY <2>1, NodesAreFinite, Zenon
    <3> QED  BY <3>1, <3>2, <2>2
  <2> QED  BY <2>3, <2>4, Zenon
<1>26. Between(u)  BY <1>21, Zenon DEF Between
<1>27. Phases(u)
  <2>1. CASE Committing(s)
    <3>1. PICK job \in s.inserting : s.inserting = {job} /\ Job(job, b)
      BY <2>1, Zenon DEF Committing
    <3>2. Finished(u)  BY <2>1, <3>1, <1>3, <1>21, <1>23, <1>26, Zenon DEF Finished, Committing
    <3> QED  BY <3>2, Zenon DEF Phases
  <2>2. CASE PreCommitted(s)
    <3>1. Ready(u)  BY <2>2, <1>3, <1>23, <1>26, Zenon DEF Ready, PreCommitted
    <3> QED  BY <3>1, Zenon DEF Phases
  <2> QED  BY <2>1, <2>2, <1>1, Zenon
<1>28. Leader(u)
  BY <1>3, <1>17, <1>20, <1>21, <1>23, <1>24, <1>27, Zenon DEF Leader
<1>29. Top(s) = b /\ Top(u) = b  BY <1>3, <1>21, Zenon DEF Top
<1>30. Heads(s, u)  BY <1>3, <1>4, <1>21, <1>25, <1>28, <1>29, Zenon DEF Heads, Frontier
<1> QED  BY <1>9, <1>21, <1>29, <1>30, Zenon DEF Speaks

(***************************************************************************)
(* The steps.                                                               *)
(***************************************************************************)
\* What node n may become.
Good(n, u) ==
  IF n = 1 THEN Heads(node[1], u) /\ Speaks(u)
  ELSE Follows(n, node[n], u, node[1].chain, Top(node[1]))

GoodSteps(n) == \E u : Become(n, u) /\ Good(n, u)

\* The parts of the committee.
LEMMA CommitteeHas ==
  ASSUME NEW nd, NEW ms, Committee(nd, ms)
  PROVE  /\ 1 \in Node /\ DOMAIN nd = Node /\ Leader(nd[1]) /\ nd[1].out = {}
         /\ Frontier(nd[1].chain, Top(nd[1])) /\ IsChain(nd[1].chain)
         /\ \A n \in Node : n # 1 => /\ Follower(n, nd[n], nd[1].chain, Top(nd[1]))
                                     /\ nd[n].out = {}
         /\ \A n \in Node : /\ Signatures(nd[n]) /\ nd[n].chain \in BlocksOf(nd[1].chain)
                            /\ IsChain(nd[n].chain) /\ Number(nd[n].chain) \in Nat
                            /\ Number(nd[n].chain) <= Number(nd[1].chain)
         /\ \A m \in ms : Sound(m, nd[1].chain, Top(nd[1]))
<1>1. 1 \in Node  BY CommitteeAssumption DEF Node
<1>2. /\ DOMAIN nd = Node /\ Leader(nd[1]) /\ nd[1].out = {}
      /\ \A n \in Node : n # 1 => /\ Follower(n, nd[n], nd[1].chain, Top(nd[1]))
                                  /\ nd[n].out = {}
      /\ \A m \in ms : Sound(m, nd[1].chain, Top(nd[1]))
  BY Zenon DEF Committee
<1>3. Frontier(nd[1].chain, Top(nd[1])) /\ IsChain(nd[1].chain)
      /\ nd[1].chain \in BlocksOf(nd[1].chain)
  BY <1>2, LeaderFrontier, Zenon
<1>4. ASSUME NEW n \in Node
      PROVE  Signatures(nd[n]) /\ nd[n].chain \in BlocksOf(nd[1].chain)
  BY <1>2, <1>3, Zenon DEF Leader, Follower
<1>5. ASSUME NEW n \in Node
      PROVE  /\ IsChain(nd[n].chain) /\ Number(nd[n].chain) \in Nat
             /\ Number(nd[n].chain) <= Number(nd[1].chain)
  BY <1>3, <1>4, BlockFacts
<1> QED  BY <1>1, <1>2, <1>3, <1>4, <1>5, Zenon

\* Nobody has sent a message of a view change, and the leader is the only sender of
\* ANNOUNCE, PREPARED and COMMITTED.
LEMMA SoundTypes ==
  ASSUME NEW c, NEW t, NEW m, Sound(m, c, t)
  PROVE  /\ m.type \notin {"VIEWCHANGE", "NEWVIEW"}
         /\ m.type \in LeaderTypes => FromRound(m, c, t) /\ m.from = 1
BY Zenon DEF Sound, FromRound, Vote, LeaderTypes

\* No timer starts a view change.
LEMMA NoViewChange ==
  ASSUME Calm, env \in Scenarios, NEW n \in env.impatient, NEW s, DOMAIN s = Fields,
         Header(s.chain).view \in Nat, Header(s.chain).view >= 1,
         NEW u \in tick(s), u.slot <= env.views
  PROVE  \E x : u = [s EXCEPT !.timers = x]
<1>1. env.views \in Nat /\ env.views <= 2  BY ScenarioAssumption, Zenon DEF Calm
<1>2. u \notin startViewChange(s)  BY <1>1, ViewChangeSlot
<1>3. \E a : \/ u = [s EXCEPT !.timers = a]
             \/ u \in (IF a = {} THEN {} ELSE startViewChange(s))
  BY Zenon DEF tick
<1> QED  BY <1>2, <1>3, Zenon

\* The messages a follower handles.
LEMMA FollowerReceives ==
  ASSUME IInv, NEW n \in Node, n # 1,
         \/ ReceiveAnnounce(n) \/ ReceivePrepared(n) \/ ReceiveCommitted(n)
         \/ ReceivePrepare(n) \/ ReceiveCommit(n)
         \/ ReceiveViewChange(n) \/ ReceiveNewView(n)
  PROVE  GoodSteps(n)
<1> DEFINE c == node[1].chain
           t == Top(node[1])
           s == node[n]
<1>1. Frontier(c, t) /\ Follower(n, s, c, t) /\ \A m \in msgs : Sound(m, c, t)
  BY CommitteeHas, Zenon DEF IInv
<1>2. ~IsLeader(s)  BY <1>1, Zenon DEF Follower, IsLeader
<1> HIDE DEF c, t, s
<1>3. \A type : \A m \in Inbox(n, type) : m.type = type /\ Sound(m, c, t)
  BY <1>1, Zenon DEF Inbox
<1>4. \A u : Become(n, u) /\ Follows(n, s, u, c, t) => GoodSteps(n)
  BY Zenon DEF GoodSteps, Good, c, t, s
<1>5. CASE ReceiveAnnounce(n)
  <2>1. PICK m \in Inbox(n, "ANNOUNCE") : \E u \in onAnnounce(s, m) : Become(n, u)
    BY <1>5, Zenon DEF ReceiveAnnounce, s
  <2>2. PICK u \in onAnnounce(s, m) : Become(n, u)  BY <2>1, Zenon
  <2>3. Follows(n, s, u, c, t)  BY <1>1, <1>3, FollowAnnounce, Zenon
  <2> QED  BY <2>2, <2>3, <1>4, Zenon
<1>6. CASE ReceivePrepared(n)
  <2>1. PICK m \in Inbox(n, "PREPARED") : Become(n, onPrepared(s, m))
    BY <1>6, Zenon DEF ReceivePrepared, s
  <2>2. Follows(n, s, onPrepared(s, m), c, t)  BY <1>1, <1>3, FollowPrepared, Zenon
  <2> QED  BY <2>1, <2>2, <1>4, Zenon
<1>7. CASE ReceiveCommitted(n)
  <2>1. PICK m \in Inbox(n, "COMMITTED") : \E u \in onCommitted(s, m) : Become(n, u)
    BY <1>7, Zenon DEF ReceiveCommitted, s
  <2>2. PICK u \in onCommitted(s, m) : Become(n, u)  BY <2>1, Zenon
  <2>3. FromRound(m, c, t) /\ m.type = "COMMITTED"
    BY <1>3, SoundTypes, Zenon DEF LeaderTypes
  <2>4. Follows(n, s, u, c, t)  BY <2>3, <1>1, FollowCommitted, Zenon
  <2> QED  BY <2>2, <2>4, <1>4, Zenon
<1>8. ~ReceivePrepare(n) /\ ~ReceiveCommit(n)
  BY <1>2, Zenon DEF ReceivePrepare, ReceiveCommit, Leads, s
<1>9. ~ReceiveViewChange(n) /\ ~ReceiveNewView(n)
  BY <1>3, SoundTypes DEF ReceiveViewChange, ReceiveNewView
<1> QED  BY <1>5, <1>6, <1>7, <1>8, <1>9, Zenon

\* What a follower does on its own.
LEMMA FollowerWorks ==
  ASSUME Calm, IInv, NEW n \in Node, n # 1,
         \/ Propose(n) \/ Announce(n) \/ Tick(n) \/ ValidateAnnounced(n)
         \/ ReplayCommitted(n) \/ PreCommit(n) \/ EndOfGrace(n)
  PROVE  GoodSteps(n)
<1> DEFINE c == node[1].chain
           t == Top(node[1])
           s == node[n]
<1>1. Frontier(c, t) /\ Follower(n, s, c, t)  BY CommitteeHas, Zenon DEF IInv
<1>2. /\ Header(s.chain).view \in Nat /\ Header(s.chain).view >= 1
      /\ DOMAIN s = Fields /\ s.inserting = {}
  BY <1>1, FollowerHeader DEF Follower
<1> HIDE DEF c, t, s
<1>3. \A u : Become(n, u) /\ Follows(n, s, u, c, t) => GoodSteps(n)
  BY Zenon DEF GoodSteps, Good, c, t, s
<1>4. /\ Follows(n, s, propose(s), c, t)
      /\ \A b : Follows(n, s, announce([s EXCEPT !.due = @ \ {b}], b), c, t)
      /\ \A v : Follows(n, s, endOfGrace(s, v), c, t)
      /\ \A x : Follows(n, s, [s EXCEPT !.timers = x], c, t)
  BY <1>1, FollowIdle, Zenon
<1>5. CASE Propose(n)
  BY <1>5, <1>3, <1>4, Zenon DEF Propose, s
<1>6. CASE Announce(n)
  <2>1. PICK b : Become(n, announce([s EXCEPT !.due = @ \ {b}], b))
    BY <1>6, Zenon DEF Announce, s
  <2> QED  BY <2>1, <1>3, <1>4, Zenon
<1>7. CASE Tick(n)
  <2>1. n \in env.impatient /\ env \in Scenarios  BY <1>7, Zenon DEF Tick, IInv
  <2>2. PICK u \in tick(s) : u.slot <= env.views /\ Become(n, u)  BY <1>7, Zenon DEF Tick, s
  <2>3. \E x : u = [s EXCEPT !.timers = x]  BY <2>1, <2>2, <1>2, NoViewChange, Zenon
  <2> QED  BY <2>2, <2>3, <1>3, <1>4, Zenon
<1>8. CASE ValidateAnnounced(n)
  <2>1. PICK m \in s.validating :
          Become(n, validateNewBlock([s EXCEPT !.validating = @ \ {m}], m))
    BY <1>8, Zenon DEF ValidateAnnounced, s
  <2>2. Follows(n, s, validateNewBlock([s EXCEPT !.validating = @ \ {m}], m), c, t)
    BY <1>1, FollowValidation, Zenon
  <2> QED  BY <2>1, <2>2, <1>3, Zenon
<1>9. CASE ReplayCommitted(n)
  <2>1. PICK b : \E u \in replayCommitted(s, b) : Become(n, u)
    BY <1>9, Zenon DEF ReplayCommitted, s
  <2>2. PICK u \in replayCommitted(s, b) : Become(n, u)  BY <2>1, Zenon
  <2>3. Follows(n, s, u, c, t)  BY <1>1, FollowReplay, Zenon
  <2> QED  BY <2>2, <2>3, <1>3, Zenon
<1>10. ~PreCommit(n)  BY <1>2, Zenon DEF PreCommit, s
<1>11. CASE EndOfGrace(n)
  <2>1. PICK v : Become(n, endOfGrace(s, v))  BY <1>11, Zenon DEF EndOfGrace, s
  <2> QED  BY <2>1, <1>3, <1>4, Zenon
<1> QED  BY <1>5, <1>6, <1>7, <1>8, <1>9, <1>10, <1>11, Zenon

\* A follower downloads blocks of the leader's chain, which every other node has a part
\* of, and it may restart.
LEMMA FollowerDownloads ==
  ASSUME IInv, NEW n \in Node, n # 1,
         \/ DownloadStart(n) \/ DownloadBlock(n) \/ DownloadFinish(n)
         \/ HandleStarted(n) \/ HandleFinished(n) \/ Restart(n)
  PROVE  GoodSteps(n)
<1> DEFINE c == node[1].chain
           t == Top(node[1])
           s == node[n]
<1>1. Frontier(c, t) /\ Follower(n, s, c, t) /\ IsChain(c)  BY CommitteeHas, Zenon DEF IInv
<1>2. \A p \in Node : /\ Signatures(node[p]) /\ node[p].chain \in BlocksOf(c)
                      /\ IsChain(node[p].chain) /\ Number(node[p].chain) \in Nat
  BY CommitteeHas, Zenon DEF IInv
<1>3. Number(s.chain) \in Nat  BY <1>2, Zenon
<1> HIDE DEF c, t, s
<1>4. \A u : Become(n, u) /\ Follows(n, s, u, c, t) => GoodSteps(n)
  BY Zenon DEF GoodSteps, Good, c, t, s
<1>5. CASE DownloadStart(n)
  BY <1>5, <1>4, <1>1, FollowDownload, Zenon DEF DownloadStart, s
<1>6. CASE DownloadBlock(n)
  <2> DEFINE num == Number(s.chain) + 1
  <2>1. s.downloading /\ ~s.startedCh  BY <1>6, Zenon DEF DownloadBlock, StartHandled, s
  <2>2. PICK p \in Ahead(n) :
          /\ CanInsert(s, SubSeq(node[p].chain, 1, num))
          /\ Become(n, InsertChain(s, SubSeq(node[p].chain, 1, num), node[p].commitSigs[num]))
    BY <1>6, Zenon DEF DownloadBlock, s
  <2> DEFINE d == node[p].chain
             b == SubSeq(d, 1, num)
             mask == node[p].commitSigs[num]
  <2>3. p \in Node /\ Number(d) > Number(s.chain)  BY Zenon DEF Ahead, s
  <2>4. d \in BlocksOf(c) /\ IsChain(d) /\ num \in 1..Number(d)
    BY <1>2, <1>3, <2>3
  <2>5. mask \subseteq Node /\ IsQuorum(mask)  BY <1>2, <2>3, <2>4, Zenon DEF Signatures
  <2>6. b \in BlocksOf(d)  BY <2>4, Zenon DEF BlocksOf, Number
  <2>7. b \in BlocksOf(c)  BY <1>1, <2>4, <2>6, BlocksOfBlock, Zenon
  <2>8. Parent(b) = s.chain  BY <2>2, Zenon DEF CanInsert
  <2> HIDE DEF num, d, b, mask
  <2>9. Follows(n, s, InsertChain(s, b, mask), c, t)
    BY <1>1, <2>1, <2>5, <2>7, <2>8, FollowInsert, Zenon
  <2>10. Become(n, InsertChain(s, b, mask))  BY <2>2, Zenon DEF b, d, mask
  <2> QED  BY <2>9, <2>10, <1>4, Zenon
<1>7. CASE DownloadFinish(n)
  BY <1>7, <1>4, <1>1, FollowDownload, Zenon DEF DownloadFinish, s
<1>8. CASE HandleStarted(n)
  BY <1>8, <1>4, <1>1, FollowDownload, Zenon DEF HandleStarted, s
<1>9. CASE HandleFinished(n)
  <2>1. ~s.startedCh /\ s.finishedCh  BY <1>9, Zenon DEF HandleFinished, StartHandled, s
  <2>2. PICK u \in BlocksSynchronized(s) : Become(n, u)  BY <1>9, Zenon DEF HandleFinished, s
  <2>3. Follows(n, s, u, c, t)  BY <1>1, <2>1, FollowSynchronized, Zenon
  <2> QED  BY <2>2, <2>3, <1>4, Zenon
<1>10. CASE Restart(n)
  <2> DEFINE u == [Fresh(n, s.chain, Node) EXCEPT
                     !.commitSigs = s.commitSigs, !.proposed = s.proposed,
                     !.ready = IF s.proposed < MaxProposals THEN @ ELSE 0,
                     !.slot = s.slot, !.restarted = TRUE]
  <2>1. Become(n, u)  BY <1>10, Zenon DEF Restart, s
  <2>2. Follows(n, s, u, c, t)
    <3>1. \A v : v = u => Follows(n, s, v, c, t)  BY <1>1, FollowRestart, Zenon
    <3> HIDE DEF u
    <3> QED  BY <3>1, Zenon
  <2> HIDE DEF u
  <2> QED  BY <2>1, <2>2, <1>4, Zenon
<1> QED  BY <1>5, <1>6, <1>7, <1>8, <1>9, <1>10, Zenon

\* The leader counts votes, and it handles nothing else.
LEMMA LeaderReceives ==
  ASSUME IInv,
         \/ ReceiveAnnounce(1) \/ ReceivePrepared(1) \/ ReceiveCommitted(1)
         \/ ReceivePrepare(1) \/ ReceiveCommit(1)
         \/ ReceiveViewChange(1) \/ ReceiveNewView(1)
  PROVE  GoodSteps(1)
<1> DEFINE s == node[1]
<1>1. Leader(s) /\ s.out = {} /\ \A m \in msgs : Sound(m, s.chain, Top(s))
  BY CommitteeHas, Zenon DEF IInv
<1>2. IsLeader(s)  BY <1>1, Zenon DEF Leader, IsLeader
<1> HIDE DEF s
<1>3. \A type : \A m \in Inbox(1, type) : m.type = type /\ Sound(m, s.chain, Top(s))
  BY <1>1, Zenon DEF Inbox
<1>4. \A u : Become(1, u) /\ Heads(s, u) /\ Speaks(u) => GoodSteps(1)
  BY Zenon DEF GoodSteps, Good, s
<1>5. ~ReceiveAnnounce(1) /\ ~ReceivePrepared(1) /\ ~ReceiveCommitted(1)
  BY <1>2, Zenon DEF ReceiveAnnounce, ReceivePrepared, ReceiveCommitted, Validates, s
<1>6. ~ReceiveViewChange(1) /\ ~ReceiveNewView(1)
  BY <1>3, SoundTypes DEF ReceiveViewChange, ReceiveNewView
<1>7. CASE ReceivePrepare(1)
  <2>1. PICK m \in Inbox(1, "PREPARE") : CountsPrepare(s, m) /\ Become(1, onPrepare(s, m))
    BY <1>7, Zenon DEF ReceivePrepare, s
  <2>2. Heads(s, onPrepare(s, m)) /\ Speaks(onPrepare(s, m))
    BY <2>1, <1>1, <1>3, LeadPrepare, Zenon
  <2> QED  BY <2>1, <2>2, <1>4, Zenon
<1>8. CASE ReceiveCommit(1)
  <2>1. PICK m \in Inbox(1, "COMMIT") : CountsCommit(s, m) /\ Become(1, onCommit(s, m))
    BY <1>8, Zenon DEF ReceiveCommit, s
  <2>2. Heads(s, onCommit(s, m)) /\ Speaks(onCommit(s, m))
    BY <2>1, <1>1, <1>3, LeadCommit, Zenon
  <2> QED  BY <2>1, <2>2, <1>4, Zenon
<1> QED  BY <1>5, <1>6, <1>7, <1>8, Zenon

\* What the leader does on its own.  It has the longest chain, so it does not download.
LEMMA LeaderWorks ==
  ASSUME Calm, IInv,
         \/ Propose(1) \/ Announce(1) \/ Tick(1) \/ ValidateAnnounced(1)
         \/ ReplayCommitted(1) \/ PreCommit(1) \/ EndOfGrace(1)
         \/ DownloadStart(1) \/ DownloadBlock(1) \/ DownloadFinish(1)
         \/ HandleStarted(1) \/ HandleFinished(1) \/ Restart(1)
  PROVE  GoodSteps(1)
<1> DEFINE s == node[1]
<1>1. /\ Leader(s) /\ s.out = {} /\ env \in Scenarios
      /\ \A p \in Node : /\ Number(node[p].chain) \in Nat
                         /\ Number(node[p].chain) <= Number(node[1].chain)
      /\ 1 \in Node
  BY CommitteeHas, Zenon DEF IInv
<1>2. /\ DOMAIN s = Fields /\ s.validating = {} /\ s.replaying = {}
      /\ ~s.downloading /\ ~s.startedCh /\ ~s.finishedCh
      /\ Header(s.chain).view \in Nat /\ Header(s.chain).view >= 1
  BY <1>1, LeaderFrontier, Zenon DEF Leader
<1>3. ~ValidateAnnounced(1) /\ ~ReplayCommitted(1)
  BY <1>2, Zenon DEF ValidateAnnounced, ReplayCommitted
<1>4. ~DownloadBlock(1) /\ ~DownloadFinish(1) /\ ~HandleStarted(1) /\ ~HandleFinished(1)
  BY <1>2, Zenon DEF DownloadBlock, DownloadFinish, HandleStarted, HandleFinished
<1>5. ~DownloadStart(1)
  <2>1. Ahead(1) = {}  BY <1>1 DEF Ahead
  <2> QED  BY <2>1, Zenon DEF DownloadStart
<1>6. ~Restart(1)  BY <1>1, Zenon DEF Restart, Calm
<1> HIDE DEF s
<1>7. \A u : Become(1, u) /\ Heads(s, u) /\ Speaks(u) => GoodSteps(1)
  BY Zenon DEF GoodSteps, Good, s
<1>8. CASE Propose(1)
  <2>1. s.ready > 0 /\ s.grace = {} /\ Become(1, propose(s))
    BY <1>8, Zenon DEF Propose, Proposing, s
  <2>2. Heads(s, propose(s)) /\ propose(s).out = {}  BY <2>1, <1>1, LeadPropose, Zenon
  <2>3. Speaks(propose(s))  BY <2>2, Zenon DEF Speaks
  <2> QED  BY <2>1, <2>2, <2>3, <1>7, Zenon
<1>9. CASE Announce(1)
  <2>1. PICK b \in s.due : Become(1, announce([s EXCEPT !.due = @ \ {b}], b))
    BY <1>9, Zenon DEF Announce, s
  <2> DEFINE u == announce([s EXCEPT !.due = @ \ {b}], b)
  <2>2. \A v : v = u => Heads(s, v) /\ Speaks(v)  BY <1>1, LeadAnnounce, Zenon
  <2> HIDE DEF u
  <2>3. Heads(s, u) /\ Speaks(u)  BY <2>2, Zenon
  <2> QED  BY <2>1, <2>3, <1>7, Zenon DEF u
<1>10. CASE Tick(1)
  <2>1. 1 \in env.impatient  BY <1>10, Zenon DEF Tick
  <2>2. PICK u \in tick(s) : u.slot <= env.views /\ Become(1, u)  BY <1>10, Zenon DEF Tick, s
  <2>3. PICK x : u = [s EXCEPT !.timers = x]  BY <2>1, <2>2, <1>1, <1>2, NoViewChange, Zenon
  <2>4. DOMAIN u = Fields /\ u.out = {} /\ \A y \in Fields \ {"timers", "out"} : u[y] = s[y]
    BY <2>3, <1>1, <1>2, Zenon DEF Fields
  <2>5. Heads(s, u) /\ Speaks(u)  BY <2>4, <1>1, LeaderRests, Zenon DEF Speaks
  <2> QED  BY <2>2, <2>5, <1>7, Zenon
<1>11. CASE PreCommit(1)
  <2>1. PICK job \in s.inserting : Become(1, preCommit(s, job))
    BY <1>11, Zenon DEF PreCommit, s
  <2>2. Heads(s, preCommit(s, job)) /\ Speaks(preCommit(s, job))  BY <1>1, LeadPreCommit, Zenon
  <2> QED  BY <2>1, <2>2, <1>7, Zenon
<1>12. CASE EndOfGrace(1)
  <2>1. PICK v \in s.grace : Become(1, endOfGrace(s, v))  BY <1>12, Zenon DEF EndOfGrace, s
  <2>2. Heads(s, endOfGrace(s, v)) /\ Speaks(endOfGrace(s, v))  BY <1>1, LeadEndOfGrace, Zenon
  <2> QED  BY <2>1, <2>2, <1>7, Zenon
<1> QED  BY <1>3, <1>4, <1>5, <1>6, <1>8, <1>9, <1>10, <1>11, <1>12, Zenon

\* Every step is one of these.
LEMMA EveryStep ==
  ASSUME Calm, IInv, Next
  PROVE  \E n \in Node : GoodSteps(n)
<1>1. PICK n \in Node :
        \/ Propose(n) \/ Announce(n)
        \/ ReceiveAnnounce(n) \/ ReceivePrepared(n) \/ ReceiveCommitted(n)
        \/ ReceivePrepare(n) \/ ReceiveCommit(n)
        \/ ReceiveViewChange(n) \/ ReceiveNewView(n)
        \/ Tick(n) \/ ValidateAnnounced(n) \/ ReplayCommitted(n)
        \/ PreCommit(n) \/ EndOfGrace(n)
        \/ DownloadStart(n) \/ DownloadBlock(n) \/ DownloadFinish(n)
        \/ HandleStarted(n) \/ HandleFinished(n) \/ Restart(n)
  BY Zenon DEF Next
<1>2. CASE n = 1
  <2>1. GoodSteps(1)  BY <1>1, <1>2, LeaderReceives, LeaderWorks, Zenon
  <2> QED  BY <2>1, <1>2, Zenon
<1>3. CASE n # 1
  <2>1. GoodSteps(n)  BY <1>1, <1>3, FollowerReceives, FollowerWorks, FollowerDownloads, Zenon
  <2> QED  BY <2>1, Zenon
<1> QED  BY <1>2, <1>3, Zenon

\* One node moves, keeps its blocks and its commit signatures, and the leader adds at
\* most one block to its chain.
Moves(nd, nd2) ==
  \E n \in Node :
    /\ \A p \in Node : p # n => nd2[p] = nd[p]
    /\ Keeps(nd[n], nd2[n])
    /\ n = 1 => /\ nd[1].chain \in BlocksOf(nd2[1].chain)
                /\ Number(nd2[1].chain) <= Number(nd[1].chain) + 1

\* A step of a follower keeps the committee.
LEMMA FollowerMoves ==
  ASSUME NEW nd, NEW ms, Committee(nd, ms), NEW n \in Node, n # 1, NEW u,
         Follows(n, nd[n], u, nd[1].chain, Top(nd[1])),
         NEW nd2, nd2 = [nd EXCEPT ![n] = [u EXCEPT !.out = {}]],
         NEW ms2, ms2 = ms \cup u.out
  PROVE  Committee(nd2, ms2) /\ Moves(nd, nd2)
<1> DEFINE c == nd[1].chain
           t == Top(nd[1])
           v == [u EXCEPT !.out = {}]
<1>1. /\ DOMAIN nd = Node /\ Leader(nd[1]) /\ nd[1].out = {} /\ 1 \in Node
      /\ \A p \in Node : p # 1 => Follower(p, nd[p], c, t) /\ nd[p].out = {}
      /\ \A m \in ms : Sound(m, c, t)
  BY CommitteeHas, Zenon
<1>2. Follower(n, u, c, t) /\ Keeps(nd[n], u)  BY Zenon DEF Follows
<1>3. DOMAIN v = Fields /\ v.out = {} /\ \A x \in Fields \ {"out"} : v[x] = u[x]
  BY <1>2, Zenon DEF Follower, Fields
<1>4. DOMAIN nd2 = Node /\ nd2[n] = v /\ \A p \in Node : p # n => nd2[p] = nd[p]
  BY <1>1, Zenon
<1> HIDE DEF v, c, t
<1>5. Follower(n, v, c, t)
  <2>1. \A x \in Core : v[x] = u[x]  BY <1>3, Zenon DEF Core, Fields
  <2>2. v.mode = u.mode /\ v.log = u.log /\ v.validating = u.validating
    BY <1>3, Zenon DEF Fields
  <2> QED  BY <2>1, <2>2, <1>2, <1>3, FollowerFrame, FollowerHas, SMTT(20) DEF Follows
<1>6. v.commitSigs = u.commitSigs  BY <1>3, Zenon DEF Fields
<1>7. Keeps(nd[n], v)  BY <1>2, <1>6, Zenon DEF Keeps
<1>8. nd2[1] = nd[1]  BY <1>1, <1>4, Zenon
<1>9. \A m \in ms2 : Sound(m, c, t)  BY <1>1, <1>2, Zenon DEF Follower
<1>10. \A p \in Node : p # 1 => Follower(p, nd2[p], c, t) /\ nd2[p].out = {}
  BY <1>1, <1>3, <1>4, <1>5, Zenon
<1>11. Committee(nd2, ms2)
  BY <1>1, <1>4, <1>8, <1>9, <1>10, Zenon DEF Committee, c, t
<1> QED  BY <1>4, <1>7, <1>11, Zenon DEF Moves

\* What is true of a follower stays true when the leader goes on.
LEMMA FollowerLater ==
  ASSUME NEW c, NEW t, NEW d, NEW e, Frontier(c, t), Frontier(d, e),
         c \in BlocksOf(d), t \in BlocksOf(e), NEW n, NEW s, Follower(n, s, c, t)
  PROVE  Follower(n, s, d, e)
<1>1. /\ \A b : b \in BlocksOf(c) => b \in BlocksOf(d)
      /\ \A m : Sound(m, c, t) => Sound(m, d, e)
      /\ \A log : SoundLog(log, c, t) => SoundLog(log, d, e)
  BY SoundLater, Zenon
<1> QED  BY <1>1, Zenon DEF Follower

\* A step of the leader keeps the committee.
LEMMA LeaderMoves ==
  ASSUME NEW nd, NEW ms, Committee(nd, ms), NEW u, Heads(nd[1], u), Speaks(u),
         NEW nd2, nd2 = [nd EXCEPT ![1] = [u EXCEPT !.out = {}]],
         NEW ms2, ms2 = ms \cup u.out
  PROVE  Committee(nd2, ms2) /\ Moves(nd, nd2)
<1> DEFINE c == nd[1].chain
           t == Top(nd[1])
           v == [u EXCEPT !.out = {}]
<1>1. /\ DOMAIN nd = Node /\ 1 \in Node /\ Frontier(c, t)
      /\ \A p \in Node : p # 1 => Follower(p, nd[p], c, t) /\ nd[p].out = {}
      /\ \A m \in ms : Sound(m, c, t)
  BY CommitteeHas, Zenon
<1>2. /\ Leader(u) /\ Keeps(nd[1], u) /\ Frontier(u.chain, Top(u))
      /\ c \in BlocksOf(u.chain) /\ t \in BlocksOf(Top(u))
      /\ Number(u.chain) <= Number(c) + 1
  BY Zenon DEF Heads
<1>3. DOMAIN v = Fields /\ v.out = {} /\ \A x \in Fields \ {"out"} : v[x] = u[x]
  BY <1>2, Zenon DEF Leader, Fields
<1>4. DOMAIN nd2 = Node /\ nd2[1] = v /\ \A p \in Node : p # 1 => nd2[p] = nd[p]
  BY <1>1, Zenon
<1> HIDE DEF v, c, t
<1>5. Leader(v)
  <2>1. \A x \in Fields \ {"timers", "out"} : v[x] = u[x]  BY <1>3, Zenon
  <2> QED  BY <2>1, <1>2, <1>3, LeaderRests, Zenon DEF Heads
<1>6. v.commitSigs = u.commitSigs /\ v.chain = u.chain /\ v.hash = u.hash  BY <1>3, Zenon DEF Fields
<1>7. Keeps(nd[1], v) /\ Top(v) = Top(u)  BY <1>2, <1>6, Zenon DEF Keeps, Top
<1>8. \A m \in ms2 : Sound(m, u.chain, Top(u))
  <2>1. \A m : Sound(m, c, t) => Sound(m, u.chain, Top(u))  BY <1>1, <1>2, SoundLater, Zenon
  <2> QED  BY <2>1, <1>1, Zenon DEF Speaks
<1>9. \A p \in Node : p # 1 => Follower(p, nd2[p], u.chain, Top(u)) /\ nd2[p].out = {}
  BY <1>1, <1>2, <1>4, FollowerLater, Zenon
<1>10. Committee(nd2, ms2)
  BY <1>3, <1>4, <1>5, <1>6, <1>7, <1>8, <1>9, Zenon DEF Committee
<1> QED  BY <1>1, <1>2, <1>4, <1>6, <1>7, <1>10, Zenon DEF Moves, c

(***************************************************************************)
(* The committee keeps its invariant.                                       *)
(***************************************************************************)
\* The committee starts on the first chain, with the leader told to propose.
LEMMA FirstCommittee == Init => IInv
<1> SUFFICES ASSUME Init PROVE IInv  BY Zenon
<1> DEFINE h == [view |-> 1, leader |-> 1, nonce |-> 0]
           c == FirstChain
<1>1. 1 \in Node /\ h \in Headers  BY CommitteeAssumption DEF Node, Headers
<1>2. c = << h >>  BY Zenon DEF FirstChain
<1> HIDE DEF h
<1>3. c \in Seq(Headers) /\ Len(c) = 1 /\ c[1] = h  BY <1>1, <1>2
<1>4. IsChain(c) /\ Number(c) = 1 /\ Header(c).view = 1 /\ Header(c).leader = 1
  BY <1>3 DEF IsChain, Number, Header, h
<1> HIDE DEF c
<1>5. c \in BlocksOf(c)  BY <1>4, ChainItself, Zenon
<1> DEFINE sigs == Put(<< >>, 1, Node)
<1>6. DOMAIN sigs = 1..1 /\ sigs[1] = Node
  BY NoVoters, SMTT(20) DEF Put, NoVotes
<1> HIDE DEF sigs
<1>7. ASSUME NEW n \in Node
      PROVE  /\ DOMAIN node[n] = Fields /\ node[n].me = n /\ node[n].mode = "Normal"
             /\ node[n].blockNum = 2 /\ node[n].view = 2 /\ node[n].leader = 1
             /\ node[n].hash = NoBlock /\ node[n].commit = NoVotes /\ node[n].commitBitmap = {}
             /\ node[n].log = EmptyLog /\ node[n].chain = c /\ node[n].commitSigs = sigs
             /\ node[n].ready = (IF 1 = n THEN 1 ELSE 0) /\ node[n].proposed = 0
             /\ node[n].due = {} /\ node[n].validating = {} /\ node[n].replaying = {}
             /\ node[n].inserting = {} /\ node[n].grace = {} /\ ~node[n].downloading
             /\ ~node[n].startedCh /\ ~node[n].finishedCh /\ node[n].out = {}
  <2>1. node[n] = Fresh(n, c, Node)  BY Zenon DEF Init, c
  <2> QED  BY <2>1, <1>4 DEF Fresh, Fields, sigs
<1>8. ASSUME NEW n \in Node PROVE Signatures(node[n])
  <2>1. node[n].chain = c /\ node[n].commitSigs = sigs  BY <1>7, Zenon
  <2> QED  BY <2>1, <1>4, <1>6, AllAreQuorum, SMTT(20) DEF Signatures
<1>9. SoundLog(EmptyLog, c, c) /\ DOMAIN EmptyLog = {"messages", "blocks", "verifiedBlocks"}
  BY FS_EmptySet, Zenon DEF SoundLog, EmptyLog
<1>10. Leader(node[1]) /\ Top(node[1]) = c
  <2>1. Between(node[1])  BY <1>1, <1>4, <1>7, SMTT(20) DEF Between
  <2>2. Ready(node[1])  BY <2>1, <1>1, <1>7, Zenon DEF Ready
  <2>3. Phases(node[1])  BY <2>2, Zenon DEF Phases
  <2> QED  BY <2>3, <1>1, <1>4, <1>7, <1>8, <1>9, SMTT(20) DEF Leader, Top
<1>11. ASSUME NEW n \in Node PROVE Follower(n, node[n], c, c)
  BY <1>4, <1>5, <1>7, <1>8, <1>9, SMTT(20) DEF Follower
<1>12. DOMAIN node = Node /\ msgs = {} /\ env \in Scenarios  BY Zenon DEF Init
<1> QED  BY <1>1, <1>7, <1>10, <1>11, <1>12, Zenon DEF IInv, Committee

\* No step ends it.
LEMMA CommitteeMoves ==
  ASSUME Calm, IInv, [Next]_vars
  PROVE  IInv' /\ (Moves(node, node') \/ node' = node)
<1>1. CASE UNCHANGED vars  BY <1>1, Zenon DEF vars, IInv
<1>2. CASE Next
  <2>1. PICK n \in Node : GoodSteps(n)  BY <1>2, EveryStep, Zenon
  <2>2. PICK u : Become(n, u) /\ Good(n, u)  BY <2>1, Zenon DEF GoodSteps
  <2>3. /\ node' = [node EXCEPT ![n] = [u EXCEPT !.out = {}]] /\ msgs' = msgs \cup u.out
        /\ env' = env
    BY <2>2, Zenon DEF Become
  <2>4. Committee(node, msgs) /\ env \in Scenarios  BY Zenon DEF IInv
  <2>5. Committee(node', msgs') /\ Moves(node, node')
    <3>1. CASE n = 1
      <4>1. Heads(node[1], u) /\ Speaks(u)  BY <2>2, <3>1, Zenon DEF Good
      <4>2. node' = [node EXCEPT ![1] = [u EXCEPT !.out = {}]]  BY <2>3, <3>1, Zenon
      <4> QED  BY <4>1, <4>2, <2>3, <2>4, LeaderMoves, Zenon
    <3>2. CASE n # 1
      <4>1. Follows(n, node[n], u, node[1].chain, Top(node[1]))  BY <2>2, <3>2, Zenon DEF Good
      <4>2. \A nd2, ms2 : /\ nd2 = [node EXCEPT ![n] = [u EXCEPT !.out = {}]]
                          /\ ms2 = msgs \cup u.out
                          => Committee(nd2, ms2) /\ Moves(node, nd2)
        BY <4>1, <2>4, <3>2, FollowerMoves, Zenon
      <4> QED  BY <4>2, <2>3, Zenon
    <3> QED  BY <3>1, <3>2, Zenon
  <2> QED  BY <2>3, <2>4, <2>5, Zenon DEF IInv
<1> QED  BY <1>1, <1>2, Zenon

(***************************************************************************)
(* What the committee does.                                                 *)
(***************************************************************************)
\* The commit signatures a node stores with its blocks are those of a quorum, whether
\* commitBlock, the pre-commit, the downloader or WriteCommitSig stored them.
THEOREM StoredQuorums ==
  ASSUME Calm
  PROVE  Spec => []CommitSigQuorum
<1>1. IInv => CommitSigQuorum
  <2> SUFFICES ASSUME IInv, NEW n \in Node, NEW k \in DOMAIN node[n].commitSigs
               PROVE  IsQuorum(node[n].commitSigs[k])
    BY Zenon DEF CommitSigQuorum
  <2>1. Signatures(node[n])  BY CommitteeHas, Zenon DEF IInv
  <2> QED  BY <2>1, Zenon DEF Signatures
<1>2. IInv /\ [Next]_vars => IInv'  BY CommitteeMoves, Zenon
<1> QED  BY <1>1, <1>2, FirstCommittee, PTL DEF Spec

\* A commit signature is replaced only by one of as many signers or more: by the one
\* of finalCommit, by that of a later COMMITTED (overrideCommitSig), in whatever order
\* the two COMMITTED messages of a round arrive; and a restart keeps it.
THEOREM SignaturesKept ==
  ASSUME Calm
  PROVE  Spec => CommitSigKept
<1>1. ASSUME IInv, [Next]_vars PROVE CommitSigKeptStep
  <2>1. Moves(node, node') \/ node' = node  BY <1>1, CommitteeMoves, Zenon
  <2>2. \A n \in Node : Signatures(node[n])  BY <1>1, CommitteeHas, Zenon DEF IInv
  <2>3. \A n \in Node : Keeps(node[n], node[n])  BY <2>2, SameSignatures, Zenon
  <2>4. \A n \in Node : Keeps(node[n], node'[n])  BY <2>1, <2>3, Zenon DEF Moves
  <2> QED  BY <2>4, Zenon DEF CommitSigKeptStep, Keeps
<1>2. IInv /\ [Next]_vars => [CommitSigKeptStep]_vars  BY <1>1, Zenon
<1>3. IInv /\ [Next]_vars => IInv'  BY CommitteeMoves, Zenon
<1> QED  BY <1>2, <1>3, FirstCommittee, PTL DEF Spec, CommitSigKept

\* No node works on a height whose parent it has not inserted, and a node that works on
\* the next height is in a later view than its current block, also when the downloader
\* has inserted blocks under the consensus (setupForNewConsensus, syncReadyChan).
THEOREM RoundsMatch ==
  ASSUME Calm
  PROVE  Spec => []RoundMatchesChain
<1>1. IInv => RoundMatchesChain
  <2> SUFFICES ASSUME IInv, NEW n \in Node
               PROVE  LET s == node[n] IN
                      /\ s.blockNum <= Number(s.chain) + 1
                      /\ s.mode = "Normal" /\ s.blockNum = Number(s.chain) + 1
                           => s.view > Header(s.chain).view
    BY Zenon DEF RoundMatchesChain
  <2> DEFINE s == node[n]
  <2>1. CASE n = 1
    <3>1. Leader(s)  BY <2>1, CommitteeHas, Zenon DEF IInv
    <3>2. Number(s.chain) \in Nat /\ Header(s.chain).view = Number(s.chain)
      BY <3>1, LeaderFrontier, Zenon
    <3>3. s.view = s.blockNum /\ s.blockNum \in {Number(s.chain), Number(s.chain) + 1}
      BY <3>1, Zenon DEF Leader, Phases, Ready, Proposed, Collecting, Committing, PreCommitted,
                  Finished, Between, Voting
    <3> HIDE DEF s
    <3> QED  BY <3>2, <3>3 DEF s
  <2>2. CASE n # 1
    <3>1. Frontier(node[1].chain, Top(node[1])) /\ Follower(n, s, node[1].chain, Top(node[1]))
      BY <2>2, CommitteeHas, Zenon DEF IInv
    <3>2. Number(s.chain) \in Nat /\ Header(s.chain).view = Number(s.chain)
      BY <3>1, FollowerHeader
    <3>3. s.view = s.blockNum /\ s.blockNum <= Number(s.chain) + 1  BY <3>1, Zenon DEF Follower
    <3> HIDE DEF s
    <3> QED  BY <3>2, <3>3 DEF s
  <2> QED  BY <2>1, <2>2, Zenon
<1>2. IInv /\ [Next]_vars => IInv'  BY CommitteeMoves, Zenon
<1> QED  BY <1>1, <1>2, FirstCommittee, PTL DEF Spec

\* The PREPARED messages of a height and a view certify one block, however often the
\* votes are repeated and whenever they arrive (announce, didReachPrepareQuorum).
THEOREM OneCertificate ==
  ASSUME Calm
  PROVE  Spec => []SingleCertificate
<1>1. IInv => SingleCertificate
  <2> SUFFICES ASSUME IInv, NEW x \in Certificates, NEW y \in Certificates, x.num = y.num
               PROVE  x.block = y.block
    BY Zenon DEF SingleCertificate
  <2> DEFINE c == node[1].chain
             t == Top(node[1])
  <2>1. IsChain(t) /\ \A m \in msgs : Sound(m, c, t)  BY CommitteeHas, Zenon DEF IInv, Frontier
  <2>2. x \in msgs /\ y \in msgs /\ x.type \in LeaderTypes /\ y.type \in LeaderTypes
    BY Zenon DEF Certificates, Sent, LeaderTypes
  <2> HIDE DEF c, t
  <2>3. FromRound(x, c, t) /\ FromRound(y, c, t)  BY <2>1, <2>2, SoundTypes, Zenon
  <2> QED  BY <2>1, <2>3, SameNumber, Zenon DEF FromRound
<1>2. IInv /\ [Next]_vars => IInv'  BY CommitteeMoves, Zenon
<1> QED  BY <1>1, <1>2, FirstCommittee, PTL DEF Spec

\* A COMMIT signs the block it names: the block validateNewBlock returns is the one
\* whose hash onPrepared has put into the state.
THEOREM CommitsSignTheirHash ==
  ASSUME Calm
  PROVE  Spec => []CommitSignsItsHash
<1>1. IInv => CommitSignsItsHash
  <2> SUFFICES ASSUME IInv, NEW m \in msgs, m.type = "COMMIT" PROVE m.signed = m.block
    BY Zenon DEF CommitSignsItsHash, Sent
  <2>1. Sound(m, node[1].chain, Top(node[1]))  BY CommitteeHas, Zenon DEF IInv
  <2> QED  BY <2>1, Zenon DEF Sound, FromRound, Vote, LeaderTypes
<1>2. IInv /\ [Next]_vars => IInv'  BY CommitteeMoves, Zenon
<1> QED  BY <1>1, <1>2, FirstCommittee, PTL DEF Spec

(***************************************************************************)
(* The committee implements ChainAgreement.                                 *)
(***************************************************************************)
\* The longest chain, and the chains, of a committee.
Longest(nd) == CHOOSE c \in {nd[n].chain : n \in Node} :
                 \A p \in Node : Number(nd[p].chain) <= Number(c)

Chains(nd) == [n \in Node |-> nd[n].chain]

\* The leader has the longest chain.
LEMMA LeaderDecides ==
  ASSUME NEW nd, NEW ms, Committee(nd, ms)
  PROVE  Longest(nd) = nd[1].chain
<1> DEFINE P(c) == \A p \in Node : Number(nd[p].chain) <= Number(c)
           S == {nd[n].chain : n \in Node}
<1>1. /\ 1 \in Node /\ IsChain(nd[1].chain)
      /\ \A n \in Node : /\ nd[n].chain \in BlocksOf(nd[1].chain) /\ Number(nd[n].chain) \in Nat
                         /\ Number(nd[n].chain) <= Number(nd[1].chain)
  BY CommitteeHas, Zenon
<1>2. nd[1].chain \in S /\ P(nd[1].chain)  BY <1>1, Zenon
<1>3. Longest(nd) \in S /\ P(Longest(nd))
  <2>1. Longest(nd) = CHOOSE c \in S : P(c)  BY Zenon DEF Longest
  <2> HIDE DEF S, P
  <2> QED  BY <2>1, <1>2, Zenon
<1>4. PICK n \in Node : Longest(nd) = nd[n].chain  BY <1>3, Zenon
<1>5. Number(nd[n].chain) = Number(nd[1].chain)  BY <1>1, <1>3, <1>4, SMTT(20)
<1> QED  BY <1>1, <1>4, <1>5, SameNumber, Zenon

\* The move of a node decides the next block, teaches the node decided blocks, or
\* leaves the chains alone.
LEMMA MoveDecides ==
  ASSUME NEW nd, NEW ms, Committee(nd, ms), NEW nd2, NEW ms2, Committee(nd2, ms2),
         Moves(nd, nd2)
  PROVE  LET c == nd[1].chain
             d == nd2[1].chain
             f == Chains(nd)
             g == Chains(nd2)
         IN \/ /\ f[1] = c /\ d \in Seq(Headers) /\ Len(d) = Len(c) + 1
               /\ \A i \in 1..Len(c) : c[i] = d[i]
               /\ g = [f EXCEPT ![1] = d] /\ g # f
            \/ /\ d = c /\ g # f
               /\ \E n \in Node : \E k \in (Len(f[n]) + 1)..Len(c) :
                    g = [f EXCEPT ![n] = SubSeq(c, 1, k)]
            \/ d = c /\ g = f
<1> DEFINE c == nd[1].chain
           d == nd2[1].chain
           f == Chains(nd)
           g == Chains(nd2)
<1>1. PICK n \in Node :
        /\ \A p \in Node : p # n => nd2[p] = nd[p]
        /\ Keeps(nd[n], nd2[n])
        /\ n = 1 => c \in BlocksOf(d) /\ Number(d) <= Number(c) + 1
  BY Zenon DEF Moves
<1>2. /\ 1 \in Node /\ IsChain(c) /\ IsChain(d)
      /\ \A p \in Node :
           /\ Signatures(nd[p]) /\ nd[p].chain \in BlocksOf(c) /\ IsChain(nd[p].chain)
           /\ Signatures(nd2[p]) /\ nd2[p].chain \in BlocksOf(d) /\ IsChain(nd2[p].chain)
  BY CommitteeHas, Zenon
<1>3. /\ f = [p \in Node |-> nd[p].chain] /\ g = [p \in Node |-> nd2[p].chain]
      /\ g = [f EXCEPT ![n] = nd2[n].chain]
  <2>1. f = [p \in Node |-> nd[p].chain] /\ g = [p \in Node |-> nd2[p].chain]
    BY Zenon DEF Chains
  <2> HIDE DEF f, g
  <2> QED  BY <2>1, <1>1, Zenon
<1> HIDE DEF f, g
<1>4. CASE nd2[n].chain = nd[n].chain
  <2>1. g = f  BY <1>3, <1>4, Zenon
  <2>2. d = c  BY <1>1, <1>2, <1>4, Zenon
  <2> QED  BY <2>1, <2>2, Zenon DEF f, g
<1>5. CASE nd2[n].chain # nd[n].chain
  <2>1. g # f  BY <1>3, <1>5, Zenon
  <2>2. CASE n = 1
    <3>1. /\ c \in BlocksOf(d) /\ Number(d) <= Number(c) + 1 /\ c # d
          /\ d \in Seq(Headers) /\ c \in Seq(Headers)
      BY <1>1, <1>2, <1>5, <2>2, Zenon DEF IsChain
    <3>2. d \in BlocksOf(d) /\ c = SubSeq(d, 1, Number(c)) /\ Number(c) \in 1..Number(d)
      BY <1>2, <3>1, BlockFacts, ChainItself, Zenon
    <3>3. Number(c) # Number(d)  BY <1>2, <3>1, <3>2, SameNumber, Zenon
    <3>4. /\ Len(c) \in Nat /\ Len(d) = Len(c) + 1 /\ Number(c) = Len(c)
      <4>1. Number(c) = Len(c) /\ Number(d) = Len(d)  BY Zenon DEF Number
      <4>2. Number(c) \in 1..Number(d) /\ Number(d) <= Number(c) + 1  BY <3>1, <3>2, Zenon
      <4>3. Len(c) \in Nat /\ Len(d) \in Nat  BY <3>1
      <4> QED  BY <4>1, <4>2, <4>3, <3>3, SMTT(20)
    <3>5. \A i \in 1..Len(c) : c[i] = d[i]
      <4>1. Len(c) \in Nat /\ Len(c) <= Len(d) /\ c = SubSeq(d, 1, Len(c))
        <5>1. c = SubSeq(d, 1, Len(c))  BY <3>2, <3>4, Zenon
        <5>2. Len(c) <= Len(c) + 1  BY <3>4
        <5> QED  BY <5>1, <5>2, <3>4, Zenon
      <4> DEFINE k == Len(c)
      <4>2. \A i \in 1..k : SubSeq(d, 1, k)[i] = d[i]  BY <3>1, <4>1, SMTT(20)
      <4> QED  BY <4>1, <4>2, Zenon
    <3>6. f[1] = c /\ g = [f EXCEPT ![1] = d]  BY <1>2, <1>3, <2>2, Zenon
    <3> QED  BY <2>1, <3>1, <3>4, <3>5, <3>6, Zenon DEF f, g
  <2>3. CASE n # 1
    <3> DEFINE a == nd[n].chain
               b == nd2[n].chain
    <3>1. d = c  BY <1>1, <1>2, <2>3, Zenon
    <3>2. a \in BlocksOf(c) /\ b \in BlocksOf(c) /\ a # b  BY <1>2, <1>5, <3>1, Zenon
    <3>3. /\ b = SubSeq(c, 1, Number(b)) /\ Number(a) = Len(a) /\ Number(b) \in 1..Number(c)
          /\ Number(a) \in Nat
      BY <1>2, <3>2, BlockFacts, SMTT(20)
    <3>4. Number(a) <= Number(b)
      <4>1. DOMAIN nd[n].commitSigs = 1..Number(a) /\ DOMAIN nd2[n].commitSigs = 1..Number(b)
        BY <1>2, Zenon DEF Signatures
      <4>2. \A k \in 1..Number(a) : k \in 1..Number(b)  BY <4>1, <1>1, Zenon DEF Keeps
      <4> QED  BY <4>2, <3>3, SMTT(20)
    <3>5. Number(a) # Number(b)  BY <1>2, <3>2, SameNumber, Zenon
    <3>6. f[n] = a /\ g = [f EXCEPT ![n] = b]  BY <1>3, Zenon
    <3>7. Number(b) \in (Len(f[n]) + 1)..Len(c)  BY <3>3, <3>4, <3>5, <3>6, SMTT(20) DEF Number
    <3>8. g = [f EXCEPT ![n] = SubSeq(c, 1, Number(b))]  BY <3>3, <3>6, Zenon
    <3>9. \E k \in (Len(f[n]) + 1)..Len(c) : g = [f EXCEPT ![n] = SubSeq(c, 1, k)]
      BY <3>7, <3>8, Zenon
    <3> QED  BY <2>1, <3>1, <3>9, Zenon DEF f, g
  <2> QED  BY <2>2, <2>3, Zenon
<1> QED  BY <1>4, <1>5, Zenon

\* The committee implements ChainAgreement, for every committee, every number of blocks
\* and every scenario without a change of view and without a restart of the leader:
\* commitBlock, the pre-commit and the downloader only decide a next block on top of
\* the longest chain or insert blocks that another node has decided, in their order.
THEOREM CommitteeAgrees ==
  ASSUME Calm
  PROVE  Spec => ImplementsAgreement
<1>1. Init => Abstract!Init
  <2> SUFFICES ASSUME Init PROVE Abstract!Init  BY Zenon
  <2>1. Committee(node, msgs)  BY FirstCommittee, Zenon DEF IInv
  <2>2. Decided = Longest(node)  BY Zenon DEF Decided, Longest
  <2>3. Decided = node[1].chain  BY <2>1, <2>2, LeaderDecides, Zenon
  <2>4. IsChain(node[1].chain) /\ 1 \in Node  BY <2>1, CommitteeHas, Zenon
  <2>5. \A n \in Node : node[n].chain = FirstChain  BY Zenon DEF Init, Fresh
  <2>6. Decided = FirstChain /\ Decided \in Seq(Headers)  BY <2>3, <2>4, <2>5, Zenon DEF IsChain
  <2>7. Len(Decided) = 1  BY <2>6, Zenon DEF FirstChain
  <2> HIDE DEF Decided
  <2>8. [n \in Node |-> node[n].chain] = [n \in Node |-> Decided]  BY <2>5, <2>6, Zenon
  <2> QED  BY <2>6, <2>7, <2>8, Zenon DEF Abstract!Init, Headers
<1>2. ASSUME IInv, [Next]_vars PROVE [Abstract!Next]_Abstract!vars
  <2>1. Committee(node, msgs)  BY <1>2, Zenon DEF IInv
  <2>2. IInv' /\ (Moves(node, node') \/ node' = node)  BY <1>2, CommitteeMoves, Zenon
  <2>3. Committee(node', msgs')  BY <2>2, Zenon DEF IInv
  <2>4. Decided = Longest(node) /\ Decided' = Longest(node')  BY Zenon DEF Decided, Longest
  <2> DEFINE c == node[1].chain
             d == node'[1].chain
             f == Chains(node)
             g == Chains(node')
  <2>5. Decided = c /\ Decided' = d  BY <2>1, <2>3, <2>4, LeaderDecides, Zenon
  <2>6. /\ [n \in Node |-> node[n].chain] = f
        /\ [n \in Node |-> node[n].chain]' = g
    BY Zenon DEF Chains
  <2>7. 1 \in Node  BY <2>1, CommitteeHas, Zenon
  <2>8. CASE node' = node
    <3>1. g = f /\ d = c  BY <2>8, Zenon
    <3> QED  BY <3>1, <2>5, <2>6, Zenon DEF Abstract!vars
  <2>9. CASE Moves(node, node')
    <3>1. \/ /\ f[1] = c /\ d \in Seq(Headers) /\ Len(d) = Len(c) + 1
             /\ \A i \in 1..Len(c) : c[i] = d[i]
             /\ g = [f EXCEPT ![1] = d] /\ g # f
          \/ /\ d = c /\ g # f
             /\ \E n \in Node : \E k \in (Len(f[n]) + 1)..Len(c) :
                  g = [f EXCEPT ![n] = SubSeq(c, 1, k)]
          \/ d = c /\ g = f
      BY <2>1, <2>3, <2>9, MoveDecides, Zenon
    <3>2. Len(c) \in Nat
      BY <2>1, CommitteeHas DEF IsChain
    <3> HIDE DEF c, d, f, g
    <3>3. ASSUME f[1] = c, d \in Seq(Headers), Len(d) = Len(c) + 1,
                 \A i \in 1..Len(c) : c[i] = d[i], g = [f EXCEPT ![1] = d], g # f
          PROVE  Abstract!Next
      <4>1. Abstract!Prefix(c, d)  BY <3>2, <3>3 DEF Abstract!Prefix
      <4>2. Abstract!Decide(1)
        BY <4>1, <3>3, <2>5, <2>6, Zenon DEF Abstract!Decide, Headers
      <4> QED  BY <4>2, <3>3, <2>6, <2>7, Zenon DEF Abstract!Next
    <3>4. ASSUME d = c, g # f, NEW n \in Node, NEW k \in (Len(f[n]) + 1)..Len(c),
                 g = [f EXCEPT ![n] = SubSeq(c, 1, k)]
          PROVE  Abstract!Next
      <4>1. Abstract!Learn(n)
        BY <3>4, <2>5, <2>6, Zenon DEF Abstract!Learn
      <4> QED  BY <4>1, <3>4, <2>6, Zenon DEF Abstract!Next
    <3>5. ASSUME d = c, g = f PROVE UNCHANGED Abstract!vars
      BY <3>5, <2>5, <2>6, Zenon DEF Abstract!vars
    <3> QED  BY <3>1, <3>3, <3>4, <3>5, Zenon
  <2> QED  BY <2>2, <2>8, <2>9, Zenon
<1>3. IInv /\ [Next]_vars => IInv'  BY CommitteeMoves, Zenon
<1>4. IInv /\ [Next]_vars => [Abstract!Next]_Abstract!vars  BY <1>2, Zenon
<1> QED  BY <1>1, <1>3, <1>4, FirstCommittee, PTL DEF Spec, ImplementsAgreement, Abstract!Spec

\* Two nodes never have different blocks at one height.
THEOREM NodesAgree ==
  ASSUME Calm
  PROVE  Spec => []Agreement
<1>1. IInv => Agreement
  <2> SUFFICES ASSUME IInv, NEW n \in Node, NEW p \in Node
               PROVE  InChain(node[n], node[p].chain) \/ InChain(node[p], node[n].chain)
    BY Zenon DEF Agreement
  <2> DEFINE c == node[1].chain
             a == node[n].chain
             b == node[p].chain
  <2>1. IsChain(c) /\ a \in BlocksOf(c) /\ b \in BlocksOf(c)  BY CommitteeHas, Zenon DEF IInv
  <2> HIDE DEF c, a, b
  <2>2. /\ IsChain(a) /\ Number(a) \in Nat /\ IsChain(b) /\ Number(b) \in Nat
    BY <2>1, BlockFacts, SMTT(20)
  <2>3. Number(b) <= Number(a) => b \in BlocksOf(a)  BY <2>1, BlocksOfBlock, Zenon
  <2>4. Number(a) <= Number(b) => a \in BlocksOf(b)  BY <2>1, BlocksOfBlock, Zenon
  <2>5. b \in BlocksOf(a) => b = SubSeq(a, 1, Number(b))  BY <2>2, BlockFacts, Zenon
  <2>6. a \in BlocksOf(b) => a = SubSeq(b, 1, Number(a))  BY <2>2, BlockFacts, Zenon
  <2> QED  BY <2>2, <2>3, <2>4, <2>5, <2>6, SMTT(20) DEF InChain, a, b
<1>2. IInv /\ [Next]_vars => IInv'  BY CommitteeMoves, Zenon
<1> QED  BY <1>1, <1>2, FirstCommittee, PTL DEF Spec

(***************************************************************************)
(* ChainAgreement keeps the chains of all nodes consistent, for every set   *)
(* of nodes and of blocks.  Consistent is not inductive: a node may learn   *)
(* any part of the decided chain, so the invariant is that every chain is a *)
(* prefix of the decided one.                                               *)
(***************************************************************************)
CONSTANTS Nodes, Blocks

VARIABLES decided, chain

Chain == INSTANCE ChainAgreement

PrefixInv ==
    /\ decided \in Seq(Blocks)
    /\ chain \in [Nodes -> Seq(Blocks)]
    /\ \A n \in Nodes : Chain!Prefix(chain[n], decided)

\* Two prefixes of one sequence are prefixes of one another.
LEMMA PrefixesCompare ==
    ASSUME NEW S, NEW s \in Seq(S), NEW t \in Seq(S), NEW u \in Seq(S),
           Chain!Prefix(s, u), Chain!Prefix(t, u)
    PROVE  Chain!Prefix(s, t) \/ Chain!Prefix(t, s)
<1> Len(s) \in Nat /\ Len(t) \in Nat /\ Len(u) \in Nat  OBVIOUS
<1>1. CASE Len(s) <= Len(t)  BY <1>1 DEF Chain!Prefix
<1>2. CASE Len(t) <= Len(s)  BY <1>2 DEF Chain!Prefix
<1> QED  BY <1>1, <1>2, SMTT(20)

\* A prefix of a prefix is a prefix.
LEMMA PrefixTransitive ==
    ASSUME NEW S, NEW s \in Seq(S), NEW t \in Seq(S), NEW u \in Seq(S),
           Chain!Prefix(s, t), Chain!Prefix(t, u)
    PROVE  Chain!Prefix(s, u)
BY DEF Chain!Prefix

\* The first k elements of a sequence are a prefix of it.
LEMMA SubSeqPrefix ==
    ASSUME NEW S, NEW s \in Seq(S), NEW k \in 0..Len(s)
    PROVE  SubSeq(s, 1, k) \in Seq(S) /\ Chain!Prefix(SubSeq(s, 1, k), s)
BY DEF Chain!Prefix

\* The invariant holds at first.
LEMMA PrefixesAtFirst == Chain!Init => PrefixInv
<1> SUFFICES ASSUME Chain!Init PROVE PrefixInv  BY Zenon
<1>1. decided \in Seq(Blocks) /\ chain = [n \in Nodes |-> decided]  BY Zenon DEF Chain!Init
<1>2. \A n \in Nodes : chain[n] = decided  BY <1>1, Zenon
<1>3. Chain!Prefix(decided, decided)  BY <1>1 DEF Chain!Prefix
<1>4. chain \in [Nodes -> Seq(Blocks)]  BY <1>1, Zenon
<1> QED  BY <1>1, <1>2, <1>3, <1>4, Zenon DEF PrefixInv

\* A block decided on top of the decided chain keeps every chain a prefix.
LEMMA DecideKeepsPrefixes == ASSUME PrefixInv, NEW n \in Nodes, Chain!Decide(n) PROVE PrefixInv'
<1>1. decided' \in Seq(Blocks) /\ Chain!Prefix(decided, decided')  BY Zenon DEF Chain!Decide
<1>2. chain' \in [Nodes -> Seq(Blocks)]  BY <1>1, Zenon DEF Chain!Decide, PrefixInv
<1>3. ASSUME NEW m \in Nodes PROVE Chain!Prefix(chain'[m], decided')
  <2>1. CASE m = n
    <3>1. chain'[m] = decided'  BY <2>1, Zenon DEF Chain!Decide, PrefixInv
    <3> QED  BY <3>1, <1>1, SMTT(20) DEF Chain!Prefix
  <2>2. CASE m # n
    <3>1. chain'[m] = chain[m]  BY <2>2, Zenon DEF Chain!Decide, PrefixInv
    <3>2. chain[m] \in Seq(Blocks) /\ decided \in Seq(Blocks) /\ Chain!Prefix(chain[m], decided)
          BY Zenon DEF PrefixInv
    <3> QED  BY <3>1, <3>2, <1>1, PrefixTransitive, Zenon
  <2> QED  BY <2>1, <2>2, Zenon
<1> QED  BY <1>1, <1>2, <1>3, Zenon DEF PrefixInv

\* So does a node that learns part of the decided chain.
LEMMA LearnKeepsPrefixes == ASSUME PrefixInv, NEW n \in Nodes, Chain!Learn(n) PROVE PrefixInv'
<1>1. PICK k \in (Len(chain[n]) + 1)..Len(decided) :
        chain' = [chain EXCEPT ![n] = SubSeq(decided, 1, k)]
      BY Zenon DEF Chain!Learn
<1>2. decided' = decided /\ decided \in Seq(Blocks) /\ Len(chain[n]) \in Nat
      BY DEF Chain!Learn, PrefixInv
<1>3. SubSeq(decided, 1, k) \in Seq(Blocks) /\ Chain!Prefix(SubSeq(decided, 1, k), decided)
  <2>1. k \in 0..Len(decided)  BY <1>1, <1>2
  <2> QED  BY <1>2, <2>1, SubSeqPrefix, Zenon
<1>4. chain' \in [Nodes -> Seq(Blocks)]  BY <1>1, <1>3, Zenon DEF PrefixInv
<1>5. ASSUME NEW m \in Nodes PROVE Chain!Prefix(chain'[m], decided')
  <2>1. CASE m = n  BY <2>1, <1>1, <1>2, <1>3, Zenon DEF PrefixInv
  <2>2. CASE m # n  BY <2>2, <1>1, <1>2, Zenon DEF PrefixInv
  <2> QED  BY <2>1, <2>2, Zenon
<1> QED  BY <1>2, <1>4, <1>5, Zenon DEF PrefixInv

\* Whatever is decided and learnt in whatever order, the chains of two nodes never
\* differ at one height: what ChainAgreement promises, and with ImplementsAgreement
\* what the handlers that insert blocks must keep.
THEOREM ChainsConsistent == Chain!Spec => []Chain!Consistent
<1>1. PrefixInv /\ [Chain!Next]_Chain!vars => PrefixInv'
  <2> SUFFICES ASSUME PrefixInv, [Chain!Next]_Chain!vars PROVE PrefixInv'  BY Zenon
  <2>1. CASE Chain!Next
    <3>1. PICK n \in Nodes : Chain!Decide(n) \/ Chain!Learn(n)  BY <2>1, Zenon DEF Chain!Next
    <3> QED  BY <3>1, DecideKeepsPrefixes, LearnKeepsPrefixes, Zenon
  <2>2. CASE UNCHANGED Chain!vars  BY <2>2, Zenon DEF Chain!vars, PrefixInv, Chain!Prefix
  <2> QED  BY <2>1, <2>2, Zenon
<1>2. PrefixInv => Chain!Consistent
  <2> SUFFICES ASSUME PrefixInv, NEW m \in Nodes, NEW n \in Nodes
               PROVE  Chain!Prefix(chain[m], chain[n]) \/ Chain!Prefix(chain[n], chain[m])
      BY Zenon DEF Chain!Consistent
  <2>1. chain[m] \in Seq(Blocks) /\ chain[n] \in Seq(Blocks) /\ decided \in Seq(Blocks)
        BY Zenon DEF PrefixInv
  <2>2. Chain!Prefix(chain[m], decided) /\ Chain!Prefix(chain[n], decided)  BY Zenon DEF PrefixInv
  <2> QED  BY <2>1, <2>2, PrefixesCompare, Zenon
<1> QED  BY PrefixesAtFirst, <1>1, <1>2, PTL DEF Chain!Spec
=============================================================================
