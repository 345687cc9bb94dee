------------------------------ MODULE FBFTState ------------------------------
(***************************************************************************)
(* The state of one consensus node and the helpers its handlers share       *)
(* (consensus.go, consensus_service.go, consensus_v2.go).                   *)
(*                                                                          *)
(* A node is a record, and a function of the source is an operator on such  *)
(* records; what a function leaves to a Go map's iteration order or to the  *)
(* clock makes it an operator that yields a set of records.  Every node     *)
(* owns one BLS key and the committee does not change, so a node, its key   *)
(* and its index in the committee are one number.                           *)
(***************************************************************************)
EXTENDS FBFTLog, Integers

CONSTANTS
  N,                \* the number of keys in the committee
  Weight,           \* the voting power of each key
  NumItcNodes,      \* NumIntelchainOperatedNodesPerShard
  MaxBlockNumDiff,  \* how far ahead an ANNOUNCE may be (checks.go:112)
  MaxViewIDDiff,    \* how far ahead a VIEWCHANGE may be (checks.go:172)
  MaxView,          \* bound: view changes above this view are not explored
  MaxProposals      \* bound: the blocks one node proposes

Node == 1..N

ASSUME CommitteeAssumption ==
  /\ N \in Nat \ {0} /\ NumItcNodes \in Nat
  /\ Weight \in [Node -> Nat] /\ \E n \in Node : Weight[n] > 0
ASSUME BoundsAssumption ==
  /\ MaxBlockNumDiff \in Nat /\ MaxViewIDDiff \in Nat /\ MaxView \in Nat
  /\ MaxProposals \in Nat \ {0}

Timers == {"consensus", "viewchange", "bootstrap"}

\* The power of a set of keys, and whether it exceeds two thirds.
Power(S) ==
  LET sum[k \in 0..N] ==
        IF k = 0 THEN 0 ELSE sum[k - 1] + (IF k \in S THEN Weight[k] ELSE 0)
  IN sum[N]
IsQuorum(S) == 3 * Power(S) > 2 * Power(Node)

\* An aggregate of the votes verifies against a bitmap and a block.
Verifies(votes, mask, b) ==
  DOMAIN votes = mask /\ \A k \in mask : votes[k] = b

NoVotes == << >>

\* The map f with the value e for the key k.
Put(f, k, e) == [x \in DOMAIN f \cup {k} |-> IF x = k THEN e ELSE f[x]]

EmptyVC == [m1Payload |-> {}, bhpSigs |-> {}, nilSigs |-> {}, viewIDSigs |-> {}]

\* A node (re)started on the chain b, whose last block has commit
\* signatures of the keys in sigs.
Fresh(n, b, sigs) ==
  [me |-> n, mode |-> "Normal", blockNum |-> Number(b) + 1,
   view |-> Header(b).view + 1, vcView |-> Header(b).view + 1,
   leader |-> Header(b).leader, hash |-> NoBlock, body |-> NoBlock,
   prepare |-> NoVotes, commit |-> NoVotes,
   prepareBitmap |-> {}, commitBitmap |-> {},
   log |-> EmptyLog, vc |-> EmptyVC, timers |-> {"bootstrap"},
   chain |-> b, commitSigs |-> Put(<< >>, Number(b), sigs), slot |-> 0,
   ready |-> IF Header(b).leader = n THEN 1 ELSE 0, proposed |-> 0,
   due |-> {}, validating |-> {}, replaying |-> {}, inserting |-> {},
   grace |-> {}, downloading |-> FALSE, startedCh |-> FALSE,
   finishedCh |-> FALSE, restarted |-> FALSE, out |-> {}]

IsLeader(s) == s.leader = s.me

Start(s, t) == [s EXCEPT !.timers = @ \cup {t}]
Stop(s, t) == [s EXCEPT !.timers = @ \ {t}]
Send(s, m) == [s EXCEPT !.out = @ \cup {m}]

\* ReadySignal: a goroutine waits for the proposer to take the signal.  Signals
\* the proposer could not answer within the bound are left out.
ReadySignal(s) ==
  IF s.ready + s.proposed < MaxProposals THEN [s EXCEPT !.ready = @ + 1] ELSE s

resetState(s) ==
  [s EXCEPT !.hash = NoBlock, !.body = NoBlock,
            !.prepare = NoVotes, !.commit = NoVotes,
            !.prepareBitmap = {}, !.commitBitmap = {}]

resetViewChangeState(s) == [s EXCEPT !.mode = "Normal", !.vc = EmptyVC]

setViewIDs(s, v) == [s EXCEPT !.view = v, !.vcView = v]

(***************************************************************************)
(* The block chain.                                                         *)
(***************************************************************************)
InChain(s, b) == /\ Number(b) <= Number(s.chain)
                 /\ SubSeq(s.chain, 1, Number(b)) = b

\* InsertChain accepts a child of the current block and stores the commit
\* signature attached to it; a new head restarts the view-change clock.
CanInsert(s, b) == Number(b) > 0 /\ Parent(b) = s.chain
InsertChain(s, b, sigs) ==
  [s EXCEPT !.chain = b, !.slot = 0,
            !.commitSigs = Put(@, Number(b), sigs)]

\* verifyBlock: already verified, or valid on top of the current block.
CanVerify(s, b) == IsBlockVerified(s.log, b) \/ CanInsert(s, b)
verifyBlock(s, b) == [s EXCEPT !.log = MarkBlockVerified(@, b)]

\* updatePublicKeys and the leader update of updateConsensusInformation: the
\* committee is the same, the leader is the coinbase of the current block,
\* and a node that becomes leader is told to propose.
updateConsensusInformation(s) ==
  LET s1 == resetState([s EXCEPT !.leader = Header(s.chain).leader])
      s2 == IF s.mode = "ViewChanging" THEN s1 ELSE resetViewChangeState(s1)
      s3 == [s2 EXCEPT !.mode = "Normal"]
  IN IF s3.leader # s.leader /\ IsLeader(s3) THEN ReadySignal(s3) ELSE s3

\* Variant: the mode is not set.
spinUpStateSyncKeepsMode(s) == [s EXCEPT !.timers = {}]

spinUpStateSync(s) == [s EXCEPT !.mode = "Syncing", !.timers = {}]

syncNotReadyChan(s) ==
  [s EXCEPT !.blockNum = Number(s.chain) + 1, !.mode = "Syncing"]

syncReadyChan(s) ==
  LET behind == s.blockNum < Number(s.chain) + 1
      s1 == IF behind
            THEN setViewIDs([s EXCEPT !.blockNum = Number(s.chain) + 1],
                            Header(s.chain).view + 1)
            ELSE s
  IN IF behind \/ s.mode = "Syncing"
     THEN Start(updateConsensusInformation(s1), "consensus")
     ELSE s

(***************************************************************************)
(* Committing a block.                                                      *)
(***************************************************************************)

\* Variant: the view is the committed one.
setupForNewConsensusSameView(s, b, m) ==
  resetState([s EXCEPT !.blockNum = Number(b) + 1, !.view = m.view,
                       !.log = PruneCacheBeforeBlock(@, Number(b))])

setupForNewConsensus(s, b, m) ==
  resetState([s EXCEPT !.blockNum = Number(b) + 1, !.view = m.view + 1,
                       !.log = PruneCacheBeforeBlock(@, Number(b))])

\* PostConsensusProcessing ends the Syncing mode of a node that is not leader.
PostConsensusProcessing(s) ==
  IF ~IsLeader(s) /\ s.mode = "Syncing"
  THEN updateConsensusInformation(s) ELSE s

CanCommit(s, b) == Number(s.chain) < Number(b) => CanInsert(s, b)
commitBlock(s, b, m) ==
  LET s1 == IF Number(s.chain) < Number(b) THEN InsertChain(s, b, m.mask) ELSE s
  IN setupForNewConsensus(PostConsensusProcessing(s1), b, m)
=============================================================================
