----------------------------- MODULE FBFTHandlers -----------------------------
(***************************************************************************)
(* The handlers of the normal mode: the leader's (leader.go, threshold.go), *)
(* the validators' (validator.go, checks.go) and the commit path they share *)
(* (consensus_v2.go).  What a handler starts in the background is recorded   *)
(* in the node: a validation of an announced block, a replay of COMMITTED    *)
(* messages, an insertion by the pre-commit, a grace period, a proposal.     *)
(***************************************************************************)
EXTENDS ViewChange

\* construct: an ANNOUNCE, PREPARED or COMMITTED of the current round.
LeaderMsg(s, t, body, mask, ok) ==
  [type |-> t, from |-> s.me, num |-> s.blockNum, view |-> s.view,
   block |-> s.hash, body |-> body, mask |-> mask, ok |-> ok]

LogVerified(s, m) == [s EXCEPT !.log = AddVerifiedMessage(@, m)]

(***************************************************************************)
(* The leader.                                                              *)
(***************************************************************************)
\* announce returns without sending when its own key has already voted.
announce(s, b) ==
  LET s1 == [s EXCEPT !.hash = b, !.body = b]
      m == LeaderMsg(s1, "ANNOUNCE", b, {}, TRUE)
      s2 == [LogVerified(s1, m) EXCEPT !.log = AddBlock(@, b),
                                       !.prepareBitmap = @ \cup {s.me}]
  IN IF ~IsLeader(s) THEN s1
     ELSE IF s.me \in DOMAIN s.prepare THEN s2
     ELSE Send([s2 EXCEPT !.prepare = Put(@, s.me, b)], m)

isRightBlockNumAndViewID(s, m) == m.num = s.blockNum /\ m.view = s.view

\* Variant: the leader does not log its own PREPARED.
didReachPrepareQuorumUnlogged(s) ==
  LET m == LeaderMsg(s, "PREPARED", s.body, s.prepareBitmap,
                     Verifies(s.prepare, s.prepareBitmap, s.hash))
      s2 == [s EXCEPT !.commitBitmap = @ \cup {s.me}]
  IN IF s.body = NoBlock THEN s
     ELSE IF s.me \in DOMAIN s.commit THEN s2
     ELSE Send([s2 EXCEPT !.commit = Put(@, s.me, s.body)], m)

\* didReachPrepareQuorum: PREPARED is logged, the leader's COMMIT vote signs
\* the block body it holds, and only then PREPARED is sent.
didReachPrepareQuorum(s) ==
  LET m == LeaderMsg(s, "PREPARED", s.body, s.prepareBitmap,
                     Verifies(s.prepare, s.prepareBitmap, s.hash))
      s1 == LogVerified(s, m)
      s2 == [s1 EXCEPT !.commitBitmap = @ \cup {s.me}]
  IN IF s.body = NoBlock THEN s1
     ELSE IF s.me \in DOMAIN s.commit THEN s2
     ELSE Send([s2 EXCEPT !.commit = Put(@, s.me, s.body)], m)

\* The votes that onPrepare and onCommit do not drop.
CountsPrepare(s, m) ==
  /\ isRightBlockNumAndViewID(s, m)
  /\ m.from \notin DOMAIN s.prepare
  /\ ~IsQuorum(DOMAIN s.prepare)
  /\ m.block = s.hash

CountsCommit(s, m) ==
  /\ isRightBlockNumAndViewID(s, m)
  /\ m.from \notin DOMAIN s.commit
  /\ HasBlock(s.log, m.block)
  /\ m.signed = m.block

onPrepare(s, m) ==
  LET s1 == [s EXCEPT !.prepare = Put(@, m.from, m.block),
                      !.prepareBitmap = @ \cup {m.from}]
  IN IF IsQuorum(DOMAIN s1.prepare) THEN didReachPrepareQuorum(s1) ELSE s1

\* preCommitAndPropose: with the bare quorum the leader logs COMMITTED and,
\* if the aggregate verifies, sends it and inserts the block in the background.
preCommitAndPropose(s, b) ==
  LET m == LeaderMsg(s, "COMMITTED", NoBlock, s.commitBitmap,
                     Verifies(s.commit, s.commitBitmap, s.hash))
      s1 == LogVerified(s, m)
  IN IF Verifies(s.commit, s.commitBitmap, b)
     THEN [s1 EXCEPT !.inserting = @ \cup {[msg |-> m, block |-> b]}]
     ELSE s1

\* Variant: the quorum of the prepare phase is asked for.
onCommitWrongPhase(s, m) ==
  LET s1 == [s EXCEPT !.commit = Put(@, m.from, m.block),
                      !.commitBitmap = @ \cup {m.from}]
      s2 == [s1 EXCEPT !.log = MarkBlockVerified(@, m.block)]
  IN IF ~IsQuorum(DOMAIN s.commit) /\ IsQuorum(DOMAIN s.prepare)
     THEN [preCommitAndPropose(s2, m.block) EXCEPT !.grace = @ \cup {s.view}]
     ELSE s1

onCommit(s, m) ==
  LET s1 == [s EXCEPT !.commit = Put(@, m.from, m.block),
                      !.commitBitmap = @ \cup {m.from}]
      s2 == [s1 EXCEPT !.log = MarkBlockVerified(@, m.block)]
  IN IF ~IsQuorum(DOMAIN s.commit) /\ IsQuorum(DOMAIN s1.commit)
     THEN [preCommitAndPropose(s2, m.block) EXCEPT !.grace = @ \cup {s.view}]
     ELSE s1

\* The goroutine of preCommitAndPropose, which does not hold the lock while
\* it sends and inserts.
preCommit(s, job) ==
  LET s1 == Send([s EXCEPT !.inserting = @ \ {job}], job.msg)
      s2 == IF InChain(s, job.block) THEN s1
            ELSE InsertChain(s1, job.block, job.msg.mask)
  IN IF InChain(s, job.block) \/ CanInsert(s, job.block)
     THEN ReadySignal(Start(s2, "consensus"))
     ELSE s1

\* finalCommit, after the grace period; the delayed send counts as a send.
finalCommit(s) ==
  LET m == LeaderMsg(s, "COMMITTED", NoBlock, s.commitBitmap,
                     Verifies(s.commit, s.commitBitmap, s.hash))
      b == s.hash
      s1 == LogVerified(s, m)
      s2 == Send([s1 EXCEPT !.commitSigs = Put(@, Number(b), s.commitBitmap)], m)
      s3 == IF CanCommit(s2, b) THEN commitBlock(s2, b, m) ELSE s2
  IN IF ~IsLeader(s) THEN s
     ELSE IF ~HasBlock(s1.log, b) \/ ~m.ok THEN s1
     ELSE Stop(s3, "bootstrap")

endOfGrace(s, view) ==
  LET s1 == [s EXCEPT !.grace = @ \ {view}] IN
  IF view = s.view THEN finalCommit(s1) ELSE s1

\* WaitForConsensusReadyV2 and BlockChannel: a leader builds a block on the
\* current one in its current view and announces it when the block is due; a
\* block older than the round is dropped, and so is the signal of a node that
\* is not leader any more.
proposal(s) ==
  Append(s.chain, [view |-> s.view, leader |-> s.me, nonce |-> s.proposed])

propose(s) ==
  LET s1 == [s EXCEPT !.ready = @ - 1]
      s2 == [s1 EXCEPT !.proposed = @ + 1]
  IN IF ~IsLeader(s) THEN s1
     ELSE IF Number(proposal(s)) < s.blockNum THEN s2
     ELSE [s2 EXCEPT !.due = @ \cup {proposal(s)}]

(***************************************************************************)
(* The validators.                                                          *)
(***************************************************************************)
PrepareMsg(s) ==
  [type |-> "PREPARE", from |-> s.me, num |-> s.blockNum, view |-> s.view,
   block |-> s.hash]

\* A logged ANNOUNCE of the same height and view, if any; the code looks at
\* the first in the iteration order of a Go map.
AnnounceChoices(s, m) ==
  LET found == GetMessagesByTypeSeqView(s.log, "ANNOUNCE", m.num, m.view)
  IN IF found = {} THEN {{}} ELSE {{x} : x \in found}

\* onAnnounceSanityChecks: a second block of one leader in one view starts a
\* view change.
afterAnnounceChecks(s, m) ==
  UNION {IF /\ s.mode # "ViewChanging"
            /\ \E x \in first : x.block # m.block /\ x.from = m.from
         THEN startViewChange(s) ELSE {s}
         : first \in AnnounceChoices(s, m)}

isRightBlockNumCheck(s, m) ==
  m.num >= s.blockNum /\ m.num - s.blockNum <= MaxBlockNumDiff

\* onAnnounce, once the sanity checks have been made.  The PREPARE is sent
\* before the block is validated.
announced(s, m) ==
  LET s1 == [LogVerified(s, m) EXCEPT !.hash = m.block]
      behind == s.mode = "ViewChanging" /\ m.num > s.blockNum
  IN IF ~isRightBlockNumCheck(s, m)
     THEN IF behind THEN spinUpStateSync(s) ELSE s
     ELSE IF s.mode = "ViewChanging" \/ m.view # s.view THEN s1
     ELSE [Send(s1, PrepareMsg(s1)) EXCEPT !.validating = @ \cup {m}]

onAnnounce(s, m) == {announced(s1, m) : s1 \in afterAnnounceChecks(s, m)}

\* validateNewBlock and the block it returns, NoBlock on error.  A block that
\* is already verified is returned before the message is logged.
newBlockSanityChecks(s, m) ==
  Number(m.body) = m.num /\ m.num >= s.blockNum /\ m.body = m.block

\* Variant: the message is never logged.
validateNewBlockUnlogged(s, m) ==
  LET s1 == [s EXCEPT !.log = AddBlock(@, m.body)]
      s2 == [s1 EXCEPT !.body = m.body]
  IN IF IsBlockVerified(s.log, m.block) \/ m.body = NoBlock THEN s
     ELSE IF ~newBlockSanityChecks(s, m) THEN s1
     ELSE IF CanVerify(s2, m.body) THEN verifyBlock(s2, m.body) ELSE s2

validateNewBlock(s, m) ==
  LET s1 == [s EXCEPT !.log = AddBlock(@, m.body)]
      s2 == [LogVerified(s1, m) EXCEPT !.body = m.body]
  IN IF IsBlockVerified(s.log, m.block) \/ m.body = NoBlock THEN s
     ELSE IF ~newBlockSanityChecks(s, m) THEN s1
     ELSE IF CanVerify(s2, m.body) THEN verifyBlock(s2, m.body) ELSE s2

validatedBlock(s, m) ==
  CASE IsBlockVerified(s.log, m.block) ->
         IF HasBlock(s.log, m.block) THEN m.block ELSE m.body
    [] newBlockSanityChecks(s, m) /\ CanVerify(s, m.body) -> m.body
    [] OTHER -> NoBlock

\* onPrepared: a node that is behind starts a sync and goes on; an invalid
\* block is only reported, and then no COMMIT is sent.
onPrepared(s, m) ==
  LET s1 == IF m.num > s.blockNum THEN spinUpStateSync(s) ELSE s
      s2 == validateNewBlock(s1, m)
      b == validatedBlock(s1, m)
      s3 == [s2 EXCEPT !.prepareBitmap = m.mask, !.hash = m.block]
      s4 == IF s3.mode = "Normal" /\ b # NoBlock
            THEN Send(s3, CommitMsg(s3, b)) ELSE s3
  IN IF m.num < s.blockNum THEN s
     ELSE IF ~IsQuorum(m.mask) \/ ~m.ok THEN s1
     ELSE IF m.view # s.view \/ m.num > s.blockNum THEN s2
     ELSE IF b = NoBlock THEN s4
     ELSE [s4 EXCEPT !.replaying = @ \cup {b}]

(***************************************************************************)
(* Committing from the log.                                                 *)
(***************************************************************************)
\* The committed messages of the log from number bn up to the first gap, one
\* per height, as the code may pick them.
getLastMileBlocksAndMsg(log, bn) ==
  LET found(i) == GetCommittedBlockAndMsgsFromNumber(log, bn + i - 1)
      lengths == {n \in 0..Cardinality(log.messages) :
                    (\A i \in 1..n : found(i) # {}) /\ found(n + 1) = {}}
  IN UNION {{q \in [1..n -> log.messages] : \A i \in 1..n : q[i] \in found(i)}
            : n \in lengths}

\* A committed block takes a node out of the view change; what it collected
\* for the view change stays.
postCatchup(s, t) ==
  IF s.blockNum < t.blockNum /\ t.mode = "ViewChanging"
  THEN Stop([t EXCEPT !.mode = "Normal"], "viewchange") ELSE t

\* The blocks are committed one after the other, up to the first that fails.
catchUp(e, m) ==
  IF e.more /\ CanVerify(e.node, m.block) /\ CanCommit(e.node, m.block)
  THEN [node |-> commitBlock(verifyBlock(e.node, m.block), m.block, m), more |-> TRUE]
  ELSE [node |-> e.node, more |-> FALSE]

tryCatchup(s) ==
  {LET after[i \in 0..Len(q)] ==
         IF i = 0 THEN [node |-> s, more |-> TRUE] ELSE catchUp(after[i - 1], q[i])
   IN postCatchup(s, after[Len(q)].node)
   : q \in getLastMileBlocksAndMsg(s.log, s.blockNum)}

\* Variant: the number of signers is not compared.
overrideCommitSigAlways(s, m) ==
  IF ~InChain(s, m.block) \/ m.num \notin DOMAIN s.commitSigs
  THEN [s EXCEPT !.commitBitmap = m.mask]
  ELSE [s EXCEPT !.commitBitmap = s.commitSigs[m.num],
                 !.commitSigs[m.num] = m.mask]

\* The commit signature in the database is replaced by one with more signers,
\* if this is the block that was committed.  The mask is shared with
\* commitBitmap, which ends up as the one read from the database.
overrideCommitSig(s, m) ==
  IF ~InChain(s, m.block) \/ m.num \notin DOMAIN s.commitSigs
  THEN [s EXCEPT !.commitBitmap = m.mask]
  ELSE [s EXCEPT !.commitBitmap = s.commitSigs[m.num],
                 !.commitSigs[m.num] =
                    IF Cardinality(m.mask) > Cardinality(@) THEN m.mask ELSE @]

\* Variant: the consensus timer is not started after a commit.
onCommittedNoTimer(s, m) ==
  LET s1 == IF m.num > s.blockNum THEN spinUpStateSync(s) ELSE s
      s2 == [s1 EXCEPT !.log = AddNotVerifiedMessage(@, m)]
      s3 == overrideCommitSig(LogVerified(s2, m), m)
      after(t) ==
        IF m.num > t.blockNum \/ t.mode = "ViewChanging" THEN t
        ELSE Stop(t, "bootstrap")
  IN IF m.num + 1 < s.blockNum THEN {s}
     ELSE IF ~HasBlock(s.log, m.block) \/ ~IsQuorum(m.mask) \/ ~m.ok THEN {s2}
     ELSE {after(t) : t \in UNION {tryCatchup(e) : e \in {s3}}}

\* A COMMITTED is logged unverified, and again as verified if the node holds
\* the block and the signature is good.  (TLC evaluates the element of {s3} once.)
onCommitted(s, m) ==
  LET s1 == IF m.num > s.blockNum THEN spinUpStateSync(s) ELSE s
      s2 == [s1 EXCEPT !.log = AddNotVerifiedMessage(@, m)]
      s3 == overrideCommitSig(LogVerified(s2, m), m)
      after(t) ==
        IF m.num > t.blockNum \/ t.mode = "ViewChanging" THEN t
        ELSE IF s.blockNum < t.blockNum
        THEN Start(Stop(t, "bootstrap"), "consensus") ELSE Stop(t, "bootstrap")
  IN IF m.num + 1 < s.blockNum THEN {s}
     ELSE IF ~HasBlock(s.log, m.block) \/ ~IsQuorum(m.mask) \/ ~m.ok THEN {s2}
     ELSE {after(t) : t \in UNION {tryCatchup(e) : e \in {s3}}}

\* The goroutine of onPrepared: the unverified COMMITTED messages of the block
\* are handled again, in the iteration order of a Go map, until one of them
\* advances the node.
replayNext(s, e) ==
  UNION {{[node |-> t, left |-> e.left \ {m}]
          : t \in IF e.node.blockNum > s.blockNum THEN {e.node}
                  ELSE onCommitted(e.node, m)}
         : m \in e.left}

replayCommitted(s, b) ==
  LET pending == GetNotVerifiedCommittedMessages(s.log, Number(b), Header(b).view, b)
      first == [node |-> [s EXCEPT !.replaying = @ \ {b}], left |-> pending]
      after[k \in 0..Cardinality(pending)] ==
        IF k = 0 THEN {first} ELSE UNION {replayNext(s, e) : e \in after[k - 1]}
  IN {e.node : e \in after[Cardinality(pending)]}

(***************************************************************************)
(* Block synchronisation, as far as the consensus takes part in it.         *)
(***************************************************************************)
\* The blocks are inserted one after the other, up to the first that fails.
insertNext(e, m) ==
  IF e.more /\ CanInsert(e.node, m.block)
  THEN [node |-> InsertChain(verifyBlock(e.node, m.block), m.block, m.mask), more |-> TRUE]
  ELSE [node |-> e.node, more |-> FALSE]

AddConsensusLastMile(s) ==
  {LET after[i \in 0..Len(q)] ==
         IF i = 0 THEN [node |-> s, more |-> TRUE] ELSE insertNext(after[i - 1], q[i])
   IN after[Len(q)].node
   : q \in getLastMileBlocksAndMsg(s.log, Number(s.chain) + 1)}

BlocksSynchronized(s) ==
  {syncReadyChan([t EXCEPT !.finishedCh = FALSE]) : t \in AddConsensusLastMile(s)}

BlocksNotSynchronized(s) == syncNotReadyChan([s EXCEPT !.startedCh = FALSE])

\* doShortRangeSync: the two events go to two goroutines, which may handle
\* them in either order.
startSyncing(s) == [s EXCEPT !.downloading = TRUE, !.startedCh = TRUE]
finishSyncing(s) == [s EXCEPT !.downloading = FALSE, !.finishedCh = TRUE]

\* tick: in Syncing mode the timers other than bootstrap are stopped; an
\* active timer may have expired.
tick(s) ==
  LET active == IF s.mode = "Syncing" THEN s.timers \cap {"bootstrap"} ELSE s.timers
  IN {[s EXCEPT !.timers = active]}
     \cup (IF active = {} THEN {} ELSE startViewChange(s))
=============================================================================
