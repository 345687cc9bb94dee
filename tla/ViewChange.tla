------------------------------ MODULE ViewChange ------------------------------
(***************************************************************************)
(* The view change of a consensus node: view_change.go, the signature       *)
(* collection of view_change_construct.go and the messages of               *)
(* view_change_msg.go.                                                      *)
(*                                                                          *)
(* A certificate [block, mask, ok] is a prepared payload: the hash, the     *)
(* bitmap, and whether the aggregate signature verifies against both.  An   *)
(* optional certificate is a set of at most one.  The M1, M2 and M3         *)
(* signatures are sets of pairs (view, key).                                *)
(***************************************************************************)
EXTENDS FBFTState

(***************************************************************************)
(* The next view and its leader.                                            *)
(***************************************************************************)
\* getNextViewID: the view grows with the 45-second slots since the current
\* block, so on one block a node's choice never decreases; nodes time out in
\* different slots and may choose differently.
getNextViewID(s) ==
  {v \in (Header(s.chain).view + 2)..MaxView : v >= s.slot}

\* NthNextItc: keys are numbered from 1 here and from 0 in the source.
NthNextItc(key, next) ==
  LET numNodes == IF NumItcNodes <= 0 \/ NumItcNodes > N THEN N ELSE NumItcNodes
  IN ((key - 1 + next) % numNodes) + 1

getNextLeaderKey(s, view) ==
  NthNextItc(Header(s.chain).leader, view - (Header(s.chain).view + 1))

(***************************************************************************)
(* The prepared certificate a node holds.                                   *)
(***************************************************************************)
Certificate(m) == [block |-> m.block, mask |-> m.mask, ok |-> m.ok]

\* The PREPARED messages one of which the node takes as its own.
PreparedChoices(s) ==
  LET found == FindMessageByMaxViewID(
                 GetMessagesByTypeSeq(s.log, "PREPARED", s.blockNum))
  IN IF found = {} THEN {{}} ELSE {{m} : m \in found}

\* Its certificate counts if the node has the block and the block verifies.
OwnM1(s, chosen) ==
  {Certificate(m) : m \in {x \in chosen : /\ HasBlock(s.log, x.block)
                                          /\ CanVerify(s, x.block)}}

VerifyOwn(s, chosen) ==
  LET m1 == OwnM1(s, chosen) IN
  IF m1 = {} THEN s ELSE verifyBlock(s, (CHOOSE c \in m1 : TRUE).block)

\* InitPayload: the node's own M1 or M2 and M3 signatures, once per view.
InitPayload(s, view, chosen) ==
  LET own == << view, s.me >>
      m1 == OwnM1(s, chosen)
      inited == own \in s.vc.bhpSigs \cup s.vc.nilSigs
      vc1 == IF m1 = {}
             THEN [s.vc EXCEPT !.nilSigs = @ \cup {own}]
             ELSE [s.vc EXCEPT !.bhpSigs = @ \cup {own},
                               !.m1Payload = IF @ = {} THEN m1 ELSE @]
      s1 == IF inited THEN s ELSE [VerifyOwn(s, chosen) EXCEPT !.vc = vc1]
  IN [s1 EXCEPT !.vc.viewIDSigs = @ \cup {own}]

Signed(sigs, view) == {k \in Node : << view, k >> \in sigs}

\* Variant: the prepared payload is left out.
ViewChangeMsgNil(s, chosen) ==
  [type |-> "VIEWCHANGE", from |-> s.me, num |-> s.blockNum, view |-> s.vcView,
   leader |-> s.leader, m1 |-> {}]

\* constructViewChangeMessage.
ViewChangeMsg(s, chosen) ==
  [type |-> "VIEWCHANGE", from |-> s.me, num |-> s.blockNum, view |-> s.vcView,
   leader |-> s.leader, m1 |-> OwnM1(s, chosen)]

\* The node asks for view v with the certificate it has.
requestView(s, v, chosen) ==
  LET s1 == [s EXCEPT !.timers = {"viewchange"}, !.mode = "ViewChanging",
                      !.vcView = v, !.slot = v, !.leader = getNextLeaderKey(s, v)]
      s2 == InitPayload(s1, v, chosen)
  IN Send(VerifyOwn(s2, chosen), ViewChangeMsg(s2, chosen))

startViewChange(s) ==
  {requestView(s, v, chosen) : v \in getNextViewID(s), chosen \in PreparedChoices(s)}

(***************************************************************************)
(* The new leader.                                                          *)
(***************************************************************************)
\* GetPreparedBlock: the collected certificate, if its block is at hand.
GetPreparedBlock(s) ==
  {c \in s.vc.m1Payload : /\ IsBlockVerified(s.log, c.block)
                          /\ HasBlock(s.log, c.block)}

\* constructNewViewMessage.
NewViewMsg(s, view) ==
  [type |-> "NEWVIEW", from |-> s.me, num |-> s.blockNum, view |-> view,
   m1 |-> GetPreparedBlock(s), m2 |-> Signed(s.vc.nilSigs, view),
   m3 |-> Signed(s.vc.viewIDSigs, view)]

startNewView(s, view, reset) ==
  LET s1 == resetViewChangeState(
              setViewIDs(Send(s, NewViewMsg(s, view)), view))
      s2 == Start(Stop(s1, "viewchange"), "consensus")
      s3 == IF reset THEN resetState(s2) ELSE s2
  IN [s3 EXCEPT !.leader = s.me]

\* selfCommit: the new leader takes over the prepared block and votes for it.
selfCommit(s, c) ==
  [resetState(s) EXCEPT !.hash = c.block, !.prepareBitmap = c.mask,
                        !.commitBitmap = {s.me}, !.commit = Put(NoVotes, s.me, c.block)]

onViewChangeSanityCheck(s, m) ==
  /\ m.num = s.blockNum
  /\ ~(s.mode = "ViewChanging" /\ s.view > m.view)
  /\ m.view - s.vcView <= MaxViewIDDiff

\* The PREPARED message the new leader logs for the first certificate.
PreparedFrom(m, c, from) ==
  [type |-> "PREPARED", from |-> from, num |-> m.num, view |-> m.view,
   block |-> c.block, mask |-> c.mask, ok |-> c.ok]

\* ProcessViewChangeMsg accepts a first message of a sender; a prepared
\* payload needs a verifiable block, a quorum and a valid signature.
AcceptsViewChange(s, m) ==
  /\ << m.view, m.from >> \notin s.vc.viewIDSigs
  /\ \A c \in m.m1 : CanVerify(s, c.block) /\ IsQuorum(c.mask) /\ c.ok

\* Variant: the block of the payload is not marked as verified.
ProcessViewChangeMsgUnmarked(s, m) ==
  LET sig == << m.view, m.from >>
      vc1 == [s.vc EXCEPT !.viewIDSigs = @ \cup {sig}]
      c == CHOOSE x \in m.m1 : TRUE
      first == s.vc.m1Payload = {}
      log2 == AddBlock(AddVerifiedMessage(s.log, PreparedFrom(m, c, m.leader)),
                       c.block)
  IN IF m.m1 = {}
     THEN [s EXCEPT !.vc = [vc1 EXCEPT !.nilSigs = @ \cup {sig}]]
     ELSE [s EXCEPT !.vc = [vc1 EXCEPT !.bhpSigs = @ \cup {sig},
                                       !.m1Payload = IF first THEN m.m1 ELSE @],
                    !.log = IF first THEN log2 ELSE s.log]

ProcessViewChangeMsg(s, m) ==
  LET sig == << m.view, m.from >>
      vc1 == [s.vc EXCEPT !.viewIDSigs = @ \cup {sig}]
      c == CHOOSE x \in m.m1 : TRUE
      first == s.vc.m1Payload = {}
      log1 == MarkBlockVerified(s.log, c.block)
      log2 == AddBlock(AddVerifiedMessage(log1, PreparedFrom(m, c, m.leader)),
                       c.block)
  IN IF m.m1 = {}
     THEN [s EXCEPT !.vc = [vc1 EXCEPT !.nilSigs = @ \cup {sig}]]
     ELSE [s EXCEPT !.vc = [vc1 EXCEPT !.bhpSigs = @ \cup {sig},
                                       !.m1Payload = IF first THEN m.m1 ELSE @],
                    !.log = IF first THEN log2 ELSE log1]

\* With a quorum of M3 signatures a node in ViewChanging mode starts the view:
\* afresh, or in the commit phase of the block of the certificate it kept.
TakeOver(s, view) ==
  LET c == CHOOSE x \in s.vc.m1Payload : TRUE
      s1 == startNewView(s, view, TRUE)
  IN IF s.vc.m1Payload = {}
     THEN ReadySignal(s1)
     ELSE IF HasBlock(s.log, c.block)
     THEN startNewView(selfCommit(s, c), view, FALSE)
     ELSE s

\* A payload that fails later checks has still had its block verified.
Rejected(s, m) ==
  IF << m.view, m.from >> \notin s.vc.viewIDSigs /\ \E c \in m.m1 : CanVerify(s, c.block)
  THEN verifyBlock(s, (CHOOSE c \in m.m1 : TRUE).block) ELSE s

\* No outcome for a message that is refused before anything changes.
onViewChange(s, m) ==
  LET handle(s1) ==
        LET s2 == ProcessViewChangeMsg(s1, m) IN
        IF ~AcceptsViewChange(s1, m) THEN Rejected(s1, m)
        ELSE IF /\ IsQuorum(Signed(s2.vc.viewIDSigs, m.view))
                /\ s2.mode = "ViewChanging"
        THEN TakeOver(s2, m.view)
        ELSE s2
  IN IF \/ m.leader # s.me
        \/ IsQuorum(Signed(s.vc.viewIDSigs, m.view))
        \/ ~onViewChangeSanityCheck(s, m)
     THEN {}
     ELSE {handle(InitPayload(s, m.view, chosen)) : chosen \in PreparedChoices(s)}

(***************************************************************************)
(* The other nodes.                                                         *)
(***************************************************************************)
\* A COMMIT names the node's current hash and signs the block.
CommitMsg(s, b) ==
  [type |-> "COMMIT", from |-> s.me, num |-> s.blockNum, view |-> s.view,
   block |-> s.hash, signed |-> b]

\* Some M1 signature was collected: the payload must be a certificate.
ClaimsM1(m) == m.m2 = {} \/ Cardinality(m.m3) > Cardinality(m.m2)

VerifyNewViewMsg(s, m) == m.m3 # {} /\ \A c \in m.m1 : CanVerify(s, c.block)

\* Variant: the hash of the round is not taken from the certificate.
AdoptPreparedKeepsHash(s, m, c) ==
  [s EXCEPT !.prepareBitmap = c.mask,
            !.log = AddBlock(AddVerifiedMessage(@, PreparedFrom(m, c, m.from)),
                             c.block)]

\* The certificate is adopted and logged before the mode is looked at.
AdoptPrepared(s, m, c) ==
  [s EXCEPT !.hash = c.block, !.prepareBitmap = c.mask,
            !.log = AddBlock(AddVerifiedMessage(@, PreparedFrom(m, c, m.from)),
                             c.block)]

EnterNewView(s, m) ==
  LET s1 == resetViewChangeState(
              setViewIDs([Stop(s, "viewchange") EXCEPT !.leader = m.from], m.view))
      s2 == IF m.m1 = {} THEN resetState(s1)
            ELSE Send(s1, CommitMsg(s1, (CHOOSE c \in m.m1 : TRUE).block))
  IN Start(s2, "consensus")

\* The tests before anything changes.
HandlesNewView(s, m) == m.num = s.blockNum /\ m.view >= s.view /\ VerifyNewViewMsg(s, m)

onNewView(s, m) ==
  LET c == CHOOSE x \in m.m1 : TRUE
      s1 == IF m.m1 = {} THEN s ELSE verifyBlock(s, c.block)
      s2 == IF ClaimsM1(m) THEN AdoptPrepared(s1, m, c) ELSE s1
  IN IF ~IsQuorum(m.m3) \/ (ClaimsM1(m) /\ (m.m1 = {} \/ ~c.ok))
     THEN s1
     ELSE IF s2.mode = "ViewChanging" THEN EnterNewView(s2, m) ELSE s2
=============================================================================
