------------------------------- MODULE FBFTLog -------------------------------
(***************************************************************************)
(* The in-memory log of a consensus node (consensus/fbft_log.go): the       *)
(* leader messages it has seen, the block bodies it holds and the blocks    *)
(* it has verified.                                                         *)
(*                                                                          *)
(* A block is the sequence of the headers from the genesis block to its     *)
(* own, so a block is its own hash, its number is its length and its parent *)
(* is its front.  A header records the view it was proposed in, its leader  *)
(* (the coinbase) and a nonce that stands for the rest of its content.      *)
(***************************************************************************)
EXTENDS Naturals, Sequences, FiniteSets

\* The zero hash, and an empty block body.
NoBlock == << >>
Number(b) == Len(b)
Parent(b) == SubSeq(b, 1, Len(b) - 1)
Header(b) == b[Len(b)]

EmptyLog == [messages |-> {}, blocks |-> {}, verifiedBlocks |-> {}]

\* What the log keeps of a message: the body of the block is kept apart.
Entry(m, verified) ==
  [type |-> m.type, from |-> m.from, num |-> m.num, view |-> m.view,
   block |-> m.block, mask |-> m.mask, ok |-> m.ok, verified |-> verified]

\* Messages are keyed by type, view, hash and sender: a later one replaces.
id(m) == << m.type, m.view, m.block, m.from >>

AddMessage(log, m, verified) ==
  [log EXCEPT !.messages = {x \in @ : id(x) # id(m)} \cup {Entry(m, verified)}]

AddVerifiedMessage(log, m) == AddMessage(log, m, TRUE)
AddNotVerifiedMessage(log, m) == AddMessage(log, m, FALSE)

AddBlock(log, b) == [log EXCEPT !.blocks = @ \cup {b}]
MarkBlockVerified(log, b) == [log EXCEPT !.verifiedBlocks = @ \cup {b}]
IsBlockVerified(log, b) == b \in log.verifiedBlocks
HasBlock(log, b) == b \in log.blocks

GetMessagesByTypeSeq(log, t, num) ==
  {m \in log.messages : m.type = t /\ m.num = num /\ m.verified}

\* An unverified message matches whatever its view (the source's && binds
\* tighter than its ||).
GetMessagesByTypeSeqView(log, t, num, view) ==
  {m \in log.messages : /\ m.type = t /\ m.num = num
                        /\ m.view = view \/ ~m.verified}

GetNotVerifiedCommittedMessages(log, num, view, hash) ==
  {m \in log.messages : /\ m.type = "COMMITTED" /\ m.num = num
                        /\ m.view = view /\ m.block = hash /\ ~m.verified}

\* The messages the code may pick as the one of the highest view: the last
\* one in the iteration order of a Go map.
FindMessageByMaxViewID(messages) ==
  {m \in messages : \A x \in messages : x.view <= m.view}

\* The messages the code may pick as the commit of block number bn.
GetCommittedBlockAndMsgsFromNumber(log, bn) ==
  {m \in GetMessagesByTypeSeq(log, "COMMITTED", bn) : HasBlock(log, m.block)}

PruneCacheBeforeBlock(log, bn) ==
  LET old(b) == Number(b) + 1 < bn IN
  [messages |-> {m \in log.messages : m.num + 1 >= bn},
   blocks |-> {b \in log.blocks : ~old(b)},
   verifiedBlocks |-> {b \in log.verifiedBlocks :
                         ~(old(b) /\ b \in log.blocks)}]
=============================================================================
