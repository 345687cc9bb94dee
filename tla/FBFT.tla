-------------------------------- MODULE FBFT --------------------------------
(***************************************************************************)
(* The committee of one shard running the FBFT consensus over a network     *)
(* that may lose, delay, duplicate and reorder messages: a message that was *)
(* sent stays in msgs and is received any number of times, or never.        *)
(*                                                                          *)
(* Every action takes one node from one state to the next under its         *)
(* consensus mutex: a received message, an expired timer, a step of a       *)
(* goroutine a handler started, or an event of the block downloader.        *)
(***************************************************************************)
EXTENDS FBFTHandlers

CONSTANT Scenarios  \* what the committee meets: a set of records, see ScenarioAssumption

\* Bounds: no block above number height is proposed, a node proposes at most so
\* many blocks, and no view change goes above the view views.  The nodes that
\* download find longer chains, the timers of the impatient expire, the links
\* (from, to) of cut lose every message, the early validate an announced block
\* before they are done with it, and the restarting restart once.
ASSUME ScenarioAssumption ==
  \A e \in Scenarios :
    /\ {e.height, e.views} \subseteq Nat /\ e.views <= MaxView
    /\ e.proposals \in 0..MaxProposals /\ e.cut \subseteq Node \X Node
    /\ UNION {e.downloaders, e.impatient, e.early, e.restarting} \subseteq Node

\* The scenario, the nodes, and the messages that were sent.
VARIABLES env, node, msgs
vars == << env, node, msgs >>

\* The chain every node starts on; its last block has the commit signatures
\* of a quorum.
FirstChain == << [view |-> 1, leader |-> 1, nonce |-> 0] >>

Init ==
  /\ env \in Scenarios
  /\ node = [n \in Node |-> Fresh(n, FirstChain, Node)]
  /\ msgs = {}

\* Node n moves to state s; what it sent while getting there is on the network.
Become(n, s) ==
  /\ node' = [node EXCEPT ![n] = [s EXCEPT !.out = {}]]
  /\ msgs' = msgs \cup s.out
  /\ UNCHANGED env

(***************************************************************************)
(* The leader's proposals.  An asynchronous proposal waits for the commit   *)
(* signatures of the previous block, longer than a grace period lasts.      *)
(***************************************************************************)
Proposing(n) ==
  /\ node[n].ready > 0 /\ node[n].grace = {}
  /\ node[n].proposed < env.proposals /\ Number(node[n].chain) < env.height

Propose(n) == Proposing(n) /\ Become(n, propose(node[n]))

Announce(n) ==
  \E b \in node[n].due :
    Become(n, announce([node[n] EXCEPT !.due = @ \ {b}], b))

(***************************************************************************)
(* HandleMessageUpdate.                                                     *)
(***************************************************************************)
\* The messages of type t that may reach node n.
Inbox(n, t) ==
  {m \in msgs : m.type = t /\ m.from # n /\ << m.from, n >> \notin env.cut}

FromLeader(s, m) == s.mode = "Normal" => m.from = s.leader

\* What a validator, and what a leader, handles.
Validates(s, m) == ~IsLeader(s) /\ FromLeader(s, m)

Leads(s) == IsLeader(s) /\ s.mode # "ViewChanging"

ReceiveAnnounce(n) ==
  \E m \in Inbox(n, "ANNOUNCE") : /\ Validates(node[n], m)
                                 /\ \E s \in onAnnounce(node[n], m) : Become(n, s)

ReceivePrepared(n) ==
  \E m \in Inbox(n, "PREPARED") : /\ Validates(node[n], m)
                                 /\ Become(n, onPrepared(node[n], m))

ReceiveCommitted(n) ==
  \E m \in Inbox(n, "COMMITTED") : /\ Validates(node[n], m)
                                  /\ \E s \in onCommitted(node[n], m) : Become(n, s)

ReceivePrepare(n) ==
  Leads(node[n]) /\ \E m \in Inbox(n, "PREPARE") : /\ CountsPrepare(node[n], m)
                                                   /\ Become(n, onPrepare(node[n], m))

ReceiveCommit(n) ==
  Leads(node[n]) /\ \E m \in Inbox(n, "COMMIT") : /\ CountsCommit(node[n], m)
                                                  /\ Become(n, onCommit(node[n], m))

ReceiveViewChange(n) ==
  \E m \in Inbox(n, "VIEWCHANGE") : \E s \in onViewChange(node[n], m) : Become(n, s)

ReceiveNewView(n) ==
  \E m \in Inbox(n, "NEWVIEW") : /\ HandlesNewView(node[n], m)
                                /\ Become(n, onNewView(node[n], m))

(***************************************************************************)
(* Timers and background work.                                              *)
(***************************************************************************)
\* A proposal is announced within the block time, well before a timer expires.
Tick(n) ==
  /\ n \in env.impatient /\ ~Proposing(n) /\ node[n].due = {}
  /\ \E s \in tick(node[n]) : s.slot <= env.views /\ Become(n, s)

ValidateAnnounced(n) ==
  n \in env.early /\ \E m \in node[n].validating :
    Become(n, validateNewBlock([node[n] EXCEPT !.validating = @ \ {m}], m))

ReplayCommitted(n) ==
  \E b \in node[n].replaying :
    \E s \in replayCommitted(node[n], b) : Become(n, s)

PreCommit(n) == \E job \in node[n].inserting : Become(n, preCommit(node[n], job))

EndOfGrace(n) == \E v \in node[n].grace : Become(n, endOfGrace(node[n], v))

(***************************************************************************)
(* The block downloader.                                                    *)
(***************************************************************************)
Ahead(n) == {p \in Node : Number(node[p].chain) > Number(node[n].chain)}

\* Bound: a download event is handled before the next step of the download (the
\* other orders are in SyncEvents).
StartHandled(n) == ~node[n].startedCh

DownloadStart(n) ==
  /\ n \in env.downloaders /\ Ahead(n) # {} /\ ~node[n].downloading
  /\ ~node[n].startedCh /\ ~node[n].finishedCh
  /\ Become(n, startSyncing(node[n]))

DownloadBlock(n) ==
  /\ node[n].downloading /\ StartHandled(n)
  /\ \E p \in Ahead(n) :
       LET num == Number(node[n].chain) + 1
           b == SubSeq(node[p].chain, 1, num)
       IN /\ CanInsert(node[n], b)
          /\ Become(n, InsertChain(node[n], b, node[p].commitSigs[num]))

DownloadFinish(n) ==
  node[n].downloading /\ Become(n, finishSyncing(node[n]))

HandleStarted(n) ==
  node[n].startedCh /\ Become(n, BlocksNotSynchronized(node[n]))

HandleFinished(n) ==
  /\ node[n].finishedCh /\ StartHandled(n)
  /\ \E s \in BlocksSynchronized(node[n]) : Become(n, s)

\* A variant: the last block was not written.
RestartLosesBlock(n) ==
  /\ n \in env.restarting /\ ~node[n].restarted /\ Number(node[n].chain) > 1
  /\ Become(n, [Fresh(n, Parent(node[n].chain), Node) EXCEPT
                  !.slot = node[n].slot, !.restarted = TRUE])

\* The process of node n stops at any moment and starts again on its database: the
\* chain and the commit signatures.  The log, the votes and the view change were in
\* memory only; the clock went on.
Restart(n) ==
  /\ n \in env.restarting /\ ~node[n].restarted
  /\ Become(n, [Fresh(n, node[n].chain, Node) EXCEPT
                  !.commitSigs = node[n].commitSigs, !.proposed = node[n].proposed,
                  !.ready = IF node[n].proposed < MaxProposals THEN @ ELSE 0,
                  !.slot = node[n].slot, !.restarted = TRUE])

Next ==
  \E n \in Node :
    \/ Propose(n) \/ Announce(n)
    \/ ReceiveAnnounce(n) \/ ReceivePrepared(n) \/ ReceiveCommitted(n)
    \/ ReceivePrepare(n) \/ ReceiveCommit(n)
    \/ ReceiveViewChange(n) \/ ReceiveNewView(n)
    \/ Tick(n) \/ ValidateAnnounced(n) \/ ReplayCommitted(n)
    \/ PreCommit(n) \/ EndOfGrace(n)
    \/ DownloadStart(n) \/ DownloadBlock(n) \/ DownloadFinish(n)
    \/ HandleStarted(n) \/ HandleFinished(n) \/ Restart(n)

Spec == Init /\ [][Next]_vars

\* A message is resent until it has its effect, and goroutines run.
Leading(n) ==
  \/ Propose(n) \/ Announce(n) \/ ReceivePrepare(n) \/ ReceiveCommit(n)
  \/ PreCommit(n) \/ EndOfGrace(n)

FairSpec ==
  /\ Spec
  /\ \A n \in Node :
       /\ WF_vars(Leading(n)) /\ WF_vars(ReceiveAnnounce(n))
       /\ WF_vars(ReceivePrepared(n)) /\ WF_vars(ReceiveCommitted(n))
       /\ WF_vars(ReplayCommitted(n))

(***************************************************************************)
(* Properties.                                                              *)
(***************************************************************************)
Sent(t) == {m \in msgs : m.type = t}

\* Prepared certificates on the network: a quorum's valid PREPARE signatures.
Certificates == {m \in Sent("PREPARED") : m.ok /\ IsQuorum(m.mask)}

\* Two nodes never have different blocks at one height: one chain is a prefix
\* of the other, whoever inserted its blocks (commitBlock, preCommitAndPropose,
\* finalCommit or the downloader).
Agreement ==
  \A n, p \in Node :
    InChain(node[n], node[p].chain) \/ InChain(node[p], node[n].chain)

\* The decided chain is the longest of a node.
Decided == CHOOSE c \in {node[n].chain : n \in Node} :
             \A p \in Node : Number(node[p].chain) <= Number(c)

Abstract == INSTANCE ChainAgreement WITH
  Nodes <- Node, Blocks <- [view : Nat, leader : Node, nonce : Nat], decided <- Decided,
  chain <- [n \in Node |-> node[n].chain]

\* The committee implements ChainAgreement: commitBlock, preCommitAndPropose and
\* the downloader only decide a next block on top of the longest chain or insert
\* blocks that another node has decided, one after the other.
ImplementsAgreement == Abstract!Spec

\* In one view of one height a leader certifies one block: however often the
\* view is re-run, the PREPARED messages of didReachPrepareQuorum agree.
SingleCertificate ==
  \A c, d \in Certificates :
    c.num = d.num /\ c.view = d.view => c.block = d.block

\* The commit signatures a node stores with a block, by InsertChain or by
\* WriteCommitSig, are those of a quorum.
CommitSigQuorum ==
  \A n \in Node : \A k \in DOMAIN node[n].commitSigs :
    IsQuorum(node[n].commitSigs[k])

CommitSigKeptStep ==
  \A n \in Node : \A k \in DOMAIN node[n].commitSigs :
    Cardinality(node[n].commitSigs[k]) <= Cardinality(node'[n].commitSigs[k])

\* A stored commit signature is only replaced by one of more signers, in
\* whatever order the 67% and the 100% COMMITTED arrive (onCommitted).
CommitSigKept == [][CommitSigKeptStep]_vars

\* A node that is not syncing has something that will wake it: a running
\* timer, a block insertion of its own that ends by starting one, or a
\* download whose end starts one.  A node with none waits for ever for a
\* message that nobody need send.
NoSilentNode ==
  \A n \in Node : \/ node[n].mode = "Syncing"
                  \/ node[n].timers # {} \/ node[n].inserting # {}
                  \/ node[n].downloading \/ node[n].finishedCh

\* The round follows the chain: no node works on a height whose parent it has
\* not inserted, and a node that works on the next height is in a later view
\* than its current block (setupForNewConsensus, syncReadyChan, onNewView).
RoundMatchesChain ==
  \A n \in Node :
    /\ node[n].blockNum <= Number(node[n].chain) + 1
    /\ node[n].mode = "Normal" /\ node[n].blockNum = Number(node[n].chain) + 1
         => node[n].view > Header(node[n].chain).view

\* A NEWVIEW whose signature counts say that some node sent a prepared payload
\* carries a valid one; without it onNewView cannot accept the message.
NewViewCarriesCertificate ==
  \A m \in Sent("NEWVIEW") :
    ClaimsM1(m) => \E c \in m.m1 : c.ok /\ IsQuorum(c.mask)

LockedStep ==
  \A v \in msgs' \ msgs :
    v.type = "VIEWCHANGE" /\ v.m1 = {} =>
      ~ \E c \in Sent("COMMIT") : c.from = v.from /\ c.num = v.num

\* A validator that has sent a COMMIT at a height sends its prepared
\* certificate with every later VIEWCHANGE of the height, never NIL
\* (startViewChange reads it from the log that onPrepared fills).
Locked == [][LockedStep]_vars

\* A COMMIT signs the block it names: sendCommitMessages takes the block from
\* its caller and the hash from the node's state (onPrepared, onNewView).
CommitSignsItsHash == \A c \in Sent("COMMIT") : c.signed = c.block

\* Without timeouts every node commits every proposed block, and goes on with
\* the next height in Normal mode with a timer running.
Progress ==
  <>[](\A n \in Node : /\ Number(node[n].chain) = env.height
                       /\ node[n].blockNum = env.height + 1
                       /\ node[n].mode = "Normal" /\ node[n].timers # {})
=============================================================================
