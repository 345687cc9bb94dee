------------------------------ MODULE Proposal ------------------------------
(***************************************************************************)
(* How a leader proposes the next block while the last one is still        *)
(* collecting commit signatures (consensus_block_proposing.go,             *)
(* consensus_v2.go, worker.go).  preCommitAndPropose inserts the block and *)
(* signals the proposal loop; each of at most three attempts starts a      *)
(* receiver that waits for the signatures of finalCommit or, after a       *)
(* timeout, reads them from the database under the consensus lock.         *)
(* Receivers of failed attempts go on waiting on the same channel.         *)
(***************************************************************************)
EXTENDS Integers, FiniteSetsExt

CONSTANTS
    EpochEnds,      \* numbers of the last blocks of epochs: no pre-commit
    AttemptsFail,   \* whether ProposeNewBlock may fail before it waits for signatures
    LastMile,       \* whether blocks of the consensus log are inserted after a sync
    MaxHeight,      \* bound: height of the chain
    MaxChanges,     \* bound: times the node becomes the leader
    MaxSignals      \* bound: proposal signals that wait at the same time

VARIABLES
    head,       \* CurrentBlock().NumberU64()
    sigKnown,   \* blocks whose commit signatures ReadCommitSig finds
    blockNum,   \* consensus block number
    leader,     \* whether the node leads
    phase,      \* "none", "voting", "quorum": round of blockNum led by the node
    preCommits, \* goroutines of preCommitAndPropose, <<block, "insert" or "signal">>
    senders,    \* blocks whose signatures finalCommit tries to send
    held,       \* the consensus lock is held for ever
    signals,    \* senders waiting in ReadySignal, by kind
    proposer,   \* the proposal loop
    receiver,   \* receiver of the current attempt
    waiting,    \* receivers of failed attempts still in their select
    changes,    \* how often the node became the leader
    due         \* proposed blocks that wait for the block time, <<number, signatures of>>

consensus == <<head, sigKnown, blockNum, leader, phase, preCommits, senders, due, changes>>
loop == <<proposer, receiver, waiting>>
vars == <<consensus, held, signals, loop>>

Kinds == {"sync", "async"}
Idle == [at |-> "wait", kind |-> "sync", tries |-> 0, parent |-> 0]
NoReceiver == [at |-> "none", of |-> 0]

\* The node has just become the leader on top of block 1.
Init ==
    /\ head = 1 /\ sigKnown = {1} /\ blockNum = 2
    /\ leader = TRUE /\ phase = "none" /\ preCommits = {} /\ senders = {}
    /\ held = FALSE
    /\ signals = [k \in Kinds |-> IF k = "sync" THEN 1 ELSE 0]
    /\ proposer = Idle /\ receiver = NoReceiver /\ waiting = 0
    /\ due = {} /\ changes = 0

Signalled(kind) == [signals EXCEPT ![kind] = @ + 1]

-----------------------------------------------------------------------------
(* The proposal loop, WaitForConsensusReadyV2.                             *)

TakeSignal ==
    \E k \in Kinds :
        /\ proposer.at = "wait" /\ signals[k] > 0
        /\ signals' = [signals EXCEPT ![k] = @ - 1]
        /\ proposer' = [Idle EXCEPT !.at = "check", !.kind = k]
        /\ UNCHANGED <<consensus, held, receiver, waiting>>

\* IsLeader takes the consensus lock; a new attempt starts its receiver.
StartAttempt ==
    /\ proposer.at = "check" /\ ~held
    /\ \/ /\ leader /\ proposer.tries < 3
          /\ proposer' = [proposer EXCEPT !.at = "propose"]
          /\ receiver' = [at |-> "select", of |-> 0]
       \/ /\ ~(leader /\ proposer.tries < 3)
          /\ proposer' = Idle /\ UNCHANGED receiver
    /\ UNCHANGED <<consensus, held, signals, waiting>>

\* The attempt failed: its receiver is left behind, and one that already has
\* signatures waits for ever on a channel nobody reads.
AbandonAttempt ==
    /\ proposer' = [proposer EXCEPT !.at = "check", !.tries = @ + 1]
    /\ receiver' = NoReceiver
    /\ waiting' = waiting + (IF receiver.at = "select" THEN 1 ELSE 0)

\* ProposeNewBlock up to FinalizeNewBlock builds on the current head.
UpdateCurrent ==
    /\ proposer.at = "propose" /\ ~held
    /\ proposer' = [proposer EXCEPT !.at = "finalize", !.parent = head]
    /\ UNCHANGED <<consensus, held, signals, receiver, waiting>>

AttemptFails ==
    /\ AttemptsFail /\ proposer.at = "propose" /\ receiver.at # "lock" /\ AbandonAttempt
    /\ UNCHANGED <<consensus, held, signals>>

FinalizeUnchecked ==
    /\ proposer.at = "finalize" /\ receiver.at = "send"
    /\ proposer' = Idle /\ receiver' = NoReceiver /\ UNCHANGED waiting
    /\ due' = due \cup {<<proposer.parent + 1, receiver.of>>}
    /\ UNCHANGED <<head, sigKnown, blockNum, leader, phase, preCommits, senders, changes, held, signals>>

\* FinalizeNewBlock gets the signatures, ValidateHeader checks that they sign the
\* parent, and BlockChannel drops a block that is already decided.
Finalize ==
    /\ proposer.at = "finalize" /\ receiver.at = "send"
    /\ \/ /\ receiver.of = proposer.parent
          /\ proposer' = Idle /\ receiver' = NoReceiver /\ UNCHANGED waiting
          /\ due' = IF proposer.parent + 1 < blockNum THEN due
                    ELSE due \cup {<<proposer.parent + 1, receiver.of>>}
       \/ receiver.of # proposer.parent /\ AbandonAttempt /\ UNCHANGED due
    /\ UNCHANGED <<head, sigKnown, blockNum, leader, phase, preCommits, senders, changes, held, signals>>

\* FinalizeNewBlock waits as long as the receiver does and started a little later: it
\* gives up when the receiver does not get the signatures from the database at once.
FinalizeTimeout ==
    /\ AttemptsFail /\ proposer.at = "finalize"
    /\ receiver.at = "lock" /\ receiver.of \in sigKnown
    /\ AbandonAttempt
    /\ UNCHANGED <<consensus, held, signals>>

-----------------------------------------------------------------------------
(* The receivers and BlockCommitSigs.                                      *)

ReceiveSigs ==
    \E n \in senders :
        /\ receiver.at = "select"
        /\ receiver' = [at |-> "send", of |-> n]
        /\ senders' = senders \ {n}
        /\ UNCHANGED <<head, sigKnown, blockNum, leader, phase, preCommits, due, changes, held, signals, proposer, waiting>>

\* The timeout of the select, at once for a synchronous proposal. An asynchronous
\* one waits longer than the grace period before finalCommit.
ReceiverTimeout ==
    /\ receiver.at = "select"
    /\ proposer.kind = "sync" \/ phase # "quorum"
    /\ receiver' = [at |-> "lock", of |-> head]
    /\ UNCHANGED <<consensus, held, signals, proposer, waiting>>

\* BlockCommitSigs takes the lock. Without signatures in the database it reads the
\* log, which takes the lock again and never gets it.
BlockCommitSigs ==
    /\ receiver.at = "lock" /\ ~held
    /\ held' = (receiver.of \notin sigKnown)
    /\ receiver' = IF held' THEN receiver ELSE [receiver EXCEPT !.at = "send"]
    /\ UNCHANGED <<consensus, signals, proposer, waiting>>

\* A receiver that was left behind takes the signatures meant for another attempt.
WaitingReceives ==
    \E n \in senders :
        /\ waiting > 0 /\ waiting' = waiting - 1
        /\ senders' = senders \ {n}
        /\ UNCHANGED <<head, sigKnown, blockNum, leader, phase, preCommits, due, changes, held, signals, proposer, receiver>>

WaitingTimeout ==
    /\ waiting > 0 /\ waiting' = waiting - 1 /\ ~held
    /\ held' = (head \notin sigKnown)
    /\ UNCHANGED <<consensus, signals, proposer, receiver>>

-----------------------------------------------------------------------------
(* Consensus.                                                              *)

\* The block time has come: announce starts the round.
Announce ==
    \E d \in due :
        /\ ~held /\ due' = due \ {d}
        /\ phase' = IF leader /\ d[1] = blockNum THEN "voting" ELSE phase
        /\ UNCHANGED <<head, sigKnown, blockNum, leader, preCommits, senders, changes, held, signals, loop>>

\* onCommit with a quorum of votes.
PreCommitAndPropose ==
    /\ phase = "voting" /\ leader /\ ~held
    /\ phase' = "quorum"
    /\ preCommits' = preCommits \cup (IF blockNum \in EpochEnds THEN {} ELSE {<<blockNum, "insert">>})
    /\ UNCHANGED <<head, sigKnown, blockNum, leader, senders, due, changes, held, signals, loop>>

PreCommitInserts(n) ==
    /\ <<n, "insert">> \in preCommits /\ ~held
    /\ head' = Max({head, n}) /\ sigKnown' = sigKnown \cup {n}
    /\ preCommits' = (preCommits \ {<<n, "insert">>}) \cup {<<n, "signal">>}
    /\ UNCHANGED <<blockNum, leader, phase, senders, due, changes, held, signals, loop>>

PreCommitSilent(n) ==
    /\ <<n, "signal">> \in preCommits
    /\ preCommits' = preCommits \ {<<n, "signal">>}
    /\ UNCHANGED <<head, sigKnown, blockNum, leader, phase, senders, due, changes, held, signals, loop>>

PreCommitSignals(n) ==
    /\ <<n, "signal">> \in preCommits /\ ~held /\ signals["async"] < MaxSignals
    /\ preCommits' = preCommits \ {<<n, "signal">>}
    /\ signals' = Signalled("async")
    /\ UNCHANGED <<head, sigKnown, blockNum, leader, phase, senders, due, changes, held, loop>>

\* The end of the grace period: the full signatures are written, the block is
\* committed, and the leader, if it stays the leader, goes on to the next block.
FinalCommit(stays) ==
    /\ phase = "quorum" /\ ~held
    /\ sigKnown' = sigKnown \cup {blockNum} /\ head' = Max({head, blockNum})
    /\ blockNum' = blockNum + 1 /\ phase' = "none" /\ leader' = stays
    /\ senders' = senders \cup (IF stays /\ blockNum \notin EpochEnds THEN {blockNum} ELSE {})
    /\ signals' = IF stays /\ blockNum \in EpochEnds THEN Signalled("sync") ELSE signals
    /\ UNCHANGED <<preCommits, due, changes, held, loop>>

\* finalCommit gives up sending after CommitSigSenderTimeout, later than the receivers.
SendTimeout ==
    \E n \in senders :
        /\ receiver.at # "select" /\ senders' = senders \ {n}
        /\ UNCHANGED <<head, sigKnown, blockNum, leader, phase, preCommits, due, changes, held, signals, loop>>

\* A block of another leader: tryCatchup writes it with its signatures, the last mile
\* after a sync writes it without.
OthersCommit ==
    /\ ~leader /\ ~held /\ blockNum <= MaxHeight
    /\ head' = Max({head, blockNum}) /\ blockNum' = blockNum + 1
    /\ sigKnown' = sigKnown \cup {blockNum}
    /\ UNCHANGED <<leader, phase, preCommits, senders, due, changes, held, signals, loop>>

AddConsensusLastMile ==
    /\ LastMile /\ ~leader /\ ~held /\ blockNum <= MaxHeight
    /\ head' = Max({head, blockNum}) /\ blockNum' = blockNum + 1
    /\ UNCHANGED <<sigKnown, leader, phase, preCommits, senders, due, changes, held, signals, loop>>

\* A view change or a rotation makes the node the leader, or another one.
BecomeLeader ==
    /\ ~leader /\ ~held /\ blockNum <= MaxHeight /\ signals["sync"] < MaxSignals
    /\ changes < MaxChanges /\ changes' = changes + 1
    /\ leader' = TRUE /\ signals' = Signalled("sync")
    /\ UNCHANGED <<head, sigKnown, blockNum, phase, preCommits, senders, due, held, loop>>

LoseLeader ==
    /\ leader /\ ~held /\ leader' = FALSE /\ phase' = "none"
    /\ UNCHANGED <<head, sigKnown, blockNum, preCommits, senders, due, changes, held, signals, loop>>

PreCommitSteps == \E n \in 1..MaxHeight : PreCommitInserts(n) \/ PreCommitSignals(n)

Next ==
    \/ TakeSignal \/ StartAttempt \/ UpdateCurrent \/ AttemptFails
    \/ Finalize \/ FinalizeTimeout
    \/ ReceiveSigs \/ ReceiverTimeout \/ BlockCommitSigs \/ WaitingReceives \/ WaitingTimeout
    \/ Announce \/ (blockNum <= MaxHeight /\ PreCommitAndPropose) \/ PreCommitSteps
    \/ (\E stays \in BOOLEAN : FinalCommit(stays)) \/ SendTimeout
    \/ OthersCommit \/ AddConsensusLastMile \/ BecomeLeader \/ LoseLeader

Spec == Init /\ [][Next]_vars

\* Goroutines run and timeouts fire. A round that was announced need not get a quorum.
Fairness ==
    /\ WF_vars(TakeSignal) /\ WF_vars(StartAttempt) /\ WF_vars(UpdateCurrent) /\ WF_vars(Finalize)
    /\ WF_vars(ReceiverTimeout) /\ WF_vars(BlockCommitSigs) /\ WF_vars(WaitingTimeout)
    /\ WF_vars(Announce) /\ WF_vars(PreCommitSteps) /\ WF_vars(SendTimeout)
    /\ WF_vars(\E stays \in BOOLEAN : FinalCommit(stays))

FairSpec == Spec /\ Fairness

-----------------------------------------------------------------------------
\* A proposed block carries the commit signatures of its parent, although receivers of
\* failed attempts and senders of earlier blocks meet on the same channel.
CarriesParentSigs == \A d \in due : d[2] = d[1] - 1

\* A leader that has committed a block goes on to announce the next one, unless it
\* loses the leadership or the chain has grown meanwhile.
GoesOn ==
    \A n \in 2..MaxHeight :
        (leader /\ phase = "quorum" /\ blockNum = n) ~> (~leader \/ phase = "voting" \/ blockNum > n + 1)
=============================================================================
