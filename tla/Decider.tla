------------------------------ MODULE Decider ------------------------------
(***************************************************************************)
(* The vote decider of one leader: the stake weighted policy               *)
(* (consensus/quorum/one-node-staked-vote.go) over the signature store of  *)
(* consensus/quorum/quorum.go, together with the two signer bitmaps the    *)
(* Consensus object keeps beside it (consensus/leader.go,                  *)
(* consensus/threshold.go, consensus/consensus_service.go).                *)
(*                                                                         *)
(* A BLS key is its slot index.  A ballot is the set of keys whose         *)
(* multi-signature it stores; signatures themselves are abstracted: only   *)
(* votes whose signature verifies reach the decider.  Voting power is in   *)
(* units of 1/One (numeric.Dec with One = 10^18 in the code).              *)
(***************************************************************************)
EXTENDS Integers, FiniteSets, SequencesExt

CONSTANTS
    Keys,           \* BLS public keys, as slot indices
    Account,        \* EarningAccount of every key
    IntelchainKeys, \* keys whose voter.IsIntelchainNode is set
    Committees,     \* the committees an epoch may elect
    Weight,         \* Weight[c][S]: voting power in committee c of the keys in S
    One,            \* numeric.OneDec()
    OwnKeys         \* consensus.priKey: the keys of the collecting node

ASSUME KeysAssumption == Keys \subseteq Nat /\ IsFiniteSet(Keys)

ASSUME CommitteesAssumption == Committees \subseteq SUBSET Keys

ASSUME OwnKeysAssumption == OwnKeys \subseteq Keys

ASSUME OneAssumption == One \in Nat \ {0}

\* OverallPercent of the voters of a roster: an additive measure that does not
\* exceed one (votepower.Compute makes it exactly one when no slot repeats a key).
ASSUME WeightAssumption ==
    /\ Weight \in [Committees -> [SUBSET Keys -> Nat]]
    /\ \A c \in Committees :
        /\ Weight[c][{}] = 0
        /\ Weight[c][c] <= One
        /\ \A S, T \in SUBSET Keys :
              S \cap T = {} => Weight[c][S \cup T] = Weight[c][S] + Weight[c][T]

VARIABLES
    participants,   \* cIdentities.publicKeys, which also sizes the bitmaps
    roster,         \* the keys of roster.Voters
    ballots,        \* BallotBox of each phase: the ballot every signer is in
    tally,          \* voteTally[p].tally
    quorumAchieved, \* voteTally[p].quorumAchieved
    bitmap,         \* consensus.prepareBitmap and consensus.commitBitmap
    announced       \* consensus.blockHash is the hash of a block this leader announced

vars == <<participants, roster, ballots, tally, quorumAchieved, bitmap, announced>>

Phase == {"Prepare", "Commit"}

\* Power of a set of keys in the current roster: keys that are not voters have none.
PowerOf(S) == Weight[roster][S \cap roster]

\* twoThird: numeric.NewDec(2).Quo(numeric.NewDec(3)), rounded to the nearest unit.
QuorumThreshold == (4 * One + 3) \div 6

NoBallots == [k \in {} |-> {}]

Signers(p) == DOMAIN ballots[p]

IsQuorumAchieved(p) == quorumAchieved[p]

IsQuorumAchievedByMask(mask) == PowerOf(mask) > QuorumThreshold

TypeOK ==
    /\ participants \in Committees
    /\ roster \in Committees
    /\ DOMAIN ballots = Phase
    /\ \A p \in Phase : Signers(p) \in SUBSET Keys /\ ballots[p] \in [Signers(p) -> SUBSET Keys]
    /\ tally \in [Phase -> Nat]
    /\ quorumAchieved \in [Phase -> BOOLEAN]
    /\ bitmap \in [Phase -> SUBSET Keys]
    /\ announced \in BOOLEAN

Init ==
    /\ participants \in Committees
    /\ roster = participants
    /\ ballots = [p \in Phase |-> NoBallots]
    /\ tally = [p \in Phase |-> 0]
    /\ quorumAchieved = [p \in Phase |-> FALSE]
    /\ bitmap = [p \in Phase |-> {}]
    /\ announced = FALSE

----------------------------------------------------------------------------
(* AddNewVote and submitVote *)

\* A multi-signature only carries keys of the account of its first key, keys of
\* Intelchain nodes excepted.
OneAccount(keys) ==
    \A first \in keys :
        (\A k \in keys : first <= k)
            => \A k \in keys \ {first} : Account[k] = Account[first] \/ k \in IntelchainKeys

\* Mutant of Accepts: a vote counts again when it is delivered twice.
AcceptsRepeated(p, keys) ==
    keys \subseteq roster /\ OneAccount(keys)

Accepts(p, keys) ==
    /\ keys \subseteq roster
    /\ OneAccount(keys)
    /\ keys \cap Signers(p) = {}

\* submitVote: every key of a vote points to the ballot with all the vote's keys.
WithBallots(box, votes) ==
    [k \in DOMAIN box \cup UNION votes |->
        IF k \in DOMAIN box THEN box[k] ELSE CHOOSE v \in votes : k \in v]

\* Stores the accepted votes of each phase, weighs them and raises the bits.
Record(votes, bits) ==
    LET total == [p \in Phase |-> tally[p] + Weight[roster][UNION votes[p]]]
    IN  /\ ballots' = [p \in Phase |-> WithBallots(ballots[p], votes[p])]
        /\ tally' = total
        /\ quorumAchieved' = [p \in Phase |-> quorumAchieved[p] \/ total[p] > QuorumThreshold]
        /\ bitmap' = [p \in Phase |-> bitmap[p] \cup bits[p]]

In(p, value) == [q \in Phase |-> IF q = p THEN value ELSE {}]

\* The node votes with each of its keys in turn (announce,
\* didReachPrepareQuorum): a key that is not a participant is skipped, and the
\* loop is left at the first vote that AddNewVote refuses.
Mine == OwnKeys \cap participants

Refused(p) == {k \in Mine : k \notin roster \/ k \in Signers(p)}

SelfVoted(p) == {k \in Mine : \A j \in Refused(p) : k < j}

\* Mutant of SelfBits: the leader's own bits are never set.
SelfBitsForgotten(p) == {}

\* The bit of a key is set before its vote is submitted, the refused one included.
SelfBits(p) == {k \in Mine : \A j \in Refused(p) : k <= j}

Singletons(S) == {{k} : k \in S}

\* SetKeysAtomic sets no bit when one of the keys is not a participant.
VoteBits(keys) == IF keys \subseteq participants THEN keys ELSE {}

----------------------------------------------------------------------------
(* The operations of the leader *)

\* announce.
Announce ==
    /\ announced' = TRUE
    /\ Record(In("Prepare", Singletons(SelfVoted("Prepare"))), In("Prepare", SelfBits("Prepare")))
    /\ UNCHANGED <<participants, roster>>

\* onPrepare: the vote is verified against the announced block and dropped once
\* there is a quorum; the vote that completes the quorum makes the leader commit
\* with its own keys (didReachPrepareQuorum), unless its bits could not be set.
OnPrepare(keys) ==
    LET reached == /\ tally["Prepare"] + Weight[roster][keys] > QuorumThreshold
                   /\ keys \subseteq participants
        own     == IF reached THEN SelfVoted("Commit") ELSE {}
        ownBits == IF reached THEN SelfBits("Commit") ELSE {}
    IN  /\ announced
        /\ ~IsQuorumAchieved("Prepare")
        /\ Accepts("Prepare", keys)
        /\ Record([Prepare |-> {keys}, Commit |-> Singletons(own)],
                  [Prepare |-> VoteBits(keys), Commit |-> ownBits])
        /\ UNCHANGED <<participants, roster, announced>>

\* onCommit: votes are collected past the quorum, until the round is reset.
OnCommit(keys) ==
    /\ Accepts("Commit", keys)
    /\ Record(In("Commit", {keys}), In("Commit", VoteBits(keys)))
    /\ UNCHANGED <<participants, roster, announced>>

\* consensus.resetState: ResetPrepareAndCommitVotes and both bitmaps cleared.
ResetState ==
    /\ ballots' = [p \in Phase |-> NoBallots]
    /\ tally' = [p \in Phase |-> 0]
    /\ quorumAchieved' = [p \in Phase |-> FALSE]
    /\ bitmap' = [p \in Phase |-> {}]
    /\ announced' = FALSE
    /\ UNCHANGED <<participants, roster>>

\* selfCommit, the new leader's takeover of a prepared block: resetState, the
\* prepare bitmap of the certificate is adopted as it is, and the leader commits
\* with its own keys, going on past a refused vote.
SelfCommit(mask) ==
    LET voted == Mine \cap roster
        power == [Prepare |-> 0, Commit |-> Weight[roster][voted]]
    IN  /\ IsQuorumAchievedByMask(mask)
            /\ ballots' = [Prepare |-> NoBallots, Commit |-> WithBallots(NoBallots, Singletons(voted))]
        /\ tally' = power
        /\ quorumAchieved' = [p \in Phase |-> power[p] > QuorumThreshold]
        /\ bitmap' = [Prepare |-> mask, Commit |-> Mine]
        /\ announced' = FALSE
        /\ UNCHANGED <<participants, roster>>

\* Mutant of UpdateCommittee: the votes survive the change of committee.
UpdateCommitteeKeepingVotes(c, computed) ==
    /\ participants' = c
    /\ roster' = IF computed THEN c ELSE roster
    /\ UNCHANGED <<ballots, tally, quorumAchieved, bitmap, announced>>

\* updateConsensusInformation: updatePublicKeys installs the participants and
\* fresh bitmaps and resets the votes; SetVoters resets them again and keeps the
\* old roster when votepower.Compute fails.
UpdateCommittee(c, computed) ==
    /\ participants' = c
    /\ roster' = IF computed THEN c ELSE roster
    /\ ballots' = [p \in Phase |-> NoBallots]
    /\ tally' = [p \in Phase |-> 0]
    /\ quorumAchieved' = [p \in Phase |-> FALSE]
    /\ bitmap' = [p \in Phase |-> {}]
    /\ announced' = FALSE

\* The votes that arrive are those of other nodes, which hold other keys.
OtherVotes == SUBSET (Keys \ OwnKeys) \ {{}}

Next ==
    \/ Announce
    \/ \E keys \in OtherVotes : OnPrepare(keys)
    \/ \E keys \in OtherVotes : OnCommit(keys)
    \/ ResetState
    \/ \E mask \in SUBSET participants : SelfCommit(mask)
    \/ \E c \in Committees, computed \in BOOLEAN : UpdateCommittee(c, computed)

Spec == Init /\ [][Next]_vars
----------------------------------------------------------------------------
(* AggregateVotes *)

\* The orders in which a Go map with the given keys may be iterated.
Orders == [S \in SUBSET Keys |-> SetToSeqs(S)]

\* Mutant of AggregateVotes: a ballot is aggregated once per signer.
AggregateVotesRepeated(p, order) ==
    [i \in DOMAIN order |-> ballots[p][order[i]]]

\* The ballots whose signatures are aggregated when the map BallotBox is iterated
\* in the given order of its keys: a ballot is skipped when one of its signers is
\* in a ballot already taken.
AggregateVotes(p, order) ==
    LET collected[n \in 0..Len(order)] ==
            IF n = 0 THEN <<>>
            ELSE LET sigs == collected[n - 1]
                     ballot == ballots[p][order[n]]
                 IN  IF \E i \in DOMAIN sigs : sigs[i] \cap ballot # {}
                     THEN sigs ELSE Append(sigs, ballot)
    IN  collected[Len(order)]

----------------------------------------------------------------------------
(* Properties *)

\* The decider and the bitmaps are about the same committee: false only between a
\* failed SetVoters and the next successful one.
InSync == roster = participants

\* The tally that AddNewVote accumulates is the voting power of the keys with a
\* stored ballot, each counted once whatever was delivered, and the cached
\* quorumAchieved is never ahead of it or behind it.
TallyMatchesBallots ==
    \A p \in Phase :
        /\ Signers(p) \subseteq roster
        /\ tally[p] = Weight[roster][Signers(p)]
        /\ quorumAchieved[p] <=> tally[p] > QuorumThreshold

\* consensus_service.go, updatePublicKeys: the bitmaps and the decider are kept
\* side by side and must not diverge.  With the committee in sync the commit bitmap
\* names exactly the signers of the stored commit ballots, and the prepare bitmap
\* those of the prepare ballots unless it was adopted from a certificate.
BitmapMatchesBallots ==
    InSync => /\ bitmap["Commit"] = Signers("Commit")
              /\ Signers("Prepare") \subseteq bitmap["Prepare"]
              /\ announced \/ Signers("Prepare") = {}

\* A leader that counts a quorum (IsQuorumAchieved on its tally) builds a bitmap
\* that every validator of the same committee accepts (IsQuorumAchievedByMask).
QuorumVerifiable ==
    InSync => \A p \in Phase : IsQuorumAchieved(p) => IsQuorumAchievedByMask(bitmap[p])

\* Once the PREPARE quorum is counted the leader's own COMMIT votes are in the
\* decider (onPrepare calls didReachPrepareQuorum in the step that completes the
\* quorum), provided its own keys alone are no quorum: announce does not look at
\* the quorum, and onPrepare drops every vote that comes after one.
OwnCommitFollowsQuorum ==
    InSync /\ Weight[roster][Mine] <= QuorumThreshold /\ IsQuorumAchieved("Prepare")
        => Mine \subseteq Signers("Commit")

\* The ballots of a phase partition its signers: every signer is in its own ballot,
\* and the signers of a ballot all point to that ballot (submitVote stores one
\* ballot per key of the multi-signature).
BallotsPartition ==
    \A p \in Phase : \A k \in Signers(p) :
        /\ k \in ballots[p][k]
        /\ ballots[p][k] \subseteq Signers(p)
        /\ \A j \in ballots[p][k] : ballots[p][j] = ballots[p][k]

\* AggregateVotes ranges over a Go map: in every iteration order the aggregated
\* signature contains the signature of each signer exactly once and of nobody
\* else, which is what the bitmap sent with it claims.
AggregateExact ==
    \A p \in Phase : \A order \in Orders[Signers(p)] :
        LET sigs == AggregateVotes(p, order)
        IN  /\ UNION {sigs[i] : i \in DOMAIN sigs} = Signers(p)
            /\ \A i, j \in DOMAIN sigs : i # j => sigs[i] \cap sigs[j] = {}

DiscardsOnChange ==
    (roster' # roster \/ participants' # participants)
        => \A p \in Phase : ballots'[p] = NoBallots /\ ~quorumAchieved'[p] /\ bitmap'[p] = {}

\* Votes are never weighed with a roster other than the one they were accepted
\* under: a step that changes the roster or the participants (SetVoters,
\* updatePublicKeys) discards every ballot, tally and bit.
CommitteeChangeDiscardsVotes == [][DiscardsOnChange]_vars
=============================================================================
