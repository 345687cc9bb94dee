--------------------------- MODULE LeaderRotation ---------------------------
(***************************************************************************)
(* Who leads: the rotation after a leader's run of blocks (rotateLeader),  *)
(* the next leader of a view change (getNextLeaderKey), and the leader a   *)
(* node takes that reaches the same block by syncing                       *)
(* (updateConsensusInformation).  Keys are numbered as in                  *)
(* cIdentities.publicKeys; the committee does not change.                  *)
(***************************************************************************)
EXTENDS Naturals, Sequences, FiniteSetsExt, SequencesExt

CONSTANTS
    NumKeys,
    Owner,                  \* Owner[k]: the validator (EcdsaAddress) of key k
    NumItcNodes,            \* NumIntelchainOperatedNodesPerShard
    External,               \* IsLeaderRotationExternalValidatorsAllowed
    BlocksInRow,            \* numBlocksProducedByLeader
    BlocksCountAliveness,
    EpochLength,
    Alive,                  \* keys that sign every block
    Flaky,                  \* keys that sign some
    MaxGap,                 \* bound: views skipped by a view change
    Impatient               \* whether a view may change under a leader that is alive

KeyIndexes == 0..NumKeys - 1
Hangs == NumKeys            \* a search for the next leader that does not end

VARIABLES
    leader,     \* consensus.LeaderPubKey of the nodes that follow the consensus
    proposer,   \* key that proposed the block being agreed on
    coinbase,   \* leader named by the head block's coinbase
    count,      \* leaderRotationMeta.Count
    position,   \* the head's place in its epoch
    signers,    \* who signed the head block
    bitmaps,    \* LastCommitBitmap of this epoch's latest headers, newest first
    silent      \* blocks since each key signed, at most BlocksCountAliveness + 1

vars == <<leader, proposer, coinbase, count, position, signers, bitmaps, silent>>

NumOperated == IF NumItcNodes <= 0 \/ NumItcNodes > NumKeys THEN NumKeys ELSE NumItcNodes

NthNextItcShort(key, next) == (key + next) % (NumOperated - 1)

NthNextItc(key, next) == (key + next) % NumOperated

\* The loop adds next again for every key of the same validator; it has seen all it
\* will ever see after NumKeys turns.
NthNextValidator(key, next) ==
    LET visit(i) == (key + i * next + (i - 1)) % NumKeys
        others == {i \in 1..NumKeys : Owner[visit(i)] # Owner[key]}
    IN  IF others = {} THEN Hangs ELSE visit(Min(others))

NthNext(key, next) == IF External THEN NthNextValidator(key, next) ELSE NthNextItc(key, next)

LastInEpoch == position = EpochLength - 1

\* A key is passed over when none of the last headers carries its signature; headers
\* of the previous epoch are not looked at.
Asleep(key, maps) ==
    /\ Len(maps) = BlocksCountAliveness
    /\ \A i \in 1..Len(maps) : key \notin maps[i]

RotateToAnyone(lead, default, maps) == NthNext(lead, 1)

\* rotateLeader once the leader has had its run.
NextAwake(lead, default, maps) ==
    LET candidate(offset) == NthNext(lead, offset)
        stops == {o \in 1..NumKeys : candidate(o) = Hangs \/ ~Asleep(candidate(o), maps)}
    IN  IF stops = {} THEN default ELSE candidate(Min(stops))

Init ==
    /\ leader \in Alive /\ proposer = leader /\ coinbase = leader
    /\ count = 1 /\ position = 0
    /\ signers = Alive \cup Flaky /\ bitmaps = <<Alive \cup Flaky>>
    /\ silent = [k \in KeyIndexes |-> IF k \in Alive \cup Flaky THEN 0 ELSE BlocksCountAliveness + 1]

\* The head block is inserted (processRotationMeta) and the leader of the next one is
\* chosen (setupForNewConsensus).
Commit(s) ==
    /\ leader # Hangs /\ leader \in s
    /\ position' = (position + 1) % EpochLength
    /\ count' = IF coinbase = proposer /\ ~LastInEpoch
                THEN Min({count + 1, BlocksInRow}) ELSE 1
    /\ coinbase' = proposer
    /\ signers' = s
    /\ bitmaps' = LET all == <<signers>> \o IF LastInEpoch THEN <<>> ELSE bitmaps
                  IN  SubSeq(all, 1, Min({Len(all), BlocksCountAliveness}))
    /\ leader' = IF LastInEpoch' \/ coinbase' # leader \/ count' < BlocksInRow
                 THEN leader ELSE NextAwake(leader, leader, bitmaps')
    /\ proposer' = leader'
    /\ silent' = [k \in KeyIndexes |-> IF k \in s THEN 0
                                 ELSE Min({silent[k] + 1, BlocksCountAliveness + 1})]

\* The new leader proposes anew, or (M1) the block that was already prepared.
ViewChange(gap) ==
    /\ leader # Hangs
    /\ Impatient \/ leader \notin Alive
    /\ leader' = NthNext(IF LastInEpoch THEN 0 ELSE coinbase, gap)
    /\ proposer' \in {leader', proposer}
    /\ UNCHANGED <<coinbase, count, position, signers, bitmaps, silent>>

Next ==
    \/ \E some \in SUBSET Flaky : Commit(Alive \cup some)
    \/ \E gap \in 1..MaxGap : ViewChange(gap)

Spec == Init /\ [][Next]_vars

\* Blocks are committed under a leader that is alive, and the view changes, in the end
\* by every gap, under one that is not.
Fairness ==
    /\ WF_vars(\E some \in SUBSET Flaky : Commit(Alive \cup some))
    /\ \A gap \in 1..MaxGap : SF_vars(ViewChange(gap))

FairSpec == Spec /\ Fairness

-----------------------------------------------------------------------------
\* Leadership goes round: every key that keeps signing and that may lead does lead
\* again and again (rotateLeader with its aliveness test, view changes away from a
\* leader that is gone).
EveryoneLeads ==
    \A k \in Alive \cap 0..NumOperated - 1 : []<>(leader = k)

\* A leader that has had its run does not hand over to a key without a signature on
\* the latest blocks of the epoch (a step that moves the head is a commit).
RotatesToSigner ==
    [][position' # position /\ leader' # leader =>
           silent'[leader'] <= BlocksCountAliveness]_vars
=============================================================================
