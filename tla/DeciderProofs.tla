--------------------------- MODULE DeciderProofs ---------------------------
(***************************************************************************)
(* Proofs about Decider: for every committee, every assignment of voting   *)
(* power and every set of keys of the leader.                              *)
(***************************************************************************)
EXTENDS Decider, Induction, FiniteSetTheorems, TLAPS

Disjoint(votes) == \A v, w \in votes : v \cap w # {} => v = w

\* The votes handed to Record are new: members of the roster that have not voted
\* in the phase, no key in two of them.
Fresh(votes) ==
    \A p \in Phase :
        /\ votes[p] \subseteq SUBSET roster
        /\ (UNION votes[p]) \cap Signers(p) = {}
        /\ Disjoint(votes[p])

\* The part of the inductive invariant that is about the decider alone.
VotesInv == TypeOK /\ TallyMatchesBallots /\ BallotsPartition

\* Facts about constants used throughout.
USE DEF Phase

----------------------------------------------------------------------------
(* Recording votes *)

\* A new vote of disjoint votes becomes the ballot of each of its keys.
LEMMA WithBallotsNew ==
    ASSUME NEW STATE box, NEW STATE votes, Disjoint(votes),
           NEW v \in votes, NEW k \in v \ DOMAIN box
    PROVE  WithBallots(box, votes)[k] = v
<1>1. WithBallots(box, votes)[k] = CHOOSE u \in votes : k \in u
  BY DEF WithBallots
<1>2. PICK u \in votes : u = (CHOOSE w \in votes : k \in w) /\ k \in u
  OBVIOUS
<1>3. v \cap u # {}
  BY <1>2
<1> QED BY <1>1, <1>2, <1>3 DEF Disjoint

\* Recording new votes adds their keys to the signers and nothing else.
LEMMA RecordSigners ==
    ASSUME NEW STATE votes, votes \in [Phase -> SUBSET SUBSET Keys], NEW STATE bits,
           Fresh(votes), Record(votes, bits)
    PROVE  \A p \in Phase : Signers(p)' = Signers(p) \cup UNION votes[p]
<1> SUFFICES ASSUME NEW p \in Phase
             PROVE  Signers(p)' = Signers(p) \cup UNION votes[p]
  OBVIOUS
<1>1. ballots'[p] = WithBallots(ballots[p], votes[p])
  BY DEF Record
<1> QED BY <1>1 DEF WithBallots, Signers

\* Recording new votes keeps the tally equal to the power of the signers, and the
\* cached quorum flag equal to the comparison with the threshold.
LEMMA RecordTally ==
    ASSUME VotesInv, NEW STATE votes, votes \in [Phase -> SUBSET SUBSET Keys], NEW STATE bits,
           Fresh(votes), Record(votes, bits), roster' = roster
    PROVE  TallyMatchesBallots' /\ tally' \in [Phase -> Nat] /\ quorumAchieved' \in [Phase -> BOOLEAN]
<1> USE CommitteesAssumption, KeysAssumption, OneAssumption
<1>1. \A p \in Phase : Signers(p)' = Signers(p) \cup UNION votes[p]
  BY RecordSigners
<1>2. ASSUME NEW p \in Phase
      PROVE  /\ Signers(p)' \subseteq roster'
             /\ tally'[p] = Weight[roster'][Signers(p)']
             /\ tally'[p] \in Nat
             /\ quorumAchieved'[p] \in BOOLEAN
             /\ quorumAchieved'[p] <=> tally'[p] > QuorumThreshold
  <2> DEFINE S == Signers(p)  T == UNION votes[p]
  <2>1. roster \in Committees /\ S \in SUBSET Keys /\ T \in SUBSET Keys
    BY <1>2 DEF VotesInv, TypeOK, Fresh
  <2>2. S \cap T = {}
    BY <1>2 DEF Fresh
  <2>3. Weight[roster][S \cup T] = Weight[roster][S] + Weight[roster][T]
    BY <2>1, <2>2, WeightAssumption
  <2>4. Weight[roster][S] \in Nat /\ Weight[roster][T] \in Nat
    BY <2>1, WeightAssumption
  <2>5. tally[p] = Weight[roster][S]
    BY <1>2 DEF VotesInv, TallyMatchesBallots
  <2>6. tally'[p] = tally[p] + Weight[roster][T]
    BY <1>2 DEF Record
  <2>7. tally'[p] = Weight[roster'][Signers(p)'] /\ tally'[p] \in Nat
    <3>1. Signers(p)' = S \cup T
      BY <1>1, <1>2
    <3>2. tally'[p] = Weight[roster][S \cup T] /\ tally'[p] \in Nat
      BY <2>3, <2>4, <2>5, <2>6
    <3> QED BY <3>1, <3>2
  <2>8. Signers(p)' \subseteq roster'
    BY <1>1, <1>2 DEF VotesInv, TallyMatchesBallots, Fresh
  <2>9. quorumAchieved'[p] = (quorumAchieved[p] \/ tally[p] + Weight[roster][T] > QuorumThreshold)
    BY <1>2 DEF Record
  <2>10. quorumAchieved[p] <=> tally[p] > QuorumThreshold
    BY <1>2 DEF VotesInv, TallyMatchesBallots
  <2>11. QuorumThreshold \in Int
    BY DEF QuorumThreshold
  <2>12. tally[p] > QuorumThreshold => tally[p] + Weight[roster][T] > QuorumThreshold
    BY <2>4, <2>5, <2>11
  <2>13. quorumAchieved'[p] <=> tally'[p] > QuorumThreshold
    BY <2>6, <2>9, <2>10, <2>12
  <2> QED BY <2>7, <2>8, <2>9, <2>13
<1>3. tally' \in [Phase -> Nat] /\ quorumAchieved' \in [Phase -> BOOLEAN]
  <2>1. /\ tally' = [p \in Phase |-> tally'[p]]
        /\ quorumAchieved' = [p \in Phase |-> quorumAchieved'[p]]
    BY DEF Record
  <2> QED BY <1>2, <2>1
<1> QED BY <1>2, <1>3 DEF TallyMatchesBallots

\* Recording new votes keeps the ballots a partition of the signers.
LEMMA RecordPartition ==
    ASSUME VotesInv, NEW STATE votes, votes \in [Phase -> SUBSET SUBSET Keys], NEW STATE bits,
           Fresh(votes), Record(votes, bits)
    PROVE  BallotsPartition'
<1> SUFFICES ASSUME NEW p \in Phase, NEW k \in Signers(p)'
             PROVE  /\ k \in ballots'[p][k]
                    /\ ballots'[p][k] \subseteq Signers(p)'
                    /\ \A j \in ballots'[p][k] : ballots'[p][j] = ballots'[p][k]
  BY DEF BallotsPartition
<1>1. Signers(p)' = Signers(p) \cup UNION votes[p]
  BY RecordSigners
<1>2. ballots'[p] = WithBallots(ballots[p], votes[p])
  BY DEF Record
<1>3. /\ \A i \in Signers(p) : ballots'[p][i] = ballots[p][i]
      /\ \A v \in votes[p] : \A i \in v \ Signers(p) : ballots'[p][i] = v
  <2>1. Disjoint(votes[p])
    BY DEF Fresh
  <2>2. \A i \in DOMAIN ballots[p] : WithBallots(ballots[p], votes[p])[i] = ballots[p][i]
    BY DEF WithBallots
  <2>3. ASSUME NEW v \in votes[p], NEW i \in v \ DOMAIN ballots[p]
        PROVE  WithBallots(ballots[p], votes[p])[i] = v
    BY <2>1, <2>3, WithBallotsNew
  <2> QED BY <1>2, <2>2, <2>3 DEF Signers
<1>4. CASE k \in Signers(p)
  <2>1. /\ k \in ballots[p][k]
        /\ ballots[p][k] \subseteq Signers(p)
        /\ \A j \in ballots[p][k] : ballots[p][j] = ballots[p][k]
    BY <1>4 DEF VotesInv, BallotsPartition
  <2> QED BY <1>1, <1>3, <1>4, <2>1
<1>5. CASE k \notin Signers(p)
  <2>1. PICK v \in votes[p] : k \in v
    BY <1>1, <1>5
  <2>2. v \cap Signers(p) = {}
    BY <2>1 DEF Fresh
  <2> QED BY <1>1, <1>3, <2>1, <2>2
<1> QED BY <1>4, <1>5

\* Recording new votes keeps the votes part of the invariant.
LEMMA RecordVotesInv ==
    ASSUME VotesInv, NEW STATE votes, votes \in [Phase -> SUBSET SUBSET Keys],
           NEW STATE bits, bits \in [Phase -> SUBSET Keys],
           Fresh(votes), Record(votes, bits),
           participants' = participants, roster' = roster, announced' \in BOOLEAN
    PROVE  VotesInv'
<1>1. TallyMatchesBallots' /\ tally' \in [Phase -> Nat] /\ quorumAchieved' \in [Phase -> BOOLEAN]
  BY RecordTally
<1>2. BallotsPartition'
  BY RecordPartition
<1>3. bitmap' \in [Phase -> SUBSET Keys]
  BY DEF VotesInv, TypeOK, Record
<1>4. DOMAIN ballots' = Phase
  BY DEF Record
<1>5. ASSUME NEW p \in Phase
      PROVE  Signers(p)' \in SUBSET Keys /\ ballots'[p] \in [Signers(p)' -> SUBSET Keys]
  <2>1. Signers(p)' \in SUBSET Keys
    BY <1>5, RecordSigners DEF VotesInv, TypeOK
  <2>2. ballots'[p] = WithBallots(ballots[p], votes[p])
    BY <1>5 DEF Record
  <2>3. ballots'[p] = [k \in Signers(p)' |-> ballots'[p][k]]
    BY <2>2 DEF WithBallots, Signers
  <2>4. \A k \in Signers(p)' : ballots'[p][k] \subseteq Signers(p)'
    BY <1>2, <1>5 DEF BallotsPartition
  <2> QED BY <2>1, <2>3, <2>4
<1>6. participants' \in Committees /\ roster' \in Committees
  BY DEF VotesInv, TypeOK
<1>7. TypeOK'
  BY <1>1, <1>3, <1>4, <1>5, <1>6 DEF TypeOK
<1> QED BY <1>1, <1>2, <1>7 DEF VotesInv

\* With no ballots, zero tallies and no bits the votes part holds.
LEMMA EmptyVotesInv ==
    ASSUME participants' \in Committees, roster' \in Committees, announced' \in BOOLEAN,
           ballots' = [p \in Phase |-> NoBallots], tally' = [p \in Phase |-> 0],
           quorumAchieved' = [p \in Phase |-> FALSE], bitmap' \in [Phase -> SUBSET Keys]
    PROVE  VotesInv' /\ \A p \in Phase : Signers(p)' = {}
<1> USE KeysAssumption, OneAssumption, CommitteesAssumption
<1>1. \A p \in Phase : Signers(p)' = {}
  BY DEF Signers, NoBallots
<1>2. \A p \in Phase : ballots'[p] \in [Signers(p)' -> SUBSET Keys]
  BY <1>1 DEF NoBallots
<1>3. TypeOK'
  BY <1>1, <1>2 DEF TypeOK
<1>4. Weight[roster'][{}] = 0
  BY WeightAssumption
<1>5. QuorumThreshold \in Nat
  BY DEF QuorumThreshold
<1>6. TallyMatchesBallots'
  <2> SUFFICES ASSUME NEW p \in Phase
               PROVE  /\ Signers(p)' \subseteq roster'
                      /\ tally'[p] = Weight[roster'][Signers(p)']
                      /\ quorumAchieved'[p] <=> tally'[p] > QuorumThreshold
    BY DEF TallyMatchesBallots
  <2>1. Signers(p)' = {} /\ tally'[p] = 0 /\ quorumAchieved'[p] = FALSE
    BY <1>1
  <2> QED BY <1>4, <1>5, <2>1
<1>7. BallotsPartition'
  BY <1>1 DEF BallotsPartition
<1> QED BY <1>1, <1>3, <1>6, <1>7 DEF VotesInv

----------------------------------------------------------------------------
(* The inductive invariant *)

\* In sync, the leader's own votes of a phase are all in or all out, and the
\* PREPARE ones are in once it has announced.
OwnVotes ==
    InSync => /\ \A p \in Phase : Mine \subseteq Signers(p) \/ Mine \cap Signers(p) = {}
              /\ announced => Mine \subseteq Signers("Prepare")

Inv ==
    /\ VotesInv
    /\ BitmapMatchesBallots
    /\ OwnVotes
    /\ OwnCommitFollowsQuorum

\* The votes a node casts with its own keys are new, and their bits are set.
LEMMA SelfVotedFresh ==
    ASSUME NEW p \in Phase
    PROVE  /\ SelfVoted(p) \subseteq roster
           /\ SelfVoted(p) \cap Signers(p) = {}
           /\ SelfVoted(p) \subseteq SelfBits(p)
           /\ SelfBits(p) \subseteq Mine
           /\ Mine \subseteq Keys
<1>1. Mine \subseteq Keys /\ SelfBits(p) \subseteq Mine
  BY OwnKeysAssumption DEF Mine, SelfBits
<1>2. \A k \in Mine : k \in Nat
  BY <1>1, KeysAssumption
<1>3. Refused(p) \subseteq Mine
  BY DEF Refused
<1>4. \A k \in SelfVoted(p) : k \in Mine /\ k \notin Refused(p)
  BY <1>2 DEF SelfVoted
<1>5. SelfVoted(p) \subseteq SelfBits(p)
  BY <1>2, <1>3 DEF SelfVoted, SelfBits
<1> QED BY <1>1, <1>4, <1>5 DEF Refused

\* In sync, a node whose keys have all voted casts no vote; one whose keys have not
\* voted casts them all.
LEMMA SelfVotedInSync ==
    ASSUME NEW p \in Phase, InSync
    PROVE  /\ Mine \subseteq Signers(p) => SelfVoted(p) = {}
           /\ Mine \cap Signers(p) = {} => SelfVoted(p) = Mine /\ SelfBits(p) = Mine
<1>1. Mine \subseteq roster
  BY DEF InSync, Mine
<1>2. \A k \in Mine : k \in Nat
  BY KeysAssumption, OwnKeysAssumption DEF Mine
<1>3. ASSUME Mine \subseteq Signers(p) PROVE SelfVoted(p) = {}
  <2>1. Refused(p) = Mine
    BY <1>3 DEF Refused
  <2> QED BY <1>2, <2>1 DEF SelfVoted
<1>4. ASSUME Mine \cap Signers(p) = {} PROVE SelfVoted(p) = Mine /\ SelfBits(p) = Mine
  <2>1. Refused(p) = {}
    BY <1>1, <1>4 DEF Refused
  <2> QED BY <2>1 DEF SelfVoted, SelfBits
<1> QED BY <1>3, <1>4

\* One-key ballots are disjoint and cover their keys.
LEMMA SingletonsFacts ==
    ASSUME NEW STATE S
    PROVE  Disjoint(Singletons(S)) /\ UNION Singletons(S) = S
           /\ \A T : S \subseteq T => Singletons(S) \subseteq SUBSET T
<1>1. Disjoint(Singletons(S))
  BY DEF Disjoint, Singletons
<1>2. UNION Singletons(S) = S
  BY DEF Singletons
<1>3. \A T : S \subseteq T => Singletons(S) \subseteq SUBSET T
  BY DEF Singletons
<1> QED BY <1>1, <1>2, <1>3

----------------------------------------------------------------------------
(* One lemma per action *)

\* announce preserves the invariant.
LEMMA AnnounceStep == Inv /\ Announce => Inv'
<1> SUFFICES ASSUME Inv, Announce PROVE Inv'
  OBVIOUS
<1> DEFINE V == SelfVoted("Prepare")
           votes == In("Prepare", Singletons(V))
           bits == In("Prepare", SelfBits("Prepare"))
<1>1. /\ votes["Prepare"] = Singletons(V) /\ votes["Commit"] = {}
      /\ bits["Prepare"] = SelfBits("Prepare") /\ bits["Commit"] = {}
  BY DEF In
<1>2. /\ V \subseteq roster /\ V \cap Signers("Prepare") = {}
      /\ V \subseteq SelfBits("Prepare") /\ SelfBits("Prepare") \subseteq Mine /\ Mine \subseteq Keys
  BY SelfVotedFresh
<1>3. Disjoint(Singletons(V)) /\ UNION Singletons(V) = V
      /\ Singletons(V) \subseteq SUBSET roster /\ Singletons(V) \subseteq SUBSET Keys
  BY <1>2, SingletonsFacts
<1>4. votes \in [Phase -> SUBSET SUBSET Keys] /\ bits \in [Phase -> SUBSET Keys]
  BY <1>2, <1>3 DEF In
<1>5. Fresh(votes)
  BY <1>1, <1>2, <1>3 DEF Fresh, Disjoint
<1>6. /\ Record(votes, bits)
      /\ participants' = participants /\ roster' = roster /\ announced' = TRUE
  BY DEF Announce
<1>7. VotesInv'
  BY <1>4, <1>5, <1>6, RecordVotesInv DEF Inv
<1>8. Signers("Prepare")' = Signers("Prepare") \cup V /\ Signers("Commit")' = Signers("Commit")
  BY <1>1, <1>3, <1>4, <1>5, <1>6, RecordSigners
<1>9. /\ bitmap'["Prepare"] = bitmap["Prepare"] \cup SelfBits("Prepare")
      /\ bitmap'["Commit"] = bitmap["Commit"]
  BY <1>1, <1>6 DEF Record
<1>10. BitmapMatchesBallots'
  BY <1>2, <1>6, <1>8, <1>9 DEF Inv, BitmapMatchesBallots, InSync
<1>11. Mine' = Mine
  BY <1>6 DEF Mine
<1>12. InSync => Mine \subseteq Signers("Prepare")'
  BY <1>8, SelfVotedInSync DEF Inv, OwnVotes
<1>13. OwnVotes'
  BY <1>6, <1>8, <1>11, <1>12 DEF Inv, OwnVotes, InSync
<1>14. OwnCommitFollowsQuorum'
  <2> SUFFICES ASSUME InSync', (Weight[roster][Mine] <= QuorumThreshold)', IsQuorumAchieved("Prepare")'
               PROVE  Mine' \subseteq Signers("Commit")'
    BY DEF OwnCommitFollowsQuorum
  <2>1. InSync
    BY <1>6 DEF InSync
  <2>2. CASE announced
    <3>1. V = {}
      BY <2>1, <2>2, SelfVotedInSync DEF Inv, OwnVotes
    <3>2. IsQuorumAchieved("Prepare")
      <4>1. /\ tally'["Prepare"] = Weight[roster][Signers("Prepare")'] /\ tally["Prepare"] = Weight[roster][Signers("Prepare")]
            /\ quorumAchieved'["Prepare"] <=> tally'["Prepare"] > QuorumThreshold
            /\ quorumAchieved["Prepare"] <=> tally["Prepare"] > QuorumThreshold
        BY <1>6, <1>7 DEF Inv, VotesInv, TallyMatchesBallots
      <4> QED BY <1>8, <3>1, <4>1 DEF IsQuorumAchieved
    <3> QED BY <1>6, <1>8, <1>11, <2>1, <3>2 DEF Inv, OwnCommitFollowsQuorum
  <2>3. CASE ~announced
    <3>1. Signers("Prepare") = {}
      BY <2>1, <2>3 DEF Inv, BitmapMatchesBallots
    <3>2. Signers("Prepare")' = Mine
      BY <1>8, <2>1, <3>1, SelfVotedInSync
    <3>3. /\ tally'["Prepare"] = Weight[roster][Mine]
          /\ quorumAchieved'["Prepare"] <=> tally'["Prepare"] > QuorumThreshold
      BY <1>6, <1>7, <3>2 DEF VotesInv, TallyMatchesBallots
    <3>4. tally'["Prepare"] \in Nat /\ QuorumThreshold \in Nat
      BY <1>7, OneAssumption DEF VotesInv, TypeOK, QuorumThreshold
    <3> QED BY <1>6, <1>11, <3>3, <3>4 DEF IsQuorumAchieved
  <2> QED BY <2>2, <2>3
<1> QED BY <1>7, <1>10, <1>13, <1>14 DEF Inv

\* The bits of a vote are set when the committee is in sync.
LEMMA VoteBitsFacts ==
    ASSUME NEW keys \in SUBSET Keys
    PROVE  /\ VoteBits(keys) \in SUBSET Keys
           /\ InSync /\ keys \subseteq roster => VoteBits(keys) = keys
  BY DEF VoteBits, InSync

\* onPrepare, with didReachPrepareQuorum, preserves the invariant.
LEMMA OnPrepareStep ==
    ASSUME NEW keys \in OtherVotes, Inv, OnPrepare(keys) PROVE Inv'
<1> DEFINE reached == /\ tally["Prepare"] + Weight[roster][keys] > QuorumThreshold
                      /\ keys \subseteq participants
           own == IF reached THEN SelfVoted("Commit") ELSE {}
           ownBits == IF reached THEN SelfBits("Commit") ELSE {}
           votes == [Prepare |-> {keys}, Commit |-> Singletons(own)]
           bits == [Prepare |-> VoteBits(keys), Commit |-> ownBits]
<1>1. /\ Record(votes, bits) /\ announced
      /\ participants' = participants /\ roster' = roster /\ announced' = announced
      /\ keys \subseteq roster /\ keys \cap Signers("Prepare") = {}
  BY DEF OnPrepare, Accepts
<1>2. keys \subseteq Keys /\ keys \cap OwnKeys = {}
  BY DEF OtherVotes
<1>3. /\ own \subseteq roster /\ own \cap Signers("Commit") = {}
      /\ own \subseteq ownBits /\ ownBits \subseteq Mine /\ Mine \subseteq Keys
  BY SelfVotedFresh
<1>4. Disjoint(Singletons(own)) /\ UNION Singletons(own) = own
      /\ Singletons(own) \subseteq SUBSET roster /\ Singletons(own) \subseteq SUBSET Keys
  BY <1>3, SingletonsFacts
<1>5. votes["Prepare"] = {keys} /\ votes["Commit"] = Singletons(own)
      /\ bits["Prepare"] = VoteBits(keys) /\ bits["Commit"] = ownBits
  OBVIOUS
<1>6. votes \in [Phase -> SUBSET SUBSET Keys] /\ bits \in [Phase -> SUBSET Keys]
  <2>1. VoteBits(keys) \in SUBSET Keys /\ ownBits \in SUBSET Keys
    BY <1>2, <1>3, VoteBitsFacts
  <2>2. {keys} \in SUBSET SUBSET Keys /\ Singletons(own) \in SUBSET SUBSET Keys
    BY <1>2, <1>4
  <2> HIDE DEF own, ownBits
  <2> QED BY <2>1, <2>2
<1>7. Fresh(votes)
  <2>1. UNION {keys} = keys /\ Disjoint({keys}) /\ {keys} \subseteq SUBSET roster
    BY <1>1 DEF Disjoint
  <2> QED BY <1>1, <1>3, <1>4, <1>5, <2>1 DEF Fresh
<1> HIDE DEF votes, bits
<1>8. VotesInv'
  BY <1>1, <1>6, <1>7, RecordVotesInv DEF Inv, VotesInv, TypeOK
<1>9. Signers("Prepare")' = Signers("Prepare") \cup keys /\ Signers("Commit")' = Signers("Commit") \cup own
  <2>1. UNION {keys} = keys
    OBVIOUS
  <2> QED BY <1>1, <1>4, <1>5, <1>6, <1>7, <2>1, RecordSigners
<1>10. /\ bitmap'["Prepare"] = bitmap["Prepare"] \cup VoteBits(keys)
       /\ bitmap'["Commit"] = bitmap["Commit"] \cup ownBits
  BY <1>1, <1>5 DEF Record
<1>11. Mine' = Mine /\ InSync' = InSync
  BY <1>1 DEF Mine, InSync
<1>12. keys \cap Mine = {}
  BY <1>2 DEF Mine
<1>13. ASSUME InSync
       PROVE  \/ own = {} /\ ownBits = {} /\ ~reached
              \/ own = {} /\ reached /\ Mine \subseteq Signers("Commit")
              \/ own = Mine /\ ownBits = Mine /\ reached
  BY <1>13, SelfVotedInSync DEF Inv, OwnVotes
<1>14. BitmapMatchesBallots'
  <2> SUFFICES ASSUME InSync
               PROVE  /\ bitmap'["Commit"] = Signers("Commit")'
                      /\ Signers("Prepare")' \subseteq bitmap'["Prepare"]
                      /\ announced' \/ Signers("Prepare")' = {}
    BY <1>11 DEF BitmapMatchesBallots
  <2>1. VoteBits(keys) = keys
    BY <1>1, <1>2, VoteBitsFacts
  <2>2. Signers("Commit") \cup own = Signers("Commit") \cup ownBits
    BY <1>3, <1>13 DEF Inv
  <2> QED BY <1>1, <1>9, <1>10, <2>1, <2>2 DEF Inv, BitmapMatchesBallots
<1>15. OwnVotes'
  <2> SUFFICES ASSUME InSync
               PROVE  /\ \A p \in Phase : Mine \subseteq Signers(p)' \/ Mine \cap Signers(p)' = {}
                      /\ announced' => Mine \subseteq Signers("Prepare")'
    BY <1>11 DEF OwnVotes
  <2> QED BY <1>1, <1>9, <1>13 DEF Inv, OwnVotes
<1>16. OwnCommitFollowsQuorum'
  <2> SUFFICES ASSUME InSync, IsQuorumAchieved("Prepare")'
               PROVE  Mine \subseteq Signers("Commit")'
    BY <1>11 DEF OwnCommitFollowsQuorum
  <2>1. ~quorumAchieved["Prepare"]
    BY DEF OnPrepare, IsQuorumAchieved
  <2>2. UNION {keys} = keys
    OBVIOUS
  <2>3. quorumAchieved'["Prepare"] =
           (quorumAchieved["Prepare"] \/ tally["Prepare"] + Weight[roster][keys] > QuorumThreshold)
    BY <1>1, <1>5, <2>2 DEF Record
  <2>4. reached
    BY <1>1, <2>1, <2>3 DEF IsQuorumAchieved, InSync
  <2> QED BY <1>9, <1>13, <2>4
<1> QED BY <1>8, <1>14, <1>15, <1>16 DEF Inv

\* onCommit preserves the invariant.
LEMMA OnCommitStep ==
    ASSUME NEW keys \in OtherVotes, Inv, OnCommit(keys) PROVE Inv'
<1> DEFINE votes == In("Commit", {keys})
           bits == In("Commit", VoteBits(keys))
<1>1. /\ Record(votes, bits)
      /\ participants' = participants /\ roster' = roster /\ announced' = announced
      /\ keys \subseteq roster /\ keys \cap Signers("Commit") = {}
  BY DEF OnCommit, Accepts
<1>2. keys \subseteq Keys /\ keys \cap Mine = {}
  BY DEF OtherVotes, Mine
<1>3. /\ votes["Prepare"] = {} /\ votes["Commit"] = {keys}
      /\ bits["Prepare"] = {} /\ bits["Commit"] = VoteBits(keys)
  BY DEF In
<1>4. votes \in [Phase -> SUBSET SUBSET Keys] /\ bits \in [Phase -> SUBSET Keys]
  BY <1>2, VoteBitsFacts DEF In
<1>5. UNION {keys} = keys /\ Disjoint({keys}) /\ {keys} \subseteq SUBSET roster
  BY <1>1 DEF Disjoint
<1>6. Fresh(votes)
  BY <1>1, <1>3, <1>5 DEF Fresh, Disjoint
<1> HIDE DEF votes, bits
<1>7. VotesInv'
  BY <1>1, <1>4, <1>6, RecordVotesInv DEF Inv, VotesInv, TypeOK
<1>8. Signers("Prepare")' = Signers("Prepare") /\ Signers("Commit")' = Signers("Commit") \cup keys
  <2>1. \A p \in Phase : Signers(p)' = Signers(p) \cup UNION votes[p]
    BY <1>1, <1>4, <1>6, RecordSigners
  <2>2. UNION votes["Prepare"] = {} /\ UNION votes["Commit"] = keys
    BY <1>3
  <2> QED BY <2>1, <2>2
<1>9. /\ bitmap'["Prepare"] = bitmap["Prepare"]
      /\ bitmap'["Commit"] = bitmap["Commit"] \cup VoteBits(keys)
  BY <1>1, <1>3 DEF Record
<1>10. Mine' = Mine /\ InSync' = InSync
  BY <1>1 DEF Mine, InSync
<1>11. InSync => VoteBits(keys) = keys
  BY <1>1, <1>2, VoteBitsFacts
<1>12. BitmapMatchesBallots'
  BY <1>1, <1>8, <1>9, <1>10, <1>11 DEF Inv, BitmapMatchesBallots
<1>13. OwnVotes'
  BY <1>1, <1>2, <1>8, <1>10 DEF Inv, OwnVotes
<1>14. IsQuorumAchieved("Prepare")' = IsQuorumAchieved("Prepare")
  <2>1. /\ tally'["Prepare"] = tally["Prepare"]
        /\ quorumAchieved'["Prepare"] <=> tally'["Prepare"] > QuorumThreshold
        /\ quorumAchieved["Prepare"] <=> tally["Prepare"] > QuorumThreshold
    BY <1>1, <1>7, <1>8 DEF Inv, VotesInv, TallyMatchesBallots
  <2>2. quorumAchieved'["Prepare"] \in BOOLEAN /\ quorumAchieved["Prepare"] \in BOOLEAN
    BY <1>7 DEF Inv, VotesInv, TypeOK
  <2> QED BY <2>1, <2>2 DEF IsQuorumAchieved
<1>15. OwnCommitFollowsQuorum'
  BY <1>1, <1>8, <1>10, <1>14 DEF Inv, OwnCommitFollowsQuorum
<1> QED BY <1>7, <1>12, <1>13, <1>15 DEF Inv

\* resetState and updateConsensusInformation leave no votes behind.
LEMMA DiscardStep ==
    ASSUME Inv, \/ ResetState
                \/ \E c \in Committees, computed \in BOOLEAN : UpdateCommittee(c, computed)
    PROVE  Inv'
<1>1. /\ participants' \in Committees /\ roster' \in Committees /\ announced' = FALSE
      /\ ballots' = [p \in Phase |-> NoBallots] /\ tally' = [p \in Phase |-> 0]
      /\ quorumAchieved' = [p \in Phase |-> FALSE] /\ bitmap' = [p \in Phase |-> {}]
  BY DEF Inv, VotesInv, TypeOK, ResetState, UpdateCommittee
<1>2. VotesInv' /\ \A p \in Phase : Signers(p)' = {}
  BY <1>1, EmptyVotesInv
<1>3. BitmapMatchesBallots' /\ OwnVotes' /\ OwnCommitFollowsQuorum'
  BY <1>1, <1>2 DEF BitmapMatchesBallots, OwnVotes, OwnCommitFollowsQuorum, IsQuorumAchieved
<1> QED BY <1>2, <1>3 DEF Inv

\* selfCommit preserves the invariant.
LEMMA SelfCommitStep ==
    ASSUME NEW mask \in SUBSET participants, Inv, SelfCommit(mask) PROVE Inv'
<1> DEFINE voted == Mine \cap roster
<1>1. /\ participants' = participants /\ roster' = roster /\ announced' = FALSE
      /\ ballots' = [Prepare |-> NoBallots, Commit |-> WithBallots(NoBallots, Singletons(voted))]
      /\ tally' = [Prepare |-> 0, Commit |-> Weight[roster][voted]]
      /\ quorumAchieved' = [p \in Phase |-> tally'[p] > QuorumThreshold]
      /\ bitmap' = [Prepare |-> mask, Commit |-> Mine]
  BY DEF SelfCommit
<1>2. participants \in Committees /\ roster \in Committees
  BY DEF Inv, VotesInv, TypeOK
<1>2a. Mine \in SUBSET Keys /\ voted \in SUBSET Keys
  BY OwnKeysAssumption DEF Mine
<1>2b. mask \in SUBSET Keys
  BY <1>2, CommitteesAssumption
<1>3. Disjoint(Singletons(voted)) /\ UNION Singletons(voted) = voted
  BY SingletonsFacts
<1>4. Signers("Prepare")' = {} /\ Signers("Commit")' = voted
  BY <1>1, <1>3 DEF Signers, WithBallots, NoBallots
<1>5. \A k \in voted : ballots'["Commit"][k] = {k}
  <2> SUFFICES ASSUME NEW k \in voted PROVE WithBallots(NoBallots, Singletons(voted))[k] = {k}
    BY <1>1
  <2>1. {k} \in Singletons(voted) /\ k \in {k} \ DOMAIN NoBallots
    BY DEF Singletons, NoBallots
  <2> QED BY <1>3, <2>1, WithBallotsNew
<1>6. TypeOK'
  <2>1. DOMAIN ballots' = Phase
    BY <1>1
  <2>2. ballots'["Prepare"] \in [Signers("Prepare")' -> SUBSET Keys]
    BY <1>1, <1>4 DEF NoBallots
  <2>3. ballots'["Commit"] \in [Signers("Commit")' -> SUBSET Keys]
    <3>1. ballots'["Commit"] = [k \in Signers("Commit")' |-> ballots'["Commit"][k]]
      BY <1>1 DEF Signers, WithBallots
    <3>2. \A k \in Signers("Commit")' : ballots'["Commit"][k] \in SUBSET Keys
      BY <1>2a, <1>4, <1>5
    <3> QED BY <3>1, <3>2
  <2>4. Weight[roster][voted] \in Nat
    <3> HIDE DEF voted
    <3> QED BY <1>2, <1>2a, WeightAssumption
  <2>5. tally' \in [Phase -> Nat] /\ bitmap' \in [Phase -> SUBSET Keys]
        /\ quorumAchieved' \in [Phase -> BOOLEAN]
    <3>1. tally' \in [Phase -> Nat]
      BY <1>1, <2>4
    <3>2. bitmap' \in [Phase -> SUBSET Keys]
      <4>1. bitmap' = [Prepare |-> mask, Commit |-> Mine]
        BY <1>1
      <4> QED BY <1>2a, <1>2b, <4>1
    <3>3. quorumAchieved' \in [Phase -> BOOLEAN]
      BY <1>1
    <3> QED BY <3>1, <3>2, <3>3
  <2> QED BY <1>1, <1>2, <1>4, <2>1, <2>2, <2>3, <2>5 DEF TypeOK
<1>7. TallyMatchesBallots'
  <2>1. /\ Signers("Prepare")' \subseteq roster'
        /\ tally'["Prepare"] = Weight[roster'][Signers("Prepare")']
    BY <1>1, <1>2, <1>4, WeightAssumption
  <2>2. /\ Signers("Commit")' \subseteq roster'
        /\ tally'["Commit"] = Weight[roster'][Signers("Commit")']
    BY <1>1, <1>4
  <2>3. \A p \in Phase : quorumAchieved'[p] <=> tally'[p] > QuorumThreshold
    BY <1>1
  <2> QED BY <2>1, <2>2, <2>3 DEF TallyMatchesBallots
<1>8. BallotsPartition'
  BY <1>4, <1>5 DEF BallotsPartition
<1>9. Mine' = Mine /\ InSync' = InSync /\ (InSync => voted = Mine)
  BY <1>1 DEF Mine, InSync
<1>10. BitmapMatchesBallots' /\ OwnVotes'
  BY <1>1, <1>4, <1>9 DEF BitmapMatchesBallots, OwnVotes
<1>11. OwnCommitFollowsQuorum'
  BY <1>4, <1>9 DEF OwnCommitFollowsQuorum
<1> QED BY <1>6, <1>7, <1>8, <1>10, <1>11 DEF Inv, VotesInv

----------------------------------------------------------------------------
(* The theorems *)

\* The invariant is inductive.
LEMMA InvInit == Init => Inv
<1> SUFFICES ASSUME Init PROVE Inv
  OBVIOUS
<1> USE KeysAssumption, OneAssumption, CommitteesAssumption DEF Init
<1>1. \A p \in Phase : Signers(p) = {} /\ tally[p] = 0 /\ quorumAchieved[p] = FALSE
  BY DEF Signers, NoBallots
<1>2. \A p \in Phase : ballots[p] \in [Signers(p) -> SUBSET Keys]
  BY <1>1 DEF NoBallots
<1>3. TypeOK
  BY <1>1, <1>2 DEF TypeOK
<1>4. Weight[roster][{}] = 0 /\ QuorumThreshold \in Nat
  BY WeightAssumption DEF QuorumThreshold
<1>5. TallyMatchesBallots
  <2> SUFFICES ASSUME NEW p \in Phase
               PROVE  /\ Signers(p) \subseteq roster
                      /\ tally[p] = Weight[roster][Signers(p)]
                      /\ quorumAchieved[p] <=> tally[p] > QuorumThreshold
    BY DEF TallyMatchesBallots
  <2>1. Signers(p) = {} /\ tally[p] = 0 /\ quorumAchieved[p] = FALSE
    BY <1>1
  <2>2. Weight[roster][Signers(p)] = 0
    BY <1>4, <2>1
  <2> QED BY <1>4, <2>1, <2>2
<1>6. BallotsPartition
  BY <1>1 DEF BallotsPartition
<1>7. BitmapMatchesBallots /\ OwnVotes /\ OwnCommitFollowsQuorum
  BY <1>1 DEF BitmapMatchesBallots, OwnVotes, OwnCommitFollowsQuorum, IsQuorumAchieved
<1> QED BY <1>3, <1>5, <1>6, <1>7 DEF Inv, VotesInv

\* Every step, stuttering included, preserves the invariant.
LEMMA InvNext == Inv /\ [Next]_vars => Inv'
<1> SUFFICES ASSUME Inv, [Next]_vars PROVE Inv'
  OBVIOUS
<1>1. CASE Announce
  BY <1>1, AnnounceStep
<1>2. CASE \E keys \in OtherVotes : OnPrepare(keys)
  BY <1>2, OnPrepareStep
<1>3. CASE \E keys \in OtherVotes : OnCommit(keys)
  BY <1>3, OnCommitStep
<1>4. CASE ResetState
  BY <1>4, DiscardStep
<1>5. CASE \E mask \in SUBSET participants : SelfCommit(mask)
  BY <1>5, SelfCommitStep
<1>6. CASE \E c \in Committees, computed \in BOOLEAN : UpdateCommittee(c, computed)
  BY <1>6, DiscardStep
<1>7. CASE UNCHANGED vars
  BY <1>7 DEF vars, Inv, VotesInv, TypeOK, TallyMatchesBallots, BallotsPartition,
      BitmapMatchesBallots, OwnVotes, OwnCommitFollowsQuorum, IsQuorumAchieved,
      Signers, InSync, Mine
<1> QED BY <1>1, <1>2, <1>3, <1>4, <1>5, <1>6, <1>7 DEF Next

\* The inductive invariant holds in every reachable state.
THEOREM Invariance == Spec => []Inv
  BY InvInit, InvNext, PTL DEF Spec

\* Type correctness of the decider's state.
THEOREM TypeCorrect == Spec => []TypeOK
<1>1. Inv => TypeOK
  BY DEF Inv, VotesInv
<1> QED BY <1>1, Invariance, PTL

\* AddNewVote counts the power of every signer once, and the cached quorum flag is
\* the comparison of that power with two thirds.
THEOREM TallyCorrect == Spec => []TallyMatchesBallots
<1>1. Inv => TallyMatchesBallots
  BY DEF Inv, VotesInv
<1> QED BY <1>1, Invariance, PTL

\* submitVote keeps the ballots of a phase a partition of the signers.
THEOREM PartitionCorrect == Spec => []BallotsPartition
<1>1. Inv => BallotsPartition
  BY DEF Inv, VotesInv
<1> QED BY <1>1, Invariance, PTL

\* The bitmaps beside the decider name the signers of its ballots.
THEOREM BitmapCorrect == Spec => []BitmapMatchesBallots
<1>1. Inv => BitmapMatchesBallots
  BY DEF Inv
<1> QED BY <1>1, Invariance, PTL

\* The leader's own COMMIT votes follow the PREPARE quorum.
THEOREM OwnCommitCorrect == Spec => []OwnCommitFollowsQuorum
<1>1. Inv => OwnCommitFollowsQuorum
  BY DEF Inv
<1> QED BY <1>1, Invariance, PTL

\* Voting power is monotone in the set of keys.
LEMMA WeightMonotone ==
    ASSUME NEW c \in Committees, NEW S \in SUBSET Keys, NEW T \in SUBSET Keys, S \subseteq T
    PROVE  Weight[c][S] <= Weight[c][T]
<1>1. S \cap (T \ S) = {} /\ S \cup (T \ S) = T
  OBVIOUS
<1>2. Weight[c][T] = Weight[c][S] + Weight[c][T \ S]
  <2>1. T \ S \in SUBSET Keys
    OBVIOUS
  <2>2. Weight[c][S \cup (T \ S)] = Weight[c][S] + Weight[c][T \ S]
    BY <1>1, <2>1, WeightAssumption
  <2> QED BY <1>1, <2>2
<1>3. Weight[c][S] \in Nat /\ Weight[c][T \ S] \in Nat
  BY WeightAssumption
<1> QED BY <1>2, <1>3

\* A quorum the leader counts is a quorum every validator verifies from the bitmap.
THEOREM QuorumVerifiableCorrect == Spec => []QuorumVerifiable
<1>1. Inv => QuorumVerifiable
  <2> SUFFICES ASSUME Inv, InSync, NEW p \in Phase, quorumAchieved[p]
               PROVE  Weight[roster][bitmap[p] \cap roster] > QuorumThreshold
    BY DEF QuorumVerifiable, IsQuorumAchieved, IsQuorumAchievedByMask, PowerOf
  <2>1. /\ Signers(p) \subseteq bitmap[p] \cap roster
        /\ tally[p] = Weight[roster][Signers(p)] /\ tally[p] > QuorumThreshold
    BY DEF Inv, VotesInv, TallyMatchesBallots, BitmapMatchesBallots
  <2>2. roster \in Committees /\ bitmap[p] \cap roster \in SUBSET Keys /\ Signers(p) \in SUBSET Keys
    BY DEF Inv, VotesInv, TypeOK
  <2>3. Weight[roster][Signers(p)] <= Weight[roster][bitmap[p] \cap roster]
    BY <2>1, <2>2, WeightMonotone
  <2>4. Weight[roster][Signers(p)] \in Nat /\ Weight[roster][bitmap[p] \cap roster] \in Nat
    BY <2>2, WeightAssumption
  <2>5. QuorumThreshold \in Nat
    BY OneAssumption DEF QuorumThreshold
  <2> QED BY <2>1, <2>3, <2>4, <2>5
<1> QED BY <1>1, Invariance, PTL

\* SetVoters and updatePublicKeys discard the votes of the previous committee.
THEOREM CommitteeChangeCorrect == Spec => CommitteeChangeDiscardsVotes
<1>1. [Next]_vars => [DiscardsOnChange]_vars
  BY DEF Next, vars, DiscardsOnChange, Announce, OnPrepare, OnCommit, ResetState, SelfCommit, UpdateCommittee
<1> QED BY <1>1, PTL DEF Spec, CommitteeChangeDiscardsVotes

\* The threshold of stakedVoteWeight makes any two quorums of a committee share
\* more than a third of the voting power, whatever the rounding of two thirds.
THEOREM QuorumIntersection ==
    ASSUME NEW c \in Committees, NEW A \in SUBSET c, NEW B \in SUBSET c,
           Weight[c][A] > QuorumThreshold, Weight[c][B] > QuorumThreshold
    PROVE  3 * Weight[c][A \cap B] > One
<1> DEFINE a == Weight[c][A]  b == Weight[c][B]  r == Weight[c][B \ A]
           i == Weight[c][A \cap B]  u == Weight[c][A \cup B]  w == Weight[c][c]
<1>1. c \in SUBSET Keys /\ A \in SUBSET Keys /\ B \in SUBSET Keys /\ B \ A \in SUBSET Keys
      /\ A \cap B \in SUBSET Keys /\ A \cup B \in SUBSET Keys
  BY CommitteesAssumption
<1>2. a \in Nat /\ b \in Nat /\ r \in Nat /\ i \in Nat /\ u \in Nat /\ w \in Nat
  BY <1>1, WeightAssumption
<1>3. u = a + r
  <2>1. A \cap (B \ A) = {} /\ A \cup (B \ A) = A \cup B
    OBVIOUS
  <2>2. Weight[c][A \cup (B \ A)] = a + r
    BY <1>1, <2>1, WeightAssumption
  <2> QED BY <2>1, <2>2
<1>4. b = i + r
  <2>1. (A \cap B) \cap (B \ A) = {} /\ (A \cap B) \cup (B \ A) = B
    OBVIOUS
  <2>2. Weight[c][(A \cap B) \cup (B \ A)] = i + r
    BY <1>1, <2>1, WeightAssumption
  <2> QED BY <2>1, <2>2
<1>5. u <= w /\ w <= One
  <2>1. A \cup B \subseteq c
    OBVIOUS
  <2> QED BY <1>1, <2>1, WeightMonotone, WeightAssumption
<1>6. QuorumThreshold \in Nat /\ 6 * QuorumThreshold + 5 >= 4 * One + 3
  BY OneAssumption DEF QuorumThreshold
<1>7. a > QuorumThreshold /\ b > QuorumThreshold
  OBVIOUS
<1> HIDE DEF a, b, r, i, u, w
<1>8. 3 * i > One
  BY <1>2, <1>3, <1>4, <1>5, <1>6, <1>7, OneAssumption
<1> QED BY <1>8 DEF i

-----------------------------------------------------------------------------
(* Aggregating the votes.                                                  *)

\* One round of the loop of AggregateVotes.
Take(sigs, ballot) ==
    IF \E i \in DOMAIN sigs : sigs[i] \cap ballot # {} THEN sigs ELSE Append(sigs, ballot)

\* The signatures taken from the first k ballots of B: each of them once.
Exact(sigs, B, k, U) ==
    /\ sigs \in Seq(U)
    /\ \A a \in DOMAIN sigs : \E j \in 1..k : sigs[a] = B[j]
    /\ \A j \in 1..k : \E a \in DOMAIN sigs : sigs[a] = B[j]
    /\ \A a, b \in DOMAIN sigs : a # b => sigs[a] \cap sigs[b] = {}

\* Ballots that do not overlap unless they are the same.
Ballots(B, n, U) ==
    /\ B \in [1..n -> U]
    /\ \A i, j \in 1..n : B[i] \cap B[j] # {} => B[i] = B[j]
    /\ \A i \in 1..n : B[i] # {}

\* A round of the loop takes the ballot or finds it taken.
LEMMA TakeOne ==
    ASSUME NEW U, NEW n \in Nat, NEW B, Ballots(B, n, U),
           NEW k \in 1..n, NEW sigs, Exact(sigs, B, k - 1, U)
    PROVE  Exact(Take(sigs, B[k]), B, k, U)
<1>1. sigs \in Seq(U) /\ Len(sigs) \in Nat /\ DOMAIN sigs = 1..Len(sigs) /\ B[k] \in U
  BY DEF Exact, Ballots
<1>2. 1..k = 1..(k - 1) \cup {k}
  OBVIOUS
<1>3. CASE \E i \in DOMAIN sigs : sigs[i] \cap B[k] # {}
  <2>1. PICK i \in DOMAIN sigs : sigs[i] \cap B[k] # {}
    BY <1>3
  <2>2. PICK j \in 1..(k - 1) : sigs[i] = B[j]
    BY <2>1 DEF Exact
  <2>3. sigs[i] = B[k]
    BY <2>1, <2>2 DEF Ballots
  <2>4. Take(sigs, B[k]) = sigs
    BY <1>3 DEF Take
  <2> QED BY <1>2, <2>1, <2>3, <2>4 DEF Exact
<1>4. CASE \A i \in DOMAIN sigs : sigs[i] \cap B[k] = {}
  <2> DEFINE more == Append(sigs, B[k])  m == Len(sigs) + 1
  <2>1. Take(sigs, B[k]) = more
    BY <1>4 DEF Take
  <2>2. /\ more \in Seq(U) /\ DOMAIN more = 1..Len(sigs) \cup {m} /\ more[m] = B[k]
        /\ \A a \in 1..Len(sigs) : more[a] = sigs[a]
    BY <1>1
  <2> HIDE DEF more, m
  <2>3. \A a \in DOMAIN more : \E j \in 1..k : more[a] = B[j]
    BY <1>1, <1>2, <2>2 DEF Exact
  <2>4. \A j \in 1..k : \E a \in DOMAIN more : more[a] = B[j]
    BY <1>1, <1>2, <2>2 DEF Exact
  <2>5. \A a, b \in DOMAIN more : a # b => more[a] \cap more[b] = {}
    BY <1>1, <1>4, <2>2 DEF Exact
  <2> QED BY <2>1, <2>2, <2>3, <2>4, <2>5 DEF Exact
<1> QED BY <1>3, <1>4

\* The whole loop takes each ballot once.
LEMMA TakeAll ==
    ASSUME NEW U, NEW n \in Nat, NEW B, Ballots(B, n, U), NEW f,
           f[0] = <<>>, \A i \in 1..n : f[i] = Take(f[i - 1], B[i])
    PROVE  Exact(f[n], B, n, U)
<1> DEFINE Bad == {k \in 0..n : ~Exact(f[k], B, k, U)}
<1>1. Exact(f[0], B, 0, U)
  <2>1. <<>> \in Seq(U) /\ DOMAIN <<>> = {} /\ 1..0 = {}
    OBVIOUS
  <2> QED BY <2>1 DEF Exact
<1>2. ASSUME Bad # {} PROVE FALSE
  <2>1. Bad \subseteq Nat
    OBVIOUS
  <2>2. PICK m \in Bad : \A y \in Bad : m <= y
    <3> HIDE DEF Bad
    <3> QED BY <1>2, <2>1, MinOfNat, Zenon
  <2>3. m \in 1..n /\ m - 1 \in 0..n /\ m - 1 \notin Bad
    BY <1>1, <2>2
  <2>4. Exact(f[m - 1], B, m - 1, U) /\ ~Exact(f[m], B, m, U)
    BY <2>2, <2>3
  <2>5. f[m] = Take(f[m - 1], B[m])
    BY <2>3
  <2> QED BY <2>3, <2>4, <2>5, TakeOne
<1> QED BY <1>2

\* The values of that loop in AggregateVotes.
Collects(f, p, order) ==
    /\ f[0] = <<>>
    /\ \A i \in 1..Len(order) : f[i] = Take(f[i - 1], ballots[p][order[i]])
    /\ AggregateVotes(p, order) = f[Len(order)]

\* AggregateVotes is the last value of that loop.
LEMMA AggregateLoop ==
    ASSUME NEW p, NEW order, Len(order) \in Nat,
           \A i \in 1..Len(order) : ballots[p][order[i]] \in SUBSET Keys
    PROVE  \E f : Collects(f, p, order)
<1> DEFINE n == Len(order)
<1>0. n \in Nat /\ \A i \in 1..n : ballots[p][order[i]] \in SUBSET Keys
  OBVIOUS
<1> DEFINE S == Seq(SUBSET Keys)
           F == [i \in 1..n |-> [sigs \in S |-> Take(sigs, ballots[p][order[i]])]]
           Loop(f) == f = [i \in 0..n |->
               IF i = 0 THEN <<>>
               ELSE LET sigs == f[i - 1]
                        ballot == ballots[p][order[i]]
                    IN  IF \E j \in DOMAIN sigs : sigs[j] \cap ballot # {}
                        THEN sigs ELSE Append(sigs, ballot)]
<1>1. F \in Steps(n, S)
  <2>1. ASSUME NEW i \in 1..n, NEW sigs \in S PROVE Take(sigs, ballots[p][order[i]]) \in S
    BY <1>0 DEF Take
  <2> QED BY <2>1 DEF Steps
<1>2. <<>> \in S
  OBVIOUS
<1>3. PICK f : Values(f, n, S, <<>>, F)
  <2> HIDE DEF F, S, n
  <2> QED BY <1>0, <1>1, <1>2, Iteration, Zenon
<1>4. Loop(f)
  <2> HIDE DEF n
  <2>1. f \in [0..n -> S] /\ f[0] = <<>>
    BY <1>3 DEF Values
  <2>2. ASSUME NEW i \in 1..n PROVE f[i] = Take(f[i - 1], ballots[p][order[i]])
    <3>1. i - 1 \in 0..n
      BY <1>0
    <3>2. f[i - 1] \in S /\ f[i] = F[i][f[i - 1]]
      <4> HIDE DEF S, F
      <4> QED BY <1>3, <2>1, <3>1 DEF Values
    <3> QED BY <3>2
  <2>3. \A i \in 0..n : i = 0 \/ i \in 1..n
    BY <1>0
  <2> HIDE DEF S
  <2> QED BY <2>1, <2>2, <2>3 DEF Take
<1> DEFINE g == CHOOSE h : Loop(h)
<1>5. Loop(g)
  <2> HIDE DEF Loop
  <2> QED BY <1>4, Zenon
<1>6. AggregateVotes(p, order) = g[n]
  BY DEF AggregateVotes
<1> HIDE DEF g, n
<1>7. g[0] = <<>>
  BY <1>0, <1>5
<1>8. ASSUME NEW i \in 1..n PROVE g[i] = Take(g[i - 1], ballots[p][order[i]])
  <2>1. i \in 0..n /\ i # 0
    BY <1>0
  <2> QED BY <1>5, <2>1 DEF Take
<1> QED BY <1>6, <1>7, <1>8 DEF Collects, n

\* An order of a finite set of keys names each of them.
LEMMA OrderNamesAll ==
    ASSUME NEW S \in SUBSET Keys, NEW order \in Orders[S]
    PROVE  /\ Len(order) \in Nat /\ order \in [1..Len(order) -> S]
           /\ \A k \in S : \E i \in 1..Len(order) : order[i] = k
<1> DEFINE n == Cardinality(S)
<1>1. IsFiniteSet(S) /\ n \in Nat
  BY KeysAssumption, FS_Subset, FS_CardinalityType
<1>2. order \in [1..n -> S] /\ \A i, j \in 1..n : i # j => order[i] # order[j]
  BY DEF Orders, SetToSeqs
<1>3. order \in Injection(1..n, S)
  BY <1>2 DEF Injection, IsInjective
<1>4. IsFiniteSet(1..n) /\ Cardinality(1..n) = n
  BY <1>1, FS_Interval
<1>5. order \in Surjection(1..n, S)
  BY <1>1, <1>3, <1>4, FS_Injection
<1> HIDE DEF n
<1>6. Len(order) = n
  BY <1>1, <1>2
<1> QED BY <1>1, <1>2, <1>5, <1>6 DEF Surjection

\* AggregateVotes ranges over a Go map: whatever the order, the aggregated signature
\* holds the signature of each signer once and of nobody else.
THEOREM AggregateCorrect == Spec => []AggregateExact
<1>1. ASSUME Inv, NEW p \in Phase, NEW order \in Orders[Signers(p)]
      PROVE  LET sigs == AggregateVotes(p, order)
             IN  /\ UNION {sigs[i] : i \in DOMAIN sigs} = Signers(p)
                 /\ \A i, j \in DOMAIN sigs : i # j => sigs[i] \cap sigs[j] = {}
  <2> DEFINE n == Len(order)  B == [i \in 1..n |-> ballots[p][order[i]]]  U == SUBSET Keys
  <2>1. /\ Signers(p) \in SUBSET Keys /\ ballots[p] \in [Signers(p) -> U]
        /\ \A k \in Signers(p) :
              /\ k \in ballots[p][k] /\ ballots[p][k] \subseteq Signers(p)
              /\ \A j \in ballots[p][k] : ballots[p][j] = ballots[p][k]
    BY <1>1 DEF Inv, VotesInv, TypeOK, BallotsPartition
  <2>2. /\ n \in Nat /\ order \in [1..n -> Signers(p)]
        /\ \A k \in Signers(p) : \E i \in 1..n : order[i] = k
    BY <1>1, <2>1, OrderNamesAll
  <2> HIDE DEF n
  <2>3. Ballots(B, n, U)
    BY <2>1, <2>2 DEF Ballots
  <2>a. PICK f : Collects(f, p, order)
    <3>1. \A i \in 1..n : ballots[p][order[i]] \in SUBSET Keys
      BY <2>1, <2>2
    <3> QED BY <2>2, <3>1, AggregateLoop DEF n
  <2>4. /\ f[0] = <<>> /\ \A i \in 1..n : f[i] = Take(f[i - 1], ballots[p][order[i]])
        /\ AggregateVotes(p, order) = f[n]
    BY <2>a DEF Collects, n
  <2>5. \A i \in 1..n : B[i] = ballots[p][order[i]]
    OBVIOUS
  <2>6. Exact(f[n], B, n, U)
    <3> HIDE DEF B, U
    <3>1. \A i \in 1..n : f[i] = Take(f[i - 1], B[i])
      BY <2>4, <2>5
    <3> QED BY <2>2, <2>3, <2>4, <3>1, TakeAll
  <2> DEFINE sigs == AggregateVotes(p, order)
  <2>7. Exact(sigs, B, n, U)
    BY <2>4, <2>6
  <2> HIDE DEF sigs
  <2>8. UNION {sigs[i] : i \in DOMAIN sigs} = Signers(p)
    <3>1. ASSUME NEW k \in Signers(p) PROVE \E i \in DOMAIN sigs : k \in sigs[i]
      <4>1. PICK i \in 1..n : order[i] = k
        BY <2>2
      <4>2. PICK a \in DOMAIN sigs : sigs[a] = B[i]
        BY <2>7 DEF Exact
      <4> QED BY <2>1, <2>5, <4>1, <4>2
    <3>2. ASSUME NEW i \in DOMAIN sigs PROVE sigs[i] \subseteq Signers(p)
      <4>1. PICK j \in 1..n : sigs[i] = B[j]
        BY <2>7 DEF Exact
      <4> QED BY <2>1, <2>2, <2>5, <4>1
    <3> QED BY <3>1, <3>2
  <2>9. \A i, j \in DOMAIN sigs : i # j => sigs[i] \cap sigs[j] = {}
    BY <2>7 DEF Exact
  <2> QED BY <2>8, <2>9 DEF sigs
<1>2. Inv => AggregateExact
  BY <1>1 DEF AggregateExact
<1> QED BY <1>2, Invariance, PTL
=============================================================================
