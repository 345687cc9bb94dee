------------------------------ MODULE MCLeader ------------------------------
(***************************************************************************)
(* What a leader runs besides the handlers of FBFT: the vote decider, the  *)
(* rotation of leaders and their views, the proposals and the retries of   *)
(* messages.  Each behaviour is one of a single part, named by the         *)
(* variable part; the variables of the others keep their first value.      *)
(*                                                                         *)
(* The decider has five slots.  The leader holds slots 1 and 2 (one        *)
(* account); slots 3 and 4 belong to another account and sign together;    *)
(* slot 5 is an Intelchain node's.  The voting powers are such that the    *)
(* quorum of the first committee needs a vote of every size and that the   *)
(* second committee shares part of its members.                            *)
(***************************************************************************)
EXTENDS Decider

MCKeys == 1..5

MCAccount == <<"a", "a", "b", "b", "c">>

MCCommittees == {{1, 2, 3, 4, 5}, {1, 3, 4}}

Power == [c \in MCCommittees |->
            IF c = {1, 3, 4} THEN <<33, 0, 34, 33, 0>> ELSE <<20, 14, 17, 16, 33>>]

MCWeight ==
    [c \in MCCommittees |->
        [S \in SUBSET MCKeys |->
            LET At(k) == IF k \in S THEN Power[c][k] ELSE 0
            IN  At(1) + At(2) + At(3) + At(4) + At(5)]]

VARIABLE part

deciderVars == vars

-----------------------------------------------------------------------------
(* LeaderRotation: one key per validator.  Keys come and go and views change *)
(* under any leader; keys come and go; and external validators lead.         *)

VARIABLES leader, proposer, coinbase, count, position, signers, bitmaps, silent

Rotation == INSTANCE LeaderRotation WITH
    NumKeys <- 6, Owner <- [k \in 0..5 |-> k], NumItcNodes <- 4, External <- FALSE,
    BlocksInRow <- 2, BlocksCountAliveness <- 2, EpochLength <- 7,
    Alive <- {0, 1}, Flaky <- {2, 4}, MaxGap <- 2, Impatient <- TRUE

Patient == INSTANCE LeaderRotation WITH
    NumKeys <- 6, Owner <- [k \in 0..5 |-> k], NumItcNodes <- 4, External <- FALSE,
    BlocksInRow <- 3, BlocksCountAliveness <- 2, EpochLength <- 8,
    Alive <- {0, 1, 3}, Flaky <- {4}, MaxGap <- 1, Impatient <- FALSE

Outside == INSTANCE LeaderRotation WITH
    NumKeys <- 6, Owner <- [k \in 0..5 |-> k], NumItcNodes <- 2, External <- TRUE,
    BlocksInRow <- 3, BlocksCountAliveness <- 2, EpochLength <- 31,
    Alive <- {0, 1, 2, 4}, Flaky <- {}, MaxGap <- 1, Impatient <- FALSE

rotationVars == <<leader, proposer, coinbase, count, position, signers, bitmaps, silent>>

RotationInit ==
    CASE part = "patient" -> Patient!Init
      [] part = "outside" -> Outside!Init
      [] part = "rotation" -> Rotation!Init
      [] OTHER -> Rotation!Init /\ leader = 0

-----------------------------------------------------------------------------
(* ViewClock: one unit of time is nine seconds, so that the timeout of 27 s  *)
(* is 3 and the slot of 45 s is 5.                                           *)

VARIABLES now, clockHead, timer, changing, vcID, clockLeader

Clock == INSTANCE ViewClock WITH
    Nodes <- 1..3, Behind <- [n \in 1..3 |-> 0], NumOperated <- 3,
    PhaseTimeout <- 3, ViewChangeTimeout <- 3, ViewChangeSlot <- 5, MaxTime <- 18,
    head <- clockHead, leader <- clockLeader

Skewed == INSTANCE ViewClock WITH
    Nodes <- 1..3, Behind <- <<0, 2, 6>>, NumOperated <- 3,
    PhaseTimeout <- 3, ViewChangeTimeout <- 3, ViewChangeSlot <- 5, MaxTime <- 18,
    head <- clockHead, leader <- clockLeader

clockVars == <<now, clockHead, timer, changing, vcID, clockLeader>>

ClockInit == Clock!Init /\ (part \notin {"clock", "skewed"} => \A n \in 1..3 : timer[n] = 1)

-----------------------------------------------------------------------------
(* Proposal: attempts that fail and blocks inserted from the log after a     *)
(* sync, over an epoch's end; and a leader that is left alone for longer.    *)

VARIABLES head, sigKnown, blockNum, leads, phase, preCommits, senders, held, signals,
          loop, receiver, waiting, changes, due

Proposals == INSTANCE Proposal WITH
    EpochEnds <- {3}, AttemptsFail <- TRUE, LastMile <- TRUE,
    MaxHeight <- 3, MaxChanges <- 1, MaxSignals <- 1, leader <- leads, proposer <- loop

Alone == INSTANCE Proposal WITH
    EpochEnds <- {3}, AttemptsFail <- FALSE, LastMile <- FALSE,
    MaxHeight <- 4, MaxChanges <- 1, MaxSignals <- 1, leader <- leads, proposer <- loop

proposalVars == <<head, sigKnown, blockNum, leads, phase, preCommits, senders, held,
                  signals, loop, receiver, waiting, changes, due>>

-----------------------------------------------------------------------------
(* MessageSender: three blocks.                                              *)

VARIABLES senderBlockNum, messagesToRetry, active, watched, retry, retryCount, late,
          step, storing, preCommit

Sender == INSTANCE MessageSender WITH RetryTimes <- 3, Blocks <- 3

senderVars == <<senderBlockNum, messagesToRetry, active, watched, retry, retryCount,
                late, step, storing, preCommit>>

SenderInit ==
    Sender!Init /\ (part # "sender" => watched = Sender!Message("ANNOUNCE", 1, FALSE))

-----------------------------------------------------------------------------
Parts == {"decider", "rotation", "patient", "outside", "clock", "skewed",
          "proposals", "undisturbed", "sender"}

LeaderVars ==
    <<part, deciderVars, rotationVars, clockVars, proposalVars, senderVars>>

LeaderInit ==
    /\ part \in Parts
    /\ Init /\ (part # "decider" => participants = MCKeys)
    /\ RotationInit /\ ClockInit /\ Proposals!Init /\ SenderInit

LeaderNext ==
    /\ UNCHANGED part
    /\ \/ /\ part = "decider" /\ Next
          /\ UNCHANGED <<rotationVars, clockVars, proposalVars, senderVars>>
       \/ /\ \/ part = "rotation" /\ Rotation!Next
             \/ part = "patient" /\ Patient!Next
             \/ part = "outside" /\ Outside!Next
          /\ UNCHANGED <<deciderVars, clockVars, proposalVars, senderVars>>
       \/ /\ \/ part = "clock" /\ Clock!Next
             \/ part = "skewed" /\ Skewed!Next
          /\ UNCHANGED <<deciderVars, rotationVars, proposalVars, senderVars>>
       \/ /\ \/ part = "proposals" /\ Proposals!Next
             \/ part = "undisturbed" /\ Alone!Next
          /\ UNCHANGED <<deciderVars, rotationVars, clockVars, senderVars>>
       \/ /\ part = "sender" /\ Sender!Next
          /\ UNCHANGED <<deciderVars, rotationVars, clockVars, proposalVars>>

\* Fairness of LeaderRotation, of Proposal and of MessageSender, each in its part.
RotationFair ==
    /\ WF_rotationVars(part = "patient" /\ \E some \in SUBSET {4} : Patient!Commit({0, 1, 3} \cup some))
    /\ SF_rotationVars(part = "patient" /\ Patient!ViewChange(1))
    /\ WF_rotationVars(part = "outside" /\ Outside!Commit({0, 1, 2, 4}))
    /\ SF_rotationVars(part = "outside" /\ Outside!ViewChange(1))

Undisturbed(A) == part = "undisturbed" /\ A

ProposalFair ==
    /\ WF_proposalVars(Undisturbed(Alone!TakeSignal))
    /\ WF_proposalVars(Undisturbed(Alone!StartAttempt))
    /\ WF_proposalVars(Undisturbed(Alone!UpdateCurrent))
    /\ WF_proposalVars(Undisturbed(Alone!Finalize))
    /\ WF_proposalVars(Undisturbed(Alone!ReceiverTimeout))
    /\ WF_proposalVars(Undisturbed(Alone!BlockCommitSigs))
    /\ WF_proposalVars(Undisturbed(Alone!WaitingTimeout))
    /\ WF_proposalVars(Undisturbed(Alone!Announce))
    /\ WF_proposalVars(Undisturbed(Alone!PreCommitSteps))
    /\ WF_proposalVars(Undisturbed(Alone!SendTimeout))
    /\ WF_proposalVars(Undisturbed(\E stays \in BOOLEAN : Alone!FinalCommit(stays)))

SenderFair ==
    /\ WF_senderVars(part = "sender" /\ \E b \in 1..3 : Sender!PreCommitAndPropose(b))
    /\ WF_senderVars(part = "sender" /\ Sender!Retry)

LeaderSpec ==
    /\ LeaderInit /\ [][LeaderNext]_LeaderVars
    /\ RotationFair /\ ProposalFair /\ SenderFair

-----------------------------------------------------------------------------
\* A leader that has had its run hands over to a key that signed one of the latest
\* blocks (rotateLeader), whoever signs and whenever a view changes.
RotatesToSigner == Rotation!RotatesToSigner

\* Every key that keeps signing and may lead does lead again and again (rotateLeader,
\* NthNextItc and NthNextValidator).
EveryoneLeads ==
    /\ \A k \in {0, 1, 3} : []<>(part = "patient" => leader = k)
    /\ \A k \in {0, 1, 2, 4} : []<>(part = "outside" => leader = k)

\* Nodes stuck on a block all change to the view of a slot and follow its leader by
\* the end of the slot (getNextViewID).
NodesMeet == part = "clock" => Clock!NodesMeet

\* A proposed block carries the commit signatures of its parent (WaitForConsensusReadyV2,
\* finalCommit), whatever receivers and senders are left over.
CarriesParentSigs == Proposals!CarriesParentSigs

\* A leader that has committed a block goes on to announce the next one.
GoesOn ==
    \A n \in 2..4 : (part = "undisturbed" /\ leads /\ phase = "quorum" /\ blockNum = n)
                     ~> (~leads \/ phase = "voting" \/ blockNum > n + 1)

\* A message of an earlier round is sent at most once after Reset (SendWithRetry, Retry).
StopsWithRound == Sender!StopsWithRound
=============================================================================
