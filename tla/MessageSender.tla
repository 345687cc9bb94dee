--------------------------- MODULE MessageSender ---------------------------
(***************************************************************************)
(* The sender of consensus messages (consensus_msg_sender.go) as a leader  *)
(* uses it: every message of a round is sent and then sent again every few *)
(* seconds by a goroutine of its own, until it is stopped, the block       *)
(* number has moved on, or the retries are used up.  The handlers run one  *)
(* at a time under the consensus lock; preCommitAndPropose sends COMMITTED *)
(* from a goroutine without it.                                            *)
(***************************************************************************)
EXTENDS Integers, FiniteSets

CONSTANTS
    RetryTimes,   \* retries of a message
    Blocks        \* bound: blocks 1..Blocks are agreed on

Types == {"ANNOUNCE", "PREPARED", "COMMITTED"}

\* A message; the second COMMITTED of a block is the one with all signatures.
Messages == [type : Types, block : 1..Blocks, full : BOOLEAN]
NoMessage == [type |-> "none", block |-> 0, full |-> FALSE]
Message(type, block, full) == [type |-> type, block |-> block, full |-> full]

VARIABLES
    senderBlockNum,    \* sender.blockNum
    messagesToRetry,   \* message stored for each type
    active,            \* messages whose isActive is 1
    watched,           \* a message: the retry goroutines do not affect each other, one is followed
    retry,             \* its goroutine: "none", "sleep", "numbered" (isActive seen), "send", "done"
    retryCount,        \* its retries
    late,              \* how often it was sent after a Reset to a later block
    step,              \* what the leader does next
    storing,           \* whether a handler has stopped the old message and not stored its own
    preCommit          \* the goroutine of preCommitAndPropose of each block

vars == <<senderBlockNum, messagesToRetry, active, watched, retry, retryCount, late, step, storing, preCommit>>

Init ==
    /\ senderBlockNum = 0
    /\ messagesToRetry = [t \in Types |-> NoMessage]
    /\ active = {} /\ watched \in Messages /\ retry = "none"
    /\ retryCount = 0 /\ late = 0
    /\ step = <<1, "announce">> /\ storing = FALSE
    /\ preCommit = [b \in 1..Blocks |-> "none"]

-----------------------------------------------------------------------------
Stopped(types) == active \ {messagesToRetry[t] : t \in types}

StopRetry(types) ==
    /\ active' = Stopped(types)
    /\ UNCHANGED <<senderBlockNum, messagesToRetry, watched, retry, retryCount, late>>

\* The second half of SendWithRetry and of DelayedSendWithRetry.
StoreAndRetry(m) ==
    /\ messagesToRetry' = [messagesToRetry EXCEPT ![m.type] = m]
    /\ active' = active \cup {m}
    /\ retry' = IF m = watched THEN "sleep" ELSE retry
    /\ UNCHANGED <<senderBlockNum, watched, retryCount, late>>

\* Reset stops and forgets every message but COMMITTED.
Reset(b) ==
    /\ senderBlockNum' = b
    /\ active' = Stopped(Types \ {"COMMITTED"})
    /\ messagesToRetry' = [t \in Types |-> IF t = "COMMITTED" THEN messagesToRetry[t] ELSE NoMessage]
    /\ UNCHANGED <<watched, retry, retryCount, late>>

-----------------------------------------------------------------------------
(* The handlers of the leader. SendWithRetry stops the old message first.  *)

Begin(at, m) ==
    /\ step[2] = at /\ ~storing /\ storing' = TRUE
    /\ StopRetry({m.type}) /\ UNCHANGED <<step, preCommit>>

BlockChannel ==
    /\ step[2] = "announce" /\ ~storing /\ senderBlockNum < step[1]
    /\ Reset(step[1])
    /\ UNCHANGED <<step, storing, preCommit>>

Announce ==
    LET m == Message("ANNOUNCE", step[1], FALSE) IN
    \/ senderBlockNum = step[1] /\ Begin("announce", m)
    \/ /\ step[2] = "announce" /\ storing /\ storing' = FALSE
       /\ StoreAndRetry(m) /\ step' = <<step[1], "prepared">> /\ UNCHANGED preCommit

\* didReachPrepareQuorum sends PREPARED and stops ANNOUNCE and the COMMITTED of the
\* block before.
DidReachPrepareQuorum ==
    LET m == Message("PREPARED", step[1], FALSE) IN
    \/ Begin("prepared", m)
    \/ /\ step[2] = "prepared" /\ storing /\ storing' = FALSE
       /\ StoreAndRetry(m) /\ step' = <<step[1], "stop">> /\ UNCHANGED preCommit
    \/ /\ step[2] = "stop" /\ StopRetry({"ANNOUNCE", "COMMITTED"})
       /\ step' = <<step[1], "quorum">> /\ UNCHANGED <<storing, preCommit>>

\* onCommit with a quorum starts the goroutine of preCommitAndPropose and stops PREPARED.
OnCommit ==
    /\ step[2] = "quorum" /\ StopRetry({"PREPARED"})
    /\ preCommit' = [preCommit EXCEPT ![step[1]] = "stop"]
    /\ step' = <<step[1], "final">> /\ UNCHANGED storing

FinalCommit ==
    LET m == Message("COMMITTED", step[1], TRUE) IN
    \/ Begin("final", m)
    \/ /\ step[2] = "final" /\ storing /\ storing' = FALSE
       /\ StoreAndRetry(m) /\ UNCHANGED preCommit
       /\ step' = IF step[1] < Blocks THEN <<step[1] + 1, "announce">> ELSE <<step[1], "end">>

\* The goroutine sends the COMMITTED of two thirds of the votes. The next round starts
\* with the proposal it signals when it is done.
PreCommitAndPropose(b) ==
    \/ /\ preCommit[b] = "stop" /\ StopRetry({"COMMITTED"})
       /\ preCommit' = [preCommit EXCEPT ![b] = "store"] /\ UNCHANGED <<step, storing>>
    \/ /\ preCommit[b] = "store" /\ StoreAndRetry(Message("COMMITTED", b, FALSE))
       /\ preCommit' = [preCommit EXCEPT ![b] = "done"] /\ UNCHANGED <<step, storing>>

Leader ==
    /\ \A b \in 1..(step[1] - 1) : preCommit[b] = "done"
    /\ BlockChannel \/ Announce \/ DidReachPrepareQuorum \/ OnCommit \/ FinalCommit

-----------------------------------------------------------------------------
(* The retry goroutine of a message.                                       *)

\* After the sleep: the count and isActive.
RetryWakes ==
    /\ retry = "sleep"
    /\ retry' = IF retryCount >= RetryTimes \/ watched \notin active THEN "done" ELSE "numbered"
    /\ UNCHANGED <<senderBlockNum, messagesToRetry, active, retryCount, late, watched, step, storing, preCommit>>

\* Then the block number, unless it is a COMMITTED.
RetryChecksNumber ==
    /\ retry = "numbered"
    /\ retry' = IF watched.type # "COMMITTED" /\ watched.block < senderBlockNum THEN "done" ELSE "send"
    /\ UNCHANGED <<senderBlockNum, messagesToRetry, active, retryCount, late, watched, step, storing, preCommit>>

RetrySendsAgain ==
    /\ retry = "send" /\ retry' = IF retryCount + 1 >= RetryTimes THEN "done" ELSE "send"
    /\ retryCount' = retryCount + 1
    /\ late' = IF watched.block < senderBlockNum THEN late + 1 ELSE late
    /\ UNCHANGED <<senderBlockNum, messagesToRetry, active, watched, step, storing, preCommit>>

RetrySends ==
    /\ retry = "send" /\ retry' = "sleep"
    /\ retryCount' = retryCount + 1
    /\ late' = IF watched.block < senderBlockNum THEN late + 1 ELSE late
    /\ UNCHANGED <<senderBlockNum, messagesToRetry, active, watched, step, storing, preCommit>>

Retry == RetryWakes \/ RetryChecksNumber \/ RetrySends

Next ==
    \/ Leader \/ (\E b \in 1..Blocks : PreCommitAndPropose(b))
    \/ Retry

Spec == Init /\ [][Next]_vars

Fairness == WF_vars(\E b \in 1..Blocks : PreCommitAndPropose(b)) /\ WF_vars(Retry)

FairSpec == Spec /\ Fairness

-----------------------------------------------------------------------------
\* Once the sender is reset for a later block, a message of an earlier round is sent at
\* most once more, by a goroutine that had passed its checks before; COMMITTED lives on.
StopsWithRound == watched.type # "COMMITTED" => late <= 1
=============================================================================
