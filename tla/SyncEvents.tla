------------------------------ MODULE SyncEvents ------------------------------
(***************************************************************************)
(* How the downloader tells consensus that it syncs (consensus/downloader  *)
(* .go): every download sends an event when it starts and one when it      *)
(* finishes, and a goroutine each hands them to consensus, which leaves    *)
(* and enters the syncing mode and sets its block number and its timers.   *)
(* Consensus asks for a download when it sees a later block, and goes on   *)
(* committing blocks from its log.                                         *)
(***************************************************************************)
EXTENDS Integers, FiniteSetsExt

CONSTANTS
    EpochEnds,    \* numbers of the last blocks of epochs
    MaxHeight     \* bound: height of the network's chain, at most LastMileBlocksThreshold

VARIABLES
    net,            \* height of the network's chain
    head,           \* CurrentHeader().Number()
    initSync,       \* the downloader is in long range
    download,       \* whether doSync is between startSyncing and finishSyncing
    estimated,      \* estimatedHeight of the download
    added,          \* whether the download inserted a block
    startedCh, finishedCh,      \* an event waits in the channel
    startedLoop, finishedLoop,  \* what the goroutines do
    mode,           \* consensus mode
    blockNum,       \* consensus block number
    timer           \* whether the consensus or the view change timeout is active

chain == <<net, head>>
downloader == <<initSync, download, estimated, added>>
loops == <<startedCh, finishedCh, startedLoop, finishedLoop>>
events == <<downloader, loops>>
consensus == <<mode, blockNum, timer>>
vars == <<chain, events, consensus>>

Init ==
    /\ net \in 0..MaxHeight /\ head = 0
    /\ initSync = TRUE /\ download = FALSE /\ estimated = 0 /\ added = FALSE
    /\ startedCh = FALSE /\ finishedCh = FALSE
    /\ startedLoop = "wait" /\ finishedLoop = "wait"
    /\ mode = "Normal" /\ blockNum = 1 /\ timer = TRUE

-----------------------------------------------------------------------------
(* The downloader.                                                         *)

\* doSync up to startSyncing. In long range it returns before it when the chain is
\* already at the estimated height. The feed waits until the channel takes the event.
StartSyncing ==
    /\ ~download /\ ~startedCh /\ (initSync => net > head)
    /\ download' = TRUE /\ startedCh' = TRUE
    /\ estimated' = (IF initSync THEN net ELSE 0) /\ added' = FALSE
    /\ UNCHANGED <<chain, initSync, finishedCh, startedLoop, finishedLoop, consensus>>

DownloadInserts ==
    /\ download /\ head < net
    /\ head' = head + 1 /\ added' = TRUE
    /\ UNCHANGED <<net, initSync, download, estimated, loops, consensus>>

\* The end of doSync, with or without an error, and of the loop: after a download of
\* few blocks without an error the node goes over to short range. The distance to the
\* estimate is unsigned: a head beyond the estimate is far from it.
FinishSyncing ==
    /\ download /\ ~finishedCh
    /\ download' = FALSE /\ finishedCh' = TRUE
    /\ initSync' \in {initSync, initSync /\ ~(added /\ estimated >= head)}
    /\ UNCHANGED <<chain, estimated, added, startedCh, startedLoop, finishedLoop, consensus>>

-----------------------------------------------------------------------------
(* The two goroutines.                                                     *)

DownloadStartedLoop ==
    /\ startedCh /\ startedLoop = "wait"
    /\ startedCh' = FALSE /\ startedLoop' = "handle"
    /\ UNCHANGED <<chain, downloader, finishedCh, finishedLoop, consensus>>

\* syncNotReadyChan under the consensus lock.
BlocksNotSynchronized ==
    /\ startedLoop = "handle" /\ startedLoop' = "wait"
    /\ blockNum' = head + 1
    /\ mode' = "Syncing"
    /\ UNCHANGED <<chain, downloader, startedCh, finishedCh, finishedLoop, timer>>

\* AddConsensusLastMile inserts blocks of the consensus log under a lock of its own.
DownloadFinishedLoop ==
    /\ finishedCh /\ finishedLoop = "wait"
    /\ finishedCh' = FALSE /\ finishedLoop' = "handle"
    /\ head' \in head..net
    /\ UNCHANGED <<net, downloader, startedCh, startedLoop, consensus>>

SyncReadyBehindOnly ==
    /\ finishedLoop = "handle" /\ finishedLoop' = "wait"
    /\ \/ /\ blockNum < head + 1
          /\ blockNum' = head + 1 /\ mode' = "Normal" /\ timer' = TRUE
       \/ blockNum >= head + 1 /\ UNCHANGED consensus
    /\ UNCHANGED <<chain, downloader, startedCh, finishedCh, startedLoop>>

SyncReadyKeepsNumber ==
    /\ finishedLoop = "handle" /\ finishedLoop' = "wait"
    /\ \/ mode = "Syncing" /\ mode' = "Normal" /\ timer' = TRUE /\ UNCHANGED blockNum
       \/ mode # "Syncing" /\ UNCHANGED consensus
    /\ UNCHANGED <<chain, downloader, startedCh, finishedCh, startedLoop>>

\* syncReadyChan under the consensus lock.
SyncReady ==
    /\ finishedLoop = "handle" /\ finishedLoop' = "wait"
    /\ \/ /\ blockNum < head + 1
          /\ blockNum' = head + 1 /\ mode' = "Normal" /\ timer' = TRUE
       \/ /\ blockNum >= head + 1 /\ mode = "Syncing"
          /\ mode' = "Normal" /\ timer' = TRUE /\ UNCHANGED blockNum
       \/ blockNum >= head + 1 /\ mode # "Syncing" /\ UNCHANGED consensus
    /\ UNCHANGED <<chain, downloader, startedCh, finishedCh, startedLoop>>

-----------------------------------------------------------------------------
(* Consensus, each step under its lock.                                    *)

\* PREPARED, or ANNOUNCE during a view change, for a later block: DownloadAsync, which a
\* busy loop does not take, then syncing mode with all timeouts stopped.
SpinUpStateSync ==
    /\ net + 1 > blockNum
    /\ mode' = "Syncing" /\ timer' = FALSE
    /\ UNCHANGED <<chain, events, blockNum>>

\* onCommitted for block n: spinUpStateSync for a later block, tryCatchup to the last
\* block of the log with a COMMITTED message, so that `next` is the next one, and the
\* consensus timeout unless the node is still behind.
OnCommitted(n, next) ==
    LET spun == n > blockNum
        newBlock == next > blockNum
        modeNow == IF spun THEN "Syncing" ELSE mode
    IN /\ n >= blockNum - 1 /\ next \in blockNum..(net + 1)
       /\ blockNum' = next /\ head' = Max({head, next - 1})
       /\ mode' = IF EpochEnds \cap (blockNum..(next - 1)) # {} \/ (newBlock /\ modeNow = "ViewChanging")
                  THEN "Normal" ELSE modeNow
       /\ timer' = ((~spun /\ timer) \/ (newBlock /\ n <= next))
       /\ UNCHANGED <<net, events>>

\* Tick in syncing mode.
TickStops == mode = "Syncing" /\ timer /\ timer' = FALSE /\ UNCHANGED <<chain, events, mode, blockNum>>

StartViewChange ==
    /\ mode # "Syncing" /\ timer
    /\ mode' = "ViewChanging"
    /\ UNCHANGED <<chain, events, blockNum, timer>>

NetGrows == net < MaxHeight /\ net' = net + 1 /\ UNCHANGED <<head, events, consensus>>

Next ==
    \/ StartSyncing \/ DownloadInserts \/ FinishSyncing
    \/ DownloadStartedLoop \/ BlocksNotSynchronized \/ DownloadFinishedLoop \/ SyncReady
    \/ SpinUpStateSync \/ (\E n \in 1..net, next \in 1..(net + 1) : OnCommitted(n, next))
    \/ TickStops \/ StartViewChange \/ NetGrows

Spec == Init /\ [][Next]_vars

\* The downloader is triggered every ten seconds, and the goroutines run.
Fairness ==
    /\ WF_vars(StartSyncing) /\ WF_vars(DownloadInserts) /\ WF_vars(FinishSyncing)
    /\ WF_vars(DownloadStartedLoop) /\ WF_vars(BlocksNotSynchronized)
    /\ WF_vars(DownloadFinishedLoop) /\ WF_vars(SyncReady)

FairSpec == Spec /\ Fairness

-----------------------------------------------------------------------------
\* No download runs and all its events have been handled.
Quiet == ~download /\ ~startedCh /\ ~finishedCh /\ startedLoop = "wait" /\ finishedLoop = "wait"

\* When the downloads are over and told, consensus works on the block after the head,
\* whatever both have inserted and in which order the events arrived.
NumberFollowsChain == Quiet => blockNum = head + 1

\* In short range every download ends the syncing mode, also one that finds nothing to
\* fetch and one whose events were handled in the wrong order: the next one follows.
LeavesSyncing == (mode = "Syncing" /\ ~initSync) ~> mode # "Syncing"
=============================================================================
