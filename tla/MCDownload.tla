----------------------------- MODULE MCDownload -----------------------------
(***************************************************************************)
(* The parts of a download: the stages of a sync cycle, the workers that   *)
(* fetch the bodies, and the events by which the downloader tells          *)
(* consensus.  Each behaviour is one of a single part, named by the        *)
(* variable part; the variables of the others keep their first value.      *)
(***************************************************************************)
EXTENDS Integers

CONSTANTS h, f1, f2

VARIABLE part

-----------------------------------------------------------------------------
(* StagedSync: one stream answers well and one may not (part "cycles"); no   *)
(* stream is reliable and the node restarts (part "restarts"); and consensus *)
(* inserts blocks meanwhile (part "inserts").                                *)

VARIABLES net, head, streams, heads, at, initSync, stage, revert, invalid, target,
          cycleTarget, cache, next, inserted, sync, restarts

Cycles == INSTANCE StagedSync WITH
    Honest <- {h}, Faulty <- {f1}, BadKinds <- {"bytes", "unverified"},
    MinStreams <- 1, MaxBlocksPerSyncCycle <- 2, HashesPerRequest <- 2,
    LastMileThreshold <- 1, BeaconNode <- FALSE, MaxLag <- 0, MaxHeight <- 3,
    Concurrent <- FALSE, MaxRestarts <- 0, Modulus <- 16

Restarts == INSTANCE StagedSync WITH
    Honest <- {}, Faulty <- {f1, f2}, BadKinds <- {"unverified", "number"},
    MinStreams <- 1, MaxBlocksPerSyncCycle <- 2, HashesPerRequest <- 2,
    LastMileThreshold <- 1, BeaconNode <- TRUE, MaxLag <- 1, MaxHeight <- 3,
    Concurrent <- FALSE, MaxRestarts <- 1, Modulus <- 16

Inserts == INSTANCE StagedSync WITH
    Honest <- {}, Faulty <- {f1, f2}, BadKinds <- {"unverified", "number"},
    MinStreams <- 1, MaxBlocksPerSyncCycle <- 2, HashesPerRequest <- 2,
    LastMileThreshold <- 1, BeaconNode <- FALSE, MaxLag <- 1, MaxHeight <- 3,
    Concurrent <- TRUE, MaxRestarts <- 0, Modulus <- 16

stagedVars == <<net, head, streams, heads, at, initSync, stage, revert, invalid, target,
                cycleTarget, cache, next, inserted, sync, restarts>>

StagedInit ==
    CASE part = "cycles" -> Cycles!Init
      [] part = "restarts" -> Restarts!Init
      [] part = "inserts" -> Inserts!Init
      [] OTHER -> Cycles!Init /\ net = 1

-----------------------------------------------------------------------------
(* BlockDownload: two workers, a peer that has all blocks and one that lags; *)
(* the chain stays as it is (part "bodies") or grows meanwhile ("growing").  *)

VARIABLES base, requesting, processing, retries, bdd, blockDB, batch, done

Workers == {"w1", "w2"}

Bodies == INSTANCE BlockDownload WITH
    TargetBN <- 4, BlocksPerRequest <- 2, Heights <- {3, 4}, MaxHead <- 0, head <- base

Growing == INSTANCE BlockDownload WITH
    TargetBN <- 4, BlocksPerRequest <- 2, Heights <- {3, 4}, MaxHead <- 2, head <- base

bodiesVars == <<base, requesting, processing, retries, bdd, blockDB, batch, done>>

-----------------------------------------------------------------------------
(* SyncEvents: four blocks, the second ends an epoch.                        *)

VARIABLES eventNet, eventHead, longRange, download, estimated, added, startedCh,
          finishedCh, startedLoop, finishedLoop, mode, blockNum, timer

Events == INSTANCE SyncEvents WITH
    EpochEnds <- {2}, MaxHeight <- 3,
    net <- eventNet, head <- eventHead, initSync <- longRange

eventVars == <<eventNet, eventHead, longRange, download, estimated, added, startedCh,
               finishedCh, startedLoop, finishedLoop, mode, blockNum, timer>>

EventInit == Events!Init /\ (part # "events" => eventNet = 0)

-----------------------------------------------------------------------------
DownloadVars == <<part, stagedVars, bodiesVars, eventVars>>

DownloadInit ==
    /\ part \in {"cycles", "restarts", "inserts", "bodies", "growing", "events"}
    /\ StagedInit /\ Bodies!Init /\ EventInit

DownloadNext ==
    /\ UNCHANGED part
    /\ \/ /\ \/ part = "cycles" /\ Cycles!Next
             \/ part = "restarts" /\ Restarts!Next
             \/ part = "inserts" /\ Inserts!Next
          /\ UNCHANGED <<bodiesVars, eventVars>>
       \/ /\ \/ part = "bodies" /\ Bodies!Next
             \/ part = "growing" /\ Growing!Next
          /\ UNCHANGED <<stagedVars, eventVars>>
       \/ part = "events" /\ Events!Next /\ UNCHANGED <<stagedVars, bodiesVars>>

\* Fairness of StagedSync, of BlockDownload and of SyncEvents, each in its part.  The
\* i-th condition is on the i-th action of each part: only one part moves.
Strong(i) ==
    \/ /\ part = "cycles" /\ UNCHANGED <<part, bodiesVars, eventVars>>
       /\ \/ i = 1 /\ Cycles!DoSync
          \/ i = 2 /\ Cycles!HonestRedownload
          \/ i = 3 /\ Cycles!ShortRangeStage /\ head' > head
    \/ /\ part = "growing" /\ UNCHANGED <<part, stagedVars, eventVars>>
       /\ \/ i = 1 /\ Growing!HandleRequestResult("w1", 4)
          \/ i = 2 /\ Growing!HandleRequestResult("w2", 4)

Weak(i) ==
    \/ /\ part = "cycles" /\ UNCHANGED <<part, bodiesVars, eventVars>>
       /\ \/ i = 1 /\ Cycles!Syncing
          \/ i = 2 /\ Cycles!NetGrows
          \/ i = 3 /\ Cycles!StreamJoins /\ h \in streams'
          \/ i = 4 /\ Cycles!StreamJoins /\ f1 \in streams'
    \/ /\ part = "growing" /\ UNCHANGED <<part, stagedVars, eventVars>>
       /\ \/ i = 1 /\ Growing!GetNextBatch("w1")
          \/ i = 2 /\ Growing!GetNextBatch("w2")
    \/ /\ part = "events" /\ UNCHANGED <<part, stagedVars, bodiesVars>>
       /\ \/ i = 1 /\ Events!StartSyncing
          \/ i = 2 /\ Events!DownloadInserts
          \/ i = 3 /\ Events!FinishSyncing
          \/ i = 4 /\ Events!DownloadStartedLoop
          \/ i = 5 /\ Events!BlocksNotSynchronized
          \/ i = 6 /\ Events!DownloadFinishedLoop
          \/ i = 7 /\ Events!SyncReady

DownloadSpec ==
    /\ DownloadInit /\ [][DownloadNext]_DownloadVars
    /\ \A i \in 1..3 : SF_DownloadVars(Strong(i))
    /\ \A i \in 1..7 : WF_DownloadVars(Weak(i))

-----------------------------------------------------------------------------
\* The States stage finds every block it wants in the block databases, also when it is
\* resumed after a failure and after a bad block has been downloaded again.
NothingMissing == part = "restarts" => Restarts!NothingMissing

\* A bad block is replaced by the version of a stream that has not been blamed for it
\* yet (redownloadBadBlock).
RetryUsesFreshStream == Restarts!RetryUsesFreshStream

\* The node catches up with the network ("then fetch block & insert to blockchain").
SyncCompletes == <>[](part = "cycles" => head = net)

\* A bad block is replaced in the end ("redownload the bad block from other streams").
BadBlockReplaced ==
    (part = "cycles" /\ invalid # Cycles!NoBlock) ~> invalid = Cycles!NoBlock

\* When the workers have gone, the download details name a worker for every block above
\* the head, however often requests failed and the chain grew meanwhile.
AllDownloaded == Bodies!AllDownloaded

\* The stage comes to an end as long as a peer that has the blocks is asked again and
\* again (runBlockWorkerLoop).
StageFinishes == <>(part = "growing" => done = Workers)

\* When the downloads are over and told, consensus works on the block after the head,
\* in whatever order the events were handled (syncReadyChan, syncNotReadyChan).
NumberFollowsChain == Events!NumberFollowsChain

\* In short range every download ends the syncing mode (finishSyncing, syncReadyChan).
LeavesSyncing == Events!LeavesSyncing
=============================================================================
