------------------------------ MODULE StagedSync ------------------------------
(***************************************************************************)
(* The staged stream sync of a shard chain in full sync mode               *)
(* (api/service/stagedstreamsync): the downloader's loop, the cycles of    *)
(* stages, and what becomes of a block that turns out to be bad, while     *)
(* consensus may insert blocks too.  Blocks are their numbers; the bodies  *)
(* and the short range download are in modules of their own.               *)
(***************************************************************************)
EXTENDS Integers, Sequences, FiniteSets, FiniteSetsExt

CONSTANTS
    Honest, Faulty,       \* streams; a faulty one may deliver a bad block or be dropped
    BadKinds,             \* what can be wrong with it
    MinStreams,
    MaxBlocksPerSyncCycle,
    HashesPerRequest,     \* BlockHashesPerRequest of the short range
    LastMileThreshold,    \* LastMileBlocksThreshold
    BeaconNode,           \* TRUE: isBeaconNode, consensus hands over its last blocks
    MaxLag,               \* bound: how far an estimate is behind the network
    MaxHeight,            \* bound: height of the network's chain
    Concurrent,           \* TRUE: consensus inserts blocks while the node syncs
    MaxRestarts,          \* bound
    Modulus               \* uint64 counts modulo this

Streams == Honest \cup Faulty

Stages == <<"Heads", "SyncEpoch", "ShortRange", "BlockBodies", "States", "LastMile", "Finish">>

NoBlock == [number |-> 0, streams |-> {}]   \* no invalid block is active
Missing == [kind |-> "none", stream |-> "none"]

VARIABLES
    net,          \* height of the network's chain
    head,         \* bc.CurrentBlock().NumberU64()
    streams,      \* connected streams
    heads,        \* database: progress of the Heads stage
    at,           \* what the downloader's loop is doing
    initSync,
    stage,        \* currentStage
    revert,       \* whether revertPoint is set
    invalid,      \* invalidBlock
    target,       \* status.targetBN
    cycleTarget,  \* currentCycle.TargetHeight
    cache,        \* the block databases and download details
    next,         \* next block of the States stage, with its invalidBlockRevert
    inserted,     \* blocks inserted by this cycle
    sync,         \* this doSync: height before, estimate, blocks added, whether it failed
    restarts

chain == <<net, head, streams, heads, restarts>>
cycle == <<stage, revert, invalid, target, cycleTarget, cache, next, inserted>>
vars == <<chain, at, initSync, cycle, sync>>

NoSync == [before |-> 0, est |-> 0, added |-> 0, failed |-> FALSE]
NoNext == [number |-> 0, redo |-> FALSE]

NoCache == [n \in 1..MaxHeight |-> Missing]
\* cleanAllBlockDBs: the blocks go, the download details stay.
Cleaned == [n \in 1..MaxHeight |-> [cache[n] EXCEPT !.kind = "none"]]

Init ==
    /\ net \in 1..MaxHeight /\ head = 0 /\ streams = Streams /\ heads = 0 /\ restarts = 0
    /\ at = "wait" /\ initSync = TRUE /\ stage = 1 /\ revert = FALSE /\ invalid = NoBlock
    /\ target = 0 /\ cycleTarget = 0 /\ cache = NoCache
    /\ next = NoNext /\ inserted = 0 /\ sync = NoSync

-----------------------------------------------------------------------------
(* doSync and Run.                                                         *)

\* RevertTo: the stages start anew to replace block n, which st delivered.
RevertTo(n, st) ==
    /\ revert' = TRUE
    /\ invalid' = [number |-> n, streams |-> invalid.streams \cup {st}]

Fail == at' = "after" /\ sync' = [sync EXCEPT !.failed = TRUE]

\* The stream manager may drop a stream that failed.
StreamFailed(st) == streams' \in {streams, streams \ ({st} \cap Faulty)}

\* One cycle begins: where the last failed one stopped, unless a revert point is set.
BeginCycle ==
    /\ at' = "run" /\ inserted' = 0
    /\ stage' = IF revert THEN 1 ELSE stage
    /\ revert' = FALSE

\* The loop takes a trigger.  Without enough streams it waits for them.
DoSync ==
    /\ at = "wait" /\ Cardinality(streams) >= MinStreams
    /\ \E est \in IF initSync THEN Max({1, net - MaxLag})..net ELSE {0} :
        /\ sync' = [before |-> head, est |-> est, added |-> 0, failed |-> FALSE]
        /\ target' = IF initSync THEN est ELSE target
        /\ IF initSync /\ est <= head
           THEN at' = "after" /\ UNCHANGED <<stage, revert, inserted>>
           ELSE BeginCycle
    /\ UNCHANGED <<chain, initSync, invalid, cycleTarget, cache, next>>

\* estimateCurrentNumber gets no answer.
EstimateFails ==
    /\ at = "wait" /\ initSync /\ Cardinality(streams) >= MinStreams
    /\ \E st \in streams : StreamFailed(st)
    /\ UNCHANGED <<net, head, heads, restarts, at, initSync, cycle, sync>>

NextStage == stage' = stage + 1

\* The stages that have nothing to do now.
Skips(s) ==
    \/ s \in {"SyncEpoch", "LastMile", "Finish"}
    \/ s = "Heads" /\ (invalid # NoBlock \/ ~initSync)
    \/ s = "ShortRange" /\ (invalid # NoBlock \/ initSync)
    \/ s = "BlockBodies" /\ invalid = NoBlock /\ (~initSync \/ head >= target \/ head >= cycleTarget)
    \/ s = "States" /\ (~initSync \/ head >= target \/ head >= cycleTarget)

Running(s) == at = "run" /\ stage <= Len(Stages) /\ Stages[stage] = s

SkipStage ==
    /\ at = "run" /\ stage <= Len(Stages) /\ Skips(Stages[stage])
    /\ NextStage
    \* Bodies clears its databases before it looks at the cycle's target
    /\ cache' = IF Stages[stage] = "BlockBodies" /\ invalid = NoBlock /\ initSync /\ head < target
                THEN Cleaned ELSE cache
    /\ UNCHANGED <<chain, at, initSync, revert, invalid, target, cycleTarget, next, inserted, sync>>

-----------------------------------------------------------------------------
(* The stages.                                                             *)

\* The cycle's target: the one saved before if it is still ahead, within the bounds.
HeadsTarget ==
    LET wanted == IF head >= heads THEN target ELSE Min({heads, target})
    IN  Min({wanted, head + MaxBlocksPerSyncCycle})

HeadsStage ==
    /\ Running("Heads") /\ ~Skips("Heads")
    /\ cycleTarget' = IF head >= target THEN target ELSE HeadsTarget
    /\ heads' = IF head >= target THEN heads ELSE HeadsTarget
    /\ NextStage
    /\ UNCHANGED <<net, head, streams, restarts, at, initSync, revert, invalid, target, cache, next, inserted, sync>>

\* The short range inserts what it finds, or rolls back and fails.
ShortRangeStage ==
    /\ Running("ShortRange") /\ ~Skips("ShortRange")
    /\ \E n \in 0..HashesPerRequest :
        /\ head + n <= net /\ head' = head + n /\ inserted' = n
    /\ NextStage
    /\ UNCHANGED <<net, streams, heads, restarts, at, initSync, revert, invalid, target, cycleTarget, cache, next, sync>>

ShortRangeFails ==
    /\ Running("ShortRange") /\ ~Skips("ShortRange")
    /\ Fail
    /\ \E st \in streams : StreamFailed(st)
    /\ UNCHANGED <<net, head, heads, restarts, initSync, cycle>>

Deliveries ==
    [kind : {"good"}, stream : Streams] \cup [kind : BadKinds, stream : Faulty]

BodiesStageShort ==
    /\ Running("BlockBodies") /\ ~Skips("BlockBodies") /\ invalid = NoBlock
    /\ \E got \in [head + 1..cycleTarget - 1 -> {d \in Deliveries : d.stream \in streams}] :
        cache' = [n \in 1..MaxHeight |-> IF n \in DOMAIN got THEN got[n] ELSE Missing]
    /\ NextStage
    /\ UNCHANGED <<chain, at, initSync, revert, invalid, target, cycleTarget, next, inserted, sync>>

\* All blocks of the cycle are downloaded, each from some stream.
BodiesStage ==
    /\ Running("BlockBodies") /\ ~Skips("BlockBodies") /\ invalid = NoBlock
    /\ \E got \in [head + 1..cycleTarget -> {d \in Deliveries : d.stream \in streams}] :
        cache' = [n \in 1..MaxHeight |-> IF n \in DOMAIN got THEN got[n] ELSE Missing]
    /\ NextStage
    /\ UNCHANGED <<chain, at, initSync, revert, invalid, target, cycleTarget, next, inserted, sync>>

RedownloadFromAnyone(d) ==
    \/ /\ cache' = [cache EXCEPT ![invalid.number] = d]
       /\ NextStage /\ UNCHANGED streams
    \/ /\ StreamFailed(d.stream)
       /\ UNCHANGED <<cache, stage>>

\* redownloadBadBlock: one request, which may fail.  A stream that delivered a bad
\* version before is refused.
Redownload(d) ==
    \/ /\ d.stream \notin invalid.streams
       /\ cache' = [cache EXCEPT ![invalid.number] = d]
       /\ NextStage /\ UNCHANGED streams
    \/ /\ StreamFailed(d.stream)
       /\ UNCHANGED <<cache, stage>>

RedownloadBadBlock ==
    /\ Running("BlockBodies") /\ invalid # NoBlock
    /\ \E d \in Deliveries : d.stream \in streams /\ Redownload(d)
    /\ UNCHANGED <<net, head, heads, restarts, at, initSync, revert, invalid, target, cycleTarget, next, inserted, sync>>

RedownloadFails ==
    /\ Running("BlockBodies") /\ invalid # NoBlock /\ streams = {}
    /\ Fail
    /\ UNCHANGED <<chain, initSync, cycle>>

StatesStage ==
    /\ Running("States") /\ ~Skips("States")
    /\ at' = "states" /\ next' = [number |-> head + 1, redo |-> invalid # NoBlock]
    /\ UNCHANGED <<chain, initSync, stage, revert, invalid, target, cycleTarget, cache, inserted, sync>>

ResolveNever(n) == invalid

\* invalidBlock once block n has been inserted.
Resolve(n) == IF next.redo /\ invalid.number = n THEN NoBlock ELSE invalid

\* One turn of the stage's loop over the blocks.
StatesInsert ==
    /\ at = "states" /\ next.number <= cycleTarget /\ cache[next.number].kind = "good"
    /\ next' = [next EXCEPT !.number = @ + 1]
    /\ IF next.number <= head       \* HasBlock
       THEN UNCHANGED <<head, invalid, inserted>>
       ELSE /\ head' = next.number
            /\ inserted' = inserted + 1
            /\ invalid' = Resolve(next.number)
    /\ UNCHANGED <<net, streams, heads, restarts, at, initSync, stage, revert, target, cycleTarget, cache, sync>>

\* The block is missing, cannot be decoded or verified.
StatesBadBlock ==
    /\ at = "states" /\ next.number <= cycleTarget
    /\ cache[next.number].kind \in {"none", "bytes", "unverified"}
    /\ StreamFailed(cache[next.number].stream)
    /\ RevertTo(next.number, cache[next.number].stream)
    /\ Fail /\ next' = NoNext
    /\ UNCHANGED <<net, head, heads, restarts, initSync, stage, target, cycleTarget, cache, inserted>>

\* The block has another number: a second time in a row there is no revert.
StatesWrongNumber ==
    /\ at = "states" /\ next.number <= cycleTarget /\ cache[next.number].kind = "number"
    /\ StreamFailed(cache[next.number].stream)
    /\ IF next.redo THEN UNCHANGED <<revert, invalid>>
       ELSE RevertTo(next.number, cache[next.number].stream)
    /\ Fail /\ next' = NoNext
    /\ UNCHANGED <<net, head, heads, restarts, initSync, stage, target, cycleTarget, cache, inserted>>

StatesEnd ==
    /\ at = "states" /\ next.number > cycleTarget
    /\ at' = "run" /\ NextStage /\ next' = NoNext
    /\ UNCHANGED <<chain, initSync, revert, invalid, target, cycleTarget, cache, inserted, sync>>

-----------------------------------------------------------------------------
(* The ends of cycles and of doSync.                                       *)

\* The stages are cleaned up; a long range sync goes on while it inserts blocks.
EndCycle ==
    /\ at = "run" /\ stage > Len(Stages)
    /\ cache' = Cleaned
    /\ stage' = 1
    /\ sync' = [sync EXCEPT !.added = @ + inserted]
    /\ IF inserted > 0 /\ initSync THEN inserted' = 0 /\ UNCHANGED at
       ELSE at' = "lastmile" /\ UNCHANGED inserted
    /\ UNCHANGED <<chain, initSync, revert, invalid, target, cycleTarget, next>>

\* addConsensusLastMile inserts the blocks consensus has messages of; it may fail.
AddConsensusLastMile ==
    /\ at = "lastmile"
    /\ target' = 0
    /\ \/ \E k \in 0..(IF BeaconNode THEN net - head ELSE 0) :
            /\ head' = head + k
            /\ sync' = [sync EXCEPT !.added = @ + k] /\ at' = "after"
       \/ BeaconNode /\ Fail /\ UNCHANGED head
    /\ UNCHANGED <<net, streams, heads, restarts, initSync, stage, revert, invalid, cycleTarget, cache, next, inserted>>

Distance(from) == (sync.est - from + Modulus) % Modulus

\* Back in the loop: the switch to short range.
AfterSync ==
    /\ at = "after" /\ at' = "wait"
    /\ initSync' = (initSync /\ ~(/\ ~sync.failed /\ sync.est > 0 /\ sync.added > 0
                                  /\ Distance(sync.before) <= LastMileThreshold
                                  /\ Distance(head) <= LastMileThreshold))
    /\ target' = IF sync.failed THEN 0 ELSE target
    /\ sync' = NoSync
    /\ UNCHANGED <<chain, stage, revert, invalid, cycleTarget, cache, next, inserted>>

-----------------------------------------------------------------------------
(* The network, consensus and the process.                                 *)

NetGrows == net < MaxHeight /\ net' = net + 1 /\ UNCHANGED <<head, streams, heads, restarts, at, initSync, cycle, sync>>

StreamJoins ==
    /\ \E st \in Streams \ streams : streams' = streams \cup {st}
    /\ UNCHANGED <<net, head, heads, restarts, at, initSync, cycle, sync>>

\* Consensus catches up from its own log (tryCatchup).
ConsensusInserts ==
    /\ Concurrent /\ head < net /\ head' = head + 1
    /\ UNCHANGED <<net, streams, heads, restarts, at, initSync, cycle, sync>>

Restart ==
    /\ restarts < MaxRestarts /\ restarts' = restarts + 1
    /\ at' = "wait" /\ initSync' = TRUE /\ stage' = 1 /\ revert' = FALSE /\ invalid' = NoBlock
    /\ target' = 0 /\ cycleTarget' = 0 /\ cache' = NoCache
    /\ next' = NoNext /\ inserted' = 0 /\ sync' = NoSync
    /\ UNCHANGED <<net, head, streams, heads>>

Syncing ==
    \/ DoSync \/ SkipStage \/ HeadsStage \/ BodiesStage \/ StatesStage \/ StatesInsert
    \/ StatesBadBlock \/ StatesWrongNumber \/ StatesEnd \/ RedownloadFails
    \/ EndCycle \/ AddConsensusLastMile \/ AfterSync

Next ==
    \/ Syncing \/ EstimateFails \/ ShortRangeStage \/ ShortRangeFails \/ RedownloadBadBlock
    \/ NetGrows \/ StreamJoins \/ ConsensusInserts \/ Restart

Spec == Init /\ [][Next]_vars

HonestRedownload ==
    /\ RedownloadBadBlock
    /\ \E st \in Honest : cache'[invalid.number] = [kind |-> "good", stream |-> st]

\* The loop runs on and discovery finds streams again.  Requests go to any free stream,
\* so one that answers well is asked again and again.
Fairness ==
    /\ WF_vars(Syncing) /\ WF_vars(NetGrows)
    /\ SF_vars(DoSync) /\ SF_vars(HonestRedownload) /\ SF_vars(ShortRangeStage /\ head' > head)
    /\ \A st \in Streams : WF_vars(StreamJoins /\ st \in streams')

FairSpec == Spec /\ Fairness

-----------------------------------------------------------------------------
\* The States stage finds every block it wants in the block databases, also when it is
\* resumed after a failure and after a bad block has been downloaded again.
NothingMissing ==
    at = "states" /\ next.number \in head + 1..cycleTarget => cache[next.number].kind # "none"

\* A bad block is replaced by the version of a stream that has not delivered a bad one
\* yet: when States comes to it again, its stream is not among those already blamed.
RetryUsesFreshStream ==
    at = "states" /\ next.redo /\ invalid # NoBlock =>
        cache[invalid.number].stream \notin invalid.streams

\* The node catches up with the network: doSync "estimate[s] the current block number,
\* then fetch[es] block & insert[s] to blockchain".
SyncCompletes == <>[](head = net)

\* A bad block is replaced ("tries to redownload the bad block from other streams").
BadBlockReplaced == invalid # NoBlock ~> invalid = NoBlock
=============================================================================
