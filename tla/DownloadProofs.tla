--------------------------- MODULE DownloadProofs ---------------------------
(***************************************************************************)
(* Proofs about the parts of a download.  StagedSync: for any streams, any *)
(* heights and bounds of a cycle.  SyncEvents: for chains of any height    *)
(* and epochs of any lengths.  StreamManager: for every set of connections *)
(* and peers and every configuration of the caps.                          *)
(***************************************************************************)
EXTENDS StagedSync, FiniteSetTheorems, TLAPS

\* The bounds are numbers, and a delivered block is bad in one of the ways the States
\* stage tells apart.
SyncAssumption ==
    /\ MaxHeight \in Nat \ {0} /\ MaxBlocksPerSyncCycle \in Nat /\ MaxLag \in Nat
    /\ HashesPerRequest \in Nat /\ MaxRestarts \in Nat
    /\ BadKinds \subseteq {"bytes", "unverified", "number"}
    /\ BeaconNode \in BOOLEAN /\ Concurrent \in BOOLEAN

Cells == [kind : {"none", "good", "bytes", "unverified", "number"}, stream : Streams \cup {"none"}]

SyncTypes ==
    /\ net \in 0..MaxHeight /\ head \in Nat /\ heads \in 0..MaxHeight
    /\ target \in 0..MaxHeight /\ cycleTarget \in 0..MaxHeight
    /\ streams \subseteq Streams
    /\ stage \in 1..8 /\ at \in {"wait", "run", "states", "lastmile", "after"}
    /\ invalid # NoBlock => invalid.number \in 1..MaxHeight
    /\ cache \in [1..MaxHeight -> Cells]
    /\ next \in [number : Nat, redo : BOOLEAN]
    /\ inserted \in Nat
    /\ sync \in [before : Nat, est : Nat, added : Nat, failed : BOOLEAN]

\* A revert point waits for the next cycle, and the States stage is the fifth.
Marks ==
    /\ at \in {"run", "states"} => ~revert
    /\ at = "states" => stage = 5 /\ next.number >= 1
    /\ at = "lastmile" => stage = 1

\* Past the Bodies stage the bad block is there in the version of a stream that has not
\* been blamed.
Replaced ==
    invalid # NoBlock /\ stage = 5 /\ ~revert =>
        cache[invalid.number].stream \notin invalid.streams

FreshInv == SyncTypes /\ Marks /\ Replaced

-----------------------------------------------------------------------------
\* The greater of two numbers.
LEMMA MaxOfTwo ==
    ASSUME NEW a \in Int, NEW b \in Int
    PROVE  Max({a, b}) = IF a >= b THEN a ELSE b
<1> DEFINE m == IF a >= b THEN a ELSE b
<1>1. m \in {a, b} /\ \A y \in {a, b} : m >= y
  OBVIOUS
<1>2. \A x \in {a, b} : (\A y \in {a, b} : x >= y) => x = m
  OBVIOUS
<1> HIDE DEF m
<1>3. Max({a, b}) = m
  BY <1>1, <1>2 DEF Max
<1> QED BY <1>3 DEF m

\* The lesser of two numbers.
LEMMA MinOfTwo ==
    ASSUME NEW a \in Int, NEW b \in Int
    PROVE  Min({a, b}) = IF a <= b THEN a ELSE b
<1> DEFINE m == IF a <= b THEN a ELSE b
<1>1. m \in {a, b} /\ \A y \in {a, b} : m <= y
  OBVIOUS
<1>2. \A x \in {a, b} : (\A y \in {a, b} : x <= y) => x = m
  OBVIOUS
<1> HIDE DEF m
<1>3. Min({a, b}) = m
  BY <1>1, <1>2 DEF Min
<1> QED BY <1>3 DEF m

\* The target of a cycle is a height of the network's chain.
LEMMA HeadsTargetHeight ==
    ASSUME SyncAssumption, SyncTypes
    PROVE  HeadsTarget \in 0..MaxHeight
<1> DEFINE wanted == IF head >= heads THEN target ELSE Min({heads, target})
<1>1. wanted \in 0..MaxHeight
  BY MinOfTwo DEF SyncAssumption, SyncTypes
<1>2. HeadsTarget = Min({wanted, head + MaxBlocksPerSyncCycle})
  BY DEF HeadsTarget
<1> HIDE DEF wanted
<1> QED BY <1>1, <1>2, MinOfTwo DEF SyncAssumption, SyncTypes

\* The databases without their blocks, and a block in them.
LEMMA CacheCells ==
    ASSUME SyncAssumption, SyncTypes
    PROVE  /\ Cleaned \in [1..MaxHeight -> Cells] /\ NoCache \in [1..MaxHeight -> Cells]
           /\ Missing \in Cells /\ Deliveries \subseteq Cells
<1>1. Missing \in Cells
  BY DEF Missing, Cells
<1>2. Deliveries \subseteq Cells
  BY Zenon DEF Deliveries, Cells, SyncAssumption, Streams
<1>3. \A c \in Cells : [c EXCEPT !.kind = "none"] \in Cells
  BY DEF Cells
<1> QED BY <1>1, <1>2, <1>3 DEF Cleaned, NoCache, SyncTypes

\* The seven stages.
LEMMA StageNames ==
    /\ Len(Stages) = 7
    /\ \A s \in 1..7 : /\ Stages[s] = "BlockBodies" <=> s = 4
                       /\ Stages[s] = "States" <=> s = 5
                       /\ Stages[s] = "Heads" <=> s = 1
                       /\ Stages[s] = "ShortRange" <=> s = 3
BY DEF Stages

\* Types.
LEMMA TypeStep ==
    ASSUME SyncAssumption, FreshInv, [Next]_vars
    PROVE  SyncTypes'
<1> USE DEF FreshInv, SyncTypes
<1>1. CASE DoSync
  <2>1. PICK est \in IF initSync THEN Max({1, net - MaxLag})..net ELSE {0} :
          /\ sync' = [before |-> head, est |-> est, added |-> 0, failed |-> FALSE]
          /\ target' = IF initSync THEN est ELSE target
          /\ IF initSync /\ est <= head
             THEN at' = "after" /\ UNCHANGED <<stage, revert, inserted>>
             ELSE BeginCycle
    BY <1>1, Zenon DEF DoSync
  <2>2. est \in 0..MaxHeight
    <3>1. Max({1, net - MaxLag}) = IF 1 >= net - MaxLag THEN 1 ELSE net - MaxLag
      BY MaxOfTwo DEF SyncAssumption
    <3>2. initSync => est \in Max({1, net - MaxLag})..net
      BY <2>1
    <3>3. ~initSync => est = 0
      BY <2>1
    <3> QED BY <3>1, <3>2, <3>3 DEF SyncAssumption
  <2>3. UNCHANGED <<chain, initSync, invalid, cycleTarget, cache, next>>
    BY <1>1 DEF DoSync
  <2>4. sync' \in [before : Nat, est : Nat, added : Nat, failed : BOOLEAN]
    BY <2>1, <2>2
  <2>5. stage' \in 1..8 /\ at' \in {"after", "run"} /\ inserted' \in Nat
    <3>1. CASE initSync /\ est <= head
      <4>1. at' = "after" /\ stage' = stage /\ inserted' = inserted
        BY <2>1, <3>1, Zenon
      <4> QED BY <4>1
    <3>2. CASE ~(initSync /\ est <= head)
      <4>1. BeginCycle
        BY <2>1, <3>2, Zenon
      <4> QED BY <4>1 DEF BeginCycle
    <3> QED BY <3>1, <3>2
  <2>6. target' \in 0..MaxHeight
    BY <2>1, <2>2
  <2> QED BY <2>3, <2>4, <2>5, <2>6 DEF chain
<1>2. CASE EstimateFails
  BY <1>2 DEF EstimateFails, StreamFailed, cycle
<1>3. CASE SkipStage
  BY <1>3, CacheCells, StageNames DEF SkipStage, NextStage, chain
<1>4. CASE HeadsStage
  BY <1>4, HeadsTargetHeight, StageNames, SMTT(20) DEF HeadsStage, Running, NextStage
<1>5. CASE ShortRangeStage
  BY <1>5, StageNames DEF ShortRangeStage, Running, NextStage
<1>6. CASE ShortRangeFails
  BY <1>6, Zenon DEF ShortRangeFails, Fail, StreamFailed, cycle
<1>7. CASE BodiesStage
  <2>1. PICK got \in [head + 1..cycleTarget -> {d \in Deliveries : d.stream \in streams}] :
          cache' = [n \in 1..MaxHeight |-> IF n \in DOMAIN got THEN got[n] ELSE Missing]
    BY <1>7 DEF BodiesStage
  <2>2. cache' \in [1..MaxHeight -> Cells]
    BY <2>1, CacheCells
  <2> QED BY <1>7, <2>2, StageNames, SMTT(20) DEF BodiesStage, Running, NextStage, chain
<1>8. CASE RedownloadBadBlock
  <2>1. PICK d \in Deliveries : d.stream \in streams /\ Redownload(d)
    BY <1>8 DEF RedownloadBadBlock
  <2>2. cache' \in [1..MaxHeight -> Cells] /\ stage' \in 1..8 /\ streams' \subseteq Streams
    <3>1. d \in Cells /\ stage \in 1..7
      BY <1>8, CacheCells, StageNames DEF RedownloadBadBlock, Running
    <3> QED BY <2>1, <3>1, SMTT(20) DEF Redownload, StreamFailed, NextStage
  <2> QED BY <1>8, <2>2 DEF RedownloadBadBlock
<1>9. CASE RedownloadFails
  BY <1>9, Zenon DEF RedownloadFails, Fail, chain, cycle
<1>10. CASE StatesStage
  BY <1>10 DEF StatesStage, chain
<1>11. CASE StatesInsert
  BY <1>11 DEF StatesInsert, Resolve
<1>12. ASSUME NEW st, RevertTo(next.number, st), at = "states", next.number <= cycleTarget
       PROVE  revert' = TRUE /\ invalid'.number \in 1..MaxHeight
  BY <1>12 DEF RevertTo, Marks, SyncAssumption
<1>13. CASE StatesBadBlock
  BY <1>12, <1>13, Zenon DEF StatesBadBlock, Fail, StreamFailed, NoNext
<1>14. CASE StatesWrongNumber
  BY <1>12, <1>14, Zenon DEF StatesWrongNumber, Fail, StreamFailed, NoNext
<1>15. CASE StatesEnd
  BY <1>15 DEF StatesEnd, Marks, NextStage, NoNext, chain
<1>16. CASE EndCycle
  <2>1. Cleaned \in [1..MaxHeight -> Cells]
    BY CacheCells
  <2>2. at' \in {"run", "lastmile"} /\ inserted' \in Nat /\ stage' = 1 /\ cache' = Cleaned
    BY <1>16 DEF EndCycle
  <2>3. sync' \in [before : Nat, est : Nat, added : Nat, failed : BOOLEAN]
    BY <1>16, SMTT(20) DEF EndCycle
  <2>4. UNCHANGED <<net, head, streams, heads, invalid, target, cycleTarget, next>>
    BY <1>16 DEF EndCycle, chain
  <2> QED BY <2>1, <2>2, <2>3, <2>4
<1>17. CASE AddConsensusLastMile
  <2>1. /\ target' = 0 /\ at' = "after" /\ head' \in Nat
        /\ sync' \in [before : Nat, est : Nat, added : Nat, failed : BOOLEAN]
    <3>1. CASE \E k \in 0..(IF BeaconNode THEN net - head ELSE 0) :
                 /\ head' = head + k
                 /\ sync' = [sync EXCEPT !.added = @ + k] /\ at' = "after"
      <4>1. \A n : 0..n \subseteq Nat
        OBVIOUS
      <4>2. PICK k \in Nat : /\ head' = head + k
                             /\ sync' = [sync EXCEPT !.added = @ + k] /\ at' = "after"
        BY <3>1, <4>1, Zenon
      <4>3. target' = 0
        BY <1>17 DEF AddConsensusLastMile
      <4>4. head' \in Nat
        BY <4>2
      <4>5. sync.added + k \in Nat
        OBVIOUS
      <4>6. sync' \in [before : Nat, est : Nat, added : Nat, failed : BOOLEAN]
        BY <4>2, <4>5, Zenon
      <4> QED BY <4>2, <4>3, <4>4, <4>6
    <3>2. CASE BeaconNode /\ Fail /\ UNCHANGED head
      BY <1>17, <3>2, Zenon DEF AddConsensusLastMile, Fail
    <3> QED BY <1>17, <3>1, <3>2 DEF AddConsensusLastMile
  <2>2. UNCHANGED <<net, streams, heads, initSync, stage, revert, invalid, cycleTarget,
                    cache, next, inserted>>
    BY <1>17 DEF AddConsensusLastMile
  <2> QED BY <2>1, <2>2 DEF SyncAssumption
<1>18. CASE AfterSync
  BY <1>18 DEF AfterSync, NoSync, chain, SyncAssumption
<1>19. CASE NetGrows \/ StreamJoins \/ ConsensusInserts
  <2>1. net' \in 0..MaxHeight /\ head' \in Nat /\ streams' \subseteq Streams
    BY <1>19 DEF NetGrows, StreamJoins, ConsensusInserts, SyncAssumption
  <2>2. UNCHANGED <<heads, at, initSync, cycle, sync>>
    BY <1>19 DEF NetGrows, StreamJoins, ConsensusInserts
  <2> QED BY <2>1, <2>2 DEF cycle
<1>20. CASE Restart
  <2>1. NoCache \in [1..MaxHeight -> Cells]
    BY CacheCells
  <2>2. NoNext \in [number : Nat, redo : BOOLEAN]
        /\ NoSync \in [before : Nat, est : Nat, added : Nat, failed : BOOLEAN]
    BY DEF NoNext, NoSync
  <2> QED BY <1>20, <2>1, <2>2 DEF Restart, SyncAssumption
<1>21. CASE UNCHANGED vars
  BY <1>21 DEF vars, chain, cycle
<1> QED
  BY <1>1, <1>2, <1>3, <1>4, <1>5, <1>6, <1>7, <1>8, <1>9, <1>10, <1>11, <1>13, <1>14, <1>15,
     <1>16, <1>17, <1>18, <1>19, <1>20, <1>21, Zenon DEF Next, Syncing

\* The marks of a revert and of the stage.
LEMMA MarksStep ==
    ASSUME SyncAssumption, FreshInv, [Next]_vars
    PROVE  Marks'
<1> USE DEF FreshInv, Marks
<1>1. CASE DoSync
  <2>1. at' = "after" \/ BeginCycle
    BY <1>1 DEF DoSync
  <2> QED BY <2>1 DEF BeginCycle
<1>2. CASE EstimateFails \/ NetGrows \/ StreamJoins \/ ConsensusInserts
  BY <1>2 DEF EstimateFails, NetGrows, StreamJoins, ConsensusInserts, cycle
<1>3. CASE SkipStage \/ HeadsStage \/ ShortRangeStage \/ BodiesStage
  <2>1. at = "run" /\ UNCHANGED <<at, revert>>
    BY <1>3 DEF SkipStage, HeadsStage, ShortRangeStage, BodiesStage, Running
  <2> QED BY <2>1
<1>4. CASE RedownloadBadBlock
  BY <1>4 DEF RedownloadBadBlock, Running
<1>5. CASE ShortRangeFails \/ RedownloadFails \/ StatesBadBlock \/ StatesWrongNumber
  BY <1>5 DEF ShortRangeFails, RedownloadFails, StatesBadBlock, StatesWrongNumber, Fail
<1>6. CASE StatesStage
  BY <1>6, StageNames, SMTT(20) DEF StatesStage, Running, SyncTypes
<1>7. CASE StatesInsert
  BY <1>7 DEF StatesInsert, SyncTypes
<1>8. CASE StatesEnd
  BY <1>8 DEF StatesEnd
<1>9. CASE EndCycle
  BY <1>9 DEF EndCycle
<1>10. CASE AddConsensusLastMile \/ AfterSync \/ Restart
  BY <1>10 DEF AddConsensusLastMile, Fail, AfterSync, Restart
<1>11. CASE UNCHANGED vars
  BY <1>11 DEF vars, cycle
<1> QED
  BY <1>1, <1>2, <1>3, <1>4, <1>5, <1>6, <1>7, <1>8, <1>9, <1>10, <1>11 DEF Next, Syncing

\* A step out of the Bodies stage stores the version of a stream that is not blamed, and
\* blaming another sets the revert point.
LEMMA ReplacedStep ==
    ASSUME SyncAssumption, FreshInv, [Next]_vars
    PROVE  Replaced'
<1> USE DEF FreshInv, Replaced
<1>1. ASSUME UNCHANGED <<invalid, cache, stage, revert>> PROVE Replaced'
  BY <1>1
<1>2. CASE DoSync
  <2>1. UNCHANGED <<invalid, cache>>
    BY <1>2 DEF DoSync
  <2>2. UNCHANGED <<stage, revert>> \/ BeginCycle
    BY <1>2 DEF DoSync
  <2>3. CASE BeginCycle
    BY <2>1, <2>3 DEF BeginCycle
  <2> QED BY <1>1, <2>1, <2>2, <2>3
<1>3. CASE EstimateFails \/ NetGrows \/ StreamJoins \/ ConsensusInserts
  BY <1>1, <1>3 DEF EstimateFails, NetGrows, StreamJoins, ConsensusInserts, cycle
<1>4. CASE SkipStage
  <2>1. stage \in 1..7 /\ stage' = stage + 1 /\ invalid' = invalid
    BY <1>4, StageNames DEF SkipStage, SyncTypes, NextStage
  <2>2. stage = 4 => invalid = NoBlock
    BY <1>4, <2>1, StageNames DEF SkipStage, Skips
  <2> QED BY <2>1, <2>2
<1>5. CASE HeadsStage \/ ShortRangeStage
  <2>1. (Running("Heads") \/ Running("ShortRange")) /\ stage' = stage + 1
    BY <1>5, Zenon DEF HeadsStage, ShortRangeStage, NextStage
  <2>2. stage \in {1, 3}
    BY <2>1, StageNames, SMTT(20) DEF Running, SyncTypes
  <2> QED BY <2>1, <2>2
<1>6. CASE BodiesStage
  BY <1>6 DEF BodiesStage
<1>7. CASE RedownloadBadBlock
  <2>1. PICK d \in Deliveries : Redownload(d)
    BY <1>7 DEF RedownloadBadBlock
  <2>2. stage = 4 /\ UNCHANGED <<invalid, revert>> /\ invalid.number \in 1..MaxHeight
    BY <1>7, StageNames, SMTT(20) DEF RedownloadBadBlock, Running, SyncTypes
  <2>3. \/ d.stream \notin invalid.streams /\ cache' = [cache EXCEPT ![invalid.number] = d]
        \/ UNCHANGED <<cache, stage>>
    BY <2>1 DEF Redownload
  <2> QED BY <2>2, <2>3, Zenon DEF SyncTypes
<1>8. CASE ShortRangeFails \/ RedownloadFails
  BY <1>1, <1>8 DEF ShortRangeFails, RedownloadFails, cycle
<1>9. CASE StatesStage
  BY <1>1, <1>9 DEF StatesStage
<1>10. CASE StatesInsert
  <2>1. invalid' = invalid \/ invalid' = NoBlock
    BY <1>10 DEF StatesInsert, Resolve
  <2>2. UNCHANGED <<cache, stage, revert>>
    BY <1>10 DEF StatesInsert
  <2> QED BY <2>1, <2>2
<1>11. CASE StatesBadBlock
  BY <1>11 DEF StatesBadBlock, RevertTo
<1>12. CASE StatesWrongNumber
  <2>1. UNCHANGED <<revert, invalid>> \/ revert' = TRUE
    BY <1>12 DEF StatesWrongNumber, RevertTo
  <2>2. UNCHANGED <<stage, cache>>
    BY <1>12 DEF StatesWrongNumber
  <2> QED BY <2>1, <2>2
<1>13. CASE StatesEnd
  BY <1>13 DEF StatesEnd, NextStage, Marks
<1>14. CASE EndCycle
  BY <1>14 DEF EndCycle
<1>15. CASE AddConsensusLastMile \/ AfterSync
  BY <1>1, <1>15 DEF AddConsensusLastMile, AfterSync
<1>16. CASE Restart
  BY <1>16 DEF Restart
<1>17. CASE UNCHANGED vars
  BY <1>1, <1>17 DEF vars, cycle
<1> QED
  BY <1>2, <1>3, <1>4, <1>5, <1>6, <1>7, <1>8, <1>9, <1>10, <1>11, <1>12, <1>13, <1>14, <1>15,
     <1>16, <1>17 DEF Next, Syncing

\* The invariant holds at first and is kept.
LEMMA InitFresh ==
    ASSUME SyncAssumption
    PROVE  Init => FreshInv
<1> SUFFICES ASSUME Init PROVE FreshInv
  OBVIOUS
<1>1. NoCache \in [1..MaxHeight -> Cells]
  BY DEF NoCache, Missing, Cells
<1>2. NoNext \in [number : Nat, redo : BOOLEAN]
      /\ NoSync \in [before : Nat, est : Nat, added : Nat, failed : BOOLEAN]
  BY DEF NoNext, NoSync
<1>3. SyncTypes
  BY <1>1, <1>2 DEF Init, SyncTypes, SyncAssumption
<1>4. Marks /\ Replaced
  BY DEF Init, Marks, Replaced
<1> QED BY <1>3, <1>4 DEF FreshInv

LEMMA FreshStep ==
    ASSUME SyncAssumption, FreshInv, [Next]_vars
    PROVE  FreshInv'
BY TypeStep, MarksStep, ReplacedStep DEF FreshInv

\* When the States stage comes to a bad block again, its new version is of a stream that
\* has not delivered a bad one yet (redownloadBadBlock), whatever fails, is resumed or
\* restarts in between and whatever consensus inserts meanwhile.
THEOREM RetriesAreFresh ==
    ASSUME SyncAssumption
    PROVE  Spec => []RetryUsesFreshStream
<1>1. FreshInv => RetryUsesFreshStream
  BY DEF FreshInv, Marks, Replaced, RetryUsesFreshStream
<1>2. FreshInv /\ [Next]_vars => FreshInv'
  BY FreshStep
<1> QED BY <1>1, <1>2, InitFresh, PTL DEF Spec

-----------------------------------------------------------------------------
\* Without consensus inserting blocks of its own the head moves only where the stages
\* move it.
Present(from) == \A n \in from..cycleTarget : cache[n].kind # "none"

\* The States stage is at the block after the head.
AtNext ==
    at = "states" => next.number = head + 1 /\ (invalid # NoBlock => next.redo)

\* A bad block is the one after the head.  The blocks behind it stay in the databases,
\* and the long range goes on until it is replaced.
BadIsNext ==
    invalid # NoBlock =>
        /\ initSync /\ invalid.number = head + 1 /\ head < cycleTarget /\ stage <= 5
        /\ Present(head + 2)
        /\ at \in {"run", "states"} => head < target
        /\ at # "lastmile"
        /\ at = "after" => sync.failed \/ sync.added = 0

\* Past the Bodies stage all blocks are there, unless the stages are only passed through.
Downloaded ==
    stage = 5 /\ ~revert /\ initSync /\ (at = "run" => head < target) => Present(head + 1)

StatesLong == at = "states" => initSync

StoredInv == FreshInv /\ AtNext /\ BadIsNext /\ Downloaded /\ StatesLong

\* Every step keeps the blocks in the databases.
LEMMA StoredStep ==
    ASSUME SyncAssumption, ~Concurrent, StoredInv, [Next]_vars
    PROVE  (AtNext /\ BadIsNext /\ Downloaded /\ StatesLong)'
<1> DEFINE Rest == AtNext /\ BadIsNext /\ Downloaded /\ StatesLong
<1> USE DEF StoredInv, AtNext, BadIsNext, Downloaded, StatesLong, Present
<1>a. ASSUME UNCHANGED <<head, at, initSync, cycle, sync>> PROVE Rest'
  BY <1>a DEF cycle
<1>1. CASE DoSync
  <2>1. UNCHANGED <<head, initSync, invalid, cycleTarget, cache, next>> /\ at = "wait"
    BY <1>1 DEF DoSync, chain
  <2>2. \/ at' = "after" /\ UNCHANGED <<stage, revert>> /\ sync'.added = 0
        \/ BeginCycle /\ (initSync => head < target')
    <3>1. PICK est \in IF initSync THEN Max({1, net - MaxLag})..net ELSE {0} :
          /\ sync' = [before |-> head, est |-> est, added |-> 0, failed |-> FALSE]
          /\ target' = IF initSync THEN est ELSE target
          /\ IF initSync /\ est <= head
             THEN at' = "after" /\ UNCHANGED <<stage, revert, inserted>>
             ELSE BeginCycle
      BY <1>1, Zenon DEF DoSync
    <3>2. CASE initSync /\ est <= head
      <4>1. at' = "after" /\ UNCHANGED <<stage, revert>>
        BY <3>1, <3>2, Zenon
      <4>2. sync'.added = 0
        BY <3>1
      <4> QED BY <4>1, <4>2
    <3>3. CASE ~(initSync /\ est <= head)
      <4>1. BeginCycle /\ (initSync => target' = est)
        BY <3>1, <3>3, Zenon
      <4>2. initSync => est \in Int /\ ~(est <= head)
        BY <3>3
      <4> QED BY <4>1, <4>2 DEF FreshInv, SyncTypes
    <3> QED BY <3>2, <3>3
  <2>3. CASE at' = "after" /\ UNCHANGED <<stage, revert>> /\ sync'.added = 0
    BY <2>1, <2>3
  <2>4. CASE BeginCycle /\ (initSync => head < target')
    BY <2>1, <2>4, SMTT(20) DEF BeginCycle
  <2> QED BY <2>2, <2>3, <2>4, SMTT(20)
<1>2. CASE EstimateFails \/ NetGrows \/ StreamJoins
  BY <1>a, <1>2 DEF EstimateFails, NetGrows, StreamJoins
<1>3. CASE SkipStage
  <2>1. /\ stage \in 1..7 /\ stage' = stage + 1 /\ at = "run"
        /\ UNCHANGED <<head, at, initSync, revert, invalid, target, cycleTarget, next, sync>>
    BY <1>3, StageNames DEF SkipStage, FreshInv, SyncTypes, NextStage, chain
  <2>2. invalid # NoBlock => cache' = cache /\ stage \in 1..3
    BY <1>3, <2>1, StageNames, SMTT(20) DEF SkipStage, Skips, FreshInv, SyncTypes
  <2>3. stage = 4 => ~initSync \/ head >= target \/ head >= cycleTarget
    BY <1>3, <2>1, StageNames DEF SkipStage, Skips
  <2>4. (AtNext /\ StatesLong)'
    BY <2>1
  <2>5. BadIsNext'
    BY <2>1, <2>2
  <2>6. Downloaded'
    <3> SUFFICES ASSUME stage' = 5, initSync, head < target,
                        NEW n \in head + 1..cycleTarget
                 PROVE  FALSE
      BY <2>1
    <3>1. stage = 4 /\ head \in Nat /\ target \in Nat /\ cycleTarget \in Nat
      BY <2>1 DEF FreshInv, SyncTypes
    <3> QED BY <2>3, <3>1
  <2> QED BY <2>4, <2>5, <2>6
<1>4. CASE HeadsStage
  <2>1. stage = 1 /\ stage' = 2 /\ invalid = NoBlock /\ at = "run"
        /\ UNCHANGED <<invalid, at>>
    BY <1>4, StageNames, SMTT(20) DEF HeadsStage, Running, Skips, FreshInv, SyncTypes, NextStage
  <2> QED BY <2>1
<1>5. CASE ShortRangeStage
  <2>1. stage = 3 /\ stage' = 4 /\ invalid = NoBlock /\ at = "run"
        /\ UNCHANGED <<invalid, at>>
    BY <1>5, StageNames, SMTT(20) DEF ShortRangeStage, Running, Skips, FreshInv, SyncTypes,
         NextStage
  <2> QED BY <2>1
<1>6. CASE ShortRangeFails
  <2>1. stage = 3 /\ invalid = NoBlock /\ at' = "after" /\ UNCHANGED cycle
    BY <1>6, StageNames, SMTT(20) DEF ShortRangeFails, Running, Skips, FreshInv, SyncTypes, Fail
  <2> QED BY <2>1 DEF cycle
<1>7. CASE BodiesStage
  <2>1. PICK got \in [head + 1..cycleTarget -> {d \in Deliveries : d.stream \in streams}] :
          cache' = [n \in 1..MaxHeight |-> IF n \in DOMAIN got THEN got[n] ELSE Missing]
    BY <1>7, Zenon DEF BodiesStage
  <2>2. /\ invalid = NoBlock /\ at = "run"
        /\ UNCHANGED <<head, at, invalid, cycleTarget>>
    BY <1>7 DEF BodiesStage, Running, chain
  <2>3. ASSUME NEW n \in head + 1..cycleTarget PROVE cache'[n].kind # "none"
    <3>1. n \in 1..MaxHeight
      BY DEF FreshInv, SyncTypes, SyncAssumption
    <3>2. \A d \in Deliveries : d.kind # "none"
      BY DEF Deliveries, SyncAssumption
    <3> QED BY <2>1, <3>1, <3>2
  <2> QED BY <2>2, <2>3
<1>8. CASE RedownloadBadBlock
  <2>1. PICK d \in Deliveries : Redownload(d)
    BY <1>8 DEF RedownloadBadBlock
  <2>2. /\ stage = 4 /\ at = "run" /\ invalid # NoBlock /\ invalid.number \in 1..MaxHeight
        /\ UNCHANGED <<head, at, initSync, revert, invalid, target, cycleTarget, sync>>
    BY <1>8, StageNames, SMTT(20) DEF RedownloadBadBlock, Running, FreshInv, SyncTypes
  <2>3. \/ cache' = [cache EXCEPT ![invalid.number] = d] /\ stage' = 5
        \/ UNCHANGED <<cache, stage>>
    <3>1. stage + 1 = 5
      BY <2>2
    <3> QED BY <2>1, <3>1, Zenon DEF Redownload, NextStage
  <2>4. CASE cache' = [cache EXCEPT ![invalid.number] = d] /\ stage' = 5
    <3>1. d.kind # "none"
      BY DEF Deliveries, SyncAssumption
    <3>2. ASSUME NEW n \in head + 1..cycleTarget PROVE cache'[n].kind # "none"
      <4>1. n \in 1..MaxHeight /\ (n = invalid.number \/ n \in head + 2..cycleTarget)
        BY <2>2 DEF FreshInv, SyncTypes, SyncAssumption
      <4> QED BY <2>2, <2>4, <3>1, <4>1 DEF FreshInv, SyncTypes
    <3>3. \A n \in head + 2..cycleTarget : n \in head + 1..cycleTarget
      BY DEF FreshInv, SyncTypes
    <3> QED BY <2>2, <2>4, <3>2, <3>3
  <2>5. CASE UNCHANGED <<cache, stage>>
    BY <2>2, <2>5
  <2> QED BY <2>3, <2>4, <2>5
<1>9. CASE RedownloadFails
  <2>1. stage = 4 /\ invalid # NoBlock /\ at' = "after" /\ sync'.failed
        /\ UNCHANGED <<head, initSync, cycle>>
    BY <1>9, StageNames, SMTT(20) DEF RedownloadFails, Running, FreshInv, SyncTypes, Fail, chain
  <2> QED BY <2>1 DEF cycle
<1>10. CASE StatesStage
  <2>1. stage = 5 /\ at = "run" /\ initSync /\ head < target /\ ~revert
    BY <1>10, StageNames, SMTT(20) DEF StatesStage, Running, Skips, FreshInv, SyncTypes, Marks
  <2>2. /\ at' = "states" /\ next'.number = head + 1 /\ (invalid # NoBlock => next'.redo)
        /\ UNCHANGED <<head, initSync, stage, revert, invalid, target, cycleTarget, cache, sync>>
    BY <1>10, Zenon DEF StatesStage, chain
  <2> QED BY <2>1, <2>2
<1>11. CASE StatesInsert
  <2>1. /\ at = "states" /\ stage = 5 /\ ~revert /\ next.number = head + 1 /\ head \in Nat
        /\ cycleTarget \in Nat /\ next \in [number : Nat, redo : BOOLEAN] /\ initSync
    BY <1>11 DEF StatesInsert, FreshInv, Marks, SyncTypes
  <2>2. head' = head + 1 /\ next' = [next EXCEPT !.number = @ + 1] /\ invalid' = Resolve(head + 1)
    BY <1>11, <2>1 DEF StatesInsert
  <2>3. invalid' = NoBlock
    BY <2>1, <2>2 DEF Resolve
  <2>4. /\ next'.number = head' + 1
        /\ UNCHANGED <<at, initSync, stage, revert, cycleTarget, cache>>
    BY <1>11, <2>1, <2>2 DEF StatesInsert
  <2>5. \A n \in head' + 1..cycleTarget : n \in head + 1..cycleTarget
    BY <2>1, <2>2
  <2> QED BY <2>1, <2>2, <2>3, <2>4, <2>5
<1>12. ASSUME at = "states", next.number <= cycleTarget, Fail,
              UNCHANGED <<head, initSync, stage, cycleTarget, cache>>,
              \/ UNCHANGED <<revert, invalid>>
              \/ revert' = TRUE /\ invalid'.number = next.number
       PROVE  Rest'
  <2>1. /\ at' = "after" /\ sync'.failed /\ stage = 5 /\ ~revert /\ initSync
        /\ next.number = head + 1 /\ head \in Nat /\ cycleTarget \in Nat
    BY <1>12 DEF Fail, FreshInv, Marks, SyncTypes
  <2>2. \A n \in head + 2..cycleTarget : n \in head + 1..cycleTarget
    BY <2>1, SMTT(20)
  <2> QED BY <1>12, <2>1, <2>2
<1>13. CASE StatesBadBlock
  <2>1. RevertTo(next.number, cache[next.number].stream)
    BY <1>13, Zenon DEF StatesBadBlock
  <2>2. revert' = TRUE /\ invalid'.number = next.number
    BY <2>1 DEF RevertTo
  <2> QED BY <1>12, <1>13, <2>2, Zenon DEF StatesBadBlock
<1>14. CASE StatesWrongNumber
  <2>1. \/ UNCHANGED <<revert, invalid>>
        \/ revert' = TRUE /\ invalid'.number = next.number
    <3>1. \/ UNCHANGED <<revert, invalid>>
          \/ RevertTo(next.number, cache[next.number].stream)
      BY <1>14, Zenon DEF StatesWrongNumber
    <3> QED BY <3>1 DEF RevertTo
  <2> QED BY <1>12, <1>14, <2>1, Zenon DEF StatesWrongNumber
<1>15. CASE StatesEnd
  <2>1. stage' = 6 /\ at' = "run" /\ invalid' = invalid /\ invalid = NoBlock
    BY <1>15 DEF StatesEnd, NextStage, FreshInv, Marks, SyncTypes
  <2> QED BY <2>1
<1>16. CASE EndCycle
  <2>1. stage' = 1 /\ at' \in {"run", "lastmile"} /\ invalid' = invalid /\ invalid = NoBlock
    <3>1. stage' = 1 /\ invalid' = invalid /\ at = "run"
      BY <1>16 DEF EndCycle
    <3>2. at' = at \/ at' = "lastmile"
      BY <1>16 DEF EndCycle
    <3>3. invalid = NoBlock
      <4>1. stage > Len(Stages)
        BY <1>16, Zenon DEF EndCycle
      <4>2. stage > 7 /\ stage \in Nat
        BY <4>1, StageNames DEF FreshInv, SyncTypes
      <4> QED BY <4>2
    <3> QED BY <3>1, <3>2, <3>3
  <2> QED BY <2>1
<1>17. CASE AddConsensusLastMile
  <2>1. /\ at = "lastmile" /\ at' = "after" /\ stage' = stage /\ invalid' = invalid
        /\ invalid = NoBlock /\ stage = 1
    BY <1>17 DEF AddConsensusLastMile, Fail, FreshInv, Marks
  <2> QED BY <2>1
<1>18. CASE AfterSync
  <2>1. /\ at = "after" /\ at' = "wait"
        /\ UNCHANGED <<head, stage, revert, invalid, cycleTarget, cache>>
    BY <1>18 DEF AfterSync, chain
  <2>2. initSync' => initSync
    BY <1>18, Zenon DEF AfterSync
  <2>3. invalid # NoBlock => initSync'
    <3>1. invalid # NoBlock => initSync /\ ~(~sync.failed /\ sync.added > 0)
      BY <2>1 DEF FreshInv, SyncTypes
    <3> QED BY <1>18, <3>1, Zenon DEF AfterSync
  <2> QED BY <2>1, <2>2, <2>3
<1>19. CASE ConsensusInserts
  BY <1>19 DEF ConsensusInserts
<1>20. CASE Restart
  BY <1>20 DEF Restart
<1>21. CASE UNCHANGED vars
  BY <1>a, <1>21 DEF vars, chain
<1> HIDE DEF StoredInv, AtNext, BadIsNext, Downloaded, StatesLong, Present
<1> QED
  BY <1>1, <1>2, <1>3, <1>4, <1>5, <1>6, <1>7, <1>8, <1>9, <1>10, <1>11, <1>13, <1>14, <1>15,
     <1>16, <1>17, <1>18, <1>19, <1>20, <1>21, SMTT(20) DEF Next, Syncing

\* The States stage finds every block of the cycle in the databases, also when a failed
\* cycle is resumed and after a bad block has been replaced (stage_states.go,
\* stage_bodies.go), for any streams, heights and cycle lengths, as long as consensus
\* inserts no blocks of its own meanwhile.
THEOREM StatesFindBlocks ==
    ASSUME SyncAssumption, ~Concurrent
    PROVE  Spec => []NothingMissing
<1>1. Init => StoredInv
  <2>1. Init => FreshInv
    BY InitFresh
  <2>2. Init => AtNext /\ BadIsNext /\ Downloaded /\ StatesLong
    BY DEF Init, AtNext, BadIsNext, Downloaded, StatesLong
  <2> QED BY <2>1, <2>2 DEF StoredInv
<1>2. StoredInv /\ [Next]_vars => StoredInv'
  BY FreshStep, StoredStep DEF StoredInv
<1>3. StoredInv => NothingMissing
  BY SMTT(20) DEF StoredInv, FreshInv, Marks, StatesLong, Downloaded, Present, NothingMissing
<1> QED BY <1>1, <1>2, <1>3, PTL DEF Spec

-----------------------------------------------------------------------------
(* SyncEvents.                                                             *)

CONSTANT EpochEnds

VARIABLES eventNet, eventHead, longRange, download, estimated, added, startedCh,
          finishedCh, startedLoop, finishedLoop, mode, blockNum, timer

Events == INSTANCE SyncEvents WITH
    net <- eventNet, head <- eventHead, initSync <- longRange

\* A download runs, or its end has not been handled yet.
Untold == download \/ finishedCh \/ finishedLoop = "handle"

EventTypes ==
    /\ eventNet \in Nat /\ eventHead \in Nat /\ blockNum \in Nat
    /\ finishedLoop \in {"wait", "handle"}

\* Consensus is never ahead of the chain, and behind it only while the end of a
\* download is still to be handled.
Follows == blockNum <= eventHead + 1 /\ (Untold \/ blockNum = eventHead + 1)

EventInv == EventTypes /\ eventHead <= eventNet /\ Follows

\* Every step keeps the invariant.
LEMMA EventStep == EventInv /\ [Events!Next]_Events!vars => EventInv'
<1> SUFFICES ASSUME EventInv, [Events!Next]_Events!vars PROVE EventInv'
  OBVIOUS
<1> USE DEF EventInv, EventTypes, Follows, Untold
<1>1. CASE Events!StartSyncing
  BY <1>1 DEF Events!StartSyncing, Events!chain, Events!consensus
<1>2. CASE Events!DownloadInserts
  BY <1>2 DEF Events!DownloadInserts, Events!loops, Events!consensus
<1>3. CASE Events!FinishSyncing
  BY <1>3 DEF Events!FinishSyncing, Events!chain, Events!consensus
<1>4. CASE Events!DownloadStartedLoop
  BY <1>4 DEF Events!DownloadStartedLoop, Events!chain, Events!downloader, Events!consensus
<1>5. CASE Events!BlocksNotSynchronized
  BY <1>5 DEF Events!BlocksNotSynchronized, Events!chain, Events!downloader
<1>6. CASE Events!DownloadFinishedLoop
  <2>1. /\ eventHead' \in eventHead..eventNet /\ eventNet' = eventNet /\ blockNum' = blockNum
        /\ finishedLoop' = "handle"
    BY <1>6 DEF Events!DownloadFinishedLoop, Events!consensus
  <2>2. /\ eventNet \in Nat /\ eventHead \in Nat /\ blockNum \in Nat
        /\ blockNum <= eventHead + 1
    OBVIOUS
  <2> HIDE DEF EventInv, EventTypes, Follows, Untold
  <2>3. eventHead' \in Nat /\ eventHead' <= eventNet' /\ blockNum' <= eventHead' + 1
    <3>1. eventHead' \in Int /\ eventHead <= eventHead' /\ eventHead' <= eventNet
      BY <2>1, <2>2
    <3>2. \A h \in Int : eventHead <= h => h \in Nat /\ blockNum <= h + 1
      BY <2>2
    <3> QED BY <2>1, <3>1, <3>2
  <2>4. EventTypes'
    BY <2>1, <2>2, <2>3 DEF EventTypes
  <2>5. Follows'
    BY <2>1, <2>3, Zenon DEF Follows, Untold
  <2> QED BY <2>3, <2>4, <2>5 DEF EventInv
<1>7. CASE Events!SyncReady
  BY <1>7 DEF Events!SyncReady, Events!chain, Events!downloader, Events!consensus
<1>8. CASE Events!SpinUpStateSync
  BY <1>8 DEF Events!SpinUpStateSync, Events!chain, Events!events, Events!downloader, Events!loops
<1>9. ASSUME NEW n \in 1..eventNet, NEW then \in 1..(eventNet + 1), Events!OnCommitted(n, then)
      PROVE  EventInv'
  <2>1. /\ then \in blockNum..(eventNet + 1) /\ blockNum' = then
        /\ eventHead' = Events!Max({eventHead, then - 1}) /\ eventNet' = eventNet
        /\ UNCHANGED <<download, finishedCh, finishedLoop>>
    BY <1>9 DEF Events!OnCommitted, Events!events, Events!downloader, Events!loops
  <2>2. Events!Max({eventHead, then - 1}) = Max({eventHead, then - 1})
    BY DEF Events!Max, Max
  <2>3. eventHead' = IF eventHead >= then - 1 THEN eventHead ELSE then - 1
    BY <2>1, <2>2, MaxOfTwo
  <2> QED BY <2>1, <2>3
<1>10. CASE Events!TickStops
  BY <1>10 DEF Events!TickStops, Events!chain, Events!events, Events!downloader, Events!loops
<1>11. CASE Events!StartViewChange
  BY <1>11 DEF Events!StartViewChange, Events!chain, Events!events, Events!downloader, Events!loops
<1>12. CASE Events!NetGrows
  BY <1>12 DEF Events!NetGrows, Events!events, Events!downloader, Events!loops, Events!consensus
<1>13. CASE UNCHANGED Events!vars
  BY <1>13 DEF Events!vars, Events!chain, Events!events, Events!downloader, Events!loops,
       Events!consensus
<1> QED BY <1>1, <1>2, <1>3, <1>4, <1>5, <1>6, <1>7, <1>8, <1>9, <1>10, <1>11, <1>12, <1>13,
     Zenon DEF Events!Next

\* The invariant holds in every behaviour.
LEMMA EventInvariance ==
    ASSUME MaxHeight \in Nat
    PROVE  Events!Spec => []EventInv
<1>1. Events!Init => EventInv
  BY DEF Events!Init, EventInv, EventTypes, Follows, Untold
<1> QED BY <1>1, EventStep, PTL DEF Events!Spec

\* When the downloads are over and their events handled, consensus works on the block
\* after the head, in whatever order the two goroutines of downloader.go took the
\* consensus lock and whatever consensus committed from its log meanwhile.
THEOREM NumberFollows ==
    ASSUME MaxHeight \in Nat
    PROVE  Events!Spec => []Events!NumberFollowsChain
<1>1. EventInv => Events!NumberFollowsChain
  BY DEF EventInv, Follows, Untold, Events!NumberFollowsChain, Events!Quiet
<1> QED BY <1>1, EventInvariance, PTL

\* Consensus never works on a block whose parent the chain does not have, also while
\* downloads run and their events are late (downloader.go, tryCatchup).
THEOREM ParentInserted ==
    ASSUME MaxHeight \in Nat
    PROVE  Events!Spec => [](blockNum <= eventHead + 1)
<1>1. EventInv => blockNum <= eventHead + 1
  BY DEF EventInv, Follows
<1> QED BY <1>1, EventInvariance, PTL

-----------------------------------------------------------------------------
(* StreamManager.                                                          *)

CONSTANTS Conns, Peer, Current, Compatible, HiCap, SoftLoCap, HardLoCap, Timely

VARIABLES conn, openStreams, loop, discCh, tickDue, coolDown, coolDownCache,
          discovering, setups

Manager == INSTANCE StreamManager WITH streams <- openStreams

ConnStatus == {"none", "adding", "refused", "open", "closing", "removed", "reset"}

ManagerTypes ==
    /\ conn \in [Conns -> ConnStatus]
    /\ openStreams \subseteq Conns /\ IsFiniteSet(openStreams)

ManagerInv == ManagerTypes /\ Manager!SetIsOpenStreams

\* The room left in the set: handleAddStream refuses a stream when there is none.
WithinCap == Cardinality(openStreams) <= HiCap

\* Steps that touch neither the connections nor the set of streams, and do not start
\* the loop again.
LEMMA ManagerFrame ==
    ASSUME ManagerInv, UNCHANGED <<conn, openStreams>>, loop' # "stopped" => loop # "stopped"
    PROVE  ManagerInv'
BY DEF ManagerInv, ManagerTypes, Manager!SetIsOpenStreams

\* A connection goes from one status outside the set to another (HandleStream, Reset,
\* a setup, a refusal).
LEMMA OutsideSet ==
    ASSUME ManagerInv, NEW c \in Conns, NEW s \in ConnStatus \ {"open", "closing"},
           conn[c] \notin {"open", "closing"}, conn' = [conn EXCEPT ![c] = s],
           UNCHANGED <<openStreams, loop>>
    PROVE  ManagerInv'
<1>1. ManagerTypes'
  BY DEF ManagerInv, ManagerTypes
<1>2. {d \in Conns : conn'[d] \in {"open", "closing"}} = {d \in Conns : conn[d] \in {"open", "closing"}}
  BY DEF ManagerInv, ManagerTypes
<1> QED BY <1>1, <1>2 DEF ManagerInv, Manager!SetIsOpenStreams

\* Every step keeps the set equal to the open streams.
LEMMA ManagerStep == ManagerInv /\ [Manager!Next]_Manager!vars => ManagerInv'
<1> SUFFICES ASSUME ManagerInv, [Manager!Next]_Manager!vars PROVE ManagerInv'
  OBVIOUS
<1> USE DEF Manager!vars
<1>1. ASSUME NEW c \in Conns, Manager!HandleStream(c) PROVE ManagerInv'
  <2> DEFINE s == IF c \in Compatible THEN "adding" ELSE "refused"
  <2>1. /\ s \in ConnStatus \ {"open", "closing"} /\ conn[c] \notin {"open", "closing"}
        /\ conn' = [conn EXCEPT ![c] = s] /\ UNCHANGED <<openStreams, loop>>
    BY <1>1 DEF Manager!HandleStream, ConnStatus
  <2> HIDE DEF s
  <2> QED BY <2>1, OutsideSet, Zenon
<1>2. ASSUME NEW c \in Conns, Manager!Close(c) PROVE ManagerInv'
  <2>1. conn[c] = "open" /\ conn' = [conn EXCEPT ![c] = "closing"] /\ UNCHANGED <<openStreams, loop>>
    BY <1>2 DEF Manager!Close
  <2>2. ManagerTypes'
    BY <2>1 DEF ManagerInv, ManagerTypes, ConnStatus
  <2>3. {d \in Conns : conn'[d] \in {"open", "closing"}}
          = {d \in Conns : conn[d] \in {"open", "closing"}}
    BY <2>1 DEF ManagerInv, ManagerTypes
  <2> QED BY <2>1, <2>2, <2>3 DEF ManagerInv, Manager!SetIsOpenStreams
<1>3. ASSUME NEW c \in Conns, Manager!Reset(c) PROVE ManagerInv'
  BY <1>3, OutsideSet, Zenon DEF Manager!Reset, ConnStatus
<1>4. ASSUME NEW c \in Conns, Manager!handleAddStream(c) PROVE ManagerInv'
  <2>1. CASE Manager!Admits(c)
    <3>1. /\ conn[c] = "adding" /\ conn' = [conn EXCEPT ![c] = "open"]
          /\ openStreams' = openStreams \cup {c} /\ Manager!StreamOf(Peer[c]) = {} /\ loop # "stopped"
      BY <1>4, <2>1, SMTT(20) DEF Manager!handleAddStream, Manager!Admits
    <3>2. ManagerTypes'
      BY <3>1, FS_AddElement DEF ManagerInv, ManagerTypes, ConnStatus
    <3>3. {d \in Conns : conn'[d] \in {"open", "closing"}}
             = {d \in Conns : conn[d] \in {"open", "closing"}} \cup {c}
      BY <3>1 DEF ManagerInv, ManagerTypes
    <3>4. \A d \in openStreams : Peer[d] # Peer[c]
      BY <3>1 DEF Manager!StreamOf
    <3> QED BY <3>1, <3>2, <3>3, <3>4 DEF ManagerInv, Manager!SetIsOpenStreams
  <2>2. CASE ~Manager!Admits(c)
    BY <1>4, <2>2, OutsideSet, SMTT(20) DEF Manager!handleAddStream, ConnStatus
  <2> QED BY <2>1, <2>2
<1>5. ASSUME NEW c \in Conns, Manager!handleRemoveStream(c) PROVE ManagerInv'
  <2>1. /\ conn[c] = "closing" /\ conn' = [conn EXCEPT ![c] = "removed"] /\ loop # "stopped"
        /\ openStreams' = openStreams \ Manager!StreamOf(Peer[c])
    BY <1>5, SMTT(20) DEF Manager!handleRemoveStream
  <2>2. c \in openStreams /\ \A d \in openStreams : Peer[d] = Peer[c] => d = c
    BY <2>1 DEF ManagerInv, Manager!SetIsOpenStreams
  <2>3. Manager!StreamOf(Peer[c]) = {c}
    BY <2>2, SMTT(20) DEF Manager!StreamOf
  <2>4. ManagerTypes'
    BY <2>1, <2>3, FS_RemoveElement, SMTT(20) DEF ManagerInv, ManagerTypes, ConnStatus
  <2>5. {d \in Conns : conn'[d] \in {"open", "closing"}}
           = {d \in Conns : conn[d] \in {"open", "closing"}} \ {c}
    BY <2>1, SMTT(20) DEF ManagerInv, ManagerTypes
  <2> QED BY <2>1, <2>3, <2>4, <2>5, SMTT(20) DEF ManagerInv, Manager!SetIsOpenStreams
<1>6. CASE Manager!EventReceived \/ Manager!TickerFires \/ Manager!TickIdle
           \/ Manager!Tick \/ Manager!SkipDiscovery \/ Manager!StartDiscovery
  BY <1>6, ManagerFrame DEF Manager!EventReceived, Manager!TickerFires, Manager!TickIdle,
       Manager!Tick, Manager!SkipDiscovery, Manager!StartDiscovery
<1>7. ASSUME NEW found \in SUBSET Manager!Peers, Manager!Discovered(found) PROVE ManagerInv'
  BY <1>7, ManagerFrame, SMTT(20) DEF Manager!Discovered
<1>8. ASSUME NEW p \in Manager!Peers, Manager!SetupStream(p) PROVE ManagerInv'
  <2>1. UNCHANGED <<openStreams, loop>>
    BY <1>8 DEF Manager!SetupStream
  <2>2. CASE UNCHANGED conn
    BY <2>1, <2>2, ManagerFrame
  <2>3. ASSUME NEW c \in Conns, conn[c] = "none",
               conn' = [conn EXCEPT ![c] = IF c \in Compatible THEN "adding" ELSE "refused"]
        PROVE  ManagerInv'
    <3>1. (IF c \in Compatible THEN "adding" ELSE "refused") \in ConnStatus \ {"open", "closing"}
      BY DEF ConnStatus
    <3>2. conn[c] \notin {"open", "closing"}
      BY <2>3
    <3> QED BY <2>1, <2>3, <3>1, <3>2, OutsideSet, Zenon
  <2> QED BY <1>8, <2>2, <2>3, SMTT(20) DEF Manager!SetupStream
<1>9. ASSUME NEW p \in Manager!Peers, Manager!CacheExpires(p) PROVE ManagerInv'
  BY <1>9, ManagerFrame DEF Manager!CacheExpires
<1>10. CASE Manager!CoolDownOver
  BY <1>10, ManagerFrame DEF Manager!CoolDownOver
<1>11. CASE Manager!Stop
  <2>1. openStreams' = {} /\ loop' = "stopped" /\ conn' \in [Conns -> ConnStatus]
    BY <1>11 DEF Manager!Stop, ManagerInv, ManagerTypes, ConnStatus
  <2> QED BY <2>1, FS_EmptySet DEF ManagerInv, ManagerTypes, Manager!SetIsOpenStreams
<1>12. CASE UNCHANGED Manager!vars
  BY <1>12, ManagerFrame
<1> QED BY <1>1, <1>2, <1>3, <1>4, <1>5, <1>6, <1>7, <1>8, <1>9, <1>10, <1>11, <1>12,
     SMTT(20) DEF Manager!Next, Manager!Step

\* The inductive invariant holds in every state of the stream manager.
LEMMA ManagerInvariance == Manager!Spec => []ManagerInv
<1>1. Manager!Init => ManagerInv
  BY FS_EmptySet DEF Manager!Init, ManagerInv, ManagerTypes, Manager!SetIsOpenStreams, ConnStatus
<1> QED BY <1>1, ManagerStep, PTL DEF Manager!Spec

\* The set of the manager is exactly the streams that run and have not been taken out
\* by their own Close, one per peer, although RemoveStream only names the peer
\* (handleAddStream, handleRemoveStream).
THEOREM OpenStreams == Manager!Spec => []Manager!SetIsOpenStreams
<1>1. ManagerInv => Manager!SetIsOpenStreams
  BY DEF ManagerInv
<1> QED BY ManagerInvariance, <1>1, PTL

\* handleAddStream keeps the number of streams within HiCap, whatever is opened,
\* discovered and closed meanwhile.
THEOREM StreamsWithinCap ==
    ASSUME HiCap \in Nat
    PROVE  Manager!Spec => []WithinCap
<1>1. Manager!Init => WithinCap
  BY FS_EmptySet DEF Manager!Init, WithinCap
<1>2. ManagerInv /\ WithinCap /\ [Manager!Next]_Manager!vars => WithinCap'
  <2> SUFFICES ASSUME ManagerInv, WithinCap, [Manager!Next]_Manager!vars PROVE WithinCap'
    OBVIOUS
  <2>0. IsFiniteSet(openStreams) /\ Cardinality(openStreams) \in Nat
    BY FS_CardinalityType DEF ManagerInv, ManagerTypes
  <2>1. CASE openStreams' \subseteq openStreams
    BY <2>0, <2>1, FS_Subset, FS_CardinalityType DEF WithinCap
  <2>2. ASSUME NEW c \in Conns, Cardinality(openStreams) < HiCap, openStreams' = openStreams \cup {c}
        PROVE  WithinCap'
    BY <2>0, <2>2, FS_AddElement DEF WithinCap
  <2>3. ASSUME NEW c \in Conns, Manager!handleAddStream(c) PROVE WithinCap'
    <3>0. Manager!Cardinality(openStreams) = Cardinality(openStreams)
      BY DEF Manager!Cardinality, Cardinality
    <3>1. CASE Manager!Admits(c)
      <4>1. openStreams' = openStreams \cup {c} /\ Cardinality(openStreams) < HiCap
        BY <2>3, <3>0, <3>1 DEF Manager!handleAddStream, Manager!Admits
      <4> QED BY <2>2, <4>1
    <3>2. CASE ~Manager!Admits(c)
      BY <2>1, <2>3, <3>2, SMTT(20) DEF Manager!handleAddStream
    <3> QED BY <3>1, <3>2
  <2>4. ASSUME NEW c \in Conns, Manager!HandleStream(c) \/ Manager!Close(c)
                                \/ Manager!Reset(c) \/ Manager!handleRemoveStream(c)
        PROVE  WithinCap'
    BY <2>1, <2>4, SMTT(20) DEF Manager!HandleStream, Manager!Close, Manager!Reset,
         Manager!handleRemoveStream
  <2>5. CASE Manager!EventReceived \/ Manager!TickerFires \/ Manager!TickIdle
             \/ Manager!Tick \/ Manager!SkipDiscovery \/ Manager!StartDiscovery
    BY <2>1, <2>5 DEF Manager!EventReceived, Manager!TickerFires, Manager!TickIdle, Manager!Tick,
         Manager!SkipDiscovery, Manager!StartDiscovery
  <2>6. ASSUME NEW found \in SUBSET Manager!Peers, Manager!Discovered(found) PROVE WithinCap'
    BY <2>1, <2>6, SMTT(20) DEF Manager!Discovered
  <2>7. ASSUME NEW p \in Manager!Peers, Manager!SetupStream(p) \/ Manager!CacheExpires(p)
        PROVE WithinCap'
    BY <2>1, <2>7 DEF Manager!SetupStream, Manager!CacheExpires
  <2>8. CASE Manager!CoolDownOver \/ Manager!Stop \/ UNCHANGED Manager!vars
    BY <2>1, <2>8 DEF Manager!CoolDownOver, Manager!Stop, Manager!vars
  <2> QED BY <2>3, <2>4, <2>5, <2>6, <2>7, <2>8, SMTT(20) DEF Manager!Next, Manager!Step
<1> QED BY ManagerInvariance, <1>1, <1>2, PTL DEF Manager!Spec
=============================================================================
