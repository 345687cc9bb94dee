---------------------------- MODULE BlockDownload ----------------------------
(***************************************************************************)
(* The BlockBodies stage of the staged stream sync: the workers of         *)
(* runBlockWorkerLoop share one blockDownloadManager, ask peers for        *)
(* batches of raw blocks and save them in a cache database of their own.   *)
(* A peer serves the blocks of its own chain (getBlocksByNumber), so one   *)
(* that lags answers with fewer blocks than it was asked for.              *)
(***************************************************************************)
EXTENDS DownloadQueue, FiniteSets

CONSTANTS
    Workers,            \* config.Concurrency worker loops
    TargetBN,           \* gbm.targetBN
    BlocksPerRequest,
    Heights,            \* heights of the peers' chains
    MaxHead             \* bound: how far the chain grows meanwhile

VARIABLES
    head,       \* CurrentBlockNumber
    requesting, processing, retries,    \* blockDownloadManager
    bdd,        \* bdd[bn]: the worker whose database has the block, "none" if not set
    blockDB,    \* blockDB[w][bn]: number of the block stored under bn, 0 if none
    batch,      \* the numbers a worker waits for
    done        \* workers that have left their loop

vars == <<head, requesting, processing, retries, bdd, blockDB, batch, done>>

Numbers == 1..TargetBN

Init ==
    /\ head = 0
    /\ requesting = {} /\ processing = {} /\ retries = <<>>
    /\ bdd = [bn \in Numbers |-> "none"]
    /\ blockDB = [w \in Workers |-> [bn \in Numbers |-> 0]]
    /\ batch = [w \in Workers |-> <<>>]
    /\ done = {}

Idle(w) == w \notin done /\ batch[w] = <<>>

NextBatchAnew ==
    LET again == FromRetries(BlocksPerRequest, head, retries)
    IN  again \o FromUnprocessed(BlocksPerRequest - Len(again), head, TargetBN,
                                 requesting \cup ToSet(again))

\* The numbers GetNextBatch hands out: retries first, filled up with new ones.  The
\* result queue that availableForMoreTasks looks at is never filled.
NextBatch ==
    LET again == FromRetries(BlocksPerRequest, head, retries)
    IN  again \o FromUnprocessed(BlocksPerRequest - Len(again), head, TargetBN,
                                 requesting \cup ToSet(again) \cup processing)

\* A worker without a batch leaves its loop.
GetNextBatch(w) ==
    /\ Idle(w)
    /\ retries' = RetriesLeft(BlocksPerRequest, retries)
    /\ batch' = [batch EXCEPT ![w] = NextBatch]
    /\ requesting' = requesting \cup ToSet(NextBatch)
    /\ done' = IF NextBatch = <<>> THEN done \cup {w} ELSE done
    /\ UNCHANGED <<head, processing, bdd, blockDB>>

HandleRequestErrorKeepsRequesting(w) ==
    /\ batch[w] # <<>>
    /\ batch' = [batch EXCEPT ![w] = <<>>]
    /\ UNCHANGED <<head, requesting, processing, retries, bdd, blockDB, done>>

\* The request fails, or the reply is nil or empty.
HandleRequestError(w) ==
    /\ batch[w] # <<>>
    /\ requesting' = requesting \ ToSet(batch[w])
    /\ retries' = PushAll(retries, batch[w])
    /\ batch' = [batch EXCEPT ![w] = <<>>]
    /\ UNCHANGED <<head, processing, bdd, blockDB, done>>

\* The blocks a peer of the given height sends back: those it does not have are left
\* out, not sent as empty entries.
getBlocksByNumber(bns, height) == SelectSeq(bns, LAMBDA bn : bn <= height)

\* saveBlocks stores the i-th block of the reply under the i-th number asked for; an
\* entry without bytes is stored too.
saveBlocks(db, bns, blocks) ==
    [bn \in Numbers |->
        IF \E i \in DOMAIN blocks : bns[i] = bn
        THEN blocks[CHOOSE i \in DOMAIN blocks : bns[i] = bn]
        ELSE db[bn]]

\* The positions whose number goes back to the retries: an entry is there and holds
\* no block.  A position past the end of the reply is none of them.
Missing(bns, blocks) == {i \in DOMAIN bns : i \in DOMAIN blocks /\ blocks[i] = 0}

\* saveBlocks and HandleRequestResult for a reply with at least one entry.
Receive(w, blocks) ==
    LET bns == batch[w]
        failed == {bns[i] : i \in Missing(bns, blocks)}
    IN  /\ blockDB' = [blockDB EXCEPT ![w] = saveBlocks(@, bns, blocks)]
        /\ requesting' = requesting \ ToSet(bns)
        /\ retries' = PushAll(retries, SelectSeq(bns, LAMBDA bn : bn \in failed))
        /\ processing' = processing \cup (ToSet(bns) \ failed)
        /\ bdd' = [bn \in Numbers |-> IF bn \in ToSet(bns) \ failed THEN w ELSE bdd[bn]]
        /\ batch' = [batch EXCEPT ![w] = <<>>]
        /\ UNCHANGED <<head, done>>

\* A peer answers with the blocks it has.
HandleRequestResult(w, height) ==
    /\ batch[w] # <<>>
    /\ getBlocksByNumber(batch[w], height) # <<>>
    /\ Receive(w, getBlocksByNumber(batch[w], height))

\* A peer answers with an entry for every number, the one at position i without a
\* block (number 0).
HandleEmptyEntry(w, i) ==
    /\ i \in DOMAIN batch[w]
    /\ Receive(w, [batch[w] EXCEPT ![i] = 0])

\* Another part of the node (consensus, the beacon helper) inserts the next block.
ChainGrows ==
    /\ head < MaxHead
    /\ head' = head + 1
    /\ UNCHANGED <<requesting, processing, retries, bdd, blockDB, batch, done>>

\* wg.Wait returns.
StageEnds == done = Workers /\ UNCHANGED vars

Worker(w) ==
    \/ GetNextBatch(w) \/ HandleRequestError(w)
    \/ \E height \in Heights : HandleRequestResult(w, height)
    \/ \E i \in 1..BlocksPerRequest : HandleEmptyEntry(w, i)

Next == (\E w \in Workers : Worker(w)) \/ ChainGrows \/ StageEnds

Spec == Init /\ [][Next]_vars

\* A worker's loop runs on, and a peer that has the blocks is asked again and again.
Fairness ==
    /\ \A w \in Workers : WF_vars(GetNextBatch(w))
    /\ \A w \in Workers : SF_vars(\E height \in Heights : height >= TargetBN /\ HandleRequestResult(w, height))

FairSpec == Spec /\ Fairness

-----------------------------------------------------------------------------
(* Properties.                                                             *)

\* No number is dropped: one above the head is asked for, waits to be retried, has
\* been received or has never been handed out while some worker still runs.  When the
\* workers have gone the States stage finds the download details of every block.
AllDownloaded == done = Workers => \A bn \in (head + 1)..TargetBN : bdd[bn] # "none"

\* The stage comes to an end, however often requests fail, as long as a peer that has
\* the blocks answers again and again.
StageFinishes == <>(done = Workers)
=============================================================================
