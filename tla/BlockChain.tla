----------------------------- MODULE BlockChain -----------------------------
(***************************************************************************)
(* BlockChainImpl: how blocks enter the chain database and how the head    *)
(* moves.  Consensus, the sync services and the beacon helper insert       *)
(* concurrently (InsertChain); the sync services take blocks back          *)
(* (Rollback); the node stops or crashes and loads its last state again    *)
(* (loadLastState, repair).  A full node keeps recent state tries in       *)
(* memory only, an archival one writes them all.                           *)
(***************************************************************************)
EXTENDS Naturals, Sequences, FiniteSets, SequencesExt

CONSTANTS
    Blocks, Genesis,
    Parent,             \* Parent[b]: the block b's ParentHash names
    LeaderOf, EpochOf,  \* leader of the block's coinbase, its epoch
    EpochLast,          \* blocks with IsLastBlockInEpoch
    Invalid,            \* blocks whose header does not verify
    Callers, None,
    MaxChain,           \* bound: blocks in one InsertChain call
    Syncers,            \* callers that take blocks back
    MaxRollback,        \* bound: hashes in one Rollback call
    MaxCrashes,         \* bound: crashes
    Stops,              \* whether the node may be stopped
    Archive,            \* cacheConfig.Disabled
    TriesInMemory

VARIABLES
    \* in the database
    db,             \* blocks with a body (HasBlock)
    canon,          \* GetCanonicalHash
    headHash,       \* ReadHeadBlockHash
    disk,           \* blocks whose state trie is written
    \* in memory
    up,             \* "down", "repair", "aborted", "running" or "panicked"
    current,        \* currentBlock
    header,         \* hc.currentHeader
    mem,            \* blocks whose trie is in the trie database (triegc)
    meta,           \* leaderRotationMeta
    interrupt,      \* procInterrupt
    chainmu,        \* who holds the lock
    call,           \* the InsertChain call of each caller
    added,          \* the newest blocks each syncer has added
    crashes

vars == <<db, canon, headHash, disk, up, current, header, mem, meta, interrupt,
          chainmu, call, added, crashes>>
stored == <<db, canon, headHash, disk>>
volatile == <<current, header, mem, meta, interrupt, chainmu, call, added>>

Path[b \in Blocks] == IF b = Genesis THEN <<b>> ELSE Append(Path[Parent[b]], b)
Number(b) == Len(Path[b]) - 1
Ancestry(b) == ToSet(Path[b])
Heights == {Number(b) : b \in Blocks}

HasState(b) == b \in mem \cup disk
NoCall == [at |-> "idle", chain |-> <<>>, todo |-> <<>>, prev |-> None]

-----------------------------------------------------------------------------
(* Leader rotation: how many blocks in a row the head's leader produced. *)

NoMeta == [pub |-> None, epoch |-> 0, count |-> 0]

ProcessKeepsCounting(b, s) ==
    [pub |-> LeaderOf[b], epoch |-> EpochOf[b],
     count |-> IF s.pub = LeaderOf[b] THEN s.count + 1 ELSE 1]

ProcessRotationMeta(b, s) ==
    [pub |-> LeaderOf[b], epoch |-> EpochOf[b],
     count |-> IF s.pub = LeaderOf[b] /\ s.epoch = EpochOf[b] THEN s.count + 1 ELSE 1]

SaveRotationMeta(chain, s) ==
    FoldLeft(LAMBDA acc, b : IF EpochOf[b] > 0 THEN ProcessRotationMeta(b, acc) ELSE acc,
             s, chain)

SameTerm(b, h) == LeaderOf[b] = LeaderOf[h] /\ EpochOf[b] = EpochOf[h]

\* At start the count is rebuilt from the last block of another leader or epoch on.
BuildLeaderRotationMeta(h) ==
    LET path == Path[h]
        others == {i \in 1..Len(path) : ~SameTerm(path[i], h)}
        from == CHOOSE i \in others : \A j \in others : j <= i
    IN  IF EpochOf[h] = 0 THEN NoMeta
        ELSE FoldLeft(LAMBDA acc, b : ProcessRotationMeta(b, acc), NoMeta,
                      SubSeq(path, from, Len(path)))

-----------------------------------------------------------------------------
Init ==
    /\ db = {Genesis} /\ disk = {Genesis} /\ headHash = Genesis
    /\ canon = [n \in Heights |-> IF n = 0 THEN Genesis ELSE None]
    /\ up = "running" /\ current = Genesis /\ header = Genesis
    /\ mem = {} /\ meta = NoMeta /\ interrupt = FALSE
    /\ chainmu = None /\ call = [c \in Callers |-> NoCall] /\ crashes = 0
    /\ added = [c \in Syncers |-> <<>>]

\* Runs of linked blocks a caller can hold.
Chains ==
    {SubSeq(Path[b], i, Len(Path[b])) : b \in Blocks, i \in 2..Cardinality(Blocks)}

\* A call is refused before the lock when one of its blocks is known.
InsertChain(c, chain) ==
    /\ up = "running" /\ call[c] = NoCall
    /\ Len(chain) \in 1..MaxChain
    /\ ToSet(chain) \cap db = {}
    /\ call' = [call EXCEPT ![c] = [at |-> "wait", chain |-> chain, todo |-> chain,
                                    prev |-> current]]
    /\ UNCHANGED <<stored, up, current, header, mem, meta, interrupt, chainmu, added, crashes>>

Lock(c) ==
    /\ up = "running" /\ call[c].at = "wait" /\ chainmu = None
    /\ chainmu' = c
    /\ call' = [call EXCEPT ![c].at = "block"]
    /\ UNCHANGED <<stored, up, current, header, mem, meta, interrupt, added, crashes>>

\* A process that ends, for the reason given, loses what it held in memory.
End(why) ==
    /\ up' = why
    /\ current' = None /\ header' = None /\ mem' = {} /\ meta' = NoMeta
    /\ interrupt' = FALSE /\ chainmu' = None
    /\ call' = [c \in Callers |-> NoCall] /\ added' = [s \in Syncers |-> <<>>]

Return(c) ==
    /\ call' = [call EXCEPT ![c] = NoCall]
    /\ chainmu' = None

Inserting(c) == up = "running" /\ chainmu = c /\ call[c].at = "block"

\* A stopping chain leaves the loop without an error, so the call goes on as if its
\* blocks had been inserted: it panics when the head is still the one it saw.
Abort(c) ==
    /\ Inserting(c) /\ interrupt
    /\ IF call[c].prev = current THEN End("panicked")
       ELSE /\ meta' = SaveRotationMeta(call[c].chain, meta)
            /\ Return(c)
            /\ UNCHANGED <<up, current, header, mem, interrupt, added>>
    /\ UNCHANGED <<stored, crashes>>

Known(b) == b \in db /\ HasState(b)

\* The blocks above the last one with a state, up to and including b.
Stateless(b) ==
    LET path == Path[b]
        from == CHOOSE i \in 1..Len(path) :
                    /\ HasState(path[i]) /\ \A j \in i + 1..Len(path) : ~HasState(path[j])
    IN  SubSeq(path, from + 1, Len(path))

\* The winner chain: parents without a state are inserted first.
InsertPruned(c) ==
    /\ Inserting(c) /\ ~interrupt
    /\ LET b == Head(call[c].todo)
       IN  /\ b \notin Invalid /\ ~Known(b)
           /\ Parent[b] \in db /\ ~HasState(Parent[b])
           /\ call' = [call EXCEPT ![c].todo = Stateless(Parent[b]) \o @]
    /\ UNCHANGED <<stored, up, current, header, mem, meta, interrupt, chainmu, added, crashes>>

\* verifyHeaders, ValidateBody, and the parent check of WriteBlockWithState.
Accepts(b) ==
    /\ b \notin Invalid
    /\ ~Known(b) /\ Known(Parent[b])
    /\ Parent[b] = current

RefuseBlockAgain(c) ==
    /\ Inserting(c) /\ ~interrupt
    /\ LET b == Head(call[c].todo)
       IN  /\ ~Accepts(b)
           /\ b \in Invalid \/ Known(b) \/ Parent[b] \notin db \/ HasState(Parent[b])
    /\ UNCHANGED vars

RefuseBlock(c) ==
    /\ Inserting(c) /\ ~interrupt
    /\ LET b == Head(call[c].todo)
       IN  /\ ~Accepts(b)
           /\ b \in Invalid \/ Known(b) \/ Parent[b] \notin db \/ HasState(Parent[b])
    /\ Return(c)
    /\ UNCHANGED <<stored, up, current, header, mem, meta, interrupt, added, crashes>>

CollectedEarly(b) == Number(b) - TriesInMemory + 1

\* Tries of the blocks at or below this number are dropped from memory.
Collected(b) == Number(b) - TriesInMemory

CommitState(b, flush) ==
    IF Archive \/ b \in EpochLast
    THEN disk' = disk \cup {b} /\ UNCHANGED mem
    ELSE /\ disk' = IF flush /\ Number(b) > TriesInMemory
                    THEN disk \cup ({canon[Collected(b)]} \cap mem) ELSE disk
         /\ mem' = {x \in mem \cup {b} :
                        Number(b) > TriesInMemory => Number(x) > Collected(b)}

WriteBlock(c) ==
    /\ Inserting(c) /\ ~interrupt
    /\ LET b == Head(call[c].todo)
       IN  /\ Accepts(b)
           /\ \E flush \in BOOLEAN : CommitState(b, flush)
           /\ db' = db \cup {b}
    /\ call' = [call EXCEPT ![c].at = "head"]
    /\ UNCHANGED <<canon, headHash, up, current, header, meta, interrupt, chainmu, added, crashes>>

WriteHeadBlockOnly(b) ==
    /\ headHash' = b /\ current' = b /\ header' = b
    /\ UNCHANGED canon

\* The other heads follow only when the canonical block at this number changes.
WriteHeadBlock(b) ==
    /\ canon' = [canon EXCEPT ![Number(b)] = b]
    /\ headHash' = b /\ current' = b
    /\ header' = IF canon[Number(b)] # b THEN b ELSE header

Newest(hashes) ==
    SubSeq(hashes, IF Len(hashes) > MaxRollback THEN 2 ELSE 1, Len(hashes))

FinishBlock(c) ==
    /\ up = "running" /\ chainmu = c /\ call[c].at = "head"
    /\ WriteHeadBlock(Head(call[c].todo))
    /\ IF Len(call[c].todo) > 1
       THEN /\ call' = [call EXCEPT ![c].todo = Tail(@), ![c].at = "block"]
            /\ UNCHANGED <<meta, chainmu>>
       ELSE meta' = SaveRotationMeta(call[c].chain, meta) /\ Return(c)
    /\ added' = [s \in Syncers |-> IF s = c THEN Newest(Append(added[s], current'))
                                  ELSE added[s]]
    /\ UNCHANGED <<db, disk, up, mem, interrupt, crashes>>

-----------------------------------------------------------------------------
\* A block that is one of the hashes gives way to its parent, the newest hash first.
RolledBack(b, hashes) ==
    LET n == Len(hashes)
        back[i \in 0..n] ==
            IF i = 0 THEN b
            ELSE IF back[i - 1] = hashes[n + 1 - i] THEN Parent[back[i - 1]] ELSE back[i - 1]
    IN  back[n]

\* The blocks stay in the database.
Rollback(s, n) ==
    /\ up = "running" /\ chainmu = None /\ call[s] = NoCall /\ n \in 1..Len(added[s])
    /\ LET hashes == SubSeq(added[s], n, Len(added[s]))
       IN  /\ current' = RolledBack(current, hashes)
           /\ header' = RolledBack(header, hashes)
           /\ headHash' = current'
    /\ added' = [added EXCEPT ![s] = <<>>]
    /\ UNCHANGED <<db, canon, disk, up, mem, meta, interrupt, chainmu, call, crashes>>

\* Stop writes the tries of HEAD, HEAD-1 and HEAD-(TriesInMemory-1).
SavedAtStop(h) ==
    {canon[Number(h) - o] : o \in {i \in {0, 1, TriesInMemory - 1} : Number(h) > i}}

Stop ==
    /\ Stops /\ up = "running" /\ ~interrupt /\ chainmu = None
    /\ interrupt' = TRUE
    /\ disk' = IF Archive THEN disk ELSE disk \cup (SavedAtStop(current) \cap mem)
    /\ mem' = {}
    /\ UNCHANGED <<db, canon, headHash, up, current, header, meta, chainmu, call, added, crashes>>

Exit ==
    /\ up = "running" /\ interrupt
    /\ End("down")
    /\ UNCHANGED <<stored, crashes>>

Crash ==
    /\ up \in {"running", "repair"} /\ crashes < MaxCrashes
    /\ End("down") /\ crashes' = crashes + 1
    /\ UNCHANGED stored

Dead == up \in {"down", "aborted", "panicked"}

Run(h) ==
    /\ up' = "running" /\ current' = h /\ header' = h
    /\ meta' = BuildLeaderRotationMeta(h)
    /\ UNCHANGED <<canon, disk, mem, interrupt, chainmu, call, added, crashes>>

LoadLastState ==
    /\ Dead /\ headHash \in db /\ headHash \in disk
    /\ Run(headHash)
    /\ UNCHANGED <<db, headHash>>

\* reset: no header above genesis is found, so setHead(0) deletes nothing.
Reset ==
    /\ Dead /\ headHash \notin db
    /\ headHash' = Genesis
    /\ Run(Genesis)
    /\ UNCHANGED db

\* repair deletes the head block and then names its parent as the head.
RepairDelete ==
    /\ Dead \/ up = "repair"
    /\ headHash \in db /\ headHash \notin disk
    /\ up' = "repair"
    /\ db' = db \ {headHash}
    /\ UNCHANGED <<canon, headHash, disk, volatile, crashes>>

RepairRewind ==
    /\ up = "repair" /\ headHash \notin db
    /\ headHash' = Parent[headHash]
    /\ UNCHANGED <<db, canon, disk, up, volatile, crashes>>

\* repairRecreateStateTries: the deleted block at the next number is still in
\* blockCache and is inserted again, before bc.processor is set.
RepairRecreate ==
    /\ up = "repair" /\ headHash \in db \cap disk
    /\ up' = "aborted"
    /\ UNCHANGED <<stored, volatile, crashes>>

InsertStep(c) ==
    \/ Lock(c) \/ Abort(c) \/ InsertPruned(c) \/ RefuseBlock(c)
    \/ WriteBlock(c) \/ FinishBlock(c)

Next ==
    \/ \E c \in Callers : InsertStep(c) \/ \E chain \in Chains : InsertChain(c, chain)
    \/ \E s \in Syncers, n \in 1..MaxRollback : Rollback(s, n)
    \/ Stop \/ Exit \/ Crash
    \/ LoadLastState \/ Reset \/ RepairDelete \/ RepairRewind \/ RepairRecreate

Spec == Init /\ [][Next]_vars

\* Go's mutex hands the lock to every waiter in the end, and the sync loops offer the
\* block above the head again and again.
Fairness ==
    /\ \A c \in Callers : SF_vars(InsertStep(c))
    /\ SF_vars(\E c \in Callers, b \in Blocks \ {Genesis} :
                   Parent[b] = current /\ b \notin Invalid /\ InsertChain(c, <<b>>))

FairSpec == Spec /\ Fairness

-----------------------------------------------------------------------------
Quiet == up = "running" /\ chainmu = None

\* The canonical number scheme follows the head whatever was inserted, rolled back,
\* repaired or lost: GetBlockByNumber answers with the head's own ancestors.
CanonFollowsHead ==
    Quiet => \A b \in Ancestry(current) : canon[Number(b)] = b

\* The head a running chain works on has its state, in memory or written (state.New
\* of the current root), as long as rollbacks stay within TriesInMemory.
HeadHasState ==
    Quiet /\ ~interrupt => HasState(current)

\* The database holds no block above or beside the head: such a block is refused as
\* known by InsertChain for ever, and no later block has the head as its parent.
NoStrandedBlock ==
    Quiet => db \subseteq Ancestry(current)

Term(h) ==
    {b \in Ancestry(h) : \A x \in Ancestry(h) : Number(x) >= Number(b) => SameTerm(x, h)}

\* leaderRotationMeta counts the blocks that the head's leader produced in a row in
\* this epoch, across insertions and restarts: every node must rotate at the same block.
RotationMetaExact ==
    Quiet /\ ~interrupt =>
        meta = IF EpochOf[current] = 0 THEN NoMeta
               ELSE [pub |-> LeaderOf[current], epoch |-> EpochOf[current],
                     count |-> Cardinality(Term(current))]

\* While callers keep offering blocks, the chain grows to a block without successors.
ReachesTip ==
    <>(\A b \in Blocks \ (Invalid \cup {Genesis}) : Parent[b] # current)
=============================================================================
