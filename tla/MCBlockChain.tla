---------------------------- MODULE MCBlockChain ----------------------------
(***************************************************************************)
(* Instances of BlockChain: a chain of four blocks over two epochs and two *)
(* leaders, with a block that competes with the third and one that does    *)
(* not verify.  The variable part names the instance of a behaviour.       *)
(***************************************************************************)
EXTENDS Naturals, Sequences, TLC

CONSTANTS g, b1, b2, b3, b4, f3, x4, l1, l2, c1, c2, none

VARIABLES part, db, canon, headHash, disk, up, current, header, mem, meta, interrupt,
          chainmu, call, added, crashes

Tree == {g, b1, b2, b3, b4, f3, x4}
ParentOf == b1 :> g @@ b2 :> b1 @@ b3 :> b2 @@ b4 :> b3 @@ f3 :> b2 @@ x4 :> b3
Leaders == [b \in Tree |-> IF b \in {b1, b2, b3} THEN l1 ELSE l2]
Epochs == [b \in Tree |-> IF b = g THEN 0 ELSE IF b = b1 THEN 1 ELSE 2]

\* An archival node whose callers insert one block at a time; it is stopped at times.
Archival == INSTANCE BlockChain WITH
    Blocks <- Tree, Genesis <- g, Parent <- ParentOf, LeaderOf <- Leaders,
    EpochOf <- Epochs, EpochLast <- {g, b1}, Invalid <- {x4}, None <- none,
    TriesInMemory <- 2, Callers <- {c1, c2}, Syncers <- {c1},
    MaxChain <- 1, MaxRollback <- 0, MaxCrashes <- 0, Stops <- TRUE, Archive <- TRUE

\* A full node that inserts runs of blocks, rolls back, stops and crashes.
Full == INSTANCE BlockChain WITH
    Blocks <- Tree, Genesis <- g, Parent <- ParentOf, LeaderOf <- Leaders,
    EpochOf <- Epochs, EpochLast <- {g, b1}, Invalid <- {x4}, None <- none,
    TriesInMemory <- 2, Callers <- {c1, c2}, Syncers <- {c1},
    MaxChain <- 2, MaxRollback <- 1, MaxCrashes <- 1, Stops <- TRUE, Archive <- FALSE

\* A full node that crashes again while it repairs the first crash.
Repairing == INSTANCE BlockChain WITH
    Blocks <- Tree, Genesis <- g, Parent <- ParentOf, LeaderOf <- Leaders,
    EpochOf <- Epochs, EpochLast <- {g, b1}, Invalid <- {x4}, None <- none,
    TriesInMemory <- 2, Callers <- {c1}, Syncers <- {c1},
    MaxChain <- 2, MaxRollback <- 1, MaxCrashes <- 2, Stops <- FALSE, Archive <- FALSE

\* An archival node whose callers compete for the lock with runs of blocks.
Busy == INSTANCE BlockChain WITH
    Blocks <- Tree, Genesis <- g, Parent <- ParentOf, LeaderOf <- Leaders,
    EpochOf <- Epochs, EpochLast <- {g, b1}, Invalid <- {x4}, None <- none,
    TriesInMemory <- 2, Callers <- {c1, c2}, Syncers <- {c1},
    MaxChain <- 2, MaxRollback <- 0, MaxCrashes <- 0, Stops <- FALSE, Archive <- TRUE

\* An archival node that crashes once.
Crashing == INSTANCE BlockChain WITH
    Blocks <- Tree, Genesis <- g, Parent <- ParentOf, LeaderOf <- Leaders,
    EpochOf <- Epochs, EpochLast <- {g, b1}, Invalid <- {x4}, None <- none,
    TriesInMemory <- 2, Callers <- {c1}, Syncers <- {c1},
    MaxChain <- 1, MaxRollback <- 0, MaxCrashes <- 1, Stops <- FALSE, Archive <- TRUE

chainVars == <<db, canon, headHash, disk, up, current, header, mem, meta, interrupt,
               chainmu, call, added, crashes>>

PartInit ==
    /\ part \in {"archival", "full", "repairing", "busy", "crashing"}
    /\ \/ part = "archival" /\ Archival!Init
       \/ part = "full" /\ Full!Init
       \/ part = "repairing" /\ Repairing!Init
       \/ part = "busy" /\ Busy!Init
       \/ part = "crashing" /\ Crashing!Init

PartNext ==
    /\ UNCHANGED part
    /\ \/ part = "archival" /\ Archival!Next
       \/ part = "full" /\ Full!Next
       \/ part = "repairing" /\ Repairing!Next
       \/ part = "busy" /\ Busy!Next
       \/ part = "crashing" /\ Crashing!Next

On(A) == part = "busy" /\ A

\* Fairness of BlockChain in the part whose node keeps running.
PartSpec ==
    /\ PartInit /\ [][PartNext]_<<part, chainVars>>
    /\ \A c \in {c1, c2} : SF_chainVars(On(Busy!InsertStep(c)))
    /\ SF_chainVars(On(\E c \in {c1, c2}, b \in Tree \ {g} :
           ParentOf[b] = current /\ b # x4 /\ Busy!InsertChain(c, <<b>>)))

-----------------------------------------------------------------------------
\* The canonical number scheme follows the head whatever was inserted, rolled back,
\* repaired or lost.
CanonFollowsHead == Archival!CanonFollowsHead

\* The head a running chain works on has its state, in memory or written.
HeadHasState == Archival!HeadHasState

\* A crash leaves no stored block that later insertions skip as known although the head
\* is below it: repair undoes "incomplete db writes caused either by crashes/power
\* outages".
CrashStrandsNoBlock == part = "crashing" => Archival!NoStrandedBlock

\* leaderRotationMeta counts the blocks the head's leader produced in a row in this
\* epoch, across insertions and restarts.
RotationMetaExact == part = "archival" => Archival!RotationMetaExact

\* While callers keep offering blocks, the chain grows to a block without successors.
ReachesTip ==
    <>(part = "busy" => \A b \in Tree \ {g, x4} : ParentOf[b] # current)
=============================================================================
