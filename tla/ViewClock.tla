------------------------------ MODULE ViewClock ------------------------------
(***************************************************************************)
(* How nodes that are stuck on a block choose the view to change to: the   *)
(* view follows the time since the block (getNextViewID) and the leader    *)
(* follows the view (getNextLeaderKey).  Every node times out on its own;  *)
(* one whose clock is not ahead of the block counts views instead          *)
(* (fallbackNextViewID).                                                   *)
(***************************************************************************)
EXTENDS Integers, FiniteSets

CONSTANTS
    Nodes,
    Behind,             \* how far each node's clock is behind
    NumOperated,        \* keys the leader is chosen from
    PhaseTimeout,       \* phaseDuration
    ViewChangeTimeout,  \* viewChangeDuration
    ViewChangeSlot,
    MaxTime             \* bound: how long the run lasts

Crashed == -1           \* an index out of range

VARIABLES
    now,
    head,       \* time, view and leader index of the current block
    timer,      \* time left of the consensus or view change timeout
    changing,   \* nodes in view changing mode
    vcID,       \* viewChangingID
    leader      \* the leader index each node follows

vars == <<now, head, timer, changing, vcID, leader>>

\* The view after the current block's: stuckBlockViewID, also curBlockViewID.
StuckView == head.view + 1

Init ==
    /\ now = 0
    /\ head = [time |-> 0, view |-> 1, leader |-> 0]
    /\ timer \in [Nodes -> 1..PhaseTimeout]
    /\ changing = {}
    /\ vcID = [n \in Nodes |-> StuckView]
    /\ leader = [n \in Nodes |-> 0]

Clock(n) == now - Behind[n]

FallbackAfter(id) == IF id + 1 - StuckView <= 0 THEN 1 ELSE id + 1 - StuckView

GetNextViewIDLate(n) ==
    [view |-> (Clock(n) - head.time) \div ViewChangeTimeout + 1 + StuckView,
     wait |-> ViewChangeTimeout]

\* The next view and how long to wait for it.
GetNextViewID(n) ==
    IF Clock(n) <= head.time
    THEN LET diff == FallbackAfter(vcID[n])
         IN  [view |-> vcID[n] + 1, wait |-> diff * diff * ViewChangeTimeout]
    ELSE [view |-> (Clock(n) - head.time) \div ViewChangeSlot + 1 + StuckView,
          wait |-> ViewChangeTimeout]

\* Go's remainder takes the sign of the dividend.
GetNextLeaderKey(view) ==
    LET idx == head.leader + (view - StuckView)
        rem == IF idx >= 0 THEN idx % NumOperated ELSE -((-idx) % NumOperated)
    IN  IF rem < 0 THEN Crashed ELSE rem

StartViewChange(n) ==
    /\ timer[n] = 0 /\ leader[n] # Crashed
    /\ LET next == GetNextViewID(n)
       IN  /\ vcID' = [vcID EXCEPT ![n] = next.view]
           /\ leader' = [leader EXCEPT ![n] = GetNextLeaderKey(next.view)]
           /\ timer' = [timer EXCEPT ![n] = next.wait]
    /\ changing' = changing \cup {n}
    /\ UNCHANGED <<now, head>>

\* A block is committed, in a normal round or by the leader of a new view on which
\* all nodes are.  Only a new view moves viewChangingID.
Commit ==
    /\ now > head.time /\ Crashed \notin {leader[n] : n \in Nodes}
    /\ \A n \in Nodes : timer[n] > 0
    /\ \/ changing = {} /\ head' = [time |-> now, view |-> StuckView, leader |-> head.leader]
       \/ \E n \in Nodes :
            /\ changing = Nodes /\ \A m \in Nodes : vcID[m] = vcID[n]
            /\ head' = [time |-> now, view |-> vcID[n], leader |-> leader[n]]
    /\ changing' = {}
    /\ timer' = [n \in Nodes |-> PhaseTimeout]
    /\ leader' = [n \in Nodes |-> head'.leader]
    /\ UNCHANGED <<now, vcID>>

Tick ==
    /\ now < MaxTime /\ \A n \in Nodes : timer[n] > 0
    /\ now' = now + 1
    /\ timer' = [n \in Nodes |-> timer[n] - 1]
    /\ UNCHANGED <<head, changing, vcID, leader>>

Next == Tick \/ Commit \/ \E n \in Nodes : StartViewChange(n)

Spec == Init /\ [][Next]_vars

-----------------------------------------------------------------------------
\* The slot the time since the block falls in, when its last moment has come and
\* every timeout due has been handled.
SlotEnds ==
    /\ (now - head.time + 1) % ViewChangeSlot = 0
    /\ now - head.time >= PhaseTimeout
    /\ \A n \in Nodes : timer[n] > 0

\* Nodes stuck on a block meet: as timeouts are shorter than slots, by the end of each
\* slot all of them are changing to the view of that slot and follow its leader,
\* whenever they started.
NodesMeet ==
    SlotEnds => \A m, n \in Nodes :
                    m \in changing /\ vcID[m] = vcID[n] /\ leader[m] = leader[n]
=============================================================================
