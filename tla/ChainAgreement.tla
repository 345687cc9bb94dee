--------------------------- MODULE ChainAgreement ---------------------------
(***************************************************************************)
(* What the consensus of a shard promises, without saying how: there is    *)
(* one chain of decided blocks, a node that has all of it may decide the   *)
(* next block, and every other node learns decided blocks in their order.  *)
(***************************************************************************)
EXTENDS Integers, Sequences

CONSTANTS Nodes, Blocks

VARIABLES
    decided,   \* the chain of decided blocks
    chain      \* the chain of each node

vars == <<decided, chain>>

Prefix(s, t) == Len(s) <= Len(t) /\ \A i \in 1..Len(s) : s[i] = t[i]

Init ==
    /\ decided \in Seq(Blocks) /\ Len(decided) = 1
    /\ chain = [n \in Nodes |-> decided]

Decide(n) ==
    /\ chain[n] = decided
    /\ Len(decided') = Len(decided) + 1 /\ Prefix(decided, decided')
    /\ decided' \in Seq(Blocks)
    /\ chain' = [chain EXCEPT ![n] = decided']

\* A node inserts one block or, after a sync, several at once.
Learn(n) ==
    /\ \E k \in (Len(chain[n]) + 1)..Len(decided) :
          chain' = [chain EXCEPT ![n] = SubSeq(decided, 1, k)]
    /\ UNCHANGED decided

\* Every step changes a chain.
Next == chain' # chain /\ \E n \in Nodes : Decide(n) \/ Learn(n)

Spec == Init /\ [][Next]_vars

-----------------------------------------------------------------------------
\* Of two nodes one has a chain that begins with the chain of the other.
Consistent == \A m, n \in Nodes : Prefix(chain[m], chain[n]) \/ Prefix(chain[n], chain[m])
=============================================================================
