------------------------------- MODULE MCFBFT -------------------------------
(***************************************************************************)
(* Committees of three keys and what they meet.  The weights make the       *)
(* quorums the sets that hold key 2 and one more key.                       *)
(***************************************************************************)
EXTENDS FBFT

Weight3 == << 30, 40, 30 >>

\* Messages are delayed, repeated and reordered; nothing else happens.
Quiet == [height |-> 2, views |-> 2, proposals |-> 1, downloaders |-> {},
          impatient |-> {}, cut |-> {}, early |-> {}, restarting |-> {}]

\* Blocks are validated before or after their PREPARED arrives; node 3 is behind
\* and downloads; and the leader does not hear node 3, which restarts.
Rounds == {
  [Quiet EXCEPT !.early = Node],
  [Quiet EXCEPT !.downloaders = {3}, !.impatient = {3}],
  [Quiet EXCEPT !.height = 3, !.proposals = 2, !.cut = {<< 3, 1 >>},
                !.restarting = {3}]}

\* Node 3 validates early and nothing fails.
Steady == {[Quiet EXCEPT !.early = {3}]}

\* Nodes 2 and 3 time out while nodes 1 and 3 do not hear each other.
Split == [Quiet EXCEPT !.views = 3, !.impatient = {2, 3}, !.cut = {<< 1, 3 >>, << 3, 1 >>}]

\* Or node 1 does not hear node 3, which does not hear node 2.
HandedOver == [Split EXCEPT !.cut = {<< 3, 1 >>, << 2, 3 >>}]

\* Or node 1 is cut off and the new leader proposes twice.
DeadLeader == [Split EXCEPT !.proposals = 2,
                            !.cut = ({1} \X {2, 3}) \cup ({2, 3} \X {1})]

ViewChanges == {Split, HandedOver, DeadLeader}

\* The view change races the background validation of node 2.
Raced == {[Split EXCEPT !.early = {2}]}

SplitOnly == {Split}
=============================================================================
