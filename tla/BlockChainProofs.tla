-------------------------- MODULE BlockChainProofs --------------------------
(***************************************************************************)
(* Proofs about BlockChain: for every tree of blocks, any number of        *)
(* callers, rollbacks and crashes, and both kinds of nodes.                *)
(***************************************************************************)
EXTENDS BlockChain, Induction, TLAPS

\* Blocks form a tree under the genesis block: a block's number is above its parent's.
Tree ==
    /\ Genesis \in Blocks /\ \A b \in Blocks \ {Genesis} : Parent[b] \in Blocks
    /\ \E top \in Nat : \E h \in [Blocks -> 0..top] :
           \A b \in Blocks \ {Genesis} : h[Parent[b]] < h[b]

-----------------------------------------------------------------------------
(* The tree of blocks.                                                     *)

\* Path is the sequence of blocks from the genesis block on.
LEMMA PathFacts ==
    ASSUME Tree
    PROVE  /\ Path \in [Blocks -> Seq(Blocks)]
           /\ Path[Genesis] = <<Genesis>>
           /\ \A b \in Blocks \ {Genesis} : Path[b] = Append(Path[Parent[b]], b)
<1> DEFINE S == [Blocks -> Seq(Blocks)]
           Extend(f) == [b \in Blocks |-> IF b = Genesis THEN <<b>> ELSE Append(f[Parent[b]], b)]
<1>p. \A b \in Blocks \ {Genesis} : Parent[b] \in Blocks
  BY DEF Tree
<1>0. PICK top \in Nat : \E h \in [Blocks -> 0..top] :
         \A b \in Blocks \ {Genesis} : h[Parent[b]] < h[b]
  BY DEF Tree
<1>1. PICK h \in [Blocks -> 0..top] : \A b \in Blocks \ {Genesis} : h[Parent[b]] < h[b]
  BY <1>0
<1>q. \A b \in Blocks \ {Genesis} :
        Parent[b] \in Blocks /\ h[b] \in Nat /\ h[Parent[b]] \in Nat /\ h[Parent[b]] < h[b]
  BY <1>p, <1>1
<1>2. \A f \in S : Extend(f) \in S
  BY DEF Tree
<1>3. PICK f \in [0..(top + 2) -> S] : \A i \in 1..(top + 2) : f[i] = Extend(f[i - 1])
  <2> DEFINE n == top + 2
             x == [b \in Blocks |-> <<b>>]
             F == [i \in 1..n |-> [g \in S |-> Extend(g)]]
  <2>1. n \in Nat /\ x \in S
    OBVIOUS
  <2>2. F \in Steps(n, S)
    <3> HIDE DEF S, Extend
    <3> QED BY <1>2 DEF Steps
  <2>3. \A i \in 1..n, g \in S : F[i][g] = Extend(g)
    <3> HIDE DEF S, Extend
    <3> QED OBVIOUS
  <2> HIDE DEF F, x, S, Extend, n
  <2>4. PICK g : Values(g, n, S, x, F)
    BY <2>1, <2>2, Iteration
  <2>5. \A i \in 1..n : i - 1 \in 0..n
    BY <2>1
  <2>6. \A i \in 1..n : g[i] = Extend(g[i - 1])
    BY <2>3, <2>4, <2>5 DEF Values
  <2> QED BY <2>4, <2>6 DEF n, Values
\* The iterates agree on the blocks below their index.
<1> DEFINE Agree(i) == \A b \in Blocks : h[b] < i => f[i + 1][b] = f[i][b]
           Bad == {i \in 0..(top + 1) : ~Agree(i)}
<1>4. Bad = {}
  <2> SUFFICES ASSUME Bad # {} PROVE FALSE
    OBVIOUS
  <2>1. Bad \subseteq Nat
    OBVIOUS
  <2>2. PICK m \in Bad : \A y \in Bad : m <= y
    <3> HIDE DEF Bad
    <3> QED BY <2>1, MinOfNat, Zenon
  <2>3. Agree(0)
    BY <1>1
  <2>4. m \in 1..(top + 1) /\ m - 1 \in 0..(top + 1) /\ Agree(m - 1)
    <3> HIDE DEF Agree
    <3> QED BY <2>2, <2>3
  <2>5. Agree(m)
    <3> SUFFICES ASSUME NEW b \in Blocks, h[b] < m PROVE f[m + 1][b] = f[m][b]
      OBVIOUS
    <3>1. f[m + 1] = Extend(f[m]) /\ f[m] = Extend(f[m - 1])
      <4> HIDE DEF Extend
      <4>1. m + 1 \in 1..(top + 2) /\ m \in 1..(top + 2) /\ (m + 1) - 1 = m
        BY <2>4
      <4> QED BY <1>3, <4>1
    <3>2. CASE b = Genesis
      BY <3>1, <3>2
    <3>3. CASE b # Genesis
      <4>1. Parent[b] \in Blocks /\ h[Parent[b]] < m - 1
        <5>1. Parent[b] \in Blocks /\ h[Parent[b]] < h[b] /\ h[b] \in Nat /\ h[Parent[b]] \in Nat
          BY <1>q, <3>3, Zenon
        <5>2. \A i, j \in Nat : i < j /\ j < m => i < m - 1
          BY <2>4
        <5> QED BY <5>1, <5>2, Zenon
      <4>2. f[m][Parent[b]] = f[m - 1][Parent[b]]
        <5>1. f[(m - 1) + 1][Parent[b]] = f[m - 1][Parent[b]]
          BY <2>4, <4>1, Zenon
        <5>2. (m - 1) + 1 = m
          BY <2>4
        <5> QED BY <5>1, <5>2
      <4>3. f[m + 1][b] = Append(f[m][Parent[b]], b)
        BY <3>1, <3>3, Zenon
      <4>4. f[m][b] = Append(f[m - 1][Parent[b]], b)
        BY <3>1, <3>3, Zenon
      <4> QED BY <4>2, <4>3, <4>4
    <3> QED BY <3>2, <3>3
  <2> QED BY <2>2, <2>5
<1> DEFINE g == f[top + 2]
<1>5. g = Extend(g) /\ g \in S
  <2>1. g = Extend(f[top + 1]) /\ g \in S /\ f[top + 1] \in S
    <3> HIDE DEF Extend, S
    <3>1. top + 2 \in 1..(top + 2) /\ (top + 2) - 1 = top + 1 /\ top + 1 \in 0..(top + 2)
          /\ top + 2 \in 0..(top + 2)
      OBVIOUS
    <3> QED BY <1>3, <3>1
  <2>2. \A b \in Blocks : g[b] = f[top + 1][b]
    <3>1. Agree(top + 1)
      <4>1. top + 1 \in 0..(top + 1)
        OBVIOUS
      <4> HIDE DEF Agree
      <4> QED BY <1>4, <4>1, Zenon
    <3>2. \A b \in Blocks : h[b] < top + 1
      OBVIOUS
    <3>3. (top + 1) + 1 = top + 2
      OBVIOUS
    <3> QED BY <3>1, <3>2, <3>3
  <2>3. g = f[top + 1]
    <3> HIDE DEF g
    <3> QED BY <2>1, <2>2, Zenon
  <2> HIDE DEF g, Extend, S
  <2> QED BY <2>1, <2>3, Zenon
<1>6. Path = Extend(Path)
  <2> HIDE DEF g
  <2>1. \E p : p = [b \in Blocks |-> IF b = Genesis THEN <<b>> ELSE Append(p[Parent[b]], b)]
    BY <1>5, Zenon
  <2> QED BY <2>1, Zenon DEF Path
\* Only one function is such a path.
<1> DEFINE Other == {h[b] : b \in {x \in Blocks : Path[x] # g[x]}}
<1>7. Other = {}
  <2> HIDE DEF g
  <2> SUFFICES ASSUME Other # {} PROVE FALSE
    OBVIOUS
  <2>1. Other \subseteq Nat
    OBVIOUS
  <2>2. PICK m \in Other : \A y \in Other : m <= y
    <3> HIDE DEF Other
    <3> QED BY <2>1, MinOfNat, Zenon
  <2>3. PICK b \in Blocks : h[b] = m /\ Path[b] # g[b]
    BY <2>2
  <2>4. b # Genesis
    BY <1>5, <1>6, <2>3
  <2>5. Parent[b] \in Blocks /\ h[Parent[b]] < m /\ h[Parent[b]] \in Nat /\ m \in Nat
    BY <1>q, <2>3, <2>4, Zenon
  <2>6. h[Parent[b]] \notin Other
    <3> HIDE DEF Other
    <3> QED BY <2>2, <2>5
  <2>7. Path[Parent[b]] = g[Parent[b]]
    BY <2>5, <2>6, Zenon
  <2>8. Path[b] = Append(Path[Parent[b]], b) /\ g[b] = Append(g[Parent[b]], b)
    BY <1>5, <1>6, <2>4, Zenon
  <2> QED BY <2>3, <2>7, <2>8
<1>8. Path \in S
  <2> HIDE DEF g
  <2>1. \A b \in Blocks : Path[b] \in Seq(Blocks)
    BY <1>5, <1>7, Zenon
  <2> QED BY <1>6, <2>1
<1> QED BY <1>6, <1>8, Genesis \in Blocks, Zenon DEF Tree

\* Induction along parents: a nonempty set of blocks has one whose parent is outside.
LEMMA LowestBlock ==
    ASSUME Tree, NEW Bad, Bad \subseteq Blocks, Bad # {}
    PROVE  \E b \in Bad : b = Genesis \/ Parent[b] \in Blocks \ Bad
<1>0. PICK top \in Nat : \E h \in [Blocks -> 0..top] :
         \A b \in Blocks \ {Genesis} : h[Parent[b]] < h[b]
  BY DEF Tree
<1>1. PICK h \in [Blocks -> 0..top] : \A b \in Blocks \ {Genesis} : h[Parent[b]] < h[b]
  BY <1>0
<1>2. \A b \in Blocks \ {Genesis} : Parent[b] \in Blocks
  BY DEF Tree
<1> DEFINE H == {h[b] : b \in Bad}
<1>3. H \subseteq Nat /\ H # {}
  OBVIOUS
<1>4. PICK m \in H : \A y \in H : m <= y
  <2> HIDE DEF H
  <2> QED BY <1>3, MinOfNat, Zenon
<1>5. PICK b \in Bad : h[b] = m
  BY <1>4
<1>6. CASE b # Genesis
  <2>1. Parent[b] \in Blocks /\ h[Parent[b]] < m /\ h[Parent[b]] \in Nat /\ m \in Nat
    BY <1>1, <1>2, <1>5, <1>6
  <2>2. h[Parent[b]] \notin H
    <3> HIDE DEF H
    <3> QED BY <1>4, <2>1
  <2> QED BY <2>1, <2>2
<1> QED BY <1>6

\* A path leads from the genesis block to its own block.
LEMMA PathEnds ==
    ASSUME Tree
    PROVE  \A b \in Blocks : /\ Path[b] \in Seq(Blocks) /\ Len(Path[b]) >= 1
                             /\ Path[b][1] = Genesis /\ Path[b][Len(Path[b])] = b
<1> DEFINE Ends(b) == /\ Len(Path[b]) >= 1
                      /\ Path[b][1] = Genesis /\ Path[b][Len(Path[b])] = b
           Bad == {b \in Blocks : ~Ends(b)}
<1>1. Bad = {}
  <2> SUFFICES ASSUME Bad # {} PROVE FALSE
    OBVIOUS
  <2>1. PICK b \in Bad : b = Genesis \/ Parent[b] \in Blocks \ Bad
    <3>1. Bad \subseteq Blocks
      OBVIOUS
    <3> HIDE DEF Bad
    <3> QED BY <3>1, LowestBlock
  <2>2. b # Genesis
    <3>1. Path[Genesis] = <<Genesis>> /\ Len(<<Genesis>>) = 1 /\ <<Genesis>>[1] = Genesis
      BY PathFacts
    <3>2. Ends(Genesis)
      BY <3>1
    <3> QED BY <2>1, <3>2
  <2> DEFINE q == Path[Parent[b]]
  <2>3. q \in Seq(Blocks) /\ Path[b] = Append(q, b)
    BY <2>1, <2>2, PathFacts
  <2>4. Len(q) >= 1 /\ q[1] = Genesis
    BY <2>1, <2>2
  <2> HIDE DEF q
  <2>5. Len(Append(q, b)) = Len(q) + 1 /\ Append(q, b)[1] = Genesis /\ Append(q, b)[Len(q) + 1] = b
    BY <2>3, <2>4
  <2>6. Ends(b)
    BY <2>3, <2>4, <2>5
  <2> QED BY <2>1, <2>6
<1> QED BY <1>1, PathFacts

\* The path of an ancestor is the part of the path up to it.
LEMMA PathPrefix ==
    ASSUME Tree
    PROVE  \A b \in Blocks : \A i \in 1..Len(Path[b]) :
               /\ Path[b][i] \in Blocks /\ Len(Path[Path[b][i]]) = i
               /\ \A j \in 1..i : Path[Path[b][i]][j] = Path[b][j]
<1> DEFINE Part(b, i) == /\ Len(Path[Path[b][i]]) = i
                         /\ \A j \in 1..i : Path[Path[b][i]][j] = Path[b][j]
           Bad == {b \in Blocks : ~ \A i \in 1..Len(Path[b]) : Part(b, i)}
<1>1. Bad = {}
  <2> SUFFICES ASSUME Bad # {} PROVE FALSE
    OBVIOUS
  <2>1. PICK b \in Bad : b = Genesis \/ Parent[b] \in Blocks \ Bad
    <3>1. Bad \subseteq Blocks
      OBVIOUS
    <3> HIDE DEF Bad
    <3> QED BY <3>1, LowestBlock
  <2>2. PICK i \in 1..Len(Path[b]) : ~Part(b, i)
    BY <2>1
  <2>3. Path[b] \in Seq(Blocks) /\ Len(Path[b]) \in Nat /\ Path[b][Len(Path[b])] = b
    BY <2>1, PathEnds
  <2>4. i # Len(Path[b])
    BY <2>2, <2>3
  <2>5. b # Genesis
    <3>1. Path[Genesis] = <<Genesis>> /\ Len(<<Genesis>>) = 1
      BY PathFacts
    <3>2. ASSUME b = Genesis PROVE FALSE
      <4>1. Len(Path[b]) = 1
        BY <3>1, <3>2, Zenon
      <4>2. i \in 1..1
        BY <4>1
      <4> QED BY <2>4, <4>1, <4>2
    <3> QED BY <3>2
  <2> DEFINE q == Path[Parent[b]]
  <2>6. q \in Seq(Blocks) /\ Path[b] = Append(q, b) /\ \A k \in 1..Len(q) : Part(Parent[b], k)
    BY <2>1, <2>5, PathFacts, Zenon
  <2>7. i \in 1..Len(q) /\ \A k \in 1..Len(q) : Path[b][k] = q[k]
    <3> HIDE DEF q
    <3> QED BY <2>2, <2>3, <2>4, <2>6
  <2>8. Part(b, i)
    <3>1. Part(Parent[b], i)
      BY <2>6, <2>7
    <3>2. \A j \in 1..i : j \in 1..Len(q)
      BY <2>6, <2>7
    <3>3. Path[b][i] = Path[Parent[b]][i] /\ \A j \in 1..i : Path[b][j] = Path[Parent[b]][j]
      BY <2>7, <3>2
    <3> QED BY <3>1, <3>3
  <2> QED BY <2>2, <2>8
<1>2. \A b \in Blocks : \A i \in 1..Len(Path[b]) : Path[b][i] \in Blocks
  BY PathEnds
<1> QED BY <1>1, <1>2

\* Ancestors: their own ancestors are among them, and their numbers are below.
LEMMA AncestryFacts ==
    ASSUME Tree, NEW b \in Blocks
    PROVE  /\ Ancestry(b) \subseteq Blocks /\ b \in Ancestry(b) /\ Genesis \in Ancestry(b)
           /\ \A x \in Ancestry(b) : Ancestry(x) \subseteq Ancestry(b)
           /\ Number(b) \in Nat
<1>1. /\ Path[b] \in Seq(Blocks) /\ Len(Path[b]) \in Nat /\ Len(Path[b]) >= 1
      /\ Path[b][1] = Genesis /\ Path[b][Len(Path[b])] = b /\ DOMAIN Path[b] = 1..Len(Path[b])
  BY PathEnds
<1>2. Ancestry(b) = {Path[b][i] : i \in 1..Len(Path[b])}
  BY <1>1 DEF Ancestry, ToSet
<1>3. Ancestry(b) \subseteq Blocks
  BY <1>2, PathPrefix
<1>4. b \in Ancestry(b) /\ Genesis \in Ancestry(b)
  BY <1>1, <1>2
<1>5. ASSUME NEW x \in Ancestry(b), NEW y \in Ancestry(x) PROVE y \in Ancestry(b)
  <2>1. PICK i \in 1..Len(Path[b]) : x = Path[b][i]
    BY <1>2
  <2>2. x \in Blocks /\ Len(Path[x]) = i /\ \A j \in 1..i : Path[x][j] = Path[b][j]
    BY <2>1, PathPrefix
  <2>3. DOMAIN Path[x] = 1..i
    BY <2>2, PathEnds
  <2>4. PICK j \in 1..i : y = Path[x][j]
    BY <2>3 DEF Ancestry, ToSet
  <2>5. j \in 1..Len(Path[b])
    BY <1>1, <2>1, <2>4
  <2> QED BY <1>2, <2>2, <2>4, <2>5
<1>6. Number(b) \in Nat
  BY <1>1 DEF Number
<1> QED BY <1>3, <1>4, <1>5, <1>6

\* The ancestors of a child: the parent's, at lower numbers, and the child itself.
LEMMA ChildAncestry ==
    ASSUME Tree, NEW b \in Blocks \ {Genesis}
    PROVE  /\ Parent[b] \in Blocks /\ Parent[b] \in Ancestry(b)
           /\ Ancestry(b) = Ancestry(Parent[b]) \cup {b}
           /\ \A x \in Ancestry(Parent[b]) : Number(x) # Number(b)
<1> DEFINE q == Path[Parent[b]]
<1>1. Parent[b] \in Blocks /\ Path[b] = Append(q, b)
  BY PathFacts DEF Tree
<1>2. q \in Seq(Blocks) /\ Len(q) \in Nat /\ DOMAIN q = 1..Len(q)
  BY <1>1, PathEnds
<1>3. Ancestry(Parent[b]) = {q[i] : i \in 1..Len(q)}
  BY <1>2 DEF Ancestry, ToSet
<1>4. /\ Len(Path[b]) = Len(q) + 1 /\ DOMAIN Path[b] = 1..(Len(q) + 1)
      /\ Path[b][Len(q) + 1] = b /\ \A i \in 1..Len(q) : Path[b][i] = q[i]
  <2> HIDE DEF q
  <2> QED BY <1>1, <1>2
<1>5. Ancestry(b) = {Path[b][i] : i \in 1..(Len(q) + 1)}
  BY <1>4 DEF Ancestry, ToSet
<1>6. Ancestry(b) = Ancestry(Parent[b]) \cup {b}
  <2> HIDE DEF q
  <2>1. 1..(Len(q) + 1) = (1..Len(q)) \cup {Len(q) + 1}
    BY <1>2
  <2> QED BY <1>3, <1>4, <1>5, <2>1
<1>7. ASSUME NEW x \in Ancestry(Parent[b]) PROVE Number(x) # Number(b)
  <2>1. PICK i \in 1..Len(q) : x = q[i]
    BY <1>3
  <2>2. Len(Path[x]) = i
    BY <1>1, <2>1, PathPrefix
  <2> HIDE DEF q
  <2> QED BY <1>2, <1>4, <2>1, <2>2 DEF Number
<1> QED BY <1>1, <1>6, <1>7, AncestryFacts

\* Rollback leaves the head on one of its ancestors.
LEMMA RolledBackAncestor ==
    ASSUME Tree, NEW b, b \in Blocks, NEW hashes, hashes \in Seq(Blocks \ {Genesis})
    PROVE  RolledBack(b, hashes) \in Ancestry(b)
<1> DEFINE n == Len(hashes)
           Give(i, x) == IF x = hashes[n + 1 - i] THEN Parent[x] ELSE x
           Solves(f) == f = [i \in 0..n |-> IF i = 0 THEN b ELSE Give(i, f[i - 1])]
           back == CHOOSE f : Solves(f)
<1>1. n \in Nat /\ \A i \in 1..n : n + 1 - i \in 1..n /\ hashes[n + 1 - i] \in Blocks \ {Genesis}
  OBVIOUS
<1>2. \A i \in 1..n, x \in Blocks : Give(i, x) = x \/ (x # Genesis /\ Give(i, x) = Parent[x])
  BY <1>1
<1>3. \A i \in 1..n, x \in Blocks : Give(i, x) \in Ancestry(x) /\ Give(i, x) \in Blocks
  <2> HIDE DEF Give, n
  <2> QED BY <1>2, AncestryFacts, ChildAncestry
<1>4. \E f : Solves(f)
  <2> DEFINE F == [i \in 1..n |-> [x \in Blocks |-> Give(i, x)]]
  <2> HIDE DEF Give, n
  <2>1. F \in Steps(n, Blocks)
    BY <1>3 DEF Steps
  <2>2. \A i \in 1..n, x \in Blocks : F[i][x] = Give(i, x)
    OBVIOUS
  <2> HIDE DEF F
  <2>3. PICK f : Values(f, n, Blocks, b, F)
    BY <1>1, <2>1, Iteration, Zenon
  <2>4. f \in [0..n -> Blocks] /\ f[0] = b /\ \A i \in 1..n : f[i] = F[i][f[i - 1]]
    BY <2>3 DEF Values
  <2>5. \A i \in 0..n : f[i] = IF i = 0 THEN b ELSE Give(i, f[i - 1])
    <3>1. \A i \in 1..n : i - 1 \in 0..n /\ f[i - 1] \in Blocks
      BY <1>1, <2>4
    <3>2. \A i \in 1..n : f[i] = Give(i, f[i - 1])
      BY <2>2, <2>4, <3>1
    <3>3. \A i \in 0..n : i = 0 \/ i \in 1..n
      BY <1>1
    <3> QED BY <2>4, <3>2, <3>3
  <2>6. f = [i \in 0..n |-> IF i = 0 THEN b ELSE Give(i, f[i - 1])]
    BY <2>4, <2>5
  <2> QED BY <2>6, Zenon
<1>5. Solves(back)
  <2> HIDE DEF Solves
  <2> QED BY <1>4
<1>6. RolledBack(b, hashes) = back[n]
  BY DEF RolledBack
<1> HIDE DEF Give, back
<1>7. back[0] = b /\ \A i \in 1..n : back[i] = Give(i, back[i - 1])
  <2>1. 0 \in 0..n /\ \A i \in 1..n : i \in 0..n /\ i # 0
    BY <1>1
  <2> HIDE DEF n
  <2> QED BY <1>5, <2>1, Zenon
<1> HIDE DEF Solves, n
<1> DEFINE Bad == {i \in 0..n : back[i] \notin Ancestry(b)}
<1>8. Bad = {}
  <2> SUFFICES ASSUME Bad # {} PROVE FALSE
    OBVIOUS
  <2>1. Bad \subseteq Nat
    OBVIOUS
  <2>2. PICK m \in Bad : \A y \in Bad : m <= y
    <3> HIDE DEF Bad
    <3> QED BY <2>1, MinOfNat, Zenon
  <2>3. b \in Ancestry(b)
    BY AncestryFacts
  <2>4. m \in 1..n /\ m - 1 \in 0..n /\ m - 1 \notin Bad
    BY <1>1, <1>7, <2>2, <2>3
  <2>5. back[m - 1] \in Ancestry(b) /\ back[m] = Give(m, back[m - 1])
    BY <1>7, <2>4
  <2>6. back[m] \in Ancestry(b)
    BY <1>3, <2>4, <2>5, AncestryFacts
  <2> QED BY <2>2, <2>6
<1>9. n \in 0..n
  BY <1>1
<1> QED BY <1>6, <1>8, <1>9

\* The parents without a state that InsertPruned inserts first are blocks.
LEMMA StatelessBlocks ==
    ASSUME Tree, NEW b \in Blocks, Genesis \in disk
    PROVE  Stateless(b) \in Seq(Blocks)
<1> DEFINE path == Path[b]
           Latest(i) == HasState(path[i]) /\ \A j \in i + 1..Len(path) : ~HasState(path[j])
           D == {Len(path) - i : i \in {k \in 1..Len(path) : HasState(path[k])}}
<1>1. path \in Seq(Blocks) /\ Len(path) \in Nat /\ Len(path) >= 1 /\ path[1] = Genesis
  BY PathEnds
<1>2. HasState(path[1])
  BY <1>1 DEF HasState
<1> HIDE DEF path
<1>3. \E i \in 1..Len(path) : Latest(i)
  <2>1. D \subseteq Nat /\ D # {}
    BY <1>1, <1>2
  <2>2. PICK m \in D : \A y \in D : m <= y
    <3> HIDE DEF D
    <3> QED BY <2>1, MinOfNat, Zenon
  <2>3. PICK i \in 1..Len(path) : m = Len(path) - i /\ HasState(path[i])
    BY <2>2
  <2>4. ASSUME NEW j \in i + 1..Len(path), HasState(path[j]) PROVE FALSE
    <3>1. j \in 1..Len(path) /\ Len(path) - j < m
      BY <1>1, <2>3
    <3>2. Len(path) - j \in D
      BY <2>4, <3>1
    <3>3. m <= Len(path) - j
      <4> HIDE DEF D
      <4> QED BY <2>2, <3>2
    <3> QED BY <1>1, <2>3, <3>1, <3>3
  <2> QED BY <2>3, <2>4
<1> DEFINE from == CHOOSE i \in 1..Len(path) : Latest(i)
<1>4. from \in 1..Len(path)
  <2> HIDE DEF Latest
  <2> QED BY <1>3
<1>5. Stateless(b) = SubSeq(path, from + 1, Len(path))
  BY DEF Stateless, path
<1> HIDE DEF from
<1>6. SubSeq(path, from + 1, Len(path)) \in Seq(Blocks)
  BY <1>1, <1>4
<1> QED BY <1>5, <1>6

-----------------------------------------------------------------------------
(* The invariant.                                                          *)

Canonical(h) == \A b \in Ancestry(h) : canon[Number(b)] = b

\* In the database, also between two writes and while the node is down.
Stored ==
    /\ headHash \in Blocks /\ Genesis \in db /\ Genesis \in disk
    /\ DOMAIN canon = Heights /\ Canonical(headHash)

\* A running chain's head is the stored one.
Running == up = "running" => current = headHash

CallRecords ==
    [at : {"idle", "wait", "block", "head"}, chain : Seq(Blocks), todo : Seq(Blocks),
     prev : Blocks \cup {None}]

CallTypes ==
    /\ call \in [Callers -> CallRecords]
    /\ \A c \in Callers : call[c].at # "idle" => call[c].todo # <<>>

\* A block that is written and not yet the head is a child of the head.
Pending ==
    \A c \in Callers : call[c].at = "head" =>
        /\ up = "running" /\ chainmu = c
        /\ Head(call[c].todo) # Genesis /\ Parent[Head(call[c].todo)] = current

AddedTypes == added \in [Syncers -> Seq(Blocks \ {Genesis})]

IInv == Stored /\ Running /\ CallTypes /\ Pending /\ AddedTypes

-----------------------------------------------------------------------------
\* A process that ends keeps what the database holds, and no call is left.
LEMMA EndStep ==
    ASSUME IInv, NEW why \in {"down", "panicked"}, End(why), UNCHANGED stored
    PROVE  IInv'
<1>1. /\ up' # "running" /\ call' = [c \in Callers |-> NoCall]
      /\ added' = [s \in Syncers |-> <<>>]
  BY DEF End
<1>2. Stored'
  BY DEF IInv, Stored, stored, Canonical
<1>3. NoCall \in CallRecords /\ NoCall.at = "idle"
  BY DEF NoCall, CallRecords
<1>4. CallTypes' /\ Pending'
  BY <1>1, <1>3 DEF CallTypes, Pending
<1>5. AddedTypes'
  BY <1>1 DEF AddedTypes
<1> QED BY <1>1, <1>2, <1>4, <1>5 DEF IInv, Running

\* Steps of a call that leave the chain as it is and do not make a block the head.
LEMMA CallStep ==
    ASSUME IInv, NEW c \in Callers, UNCHANGED <<stored, up, current, added>>,
           NEW STATE r, r \in CallRecords, r.at # "head", r.at # "idle" => r.todo # <<>>,
           call' = [call EXCEPT ![c] = r],
           chainmu' = chainmu \/ chainmu \in {None, c}, None \notin Callers
    PROVE  IInv'
<1>1. Stored' /\ Running' /\ AddedTypes'
  BY DEF IInv, Stored, Running, AddedTypes, stored, Canonical
<1>2. CallTypes'
  BY DEF IInv, CallTypes
<1>3. Pending'
  <2> SUFFICES ASSUME NEW d \in Callers, call'[d].at = "head"
               PROVE  /\ up' = "running" /\ chainmu' = d
                      /\ Head(call'[d].todo) # Genesis /\ Parent[Head(call'[d].todo)] = current'
    BY DEF Pending
  <2>1. d # c /\ call'[d] = call[d]
    BY DEF IInv, CallTypes
  <2> QED BY <2>1 DEF IInv, Pending
<1> QED BY <1>1, <1>2, <1>3 DEF IInv

\* The call of a caller, field by field.
LEMMA CallFields ==
    ASSUME IInv, NEW c \in Callers
    PROVE  /\ call[c] \in CallRecords /\ call[c].todo \in Seq(Blocks) /\ call[c].chain \in Seq(Blocks)
           /\ call[c].at # "idle" => call[c].todo # <<>> /\ Head(call[c].todo) \in Blocks
  BY DEF IInv, CallTypes, CallRecords

\* The steps before a block is written.
LEMMA BeginStep ==
    ASSUME Tree, None \notin Callers, IInv, NEW c \in Callers,
           \/ \E chain \in Chains : InsertChain(c, chain)
           \/ Lock(c) \/ InsertPruned(c) \/ RefuseBlock(c)
    PROVE  IInv'
<1>1. NoCall \in CallRecords /\ NoCall.at = "idle"
  BY DEF NoCall, CallRecords
<1>2. ASSUME NEW chain \in Chains, InsertChain(c, chain) PROVE IInv'
  <2> DEFINE r == [at |-> "wait", chain |-> chain, todo |-> chain, prev |-> current]
  <2>1. chain \in Seq(Blocks) /\ Len(chain) \in Nat
    <3>1. PICK b \in Blocks, i \in 2..Cardinality(Blocks) : chain = SubSeq(Path[b], i, Len(Path[b]))
      BY DEF Chains
    <3>2. Path[b] \in Seq(Blocks) /\ i \in Int /\ i >= 2
      BY PathEnds
    <3> QED BY <3>1, <3>2
  <2>2. chain # <<>>
    BY <1>2, <2>1 DEF InsertChain
  <2>3. current \in Blocks
    BY <1>2 DEF InsertChain, IInv, Running, Stored
  <2>4. r \in CallRecords /\ r.at = "wait" /\ r.todo = chain
    BY <2>1, <2>3 DEF CallRecords
  <2>5. /\ call' = [call EXCEPT ![c] = r] /\ chainmu' = chainmu
        /\ UNCHANGED <<stored, up, current, added>>
    BY <1>2 DEF InsertChain
  <2> HIDE DEF r
  <2> QED BY <2>2, <2>4, <2>5, CallStep, Zenon
<1>3. CASE Lock(c)
  <2> DEFINE r == [call[c] EXCEPT !.at = "block"]
  <2>1. /\ call[c].at = "wait" /\ chainmu = None /\ call' = [call EXCEPT ![c] = r]
        /\ UNCHANGED <<stored, up, current, added>>
    BY <1>3 DEF Lock
  <2>2. r \in CallRecords /\ r.at = "block" /\ r.todo = call[c].todo /\ r.todo # <<>>
    BY <2>1, CallFields DEF CallRecords
  <2> HIDE DEF r
  <2> QED BY <2>1, <2>2, CallStep, Zenon
<1>4. CASE InsertPruned(c)
  <2> DEFINE p == Parent[Head(call[c].todo)]
             r == [call[c] EXCEPT !.todo = Stateless(p) \o @]
  <2>1. /\ call[c].at = "block" /\ chainmu = c /\ call' = [call EXCEPT ![c] = r]
        /\ p \in db /\ ~Known(Head(call[c].todo))
        /\ UNCHANGED <<stored, up, current, added, chainmu>>
    BY <1>4 DEF InsertPruned, Inserting
  <2>2. Head(call[c].todo) \in Blocks /\ call[c].todo \in Seq(Blocks) /\ call[c].todo # <<>>
        /\ call[c] \in CallRecords
    BY <2>1, CallFields
  <2>3. p \in Blocks /\ Genesis \in disk
    BY <2>1, <2>2 DEF Known, HasState, IInv, Stored, Tree
  <2>4. Stateless(p) \in Seq(Blocks)
    <3> HIDE DEF p
    <3> QED BY <2>3, StatelessBlocks
  <2> HIDE DEF p
  <2>5. Stateless(p) \o call[c].todo \in Seq(Blocks) /\ Stateless(p) \o call[c].todo # <<>>
    BY <2>2, <2>4
  <2>6. r \in CallRecords /\ r.at = "block" /\ r.todo # <<>>
    BY <2>1, <2>2, <2>5, Zenon DEF CallRecords
  <2> HIDE DEF r
  <2> QED BY <2>1, <2>6, CallStep, Zenon
<1>5. CASE RefuseBlock(c)
  <2>1. /\ chainmu = c /\ call' = [call EXCEPT ![c] = NoCall]
        /\ UNCHANGED <<stored, up, current, added>>
    BY <1>5 DEF RefuseBlock, Inserting, Return
  <2> QED BY <1>1, <2>1, CallStep, Zenon
<1> QED BY <1>2, <1>3, <1>4, <1>5

\* A call that meets the stopping chain.
LEMMA AbortStep ==
    ASSUME None \notin Callers, IInv, NEW c \in Callers, Abort(c)
    PROVE  IInv'
<1>1. UNCHANGED stored /\ chainmu = c
  BY DEF Abort, Inserting
<1>2. CASE End("panicked")
  BY <1>1, <1>2, EndStep
<1>3. CASE Return(c) /\ UNCHANGED <<up, current, added>>
  <2>1. NoCall \in CallRecords /\ NoCall.at = "idle"
    BY DEF NoCall, CallRecords
  <2>2. call' = [call EXCEPT ![c] = NoCall]
    BY <1>3 DEF Return
  <2> QED BY <1>1, <1>3, <2>1, <2>2, CallStep, Zenon
<1> QED BY <1>2, <1>3, Zenon DEF Abort

\* WriteBlockWithState before the head: the block becomes pending.
LEMMA WriteStep ==
    ASSUME IInv, NEW c \in Callers, WriteBlock(c)
    PROVE  IInv'
<1> DEFINE b == Head(call[c].todo)
           r == [call[c] EXCEPT !.at = "head"]
<1>1. /\ up = "running" /\ chainmu = c /\ call[c].at = "block" /\ Accepts(b)
      /\ call' = [call EXCEPT ![c] = r] /\ db' = db \cup {b}
      /\ UNCHANGED <<canon, headHash, up, current, chainmu, added>>
  BY DEF WriteBlock, Inserting
<1>2. disk \subseteq disk'
  BY DEF WriteBlock, CommitState
<1>3. Stored' /\ Running' /\ AddedTypes'
  BY <1>1, <1>2 DEF IInv, Stored, Running, AddedTypes, Canonical
<1>4. /\ call[c] \in CallRecords /\ r \in CallRecords /\ r.at = "head" /\ r.todo = call[c].todo
      /\ call[c].todo # <<>>
  BY <1>1, CallFields, Zenon DEF CallRecords
<1>5. b # Genesis /\ Parent[b] = current
  BY <1>1 DEF Accepts, Known, HasState, IInv, Stored
<1> HIDE DEF b, r
<1>6. CallTypes'
  BY <1>1, <1>4 DEF IInv, CallTypes
<1>7. Pending'
  <2> SUFFICES ASSUME NEW d \in Callers, call'[d].at = "head"
               PROVE  /\ up' = "running" /\ chainmu' = d
                      /\ Head(call'[d].todo) # Genesis /\ Parent[Head(call'[d].todo)] = current'
    BY DEF Pending
  <2>1. CASE d = c
    <3>1. call'[d] = r
      BY <1>1, <2>1 DEF IInv, CallTypes
    <3> QED BY <1>1, <1>4, <1>5, <2>1, <3>1 DEF b
  <2>2. CASE d # c
    <3>1. call'[d] = call[d]
      BY <1>1, <2>2 DEF IInv, CallTypes
    <3> QED BY <1>1, <3>1 DEF IInv, Pending
  <2> QED BY <2>1, <2>2
<1> QED BY <1>3, <1>6, <1>7 DEF IInv

\* The pending block becomes the head: its ancestors are canonical, since it is a child
\* of the old head and takes the number above it.
LEMMA FinishStep ==
    ASSUME Tree, IInv, NEW c \in Callers, FinishBlock(c)
    PROVE  IInv'
<1> DEFINE b == Head(call[c].todo)
<1>1. /\ up = "running" /\ chainmu = c /\ call[c].at = "head"
      /\ canon' = [canon EXCEPT ![Number(b)] = b] /\ headHash' = b /\ current' = b
      /\ UNCHANGED <<db, disk, up>>
  BY DEF FinishBlock, WriteHeadBlock
<1>2. b \in Blocks \ {Genesis} /\ Parent[b] = headHash /\ call[c].todo \in Seq(Blocks)
  BY <1>1, CallFields DEF IInv, Pending, Running
<1> HIDE DEF b
<1>3. Canonical(headHash)'
  <2> SUFFICES ASSUME NEW x \in Ancestry(b) PROVE canon'[Number(x)] = x
    BY <1>1 DEF Canonical
  <2>1. Number(b) \in Heights /\ DOMAIN canon = Heights
    BY <1>2 DEF Heights, IInv, Stored
  <2>2. CASE x = b
    BY <1>1, <2>1, <2>2
  <2>3. CASE x # b
    <3>1. x \in Ancestry(headHash) /\ Number(x) # Number(b)
      BY <1>2, <2>3, ChildAncestry
    <3>2. x \in Blocks
      BY <3>1, AncestryFacts DEF IInv, Stored
    <3>3. Number(x) \in Heights /\ canon[Number(x)] = x
      BY <3>1, <3>2 DEF Heights, IInv, Stored, Canonical
    <3> QED BY <1>1, <2>1, <3>1, <3>3
  <2> QED BY <2>2, <2>3
<1>4. Stored' /\ Running'
  BY <1>1, <1>2, <1>3 DEF IInv, Stored, Running
<1>5. CallTypes' /\ \A d \in Callers : call'[d].at # "head"
  <2>1. \A d \in Callers \ {c} : call[d].at # "head"
    BY <1>1 DEF IInv, Pending
  <2>2. CASE Len(call[c].todo) > 1
    <3> DEFINE r == [call[c] EXCEPT !.todo = Tail(@), !.at = "block"]
    <3>1. call' = [call EXCEPT ![c] = r]
      BY <2>2, Zenon DEF FinishBlock
    <3>2. Tail(call[c].todo) \in Seq(Blocks) /\ Tail(call[c].todo) # <<>>
      BY <1>2, <2>2
    <3>3. r \in CallRecords /\ r.at = "block" /\ r.todo # <<>>
      BY <3>2, CallFields, Zenon DEF CallRecords
    <3> HIDE DEF r
    <3> QED BY <2>1, <3>1, <3>3 DEF IInv, CallTypes
  <2>3. CASE ~(Len(call[c].todo) > 1)
    <3>1. call' = [call EXCEPT ![c] = NoCall]
      BY <2>3 DEF FinishBlock, Return
    <3>2. NoCall \in CallRecords /\ NoCall.at = "idle"
      BY DEF NoCall, CallRecords
    <3> QED BY <2>1, <3>1, <3>2 DEF IInv, CallTypes
  <2> QED BY <2>2, <2>3
<1>6. AddedTypes'
  <2>1. \A q \in Seq(Blocks \ {Genesis}) : Newest(Append(q, b)) \in Seq(Blocks \ {Genesis})
    BY <1>2 DEF Newest
  <2>2. added' = [s \in Syncers |-> IF s = c THEN Newest(Append(added[s], current')) ELSE added[s]]
    BY DEF FinishBlock
  <2> QED BY <1>1, <2>1, <2>2 DEF IInv, AddedTypes
<1> QED BY <1>4, <1>5, <1>6 DEF IInv, Pending

\* Rollback moves the head down its chain.
LEMMA RollbackMoves ==
    ASSUME Tree, IInv, NEW s \in Syncers, NEW n, Rollback(s, n)
    PROVE  headHash' \in Ancestry(headHash)
<1> DEFINE hashes == SubSeq(added[s], n, Len(added[s]))
<1>1. /\ up = "running" /\ n \in 1..Len(added[s])
      /\ current' = RolledBack(current, hashes) /\ headHash' = current'
  BY DEF Rollback
<1>2. hashes \in Seq(Blocks \ {Genesis})
  BY <1>1 DEF IInv, AddedTypes
<1>3. current = headHash /\ headHash \in Blocks
  BY <1>1 DEF IInv, Running, Stored
<1> HIDE DEF hashes
<1> QED BY <1>1, <1>2, <1>3, RolledBackAncestor

\* Rollback keeps the invariant.
LEMMA RollbackStep ==
    ASSUME Tree, None \notin Callers, IInv, NEW s \in Syncers, NEW n, Rollback(s, n)
    PROVE  IInv'
<1>1. /\ up = "running" /\ chainmu = None /\ headHash' = current'
      /\ added' = [added EXCEPT ![s] = <<>>]
      /\ UNCHANGED <<db, canon, disk, up, chainmu, call>>
  BY DEF Rollback
<1>3. headHash \in Blocks /\ Canonical(headHash)
  BY DEF IInv, Stored
<1>4. headHash' \in Ancestry(headHash)
  BY RollbackMoves
<1>5. headHash' \in Blocks /\ Canonical(headHash)'
  <2>1. headHash' \in Blocks /\ Ancestry(headHash') \subseteq Ancestry(headHash)
    BY <1>3, <1>4, AncestryFacts
  <2> QED BY <1>1, <1>3, <2>1 DEF Canonical
<1>6. Stored' /\ Running'
  BY <1>1, <1>5 DEF IInv, Stored, Running
<1>7. AddedTypes'
  BY <1>1 DEF IInv, AddedTypes
<1>8. CallTypes' /\ Pending'
  BY <1>1 DEF IInv, CallTypes, Pending
<1> QED BY <1>6, <1>7, <1>8 DEF IInv

\* The node is stopped, and the stored state is loaded, reset or repaired.
LEMMA RestartStep ==
    ASSUME Tree, None \notin Callers, IInv,
           \/ Stop \/ LoadLastState \/ Reset
           \/ RepairDelete \/ RepairRewind \/ RepairRecreate
    PROVE  IInv'
<1>1. CASE Stop
  <2>1. /\ chainmu = None /\ disk \subseteq disk'
        /\ UNCHANGED <<db, canon, headHash, up, current, chainmu, call, added>>
    BY <1>1 DEF Stop
  <2> QED BY <2>1 DEF IInv, Stored, Running, CallTypes, Pending, AddedTypes, Canonical
<1> DEFINE Kept == UNCHANGED <<canon, disk, call, added>>
<1>2. ASSUME up # "running", Kept, Genesis \in db', headHash' \in Ancestry(headHash),
             up' = "running" => current' = headHash'
      PROVE  IInv'
  <2>1. headHash \in Blocks /\ Canonical(headHash)
    BY DEF IInv, Stored
  <2>2. headHash' \in Blocks /\ Ancestry(headHash') \subseteq Ancestry(headHash)
    BY <1>2, <2>1, AncestryFacts
  <2>3. Canonical(headHash)'
    BY <1>2, <2>1, <2>2 DEF Canonical
  <2>4. Stored' /\ Running'
    BY <1>2, <2>2, <2>3 DEF IInv, Stored, Running
  <2>5. CallTypes' /\ Pending' /\ AddedTypes'
    BY <1>2 DEF IInv, CallTypes, Pending, AddedTypes
  <2> QED BY <2>4, <2>5 DEF IInv
<1>3. headHash \in Ancestry(headHash) /\ Genesis \in Ancestry(headHash) /\ headHash \in Blocks
      /\ Genesis \in db /\ Genesis \in disk
  BY AncestryFacts DEF IInv, Stored
<1>4. CASE LoadLastState
  BY <1>2, <1>3, <1>4 DEF LoadLastState, Dead, Run
<1>5. CASE Reset
  BY <1>2, <1>3, <1>5 DEF Reset, Dead, Run
<1>6. CASE RepairDelete
  BY <1>2, <1>3, <1>6 DEF RepairDelete, Dead, volatile
<1>7. CASE RepairRewind
  <2>1. headHash # Genesis /\ headHash' = Parent[headHash]
    BY <1>3, <1>7 DEF RepairRewind
  <2>2. headHash' \in Ancestry(headHash)
    BY <1>3, <2>1, ChildAncestry
  <2> QED BY <1>2, <1>3, <1>7, <2>2 DEF RepairRewind, volatile
<1>8. CASE RepairRecreate
  BY <1>2, <1>3, <1>8 DEF RepairRecreate, volatile, stored
<1> QED BY <1>1, <1>4, <1>5, <1>6, <1>7, <1>8

-----------------------------------------------------------------------------
\* Every step keeps the invariant.
LEMMA Inductive ==
    ASSUME Tree, None \notin Callers
    PROVE  IInv /\ [Next]_vars => IInv'
<1> SUFFICES ASSUME IInv, [Next]_vars PROVE IInv'
  OBVIOUS
<1>1. ASSUME NEW c \in Callers, InsertStep(c) \/ \E chain \in Chains : InsertChain(c, chain)
      PROVE  IInv'
  BY <1>1, BeginStep, AbortStep, WriteStep, FinishStep DEF InsertStep
<1>2. ASSUME NEW s \in Syncers, NEW n \in 1..MaxRollback, Rollback(s, n) PROVE IInv'
  BY <1>2, RollbackStep
<1>3. CASE Exit \/ Crash
  <2>1. End("down") /\ UNCHANGED stored
    BY <1>3 DEF Exit, Crash
  <2> QED BY <2>1, EndStep
<1>4. CASE Stop \/ LoadLastState \/ Reset \/ RepairDelete \/ RepairRewind \/ RepairRecreate
  BY <1>4, RestartStep
<1>5. CASE UNCHANGED vars
  BY <1>5 DEF vars, IInv, Stored, Running, CallTypes, Pending, AddedTypes, Canonical
<1> QED BY <1>1, <1>2, <1>3, <1>4, <1>5 DEF Next

\* The invariant holds in every behaviour.
LEMMA Invariance ==
    ASSUME Tree, None \notin Callers
    PROVE  Spec => []IInv
<1>1. Init => IInv
  <2> SUFFICES ASSUME Init PROVE IInv
    OBVIOUS
  <2>1. Ancestry(Genesis) = {Genesis} /\ Number(Genesis) = 0 /\ Genesis \in Blocks
    <3>1. Path[Genesis] = <<Genesis>> /\ Len(<<Genesis>>) = 1
      BY PathFacts
    <3> QED BY <3>1 DEF Ancestry, ToSet, Number, Tree
  <2>2. 0 \in Heights
    BY <2>1 DEF Heights
  <2>3. Stored /\ Running
    BY <2>1, <2>2 DEF Init, Stored, Running, Canonical
  <2>4. NoCall \in CallRecords /\ NoCall.at = "idle"
    BY DEF NoCall, CallRecords
  <2>5. CallTypes /\ Pending /\ AddedTypes
    BY <2>4 DEF Init, CallTypes, Pending, AddedTypes
  <2> QED BY <2>3, <2>5 DEF IInv
<1> QED BY <1>1, Inductive, PTL DEF Spec

\* GetBlockByNumber answers with the head's own ancestors, whatever was inserted,
\* rolled back, repaired or lost in a crash between two writes (writeHeadBlock,
\* Rollback, loadLastState, repair): for every tree of blocks and any callers.
THEOREM CanonFollows ==
    ASSUME Tree, None \notin Callers
    PROVE  Spec => []CanonFollowsHead
<1>1. IInv => CanonFollowsHead
  BY DEF IInv, Running, Stored, Canonical, CanonFollowsHead, Quiet
<1> QED BY <1>1, Invariance, PTL

\* The same holds for the head in the database at every moment, between two writes of
\* an insertion and in the middle of a repair: what a crash leaves is consistent.
THEOREM StoredHeadCanonical ==
    ASSUME Tree, None \notin Callers
    PROVE  Spec => [](\A b \in Ancestry(headHash) : canon[Number(b)] = b)
<1>1. IInv => \A b \in Ancestry(headHash) : canon[Number(b)] = b
  BY DEF IInv, Stored, Canonical
<1> QED BY <1>1, Invariance, PTL

-----------------------------------------------------------------------------
(* Archival nodes.                                                         *)

\* The states of the stored chain are written, and so is a pending block's.
Written ==
    /\ Ancestry(headHash) \subseteq disk
    /\ \A c \in Callers : call[c].at = "head" => Head(call[c].todo) \in disk

\* Steps that move the head only down its chain and make no block pending.
LEMMA WrittenFrame ==
    ASSUME Tree, IInv, Written, disk \subseteq disk', headHash' \in Ancestry(headHash),
           \A c \in Callers : call'[c].at = "head" => call'[c] = call[c]
    PROVE  Written'
<1>1. Ancestry(headHash') \subseteq Ancestry(headHash)
  BY AncestryFacts DEF IInv, Stored
<1> QED BY <1>1 DEF Written

\* Every step of an archival node keeps its states written.
LEMMA WrittenStep ==
    ASSUME Tree, None \notin Callers, Archive = TRUE, IInv, Written, [Next]_vars
    PROVE  Written'
<1>0. headHash \in Blocks /\ headHash \in Ancestry(headHash) /\ Genesis \in Ancestry(headHash)
  BY AncestryFacts DEF IInv, Stored
<1>t. DOMAIN call = Callers /\ \A c \in Callers : DOMAIN call[c] = {"at", "chain", "todo", "prev"}
  BY DEF IInv, CallTypes, CallRecords
<1>n. NoCall.at # "head"
  BY DEF NoCall
<1>1. ASSUME NEW c \in Callers, NEW chain, InsertChain(c, chain) PROVE Written'
  <2>1. UNCHANGED <<disk, headHash>> /\ \A d \in Callers : call'[d].at = "head" => call'[d] = call[d]
    BY <1>t, <1>1 DEF InsertChain, stored
  <2> QED BY <1>0, <2>1, WrittenFrame
<1>2. ASSUME NEW c \in Callers, Lock(c) PROVE Written'
  <2>1. UNCHANGED <<disk, headHash>> /\ \A d \in Callers : call'[d].at = "head" => call'[d] = call[d]
    BY <1>t, <1>2 DEF Lock, stored
  <2> QED BY <1>0, <2>1, WrittenFrame
<1>3. ASSUME End("panicked") \/ End("down"), UNCHANGED stored PROVE Written'
  <2>1. UNCHANGED <<disk, headHash>> /\ \A d \in Callers : call'[d].at # "head"
    BY <1>n, <1>3 DEF End, stored
  <2> QED BY <1>0, <2>1, WrittenFrame
<1>4. ASSUME NEW c \in Callers, Return(c), UNCHANGED stored PROVE Written'
  <2>1. UNCHANGED <<disk, headHash>> /\ \A d \in Callers : call'[d].at = "head" => call'[d] = call[d]
    BY <1>n, <1>t, <1>4 DEF Return, stored
  <2> QED BY <1>0, <2>1, WrittenFrame
<1>5. ASSUME NEW c \in Callers, InsertPruned(c) PROVE Written'
  <2>1. UNCHANGED <<disk, headHash>> /\ \A d \in Callers : call'[d].at = "head" => call'[d] = call[d]
    BY <1>t, <1>5, Zenon DEF InsertPruned, Inserting, stored
  <2> QED BY <1>0, <2>1, WrittenFrame
<1>6. ASSUME NEW c \in Callers, WriteBlock(c) PROVE Written'
  <2> DEFINE b == Head(call[c].todo)
  <2>1. disk' = disk \cup {b} /\ headHash' = headHash /\ call' = [call EXCEPT ![c].at = "head"]
    BY <1>6 DEF WriteBlock, CommitState
  <2>2. ASSUME NEW d \in Callers, call'[d].at = "head" PROVE Head(call'[d].todo) \in disk'
    <3>1. call'[d].todo = call[d].todo /\ (d # c => call'[d] = call[d])
      BY <1>t, <2>1
    <3> QED BY <2>1, <2>2, <3>1 DEF Written
  <2> QED BY <2>1, <2>2 DEF Written
<1>7. ASSUME NEW c \in Callers, FinishBlock(c) PROVE Written'
  <2> DEFINE b == Head(call[c].todo)
  <2>1. call[c].at = "head" /\ headHash' = b /\ disk' = disk /\ up = "running"
    BY <1>7 DEF FinishBlock, WriteHeadBlock
  <2>2. b \in Blocks \ {Genesis} /\ Parent[b] = headHash /\ b \in disk
    BY <2>1, <1>7, CallFields DEF IInv, Pending, Running, Written
  <2>3. Ancestry(headHash') \subseteq disk'
    BY <2>1, <2>2, ChildAncestry DEF Written
  <2>4. \A d \in Callers : call'[d].at # "head"
    <3>1. \A d \in Callers \ {c} : call[d].at # "head"
      BY <2>1 DEF IInv, Pending
    <3>2. call'[c].at # "head" /\ \A d \in Callers \ {c} : call'[d] = call[d]
      BY <1>n, <1>t, <1>7 DEF FinishBlock, Return
    <3> QED BY <3>1, <3>2
  <2> QED BY <2>3, <2>4 DEF Written
<1>8. ASSUME NEW s \in Syncers, NEW n \in 1..MaxRollback, Rollback(s, n) PROVE Written'
  <2>1. UNCHANGED <<disk, call>>
    BY <1>8 DEF Rollback
  <2>2. headHash' \in Ancestry(headHash)
    BY <1>8, RollbackMoves
  <2> QED BY <2>1, <2>2, WrittenFrame
<1>9. CASE Stop
  <2>1. disk' = disk /\ headHash' = headHash /\ call' = call
    BY <1>9 DEF Stop
  <2> QED BY <1>0, <2>1, WrittenFrame
<1>10. CASE LoadLastState \/ Reset \/ RepairDelete \/ RepairRewind \/ RepairRecreate
  <2>1. UNCHANGED <<disk, call>>
    BY <1>10 DEF LoadLastState, Reset, RepairDelete, RepairRewind, RepairRecreate, Run, stored, volatile
  <2>2. headHash' \in Ancestry(headHash)
    <3>1. CASE RepairRewind
      <4>1. headHash # Genesis /\ headHash' = Parent[headHash]
        BY <3>1 DEF RepairRewind, IInv, Stored
      <4> QED BY <1>0, <4>1, ChildAncestry
    <3> QED BY <1>0, <1>10, <3>1 DEF LoadLastState, Reset, RepairDelete, RepairRecreate, Run, stored
  <2> QED BY <2>1, <2>2, WrittenFrame
<1>11. CASE UNCHANGED vars
  BY <1>0, <1>11, WrittenFrame DEF vars
<1>12. ASSUME NEW c \in Callers, InsertStep(c) PROVE Written'
  <2>1. CASE Abort(c)
    BY <1>3, <1>4, <2>1, Zenon DEF Abort
  <2>2. CASE RefuseBlock(c)
    BY <1>4, <2>2 DEF RefuseBlock
  <2> QED BY <1>2, <1>5, <1>6, <1>7, <1>12, <2>1, <2>2 DEF InsertStep
<1>13. CASE Exit \/ Crash
  BY <1>3, <1>13 DEF Exit, Crash
<1> QED BY <1>1, <1>8, <1>9, <1>10, <1>11, <1>12, <1>13 DEF Next

\* On an archival node the states of the stored head and of every ancestor a rollback
\* or a repair may return to are in the database at every moment, and so a running
\* chain has the state of its head (writeBlockWithState, Rollback, loadLastState).
THEOREM ArchiveHeadHasState ==
    ASSUME Tree, None \notin Callers, Archive = TRUE
    PROVE  Spec => [](HeadHasState /\ Ancestry(headHash) \subseteq disk)
<1>1. Init => Written
  <2> SUFFICES ASSUME Init PROVE Written
    OBVIOUS
  <2>1. Path[Genesis] = <<Genesis>>
    BY PathFacts
  <2>2. Ancestry(Genesis) = {Genesis}
    BY <2>1 DEF Ancestry, ToSet
  <2> QED BY <2>2 DEF Init, Written, NoCall
<1>2. IInv /\ Written => HeadHasState /\ Ancestry(headHash) \subseteq disk
  BY AncestryFacts DEF IInv, Stored, Running, Written, HeadHasState, Quiet, HasState
<1> QED BY <1>1, <1>2, Invariance, WrittenStep, PTL DEF Spec
=============================================================================
