----------------------------- MODULE Induction -----------------------------
(***************************************************************************)
(* Induction over numbers as arguments about least elements, and the       *)
(* existence of the recursive functions that model the loops of the code.  *)
(***************************************************************************)
EXTENDS Integers, NaturalsInduction, WellFoundedInduction, TLAPS

\* A nonempty set of numbers has a least element.
LEMMA MinOfNat ==
    ASSUME NEW S, S \subseteq Nat, S # {}
    PROVE  \E m \in S : \A y \in S : m <= y
<1> DEFINE R == {ss \in Nat \X Nat : ss[1] < ss[2]}
<1>1. IsWellFoundedOn(R, Nat)
  BY NatLessThanWellFounded DEF OpToRel
<1> HIDE DEF R
<1>2. PICK m \in S : \A y \in S : <<y, m>> \notin R
  BY <1>1, WFMin, Zenon
<1>3. ASSUME NEW y \in S PROVE m <= y
  <2>1. <<y, m>> \in Nat \X Nat /\ ~(<<y, m>>[1] < <<y, m>>[2])
    BY <1>2 DEF R
  <2> QED BY <2>1
<1> QED BY <1>2, <1>3

\* A function on S for each of n steps, and the values they lead to from x.
Steps(n, S) == [1..n -> [S -> S]]
Values(f, n, S, x, F) ==
    f \in [0..n -> S] /\ f[0] = x /\ \A i \in 1..n : f[i] = F[i][f[i - 1]]

\* Steps can be iterated: the recursive functions of the models (the loops of
\* RolledBack and of AggregateVotes) have values.
LEMMA Iteration ==
    ASSUME NEW n, n \in Nat, NEW S, NEW x, x \in S, NEW F, F \in Steps(n, S)
    PROVE  \E f : Values(f, n, S, x, F)
<1> USE DEF Steps
<1> DEFINE Upto(k) == \E f \in [0..k -> S] : f[0] = x /\ \A i \in 1..k : f[i] = F[i][f[i - 1]]
           Bad == {k \in 0..n : ~Upto(k)}
<1>1. Upto(0)
  <2>1. [i \in 0..0 |-> x] \in [0..0 -> S] /\ [i \in 0..0 |-> x][0] = x
    OBVIOUS
  <2>2. 1..0 = {}
    OBVIOUS
  <2> QED BY <2>1, <2>2, Zenon
<1>2. ASSUME NEW k \in 1..n, Upto(k - 1) PROVE Upto(k)
  <2>1. PICK g \in [0..(k - 1) -> S] : g[0] = x /\ \A i \in 1..(k - 1) : g[i] = F[i][g[i - 1]]
    BY <1>2
  <2> DEFINE f == [i \in 0..k |-> IF i = k THEN F[k][g[k - 1]] ELSE g[i]]
  <2>2. F[k][g[k - 1]] \in S
    OBVIOUS
  <2>3. f \in [0..k -> S]
    BY <2>2
  <2>4. f[0] = x
    BY <2>1
  <2>5. ASSUME NEW i \in 1..k PROVE f[i] = F[i][f[i - 1]]
    BY <2>1
  <2> HIDE DEF f
  <2> QED BY <2>3, <2>4, <2>5
<1>3. Bad = {}
  <2> SUFFICES ASSUME Bad # {} PROVE FALSE
    OBVIOUS
  <2>1. Bad \subseteq Nat
    OBVIOUS
  <2> HIDE DEF Upto
  <2>2. PICK m \in Bad : \A y \in Bad : m <= y
    <3> HIDE DEF Bad
    <3> QED BY <2>1, MinOfNat, Zenon
  <2>3. m \in 1..n /\ m - 1 \in 0..n /\ m - 1 \notin Bad
    BY <1>1, <2>2
  <2> QED BY <1>2, <2>2, <2>3
<1>4. Upto(n)
  <2> HIDE DEF Upto
  <2> QED BY <1>3
<1> QED BY <1>4 DEF Values
=============================================================================
