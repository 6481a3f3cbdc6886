------------------------------- MODULE Folding -------------------------------
(***************************************************************************)
(* A loop over a sequence as a recursive function, for any round of it. The *)
(* other modules of proofs take an instance for each loop they look at.     *)
(***************************************************************************)
EXTENDS Integers, Sequences, WellFoundedInduction, TLAPS

\* What a round makes of what there was and of the next element; the first
\* argument is what the loop does not change.
CONSTANT Step(_, _, _)

\* What there is after each of the first n rounds.
Rounds(c, base, s, n, f) ==
  f = [i \in 0..n |-> IF i = 0 THEN base ELSE Step(c, f[i - 1], s[i])]

\* A set of numbers that is not empty has a least one.
LEMMA LeastNumber ==
  ASSUME NEW S, S \subseteq Nat, S # {}
  PROVE  \E x \in S : \A y \in S : x <= y
<1>1. PICK x \in S : \A y \in S : ~(<<y, x>> \in OpToRel(<, Nat))
  BY NatLessThanWellFounded, WFMin
<1>2. \A y \in S : ~(y < x)
  BY <1>1 DEF OpToRel
<1> QED
  BY <1>2

\* However many elements there are, the loop comes to its end.
LEMMA RoundsExist ==
  ASSUME NEW c, NEW base, NEW s, NEW n \in Nat
  PROVE  \E f : Rounds(c, base, s, n, f)
<1> DEFINE Bad == {m \in Nat : ~\E f : Rounds(c, base, s, m, f)}
<1>1. SUFFICES ASSUME Bad # {} PROVE FALSE
  OBVIOUS
<1>2. PICK m \in Bad : \A k \in Bad : m <= k
  BY <1>1, LeastNumber
<1>3. CASE m = 0
  <2>1. Rounds(c, base, s, 0, [i \in 0..0 |-> base])
    BY DEF Rounds
  <2> QED BY <1>3, <2>1
<1>4. CASE m # 0
  <2>1. m - 1 \in Nat /\ m - 1 \notin Bad
    BY <1>2, <1>4
  <2>2. PICK old : Rounds(c, base, s, m - 1, old)
    BY <2>1
  <2>3. PICK new : new = [i \in 0..m |-> IF i = m THEN Step(c, old[m - 1], s[m]) ELSE old[i]]
    OBVIOUS
  <2>4. \A i \in 0..(m - 1) : new[i] = old[i]
    BY <2>1, <2>3
  <2>5. \A i \in 0..(m - 1) : old[i] = IF i = 0 THEN base ELSE Step(c, old[i - 1], s[i])
    BY <2>2 DEF Rounds
  <2>6. \A i \in 0..m : new[i] = IF i = 0 THEN base ELSE Step(c, new[i - 1], s[i])
    <3>1. TAKE i \in 0..m
    <3>2. CASE i = m
      BY <3>2, <2>1, <2>3, <2>4
    <3>3. CASE i # m
      <4>1. i \in 0..(m - 1) /\ (i # 0 => i - 1 \in 0..(m - 1))
        BY <3>3, <2>1
      <4> QED BY <4>1, <2>4, <2>5
    <3> QED BY <3>2, <3>3
  <2>7. Rounds(c, base, s, m, new)
    BY <2>3, <2>6 DEF Rounds
  <2> QED BY <2>7
<1> QED
  BY <1>3, <1>4

\* What holds before a round and is kept by each holds after every round.
LEMMA RoundByRound ==
  ASSUME NEW n \in Nat, NEW T, 0 \in T, \A i \in 1..n : i - 1 \in T => i \in T
  PROVE  \A i \in 0..n : i \in T
<1> DEFINE Bad == {i \in 0..n : i \notin T}
<1>1. SUFFICES ASSUME Bad # {} PROVE FALSE
  OBVIOUS
<1>2. PICK i \in Bad : \A k \in Bad : i <= k
  <2>1. Bad \subseteq Nat
    OBVIOUS
  <2> HIDE DEF Bad
  <2> QED BY <1>1, <2>1, LeastNumber
<1>3. i \in 1..n /\ i - 1 \in 0..n
  BY <1>2
<1>4. i - 1 \notin Bad
  BY <1>2, <1>3
<1> QED
  BY <1>2, <1>3, <1>4

\* What the loop gives in the end.
Folded(c, base, s) ==
  LET f[i \in 0..Len(s)] == IF i = 0 THEN base ELSE Step(c, f[i - 1], s[i]) IN f[Len(s)]

LEMMA FoldedByRounds ==
  ASSUME NEW c, NEW base, NEW s, Len(s) \in Nat
  PROVE  \E f : Rounds(c, base, s, Len(s), f) /\ Folded(c, base, s) = f[Len(s)]
<1>1. \E f : Rounds(c, base, s, Len(s), f)
  BY RoundsExist
<1> QED
  BY <1>1 DEF Rounds, Folded

LEMMA FoldedNone ==
  ASSUME NEW c, NEW base, NEW s, Len(s) = 0
  PROVE  Folded(c, base, s) = base
<1>1. PICK f : Rounds(c, base, s, 0, f) /\ Folded(c, base, s) = f[0]
  BY FoldedByRounds
<1> QED
  BY <1>1 DEF Rounds

\* One more element is one more round.
LEMMA FoldedAppend ==
  ASSUME NEW c, NEW base, NEW A, NEW s \in Seq(A), NEW e \in A
  PROVE  Folded(c, base, Append(s, e)) = Step(c, Folded(c, base, s), e)
<1>1. PICK n \in Nat : n = Len(s)
  <2>1. Len(s) \in Nat
    OBVIOUS
  <2> QED BY <2>1
<1>2. PICK more : more = Append(s, e)
  OBVIOUS
<1>3. Len(more) = n + 1 /\ more[n + 1] = e /\ \A i \in 1..n : more[i] = s[i]
  BY <1>1, <1>2
<1>4. PICK f : Rounds(c, base, s, n, f) /\ Folded(c, base, s) = f[n]
  BY <1>1, FoldedByRounds
<1>5. PICK g : Rounds(c, base, more, n + 1, g) /\ Folded(c, base, more) = g[n + 1]
  BY <1>3, FoldedByRounds
<1>6. \A i \in 0..n : f[i] = IF i = 0 THEN base ELSE Step(c, f[i - 1], s[i])
  BY <1>4 DEF Rounds
<1>7. \A i \in 0..(n + 1) : g[i] = IF i = 0 THEN base ELSE Step(c, g[i - 1], more[i])
  BY <1>5 DEF Rounds
<1> DEFINE T == {i \in 0..n : g[i] = f[i]}
<1>8. 0 \in T
  BY <1>6, <1>7
<1>9. ASSUME NEW i \in 1..n, i - 1 \in T PROVE i \in T
  <2>1. i \in 0..n /\ i \in 0..(n + 1) /\ i # 0
    OBVIOUS
  <2>2. f[i] = Step(c, f[i - 1], s[i]) /\ g[i] = Step(c, g[i - 1], more[i])
    BY <1>6, <1>7, <2>1
  <2> QED BY <1>3, <1>9, <2>2
<1>10. \A i \in 0..n : i \in T
  <2> HIDE DEF T
  <2> QED BY <1>8, <1>9, RoundByRound
<1>11. g[n] = f[n]
  BY <1>10
<1>12. g[n + 1] = Step(c, g[n], more[n + 1])
  <2>1. n + 1 \in 0..(n + 1) /\ n + 1 # 0 /\ (n + 1) - 1 = n
    OBVIOUS
  <2> QED BY <1>7, <2>1
<1> QED
  BY <1>2, <1>3, <1>4, <1>5, <1>11, <1>12
=============================================================================
