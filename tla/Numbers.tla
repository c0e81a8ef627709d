------------------------------- MODULE Numbers -------------------------------
(***************************************************************************)
(* Facts about numbers that the proofs of several modules rest on.  The    *)
(* least element of a set of numbers exists because the intervals from 0   *)
(* are finite sets, and strict inclusion of finite sets is well-founded;   *)
(* it serves as induction wherever there is a least counterexample to      *)
(* look at.                                                                *)
(***************************************************************************)
EXTENDS FiniteSetsExt, FiniteSetTheorems, TLAPS

(* Induction: a set of numbers that is not empty has a least element.      *)
LEMMA LeastElement ==
  ASSUME NEW S \in SUBSET Nat, S # {}
  PROVE  \E m \in S : \A n \in S : m <= n
<1> DEFINE Below == { 0..m : m \in S }
<1>1. ASSUME NEW m \in S PROVE 0..m \in FiniteSubsetsOf(Nat)
  <2>1. m \in Int /\ 0..m \subseteq Nat
    OBVIOUS
  <2>2. IsFiniteSet(0..m)
    BY <2>1, FS_Interval
  <2> QED BY <2>1, <2>2 DEF FiniteSubsetsOf
<1>2. Below # {}
  OBVIOUS
<1>3. IsWellFoundedOn(StrictSubsetOrdering(Nat), FiniteSubsetsOf(Nat))
  BY FS_StrictSubsetOrderingWellFounded
<1>4. PICK b \in Below : \A c \in Below : ~ (<<c, b>> \in StrictSubsetOrdering(Nat))
  <2>1. Below \subseteq FiniteSubsetsOf(Nat)
    BY <1>1
  <2> HIDE DEF Below
  <2> QED BY <2>1, <1>2, <1>3, WFMin
<1>5. PICK m \in S : b = 0..m
  BY <1>4
<1>6. ASSUME NEW n \in S, n < m PROVE FALSE
  <2>1. 0..n \in Below /\ 0..n \subseteq 0..m /\ 0..n # 0..m
    BY <1>6
  <2>2. <<0..n, 0..m>> \in StrictSubsetOrdering(Nat)
    BY <2>1 DEF StrictSubsetOrdering
  <2> QED BY <2>1, <2>2, <1>4, <1>5
<1> QED BY <1>6

(* Min finds it.                                                           *)
LEMMA MinIsLeast ==
  ASSUME NEW S \in SUBSET Nat, S # {}
  PROVE  Min(S) \in S /\ \A n \in S : Min(S) <= n
BY LeastElement DEF Min

(* Products and quotients, whose second factor is a constant of a module.  *)
LEMMA ProductMonotonic ==
  ASSUME NEW a \in Nat, NEW b \in Nat, NEW c \in Nat, a <= b
  PROVE  a * c \in Nat /\ b * c \in Nat /\ a * c <= b * c
OBVIOUS

(* Division with remainder has one result,                                 *)
LEMMA QuotientUnique ==
  ASSUME NEW w \in Nat \ {0}, NEW q \in Nat, NEW r \in 0..(w - 1)
  PROVE  (w * q + r) \div w = q /\ (w * q + r) % w = r
OBVIOUS

(* and always has one.                                                     *)
LEMMA QuotientExists ==
  ASSUME NEW n \in Nat, NEW w \in Nat \ {0}
  PROVE  \E q \in Nat, r \in 0..(w - 1) : n = w * q + r /\ n \div w = q /\ n % w = r
<1> DEFINE S == { q \in Nat : n < w * (q + 1) }
<1>1. n < w * (n + 1)
  OBVIOUS
<1>2. n \in S
  BY <1>1
<1>3. PICK q \in S : \A p \in S : q <= p
  BY <1>2, LeastElement
<1>4. w * q <= n
  <2>1. CASE q = 0
    BY <2>1
  <2>2. CASE q # 0
    <3>1. q - 1 \in Nat /\ q - 1 \notin S
      BY <1>3, <2>2
    <3> QED BY <3>1
  <2> QED BY <2>1, <2>2
<1>5. w * q \in Nat /\ w * (q + 1) = w * q + w
  OBVIOUS
<1>6. PICK r \in 0..(w - 1) : n = w * q + r
  <2>1. n - w * q \in 0..(w - 1)
    BY <1>3, <1>4, <1>5
  <2> QED BY <2>1, <1>5
<1>7. (w * q + r) \div w = q /\ (w * q + r) % w = r
  BY QuotientUnique
<1>8. n \div w = q /\ n % w = r /\ q \in Nat
  BY <1>6, <1>7
<1> HIDE DEF S
<1> QED BY <1>6, <1>8

(* A quotient is below a bound when the dividend is.                       *)
LEMMA QuotientBelow ==
  ASSUME NEW n \in Nat, NEW w \in Nat \ {0}, NEW k \in Nat, n < k * w
  PROVE  n \div w < k
OBVIOUS

(* Induction up to a bound: a set that holds 0, and with a number the next *)
(* one, holds all of them.                                                 *)
LEMMA InductionTo ==
  ASSUME NEW n \in Nat, NEW S, 0 \in S, \A m \in 0..(n - 1) : m \in S => m + 1 \in S
  PROVE  0..n \subseteq S
<1> DEFINE Missing == { m \in 0..n : m \notin S }
<1> SUFFICES ASSUME Missing # {} PROVE FALSE
  OBVIOUS
<1>1. Missing \in SUBSET Nat
  OBVIOUS
<1>2. PICK m \in Missing : \A k \in Missing : m <= k
  BY <1>1, LeastElement
<1>3. m \in 1..n /\ m \notin S
  BY <1>2
<1>4. m - 1 \in 0..(n - 1) /\ m - 1 \notin Missing
  BY <1>2, <1>3
<1>5. m - 1 \in S
  BY <1>4
<1> QED BY <1>3, <1>4, <1>5

(* Recursion up to a bound: what the next value is made of is given by a   *)
(* function, so that no operator is needed as a parameter.                 *)
Recurs(f, n, A, base, step) ==
  f \in [0..n -> A] /\ f[0] = base /\ \A i \in 1..n : f[i] = step[i][f[i - 1]]

(* There is such a function.                                               *)
LEMMA RecursionTo ==
  ASSUME NEW n \in Nat, NEW A, NEW base \in A, NEW step \in [1..n -> [A -> A]]
  PROVE  \E f : Recurs(f, n, A, base, step)
<1> DEFINE Upto(m) == \E f \in [0..n -> A] :
                        f[0] = base /\ \A i \in 1..n : i <= m => f[i] = step[i][f[i - 1]]
           S == { m \in 0..n : Upto(m) }
<1>1. 0 \in S
  <2> DEFINE f == [i \in 0..n |-> base]
  <2>1. f \in [0..n -> A] /\ f[0] = base
    OBVIOUS
  <2>2. \A i \in 1..n : i <= 0 => f[i] = step[i][f[i - 1]]
    OBVIOUS
  <2> HIDE DEF f
  <2>3. Upto(0)
    BY <2>1, <2>2
  <2> QED BY <2>3
<1>2. ASSUME NEW m \in 0..(n - 1), m \in S PROVE m + 1 \in S
  <2>1. PICK f \in [0..n -> A] : f[0] = base /\ \A i \in 1..n : i <= m => f[i] = step[i][f[i - 1]]
    BY <1>2
  <2> DEFINE g == [i \in 0..n |-> IF i = m + 1 THEN step[m + 1][f[m]] ELSE f[i]]
  <2>2. step[m + 1][f[m]] \in A /\ m + 1 \in 1..n
    OBVIOUS
  <2>3. g \in [0..n -> A] /\ g[0] = base
    BY <2>1, <2>2
  <2>4. ASSUME NEW i \in 1..n, i <= m + 1 PROVE g[i] = step[i][g[i - 1]]
    <3>1. g[i - 1] = f[i - 1]
      BY <2>4
    <3> QED BY <2>1, <2>4, <3>1
  <2>5. Upto(m + 1)
    BY <2>3, <2>4
  <2> QED BY <2>2, <2>5
<1>3. n \in S
  <2> HIDE DEF S
  <2>1. 0..n \subseteq S
    BY <1>1, <1>2, InductionTo
  <2> QED BY <2>1
<1>4. PICK f \in [0..n -> A] : f[0] = base /\ \A i \in 1..n : i <= n => f[i] = step[i][f[i - 1]]
  BY <1>3
<1>5. \A i \in 1..n : i <= n
  OBVIOUS
<1> QED BY <1>4, <1>5 DEF Recurs

(* Two functions that begin alike and go on alike are the same.            *)
Alike(f, g, n) ==
  /\ f = [i \in 0..n |-> f[i]] /\ g = [i \in 0..n |-> g[i]] /\ f[0] = g[0]
  /\ \A i \in 1..n : f[i - 1] = g[i - 1] => f[i] = g[i]

(* By induction, as far as they go.                                        *)
LEMMA RecursOnce ==
  ASSUME NEW n \in Nat, NEW f, NEW g, Alike(f, g, n)
  PROVE  f = g
<1> DEFINE S == { i \in 0..n : f[i] = g[i] }
<1>1. 0 \in S
  BY DEF Alike
<1>2. ASSUME NEW m \in 0..(n - 1), m \in S PROVE m + 1 \in S
  <2>1. m + 1 \in 1..n /\ (m + 1) - 1 = m /\ f[m] = g[m] /\ m + 1 \in 0..n
    BY <1>2
  <2>2. f[m + 1] = g[m + 1]
    BY <2>1 DEF Alike
  <2> QED BY <2>1, <2>2
<1>3. 0..n \subseteq S
  <2> HIDE DEF S
  <2> QED BY <1>1, <1>2, InductionTo
<1>4. \A i \in 0..n : f[i] = g[i]
  BY <1>3
<1> QED BY <1>4 DEF Alike
=============================================================================
