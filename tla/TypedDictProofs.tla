-------------------------- MODULE TypedDictProofs --------------------------
(***************************************************************************)
(* TypedDict keeps its tables consistent, gives every item one owner and   *)
(* shows its readers what a Python dict would, for any keys, values, hash  *)
(* function, number of iterators and bounds.  All but the last parts are   *)
(* about one table as a record.                                            *)
(***************************************************************************)
EXTENDS TypedDict, FiniteSetTheorems, SequenceTheorems, WellFoundedInduction, TLAPS

-----------------------------------------------------------------------------
(* Recursive functions on the numbers from 0.                              *)

LEMMA LeastOf ==
  ASSUME NEW S, S \subseteq Nat, S # {}
  PROVE  \E x \in S : \A y \in S : x <= y
  <1>1. IsWellFoundedOn(OpToRel(<, Nat), Nat)
    BY NatLessThanWellFounded
  <1>2. PICK x \in S : \A y \in S : <<y, x>> \notin OpToRel(<, Nat)
    BY <1>1, WFMin
  <1>3. ASSUME NEW y \in S PROVE x <= y
    <2>1. <<y, x>> \in Nat \X Nat /\ ~(y < x)
      BY <1>2 DEF OpToRel
    <2> QED
      BY <2>1
  <1> QED
    BY <1>3

\* F makes the value at n from the one at n - 1.
Stepwise(X, R, F) ==
  /\ X \subseteq Nat /\ \A n \in X : n # 0 => n - 1 \in X
  /\ F \in [[X -> R] -> [X -> R]]
  /\ \A V, W \in [X -> R] : \A n \in X : n = 0 \/ V[n - 1] = W[n - 1] => F[V][n] = F[W][n]

\* W solves W = F[W] as far as n.
SolvesTo(X, R, F, W, n) == W \in [X -> R] /\ \A m \in X : m <= n => W[m] = F[W][m]

LEMMA SolutionsAgree ==
  ASSUME NEW X, NEW R, NEW F, Stepwise(X, R, F), NEW n \in X, NEW V, NEW W,
         SolvesTo(X, R, F, V, n), SolvesTo(X, R, F, W, n)
  PROVE  V[n] = W[n]
  <1> DEFINE S == {m \in X : m <= n /\ V[m] # W[m]}
  <1>1. SUFFICES ASSUME S # {} PROVE FALSE
    BY DEF Stepwise
  <1>2. PICK m \in S : \A y \in S : m <= y
    BY <1>1, LeastOf DEF Stepwise
  <1>3. m = 0 \/ V[m - 1] = W[m - 1]
    BY <1>2 DEF Stepwise
  <1>4. F[V][m] = F[W][m]
    BY <1>3 DEF Stepwise, SolvesTo
  <1> QED
    BY <1>2, <1>4 DEF SolvesTo

LEMMA SolutionsReach ==
  ASSUME NEW X, NEW R, NEW F, Stepwise(X, R, F), R # {}, NEW n \in X
  PROVE  \E W : SolvesTo(X, R, F, W, n)
  <1> DEFINE S == {m \in X : ~\E W : SolvesTo(X, R, F, W, m)}
  <1>1. SUFFICES ASSUME S # {} PROVE FALSE
    OBVIOUS
  <1>2. PICK m \in S : \A y \in S : m <= y
    BY <1>1, LeastOf DEF Stepwise
  <1>3. PICK r \in R : TRUE
    OBVIOUS
  <1>4. PICK V \in [X -> R] : \A y \in X : y < m => V[y] = F[V][y]
    <2>1. CASE m = 0
      <3> DEFINE V == [x \in X |-> r]
      <3>1. V \in [X -> R] /\ \A y \in X : ~(y < m)
        BY <2>1 DEF Stepwise
      <3> QED
        BY <3>1
    <2>2. CASE m # 0
      <3>1. m - 1 \in X /\ m - 1 \notin S
        BY <1>2, <2>2 DEF Stepwise
      <3>2. PICK V : SolvesTo(X, R, F, V, m - 1)
        BY <3>1
      <3>3. \A y \in X : y < m => y <= m - 1
        BY DEF Stepwise
      <3> QED
        BY <3>2, <3>3 DEF SolvesTo
    <2> QED
      BY <2>1, <2>2
  <1>5. PICK W : W = F[V]
    OBVIOUS
  <1>6. W \in [X -> R]
    BY <1>5 DEF Stepwise
  <1>7. ASSUME NEW y \in X, y <= m PROVE W[y] = F[W][y]
    <2>1. y = 0 \/ W[y - 1] = V[y - 1]
      BY <1>4, <1>5, <1>7 DEF Stepwise
    <2>2. F[W][y] = F[V][y]
      BY <1>6, <2>1 DEF Stepwise
    <2> QED
      BY <1>5, <2>2
  <1> QED
    BY <1>2, <1>6, <1>7 DEF SolvesTo

\* So a recursive definition that takes one step at a time has a solution.
LEMMA RecursionExists ==
  ASSUME NEW X, NEW R, NEW F, Stepwise(X, R, F), R # {}
  PROVE  \E W \in [X -> R] : W = F[W]
  <1> DEFINE U == [n \in X |-> CHOOSE W : SolvesTo(X, R, F, W, n)]
             W == [n \in X |-> U[n][n]]
  <1>1. \A n \in X : SolvesTo(X, R, F, U[n], n)
    BY SolutionsReach
  <1> HIDE DEF U
  <1>2. W \in [X -> R] /\ \A n \in X : W[n] = U[n][n]
    BY <1>1 DEF SolvesTo
  <1> HIDE DEF W
  <1>3. ASSUME NEW n \in X PROVE W[n] = F[W][n]
    <2>1. n = 0 \/ W[n - 1] = U[n][n - 1]
      <3> SUFFICES ASSUME n # 0 PROVE W[n - 1] = U[n][n - 1]
        OBVIOUS
      <3>1. n - 1 \in X
        BY DEF Stepwise
      <3>2. SolvesTo(X, R, F, U[n], n - 1)
        BY <1>1 DEF SolvesTo, Stepwise
      <3>3. SolvesTo(X, R, F, U[n - 1], n - 1)
        BY <1>1, <3>1
      <3>4. U[n - 1][n - 1] = U[n][n - 1]
        BY <3>1, <3>2, <3>3, SolutionsAgree
      <3> QED
        BY <1>2, <3>1, <3>4
    <2>2. U[n] \in [X -> R] /\ U[n][n] = F[U[n]][n]
      BY <1>1 DEF SolvesTo, Stepwise
    <2>3. F[W][n] = F[U[n]][n]
      BY <1>2, <2>1, <2>2 DEF Stepwise
    <2> QED
      BY <1>2, <2>2, <2>3
  <1>4. F[W] \in [X -> R]
    BY <1>2 DEF Stepwise
  <1>5. W = F[W]
    BY <1>2, <1>3, <1>4
  <1> QED
    BY <1>2, <1>5

LEMMA Induction ==
  ASSUME NEW X, X \subseteq Nat, \A n \in X : n # 0 => n - 1 \in X,
         NEW S, \A n \in X : n = 0 \/ n - 1 \in S => n \in S
  PROVE  X \subseteq S
  <1>1. SUFFICES ASSUME X \ S # {} PROVE FALSE
    OBVIOUS
  <1>2. PICK n \in X \ S : \A m \in X \ S : n <= m
    <2>1. X \ S \subseteq Nat
      OBVIOUS
    <2> QED
      BY <1>1, <2>1, LeastOf
  <1> QED
    BY <1>2

LEMMA NatInduct ==
  ASSUME NEW S, \A n \in Nat : n = 0 \/ n - 1 \in S => n \in S
  PROVE  Nat \subseteq S
  <1>1. Nat \subseteq Nat /\ \A n \in Nat : n # 0 => n - 1 \in Nat
    OBVIOUS
  <1> QED
    BY <1>1, Induction

-----------------------------------------------------------------------------
(* Modulo a power of two, x -> 5x + 1 visits every number before it comes  *)
(* back: 4x + 1 becomes 5(4x + 1), and 5^d is 1 modulo 4 size for no d     *)
(* less than size.                                                         *)

Five[n \in Nat] == IF n = 0 THEN 1 ELSE 5 * Five[n - 1]

LEMMA FiveIs ==
  Five \in [Nat -> Nat] /\ Five[0] = 1 /\ \A n \in Nat : Five[n + 1] = 5 * Five[n]
  <1> DEFINE F == [V \in [Nat -> Nat] |-> [n \in Nat |-> IF n = 0 THEN 1 ELSE 5 * V[n - 1]]]
  <1>1. Stepwise(Nat, Nat, F)
    BY DEF Stepwise
  <1> HIDE DEF F
  <1>2. PICK W \in [Nat -> Nat] : W = F[W]
    BY <1>1, RecursionExists
  <1> USE DEF F
  <1>3. W = [n \in Nat |-> IF n = 0 THEN 1 ELSE 5 * W[n - 1]]
    BY <1>2
  <1>4. Five = [n \in Nat |-> IF n = 0 THEN 1 ELSE 5 * Five[n - 1]]
    BY <1>3 DEF Five
  <1> HIDE DEF F
  <1>5. \A n \in Nat : Five[n] \in Nat
    <2> DEFINE S == {n \in Nat : Five[n] \in Nat}
    <2>1. \A n \in Nat : n = 0 \/ n - 1 \in S => n \in S
      BY <1>4
    <2>2. Nat \subseteq S
      <3> HIDE DEF S
      <3> QED
        BY <2>1, NatInduct
    <2> QED
      BY <2>2
  <1> QED
    BY <1>4, <1>5

\* Every power of 5 is 1 modulo 4.
LEMMA FiveModFour == \A n \in Nat : \E v \in Nat : Five[n] = 4 * v + 1
  <1> DEFINE S == {n \in Nat : \E v \in Nat : Five[n] = 4 * v + 1}
  <1>1. 0 \in S
    <2>1. Five[0] = 4 * 0 + 1
      BY FiveIs
    <2> QED
      BY <2>1
  <1>2. ASSUME NEW n \in Nat, n # 0, n - 1 \in S PROVE n \in S
    <2>1. PICK v \in Nat : Five[n - 1] = 4 * v + 1
      BY <1>2
    <2>2. Five[n] = 5 * Five[n - 1]
      BY <1>2, FiveIs
    <2>3. Five[n] = 4 * (5 * v + 1) + 1 /\ 5 * v + 1 \in Nat
      BY <2>1, <2>2
    <2> QED
      BY <2>3
  <1>3. \A n \in Nat : n = 0 \/ n - 1 \in S => n \in S
    BY <1>1, <1>2
  <1> HIDE DEF S
  <1>4. Nat \subseteq S
    BY <1>3, NatInduct
  <1> QED
    BY <1>4 DEF S

LEMMA SquareStep ==
  ASSUME NEW x \in Int, NEW y \in Int, NEW z \in Int, y = x * x, z = 5 * x
  PROVE  5 * (5 * y) = z * z
  OBVIOUS

\* 5^2n is the square of 5^n.
LEMMA FiveSquared == \A n \in Nat : Five[2 * n] = Five[n] * Five[n]
  <1> DEFINE S == {n \in Nat : Five[2 * n] = Five[n] * Five[n]}
  <1>1. 0 \in S
    BY FiveIs
  <1>2. ASSUME NEW n \in Nat, n # 0, n - 1 \in S PROVE n \in S
    <2>1. Five[2 * (n - 1)] = Five[n - 1] * Five[n - 1]
      BY <1>2
    <2>2. PICK m \in Nat : m = n - 1
      BY <1>2
    <2>3. Five[m + 1] = 5 * Five[m] /\ n = m + 1
      BY <2>2, FiveIs
    <2>4. Five[2 * m + 1] = 5 * Five[2 * m] /\ Five[(2 * m + 1) + 1] = 5 * Five[2 * m + 1]
      BY FiveIs
    <2>5. 2 * n = (2 * m + 1) + 1
      BY <2>2
    <2>6. Five[m] \in Int /\ Five[2 * m] \in Int /\ Five[m + 1] \in Int
      BY FiveIs
    <2>7. 5 * (5 * Five[2 * m]) = Five[m + 1] * Five[m + 1]
      BY <2>1, <2>2, <2>3, <2>6, SquareStep
    <2> QED
      BY <2>3, <2>4, <2>5, <2>7
  <1>3. \A n \in Nat : n = 0 \/ n - 1 \in S => n \in S
    BY <1>1, <1>2
  <1> HIDE DEF S
  <1>4. Nat \subseteq S
    BY <1>3, NatInduct
  <1> QED
    BY <1>4 DEF S

\* 5^d - 1, times any odd number, is no multiple of 4 size.
FullPeriod(size) ==
  \A d \in 1..(size - 1) : \A q \in Int : \A k \in Int :
    (Five[d] - 1) * (2 * q + 1) # 4 * (size * k)

LEMMA EvenFactor ==
  ASSUME NEW v \in Int, NEW q \in Int, NEW n \in Int,
         ((4 * v + 1) * (4 * v + 1) - 1) * (2 * q + 1) = 8 * n
  PROVE  ((4 * v + 1) - 1) * (2 * (2 * (v * q) + v + q) + 1) = 4 * n
  <1>1. (4 * v + 1) * (4 * v + 1) - 1 = 4 * v * (4 * v + 2)
    OBVIOUS
  <1> QED
    BY <1>1

LEMMA OddFactor ==
  ASSUME NEW v \in Int, NEW q \in Int, NEW n \in Int,
         (5 * ((4 * v + 1) * (4 * v + 1)) - 1) * (2 * q + 1) = 8 * n
  PROVE  FALSE
  <1>1. PICK u \in Int : u = 2 * (v * v) + v
    OBVIOUS
  <1>2. 5 * ((4 * v + 1) * (4 * v + 1)) - 1 = 4 * (10 * u + 1)
    BY <1>1
  <1>3. PICK w \in Int : w = u * q
    OBVIOUS
  <1>4. (10 * u + 1) * (2 * q + 1) = 20 * w + 10 * u + 2 * q + 1
    BY <1>3
  <1>5. (4 * (10 * u + 1)) * (2 * q + 1) = 4 * ((10 * u + 1) * (2 * q + 1))
    OBVIOUS
  <1>6. 4 * (20 * w + 10 * u + 2 * q + 1) = 8 * n
    BY <1>2, <1>4, <1>5
  <1> QED
    BY <1>6

LEMMA PeriodDoubles ==
  ASSUME NEW s \in Nat, FullPeriod(s)
  PROVE  FullPeriod(2 * s)
  <1> SUFFICES ASSUME NEW d \in 1..(2 * s - 1), NEW q \in Int, NEW k \in Int,
                      (Five[d] - 1) * (2 * q + 1) = 4 * ((2 * s) * k)
               PROVE  FALSE
    BY DEF FullPeriod
  <1>1. PICK n \in Int : n = s * k
    OBVIOUS
  <1>2. 4 * ((2 * s) * k) = 8 * n
    BY <1>1
  <1>3. PICK e \in Nat : d = 2 * e \/ d = 2 * e + 1
    <2>1. d = 2 * (d \div 2) \/ d = 2 * (d \div 2) + 1
      OBVIOUS
    <2>2. d \div 2 \in Nat
      OBVIOUS
    <2> QED
      BY <2>1, <2>2
  <1>4. PICK v \in Nat : Five[e] = 4 * v + 1
    BY FiveModFour
  <1>5. Five[2 * e] = (4 * v + 1) * (4 * v + 1)
    BY <1>4, FiveSquared
  <1>6. CASE d = 2 * e
    <2>1. ((4 * v + 1) * (4 * v + 1) - 1) * (2 * q + 1) = 8 * n
      BY <1>2, <1>5, <1>6
    <2>2. ((4 * v + 1) - 1) * (2 * (2 * (v * q) + v + q) + 1) = 4 * n
      BY <2>1, EvenFactor
    <2>3. PICK p \in Int : p = 2 * (v * q) + v + q
      OBVIOUS
    <2>4. e \in 1..(s - 1)
      BY <1>6
    <2>5. (Five[e] - 1) * (2 * p + 1) = 4 * (s * k)
      BY <1>1, <1>4, <2>2, <2>3
    <2> QED
      BY <2>4, <2>5 DEF FullPeriod
  <1>7. CASE d = 2 * e + 1
    <2>1. Five[d] = 5 * ((4 * v + 1) * (4 * v + 1))
      BY <1>5, <1>7, FiveIs
    <2>2. (5 * ((4 * v + 1) * (4 * v + 1)) - 1) * (2 * q + 1) = 8 * n
      BY <1>2, <2>1
    <2> QED
      BY <2>2, OddFactor
  <1> QED
    BY <1>3, <1>6, <1>7

\* The sizes of tables double from MIN_SIZE.
LEMMA DoubledIs ==
  /\ Doubled \in [Nat -> Nat] /\ Doubled[0] = MIN_SIZE
  /\ \A j \in Nat : Doubled[j + 1] = 2 * Doubled[j]
  <1> DEFINE F == [V \in [Nat -> Nat] |-> [n \in Nat |-> IF n = 0 THEN MIN_SIZE ELSE 2 * V[n - 1]]]
  <1>0. MIN_SIZE \in Nat
    BY HashTableAssumption
  <1>1. Stepwise(Nat, Nat, F)
    BY <1>0 DEF Stepwise
  <1> HIDE DEF F
  <1>2. PICK W \in [Nat -> Nat] : W = F[W]
    BY <1>1, RecursionExists
  <1> USE DEF F
  <1>3. W = [n \in Nat |-> IF n = 0 THEN MIN_SIZE ELSE 2 * W[n - 1]]
    BY <1>2
  <1>4. Doubled = [n \in Nat |-> IF n = 0 THEN MIN_SIZE ELSE 2 * Doubled[n - 1]]
    BY <1>3 DEF Doubled
  <1> HIDE DEF F
  <1>5. \A n \in Nat : Doubled[n] \in Nat
    <2> DEFINE S == {n \in Nat : Doubled[n] \in Nat}
    <2>1. \A n \in Nat : n = 0 \/ n - 1 \in S => n \in S
      BY <1>0, <1>4
    <2>2. Nat \subseteq S
      <3> HIDE DEF S
      <3> QED
        BY <2>1, NatInduct
    <2> QED
      BY <2>2
  <1> QED
    BY <1>4, <1>5

SizeOK(s) == s \in Nat /\ s >= 4 /\ FullPeriod(s)

LEMMA DoubledOK == \A j \in Nat : SizeOK(Doubled[j]) /\ Doubled[j] >= j
  <1> DEFINE S == {j \in Nat : SizeOK(Doubled[j]) /\ Doubled[j] >= j}
  <1>1. FullPeriod(MIN_SIZE)
    <2>1. FullPeriod(1)
      BY DEF FullPeriod
    <2>2. FullPeriod(2 * 1)
      BY <2>1, PeriodDoubles
    <2>3. FullPeriod(2 * 2)
      BY <2>2, PeriodDoubles
    <2>4. FullPeriod(2 * 4)
      BY <2>3, PeriodDoubles
    <2> QED
      BY <2>3, <2>4, HashTableAssumption
  <1>2. 0 \in S
    BY <1>1, DoubledIs, HashTableAssumption DEF SizeOK
  <1>3. ASSUME NEW j \in Nat, j # 0, j - 1 \in S PROVE j \in S
    <2>1. PICK m \in Nat : m = j - 1
      BY <1>3
    <2>2. Doubled[j] = 2 * Doubled[m] /\ Doubled[m] \in Nat
      BY <2>1, DoubledIs
    <2>3. SizeOK(Doubled[m]) /\ Doubled[m] >= m
      BY <1>3, <2>1
    <2>4. FullPeriod(2 * Doubled[m])
      BY <2>3, PeriodDoubles DEF SizeOK
    <2> QED
      BY <2>1, <2>2, <2>3, <2>4 DEF SizeOK
  <1>4. \A j \in Nat : j = 0 \/ j - 1 \in S => j \in S
    BY <1>2, <1>3
  <1> HIDE DEF S
  <1>5. Nat \subseteq S
    BY <1>4, NatInduct
  <1> QED
    BY <1>5 DEF S

LEMMA PickSizeOK ==
  ASSUME NEW n \in Nat
  PROVE  SizeOK(PickSize(n)) /\ PickSize(n) >= n
  <1> DEFINE S == {j \in 0..n : Doubled[j] >= n}
  <1>1. S # {} /\ S \subseteq Nat
    BY DoubledOK
  <1>2. PICK j \in S : \A m \in S : j <= m
    BY <1>1, LeastOf
  <1>3. \A m \in Below(j) : Doubled[m] < n
    <2> SUFFICES ASSUME NEW m \in Below(j), Doubled[m] >= n PROVE FALSE
      BY DoubledIs DEF Below
    <2>1. m \in S /\ m < j
      BY <1>2 DEF Below
    <2> QED
      BY <1>2, <2>1
  <1>4. \E x \in 0..n : Doubled[x] >= n /\ \A m \in Below(x) : Doubled[m] < n
    BY <1>2, <1>3
  <1>5. PICK x \in 0..n : PickSize(n) = Doubled[x] /\ Doubled[x] >= n
    BY <1>4 DEF PickSize
  <1> QED
    BY <1>5, DoubledOK

-----------------------------------------------------------------------------
(* A probe visits every offset of its table.                               *)

LEMMA HashIsNat ==
  ASSUME NEW hash \in HashValue
  PROVE  hash \in Nat
  BY DEF HashValue

LEMMA ShiftedOnce ==
  ASSUME NEW x \in Nat, NEW y \in Nat, x < 32 * y
  PROVE  x \div 32 \in Nat /\ x \div 32 < y
  OBVIOUS

\* Each value is the one before it shifted by five bits.
Shifts(rest) == \A m \in 0..6 : rest[m + 1] = rest[m] \div 32

LEMMA ShiftedOut ==
  ASSUME NEW rest, rest[0] \in HashValue, Shifts(rest)
  PROVE  rest[7] = 0
  <1>1. PICK p1 \in Nat : p1 = 32 * 1
    OBVIOUS
  <1>2. PICK p2 \in Nat : p2 = 32 * p1
    OBVIOUS
  <1>3. PICK p3 \in Nat : p3 = 32 * p2
    OBVIOUS
  <1>4. PICK p4 \in Nat : p4 = 32 * p3
    OBVIOUS
  <1>5. PICK p5 \in Nat : p5 = 32 * p4
    OBVIOUS
  <1>6. PICK p6 \in Nat : p6 = 32 * p5
    OBVIOUS
  <1>7. PICK p7 \in Nat : p7 = 32 * p6
    OBVIOUS
  <1>8. rest[0] \in Nat /\ rest[0] < p7
    BY <1>1, <1>2, <1>3, <1>4, <1>5, <1>6, <1>7 DEF HashValue
  <1>9. ASSUME NEW m \in 0..6, NEW y \in Nat, rest[m] \in Nat, rest[m] < 32 * y
        PROVE  rest[m + 1] \in Nat /\ rest[m + 1] < y
    <2>1. rest[m + 1] = rest[m] \div 32
      BY DEF Shifts
    <2> QED
      BY <1>9, <2>1, ShiftedOnce
  <1>10. rest[0 + 1] \in Nat /\ rest[0 + 1] < p6
    BY <1>7, <1>8, <1>9
  <1>11. rest[1 + 1] \in Nat /\ rest[1 + 1] < p5
    BY <1>6, <1>9, <1>10
  <1>12. rest[2 + 1] \in Nat /\ rest[2 + 1] < p4
    BY <1>5, <1>9, <1>11
  <1>13. rest[3 + 1] \in Nat /\ rest[3 + 1] < p3
    BY <1>4, <1>9, <1>12
  <1>14. rest[4 + 1] \in Nat /\ rest[4 + 1] < p2
    BY <1>3, <1>9, <1>13
  <1>15. rest[5 + 1] \in Nat /\ rest[5 + 1] < p1
    BY <1>2, <1>9, <1>14
  <1>16. rest[6 + 1] \in Nat /\ rest[6 + 1] < 1
    BY <1>1, <1>9, <1>15
  <1> QED
    BY <1>16

LEMMA ProbeIs ==
  ASSUME NEW size \in Nat, size > 0, NEW hash \in HashValue
  PROVE  /\ Probe(size, hash) \in [Tries(size) -> Below(size)]
         /\ \E rest \in [Tries(size) -> Nat] :
              /\ rest[0] = hash
              /\ \A n \in Tries(size) : n # 0 =>
                   /\ rest[n] = rest[n - 1] \div 32
                   /\ Probe(size, hash)[n] = (5 * Probe(size, hash)[n - 1] + rest[n - 1] + 1) % size
  <1> DEFINE T == Tries(size)
             R == [offset : Below(size), perturb : Nat]
             Made(V, n) ==
               IF n = 0 THEN [offset |-> hash % size, perturb |-> hash]
               ELSE [offset  |-> (5 * V[n - 1].offset + V[n - 1].perturb + 1) % size,
                     perturb |-> V[n - 1].perturb \div 32]
             F == [V \in [T -> R] |-> [n \in T |-> Made(V, n)]]
             First == [offset |-> hash % size, perturb |-> hash]
             After(last) == [offset  |-> (5 * last.offset + last.perturb + 1) % size,
                             perturb |-> last.perturb \div 32]
  <1>0. hash \in Nat
    BY HashIsNat
  <1>1. First \in R
    BY <1>0 DEF Below
  <1>2. ASSUME NEW last \in R PROVE After(last) \in R
    <2>1. \A x \in Nat : x % size \in Below(size) /\ x \div 32 \in Nat
      BY DEF Below
    <2>2. 5 * last.offset + last.perturb + 1 \in Nat /\ last.perturb \in Nat
      BY DEF Below
    <2> QED
      BY <2>1, <2>2
  <1>3. T \subseteq Nat /\ \A n \in T : n # 0 => n - 1 \in T
    BY DEF Tries
  <1> HIDE DEF T, R, First, After
  <1>4. \A V \in [T -> R] : \A n \in T : Made(V, n) = IF n = 0 THEN First ELSE After(V[n - 1])
    BY DEF First, After
  <1>5. \A V \in [T -> R] : \A n \in T : Made(V, n) \in R
    BY <1>1, <1>2, <1>3, <1>4
  <1>6. \A V, W \in [T -> R] : \A n \in T : n = 0 \/ V[n - 1] = W[n - 1] => Made(V, n) = Made(W, n)
    BY <1>4
  <1> HIDE DEF Made
  <1>7. Stepwise(T, R, F)
    BY <1>3, <1>5, <1>6 DEF Stepwise
  <1>8. R # {}
    BY <1>1
  <1> HIDE DEF F
  <1>9. PICK W \in [T -> R] : W = F[W]
    BY <1>7, <1>8, RecursionExists
  <1> DEFINE at == CHOOSE at : at = [n \in Tries(size) |->
                     IF n = 0 THEN [offset |-> hash % size, perturb |-> hash]
                     ELSE [offset  |-> (5 * at[n - 1].offset + at[n - 1].perturb + 1) % size,
                           perturb |-> at[n - 1].perturb \div 32]]
  <1>10. at = [n \in T |-> Made(at, n)]
    <2>1. W = [n \in T |-> Made(W, n)]
      BY <1>9 DEF F
    <2> QED
      BY <2>1 DEF T, Made
  <1>11. Probe(size, hash) = [n \in T |-> at[n].offset]
    BY DEF Probe, T
  <1> HIDE DEF at
  <1>12. at \in [T -> R]
    <2> DEFINE S == {n \in T : at[n] \in R}
    <2>1. \A n \in T : n = 0 \/ n - 1 \in S => n \in S
      <3> SUFFICES ASSUME NEW n \in T, n = 0 \/ n - 1 \in S PROVE at[n] \in R
        OBVIOUS
      <3>1. at[n] = IF n = 0 THEN First ELSE After(at[n - 1])
        BY <1>10 DEF Made, First, After
      <3> QED
        BY <1>1, <1>2, <3>1
    <2> HIDE DEF S
    <2>2. T \subseteq S
      BY <1>3, <2>1, Induction
    <2> USE DEF S
    <2>3. \A n \in T : at[n] \in R
      BY <2>2
    <2> QED
      BY <1>10, <2>3
  <1> DEFINE rest == [n \in T |-> at[n].perturb]
             path == Probe(size, hash)
  <1>13. path \in [T -> Below(size)] /\ rest \in [T -> Nat]
    BY <1>11, <1>12 DEF R
  <1>14. 0 \in T
    BY DEF T, Tries
  <1>15. rest[0] = hash
    BY <1>10, <1>14 DEF Made
  <1>16. ASSUME NEW n \in T, n # 0
         PROVE  /\ rest[n] = rest[n - 1] \div 32
                /\ path[n] = (5 * path[n - 1] + rest[n - 1] + 1) % size
    <2>1. n - 1 \in T
      BY <1>3, <1>16
    <2>2. at[n] = After(at[n - 1])
      BY <1>10, <1>16 DEF Made, After
    <2>3. /\ rest[n] = at[n].perturb /\ rest[n - 1] = at[n - 1].perturb
          /\ path[n] = at[n].offset /\ path[n - 1] = at[n - 1].offset
      BY <1>11, <2>1
    <2> QED
      BY <2>2, <2>3 DEF After
  <1> HIDE DEF rest
  <1> QED
    BY <1>13, <1>15, <1>16 DEF T

\* After seven steps nothing is left of the hash.
LEMMA ProbeSettles ==
  ASSUME NEW size \in Nat, size > 0, NEW hash \in HashValue, NEW n \in 7..(size + 6)
  PROVE  Probe(size, hash)[n + 1] = (5 * Probe(size, hash)[n] + 1) % size
  <1>1. PICK rest \in [Tries(size) -> Nat] :
              /\ rest[0] = hash
              /\ \A m \in Tries(size) : m # 0 =>
                   /\ rest[m] = rest[m - 1] \div 32
                   /\ Probe(size, hash)[m] = (5 * Probe(size, hash)[m - 1] + rest[m - 1] + 1) % size
    BY ProbeIs
  <1>2. 0..7 \subseteq Tries(size)
    BY DEF Tries
  <1>3. Shifts(rest)
    <2> SUFFICES ASSUME NEW m \in 0..6 PROVE rest[m + 1] = rest[m] \div 32
      BY DEF Shifts
    <2>1. m + 1 \in Tries(size) /\ m + 1 # 0 /\ (m + 1) - 1 = m
      BY DEF Tries
    <2> QED
      BY <1>1, <2>1
  <1>4. rest[7] = 0
    BY <1>1, <1>3, ShiftedOut
  <1> DEFINE S == {m \in Tries(size) : m >= 7 => rest[m] = 0}
  <1>5. \A m \in Tries(size) : m = 0 \/ m - 1 \in S => m \in S
    <2> SUFFICES ASSUME NEW m \in Tries(size), m - 1 \in S, m > 7 PROVE rest[m] = 0
      BY <1>4 DEF Tries
    <2>1. m \in Nat /\ m - 1 >= 7
      BY DEF Tries
    <2>2. rest[m - 1] = 0
      BY <2>1
    <2>3. rest[m] = rest[m - 1] \div 32
      BY <1>1, <2>1
    <2> QED
      BY <2>2, <2>3
  <1>6. Tries(size) \subseteq Nat /\ \A m \in Tries(size) : m # 0 => m - 1 \in Tries(size)
    BY DEF Tries
  <1> HIDE DEF S
  <1>7. Tries(size) \subseteq S
    BY <1>5, <1>6, Induction
  <1>8. n \in Tries(size) /\ n + 1 \in Tries(size) /\ n + 1 # 0 /\ (n + 1) - 1 = n
    BY DEF Tries
  <1>9. rest[n] = 0
    BY <1>7, <1>8 DEF S
  <1>10. Probe(size, hash)[n + 1] = (5 * Probe(size, hash)[n] + rest[n] + 1) % size
    BY <1>1, <1>8
  <1>11. Probe(size, hash)[n] \in Nat
    BY <1>8, ProbeIs DEF Below
  <1> QED
    BY <1>9, <1>10, <1>11

LEMMA LinearStep ==
  ASSUME NEW x \in Int, NEW y \in Int, NEW f \in Int, NEW u \in Int, NEW s \in Int,
         NEW c \in Int, NEW k \in Int,
         y = (5 * x + 1) - s * c, 4 * x + 1 = f * u - 4 * (s * k)
  PROVE  4 * y + 1 = (5 * f) * u - 4 * (s * (5 * k + c))
  <1>1. PICK a1 \in Int : a1 = f * u
    OBVIOUS
  <1>2. PICK a2 \in Int : a2 = s * k
    OBVIOUS
  <1>3. PICK a3 \in Int : a3 = s * c
    OBVIOUS
  <1>4. (5 * f) * u = 5 * a1 /\ s * (5 * k + c) = 5 * a2 + a3
    BY <1>1, <1>2, <1>3
  <1> QED
    BY <1>1, <1>2, <1>3, <1>4

LEMMA ProbeIsLinear ==
  ASSUME NEW size \in Nat, size > 0, NEW hash \in HashValue, NEW m \in 7..(size + 7)
  PROVE  \A d \in 0..(size + 7 - m) : \E k \in Int :
           4 * Probe(size, hash)[m + d] + 1 = Five[d] * (4 * Probe(size, hash)[m] + 1) - 4 * (size * k)
  <1> DEFINE path == Probe(size, hash)
             D == 0..(size + 7 - m)
             S == {d \in D : \E k \in Int : 4 * path[m + d] + 1 = Five[d] * (4 * path[m] + 1) - 4 * (size * k)}
  <1>0. path \in [Tries(size) -> Below(size)]
    BY ProbeIs
  <1>1. \A n \in 7..(size + 6) : path[n + 1] = (5 * path[n] + 1) % size
    BY ProbeSettles
  <1> HIDE DEF path
  <1>2. \A n \in 0..(size + 7) : path[n] \in Nat
    BY <1>0 DEF Tries, Below
  <1>3. 0 \in S
    <2>1. PICK x \in Nat : x = path[m]
      BY <1>2
    <2>2. m + 0 = m /\ 0 \in D
      OBVIOUS
    <2>3. 4 * x + 1 = 1 * (4 * x + 1) - 4 * (size * 0)
      OBVIOUS
    <2>4. 4 * path[m + 0] + 1 = Five[0] * (4 * path[m] + 1) - 4 * (size * 0)
      BY <2>1, <2>2, <2>3, FiveIs
    <2> QED
      BY <2>2, <2>4
  <1>4. ASSUME NEW d \in D, d # 0, d - 1 \in S PROVE d \in S
    <2>1. PICK e \in Nat : e = d - 1
      BY <1>4
    <2>2. PICK k \in Int : 4 * path[m + e] + 1 = Five[e] * (4 * path[m] + 1) - 4 * (size * k)
      BY <1>4, <2>1
    <2>3. m + e \in 7..(size + 6) /\ m + d = (m + e) + 1 /\ d = e + 1
      BY <2>1
    <2>4. PICK x \in Nat : x = path[m + e]
      BY <1>2, <2>3
    <2>5. PICK y \in Nat : y = path[m + d]
      BY <1>2, <2>3
    <2>6. y = (5 * x + 1) % size
      BY <1>1, <2>3, <2>4, <2>5
    <2>7. PICK c \in Int : c = (5 * x + 1) \div size
      OBVIOUS
    <2>8. y = (5 * x + 1) - size * c
      BY <2>6, <2>7
    <2>9. PICK u \in Int : u = 4 * path[m] + 1
      BY <1>2
    <2>10. PICK f \in Int : f = Five[e] /\ Five[d] = 5 * f
      BY <2>3, FiveIs
    <2>11. 4 * x + 1 = f * u - 4 * (size * k)
      BY <2>2, <2>4, <2>9, <2>10
    <2>12. 4 * y + 1 = (5 * f) * u - 4 * (size * (5 * k + c))
      BY <2>8, <2>11, LinearStep
    <2>13. 4 * path[m + d] + 1 = Five[d] * (4 * path[m] + 1) - 4 * (size * (5 * k + c))
      BY <2>5, <2>9, <2>10, <2>12
    <2> QED
      BY <2>13
  <1>5. \A d \in D : d = 0 \/ d - 1 \in S => d \in S
    BY <1>3, <1>4
  <1>6. D \subseteq Nat /\ \A d \in D : d # 0 => d - 1 \in D
    OBVIOUS
  <1> HIDE DEF S, D
  <1>7. D \subseteq S
    BY <1>5, <1>6, Induction
  <1> QED
    BY <1>7 DEF S, D, path

LEMMA ProbeKeepsMoving ==
  ASSUME NEW size, SizeOK(size), NEW hash \in HashValue,
         NEW m \in 7..(size + 6), NEW n \in 7..(size + 6), m < n
  PROVE  Probe(size, hash)[m] # Probe(size, hash)[n]
  <1> SUFFICES ASSUME Probe(size, hash)[m] = Probe(size, hash)[n] PROVE FALSE
    OBVIOUS
  <1>0. size \in Nat /\ size > 0 /\ FullPeriod(size)
    BY DEF SizeOK
  <1>1. PICK d \in Nat : d = n - m
    OBVIOUS
  <1>2. d \in 0..(size + 7 - m) /\ m + d = n /\ d \in 1..(size - 1)
    BY <1>0, <1>1
  <1>3. PICK x \in Nat : x = Probe(size, hash)[m]
    <2>1. m \in Tries(size)
      BY <1>0 DEF Tries
    <2> QED
      BY <1>0, <2>1, ProbeIs DEF Below
  <1>4. m \in 7..(size + 7)
    BY <1>0
  <1>5. PICK k \in Int : 4 * Probe(size, hash)[m + d] + 1 = Five[d] * (4 * Probe(size, hash)[m] + 1) - 4 * (size * k)
    BY <1>0, <1>2, <1>4, ProbeIsLinear
  <1>6. 4 * x + 1 = Five[d] * (4 * x + 1) - 4 * (size * k)
    BY <1>2, <1>3, <1>5
  <1>7. PICK f \in Int : f = Five[d]
    BY FiveIs
  <1>8. (f - 1) * (2 * (2 * x) + 1) = 4 * (size * k)
    <2>1. PICK u \in Int : u = 4 * x + 1
      OBVIOUS
    <2>2. (f - 1) * u = f * u - u
      OBVIOUS
    <2>3. f * u - u = 4 * (size * k)
      BY <1>0, <1>6, <1>7, <2>1
    <2>4. 2 * (2 * x) + 1 = u
      BY <2>1
    <2> QED
      BY <2>2, <2>3, <2>4
  <1>9. 2 * x \in Int
    OBVIOUS
  <1> QED
    BY <1>0, <1>2, <1>7, <1>8, <1>9 DEF FullPeriod

LEMMA ProbeCovers ==
  ASSUME NEW size, SizeOK(size), NEW hash \in HashValue, NEW x \in Below(size)
  PROVE  \E n \in Tries(size) : Probe(size, hash)[n] = x
  <1> DEFINE path == Probe(size, hash)
             f == [y \in Below(size) |-> path[y + 7]]
  <1>0. size \in Nat /\ size > 0
    BY DEF SizeOK
  <1>1. path \in [Tries(size) -> Below(size)]
    BY <1>0, ProbeIs
  <1>2. ASSUME NEW y \in Below(size), NEW z \in Below(size), y < z PROVE path[y + 7] # path[z + 7]
    <2>1. y + 7 \in 7..(size + 6) /\ z + 7 \in 7..(size + 6) /\ y + 7 < z + 7
      BY <1>0, <1>2 DEF Below
    <2> QED
      BY <2>1, ProbeKeepsMoving
  <1> HIDE DEF path
  <1>3. f \in [Below(size) -> Below(size)]
    <2>1. \A y \in Below(size) : y + 7 \in Tries(size)
      BY <1>0 DEF Below, Tries
    <2> QED
      BY <1>1, <2>1
  <1>4. ASSUME NEW y \in Below(size), NEW z \in Below(size), f[y] = f[z] PROVE y = z
    <2>1. y < z \/ z < y \/ y = z
      BY <1>0 DEF Below
    <2> QED
      BY <1>2, <1>4, <2>1
  <1> HIDE DEF f
  <1>5. f \in Injection(Below(size), Below(size))
    BY <1>3, <1>4, Zenon DEF Injection, IsInjective
  <1>6. IsFiniteSet(Below(size))
    BY <1>0, FS_Interval DEF Below
  <1>7. f \in Surjection(Below(size), Below(size))
    BY <1>5, <1>6, FS_Injection
  <1>8. PICK y \in Below(size) : f[y] = x
    BY <1>7 DEF Surjection
  <1>9. y + 7 \in Tries(size)
    BY <1>0 DEF Below, Tries
  <1> QED
    BY <1>8, <1>9 DEF f, path

\* Where a probe stops: at the first offset of the goal, if it has any.
\* A probe visits every offset of a table of any size that pickHashTableSize can
\* give, whatever the hash, in as many steps as there are offsets and seven:
\* find, add and remove, which go on until they meet what they look for, end if
\* it is anywhere.
THEOREM ProbesVisitEveryOffset ==
  ASSUME NEW j \in Nat, NEW hash \in HashValue, NEW x \in Below(Doubled[j])
  PROVE  \E n \in Tries(Doubled[j]) : Probe(Doubled[j], hash)[n] = x
  <1>1. PICK size : size = Doubled[j]
    OBVIOUS
  <1>2. SizeOK(size)
    BY <1>1, DoubledOK
  <1>3. \E n \in Tries(size) : Probe(size, hash)[n] = x
    BY <1>1, <1>2, ProbeCovers
  <1> QED
    BY <1>1, <1>3

LEMMA StopFinds ==
  ASSUME NEW t, SizeOK(t.size), NEW hash \in HashValue, NEW goal \in SUBSET Below(t.size), goal # {}
  PROVE  \E n \in Tries(t.size) :
           /\ Stop(t, hash, goal) = Probe(t.size, hash)[n]
           /\ Probe(t.size, hash)[n] \in goal
           /\ \A m \in Below(n) : Probe(t.size, hash)[m] \notin goal
  <1> DEFINE path == Probe(t.size, hash)
             S == {n \in Tries(t.size) : path[n] \in goal}
             Stops(n) == path[n] \in goal /\ \A m \in Below(n) : path[m] \notin goal
  <1>0. t.size \in Nat /\ t.size > 0
    BY DEF SizeOK
  <1>1. S # {}
    BY ProbeCovers
  <1>2. S \subseteq Nat
    BY <1>0 DEF Tries
  <1> HIDE DEF S
  <1>3. PICK n \in S : \A m \in S : n <= m
    BY <1>1, <1>2, LeastOf
  <1>4. n \in Tries(t.size) /\ Stops(n)
    <2>1. n \in Tries(t.size) /\ path[n] \in goal
      BY <1>3 DEF S
    <2>2. ASSUME NEW m \in Below(n), path[m] \in goal PROVE FALSE
      <3>1. m \in Tries(t.size) /\ m < n /\ n \in Nat /\ m \in Nat
        BY <1>0, <2>1 DEF Tries, Below
      <3>2. m \in S
        BY <2>2, <3>1 DEF S
      <3> QED
        BY <1>3, <3>1, <3>2
    <2> QED
      BY <2>1, <2>2
  <1>5. Stop(t, hash, goal) = path[CHOOSE x \in Tries(t.size) : Stops(x)]
    BY <1>0, <1>4 DEF Stop
  <1> DEFINE c == CHOOSE x \in Tries(t.size) : Stops(x)
  <1>6. c \in Tries(t.size) /\ Stops(c)
    BY <1>4
  <1> HIDE DEF c
  <1>7. Stop(t, hash, goal) = path[c]
    BY <1>5 DEF c
  <1> QED
    BY <1>6, <1>7

-----------------------------------------------------------------------------
(* The hash table proper: what its offsets hold, whoever has the items.    *)

\* t is a record of a table's fields.
IsTable(t) ==
  t \in [items : {t.items}, itemsNull : BOOLEAN, populated : {t.populated},
         reserved : Nat, top : Nat, slots : {t.slots}, hashes : {t.hashes},
         slotsNull : BOOLEAN, size : Nat, count : Nat, empty : Nat]

SlotValue == {s \in Int : s >= DELETED}

HashTyped(t) ==
  /\ t.size = 0 \/ SizeOK(t.size)
  /\ t.slots \in [Below(t.size) -> SlotValue]
  /\ t.hashes \in [Below(t.size) -> {EMPTY} \cup HashValue]
  /\ \A x \in Below(t.size) : IF t.slots[x] >= 0 THEN t.hashes[x] \in HashValue ELSE t.hashes[x] = EMPTY

\* The counters are what they count.
Counted(t) == t.count = Cardinality(FilledAt(t)) /\ t.empty = Cardinality(EmptyAt(t))

\* No item slot is entered twice.
EnteredOnce(t) == \A x, y \in FilledAt(t) : t.slots[x] = t.slots[y] => x = y

\* A probe for what is at offset x passes no EMPTY before it.
Reaches(t, x) ==
  \E n \in Tries(t.size) : /\ Probe(t.size, t.hashes[x])[n] = x
                           /\ \A m \in Below(n) : t.slots[Probe(t.size, t.hashes[x])[m]] # EMPTY

Reachable(t) == \A x \in FilledAt(t) : Reaches(t, x)

HashOK(t) == IsTable(t) /\ HashTyped(t) /\ Counted(t) /\ EnteredOnce(t) /\ Reachable(t)

Entry(t, x) == <<t.hashes[x], t.slots[x]>>
Entries(t) == {Entry(t, x) : x \in FilledAt(t)}
SlotsOf(t) == {t.slots[x] : x \in FilledAt(t)}

SameItems(u, t) ==
  /\ u.items = t.items /\ u.itemsNull = t.itemsNull /\ u.reserved = t.reserved /\ u.top = t.top
  /\ u.slotsNull = t.slotsNull

NoDeleted(t) == \A x \in Below(t.size) : t.slots[x] # DELETED

LEMMA BelowIsFinite ==
  ASSUME NEW n \in Nat
  PROVE  IsFiniteSet(Below(n)) /\ Cardinality(Below(n)) = n
  <1>1. IsFiniteSet(0..(n - 1)) /\ Cardinality(0..(n - 1)) = IF 0 > n - 1 THEN 0 ELSE (n - 1) - 0 + 1
    BY FS_Interval
  <1> QED
    BY <1>1 DEF Below

LEMMA OffsetsAreFinite ==
  ASSUME NEW t, t.size \in Nat
  PROVE  /\ IsFiniteSet(FilledAt(t)) /\ Cardinality(FilledAt(t)) \in Nat /\ Cardinality(FilledAt(t)) <= t.size
         /\ IsFiniteSet(EmptyAt(t)) /\ Cardinality(EmptyAt(t)) \in Nat /\ Cardinality(EmptyAt(t)) <= t.size
  <1>1. IsFiniteSet(Below(t.size)) /\ Cardinality(Below(t.size)) = t.size
    BY BelowIsFinite
  <1>2. FilledAt(t) \in SUBSET Below(t.size) /\ EmptyAt(t) \in SUBSET Below(t.size)
    BY DEF FilledAt, EmptyAt
  <1>3. IsFiniteSet(FilledAt(t)) /\ Cardinality(FilledAt(t)) <= t.size
    BY <1>1, <1>2, FS_Subset
  <1>4. IsFiniteSet(EmptyAt(t)) /\ Cardinality(EmptyAt(t)) <= t.size
    BY <1>1, <1>2, FS_Subset
  <1> QED
    BY <1>3, <1>4, FS_CardinalityType

\* The free offset that Place takes.
LEMMA PlaceFinds ==
  ASSUME NEW t, HashOK(t), t.empty > 0, NEW hash \in HashValue, NEW slot \in Nat
  PROVE  \E at \in Below(t.size) \ FilledAt(t) :
           /\ \E n \in Tries(t.size) : /\ Probe(t.size, hash)[n] = at
                                       /\ \A m \in Below(n) : t.slots[Probe(t.size, hash)[m]] >= 0
           /\ Place(t, hash, slot) =
                [t EXCEPT !.slots[at] = slot, !.hashes[at] = hash,
                          !.populated = @ \cup {slot},
                          !.count = @ + 1,
                          !.empty = IF t.slots[at] = EMPTY THEN @ - 1 ELSE @]
  <1> DEFINE goal == Below(t.size) \ FilledAt(t)
             at == Stop(t, hash, goal)
  <1>1. SizeOK(t.size) /\ t.size \in Nat
    <2>1. t.size \in Nat
      BY DEF HashOK, IsTable
    <2>2. EmptyAt(t) # {}
      BY FS_EmptySet DEF HashOK, Counted
    <2>3. t.size # 0
      BY <2>1, <2>2 DEF EmptyAt, Below
    <2> QED
      BY <2>1, <2>3 DEF HashOK, HashTyped
  <1>2. goal # {} /\ goal \in SUBSET Below(t.size)
    <2>1. EmptyAt(t) # {}
      BY FS_EmptySet DEF HashOK, Counted
    <2>2. EmptyAt(t) \subseteq goal
      BY DEF EmptyAt, FilledAt, EMPTY
    <2> QED
      BY <2>1, <2>2
  <1> HIDE DEF goal
  <1>3. PICK n \in Tries(t.size) :
           /\ Stop(t, hash, goal) = Probe(t.size, hash)[n]
           /\ Probe(t.size, hash)[n] \in goal
           /\ \A m \in Below(n) : Probe(t.size, hash)[m] \notin goal
    BY <1>1, <1>2, StopFinds
  <1>4. at \in goal /\ Probe(t.size, hash)[n] = at
    BY <1>3
  <1>5. ASSUME NEW m \in Below(n) PROVE t.slots[Probe(t.size, hash)[m]] >= 0
    <2>1. m \in Tries(t.size)
      BY <1>1 DEF Tries, Below
    <2>2. Probe(t.size, hash)[m] \in Below(t.size)
      BY <1>1, <2>1, ProbeIs DEF SizeOK
    <2>3. Probe(t.size, hash)[m] \notin goal
      BY <1>3
    <2> QED
      BY <2>2, <2>3 DEF goal, FilledAt
  <1>6. at # Lost
    BY <1>1, <1>2, <1>4 DEF Below, Lost
  <1>7. Place(t, hash, slot) =
                [t EXCEPT !.slots[at] = slot, !.hashes[at] = hash,
                          !.populated = @ \cup {slot},
                          !.count = @ + 1,
                          !.empty = IF t.slots[at] = EMPTY THEN @ - 1 ELSE @]
    BY <1>6 DEF Place, goal
  <1> HIDE DEF at
  <1>8. at \in Below(t.size) \ FilledAt(t)
    BY <1>4 DEF goal
  <1> QED
    BY <1>4, <1>5, <1>7, <1>8

\* What Place makes of a table.
LEMMA PlaceIs ==
  ASSUME NEW t, HashOK(t), t.empty > 0, NEW hash \in HashValue, NEW slot \in Nat, slot \notin SlotsOf(t),
         NEW u, u = Place(t, hash, slot)
  PROVE  /\ HashOK(u) /\ SameItems(u, t) /\ u.size = t.size
         /\ u.count = t.count + 1 /\ u.empty >= t.empty - 1
         /\ u.populated = t.populated \cup {slot}
         /\ Entries(u) = Entries(t) \cup {<<hash, slot>>}
         /\ NoDeleted(t) => NoDeleted(u) /\ u.empty = t.empty - 1
  <1>1. PICK at \in Below(t.size) \ FilledAt(t) :
           /\ \E n \in Tries(t.size) : /\ Probe(t.size, hash)[n] = at
                                       /\ \A m \in Below(n) : t.slots[Probe(t.size, hash)[m]] >= 0
           /\ Place(t, hash, slot) =
                [t EXCEPT !.slots[at] = slot, !.hashes[at] = hash,
                          !.populated = @ \cup {slot},
                          !.count = @ + 1,
                          !.empty = IF t.slots[at] = EMPTY THEN @ - 1 ELSE @]
    BY PlaceFinds, ZenonT(60)
  <1> DEFINE S == t.size
             sl == [t.slots EXCEPT ![at] = slot]
             hs == [t.hashes EXCEPT ![at] = hash]
  <1>2. t.size \in Nat /\ t.count \in Nat /\ t.empty \in Nat
    BY DEF HashOK, IsTable
  <1>3. /\ u.slots = sl /\ u.hashes = hs /\ u.populated = t.populated \cup {slot}
        /\ u.count = t.count + 1 /\ u.empty = IF t.slots[at] = EMPTY THEN t.empty - 1 ELSE t.empty
        /\ SameItems(u, t) /\ u.size = t.size
    BY <1>1 DEF HashOK, IsTable, SameItems
  <1>4. IsTable(u)
    <2>1. u.empty \in Nat /\ u.count \in Nat
      BY <1>2, <1>3
    <2>2. u \in [items : {u.items}, itemsNull : BOOLEAN, populated : {u.populated},
         reserved : Nat, top : Nat, slots : {u.slots}, hashes : {u.hashes},
         slotsNull : BOOLEAN, size : Nat, count : Nat, empty : Nat]
      BY <1>1, <2>1 DEF HashOK, IsTable
    <2> QED
      BY <2>2 DEF IsTable
  <1>5. /\ t.slots \in [Below(S) -> SlotValue] /\ t.hashes \in [Below(S) -> {EMPTY} \cup HashValue]
        /\ \A x \in Below(S) : IF t.slots[x] >= 0 THEN t.hashes[x] \in HashValue ELSE t.hashes[x] = EMPTY
        /\ \A x \in Below(S) : x \in FilledAt(t) <=> t.slots[x] >= 0
        /\ S = 0 \/ SizeOK(S)
    BY DEF HashOK, HashTyped, FilledAt
  <1> HIDE DEF S
  <1>6. /\ at \in Below(S) /\ sl \in [Below(S) -> SlotValue] /\ hs \in [Below(S) -> {EMPTY} \cup HashValue]
        /\ sl[at] = slot /\ hs[at] = hash
        /\ \A x \in Below(S) : x # at => sl[x] = t.slots[x] /\ hs[x] = t.hashes[x]
    <2>1. slot \in SlotValue /\ hash \in {EMPTY} \cup HashValue
      BY DEF SlotValue, DELETED
    <2>2. at \in Below(S)
      BY DEF S
    <2> QED
      BY <1>5, <2>1, <2>2
  <1> HIDE DEF sl, hs
  <1>7. FilledAt(u) = FilledAt(t) \cup {at} /\ at \notin FilledAt(t)
    <2>1. \A x \in Below(S) : x \in FilledAt(u) <=> sl[x] >= 0
      BY <1>3 DEF FilledAt, S
    <2>2. FilledAt(u) \subseteq Below(S) /\ FilledAt(t) \subseteq Below(S)
      BY <1>3 DEF FilledAt, S
    <2> QED
      BY <1>1, <1>5, <1>6, <2>1, <2>2
  <1>8. EmptyAt(u) = EmptyAt(t) \ {at} /\ (at \in EmptyAt(t) <=> t.slots[at] = EMPTY)
    <2>1. \A x \in Below(S) : (x \in EmptyAt(u) <=> sl[x] = EMPTY) /\ (x \in EmptyAt(t) <=> t.slots[x] = EMPTY)
      BY <1>3 DEF EmptyAt, S
    <2>2. EmptyAt(u) \subseteq Below(S) /\ EmptyAt(t) \subseteq Below(S)
      BY <1>3 DEF EmptyAt, S
    <2>3. slot # EMPTY
      BY DEF EMPTY
    <2> QED
      BY <1>6, <2>1, <2>2, <2>3
  <1>9. Counted(u)
    <2>1. IsFiniteSet(FilledAt(t)) /\ IsFiniteSet(EmptyAt(t))
      BY <1>2, OffsetsAreFinite
    <2>2. t.count = Cardinality(FilledAt(t)) /\ t.empty = Cardinality(EmptyAt(t))
      BY DEF HashOK, Counted
    <2>3. Cardinality(FilledAt(t) \cup {at}) = Cardinality(FilledAt(t)) + 1
      BY <1>7, <2>1, FS_AddElement
    <2>4. Cardinality(EmptyAt(t) \ {at}) = IF at \in EmptyAt(t) THEN Cardinality(EmptyAt(t)) - 1 ELSE Cardinality(EmptyAt(t))
      BY <2>1, FS_RemoveElement
    <2> QED
      BY <1>3, <1>7, <1>8, <2>2, <2>3, <2>4 DEF Counted
  <1>10. HashTyped(u)
    <2>1. \A x \in Below(S) : IF sl[x] >= 0 THEN hs[x] \in HashValue ELSE hs[x] = EMPTY
      BY <1>5, <1>6
    <2> QED
      BY <1>3, <1>5, <1>6, <2>1 DEF HashTyped, S
  <1>11. EnteredOnce(u)
    <2> SUFFICES ASSUME NEW x \in FilledAt(u), NEW y \in FilledAt(u), u.slots[x] = u.slots[y], x # y PROVE FALSE
      BY DEF EnteredOnce
    <2>1. FilledAt(t) \subseteq Below(S)
      BY DEF FilledAt, S
    <2>2. \A z \in FilledAt(t) : sl[z] = t.slots[z] /\ sl[z] # slot
      BY <1>6, <1>7, <2>1 DEF SlotsOf
    <2>3. x = at \/ y = at
      BY <1>3, <1>7, <2>2 DEF HashOK, EnteredOnce
    <2> QED
      BY <1>3, <1>6, <1>7, <2>2, <2>3
  <1>12. Reachable(u)
    <2> SUFFICES ASSUME NEW x \in FilledAt(u) PROVE Reaches(u, x)
      BY DEF Reachable
    <2>0. SizeOK(S) /\ S \in Nat /\ S > 0
      BY <1>2, <1>5, <1>6 DEF Below, SizeOK, S
    <2>1. ASSUME NEW n \in Tries(S), NEW m \in Below(n), NEW h \in HashValue PROVE Probe(S, h)[m] \in Below(S)
      <3>1. m \in Tries(S)
        BY <2>0 DEF Tries, Below
      <3> QED
        BY <2>0, <3>1, ProbeIs
    <2>2. \A z \in Below(S) : t.slots[z] # EMPTY => sl[z] # EMPTY
      BY <1>6 DEF EMPTY
    <2>3. CASE x = at
      <3>1. PICK n \in Tries(S) : /\ Probe(S, hash)[n] = at
                                  /\ \A m \in Below(n) : t.slots[Probe(S, hash)[m]] >= 0
        BY <1>1 DEF S
      <3>2. \A m \in Below(n) : sl[Probe(S, hash)[m]] # EMPTY
        BY <2>1, <2>2, <3>1 DEF EMPTY
      <3>3. u.hashes[x] = hash /\ u.slots = sl /\ u.size = S
        BY <1>3, <1>6, <2>3 DEF S
      <3> QED
        BY <2>3, <3>1, <3>2, <3>3 DEF Reaches
    <2>4. CASE x \in FilledAt(t) /\ x # at
      <3>1. x \in Below(S) /\ t.hashes[x] \in HashValue
        BY <1>5, <2>4 DEF FilledAt, S
      <3>2. PICK n \in Tries(S) : /\ Probe(S, t.hashes[x])[n] = x
                                  /\ \A m \in Below(n) : t.slots[Probe(S, t.hashes[x])[m]] # EMPTY
        BY <2>4 DEF HashOK, Reachable, Reaches, S
      <3>3. \A m \in Below(n) : sl[Probe(S, t.hashes[x])[m]] # EMPTY
        BY <2>1, <2>2, <3>1, <3>2
      <3>4. u.hashes[x] = t.hashes[x] /\ u.slots = sl /\ u.size = S
        BY <1>3, <1>6, <2>4, <3>1 DEF S
      <3> QED
        BY <3>2, <3>3, <3>4 DEF Reaches
    <2> QED
      BY <1>7, <2>3, <2>4
  <1>13. Entries(u) = Entries(t) \cup {<<hash, slot>>}
    <2>1. Entry(u, at) = <<hash, slot>>
      BY <1>3, <1>6 DEF Entry
    <2>2. ASSUME NEW x \in FilledAt(t) PROVE Entry(u, x) = Entry(t, x)
      <3>1. x \in Below(S) /\ x # at
        BY <1>7 DEF FilledAt, S
      <3> QED
        BY <1>3, <1>6, <3>1 DEF Entry
    <2> QED
      BY <1>7, <2>1, <2>2 DEF Entries
  <1>14. ASSUME NoDeleted(t) PROVE NoDeleted(u) /\ u.empty = t.empty - 1
    <2>1. t.slots[at] \in SlotValue /\ ~(t.slots[at] >= 0) /\ t.slots[at] # DELETED
      BY <1>1, <1>5, <1>6, <1>14 DEF NoDeleted, S
    <2>2. t.slots[at] = EMPTY
      BY <2>1 DEF SlotValue, EMPTY, DELETED
    <2>3. slot # DELETED
      BY DEF DELETED
    <2>4. \A x \in Below(S) : sl[x] # DELETED
      BY <1>6, <1>14, <2>3 DEF NoDeleted, S
    <2> QED
      BY <1>3, <2>2, <2>4 DEF NoDeleted, S
  <1>15. HashOK(u)
    BY <1>4, <1>9, <1>10, <1>11, <1>12 DEF HashOK
  <1>16. u.empty >= t.empty - 1
    BY <1>2, <1>3
  <1> QED
    BY <1>3, <1>13, <1>14, <1>15, <1>16

-----------------------------------------------------------------------------
(* Entering many slots in a table that has none.                           *)

LEMMA StopTyped ==
  ASSUME NEW t, t.size \in Nat, NEW hash \in HashValue, NEW goal
  PROVE  Stop(t, hash, goal) = Lost \/ Stop(t, hash, goal) \in Below(t.size)
  <1> DEFINE path == Probe(t.size, hash)
             Stops(n) == path[n] \in goal /\ \A m \in Below(n) : path[m] \notin goal
             c == CHOOSE n \in Tries(t.size) : Stops(n)
  <1>1. CASE t.size > 0 /\ \E n \in Tries(t.size) : Stops(n)
    <2>1. c \in Tries(t.size)
      BY <1>1
    <2>2. path \in [Tries(t.size) -> Below(t.size)]
      BY <1>1, ProbeIs
    <2>3. Stop(t, hash, goal) = path[c]
      BY <1>1 DEF Stop
    <2> HIDE DEF c, path
    <2> QED
      BY <2>1, <2>2, <2>3
  <1>2. CASE ~(t.size > 0 /\ \E n \in Tries(t.size) : Stops(n))
    BY <1>2 DEF Stop
  <1> QED
    BY <1>1, <1>2

\* The tables of one size over the items of t.
Framed(t) ==
  [items : {t.items}, itemsNull : {t.itemsNull}, populated : SUBSET (t.populated \cup Nat),
   reserved : {t.reserved}, top : {t.top}, slots : [Below(t.size) -> Int], hashes : [Below(t.size) -> Int],
   slotsNull : {t.slotsNull}, size : {t.size}, count : Int, empty : Int]

LEMMA PlaceFramed ==
  ASSUME NEW t, t.size \in Nat, NEW u \in Framed(t), NEW hash \in HashValue, NEW slot \in Nat
  PROVE  Place(u, hash, slot) \in Framed(t)
  <1>1. PICK at : at = Stop(u, hash, Below(u.size) \ FilledAt(u))
    OBVIOUS
  <1>2. u.size = t.size
    BY DEF Framed
  <1>3. CASE at = Lost
    BY <1>1, <1>3 DEF Place
  <1>4. CASE at # Lost
    <2>1. at \in Below(t.size)
      BY <1>1, <1>2, <1>4, StopTyped
    <2>2. Place(u, hash, slot) =
                [u EXCEPT !.slots[at] = slot, !.hashes[at] = hash,
                          !.populated = @ \cup {slot},
                          !.count = @ + 1,
                          !.empty = IF u.slots[at] = EMPTY THEN @ - 1 ELSE @]
      BY <1>1, <1>4 DEF Place
    <2>3. PICK sl : sl = [u.slots EXCEPT ![at] = slot]
      OBVIOUS
    <2>4. PICK hs : hs = [u.hashes EXCEPT ![at] = hash]
      OBVIOUS
    <2>5. hash \in Int
      BY HashIsNat
    <2>6. sl \in [Below(t.size) -> Int] /\ hs \in [Below(t.size) -> Int]
      BY <2>1, <2>3, <2>4, <2>5 DEF Framed
    <2>7. PICK e \in Int : e = IF u.slots[at] = EMPTY THEN u.empty - 1 ELSE u.empty
      BY DEF Framed
    <2>8. PICK c \in Int : c = u.count + 1
      BY DEF Framed
    <2>9. PICK p \in SUBSET (t.populated \cup Nat) : p = u.populated \cup {slot}
      <3>1. u.populated \cup {slot} \in SUBSET (t.populated \cup Nat)
        BY DEF Framed
      <3> QED
        BY <3>1
    <2>10. Place(u, hash, slot) =
                [u EXCEPT !.slots = sl, !.hashes = hs, !.populated = p, !.count = c, !.empty = e]
      BY <2>2, <2>3, <2>4, <2>7, <2>8, <2>9 DEF Framed
    <2> QED
      BY <2>6, <2>10 DEF Framed
  <1> QED
    BY <1>3, <1>4

\* What may be entered: an item slot once, each with a hash.
Enterable(hashes, slots, n) ==
  /\ \A j \in Below(n) : slots[j] \in Int /\ (slots[j] >= 0 => hashes[j] \in HashValue)
  /\ \A j, k \in Below(n) : slots[j] >= 0 /\ slots[j] = slots[k] => j = k

EnteredStep(W, hashes, slots, x) ==
  IF slots[x - 1] < 0 THEN W[x - 1] ELSE Place(W[x - 1], hashes[x - 1], slots[x - 1])

\* The steps of the loop.
LEMMA EnteredUnfolds ==
  ASSUME NEW t, t.size \in Nat, t \in Framed(t), NEW n \in Nat, NEW hashes, NEW slots, Enterable(hashes, slots, n)
  PROVE  \E W : /\ W[0] = t /\ W[n] = Entered(t, hashes, slots, n)
                /\ \A x \in 1..n : W[x] = EnteredStep(W, hashes, slots, x)
  <1> DEFINE X == 0..n
             R == Framed(t)
             Made(V, x) == IF x = 0 THEN t ELSE EnteredStep(V, hashes, slots, x)
             F == [V \in [X -> R] |-> [x \in X |-> Made(V, x)]]
  <1>1. X \subseteq Nat /\ \A x \in X : x # 0 => x - 1 \in X
    OBVIOUS
  <1> HIDE DEF X, R
  <1>2. ASSUME NEW V \in [X -> R], NEW x \in X PROVE Made(V, x) \in R
    <2>1. CASE x = 0
      BY <2>1 DEF R
    <2>2. CASE x # 0
      <3>1. x - 1 \in X /\ x - 1 \in Below(n)
        BY <1>1, <2>2 DEF X, Below
      <3>2. PICK u \in R : u = V[x - 1]
        BY <3>1
      <3>3. CASE slots[x - 1] < 0
        BY <2>2, <3>2, <3>3 DEF EnteredStep
      <3>4. CASE ~(slots[x - 1] < 0)
        <4>1. slots[x - 1] \in Nat /\ hashes[x - 1] \in HashValue
          BY <3>1, <3>4 DEF Enterable
        <4>2. Place(u, hashes[x - 1], slots[x - 1]) \in R
          BY <4>1, PlaceFramed DEF R
        <4> QED
          BY <2>2, <3>2, <3>4, <4>2 DEF EnteredStep
      <3> QED
        BY <3>3, <3>4
    <2> QED
      BY <2>1, <2>2
  <1>3. \A V, W \in [X -> R] : \A x \in X : x = 0 \/ V[x - 1] = W[x - 1] => Made(V, x) = Made(W, x)
    BY DEF EnteredStep
  <1> HIDE DEF Made
  <1>4. Stepwise(X, R, F)
    BY <1>1, <1>2, <1>3 DEF Stepwise
  <1>5. R # {}
    BY DEF R
  <1> HIDE DEF F
  <1>6. PICK W \in [X -> R] : W = F[W]
    BY <1>4, <1>5, RecursionExists
  <1>7. W = [x \in X |-> Made(W, x)]
    BY <1>6 DEF F
  <1> DEFINE after == CHOOSE after : after = [i \in 0..n |->
                        IF i = 0 THEN t
                        ELSE IF slots[i - 1] < 0 THEN after[i - 1]
                        ELSE Place(after[i - 1], hashes[i - 1], slots[i - 1])]
  <1>8. after = [x \in X |-> Made(after, x)]
    BY <1>7 DEF Made, X, EnteredStep
  <1>9. Entered(t, hashes, slots, n) = after[n]
    BY DEF Entered
  <1> HIDE DEF after
  <1>10. 0 \in X /\ n \in X
    BY DEF X
  <1>11. after[0] = t
    BY <1>8, <1>10 DEF Made
  <1>12. ASSUME NEW x \in 1..n PROVE after[x] = EnteredStep(after, hashes, slots, x)
    <2>1. x \in X /\ x # 0
      BY DEF X
    <2> QED
      BY <1>8, <2>1 DEF Made
  <1> QED
    BY <1>9, <1>11, <1>12

Chosen(slots, n) == {j \in Below(n) : slots[j] >= 0}

\* t after the first n entries.
HasEntered(u, t, hashes, slots, n) ==
  /\ HashOK(u) /\ NoDeleted(u) /\ SameItems(u, t) /\ u.size = t.size
  /\ u.count = Cardinality(Chosen(slots, n)) /\ u.empty = t.size - Cardinality(Chosen(slots, n))
  /\ Entries(u) = {<<hashes[j], slots[j]>> : j \in Chosen(slots, n)}
  /\ u.populated = t.populated \cup {slots[j] : j \in Chosen(slots, n)}

\* A table of EMPTY offsets only.
Vacant(t) ==
  /\ IsTable(t) /\ SizeOK(t.size) /\ t.count = 0 /\ t.empty = t.size
  /\ t.slots = [x \in Below(t.size) |-> EMPTY] /\ t.hashes = [x \in Below(t.size) |-> EMPTY]

LEMMA VacantIsOK ==
  ASSUME NEW t, Vacant(t)
  PROVE  HashOK(t) /\ NoDeleted(t) /\ FilledAt(t) = {} /\ Entries(t) = {}
  <1>1. FilledAt(t) = {} /\ EmptyAt(t) = Below(t.size)
    BY DEF Vacant, FilledAt, EmptyAt, EMPTY
  <1>2. t.size \in Nat
    BY DEF Vacant, SizeOK
  <1>3. Counted(t)
    BY <1>1, <1>2, BelowIsFinite, FS_EmptySet DEF Vacant, Counted
  <1>4. HashTyped(t)
    <2>1. EMPTY \in SlotValue /\ ~(EMPTY >= 0)
      BY DEF SlotValue, EMPTY, DELETED
    <2> QED
      BY <2>1 DEF Vacant, HashTyped
  <1>5. EnteredOnce(t) /\ Reachable(t) /\ Entries(t) = {}
    BY <1>1 DEF EnteredOnce, Reachable, Entries
  <1>6. NoDeleted(t)
    BY DEF Vacant, NoDeleted, EMPTY, DELETED
  <1> QED
    BY <1>1, <1>3, <1>4, <1>5, <1>6 DEF HashOK, Vacant

LEMMA VacantIsFramed ==
  ASSUME NEW t, Vacant(t)
  PROVE  t \in Framed(t)
  <1>1. t.slots \in [Below(t.size) -> Int] /\ t.hashes \in [Below(t.size) -> Int]
    BY DEF Vacant, EMPTY
  <1> QED
    BY <1>1 DEF Vacant, IsTable, Framed

LEMMA SlotsOfEntries ==
  ASSUME NEW t
  PROVE  SlotsOf(t) = {e[2] : e \in Entries(t)}
  <1>1. \A x \in FilledAt(t) : Entry(t, x)[2] = t.slots[x]
    BY DEF Entry
  <1> QED
    BY <1>1 DEF SlotsOf, Entries

LEMMA ChosenIsFinite ==
  ASSUME NEW slots, NEW n \in Nat
  PROVE  /\ IsFiniteSet(Chosen(slots, n)) /\ Cardinality(Chosen(slots, n)) \in Nat
         /\ \A m \in 0..n : Cardinality(Chosen(slots, m)) <= Cardinality(Chosen(slots, n))
  <1>1. Chosen(slots, n) \in SUBSET Below(n)
    BY DEF Chosen
  <1>2. IsFiniteSet(Chosen(slots, n))
    BY <1>1, BelowIsFinite, FS_Subset
  <1>3. ASSUME NEW m \in 0..n PROVE Cardinality(Chosen(slots, m)) <= Cardinality(Chosen(slots, n))
    <2>1. Chosen(slots, m) \in SUBSET Chosen(slots, n)
      BY DEF Chosen, Below
    <2> QED
      BY <1>2, <2>1, FS_Subset
  <1> QED
    BY <1>2, <1>3, FS_CardinalityType

LEMMA ChosenGrows ==
  ASSUME NEW slots, NEW n \in Nat, n # 0
  PROVE  /\ slots[n - 1] >= 0 => /\ Chosen(slots, n) = Chosen(slots, n - 1) \cup {n - 1}
                                 /\ Cardinality(Chosen(slots, n)) = Cardinality(Chosen(slots, n - 1)) + 1
         /\ ~(slots[n - 1] >= 0) => Chosen(slots, n) = Chosen(slots, n - 1)
  <1>1. Below(n) = Below(n - 1) \cup {n - 1} /\ n - 1 \notin Below(n - 1) /\ n - 1 \in Nat
    BY DEF Below
  <1>2. ASSUME slots[n - 1] >= 0 PROVE Chosen(slots, n) = Chosen(slots, n - 1) \cup {n - 1}
    BY <1>1, <1>2 DEF Chosen
  <1>3. ASSUME ~(slots[n - 1] >= 0) PROVE Chosen(slots, n) = Chosen(slots, n - 1)
    BY <1>1, <1>3 DEF Chosen
  <1>4. n - 1 \notin Chosen(slots, n - 1) /\ IsFiniteSet(Chosen(slots, n - 1))
    BY <1>1, ChosenIsFinite DEF Chosen
  <1>5. Cardinality(Chosen(slots, n - 1) \cup {n - 1}) = Cardinality(Chosen(slots, n - 1)) + 1
    BY <1>4, FS_AddElement
  <1> QED
    BY <1>2, <1>3, <1>5

\* One more entry.
LEMMA EntersOne ==
  ASSUME NEW t, t.size \in Nat, NEW n \in Nat, NEW hashes, NEW slots, Enterable(hashes, slots, n),
         NEW x \in 1..n, NEW u, HasEntered(u, t, hashes, slots, x - 1), slots[x - 1] >= 0,
         Cardinality(Chosen(slots, x)) <= t.size
  PROVE  HasEntered(Place(u, hashes[x - 1], slots[x - 1]), t, hashes, slots, x)
  <1> DEFINE y == x - 1
             h == hashes[y]
             s == slots[y]
             C == Chosen(slots, y)
             v == Place(u, h, s)
  <1>1. y \in Nat /\ y \in Below(n) /\ x \in Nat /\ x # 0 /\ Below(y) \subseteq Below(n)
    BY DEF Below
  <1>2. s \in Nat /\ h \in HashValue
    BY <1>1 DEF Enterable
  <1>3. Chosen(slots, x) = C \cup {y} /\ Cardinality(Chosen(slots, x)) = Cardinality(C) + 1 /\ Cardinality(C) \in Nat
    BY <1>1, ChosenGrows, ChosenIsFinite
  <1>4. u.empty > 0
    BY <1>3 DEF HasEntered
  <1>5. s \notin SlotsOf(u)
    <2> SUFFICES ASSUME s \in SlotsOf(u) PROVE FALSE
      OBVIOUS
    <2>1. PICK e \in Entries(u) : s = e[2]
      BY SlotsOfEntries
    <2>2. PICK j \in C : e = <<hashes[j], slots[j]>>
      BY <2>1 DEF HasEntered
    <2>3. j \in Below(n) /\ slots[j] >= 0 /\ j # y /\ s = slots[j]
      BY <1>1, <2>1, <2>2 DEF Chosen, Below
    <2> QED
      BY <1>1, <2>3 DEF Enterable
  <1>6. HashOK(u) /\ NoDeleted(u)
    BY DEF HasEntered
  <1> HIDE DEF v, h, s, C
  <1>7. /\ HashOK(v) /\ SameItems(v, u) /\ v.size = u.size
        /\ v.count = u.count + 1
        /\ v.populated = u.populated \cup {s}
        /\ Entries(v) = Entries(u) \cup {<<h, s>>}
        /\ NoDeleted(v) /\ v.empty = u.empty - 1
    BY <1>2, <1>4, <1>5, <1>6, PlaceIs DEF v
  <1>8. {<<hashes[j], slots[j]>> : j \in C \cup {y}} = {<<hashes[j], slots[j]>> : j \in C} \cup {<<h, s>>}
    BY DEF h, s
  <1>9. {slots[j] : j \in C \cup {y}} = {slots[j] : j \in C} \cup {s}
    BY DEF s
  <1>10. /\ u.count = Cardinality(C) /\ u.empty = t.size - Cardinality(C) /\ SameItems(u, t) /\ u.size = t.size
         /\ Entries(u) = {<<hashes[j], slots[j]>> : j \in C} /\ u.populated = t.populated \cup {slots[j] : j \in C}
    BY DEF HasEntered, C
  <1>11. v.count = Cardinality(Chosen(slots, x)) /\ v.empty = t.size - Cardinality(Chosen(slots, x))
    BY <1>3, <1>7, <1>10
  <1>12. SameItems(v, t) /\ v.size = t.size
    BY <1>7, <1>10 DEF SameItems
  <1>13. /\ Entries(v) = {<<hashes[j], slots[j]>> : j \in Chosen(slots, x)}
         /\ v.populated = t.populated \cup {slots[j] : j \in Chosen(slots, x)}
    BY <1>3, <1>7, <1>8, <1>9, <1>10
  <1>14. HasEntered(v, t, hashes, slots, x)
    BY <1>7, <1>11, <1>12, <1>13 DEF HasEntered
  <1> QED
    BY <1>14 DEF v, h, s

LEMMA EnteredIs ==
  ASSUME NEW t, Vacant(t), NEW n \in Nat, NEW hashes, NEW slots, Enterable(hashes, slots, n),
         Cardinality(Chosen(slots, n)) <= t.size
  PROVE  HasEntered(Entered(t, hashes, slots, n), t, hashes, slots, n)
  <1>0. t.size \in Nat
    BY DEF Vacant, SizeOK
  <1>1. PICK W : /\ W[0] = t /\ W[n] = Entered(t, hashes, slots, n)
                 /\ \A x \in 1..n : W[x] = EnteredStep(W, hashes, slots, x)
    BY <1>0, VacantIsFramed, EnteredUnfolds
  <1> DEFINE X == 0..n
             S == {x \in X : HasEntered(W[x], t, hashes, slots, x)}
  <1>2. HasEntered(t, t, hashes, slots, 0)
    <2>1. Chosen(slots, 0) = {}
      BY DEF Chosen, Below
    <2>2. t.populated \cup {} = t.populated
      OBVIOUS
    <2> QED
      BY <1>0, <2>1, <2>2, VacantIsOK, FS_EmptySet DEF HasEntered, SameItems, Vacant
  <1>3. ASSUME NEW x \in X, x = 0 \/ x - 1 \in S PROVE x \in S
    <2>1. CASE x = 0
      BY <1>1, <1>2, <2>1
    <2>2. CASE x # 0
      <3>1. x \in 1..n /\ x \in 0..n
        BY <2>2
      <3>2. PICK u : u = W[x - 1]
        OBVIOUS
      <3>3. HasEntered(u, t, hashes, slots, x - 1)
        BY <1>3, <2>2, <3>2
      <3>4. W[x] = IF slots[x - 1] < 0 THEN u ELSE Place(u, hashes[x - 1], slots[x - 1])
        BY <1>1, <3>1, <3>2 DEF EnteredStep
      <3>5. slots[x - 1] \in Int
        BY <3>1 DEF Enterable, Below
      <3>6. CASE slots[x - 1] < 0
        <4>1. Chosen(slots, x) = Chosen(slots, x - 1)
          BY <3>1, <3>5, <3>6, ChosenGrows
        <4>2. HasEntered(u, t, hashes, slots, x)
          BY <3>3, <4>1 DEF HasEntered
        <4> QED
          BY <3>1, <3>4, <3>6, <4>2
      <3>7. CASE slots[x - 1] >= 0
        <4>1. Cardinality(Chosen(slots, x)) <= t.size
          <5>1. Cardinality(Chosen(slots, x)) <= Cardinality(Chosen(slots, n)) /\ Cardinality(Chosen(slots, n)) \in Nat
            BY <3>1, ChosenIsFinite
          <5>2. Cardinality(Chosen(slots, x)) \in Nat
            BY <3>1, ChosenIsFinite
          <5> QED
            BY <1>0, <5>1, <5>2
        <4>2. HasEntered(Place(u, hashes[x - 1], slots[x - 1]), t, hashes, slots, x)
          BY <1>0, <3>1, <3>3, <3>7, <4>1, EntersOne
        <4> QED
          BY <3>1, <3>4, <3>5, <3>7, <4>2
      <3> QED
        BY <3>5, <3>6, <3>7
    <2> QED
      BY <2>1, <2>2
  <1>4. X \subseteq Nat /\ \A x \in X : x # 0 => x - 1 \in X
    OBVIOUS
  <1>5. n \in X
    OBVIOUS
  <1> HIDE DEF S, X
  <1>6. X \subseteq S
    BY <1>3, <1>4, Induction
  <1>7. HasEntered(W[n], t, hashes, slots, n)
    BY <1>5, <1>6 DEF S
  <1> QED
    BY <1>1, <1>7

\* While entries remain, the table they go to is not crowded.
LEMMA EnteringNeverCrowds ==
  ASSUME NEW t, Vacant(t), NEW n \in Nat, NEW hashes, NEW slots, Enterable(hashes, slots, n),
         2 * Cardinality(Chosen(slots, n)) <= t.size,
         NEW x \in Below(n), slots[x] >= 0,
         NEW u, u = Entered(t, hashes, slots, x)
  PROVE  ~Crowded(u) /\ Add(u, hashes[x], slots[x]) = Place(u, hashes[x], slots[x])
  <1>1. x \in Nat /\ x \in 0..n /\ x + 1 \in 0..n /\ x + 1 \in Nat /\ x + 1 # 0 /\ (x + 1) - 1 = x
    BY DEF Below
  <1>2. Enterable(hashes, slots, x)
    <2>1. Below(x) \subseteq Below(n)
      BY <1>1 DEF Below
    <2> QED
      BY <2>1 DEF Enterable
  <1>3. t.size \in Nat
    BY DEF Vacant, SizeOK
  <1>4. PICK c \in Nat : c = Cardinality(Chosen(slots, n))
    BY ChosenIsFinite
  <1>5. PICK p \in Nat : p = Cardinality(Chosen(slots, x))
    BY <1>1, ChosenIsFinite
  <1>6. Cardinality(Chosen(slots, x + 1)) = p + 1
    BY <1>1, <1>5, ChosenGrows
  <1>7. p + 1 <= c
    BY <1>1, <1>4, <1>6, ChosenIsFinite
  <1>8. p <= t.size
    BY <1>3, <1>4, <1>7
  <1>9. HasEntered(u, t, hashes, slots, x)
    BY <1>1, <1>2, <1>5, <1>8, EnteredIs
  <1>10. u.count = p /\ u.empty = t.size - p /\ u.size = t.size
    BY <1>5, <1>9 DEF HasEntered
  <1>11. ~Crowded(u)
    BY <1>3, <1>4, <1>7, <1>10 DEF Crowded
  <1> QED
    BY <1>11 DEF Add

-----------------------------------------------------------------------------
(* Growing and shrinking the hash table.                                   *)

Roomy(t) == t.size > 0 => t.empty > 0

\* u has a vacant hash table over the items of t.
IsBlank(u, t, size) ==
  /\ Vacant(u) /\ u.size = size /\ u.slotsNull = FALSE
  /\ u.items = t.items /\ u.itemsNull = t.itemsNull /\ u.reserved = t.reserved /\ u.top = t.top
  /\ u.populated = t.populated

LEMMA BlankIsVacant ==
  ASSUME NEW t, IsTable(t), NEW size, SizeOK(size), NEW u, u = Blank(t, size)
  PROVE  IsBlank(u, t, size)
  <1>1. size \in Nat
    BY DEF SizeOK
  <1>2. PICK sl : sl = [x \in Below(size) |-> EMPTY]
    OBVIOUS
  <1>3. u = [t EXCEPT !.size = size, !.count = 0, !.empty = size, !.slotsNull = FALSE, !.slots = sl, !.hashes = sl]
    BY <1>2 DEF Blank
  <1>4. /\ u.size = size /\ u.slotsNull = FALSE /\ u.count = 0 /\ u.empty = size /\ u.slots = sl /\ u.hashes = sl
        /\ u.items = t.items /\ u.itemsNull = t.itemsNull /\ u.reserved = t.reserved /\ u.top = t.top
        /\ u.populated = t.populated
    BY <1>3 DEF IsTable
  <1>5. u \in [items : {u.items}, itemsNull : BOOLEAN, populated : {u.populated},
               reserved : Nat, top : Nat, slots : {u.slots}, hashes : {u.hashes},
               slotsNull : BOOLEAN, size : Nat, count : Nat, empty : Nat]
    <2>1. size \in Nat /\ 0 \in Nat /\ FALSE \in BOOLEAN
      BY <1>1
    <2>2. t \in [items : {t.items}, itemsNull : BOOLEAN, populated : {t.populated},
                 reserved : Nat, top : Nat, slots : {t.slots}, hashes : {t.hashes},
                 slotsNull : BOOLEAN, size : Nat, count : Nat, empty : Nat]
      BY DEF IsTable
    <2> QED
      BY <1>3, <2>1, <2>2
  <1>6. Vacant(u)
    BY <1>2, <1>4, <1>5 DEF Vacant, IsTable
  <1> QED
    BY <1>4, <1>6 DEF IsBlank

\* What resizeTable hands to add, one by one.
LEMMA EntriesEnter ==
  ASSUME NEW t, HashOK(t)
  PROVE  Chosen(t.slots, t.size) = FilledAt(t) /\ Enterable(t.hashes, t.slots, t.size)
  <1>1. \A x \in Below(t.size) : t.slots[x] \in Int /\ (t.slots[x] >= 0 => t.hashes[x] \in HashValue)
    BY DEF HashOK, HashTyped, SlotValue
  <1>2. ASSUME NEW x \in Below(t.size), NEW y \in Below(t.size), t.slots[x] >= 0, t.slots[x] = t.slots[y] PROVE x = y
    <2>1. x \in FilledAt(t) /\ y \in FilledAt(t)
      BY <1>2 DEF FilledAt
    <2> QED
      BY <1>2, <2>1 DEF HashOK, EnteredOnce
  <1>3. Chosen(t.slots, t.size) = FilledAt(t)
    BY DEF Chosen, FilledAt
  <1> QED
    BY <1>1, <1>2, <1>3 DEF Enterable

\* resizeTable enters what it keeps with add, which could find the new table
\* crowded and resize it in turn.  It never does: add only places each entry.
THEOREM ResizingNeverRecurs ==
  ASSUME NEW t, HashOK(t), NEW x \in Below(t.size), t.slots[x] >= 0,
         NEW u, u = Entered(Blank(t, PickSize(4 * t.count)), t.hashes, t.slots, x)
  PROVE  ~Crowded(u) /\ Add(u, t.hashes[x], t.slots[x]) = Place(u, t.hashes[x], t.slots[x])
  <1>0. t.count \in Nat /\ t.size \in Nat /\ IsTable(t) /\ t.count = Cardinality(FilledAt(t))
    BY DEF HashOK, IsTable, Counted
  <1>1. PICK size : size = PickSize(4 * t.count)
    OBVIOUS
  <1>2. SizeOK(size) /\ size >= 4 * t.count
    BY <1>0, <1>1, PickSizeOK
  <1>3. PICK v : v = Blank(t, size)
    OBVIOUS
  <1>4. Vacant(v) /\ v.size = size
    <2>1. IsBlank(v, t, size)
      BY <1>0, <1>2, <1>3, BlankIsVacant
    <2> QED
      BY <2>1 DEF IsBlank
  <1>5. Enterable(t.hashes, t.slots, t.size) /\ Chosen(t.slots, t.size) = FilledAt(t)
    BY EntriesEnter
  <1>6. u = Entered(v, t.hashes, t.slots, x)
    BY <1>1, <1>3
  <1>7. 2 * Cardinality(Chosen(t.slots, t.size)) <= v.size
    <2>1. size \in Nat
      BY <1>2 DEF SizeOK
    <2> QED
      BY <1>0, <1>2, <1>4, <1>5, <2>1
  <1> QED
    BY <1>0, <1>4, <1>5, <1>6, <1>7, EnteringNeverCrowds

\* A resized table has the entries it had, in a table four times their number.
LEMMA ResizedIs ==
  ASSUME NEW t, HashOK(t), SlotsOf(t) \subseteq t.populated, NEW u, u = Resized(t)
  PROVE  /\ HashOK(u) /\ Roomy(u) /\ u.slotsNull = FALSE
         /\ u.items = t.items /\ u.itemsNull = t.itemsNull /\ u.reserved = t.reserved /\ u.top = t.top
         /\ u.populated = t.populated /\ Entries(u) = Entries(t)
         /\ u.count = t.count /\ u.empty = u.size - t.count /\ u.size >= 4 * t.count /\ SizeOK(u.size)
  <1>0. t.count \in Nat /\ t.size \in Nat /\ IsTable(t) /\ t.count = Cardinality(FilledAt(t))
    BY DEF HashOK, IsTable, Counted
  <1>1. PICK size : size = PickSize(4 * t.count)
    OBVIOUS
  <1>2. SizeOK(size) /\ size >= 4 * t.count /\ size \in Nat
    BY <1>0, <1>1, PickSizeOK DEF SizeOK
  <1>3. PICK v : v = Blank(t, size)
    OBVIOUS
  <1>4. /\ Vacant(v) /\ v.size = size /\ v.slotsNull = FALSE
        /\ v.items = t.items /\ v.itemsNull = t.itemsNull /\ v.reserved = t.reserved /\ v.top = t.top
        /\ v.populated = t.populated
    <2>1. IsTable(t) /\ SizeOK(size)
      BY <1>0, <1>2
    <2>2. IsBlank(v, t, size)
      BY <1>3, <2>1, BlankIsVacant
    <2> QED
      BY <2>2 DEF IsBlank
  <1>5. u = Entered(v, t.hashes, t.slots, t.size)
    BY <1>1, <1>3 DEF Resized
  <1>6. Chosen(t.slots, t.size) = FilledAt(t)
    BY EntriesEnter
  <1>7. Enterable(t.hashes, t.slots, t.size)
    BY EntriesEnter
  <1>8. Cardinality(Chosen(t.slots, t.size)) <= v.size
    BY <1>0, <1>2, <1>4, <1>6
  <1>9. HasEntered(u, v, t.hashes, t.slots, t.size)
    BY <1>0, <1>4, <1>5, <1>7, <1>8, EnteredIs
  <1>10. {t.slots[x] : x \in FilledAt(t)} \subseteq t.populated
    BY DEF SlotsOf
  <1>11. u.populated = t.populated
    BY <1>4, <1>6, <1>9, <1>10 DEF HasEntered
  <1>12. Entries(u) = Entries(t)
    BY <1>6, <1>9 DEF HasEntered, Entries, Entry
  <1>13. /\ HashOK(u) /\ u.count = t.count /\ u.empty = size - t.count /\ u.size = size
         /\ u.items = t.items /\ u.itemsNull = t.itemsNull /\ u.reserved = t.reserved /\ u.top = t.top
         /\ u.slotsNull = FALSE
    BY <1>0, <1>4, <1>6, <1>9 DEF HasEntered, SameItems
  <1>14. Roomy(u)
    BY <1>0, <1>2, <1>13 DEF Roomy, SizeOK
  <1> QED
    BY <1>2, <1>11, <1>12, <1>13, <1>14

\* u is t with one more entry; its hash table is in use.
Added(u, t, hash, slot) ==
  /\ HashOK(u) /\ Roomy(u) /\ u.slotsNull = FALSE /\ u.size > 0
  /\ u.items = t.items /\ u.itemsNull = t.itemsNull /\ u.reserved = t.reserved /\ u.top = t.top
  /\ u.populated = t.populated \cup {slot} /\ Entries(u) = Entries(t) \cup {<<hash, slot>>}
  /\ u.count = t.count + 1

LEMMA AddIs ==
  ASSUME NEW t, HashOK(t), SlotsOf(t) \subseteq t.populated, t.slotsNull => t.size = 0,
         NEW hash \in HashValue, NEW slot \in Nat, slot \notin SlotsOf(t), NEW u, u = Add(t, hash, slot)
  PROVE  Added(u, t, hash, slot)
  <1>0. t.count \in Nat /\ t.size \in Nat /\ t.empty \in Nat
    BY DEF HashOK, IsTable
  <1>1. PICK v : v = IF Crowded(t) THEN Resized(t) ELSE t
    OBVIOUS
  <1>2. /\ HashOK(v) /\ v.empty > 1 /\ v.slotsNull = FALSE
        /\ v.items = t.items /\ v.itemsNull = t.itemsNull /\ v.reserved = t.reserved /\ v.top = t.top
        /\ v.populated = t.populated /\ Entries(v) = Entries(t)
        /\ v.count = t.count /\ SizeOK(v.size)
    <2>1. CASE Crowded(t)
      <3>1. /\ HashOK(v) /\ v.slotsNull = FALSE
            /\ v.items = t.items /\ v.itemsNull = t.itemsNull /\ v.reserved = t.reserved /\ v.top = t.top
            /\ v.populated = t.populated /\ Entries(v) = Entries(t)
            /\ v.count = t.count /\ v.empty = v.size - t.count /\ v.size >= 4 * t.count /\ SizeOK(v.size)
        BY <1>1, <2>1, ResizedIs
      <3>2. v.empty > 1
        BY <1>0, <3>1 DEF SizeOK
      <3> QED
        BY <3>1, <3>2
    <2>2. CASE ~Crowded(t)
      <3>1. t.size > 0 /\ t.empty >= (t.size \div 4) + 1
        BY <1>0, <2>2 DEF Crowded
      <3>2. SizeOK(t.size)
        BY <3>1 DEF HashOK, HashTyped
      <3>3. t.empty > 1
        BY <1>0, <3>1, <3>2 DEF SizeOK
      <3>4. t.slotsNull = FALSE
        BY <3>1 DEF HashOK, IsTable
      <3> QED
        BY <1>1, <2>2, <3>2, <3>3, <3>4
    <2> QED
      BY <2>1, <2>2
  <1>3. slot \notin SlotsOf(v)
    BY <1>2, SlotsOfEntries
  <1>4. u = Place(v, hash, slot)
    BY <1>1 DEF Add
  <1>5. v.empty \in Nat /\ v.empty > 0
    BY <1>2 DEF HashOK, IsTable
  <1>6. /\ HashOK(u) /\ SameItems(u, v) /\ u.size = v.size
        /\ u.count = v.count + 1 /\ u.empty >= v.empty - 1
        /\ u.populated = v.populated \cup {slot}
        /\ Entries(u) = Entries(v) \cup {<<hash, slot>>}
    BY <1>2, <1>3, <1>4, <1>5, PlaceIs
  <1>7. u.empty \in Nat
    BY <1>6 DEF HashOK, IsTable
  <1>8. u.empty > 0 /\ u.size > 0
    BY <1>2, <1>5, <1>6, <1>7 DEF SizeOK
  <1> QED
    BY <1>2, <1>6, <1>8 DEF SameItems, Roomy, Added

\* Taking an entry out leaves DELETED at its offset, which no probe stops at.
LEMMA VacateIs ==
  ASSUME NEW t, HashOK(t), NEW at \in FilledAt(t), NEW u, u = Vacate(t, at)
  PROVE  /\ HashOK(u) /\ SameItems(u, t) /\ u.size = t.size /\ u.empty = t.empty
         /\ u.count = t.count - 1 /\ t.count > 0
         /\ u.populated = t.populated \ {t.slots[at]}
         /\ Entries(u) = Entries(t) \ {Entry(t, at)}
  <1> DEFINE S == t.size
  <1>0. t.size \in Nat /\ t.count \in Nat /\ t.empty \in Nat
    BY DEF HashOK, IsTable
  <1>1. PICK sl : sl = [t.slots EXCEPT ![at] = DELETED]
    OBVIOUS
  <1>2. PICK hs : hs = [t.hashes EXCEPT ![at] = EMPTY]
    OBVIOUS
  <1>3. /\ t.slots \in [Below(S) -> SlotValue] /\ t.hashes \in [Below(S) -> {EMPTY} \cup HashValue]
        /\ \A x \in Below(S) : IF t.slots[x] >= 0 THEN t.hashes[x] \in HashValue ELSE t.hashes[x] = EMPTY
        /\ S = 0 \/ SizeOK(S)
    BY DEF HashOK, HashTyped
  <1>4. at \in Below(S) /\ t.slots[at] >= 0 /\ at \notin EmptyAt(t)
    BY DEF FilledAt, EmptyAt, EMPTY
  <1> HIDE DEF S
  <1>5. /\ sl \in [Below(S) -> SlotValue] /\ hs \in [Below(S) -> {EMPTY} \cup HashValue]
        /\ sl[at] = DELETED /\ hs[at] = EMPTY
        /\ \A x \in Below(S) : x # at => sl[x] = t.slots[x] /\ hs[x] = t.hashes[x]
    <2>1. DELETED \in SlotValue
      BY DEF SlotValue, DELETED
    <2> QED
      BY <1>1, <1>2, <1>3, <1>4, <2>1
  <1>6. /\ u.slots = sl /\ u.hashes = hs /\ u.populated = t.populated \ {t.slots[at]}
        /\ u.count = t.count - 1 /\ u.empty = t.empty /\ SameItems(u, t) /\ u.size = t.size
    BY <1>1, <1>2 DEF HashOK, IsTable, Vacate, SameItems, EMPTY
  <1>7. FilledAt(u) = FilledAt(t) \ {at}
    <2>1. \A x \in Below(S) : (x \in FilledAt(u) <=> sl[x] >= 0) /\ (x \in FilledAt(t) <=> t.slots[x] >= 0)
      BY <1>6 DEF FilledAt, S
    <2>2. FilledAt(u) \subseteq Below(S) /\ FilledAt(t) \subseteq Below(S)
      BY <1>6 DEF FilledAt, S
    <2>3. ~(DELETED >= 0)
      BY DEF DELETED
    <2> QED
      BY <1>5, <2>1, <2>2, <2>3
  <1>8. EmptyAt(u) = EmptyAt(t)
    <2>1. \A x \in Below(S) : (x \in EmptyAt(u) <=> sl[x] = EMPTY) /\ (x \in EmptyAt(t) <=> t.slots[x] = EMPTY)
      BY <1>6 DEF EmptyAt, S
    <2>2. EmptyAt(u) \subseteq Below(S) /\ EmptyAt(t) \subseteq Below(S)
      BY <1>6 DEF EmptyAt, S
    <2>3. DELETED # EMPTY
      BY DEF DELETED, EMPTY
    <2> QED
      BY <1>4, <1>5, <2>1, <2>2, <2>3
  <1>9. Counted(u) /\ t.count > 0 /\ u.count \in Nat
    <2>1. IsFiniteSet(FilledAt(t))
      BY <1>0, OffsetsAreFinite
    <2>2. t.count = Cardinality(FilledAt(t)) /\ t.empty = Cardinality(EmptyAt(t))
      BY DEF HashOK, Counted
    <2>3. Cardinality(FilledAt(t) \ {at}) = Cardinality(FilledAt(t)) - 1
      BY <2>1, FS_RemoveElement
    <2>4. Cardinality(FilledAt(t)) # 0
      BY <2>1, FS_EmptySet
    <2> QED
      BY <1>0, <1>6, <1>7, <1>8, <2>2, <2>3, <2>4 DEF Counted
  <1>10. IsTable(u)
    <2>1. u \in [items : {u.items}, itemsNull : BOOLEAN, populated : {u.populated},
         reserved : Nat, top : Nat, slots : {u.slots}, hashes : {u.hashes},
         slotsNull : BOOLEAN, size : Nat, count : Nat, empty : Nat]
      BY <1>6, <1>9 DEF HashOK, IsTable, Vacate
    <2> QED
      BY <2>1 DEF IsTable
  <1>11. HashTyped(u)
    <2>1. \A x \in Below(S) : IF sl[x] >= 0 THEN hs[x] \in HashValue ELSE hs[x] = EMPTY
      BY <1>3, <1>5 DEF DELETED
    <2> QED
      BY <1>3, <1>5, <1>6, <2>1 DEF HashTyped, S
  <1>12. \A x \in FilledAt(u) : x \in FilledAt(t) /\ x \in Below(S) /\ x # at /\ sl[x] = t.slots[x] /\ hs[x] = t.hashes[x]
    <2>1. FilledAt(t) \subseteq Below(S)
      BY DEF FilledAt, S
    <2> QED
      BY <1>5, <1>7, <2>1
  <1>13. EnteredOnce(u)
    BY <1>6, <1>12 DEF HashOK, EnteredOnce
  <1>14. Reachable(u)
    <2> SUFFICES ASSUME NEW x \in FilledAt(u) PROVE Reaches(u, x)
      BY DEF Reachable
    <2>0. SizeOK(S) /\ S \in Nat /\ S > 0
      BY <1>0, <1>3, <1>4 DEF Below, SizeOK, S
    <2>1. t.hashes[x] \in HashValue
      BY <1>3, <1>12 DEF FilledAt
    <2>2. PICK n \in Tries(S) : /\ Probe(S, t.hashes[x])[n] = x
                                /\ \A m \in Below(n) : t.slots[Probe(S, t.hashes[x])[m]] # EMPTY
      BY <1>12 DEF HashOK, Reachable, Reaches, S
    <2>3. ASSUME NEW m \in Below(n) PROVE sl[Probe(S, t.hashes[x])[m]] # EMPTY
      <3>1. m \in Tries(S)
        BY <2>0 DEF Tries, Below
      <3>2. Probe(S, t.hashes[x])[m] \in Below(S)
        BY <2>0, <2>1, <3>1, ProbeIs
      <3>3. DELETED # EMPTY
        BY DEF DELETED, EMPTY
      <3> QED
        BY <1>5, <2>2, <3>2, <3>3
    <2>4. u.hashes[x] = t.hashes[x] /\ u.slots = sl /\ u.size = S
      BY <1>6, <1>12 DEF S
    <2> QED
      BY <2>2, <2>3, <2>4 DEF Reaches
  <1>15. Entries(u) = Entries(t) \ {Entry(t, at)}
    <2>1. \A x \in FilledAt(u) : Entry(u, x) = Entry(t, x)
      BY <1>6, <1>12 DEF Entry
    <2>2. \A x \in FilledAt(t) : x # at => Entry(t, x) # Entry(t, at)
      BY DEF Entry, HashOK, EnteredOnce
    <2>3. Entries(u) = {Entry(t, x) : x \in FilledAt(u)}
      BY <2>1 DEF Entries
    <2> QED
      BY <1>7, <2>2, <2>3 DEF Entries
  <1> QED
    BY <1>6, <1>9, <1>10, <1>11, <1>13, <1>14, <1>15 DEF HashOK

-----------------------------------------------------------------------------
(* The items: a table with its owners.                                     *)

Item == [key : Key \cup {NoKey}, value : Value \cup {NoValue}]

KeyOf(t, p) == t.items[p].key

ItemsOK(t) ==
  /\ t.populated = SlotsOf(t) /\ t.populated \subseteq Below(t.top) /\ t.top <= t.reserved
  /\ (t.itemsNull => t.reserved = 0) /\ (t.slotsNull => t.size = 0)
  /\ t.items \in [Below(t.reserved) -> Item]
  /\ \A s \in Below(t.reserved) : IF s \in t.populated THEN t.items[s].key \in Key /\ t.items[s].value \in Value
                                  ELSE t.items[s] = Raw
  /\ \A p, q \in t.populated : KeyOf(t, p) = KeyOf(t, q) => p = q
  /\ \A e \in Entries(t) : e[1] = Hash[KeyOf(t, e[2])]

TableOK(t) == HashOK(t) /\ Roomy(t) /\ ItemsOK(t)

LEMMA PopulatedIs ==
  ASSUME NEW t, HashOK(t), t.populated = SlotsOf(t)
  PROVE  IsFiniteSet(t.populated) /\ Cardinality(t.populated) = t.count /\ t.count \in Nat
         /\ t.populated \subseteq Nat
  <1> DEFINE f == [x \in FilledAt(t) |-> t.slots[x]]
  <1>0. t.count \in Nat /\ t.size \in Nat /\ t.count = Cardinality(FilledAt(t))
    BY DEF HashOK, IsTable, Counted
  <1>1. f \in [FilledAt(t) -> t.populated]
    BY DEF SlotsOf
  <1>2. \A x, y \in FilledAt(t) : f[x] = f[y] => x = y
    BY DEF HashOK, EnteredOnce
  <1>3. \A p \in t.populated : \E x \in FilledAt(t) : f[x] = p
    BY DEF SlotsOf
  <1> HIDE DEF f
  <1>4. f \in Injection(FilledAt(t), t.populated)
    BY <1>1, <1>2, Zenon DEF Injection, IsInjective
  <1>5. f \in Surjection(FilledAt(t), t.populated)
    BY <1>1, <1>3, Zenon DEF Surjection
  <1>6. ExistsBijection(FilledAt(t), t.populated)
    BY <1>4, <1>5, Zenon DEF ExistsBijection, Bijection
  <1>7. IsFiniteSet(FilledAt(t))
    BY <1>0, OffsetsAreFinite
  <1>8. IsFiniteSet(t.populated) /\ Cardinality(t.populated) = t.count
    BY <1>0, <1>6, <1>7, FS_Bijection
  <1>9. t.populated \subseteq Nat
    BY DEF SlotsOf, FilledAt, HashOK, HashTyped, SlotValue
  <1> QED
    BY <1>0, <1>8, <1>9

-----------------------------------------------------------------------------
(* The rank of an item slot.                                               *)

FiniteItems(t) == IsFiniteSet(t.populated) /\ t.populated \subseteq Nat

LEMMA RankType ==
  ASSUME NEW t, FiniteItems(t), NEW p
  PROVE  Rank(t, p) \in Nat /\ Rank(t, p) <= Cardinality(t.populated) /\ Cardinality(t.populated) \in Nat
  <1>1. {q \in t.populated : q < p} \in SUBSET t.populated
    OBVIOUS
  <1>2. /\ IsFiniteSet({q \in t.populated : q < p})
        /\ Cardinality({q \in t.populated : q < p}) <= Cardinality(t.populated)
    BY <1>1, FS_Subset DEF FiniteItems
  <1> QED
    BY <1>2, FS_CardinalityType DEF FiniteItems, Rank

LEMMA RankGrows ==
  ASSUME NEW t, FiniteItems(t), NEW p \in t.populated, NEW q \in Nat, p < q
  PROVE  Rank(t, p) < Rank(t, q)
  <1> DEFINE A == {x \in t.populated : x < p}
             B == {x \in t.populated : x < q}
  <1>1. t.populated \subseteq Nat
    BY DEF FiniteItems
  <1>2. A \cup {p} \in SUBSET B /\ p \notin A
    BY <1>1
  <1>3. IsFiniteSet(A) /\ IsFiniteSet(B)
    <2>1. A \in SUBSET t.populated /\ B \in SUBSET t.populated
      OBVIOUS
    <2> QED
      BY <2>1, FS_Subset DEF FiniteItems
  <1> HIDE DEF A, B
  <1>4. Cardinality(A \cup {p}) = Cardinality(A) + 1
    BY <1>2, <1>3, FS_AddElement
  <1>5. Cardinality(A \cup {p}) <= Cardinality(B)
    BY <1>2, <1>3, FS_Subset
  <1>6. Cardinality(A) \in Nat /\ Cardinality(B) \in Nat
    BY <1>3, FS_CardinalityType
  <1>7. Cardinality(A) < Cardinality(B)
    BY <1>4, <1>5, <1>6
  <1> QED
    BY <1>7 DEF Rank, A, B

LEMMA RankBounds ==
  ASSUME NEW t, FiniteItems(t), NEW p \in t.populated
  PROVE  Rank(t, p) \in Below(Cardinality(t.populated))
  <1>1. PICK S : S = {q \in t.populated : q < p}
    OBVIOUS
  <1>2. S \in SUBSET t.populated /\ S # t.populated
    BY <1>1 DEF FiniteItems
  <1>3. Cardinality(S) <= Cardinality(t.populated) /\ Cardinality(S) # Cardinality(t.populated)
    BY <1>2, FS_Subset DEF FiniteItems
  <1>4. Rank(t, p) = Cardinality(S)
    BY <1>1 DEF Rank
  <1>5. Rank(t, p) \in Nat /\ Cardinality(t.populated) \in Nat
    BY RankType
  <1> QED
    BY <1>3, <1>4, <1>5 DEF Below

LEMMA RankApart ==
  ASSUME NEW t, FiniteItems(t), NEW p \in t.populated, NEW q \in t.populated, Rank(t, p) = Rank(t, q)
  PROVE  p = q
  <1>1. p \in Nat /\ q \in Nat /\ Rank(t, p) \in Nat /\ Rank(t, q) \in Nat
    BY RankType DEF FiniteItems
  <1>2. p < q => Rank(t, p) < Rank(t, q)
    BY <1>1, RankGrows
  <1>3. q < p => Rank(t, q) < Rank(t, p)
    BY <1>1, RankGrows
  <1> QED
    BY <1>1, <1>2, <1>3

LEMMA RankReaches ==
  ASSUME NEW t, FiniteItems(t), NEW j \in Below(Cardinality(t.populated))
  PROVE  \E p \in t.populated : Rank(t, p) = j
  <1> DEFINE N == Below(Cardinality(t.populated))
             f == [p \in t.populated |-> Rank(t, p)]
  <1>1. Cardinality(t.populated) \in Nat
    BY FS_CardinalityType DEF FiniteItems
  <1>2. IsFiniteSet(N) /\ Cardinality(N) = Cardinality(t.populated)
    BY <1>1, BelowIsFinite
  <1>3. f \in [t.populated -> N]
    BY RankBounds
  <1>4. \A p, q \in t.populated : f[p] = f[q] => p = q
    BY RankApart
  <1> HIDE DEF f, N
  <1>5. f \in Injection(t.populated, N)
    BY <1>3, <1>4, Zenon DEF Injection, IsInjective
  <1>6. f \in Surjection(t.populated, N)
    BY <1>2, <1>5, FS_Injection
  <1>7. PICK p \in t.populated : f[p] = j
    BY <1>6 DEF Surjection, N
  <1> QED
    BY <1>7 DEF f

\* The ranks of the slots from 0 are the slots.
LEMMA RankPacked ==
  ASSUME NEW t, NEW n \in Nat, t.populated = Below(n)
  PROVE  FiniteItems(t) /\ Cardinality(t.populated) = n /\ \A j \in Below(n) : Rank(t, j) = j
  <1>1. FiniteItems(t) /\ Cardinality(t.populated) = n
    BY BelowIsFinite DEF FiniteItems, Below
  <1>2. ASSUME NEW j \in Below(n) PROVE Rank(t, j) = j
    <2>1. {q \in t.populated : q < j} = Below(j) /\ j \in Nat
      BY DEF Below
    <2> QED
      BY <2>1, BelowIsFinite DEF Rank
  <1> QED
    BY <1>1, <1>2

Nth(t, j) == CHOOSE p \in t.populated : Rank(t, p) = j

LEMMA NthIs ==
  ASSUME NEW t, FiniteItems(t), NEW j \in Below(Cardinality(t.populated))
  PROVE  Nth(t, j) \in t.populated /\ Rank(t, Nth(t, j)) = j
  BY RankReaches DEF Nth

LEMMA NthOfRank ==
  ASSUME NEW t, FiniteItems(t), NEW p \in t.populated
  PROVE  Nth(t, Rank(t, p)) = p
  <1>1. PICK q : q = Nth(t, Rank(t, p))
    OBVIOUS
  <1>2. q \in t.populated /\ Rank(t, q) = Rank(t, p)
    BY <1>1, RankBounds, NthIs
  <1> QED
    BY <1>1, <1>2, RankApart

-----------------------------------------------------------------------------
(* What a table shows, of a dict and of the order of its keys.             *)

SameContents(u, t) ==
  /\ Cardinality(u.populated) = Cardinality(t.populated)
  /\ \A q \in u.populated : \E p \in t.populated : Rank(t, p) = Rank(u, q) /\ t.items[p] = u.items[q]
  /\ \A p \in t.populated : \E q \in u.populated : Rank(t, p) = Rank(u, q) /\ t.items[p] = u.items[q]

LEMMA ContentsStay ==
  ASSUME NEW t, NEW u, u.populated = t.populated, \A p \in t.populated : u.items[p] = t.items[p]
  PROVE  SameContents(u, t)
  BY DEF SameContents, Rank

LEMMA SameTwice ==
  ASSUME NEW t, NEW u, NEW v, SameContents(u, t), SameContents(v, u)
  PROVE  SameContents(v, t)
  <1>1. ASSUME NEW q \in v.populated
        PROVE  \E p \in t.populated : Rank(t, p) = Rank(v, q) /\ t.items[p] = v.items[q]
    <2>1. PICK x \in u.populated : Rank(u, x) = Rank(v, q) /\ u.items[x] = v.items[q]
      BY DEF SameContents
    <2>2. PICK p \in t.populated : Rank(t, p) = Rank(u, x) /\ t.items[p] = u.items[x]
      BY DEF SameContents
    <2> QED
      BY <2>1, <2>2
  <1>2. ASSUME NEW p \in t.populated
        PROVE  \E q \in v.populated : Rank(t, p) = Rank(v, q) /\ t.items[p] = v.items[q]
    <2>1. PICK x \in u.populated : Rank(t, p) = Rank(u, x) /\ t.items[p] = u.items[x]
      BY DEF SameContents
    <2>2. PICK q \in v.populated : Rank(u, x) = Rank(v, q) /\ u.items[x] = v.items[q]
      BY DEF SameContents
    <2> QED
      BY <2>1, <2>2
  <1> QED
    BY <1>1, <1>2 DEF SameContents

Shows(t, d, o) ==
  /\ DOMAIN d = {KeyOf(t, p) : p \in t.populated} /\ d = [k \in DOMAIN d |-> d[k]]
  /\ \A p \in t.populated : d[KeyOf(t, p)] = t.items[p].value
  /\ o \in Seq(Key) /\ Len(o) = Cardinality(t.populated)
  /\ \A p \in t.populated : o[Rank(t, p) + 1] = KeyOf(t, p)

LEMMA SameShown ==
  ASSUME NEW t, NEW u, SameContents(u, t), NEW d, NEW o, Shows(t, d, o)
  PROVE  Shows(u, d, o)
  <1>1. {KeyOf(u, p) : p \in u.populated} = {KeyOf(t, p) : p \in t.populated}
    <2>1. \A p \in t.populated : \E q \in u.populated : KeyOf(t, p) = KeyOf(u, q)
      BY DEF SameContents, KeyOf
    <2>2. \A q \in u.populated : \E p \in t.populated : KeyOf(t, p) = KeyOf(u, q)
      BY DEF SameContents, KeyOf
    <2> QED
      BY <2>1, <2>2
  <1>2. ASSUME NEW q \in u.populated
        PROVE  d[KeyOf(u, q)] = u.items[q].value /\ o[Rank(u, q) + 1] = KeyOf(u, q)
    <2>1. PICK p \in t.populated : Rank(t, p) = Rank(u, q) /\ t.items[p] = u.items[q]
      BY DEF SameContents
    <2>2. d[KeyOf(t, p)] = t.items[p].value /\ o[Rank(t, p) + 1] = KeyOf(t, p)
      BY DEF Shows
    <2> QED
      BY <2>1, <2>2 DEF KeyOf
  <1> QED
    BY <1>1, <1>2 DEF Shows, SameContents

-----------------------------------------------------------------------------
(* Compression.                                                            *)

\* The hash side: each slot becomes its rank.
LEMMA RenumberedIs ==
  ASSUME NEW t, HashOK(t), NEW u, IsTable(u),
         u.size = t.size, u.count = t.count, u.empty = t.empty, u.hashes = t.hashes,
         NEW g, \A p \in SlotsOf(t) : g[p] \in Nat, \A p, q \in SlotsOf(t) : g[p] = g[q] => p = q,
         u.slots = [x \in Below(t.size) |-> IF t.slots[x] >= 0 THEN g[t.slots[x]] ELSE t.slots[x]]
  PROVE  HashOK(u) /\ Entries(u) = {<<e[1], g[e[2]]>> : e \in Entries(t)} /\ FilledAt(u) = FilledAt(t)
  <1>1. /\ t.slots \in [Below(t.size) -> SlotValue] /\ t.hashes \in [Below(t.size) -> {EMPTY} \cup HashValue]
        /\ \A x \in Below(t.size) : IF t.slots[x] >= 0 THEN t.hashes[x] \in HashValue ELSE t.hashes[x] = EMPTY
        /\ t.size = 0 \/ SizeOK(t.size)
    BY DEF HashOK, HashTyped
  <1>2. \A x \in Below(t.size) : t.slots[x] >= 0 => x \in FilledAt(t) /\ t.slots[x] \in SlotsOf(t) /\ g[t.slots[x]] \in Nat
    BY DEF FilledAt, SlotsOf
  <1>3. ASSUME NEW x \in Below(t.size)
        PROVE  /\ u.slots[x] \in SlotValue /\ (u.slots[x] >= 0 <=> t.slots[x] >= 0)
               /\ (u.slots[x] = EMPTY <=> t.slots[x] = EMPTY)
               /\ (t.slots[x] >= 0 => u.slots[x] = g[t.slots[x]])
    <2>1. CASE t.slots[x] >= 0
      <3>1. u.slots[x] = g[t.slots[x]] /\ g[t.slots[x]] \in Nat
        BY <1>2, <2>1
      <3> QED
        BY <2>1, <3>1 DEF SlotValue, EMPTY, DELETED
    <2>2. CASE ~(t.slots[x] >= 0)
      <3>1. u.slots[x] = t.slots[x]
        BY <2>2
      <3> QED
        BY <1>1, <2>2, <3>1
    <2> QED
      BY <2>1, <2>2
  <1>4. FilledAt(u) = FilledAt(t) /\ EmptyAt(u) = EmptyAt(t)
    BY <1>3 DEF FilledAt, EmptyAt
  <1>5. Counted(u)
    BY <1>4 DEF HashOK, Counted
  <1>6. HashTyped(u)
    <2>1. u.slots \in [Below(t.size) -> SlotValue]
      BY <1>3
    <2> QED
      BY <1>1, <1>3, <2>1 DEF HashTyped
  <1>7. \A x \in FilledAt(t) : x \in Below(t.size) /\ t.slots[x] \in SlotsOf(t) /\ u.slots[x] = g[t.slots[x]]
    BY <1>3 DEF FilledAt, SlotsOf
  <1>8. EnteredOnce(u)
    BY <1>4, <1>7 DEF HashOK, EnteredOnce
  <1>9. Reachable(u)
    <2> SUFFICES ASSUME NEW x \in FilledAt(u) PROVE Reaches(u, x)
      BY DEF Reachable
    <2>0. x \in FilledAt(t) /\ x \in Below(t.size) /\ t.hashes[x] \in HashValue /\ t.size \in Nat /\ t.size > 0
      <3>1. x \in Below(t.size) /\ t.size \in Nat
        BY <1>4, <1>7 DEF HashOK, IsTable
      <3>2. t.size > 0
        BY <3>1 DEF Below
      <3>3. t.slots[x] >= 0
        BY <1>4 DEF FilledAt
      <3> QED
        BY <1>1, <1>4, <3>1, <3>2, <3>3
    <2>2. PICK n \in Tries(t.size) : /\ Probe(t.size, t.hashes[x])[n] = x
                                     /\ \A m \in Below(n) : t.slots[Probe(t.size, t.hashes[x])[m]] # EMPTY
      BY <2>0 DEF HashOK, Reachable, Reaches
    <2>3. ASSUME NEW m \in Below(n) PROVE u.slots[Probe(t.size, t.hashes[x])[m]] # EMPTY
      <3>1. m \in Tries(t.size)
        BY <2>0 DEF Tries, Below
      <3>2. Probe(t.size, t.hashes[x])[m] \in Below(t.size)
        BY <2>0, <3>1, ProbeIs
      <3> QED
        BY <1>3, <2>2, <3>2
    <2> QED
      BY <2>2, <2>3 DEF Reaches
  <1>10. Entries(u) = {<<e[1], g[e[2]]>> : e \in Entries(t)}
    <2>1. \A x \in FilledAt(t) : Entry(u, x) = <<Entry(t, x)[1], g[Entry(t, x)[2]]>>
      BY <1>7 DEF Entry
    <2> QED
      BY <1>4, <2>1 DEF Entries
  <1> QED
    BY <1>4, <1>5, <1>6, <1>8, <1>9, <1>10 DEF HashOK

\* The items in the order of their slots, from slot 0.
Packs(u, t) ==
  /\ u.populated = Below(t.count)
  /\ u.items = [j \in Below(t.count) |-> t.items[Nth(t, j)]]

LEMMA TableHasItems ==
  ASSUME NEW t, TableOK(t)
  PROVE  FiniteItems(t) /\ Cardinality(t.populated) = t.count /\ t.count \in Nat
  BY PopulatedIs DEF TableOK, ItemsOK, FiniteItems

LEMMA LiveItem ==
  ASSUME NEW t, TableOK(t), NEW p \in t.populated
  PROVE  /\ p \in Below(t.reserved) /\ p \in Below(t.top) /\ p \in Nat
         /\ t.items[p] \in Item /\ t.items[p].key \in Key /\ t.items[p].value \in Value
  <1>1. t.top \in Nat /\ t.reserved \in Nat
    BY DEF TableOK, HashOK, IsTable
  <1>2. p \in Below(t.top) /\ t.top <= t.reserved
    BY DEF TableOK, ItemsOK
  <1>3. p \in Below(t.reserved) /\ p \in Nat
    BY <1>1, <1>2 DEF Below
  <1> QED
    BY <1>2, <1>3 DEF TableOK, ItemsOK

LEMMA PacksKeeps ==
  ASSUME NEW t, TableOK(t), NEW u, Packs(u, t)
  PROVE  /\ SameContents(u, t)
         /\ u.items \in [Below(t.count) -> Item]
         /\ \A j \in Below(t.count) : u.items[j].key \in Key /\ u.items[j].value \in Value
         /\ \A p, q \in u.populated : KeyOf(u, p) = KeyOf(u, q) => p = q
         /\ \A p \in t.populated : Rank(t, p) \in Below(t.count) /\ u.items[Rank(t, p)] = t.items[p]
  <1>1. FiniteItems(t) /\ Cardinality(t.populated) = t.count /\ t.count \in Nat
    BY TableHasItems
  <1>2. \A j \in Below(t.count) : u.items[j] = t.items[Nth(t, j)] /\ Nth(t, j) \in t.populated /\ Rank(t, Nth(t, j)) = j
    BY <1>1, NthIs DEF Packs
  <1>3. \A p \in t.populated : Rank(t, p) \in Below(t.count) /\ u.items[Rank(t, p)] = t.items[p]
    <2> SUFFICES ASSUME NEW p \in t.populated PROVE Rank(t, p) \in Below(t.count) /\ u.items[Rank(t, p)] = t.items[p]
      OBVIOUS
    <2>1. Rank(t, p) \in Below(t.count) /\ Nth(t, Rank(t, p)) = p
      BY <1>1, RankBounds, NthOfRank
    <2>2. u.items[Rank(t, p)] = t.items[Nth(t, Rank(t, p))]
      BY <1>2, <2>1
    <2> QED
      BY <2>1, <2>2
  <1>4. \A j \in Below(t.count) : Rank(u, j) = j /\ Cardinality(u.populated) = t.count
    BY <1>1, RankPacked DEF Packs
  <1>5. Cardinality(u.populated) = t.count
    BY <1>1, RankPacked DEF Packs
  <1>6. SameContents(u, t)
    <2>1. ASSUME NEW q \in u.populated
          PROVE  \E p \in t.populated : Rank(t, p) = Rank(u, q) /\ t.items[p] = u.items[q]
      <3>1. q \in Below(t.count)
        BY DEF Packs
      <3> QED
        BY <1>2, <1>4, <3>1
    <2>2. ASSUME NEW p \in t.populated
          PROVE  \E q \in u.populated : Rank(t, p) = Rank(u, q) /\ t.items[p] = u.items[q]
      <3>1. Rank(t, p) \in u.populated
        BY <1>3 DEF Packs
      <3> QED
        BY <1>3, <1>4, <3>1
    <2> QED
      BY <1>1, <1>5, <2>1, <2>2 DEF SameContents
  <1>7. \A j \in Below(t.count) : u.items[j] \in Item /\ u.items[j].key \in Key /\ u.items[j].value \in Value
    <2> SUFFICES ASSUME NEW j \in Below(t.count)
                 PROVE  u.items[j] \in Item /\ u.items[j].key \in Key /\ u.items[j].value \in Value
      OBVIOUS
    <2>1. PICK p \in t.populated : u.items[j] = t.items[p]
      BY <1>2
    <2> QED
      BY <2>1, LiveItem
  <1>8. u.items \in [Below(t.count) -> Item]
    BY <1>7 DEF Packs
  <1>9. ASSUME NEW p \in u.populated, NEW q \in u.populated, KeyOf(u, p) = KeyOf(u, q) PROVE p = q
    <2>1. p \in Below(t.count) /\ q \in Below(t.count)
      BY DEF Packs
    <2>2. KeyOf(t, Nth(t, p)) = KeyOf(t, Nth(t, q)) /\ Nth(t, p) \in t.populated /\ Nth(t, q) \in t.populated
      BY <1>2, <1>9, <2>1 DEF KeyOf
    <2>3. Nth(t, p) = Nth(t, q)
      BY <2>2 DEF TableOK, ItemsOK
    <2> QED
      BY <1>2, <2>1, <2>3
  <1> QED
    BY <1>3, <1>6, <1>7, <1>8, <1>9

LEMMA CompressedIs ==
  ASSUME NEW t, TableOK(t), NEW u, u = Compressed(t)
  PROVE  /\ TableOK(u) /\ SameContents(u, t)
         /\ u.count = t.count /\ u.reserved = t.count /\ u.top = t.count
         /\ u.size = t.size /\ u.slotsNull = t.slotsNull
  <1> DEFINE n == t.count
             g == [p \in t.populated |-> Rank(t, p)]
  <1>1. FiniteItems(t) /\ Cardinality(t.populated) = n /\ n \in Nat
    BY TableHasItems
  <1>2. HashOK(t) /\ IsTable(t) /\ ItemsOK(t) /\ Roomy(t) /\ t.populated = SlotsOf(t)
    BY DEF TableOK, HashOK, ItemsOK
  <1> HIDE DEF n
  <1>3. PICK its : its = [j \in Below(n) |-> t.items[Nth(t, j)]]
    OBVIOUS
  <1>4. PICK sl : sl = [x \in Below(t.size) |-> IF t.slots[x] >= 0 THEN g[t.slots[x]] ELSE t.slots[x]]
    OBVIOUS
  <1>5. sl = [x \in Below(t.size) |-> IF t.slots[x] >= 0 THEN Rank(t, t.slots[x]) ELSE t.slots[x]]
    <2>1. \A x \in Below(t.size) : t.slots[x] >= 0 => t.slots[x] \in t.populated
      BY <1>2 DEF SlotsOf, FilledAt
    <2> QED
      BY <1>4, <2>1
  <1>6. u = [t EXCEPT !.items = its, !.itemsNull = n = 0, !.populated = Below(n),
                      !.reserved = n, !.top = n, !.slots = sl]
    BY <1>1, <1>3, <1>5 DEF Compressed, Nth
  <1>7. /\ u.items = its /\ u.populated = Below(n) /\ u.reserved = n /\ u.top = n /\ u.slots = sl
        /\ u.size = t.size /\ u.count = t.count /\ u.empty = t.empty /\ u.hashes = t.hashes
        /\ u.slotsNull = t.slotsNull
    BY <1>2, <1>6 DEF IsTable
  <1>8. u.itemsNull => n = 0
    BY <1>2, <1>6 DEF IsTable
  <1>9. IsTable(u)
    <2>1. PICK b \in BOOLEAN : b = (n = 0)
      OBVIOUS
    <2>2. u = [t EXCEPT !.items = its, !.itemsNull = b, !.populated = Below(n),
                        !.reserved = n, !.top = n, !.slots = sl]
      BY <1>6, <2>1
    <2>3. t \in [items : {t.items}, itemsNull : BOOLEAN, populated : {t.populated},
                 reserved : Nat, top : Nat, slots : {t.slots}, hashes : {t.hashes},
                 slotsNull : BOOLEAN, size : Nat, count : Nat, empty : Nat]
      BY <1>2 DEF IsTable
    <2>4. u \in [items : {u.items}, itemsNull : BOOLEAN, populated : {u.populated},
                 reserved : Nat, top : Nat, slots : {u.slots}, hashes : {u.hashes},
                 slotsNull : BOOLEAN, size : Nat, count : Nat, empty : Nat]
      BY <1>1, <2>2, <2>3
    <2> QED
      BY <2>4 DEF IsTable
  <1>10. Packs(u, t)
    BY <1>3, <1>7 DEF Packs, n
  <1>11. /\ SameContents(u, t)
         /\ u.items \in [Below(n) -> Item]
         /\ \A j \in Below(n) : u.items[j].key \in Key /\ u.items[j].value \in Value
         /\ \A p, q \in u.populated : KeyOf(u, p) = KeyOf(u, q) => p = q
         /\ \A p \in t.populated : Rank(t, p) \in Below(n) /\ u.items[Rank(t, p)] = t.items[p]
    BY <1>10, PacksKeeps DEF n
  <1>12. \A p \in SlotsOf(t) : g[p] \in Nat
    BY <1>1, <1>2, RankType
  <1>13. \A p, q \in SlotsOf(t) : g[p] = g[q] => p = q
    BY <1>1, <1>2, RankApart
  <1>14. \A p \in t.populated : g[p] = Rank(t, p)
    OBVIOUS
  <1> HIDE DEF g
  <1>15. HashOK(u) /\ Entries(u) = {<<e[1], g[e[2]]>> : e \in Entries(t)} /\ FilledAt(u) = FilledAt(t)
    BY <1>2, <1>4, <1>7, <1>9, <1>12, <1>13, RenumberedIs
  <1>16. \A e \in Entries(t) : e[2] \in t.populated /\ e[1] = Hash[KeyOf(t, e[2])]
    BY <1>2, SlotsOfEntries DEF ItemsOK
  <1>17. \A e \in Entries(u) : e[1] = Hash[KeyOf(u, e[2])]
    <2> SUFFICES ASSUME NEW e \in Entries(t), NEW w, w = <<e[1], g[e[2]]>> PROVE w[1] = Hash[KeyOf(u, w[2])]
      BY <1>15
    <2>1. w[1] = e[1] /\ w[2] = Rank(t, e[2])
      BY <1>14, <1>16
    <2>2. u.items[w[2]] = t.items[e[2]]
      BY <1>11, <1>16, <2>1
    <2> QED
      BY <1>16, <2>1, <2>2 DEF KeyOf
  <1>18. u.populated = SlotsOf(u)
    <2>1. SlotsOf(u) = {g[p] : p \in t.populated}
      <3>1. \A x \in FilledAt(t) : u.slots[x] = g[t.slots[x]]
        BY <1>4, <1>7 DEF FilledAt
      <3>2. SlotsOf(u) = {g[t.slots[x]] : x \in FilledAt(t)}
        BY <1>15, <3>1 DEF SlotsOf
      <3> QED
        BY <1>2, <3>2 DEF SlotsOf
    <2>2. \A j \in Below(n) : \E p \in t.populated : g[p] = j
      BY <1>1, <1>14, RankReaches
    <2>3. \A p \in t.populated : g[p] \in Below(n)
      BY <1>11, <1>14
    <2> QED
      BY <1>7, <2>1, <2>2, <2>3
  <1>19. ItemsOK(u)
    <2>1. u.populated \subseteq Below(u.top) /\ u.top <= u.reserved
      BY <1>1, <1>7
    <2>2. (u.itemsNull => u.reserved = 0) /\ (u.slotsNull => u.size = 0)
      BY <1>2, <1>7, <1>8 DEF ItemsOK
    <2>3. \A s \in Below(u.reserved) : IF s \in u.populated THEN u.items[s].key \in Key /\ u.items[s].value \in Value
                                       ELSE u.items[s] = Raw
      BY <1>7, <1>11
    <2>4. u.items \in [Below(u.reserved) -> Item]
      BY <1>7, <1>11
    <2> QED
      BY <1>11, <1>17, <1>18, <2>1, <2>2, <2>3, <2>4 DEF ItemsOK
  <1>20. Roomy(u)
    BY <1>2, <1>7 DEF Roomy
  <1> QED
    BY <1>7, <1>11, <1>15, <1>19, <1>20 DEF TableOK, n

\* A resized table shows what it did.
LEMMA ResizeKeeps ==
  ASSUME NEW t, TableOK(t), NEW u, u = Resized(t)
  PROVE  /\ TableOK(u) /\ SameContents(u, t) /\ u.count = t.count /\ u.slotsNull = FALSE /\ u.size > 0
         /\ u.reserved = t.reserved /\ u.top = t.top
  <1>1. HashOK(t) /\ ItemsOK(t) /\ t.populated = SlotsOf(t)
    BY DEF TableOK, ItemsOK
  <1>2. /\ HashOK(u) /\ Roomy(u) /\ u.slotsNull = FALSE
        /\ u.items = t.items /\ u.itemsNull = t.itemsNull /\ u.reserved = t.reserved /\ u.top = t.top
        /\ u.populated = t.populated /\ Entries(u) = Entries(t)
        /\ u.count = t.count /\ SizeOK(u.size)
    BY <1>1, ResizedIs
  <1>3. SlotsOf(u) = SlotsOf(t)
    BY <1>2, SlotsOfEntries
  <1>4. ItemsOK(u)
    <2>1. \A p : KeyOf(u, p) = KeyOf(t, p)
      BY <1>2 DEF KeyOf
    <2> QED
      BY <1>1, <1>2, <1>3, <2>1 DEF ItemsOK
  <1>5. SameContents(u, t)
    BY <1>2, ContentsStay
  <1>6. u.size > 0
    BY <1>2 DEF SizeOK
  <1> QED
    BY <1>2, <1>4, <1>5, <1>6 DEF TableOK

LEMMA TrimmedIs ==
  ASSUME NEW t, TableOK(t), NEW u, u = Trimmed(t)
  PROVE  /\ TableOK(u) /\ SameContents(u, t) /\ u.count = t.count /\ (t.slotsNull = FALSE => u.slotsNull = FALSE)
         /\ (t.size > 0 => u.size > 0)
         /\ u.reserved <= 4 * (t.count + 2) /\ u.top <= u.reserved
         /\ (u.reserved = t.reserved /\ u.top = t.top) \/ (u.reserved = t.count /\ u.top = t.count)
  <1>0. t.count \in Nat /\ t.reserved \in Nat
    BY DEF TableOK, HashOK, IsTable
  <1>1. PICK v : v = IF Sparse(t) THEN Compressed(t) ELSE t
    OBVIOUS
  <1>2. /\ TableOK(v) /\ SameContents(v, t) /\ v.count = t.count /\ v.slotsNull = t.slotsNull /\ v.size = t.size
        /\ v.reserved <= 4 * (t.count + 2)
        /\ (v.reserved = t.reserved /\ v.top = t.top) \/ (v.reserved = t.count /\ v.top = t.count)
    <2>1. CASE Sparse(t)
      <3>1. /\ TableOK(v) /\ SameContents(v, t)
            /\ v.count = t.count /\ v.reserved = t.count /\ v.top = t.count
            /\ v.size = t.size /\ v.slotsNull = t.slotsNull
        BY <1>1, <2>1, CompressedIs
      <3> QED
        BY <1>0, <3>1
    <2>2. CASE ~Sparse(t)
      <3>1. SameContents(t, t)
        BY ContentsStay
      <3>2. v = t
        BY <1>1, <2>2
      <3>3. t.reserved <= 4 * (t.count + 2)
        BY <1>0, <2>2 DEF Sparse
      <3> QED
        BY <3>1, <3>2, <3>3
    <2> QED
      BY <2>1, <2>2
  <1>3. u = IF Outgrown(v) THEN Resized(v) ELSE v
    BY <1>1 DEF Trimmed
  <1>4. v.top <= v.reserved
    BY <1>2 DEF TableOK, ItemsOK
  <1>5. CASE Outgrown(v)
    <2>1. /\ TableOK(u) /\ SameContents(u, v) /\ u.count = v.count /\ u.slotsNull = FALSE /\ u.size > 0
          /\ u.reserved = v.reserved /\ u.top = v.top
      BY <1>2, <1>3, <1>5, ResizeKeeps
    <2>2. SameContents(u, t)
      BY <1>2, <2>1, SameTwice
    <2> QED
      BY <1>2, <1>4, <2>1, <2>2
  <1>6. CASE ~Outgrown(v)
    BY <1>2, <1>3, <1>4, <1>6
  <1> QED
    BY <1>5, <1>6

-----------------------------------------------------------------------------
(* Looking a key up.                                                       *)

\* A probe for entries of one hash stops at one of them, or at an EMPTY.
LEMMA StopSettles ==
  ASSUME NEW t, HashOK(t), Roomy(t), NEW hash \in HashValue,
         NEW goal \in SUBSET FilledAt(t), \A x \in goal : t.hashes[x] = hash,
         NEW at, at = Stop(t, hash, EmptyAt(t) \cup goal)
  PROVE  IF t.size = 0 THEN at = Lost ELSE IF goal # {} THEN at \in goal ELSE at \in EmptyAt(t)
  <1>0. t.size \in Nat /\ t.empty = Cardinality(EmptyAt(t))
    BY DEF HashOK, IsTable, Counted
  <1>1. CASE t.size = 0
    BY <1>1 DEF Stop
  <1>2. CASE t.size # 0
    <2>1. SizeOK(t.size)
      BY <1>2 DEF HashOK, HashTyped
    <2>2. EmptyAt(t) # {}
      BY <1>0, <1>2, FS_EmptySet DEF Roomy
    <2>3. EmptyAt(t) \cup goal \in SUBSET Below(t.size)
      BY DEF EmptyAt, FilledAt
    <2> DEFINE path == Probe(t.size, hash)
    <2>4. PICK n \in Tries(t.size) :
             /\ at = path[n] /\ path[n] \in EmptyAt(t) \cup goal
             /\ \A m \in Below(n) : path[m] \notin EmptyAt(t) \cup goal
      BY <2>1, <2>2, <2>3, StopFinds
    <2>5. ASSUME NEW x \in goal PROVE at \in goal
      <3>1. x \in FilledAt(t) /\ t.hashes[x] = hash
        OBVIOUS
      <3>2. PICK n2 \in Tries(t.size) : path[n2] = x /\ \A m \in Below(n2) : t.slots[path[m]] # EMPTY
        BY <3>1 DEF HashOK, Reachable, Reaches
      <3> HIDE DEF path
      <3>3. n \in Nat /\ n2 \in Nat
        BY <1>0 DEF Tries
      <3>4. ASSUME path[n] \in EmptyAt(t) PROVE FALSE
        <4>1. t.slots[path[n]] = EMPTY
          BY <3>4 DEF EmptyAt
        <4>2. ~(n < n2)
          BY <3>2, <3>3, <4>1 DEF Below
        <4>3. ~(n2 < n)
          BY <2>4, <3>2, <3>3 DEF Below
        <4>4. t.slots[x] >= 0
          BY <3>1 DEF FilledAt
        <4> QED
          BY <3>2, <3>3, <4>1, <4>2, <4>3, <4>4 DEF EMPTY
      <3> QED
        BY <2>4, <3>4
    <2>6. ASSUME goal = {} PROVE at \in EmptyAt(t)
      BY <2>4, <2>6
    <2> QED
      BY <1>2, <2>5, <2>6
  <1> QED
    BY <1>1, <1>2

HasKey(t, k) == \E p \in t.populated : KeyOf(t, p) = k

\* The offsets of a key have its hash, so comparing the hash first loses none.
LEMMA KeyAtIs ==
  ASSUME NEW t, TableOK(t), NEW k \in Key
  PROVE  /\ MatchAt(t, k) = KeyAt(t, k) /\ KeyAt(t, k) \in SUBSET FilledAt(t)
         /\ \A x \in KeyAt(t, k) : /\ t.hashes[x] = Hash[k]
                                   /\ t.slots[x] \in t.populated /\ KeyOf(t, t.slots[x]) = k
         /\ KeyAt(t, k) # {} <=> HasKey(t, k)
  <1>1. ASSUME NEW x \in FilledAt(t) PROVE t.slots[x] \in t.populated /\ t.hashes[x] = Hash[KeyOf(t, t.slots[x])]
    <2>1. t.slots[x] \in t.populated
      BY DEF TableOK, ItemsOK, SlotsOf
    <2>2. PICK e : e = Entry(t, x)
      OBVIOUS
    <2>3. e \in Entries(t) /\ e[1] = t.hashes[x] /\ e[2] = t.slots[x]
      BY <2>2 DEF Entries, Entry
    <2> QED
      BY <2>1, <2>3 DEF TableOK, ItemsOK
  <1>2. \A x \in KeyAt(t, k) : x \in FilledAt(t) /\ KeyOf(t, t.slots[x]) = k
    BY DEF KeyAt, KeyOf
  <1>3. MatchAt(t, k) = KeyAt(t, k)
    BY <1>1, <1>2 DEF MatchAt
  <1>4. ASSUME NEW p \in t.populated, KeyOf(t, p) = k PROVE KeyAt(t, k) # {}
    <2>1. PICK x \in FilledAt(t) : t.slots[x] = p
      BY DEF TableOK, ItemsOK, SlotsOf
    <2> QED
      BY <1>4, <2>1 DEF KeyAt, KeyOf
  <1> QED
    BY <1>1, <1>2, <1>3, <1>4 DEF HasKey

LEMMA HashOfKey ==
  ASSUME NEW k \in Key
  PROVE  Hash[k] \in HashValue
  BY HashTableAssumption DEF HashTableAssumption

\* Where a probe for a key ends.
LEMMA LocateIs ==
  ASSUME NEW t, TableOK(t), NEW k \in Key, NEW at, at = Stop(t, Hash[k], EmptyAt(t) \cup KeyAt(t, k))
  PROVE  /\ HasKey(t, k) => /\ at \in FilledAt(t) /\ at # Lost /\ at \notin EmptyAt(t)
                            /\ t.slots[at] \in t.populated /\ KeyOf(t, t.slots[at]) = k
         /\ ~HasKey(t, k) => (t.size = 0 => at = Lost) /\ (t.size # 0 => at \in EmptyAt(t) /\ at # Lost)
  <1>0. t.size \in Nat
    BY DEF TableOK, HashOK, IsTable
  <1>1. IF t.size = 0 THEN at = Lost ELSE IF KeyAt(t, k) # {} THEN at \in KeyAt(t, k) ELSE at \in EmptyAt(t)
    <2>1. HashOK(t) /\ Roomy(t)
      BY DEF TableOK
    <2>2. PICK goal \in SUBSET FilledAt(t) : goal = KeyAt(t, k)
      BY KeyAtIs
    <2>3. PICK hash \in HashValue : hash = Hash[k]
      BY HashOfKey
    <2>4. at = Stop(t, hash, EmptyAt(t) \cup goal)
      BY <2>2, <2>3
    <2>5. \A x \in goal : t.hashes[x] = hash
      BY <2>2, <2>3, KeyAtIs
    <2>6. IF t.size = 0 THEN at = Lost ELSE IF goal # {} THEN at \in goal ELSE at \in EmptyAt(t)
      BY <2>1, <2>4, <2>5, StopSettles
    <2> QED
      BY <2>2, <2>6
  <1>2. t.size = 0 => KeyAt(t, k) = {}
    BY <1>0 DEF KeyAt, FilledAt, Below
  <1>3. \A x \in EmptyAt(t) \cup FilledAt(t) : x # Lost
    BY <1>0 DEF EmptyAt, FilledAt, Below, Lost
  <1>4. ASSUME HasKey(t, k)
        PROVE  /\ at \in FilledAt(t) /\ at # Lost /\ at \notin EmptyAt(t)
               /\ t.slots[at] \in t.populated /\ KeyOf(t, t.slots[at]) = k
    <2>1. at \in KeyAt(t, k)
      BY <1>1, <1>2, <1>4, KeyAtIs
    <2>2. at \in FilledAt(t) /\ t.slots[at] \in t.populated /\ KeyOf(t, t.slots[at]) = k
      BY <2>1, KeyAtIs
    <2>3. at \notin EmptyAt(t)
      BY <2>2 DEF EmptyAt, FilledAt, EMPTY
    <2> QED
      BY <1>3, <2>2, <2>3
  <1>5. ASSUME ~HasKey(t, k)
        PROVE  /\ t.size = 0 => at = Lost
               /\ t.size # 0 => at \in EmptyAt(t) /\ at # Lost
    <2>1. KeyAt(t, k) = {}
      BY <1>5, KeyAtIs
    <2> QED
      BY <1>1, <1>3, <2>1
  <1> QED
    BY <1>4, <1>5

\* A look-up finds the item of a key, and nothing if there is none.
LEMMA FindIs ==
  ASSUME NEW t, TableOK(t), NEW k \in Key
  PROVE  /\ \A p \in t.populated : KeyOf(t, p) = k => Find(t, k) = p
         /\ ~HasKey(t, k) => /\ Find(t, k) \in {EMPTY, Lost}
                             /\ (t.slotsNull \/ t.size # 0) => Find(t, k) = EMPTY
  <1>1. CASE t.slotsNull
    <2>1. t.size = 0
      BY <1>1 DEF TableOK, ItemsOK
    <2>2. t.populated = {}
      BY <2>1 DEF TableOK, ItemsOK, SlotsOf, FilledAt, Below
    <2> QED
      BY <1>1, <2>2 DEF Find
  <1>2. CASE ~t.slotsNull
    <2>1. PICK at : at = Stop(t, Hash[k], EmptyAt(t) \cup KeyAt(t, k))
      OBVIOUS
    <2>2. Find(t, k) = IF at = Lost THEN Lost ELSE t.slots[at]
      BY <1>2, <2>1, KeyAtIs DEF Find
    <2>3. /\ HasKey(t, k) => /\ at \in FilledAt(t) /\ at # Lost
                             /\ t.slots[at] \in t.populated /\ KeyOf(t, t.slots[at]) = k
          /\ ~HasKey(t, k) => (t.size = 0 => at = Lost) /\ (t.size # 0 => at \in EmptyAt(t) /\ at # Lost)
      BY <2>1, LocateIs
    <2>4. ASSUME NEW p \in t.populated, KeyOf(t, p) = k PROVE Find(t, k) = p
      <3>1. HasKey(t, k)
        BY <2>4 DEF HasKey
      <3>2. Find(t, k) \in t.populated /\ KeyOf(t, Find(t, k)) = k
        BY <2>2, <2>3, <3>1
      <3> QED
        BY <2>4, <3>2 DEF TableOK, ItemsOK
    <2>5. ASSUME ~HasKey(t, k) PROVE Find(t, k) \in {EMPTY, Lost} /\ (t.size # 0 => Find(t, k) = EMPTY)
      BY <2>2, <2>3, <2>5 DEF EmptyAt
    <2> QED
      BY <1>2, <2>4, <2>5
  <1> QED
    BY <1>1, <1>2

-----------------------------------------------------------------------------
(* Removing a key.                                                         *)

\* w has v's hash table, whatever its items are.
SameHash(w, v) ==
  /\ w.slots = v.slots /\ w.hashes = v.hashes /\ w.size = v.size /\ w.count = v.count /\ w.empty = v.empty

LEMMA Rehoused ==
  ASSUME NEW v, HashOK(v), NEW w, IsTable(w), SameHash(w, v)
  PROVE  /\ HashOK(w) /\ Entries(w) = Entries(v) /\ SlotsOf(w) = SlotsOf(v) /\ FilledAt(w) = FilledAt(v)
         /\ EmptyAt(w) = EmptyAt(v) /\ (Roomy(v) => Roomy(w))
  <1>1. FilledAt(w) = FilledAt(v) /\ EmptyAt(w) = EmptyAt(v) /\ (Roomy(v) => Roomy(w))
    BY DEF SameHash, FilledAt, EmptyAt, Roomy
  <1>2. Entries(w) = Entries(v) /\ SlotsOf(w) = SlotsOf(v)
    BY <1>1 DEF SameHash, Entries, Entry, SlotsOf
  <1>3. HashTyped(w) /\ Counted(w) /\ EnteredOnce(w)
    BY <1>1 DEF SameHash, HashOK, HashTyped, Counted, EnteredOnce
  <1>4. Reachable(w)
    <2>1. \A x \in FilledAt(v) : Reaches(v, x) => Reaches(w, x)
      BY DEF SameHash, Reaches
    <2> QED
      BY <1>1, <2>1 DEF HashOK, Reachable
  <1> QED
    BY <1>1, <1>2, <1>3, <1>4 DEF HashOK

\* u is t without the item in slot q.
Dropped(u, t, q) ==
  /\ TableOK(u) /\ u.populated = t.populated \ {q} /\ q \in t.populated
  /\ \A p \in u.populated : u.items[p] = t.items[p]
  /\ u.count = t.count - 1
  /\ u.reserved = t.reserved /\ u.top = t.top /\ u.slotsNull = t.slotsNull /\ u.size = t.size

\* The entry at an offset is vacated and its item destroyed.
LEMMA DroppedIs ==
  ASSUME NEW t, TableOK(t), NEW at \in FilledAt(t), NEW q, q = t.slots[at],
         NEW u, u = [Vacate(t, at) EXCEPT !.items[q] = Raw]
  PROVE  Dropped(u, t, q)
  <1>0. HashOK(t) /\ ItemsOK(t) /\ t.populated = SlotsOf(t) /\ IsTable(t) /\ t.reserved \in Nat /\ t.top \in Nat
    BY DEF TableOK, ItemsOK, HashOK, IsTable
  <1>1. PICK v : v = Vacate(t, at)
    OBVIOUS
  <1>2. /\ HashOK(v) /\ SameItems(v, t) /\ v.size = t.size /\ v.empty = t.empty
        /\ v.count = t.count - 1 /\ t.count > 0
        /\ v.populated = t.populated \ {q}
        /\ Entries(v) = Entries(t) \ {Entry(t, at)}
    BY <1>0, <1>1, VacateIs
  <1>3. q \in t.populated /\ q \in Below(t.reserved) /\ q \in Nat
    <2>1. q \in t.populated
      BY <1>0 DEF SlotsOf
    <2> QED
      BY <2>1, LiveItem
  <1>4. PICK its : its = [t.items EXCEPT ![q] = Raw]
    OBVIOUS
  <1>5. u = [v EXCEPT !.items = its] /\ IsTable(v)
    BY <1>1, <1>2, <1>4 DEF SameItems, HashOK, IsTable
  <1>6. /\ u.items = its /\ u.itemsNull = t.itemsNull /\ u.populated = t.populated \ {q} /\ u.reserved = t.reserved
        /\ u.top = t.top /\ u.slotsNull = t.slotsNull /\ u.size = t.size /\ u.count = t.count - 1
        /\ SameHash(u, v)
    BY <1>2, <1>5 DEF IsTable, SameItems, SameHash
  <1>7. IsTable(u)
    <2>1. v \in [items : {v.items}, itemsNull : BOOLEAN, populated : {v.populated},
                 reserved : Nat, top : Nat, slots : {v.slots}, hashes : {v.hashes},
                 slotsNull : BOOLEAN, size : Nat, count : Nat, empty : Nat]
      BY <1>5 DEF IsTable
    <2>2. u \in [items : {u.items}, itemsNull : BOOLEAN, populated : {u.populated},
                 reserved : Nat, top : Nat, slots : {u.slots}, hashes : {u.hashes},
                 slotsNull : BOOLEAN, size : Nat, count : Nat, empty : Nat]
      BY <1>5, <2>1
    <2> QED
      BY <2>2 DEF IsTable
  <1>8. HashOK(u) /\ Entries(u) = Entries(v) /\ SlotsOf(u) = SlotsOf(v)
    BY <1>2, <1>6, <1>7, Rehoused
  <1>9. Roomy(u)
    BY <1>2, <1>6 DEF SameHash, TableOK, Roomy
  <1>10. /\ its \in [Below(t.reserved) -> Item] /\ its[q] = Raw
         /\ \A p \in Below(t.reserved) : p # q => its[p] = t.items[p]
    BY <1>0, <1>3, <1>4 DEF ItemsOK, Raw, Item
  <1>11. \A p \in u.populated : p \in t.populated /\ p # q /\ u.items[p] = t.items[p] /\ KeyOf(u, p) = KeyOf(t, p)
    BY <1>6, <1>10, LiveItem DEF KeyOf
  <1>12. SlotsOf(u) = u.populated
    <2>1. Entry(t, at) = <<t.hashes[at], q>>
      BY DEF Entry
    <2>2. ASSUME NEW x \in FilledAt(t), x # at PROVE Entry(t, x) \in Entries(v) /\ Entry(t, x)[2] = t.slots[x]
      <3>1. t.slots[x] # q
        BY <1>0, <2>2 DEF HashOK, EnteredOnce
      <3>2. Entry(t, x)[2] = t.slots[x] /\ Entry(t, at)[2] = q
        BY <2>1 DEF Entry
      <3>3. Entry(t, x) # Entry(t, at)
        BY <3>1, <3>2
      <3> QED
        BY <1>2, <3>2, <3>3 DEF Entries
    <2>3. ASSUME NEW p \in t.populated, p # q PROVE \E e \in Entries(v) : e[2] = p
      <3>1. PICK x \in FilledAt(t) : t.slots[x] = p
        BY <1>0 DEF SlotsOf
      <3>2. x # at
        BY <2>3, <3>1
      <3> QED
        BY <2>2, <3>1, <3>2
    <2>4. ASSUME NEW e \in Entries(v) PROVE e[2] \in t.populated /\ e[2] # q
      <3>1. PICK x \in FilledAt(t) : e = Entry(t, x)
        BY <1>2 DEF Entries
      <3>2. x # at
        BY <1>2, <3>1
      <3>3. e[2] = t.slots[x]
        BY <3>1 DEF Entry
      <3> QED
        BY <1>0, <3>2, <3>3 DEF SlotsOf, HashOK, EnteredOnce
    <2>5. \A p : p \in SlotsOf(v) <=> \E e \in Entries(v) : e[2] = p
      BY SlotsOfEntries
    <2>6. \A p : p \in SlotsOf(v) <=> p \in t.populated /\ p # q
      BY <2>3, <2>4, <2>5
    <2> QED
      BY <1>6, <1>8, <2>6
  <1>13. ItemsOK(u)
    <2>1. u.populated \subseteq Below(u.top) /\ u.top <= u.reserved
      BY <1>0, <1>6 DEF ItemsOK
    <2>2. (u.itemsNull => u.reserved = 0) /\ (u.slotsNull => u.size = 0)
      BY <1>0, <1>6 DEF ItemsOK
    <2>3. \A s \in Below(u.reserved) : IF s \in u.populated THEN u.items[s].key \in Key /\ u.items[s].value \in Value
                                       ELSE u.items[s] = Raw
      BY <1>0, <1>6, <1>10 DEF ItemsOK
    <2>4. u.items \in [Below(u.reserved) -> Item]
      BY <1>6, <1>10
    <2>5. \A p, r \in u.populated : KeyOf(u, p) = KeyOf(u, r) => p = r
      BY <1>0, <1>11 DEF ItemsOK
    <2>6. ASSUME NEW e \in Entries(u) PROVE e[1] = Hash[KeyOf(u, e[2])]
      <3>1. e \in Entries(t) /\ e[2] \in SlotsOf(u)
        BY <1>2, <1>8, SlotsOfEntries
      <3> QED
        BY <1>0, <1>11, <1>12, <3>1 DEF ItemsOK
    <2> QED
      BY <1>12, <2>1, <2>2, <2>3, <2>4, <2>5, <2>6 DEF ItemsOK
  <1> QED
    BY <1>2, <1>3, <1>6, <1>8, <1>9, <1>11, <1>13 DEF TableOK, Dropped

\* u is t without the key k: the item goes, the others stay in their order.
Without(u, t, k) ==
  IF HasKey(t, k)
  THEN \E v : /\ TableOK(v) /\ SameContents(v, t)
              /\ \E q \in v.populated : KeyOf(v, q) = k /\ u.populated = v.populated \ {q}
              /\ \A p \in u.populated : u.items[p] = v.items[p]
              /\ u.count = t.count - 1
  ELSE SameContents(u, t) /\ u.count = t.count

\* What remains of the arrays.
Shrunk(u, t) ==
  /\ u.reserved <= 4 * (t.count + 2) \/ (u = t /\ t.slotsNull)
  /\ u.reserved = t.reserved \/ u.reserved = t.count

LEMMA SameKeys ==
  ASSUME NEW t, NEW u, SameContents(u, t), NEW k
  PROVE  HasKey(u, k) <=> HasKey(t, k)
  <1>1. ASSUME NEW p \in t.populated, KeyOf(t, p) = k PROVE HasKey(u, k)
    <2>1. PICK q \in u.populated : t.items[p] = u.items[q]
      BY DEF SameContents
    <2> QED
      BY <1>1, <2>1 DEF KeyOf, HasKey
  <1>2. ASSUME NEW p \in u.populated, KeyOf(u, p) = k PROVE HasKey(t, k)
    <2>1. PICK q \in t.populated : t.items[q] = u.items[p]
      BY DEF SameContents
    <2> QED
      BY <1>2, <2>1 DEF KeyOf, HasKey
  <1> QED
    BY <1>1, <1>2 DEF HasKey

LEMMA RemovedIs ==
  ASSUME NEW t, TableOK(t), NEW k \in Key, NEW u, u = Removed(t, k)
  PROVE  /\ TableOK(u) /\ Without(u, t, k) /\ Shrunk(u, t)
         /\ (t.slotsNull \/ t.size > 0) => (u.slotsNull \/ u.size > 0)
  <1>0. t.size \in Nat /\ t.count \in Nat /\ t.slotsNull \in BOOLEAN
    BY DEF TableOK, HashOK, IsTable
  <1>1. CASE t.slotsNull
    <2>1. t.size = 0
      BY <1>1 DEF TableOK, ItemsOK
    <2>2. t.populated = {}
      BY <2>1 DEF TableOK, ItemsOK, SlotsOf, FilledAt, Below
    <2>3. u = t
      BY <1>1 DEF Removed
    <2>4. SameContents(u, t)
      BY <2>3, ContentsStay
    <2> QED
      BY <1>1, <2>2, <2>3, <2>4 DEF Without, HasKey, Shrunk
  <1>2. CASE ~t.slotsNull
    <2>1. PICK v : v = Trimmed(t)
      OBVIOUS
    <2>2. /\ TableOK(v) /\ SameContents(v, t) /\ v.count = t.count
          /\ (t.size > 0 => v.size > 0)
          /\ v.reserved <= 4 * (t.count + 2)
          /\ (v.reserved = t.reserved /\ v.top = t.top) \/ (v.reserved = t.count /\ v.top = t.count)
      BY <2>1, TrimmedIs
    <2>3. PICK at : at = Stop(v, Hash[k], EmptyAt(v) \cup KeyAt(v, k))
      OBVIOUS
    <2>4. u = IF at = Lost \/ at \in EmptyAt(v) THEN v ELSE [Vacate(v, at) EXCEPT !.items[v.slots[at]] = Raw]
      BY <1>2, <2>1, <2>3 DEF Removed
    <2>5. /\ HasKey(v, k) => /\ at \in FilledAt(v) /\ at # Lost /\ at \notin EmptyAt(v)
                             /\ v.slots[at] \in v.populated /\ KeyOf(v, v.slots[at]) = k
          /\ ~HasKey(v, k) => (v.size = 0 => at = Lost) /\ (v.size # 0 => at \in EmptyAt(v) /\ at # Lost)
      BY <2>2, <2>3, LocateIs
    <2>6. HasKey(v, k) <=> HasKey(t, k)
      BY <2>2, SameKeys
    <2>7. CASE HasKey(v, k)
      <3>1. PICK q : q = v.slots[at]
        OBVIOUS
      <3>2. at \in FilledAt(v) /\ KeyOf(v, q) = k /\ u = [Vacate(v, at) EXCEPT !.items[q] = Raw]
        BY <2>4, <2>5, <2>7, <3>1
      <3>3. Dropped(u, v, q)
        BY <2>2, <3>1, <3>2, DroppedIs
      <3>4. /\ TableOK(u) /\ u.populated = v.populated \ {q} /\ q \in v.populated
            /\ \A p \in u.populated : u.items[p] = v.items[p]
            /\ u.count = v.count - 1
            /\ u.reserved = v.reserved /\ u.size = v.size
        BY <3>3 DEF Dropped
      <3>5. Without(u, t, k)
        BY <2>2, <2>6, <2>7, <3>2, <3>4 DEF Without
      <3>6. Shrunk(u, t)
        BY <2>2, <3>4 DEF Shrunk
      <3> QED
        BY <1>0, <1>2, <2>2, <3>4, <3>5, <3>6
    <2>8. CASE ~HasKey(v, k)
      <3>1. u = v
        BY <2>4, <2>5, <2>8
      <3>2. Without(u, t, k) /\ Shrunk(u, t)
        BY <2>2, <2>6, <2>8, <3>1 DEF Without, Shrunk
      <3> QED
        BY <1>0, <1>2, <2>2, <3>1, <3>2
    <2> QED
      BY <2>7, <2>8
  <1> QED
    BY <1>0, <1>1, <1>2

-----------------------------------------------------------------------------
(* What a change of the items shows.                                       *)

LEMMA RemoveFirstIs ==
  ASSUME NEW S, NEW o \in Seq(S), NEW n \in 1..Len(o), NEW k, o[n] = k, \A m \in 1..Len(o) : o[m] = k => m = n,
         NEW w, w = RemoveFirst(o, k)
  PROVE  /\ w \in Seq(S) /\ Len(w) = Len(o) - 1
         /\ \A m \in 1..Len(w) : w[m] = IF m < n THEN o[m] ELSE o[m + 1]
  <1> DEFINE I == {i \in 1..Len(o) : o[i] = k}
  <1>1. I = {n}
    OBVIOUS
  <1>2. n \in Nat
    OBVIOUS
  <1>3. Min({n}) = n
    BY <1>2 DEF Min
  <1>4. SelectInSeq(o, LAMBDA v : v = k) = n
    BY <1>1, <1>3 DEF SelectInSeq
  <1>5. w = RemoveAt(o, n)
    BY <1>4 DEF RemoveFirst
  <1>6. PICK a : a = SubSeq(o, 1, n - 1)
    OBVIOUS
  <1>7. PICK b : b = SubSeq(o, n + 1, Len(o))
    OBVIOUS
  <1>8. a \in Seq(S) /\ Len(a) = n - 1 /\ \A m \in 1..(n - 1) : a[m] = o[m]
    BY <1>6
  <1>9. b \in Seq(S) /\ Len(b) = Len(o) - n /\ \A m \in 1..(Len(o) - n) : b[m] = o[m + n]
    BY <1>7
  <1>10. w = a \o b
    BY <1>5, <1>6, <1>7 DEF RemoveAt
  <1> HIDE DEF I
  <1>11. a \in Seq(S) /\ b \in Seq(S)
    BY <1>8, <1>9
  <1>12. /\ w \in Seq(S) /\ Len(w) = Len(a) + Len(b)
         /\ \A m \in 1..(Len(a) + Len(b)) : w[m] = IF m <= Len(a) THEN a[m] ELSE b[m - Len(a)]
    <2>1. /\ a \o b \in Seq(S) /\ Len(a \o b) = Len(a) + Len(b)
          /\ \A m \in 1..(Len(a) + Len(b)) : (a \o b)[m] = IF m <= Len(a) THEN a[m] ELSE b[m - Len(a)]
      BY <1>11, ConcatProperties, Zenon
    <2> QED
      BY <1>10, <2>1, Zenon
  <1>13. ASSUME NEW m \in 1..Len(w) PROVE w[m] = IF m < n THEN o[m] ELSE o[m + 1]
    <2>1. CASE m < n
      <3>1. m <= Len(a) /\ m \in 1..(n - 1)
        BY <1>8, <2>1
      <3>2. w[m] = a[m]
        BY <1>12, <3>1
      <3> QED
        BY <1>8, <2>1, <3>1, <3>2
    <2>2. CASE ~(m < n)
      <3>1. PICK x : x = m - (n - 1)
        OBVIOUS
      <3>2. x \in 1..(Len(o) - n) /\ x = m - Len(a) /\ ~(m <= Len(a)) /\ x + n = m + 1
        BY <1>8, <1>9, <1>12, <2>2, <3>1
      <3> QED
        BY <1>9, <1>12, <2>2, <3>2
    <2> QED
      BY <2>1, <2>2
  <1>14. Len(w) = Len(o) - 1
    BY <1>8, <1>9, <1>12
  <1> QED
    BY <1>12, <1>13, <1>14

LEMMA RankWithout ==
  ASSUME NEW t, FiniteItems(t), NEW q \in t.populated, NEW u, u.populated = t.populated \ {q}
  PROVE  /\ FiniteItems(u) /\ Cardinality(u.populated) = Cardinality(t.populated) - 1
         /\ \A p \in u.populated : Rank(u, p) = IF p < q THEN Rank(t, p) ELSE Rank(t, p) - 1
  <1>1. FiniteItems(u) /\ Cardinality(u.populated) = Cardinality(t.populated) - 1
    <2>1. IsFiniteSet(t.populated \ {q}) /\ Cardinality(t.populated \ {q}) = Cardinality(t.populated) - 1
      BY FS_RemoveElement DEF FiniteItems
    <2> QED
      BY <2>1 DEF FiniteItems
  <1>2. ASSUME NEW p \in u.populated PROVE Rank(u, p) = IF p < q THEN Rank(t, p) ELSE Rank(t, p) - 1
    <2>1. PICK A : A = {x \in t.populated : x < p}
      OBVIOUS
    <2>2. PICK B : B = {x \in u.populated : x < p}
      OBVIOUS
    <2>3. A \in SUBSET t.populated
      BY <2>1
    <2>4. IsFiniteSet(A)
      BY <2>3, FS_Subset DEF FiniteItems
    <2>5. p \in Nat /\ q \in Nat /\ p # q
      BY DEF FiniteItems
    <2>6. CASE p < q
      <3>1. A = B
        BY <2>1, <2>2, <2>5, <2>6
      <3> QED
        BY <2>1, <2>2, <2>6, <3>1 DEF Rank
    <2>7. CASE ~(p < q)
      <3>1. q \in A /\ B = A \ {q}
        BY <2>1, <2>2, <2>5, <2>7
      <3>2. Cardinality(A \ {q}) = Cardinality(A) - 1
        BY <2>4, <3>1, FS_RemoveElement
      <3> QED
        BY <2>1, <2>2, <2>7, <3>1, <3>2 DEF Rank
    <2> QED
      BY <2>6, <2>7
  <1> QED
    BY <1>1, <1>2

KeysApart(t) == \A p, q \in t.populated : KeyOf(t, p) = KeyOf(t, q) => p = q

LEMMA ShowsRemoved ==
  ASSUME NEW t, FiniteItems(t), KeysApart(t), NEW d, NEW o, Shows(t, d, o),
         NEW q \in t.populated, NEW k, KeyOf(t, q) = k,
         NEW u, u.populated = t.populated \ {q}, \A p \in u.populated : u.items[p] = t.items[p],
         NEW e, e = [j \in DOMAIN d \ {k} |-> d[j]], NEW w, w = RemoveFirst(o, k)
  PROVE  Shows(u, e, w)
  <1> DEFINE n == Rank(t, q) + 1
             N == Cardinality(t.populated)
  <1>1. N \in Nat /\ Len(o) = N /\ o \in Seq(Key) /\ \A p \in t.populated : o[Rank(t, p) + 1] = KeyOf(t, p)
    BY FS_CardinalityType DEF FiniteItems, Shows
  <1>2. \A p \in t.populated : Rank(t, p) \in 0..(N - 1)
    BY RankBounds DEF Below
  <1>3. n \in 1..Len(o) /\ o[n] = k
    BY <1>1, <1>2
  <1>4. ASSUME NEW m \in 1..Len(o), o[m] = k PROVE m = n
    <2>1. m - 1 \in Below(N)
      BY <1>1 DEF Below
    <2>2. PICK p \in t.populated : Rank(t, p) = m - 1
      BY <2>1, RankReaches
    <2>3. KeyOf(t, p) = k
      BY <1>1, <1>4, <2>2
    <2>4. p = q
      BY <2>3 DEF KeysApart
    <2> QED
      BY <2>2, <2>4
  <1> HIDE DEF n
  <1>5. /\ w \in Seq(Key) /\ Len(w) = Len(o) - 1
        /\ \A m \in 1..Len(w) : w[m] = IF m < n THEN o[m] ELSE o[m + 1]
    <2>1. o \in Seq(Key) /\ n \in 1..Len(o) /\ o[n] = k
      BY <1>1, <1>3
    <2>2. \A m \in 1..Len(o) : o[m] = k => m = n
      BY <1>4
    <2> QED
      BY <2>1, <2>2, RemoveFirstIs
  <1>6. /\ FiniteItems(u) /\ Cardinality(u.populated) = N - 1
        /\ \A p \in u.populated : Rank(u, p) = IF p < q THEN Rank(t, p) ELSE Rank(t, p) - 1
    BY RankWithout, ZenonT(60)
  <1>7. ASSUME NEW p \in u.populated PROVE w[Rank(u, p) + 1] = KeyOf(u, p)
    <2>1. p \in t.populated /\ p \in Nat /\ q \in Nat /\ p # q /\ KeyOf(u, p) = KeyOf(t, p)
      BY DEF FiniteItems, KeyOf
    <2>2. PICK r : r = Rank(u, p)
      OBVIOUS
    <2>3. r \in 0..(N - 2)
      <3>1. r \in Below(N - 1)
        BY <1>6, <2>2, RankBounds
      <3> QED
        BY <1>1, <3>1 DEF Below
    <2>4. r + 1 \in 1..Len(w)
      BY <1>1, <1>5, <2>3
    <2>5. CASE p < q
      <3>1. Rank(t, p) < Rank(t, q)
        BY <2>1, <2>5, RankGrows
      <3>2. r = Rank(t, p)
        BY <1>6, <2>2, <2>5
      <3>3. r + 1 < n
        BY <1>2, <2>1, <3>1, <3>2 DEF n
      <3> QED
        BY <1>1, <1>5, <2>1, <2>2, <2>4, <3>2, <3>3
    <2>6. CASE ~(p < q)
      <3>1. Rank(t, q) < Rank(t, p)
        BY <2>1, <2>6, RankGrows
      <3>2. r = Rank(t, p) - 1
        BY <1>6, <2>2, <2>6
      <3>3. ~(r + 1 < n) /\ r + 2 = Rank(t, p) + 1
        BY <1>2, <2>1, <3>1, <3>2 DEF n
      <3>4. w[r + 1] = o[r + 2]
        BY <1>5, <2>3, <2>4, <3>3
      <3> QED
        BY <1>1, <2>1, <2>2, <3>3, <3>4
    <2> QED
      BY <2>5, <2>6
  <1>8. ASSUME NEW p \in u.populated PROVE KeyOf(u, p) = KeyOf(t, p) /\ KeyOf(u, p) # k /\ p \in t.populated
    BY DEF KeysApart, KeyOf
  <1>9. {KeyOf(u, p) : p \in u.populated} = DOMAIN d \ {k}
    <2>1. DOMAIN d = {KeyOf(t, p) : p \in t.populated}
      BY DEF Shows
    <2>2. \A p \in t.populated : KeyOf(t, p) # k => p \in u.populated
      OBVIOUS
    <2> QED
      BY <1>8, <2>1, <2>2
  <1>10. \A p \in u.populated : e[KeyOf(u, p)] = u.items[p].value
    <2> SUFFICES ASSUME NEW p \in u.populated PROVE e[KeyOf(u, p)] = u.items[p].value
      OBVIOUS
    <2>1. KeyOf(u, p) \in DOMAIN d \ {k}
      BY <1>9
    <2>2. e[KeyOf(u, p)] = d[KeyOf(t, p)]
      BY <1>8, <2>1
    <2> QED
      BY <1>8, <2>2 DEF Shows
  <1> QED
    BY <1>1, <1>5, <1>6, <1>7, <1>9, <1>10 DEF Shows

\* The dict d with the value v for the key k.
PutIn(d, k, v) == [j \in DOMAIN d \cup {k} |-> IF j = k THEN v ELSE d[j]]

\* u has an item in one more slot, behind the others.
HasOneMore(u, t, s, k, v) ==
  /\ s \in Nat /\ (\A p \in t.populated : p < s) /\ u.populated = t.populated \cup {s}
  /\ (\A p \in t.populated : u.items[p] = t.items[p]) /\ u.items[s].key = k /\ u.items[s].value = v

LEMMA ShowsAdded ==
  ASSUME NEW t, FiniteItems(t), NEW d, NEW o, Shows(t, d, o),
         NEW s, NEW k \in Key, NEW v, k \notin DOMAIN d, NEW u, HasOneMore(u, t, s, k, v),
         NEW e, e = PutIn(d, k, v), NEW w, w = Append(o, k)
  PROVE  Shows(u, e, w)
  <1> DEFINE N == Cardinality(t.populated)
  <1>0. /\ s \in Nat /\ (\A p \in t.populated : p < s) /\ u.populated = t.populated \cup {s}
        /\ (\A p \in t.populated : u.items[p] = t.items[p]) /\ u.items[s].key = k /\ u.items[s].value = v
    BY DEF HasOneMore
  <1>1. e = [j \in DOMAIN d \cup {k} |-> IF j = k THEN v ELSE d[j]]
    BY DEF PutIn
  <1>2. N \in Nat /\ Len(o) = N /\ o \in Seq(Key) /\ \A p \in t.populated : o[Rank(t, p) + 1] = KeyOf(t, p)
    BY FS_CardinalityType DEF FiniteItems, Shows
  <1>3. s \notin t.populated /\ t.populated \subseteq Nat
    BY <1>0 DEF FiniteItems
  <1>4. Cardinality(u.populated) = N + 1
    BY <1>0, <1>3, FS_AddElement DEF FiniteItems
  <1>5. ASSUME NEW p \in t.populated PROVE Rank(u, p) = Rank(t, p) /\ Rank(t, p) \in 0..(N - 1)
    <2>1. {x \in u.populated : x < p} = {x \in t.populated : x < p}
      BY <1>0, <1>3
    <2>2. Rank(t, p) \in 0..(N - 1)
      BY RankBounds DEF Below
    <2> QED
      BY <2>1, <2>2 DEF Rank
  <1>6. Rank(u, s) = N
    <2>1. {x \in u.populated : x < s} = t.populated
      BY <1>0, <1>3
    <2> QED
      BY <2>1 DEF Rank
  <1> HIDE DEF N
  <1>7. w \in Seq(Key) /\ Len(w) = N + 1 /\ w[N + 1] = k /\ \A m \in 1..N : w[m] = o[m]
    BY <1>2
  <1>8. KeyOf(u, s) = k /\ \A p \in t.populated : KeyOf(u, p) = KeyOf(t, p)
    BY <1>0 DEF KeyOf
  <1>9. \A p \in t.populated : w[Rank(u, p) + 1] = KeyOf(u, p)
    <2> SUFFICES ASSUME NEW p \in t.populated PROVE w[Rank(u, p) + 1] = KeyOf(u, p)
      OBVIOUS
    <2>1. PICK r \in 0..(N - 1) : r = Rank(u, p) /\ r = Rank(t, p)
      BY <1>5
    <2>2. r + 1 \in 1..N
      BY <1>2, <2>1
    <2> QED
      BY <1>2, <1>7, <1>8, <2>1, <2>2
  <1>10. {KeyOf(u, p) : p \in u.populated} = DOMAIN d \cup {k}
    BY <1>0, <1>1, <1>8 DEF Shows
  <1>11. \A p \in u.populated : e[KeyOf(u, p)] = u.items[p].value
    <2>1. e[k] = v
      BY <1>1
    <2>2. ASSUME NEW p \in t.populated PROVE e[KeyOf(u, p)] = u.items[p].value
      <3>1. KeyOf(u, p) \in DOMAIN d /\ KeyOf(u, p) = KeyOf(t, p)
        BY <1>8 DEF Shows
      <3>2. e[KeyOf(u, p)] = d[KeyOf(t, p)]
        BY <1>1, <3>1
      <3> QED
        BY <1>0, <3>2 DEF Shows
    <2> QED
      BY <1>0, <1>8, <2>1, <2>2
  <1>12. \A p \in u.populated : w[Rank(u, p) + 1] = KeyOf(u, p)
    BY <1>0, <1>6, <1>7, <1>8, <1>9
  <1> QED
    BY <1>1, <1>4, <1>7, <1>10, <1>11, <1>12 DEF Shows

LEMMA ShowsUpdated ==
  ASSUME NEW t, KeysApart(t), NEW d, NEW o, Shows(t, d, o),
         NEW f \in t.populated, NEW k, KeyOf(t, f) = k, NEW v,
         NEW u, u.populated = t.populated, \A p \in t.populated : p # f => u.items[p] = t.items[p],
         u.items[f].key = k, u.items[f].value = v,
         NEW e, e = PutIn(d, k, v)
  PROVE  Shows(u, e, o)
  <1>0. e = [j \in DOMAIN d \cup {k} |-> IF j = k THEN v ELSE d[j]]
    BY DEF PutIn
  <1>1. \A p \in t.populated : KeyOf(u, p) = KeyOf(t, p)
    BY DEF KeyOf
  <1>2. k \in DOMAIN d /\ DOMAIN d = {KeyOf(t, p) : p \in t.populated}
    BY DEF Shows
  <1>3. DOMAIN e = {KeyOf(u, p) : p \in u.populated}
    BY <1>0, <1>1, <1>2
  <1>4. ASSUME NEW p \in t.populated PROVE e[KeyOf(u, p)] = u.items[p].value
    <2>1. CASE p = f
      BY <1>0, <1>1, <1>2, <2>1
    <2>2. CASE p # f
      <3>1. KeyOf(t, p) # k /\ KeyOf(t, p) \in DOMAIN d
        BY <1>2, <2>2 DEF KeysApart
      <3>2. e[KeyOf(u, p)] = d[KeyOf(t, p)]
        BY <1>0, <1>1, <3>1
      <3> QED
        BY <2>2, <3>2 DEF Shows
    <2> QED
      BY <2>1, <2>2
  <1>5. \A p : Rank(u, p) = Rank(t, p)
    BY DEF Rank
  <1>6. e = [j \in DOMAIN e |-> e[j]]
    BY <1>0
  <1> QED
    BY <1>1, <1>3, <1>4, <1>5, <1>6 DEF Shows

-----------------------------------------------------------------------------
(* What the operations make of a table.                                    *)

\* Apart from the items, u is t.
LEMMA IsTableFields ==
  ASSUME NEW t, IsTable(t)
  PROVE  /\ t.reserved \in Nat /\ t.top \in Nat /\ t.size \in Nat /\ t.count \in Nat /\ t.empty \in Nat
         /\ t.itemsNull \in BOOLEAN /\ t.slotsNull \in BOOLEAN
  BY DEF IsTable

LEMMA NewTableOK ==
  TableOK(NewTable) /\ NewTable.populated = {}
  <1> DEFINE t == NewTable
  <1>1. Below(0) = {}
    BY DEF Below
  <1>2. << >> \in [Below(0) -> SlotValue] /\ << >> \in [Below(0) -> {EMPTY} \cup HashValue] /\ << >> \in [Below(0) -> Item]
    BY <1>1
  <1>3. /\ t.items = << >> /\ t.itemsNull = TRUE /\ t.populated = {} /\ t.reserved = 0 /\ t.top = 0
        /\ t.slots = << >> /\ t.hashes = << >> /\ t.slotsNull = TRUE /\ t.size = 0 /\ t.count = 0 /\ t.empty = 0
    BY DEF NewTable
  <1>4. IsTable(t)
    BY DEF NewTable, IsTable
  <1> HIDE DEF t
  <1>5. FilledAt(t) = {} /\ EmptyAt(t) = {}
    BY <1>1, <1>3 DEF FilledAt, EmptyAt
  <1>6. Entries(t) = {} /\ SlotsOf(t) = {}
    BY <1>5 DEF Entries, SlotsOf
  <1>7. HashOK(t)
    BY <1>1, <1>2, <1>3, <1>4, <1>5, FS_EmptySet DEF HashOK, HashTyped, Counted, EnteredOnce, Reachable
  <1>8. ItemsOK(t)
    BY <1>1, <1>2, <1>3, <1>6 DEF ItemsOK
  <1>9. TableOK(t)
    BY <1>3, <1>7, <1>8 DEF TableOK, Roomy
  <1> QED
    BY <1>3, <1>9 DEF t

\* u has one more item slot in use than t, and nothing in it.
HasNewSlot(u, t) ==
  /\ IsTable(u) /\ SameHash(u, t) /\ u.populated = t.populated /\ u.slotsNull = t.slotsNull
  /\ u.itemsNull = FALSE /\ u.top = t.top + 1 /\ u.top <= u.reserved /\ t.reserved <= u.reserved
  /\ u.items \in [Below(u.reserved) -> Item]
  /\ \A s \in Below(u.reserved) : u.items[s] = IF s \in Below(t.reserved) THEN t.items[s] ELSE Raw

\* What the item table of u has become.
GrownFrom(u, t) ==
  /\ u.top = t.top + 1
  /\ \/ t.top < t.reserved /\ u.reserved = t.reserved
     \/ t.top = t.reserved /\ t.reserved = 0 /\ u.reserved = 4
     \/ t.top = t.reserved /\ u.reserved = Enlarged(t.reserved)

LEMMA NewSlotIs ==
  ASSUME NEW t, TableOK(t), NEW u, u = NewSlot(t)
  PROVE  HasNewSlot(u, t) /\ GrownFrom(u, t)
  <1>0. /\ IsTable(t) /\ t.top <= t.reserved /\ (t.itemsNull => t.reserved = 0)
        /\ t.items \in [Below(t.reserved) -> Item]
        /\ t.reserved \in Nat /\ t.top \in Nat /\ t.itemsNull \in BOOLEAN
    BY IsTableFields DEF TableOK, HashOK, ItemsOK
  <1>1. Raw \in Item
    BY DEF Raw, Item
  <1>2. CASE ~t.itemsNull /\ t.top < t.reserved
    <2>1. PICK n \in Nat : n = t.top + 1
      BY <1>0
    <2>2. u = [t EXCEPT !.top = n]
      BY <1>0, <1>2, <2>1 DEF NewSlot, IsTable
    <2>3. IsTable(u)
      BY <1>0, <2>2 DEF IsTable
    <2>4. /\ u.items = t.items /\ u.itemsNull = t.itemsNull /\ u.populated = t.populated /\ u.reserved = t.reserved
          /\ u.top = t.top + 1 /\ u.slotsNull = t.slotsNull /\ SameHash(u, t)
      BY <1>0, <2>1, <2>2 DEF IsTable, SameHash
    <2> QED
      BY <1>0, <1>2, <2>3, <2>4 DEF HasNewSlot, GrownFrom
  <1>3. CASE ~(~t.itemsNull /\ t.top < t.reserved)
    <2>1. PICK room : room = IF t.itemsNull THEN 4 ELSE Enlarged(t.reserved)
      OBVIOUS
    <2>2. PICK n : n = (IF t.itemsNull THEN 0 ELSE t.top) + 1
      OBVIOUS
    <2>3. t.top = t.reserved /\ n = t.top + 1 /\ room \in Nat /\ n \in Nat /\ n <= room /\ t.reserved <= room
      <3>1. CASE t.itemsNull
        BY <1>0, <2>1, <2>2, <3>1
      <3>2. CASE ~t.itemsNull
        <4>1. t.top = t.reserved /\ n = t.top + 1 /\ room = (t.reserved * 5) \div 4 + 1
          BY <1>0, <1>3, <2>1, <2>2, <3>2 DEF Enlarged
        <4> QED
          BY <1>0, <4>1
      <3> QED
        BY <3>1, <3>2
    <2>4. PICK its : its = [s \in Below(room) |-> IF ~t.itemsNull /\ s < t.reserved THEN t.items[s] ELSE Raw]
      OBVIOUS
    <2>5. u = [t EXCEPT !.itemsNull = FALSE, !.reserved = room, !.top = n, !.items = its]
      BY <1>3, <2>1, <2>2, <2>4 DEF NewSlot
    <2>6. IsTable(u)
      <3>1. t \in [items : {t.items}, itemsNull : BOOLEAN, populated : {t.populated},
                   reserved : Nat, top : Nat, slots : {t.slots}, hashes : {t.hashes},
                   slotsNull : BOOLEAN, size : Nat, count : Nat, empty : Nat]
        BY <1>0 DEF IsTable
      <3>2. u \in [items : {u.items}, itemsNull : BOOLEAN, populated : {u.populated},
                   reserved : Nat, top : Nat, slots : {u.slots}, hashes : {u.hashes},
                   slotsNull : BOOLEAN, size : Nat, count : Nat, empty : Nat]
        BY <2>3, <2>5, <3>1
      <3> QED
        BY <3>2 DEF IsTable
    <2>7. /\ u.items = its /\ u.itemsNull = FALSE /\ u.populated = t.populated /\ u.reserved = room
          /\ u.top = n /\ u.slotsNull = t.slotsNull /\ SameHash(u, t)
      BY <1>0, <2>5 DEF IsTable, SameHash
    <2>8. \A s \in Below(room) : its[s] = IF s \in Below(t.reserved) THEN t.items[s] ELSE Raw
      BY <1>0, <2>3, <2>4 DEF Below
    <2>9. its \in [Below(room) -> Item]
      BY <1>0, <1>1, <2>4, <2>8
    <2>10. GrownFrom(u, t)
      BY <1>0, <2>1, <2>3, <2>7 DEF GrownFrom
    <2> QED
      BY <2>3, <2>6, <2>7, <2>8, <2>9, <2>10 DEF HasNewSlot
  <1> QED
    BY <1>2, <1>3

\* u is t with one more key, in the slot s.
Inserted(u, t, s, k, v) ==
  /\ TableOK(u) /\ s \in Nat /\ (\A p \in t.populated : p < s) /\ u.populated = t.populated \cup {s}
  /\ (\A p \in t.populated : u.items[p] = t.items[p]) /\ u.items[s] = [key |-> k, value |-> v]
  /\ u.count = t.count + 1 /\ u.size > 0 /\ GrownFrom(u, t)

LEMMA InsertedIs ==
  ASSUME NEW t, TableOK(t), NEW k \in Key, NEW v \in Value, ~HasKey(t, k),
         NEW r, r = NewSlot(t), NEW s, s = r.top - 1,
         NEW u, u = [Add(r, Hash[k], s) EXCEPT !.items[s] = [key |-> k, value |-> v]]
  PROVE  Inserted(u, t, s, k, v)
  <1>0. HashOK(t) /\ ItemsOK(t) /\ t.populated = SlotsOf(t) /\ IsTable(t) /\ t.reserved \in Nat /\ t.top \in Nat
        /\ t.size \in Nat /\ t.count \in Nat
    BY IsTableFields DEF TableOK, ItemsOK, HashOK
  <1>1. HasNewSlot(r, t) /\ GrownFrom(r, t)
    BY NewSlotIs
  <1>2. /\ IsTable(r) /\ SameHash(r, t) /\ r.populated = t.populated /\ r.slotsNull = t.slotsNull
        /\ r.itemsNull = FALSE /\ r.top = t.top + 1 /\ r.top <= r.reserved /\ r.reserved \in Nat
        /\ r.items \in [Below(r.reserved) -> Item]
        /\ \A x \in Below(r.reserved) : r.items[x] = IF x \in Below(t.reserved) THEN t.items[x] ELSE Raw
    BY <1>1, IsTableFields DEF HasNewSlot
  <1>3. s = t.top /\ s \in Nat /\ s \in Below(r.reserved) /\ s \notin t.populated /\ \A p \in t.populated : p < s /\ p \in Nat
    <2>1. s = t.top
      BY <1>0, <1>2
    <2>2. \A p \in t.populated : p \in Below(t.top)
      BY <1>0 DEF ItemsOK
    <2> QED
      BY <1>0, <1>2, <2>1, <2>2 DEF Below
  <1>4. HashOK(r) /\ Entries(r) = Entries(t) /\ SlotsOf(r) = SlotsOf(t)
    BY <1>0, <1>2, Rehoused
  <1>5. PICK w : w = Add(r, Hash[k], s)
    OBVIOUS
  <1>6. /\ HashOK(w) /\ Roomy(w) /\ w.slotsNull = FALSE /\ w.size > 0
        /\ w.items = r.items /\ w.itemsNull = r.itemsNull /\ w.reserved = r.reserved /\ w.top = r.top
        /\ w.populated = r.populated \cup {s} /\ Entries(w) = Entries(r) \cup {<<Hash[k], s>>}
        /\ w.count = r.count + 1
    <2>1. PICK h \in HashValue : h = Hash[k]
      BY HashOfKey
    <2>2. SlotsOf(r) \subseteq r.populated /\ (r.slotsNull => r.size = 0) /\ s \notin SlotsOf(r)
      BY <1>0, <1>2, <1>3, <1>4 DEF ItemsOK, SameHash
    <2>3. w = Add(r, h, s)
      BY <1>5, <2>1
    <2>4. Added(w, r, h, s)
      BY <1>3, <1>4, <2>2, <2>3, AddIs
    <2> QED
      BY <2>1, <2>4 DEF Added
  <1>7. PICK its : its = [w.items EXCEPT ![s] = [key |-> k, value |-> v]]
    OBVIOUS
  <1>8. u = [w EXCEPT !.items = its] /\ IsTable(w)
    BY <1>5, <1>6, <1>7 DEF HashOK, IsTable
  <1>9. /\ u.items = its /\ u.itemsNull = FALSE /\ u.populated = t.populated \cup {s} /\ u.reserved = r.reserved
        /\ u.top = r.top /\ u.slotsNull = FALSE /\ u.size = w.size /\ u.count = t.count + 1
        /\ SameHash(u, w)
    BY <1>2, <1>6, <1>8 DEF IsTable, SameHash
  <1>10. IsTable(u)
    <2>1. w \in [items : {w.items}, itemsNull : BOOLEAN, populated : {w.populated},
                 reserved : Nat, top : Nat, slots : {w.slots}, hashes : {w.hashes},
                 slotsNull : BOOLEAN, size : Nat, count : Nat, empty : Nat]
      BY <1>8 DEF IsTable
    <2>2. u \in [items : {u.items}, itemsNull : BOOLEAN, populated : {u.populated},
                 reserved : Nat, top : Nat, slots : {u.slots}, hashes : {u.hashes},
                 slotsNull : BOOLEAN, size : Nat, count : Nat, empty : Nat]
      BY <1>8, <2>1
    <2> QED
      BY <2>2 DEF IsTable
  <1>11. HashOK(u) /\ Entries(u) = Entries(t) \cup {<<Hash[k], s>>} /\ Roomy(u)
    BY <1>4, <1>6, <1>9, <1>10, Rehoused
  <1>12. /\ its \in [Below(r.reserved) -> Item] /\ its[s] = [key |-> k, value |-> v]
         /\ \A x \in Below(r.reserved) : x # s => its[x] = r.items[x]
    <2>1. [key |-> k, value |-> v] \in Item
      BY DEF Item
    <2> QED
      BY <1>2, <1>3, <1>6, <1>7, <2>1
  <1>13. \A p \in t.populated : /\ p # s /\ u.items[p] = t.items[p] /\ KeyOf(u, p) = KeyOf(t, p)
                                /\ KeyOf(u, p) \in Key /\ KeyOf(u, p) # k
    <2> SUFFICES ASSUME NEW p \in t.populated
                 PROVE  /\ p # s /\ u.items[p] = t.items[p] /\ KeyOf(u, p) = KeyOf(t, p)
                        /\ KeyOf(u, p) \in Key /\ KeyOf(u, p) # k
      OBVIOUS
    <2>1. p \in Below(t.reserved) /\ t.items[p].key \in Key
      BY LiveItem
    <2>2. p \in Below(r.reserved) /\ p # s
      BY <1>0, <1>2, <1>3, <2>1 DEF Below
    <2>3. u.items[p] = t.items[p]
      BY <1>2, <1>9, <1>12, <2>1, <2>2
    <2> QED
      BY <2>1, <2>2, <2>3 DEF HasKey, KeyOf
  <1>14. KeyOf(u, s) = k /\ u.items[s] = [key |-> k, value |-> v] /\ u.items[s].key = k /\ u.items[s].value = v
    <2>1. u.items[s] = [key |-> k, value |-> v]
      BY <1>9, <1>12
    <2>2. u.items[s].key = k /\ u.items[s].value = v
      BY <2>1
    <2> QED
      BY <2>1, <2>2 DEF KeyOf
  <1>15. SlotsOf(u) = u.populated
    <2>1. \A p : p \in SlotsOf(u) <=> \E e \in Entries(u) : e[2] = p
      BY SlotsOfEntries
    <2>2. \A p : p \in SlotsOf(t) <=> \E e \in Entries(t) : e[2] = p
      BY SlotsOfEntries
    <2>3. PICK e0 : e0 = <<Hash[k], s>>
      OBVIOUS
    <2>4. e0[2] = s /\ Entries(u) = Entries(t) \cup {e0}
      BY <1>11, <2>3
    <2>5. \A p : p \in SlotsOf(u) <=> p \in t.populated \/ p = s
      BY <1>0, <2>1, <2>2, <2>4
    <2> QED
      BY <1>9, <2>5
  <1>16. ItemsOK(u)
    <2>1. u.populated \subseteq Below(u.top) /\ u.top <= u.reserved
      <3>1. \A p \in t.populated : p \in Below(t.top)
        BY <1>0 DEF ItemsOK
      <3> QED
        BY <1>0, <1>2, <1>3, <1>9, <3>1, SMTT(20) DEF Below
    <2>2. (u.itemsNull => u.reserved = 0) /\ (u.slotsNull => u.size = 0)
      BY <1>9
    <2>3. \A x \in Below(u.reserved) : IF x \in u.populated THEN u.items[x].key \in Key /\ u.items[x].value \in Value
                                       ELSE u.items[x] = Raw
      <3> SUFFICES ASSUME NEW x \in Below(r.reserved)
                   PROVE  IF x \in t.populated \cup {s} THEN u.items[x].key \in Key /\ u.items[x].value \in Value
                          ELSE u.items[x] = Raw
        BY <1>9
      <3>1. CASE x = s
        BY <1>14, <3>1
      <3>2. CASE x # s
        <4>1. u.items[x] = IF x \in Below(t.reserved) THEN t.items[x] ELSE Raw
          BY <1>2, <1>9, <1>12, <3>2
        <4>2. x \in t.populated => x \in Below(t.reserved)
          BY LiveItem
        <4> QED
          BY <1>0, <3>2, <4>1, <4>2 DEF ItemsOK
      <3> QED
        BY <3>1, <3>2
    <2>4. u.items \in [Below(u.reserved) -> Item]
      BY <1>9, <1>12
    <2>5. \A p, q \in u.populated : KeyOf(u, p) = KeyOf(u, q) => p = q
      BY <1>0, <1>9, <1>13, <1>14 DEF ItemsOK
    <2>6. ASSUME NEW e \in Entries(u) PROVE e[1] = Hash[KeyOf(u, e[2])]
      <3>1. CASE e \in Entries(t)
        <4>1. e[2] \in t.populated
          BY <1>0, <3>1, SlotsOfEntries
        <4> QED
          BY <1>0, <1>13, <3>1, <4>1 DEF ItemsOK
      <3>2. CASE e = <<Hash[k], s>>
        <4>1. e[1] = Hash[k] /\ e[2] = s
          BY <3>2
        <4> QED
          BY <1>14, <4>1
      <3> QED
        BY <1>11, <3>1, <3>2
    <2> QED
      BY <1>15, <2>1, <2>2, <2>3, <2>4, <2>5, <2>6 DEF ItemsOK
  <1>17. TableOK(u)
    BY <1>11, <1>16 DEF TableOK
  <1>18. GrownFrom(u, t)
    BY <1>1, <1>9 DEF GrownFrom
  <1> QED
    BY <1>3, <1>6, <1>9, <1>13, <1>14, <1>17, <1>18 DEF Inserted

\* The same table with another value, or with the pointers of a copy.
LEMMA Redressed ==
  ASSUME NEW t, TableOK(t), NEW u, IsTable(u), SameHash(u, t), u.populated = t.populated,
         u.reserved = t.reserved, u.top = t.top, u.itemsNull => u.reserved = 0, u.slotsNull => u.size = 0,
         u.items \in [Below(t.reserved) -> Item],
         \A s \in Below(t.reserved) : /\ u.items[s].key = t.items[s].key
                                      /\ s \in t.populated => u.items[s].value \in Value
                                      /\ s \notin t.populated => u.items[s] = t.items[s]
  PROVE  TableOK(u)
  <1>1. HashOK(t) /\ ItemsOK(t) /\ Roomy(t)
    BY DEF TableOK
  <1>2. HashOK(u) /\ Entries(u) = Entries(t) /\ SlotsOf(u) = SlotsOf(t) /\ Roomy(u)
    BY <1>1, Rehoused
  <1>3. \A p \in t.populated : KeyOf(u, p) = KeyOf(t, p)
    BY LiveItem DEF KeyOf
  <1>4. \A e \in Entries(t) : e[2] \in t.populated
    BY <1>1, SlotsOfEntries DEF ItemsOK
  <1>5. u.populated = SlotsOf(u) /\ u.populated \subseteq Below(u.top) /\ u.top <= u.reserved
    BY <1>1, <1>2 DEF ItemsOK
  <1>6. \A s \in Below(t.reserved) : IF s \in t.populated THEN u.items[s].key \in Key /\ u.items[s].value \in Value
                                     ELSE u.items[s] = Raw
    BY <1>1 DEF ItemsOK
  <1>7. \A p, q \in u.populated : KeyOf(u, p) = KeyOf(u, q) => p = q
    BY <1>1, <1>3 DEF ItemsOK
  <1>8. \A e \in Entries(u) : e[1] = Hash[KeyOf(u, e[2])]
    BY <1>1, <1>2, <1>3, <1>4 DEF ItemsOK
  <1>9. ItemsOK(u)
    BY <1>5, <1>6, <1>7, <1>8 DEF ItemsOK
  <1> QED
    BY <1>2, <1>9 DEF TableOK

\* u is t with another value in the slot f.
Updated(u, t, f, v) ==
  /\ TableOK(u) /\ SameHash(u, t) /\ u.populated = t.populated /\ u.reserved = t.reserved /\ u.top = t.top
  /\ u.slotsNull = t.slotsNull
  /\ \A p \in t.populated : p # f => u.items[p] = t.items[p]
  /\ u.items[f].key = t.items[f].key /\ u.items[f].value = v
  /\ \A p \in t.populated : KeyOf(u, p) = KeyOf(t, p)

LEMMA UpdatedIs ==
  ASSUME NEW t, TableOK(t), NEW f \in t.populated, NEW v \in Value,
         NEW u, u = [t EXCEPT !.items[f].value = v]
  PROVE  Updated(u, t, f, v)
  <1>0. /\ IsTable(t) /\ ItemsOK(t) /\ t.items \in [Below(t.reserved) -> Item]
        /\ (t.itemsNull => t.reserved = 0) /\ (t.slotsNull => t.size = 0)
        /\ f \in Below(t.reserved) /\ t.items[f] \in Item /\ t.items[f].key \in Key
    BY LiveItem DEF TableOK, HashOK, ItemsOK
  <1>1. PICK item : item = [t.items[f] EXCEPT !.value = v]
    OBVIOUS
  <1>2. item \in Item /\ item.key = t.items[f].key /\ item.value = v
    BY <1>0, <1>1 DEF Item
  <1>3. PICK its : its = [t.items EXCEPT ![f] = item]
    OBVIOUS
  <1>4. its \in [Below(t.reserved) -> Item] /\ its[f] = item /\ \A s \in Below(t.reserved) : s # f => its[s] = t.items[s]
    BY <1>0, <1>2, <1>3
  <1>5. u = [t EXCEPT !.items = its]
    BY <1>0, <1>1, <1>3 DEF IsTable
  <1>6. IsTable(u)
    BY <1>0, <1>5 DEF IsTable
  <1>7. /\ u.items = its /\ u.itemsNull = t.itemsNull /\ u.populated = t.populated /\ u.reserved = t.reserved
        /\ u.top = t.top /\ u.slotsNull = t.slotsNull /\ u.size = t.size /\ SameHash(u, t)
    BY <1>0, <1>5 DEF IsTable, SameHash
  <1>8. \A s \in Below(t.reserved) : /\ u.items[s].key = t.items[s].key
                                     /\ s \in t.populated => u.items[s].value \in Value
                                     /\ s \notin t.populated => u.items[s] = t.items[s]
    BY <1>0, <1>2, <1>4, <1>7 DEF ItemsOK
  <1>9. TableOK(u)
    BY <1>0, <1>4, <1>6, <1>7, <1>8, Redressed, ZenonT(60)
  <1>10. \A p \in t.populated : p \in Below(t.reserved)
    BY LiveItem
  <1>11. \A p \in t.populated : KeyOf(u, p) = KeyOf(t, p)
    BY <1>8, <1>10 DEF KeyOf
  <1> QED
    BY <1>2, <1>4, <1>7, <1>9, <1>10, <1>11 DEF Updated

\* A copy of the live items is a copy of the items.
LEMMA LiveItemsAreAll ==
  ASSUME NEW t, TableOK(t)
  PROVE  OnlyLive(t) = t.items
  BY DEF OnlyLive, TableOK, ItemsOK

\* What shows of u and is left of its arrays is what t has.
Copies(u, t) ==
  /\ TableOK(u) /\ SameContents(u, t) /\ u.count = t.count
  /\ u.reserved = t.reserved /\ u.top = t.top

LEMMA CopiedIs ==
  ASSUME NEW t, TableOK(t), NEW u, u = Copied(t)
  PROVE  Copies(u, t) /\ (t.slotsNull \/ t.size > 0 => u.slotsNull \/ u.size > 0)
  <1>0. IsTable(t) /\ t.populated = SlotsOf(t) /\ (t.itemsNull => t.reserved = 0) /\ t.top <= t.reserved /\ t.top \in Nat
        /\ FiniteItems(t) /\ Cardinality(t.populated) = t.count /\ t.reserved \in Nat
        /\ t.populated \subseteq Below(t.top)
    BY TableHasItems, IsTableFields DEF TableOK, HashOK, ItemsOK
  <1>1. CASE t.itemsNull
    <2>1. u = NewTable
      BY <1>1 DEF Copied
    <2>2. t.reserved = 0 /\ t.top = 0 /\ t.populated = {}
      BY <1>0, <1>1 DEF Below
    <2>3. t.count = 0
      BY <1>0, <2>2, FS_EmptySet
    <2>4. /\ TableOK(u) /\ u.populated = {} /\ u.count = 0 /\ u.reserved = 0 /\ u.top = 0 /\ u.slotsNull
      BY <2>1, NewTableOK DEF NewTable
    <2>5. SameContents(u, t)
      BY <2>2, <2>4, ContentsStay
    <2> QED
      BY <2>2, <2>3, <2>4, <2>5 DEF Copies
  <1>2. CASE ~t.itemsNull
    <2>1. u = t
      BY <1>0, <1>2, LiveItemsAreAll DEF Copied, IsTable
    <2>2. SameContents(t, t)
      BY ContentsStay
    <2> QED
      BY <2>1, <2>2 DEF Copies
  <1> QED
    BY <1>1, <1>2

LEMMA DeepCopiedIs ==
  ASSUME NEW t, TableOK(t), NEW u, u = DeepCopied(t)
  PROVE  Copies(u, t) /\ (u.slotsNull \/ u.size > 0)
  <1>0. IsTable(t) /\ t.size \in Nat /\ t.reserved \in Nat /\ t.items \in [Below(t.reserved) -> Item]
    BY IsTableFields DEF TableOK, HashOK, ItemsOK
  <1>1. PICK b \in BOOLEAN : b = (t.reserved = 0)
    OBVIOUS
  <1>2. PICK c \in BOOLEAN : c = (t.size = 0)
    OBVIOUS
  <1>3. u = [t EXCEPT !.itemsNull = b, !.slotsNull = c]
    <2>1. OnlyLive(t) = t.items
      BY LiveItemsAreAll
    <2>2. u = [t EXCEPT !.items = t.items, !.itemsNull = b, !.slotsNull = c]
      BY <1>1, <1>2, <2>1, Zenon DEF DeepCopied
    <2> QED
      BY <1>0, <2>2 DEF IsTable
  <1>4. IsTable(u)
    BY <1>0, <1>3 DEF IsTable
  <1>5. /\ u.items = t.items /\ u.itemsNull = b /\ u.populated = t.populated /\ u.reserved = t.reserved
        /\ u.top = t.top /\ u.slotsNull = c /\ u.size = t.size /\ u.count = t.count /\ SameHash(u, t)
    BY <1>0, <1>3 DEF IsTable, SameHash
  <1>6. (u.itemsNull => u.reserved = 0) /\ (u.slotsNull => u.size = 0)
    BY <1>1, <1>2, <1>5
  <1>7. u.items \in [Below(t.reserved) -> Item] /\ \A s \in t.populated : u.items[s].value \in Value
    BY <1>0, <1>5, LiveItem
  <1>8. \A s \in Below(t.reserved) : /\ u.items[s].key = t.items[s].key
                                     /\ s \in t.populated => u.items[s].value \in Value
                                     /\ s \notin t.populated => u.items[s] = t.items[s]
    BY <1>5, <1>7
  <1>9. TableOK(u)
    BY <1>4, <1>5, <1>6, <1>7, <1>8, Redressed
  <1>10. SameContents(u, t)
    BY <1>5, ContentsStay
  <1>11. u.slotsNull \/ u.size > 0
    <2>1. c <=> t.size = 0
      BY <1>2
    <2> QED
      BY <1>0, <1>5, <2>1
  <1> QED
    BY <1>5, <1>9, <1>10, <1>11 DEF Copies

\* u is empty; it keeps its arrays.
Emptied(u, t) ==
  /\ TableOK(u) /\ u.populated = {} /\ u.count = 0 /\ u.reserved = t.reserved /\ u.top = 0

LEMMA ClearedIs ==
  ASSUME NEW t, TableOK(t), NEW u, u = Cleared(t)
  PROVE  (Emptied(u, t) \/ (u = t /\ t.populated = {}))
         /\ (t.slotsNull \/ t.size > 0 => u.slotsNull \/ u.size > 0)
  <1>0. IsTable(t) /\ t.size \in Nat /\ t.reserved \in Nat /\ t.items \in [Below(t.reserved) -> Item]
        /\ (t.itemsNull => t.reserved = 0) /\ t.slotsNull \in BOOLEAN
    BY IsTableFields DEF TableOK, HashOK, ItemsOK
  <1>1. CASE t.slotsNull
    <2>1. t.size = 0
      BY <1>1 DEF TableOK, ItemsOK
    <2>2. t.populated = {}
      BY <2>1 DEF TableOK, ItemsOK, SlotsOf, FilledAt, Below
    <2>3. u = t
      BY <1>1 DEF Cleared
    <2> QED
      BY <2>2, <2>3
  <1>2. CASE ~t.slotsNull
    <2>1. PICK sl : sl = [x \in Below(t.size) |-> EMPTY]
      OBVIOUS
    <2>2. PICK its : its = [s \in Below(t.reserved) |-> IF s \in t.populated THEN Raw ELSE t.items[s]]
      OBVIOUS
    <2>3. its \in [Below(t.reserved) -> Item] /\ \A s \in Below(t.reserved) : its[s] = Raw
      <3>1. Raw \in Item
        BY DEF Raw, Item
      <3>2. \A s \in Below(t.reserved) : its[s] = Raw
        BY <2>2 DEF TableOK, ItemsOK
      <3> QED
        BY <2>2, <3>1, <3>2
    <2>4. u = [t EXCEPT !.size = t.size, !.count = 0, !.empty = t.size, !.slotsNull = FALSE, !.slots = sl, !.hashes = sl,
                        !.items = its, !.populated = {}, !.top = 0]
      BY <1>2, <2>1, <2>2 DEF Cleared, Blank
    <2>5. IsTable(u)
      <3>1. t \in [items : {t.items}, itemsNull : BOOLEAN, populated : {t.populated},
                   reserved : Nat, top : Nat, slots : {t.slots}, hashes : {t.hashes},
                   slotsNull : BOOLEAN, size : Nat, count : Nat, empty : Nat]
        BY <1>0 DEF IsTable
      <3>2. PICK n \in Nat : n = t.size
        BY <1>0
      <3>3. u = [t EXCEPT !.size = n, !.count = 0, !.empty = n, !.slotsNull = FALSE, !.slots = sl, !.hashes = sl,
                          !.items = its, !.populated = {}, !.top = 0]
        BY <2>4, <3>2
      <3>4. 0 \in Nat /\ FALSE \in BOOLEAN
        OBVIOUS
      <3>5. u \in [items : {u.items}, itemsNull : BOOLEAN, populated : {u.populated},
                   reserved : Nat, top : Nat, slots : {u.slots}, hashes : {u.hashes},
                   slotsNull : BOOLEAN, size : Nat, count : Nat, empty : Nat]
        BY <3>1, <3>3, <3>4, ZenonT(60)
      <3> QED
        BY <3>5 DEF IsTable
    <2>6. /\ u.size = t.size /\ u.slotsNull = FALSE /\ u.count = 0 /\ u.empty = t.size /\ u.slots = sl /\ u.hashes = sl
          /\ u.items = its /\ u.itemsNull = t.itemsNull /\ u.reserved = t.reserved /\ u.top = 0 /\ u.populated = {}
      BY <1>0, <2>4 DEF IsTable
    <2>7. \A x \in Below(t.size) : sl[x] = EMPTY
      BY <2>1
    <2>8. FilledAt(u) = {} /\ EmptyAt(u) = Below(t.size)
      BY <2>6, <2>7 DEF FilledAt, EmptyAt, EMPTY
    <2>9. Entries(u) = {} /\ SlotsOf(u) = {}
      BY <2>8 DEF Entries, SlotsOf
    <2>10. HashTyped(u)
      <3>1. EMPTY \in SlotValue /\ ~(EMPTY >= 0)
        BY DEF SlotValue, EMPTY, DELETED
      <3>2. sl \in [Below(t.size) -> SlotValue] /\ sl \in [Below(t.size) -> {EMPTY} \cup HashValue]
        BY <2>1, <3>1
      <3>3. t.size = 0 \/ SizeOK(t.size)
        BY DEF TableOK, HashOK, HashTyped
      <3> QED
        BY <2>6, <2>7, <3>1, <3>2, <3>3 DEF HashTyped
    <2>11. Counted(u)
      BY <1>0, <2>6, <2>8, BelowIsFinite, FS_EmptySet DEF Counted
    <2>12. EnteredOnce(u) /\ Reachable(u)
      BY <2>8 DEF EnteredOnce, Reachable
    <2>13. ItemsOK(u)
      BY <1>0, <2>3, <2>6, <2>9 DEF ItemsOK
    <2>14. TableOK(u)
      BY <1>0, <2>5, <2>6, <2>10, <2>11, <2>12, <2>13 DEF TableOK, HashOK, Roomy
    <2> QED
      BY <1>2, <2>6, <2>14 DEF Emptied
  <1> QED
    BY <1>1, <1>2

\* What deserialize builds has the items packed.
LEMMA ReloadedIs ==
  ASSUME NEW t, TableOK(t), NEW u, u = Reloaded(t)
  PROVE  /\ TableOK(u) /\ SameContents(u, t) /\ u.count = t.count
         /\ u.reserved = t.count /\ u.top = t.count /\ u.size > 0
  <1>1. FiniteItems(t) /\ Cardinality(t.populated) = t.count /\ t.count \in Nat
    BY TableHasItems
  <1>2. PICK n \in Nat : n = t.count
    BY <1>1
  <1>3. PICK its : its = [j \in Below(n) |-> t.items[Nth(t, j)]]
    OBVIOUS
  <1>4. PICK size : size = PickSize(2 * n)
    OBVIOUS
  <1>5. SizeOK(size) /\ size >= 2 * n /\ size \in Nat /\ size >= 4
    BY <1>4, PickSizeOK DEF SizeOK
  <1>6. PICK b : b = Blank(NewTable, size)
    OBVIOUS
  <1>7. PICK r : r = [b EXCEPT !.items = its, !.itemsNull = n = 0, !.populated = Below(n), !.reserved = n, !.top = n]
    OBVIOUS
  <1>8. Vacant(b) /\ b.size = size /\ b.slotsNull = FALSE
    <2>1. IsTable(NewTable)
      BY NewTableOK DEF TableOK, HashOK
    <2>2. IsBlank(b, NewTable, size)
      BY <1>5, <1>6, <2>1, BlankIsVacant
    <2> QED
      BY <2>2 DEF IsBlank
  <1>9. /\ r.items = its /\ (r.itemsNull <=> n = 0) /\ r.populated = Below(n) /\ r.reserved = n /\ r.top = n
        /\ r.slotsNull = FALSE /\ r.size = size /\ r.slots = b.slots /\ r.hashes = b.hashes
        /\ r.count = b.count /\ r.empty = b.empty
    BY <1>7, <1>8 DEF Vacant, IsTable
  <1>10. Vacant(r)
    <2>1. b \in [items : {b.items}, itemsNull : BOOLEAN, populated : {b.populated},
                 reserved : Nat, top : Nat, slots : {b.slots}, hashes : {b.hashes},
                 slotsNull : BOOLEAN, size : Nat, count : Nat, empty : Nat]
      BY <1>8 DEF Vacant, IsTable
    <2>2. (n = 0) \in BOOLEAN
      OBVIOUS
    <2>3. r \in [items : {r.items}, itemsNull : BOOLEAN, populated : {r.populated},
                 reserved : Nat, top : Nat, slots : {r.slots}, hashes : {r.hashes},
                 slotsNull : BOOLEAN, size : Nat, count : Nat, empty : Nat]
      BY <1>2, <1>7, <2>1, <2>2
    <2>4. IsTable(r)
      BY <2>3 DEF IsTable
    <2> QED
      BY <1>8, <1>9, <2>4 DEF Vacant
  <1>11. PICK hs : hs = [j \in Below(n) |-> Hash[its[j].key]]
    OBVIOUS
  <1>12. PICK sl : sl = [j \in Below(n) |-> j]
    OBVIOUS
  <1>13. u = Entered(r, hs, sl, n)
    <2>1. its = [j \in Below(n) |-> t.items[CHOOSE p \in t.populated : Rank(t, p) = j]]
      BY <1>3 DEF Nth
    <2>2. r = [Blank(NewTable, PickSize(2 * n)) EXCEPT
                 !.items = its, !.itemsNull = n = 0, !.populated = Below(n), !.reserved = n, !.top = n]
      BY <1>4, <1>6, <1>7
    <2> QED
      BY <1>2, <1>11, <1>12, <2>1, <2>2, SMT DEF Reloaded
  <1>14. Packs(r, t)
    BY <1>2, <1>3, <1>9 DEF Packs
  <1>15. /\ SameContents(r, t)
         /\ r.items \in [Below(t.count) -> Item]
         /\ \A j \in Below(t.count) : r.items[j].key \in Key /\ r.items[j].value \in Value
         /\ \A q1, q2 \in r.populated : KeyOf(r, q1) = KeyOf(r, q2) => q1 = q2
    BY <1>14, PacksKeeps
  <1>16. \A j \in Below(n) : hs[j] \in HashValue /\ sl[j] = j /\ sl[j] \in Int /\ sl[j] >= 0
    BY <1>2, <1>9, <1>11, <1>12, <1>15, HashOfKey DEF Below
  <1>17. Enterable(hs, sl, n)
    BY <1>16 DEF Enterable
  <1>18. Chosen(sl, n) = Below(n) /\ Cardinality(Chosen(sl, n)) = n
    <2>1. Chosen(sl, n) = Below(n)
      BY <1>16 DEF Chosen
    <2> QED
      BY <2>1, BelowIsFinite
  <1>19. HasEntered(u, r, hs, sl, n)
    <2>1. Cardinality(Chosen(sl, n)) <= r.size
      BY <1>5, <1>9, <1>18
    <2> QED
      BY <1>10, <1>13, <1>17, <2>1, EnteredIs
  <1>20. /\ HashOK(u) /\ u.items = its /\ (u.itemsNull <=> n = 0) /\ u.reserved = n /\ u.top = n
         /\ u.slotsNull = FALSE /\ u.size = size /\ u.count = n /\ u.empty = size - n
         /\ Entries(u) = {<<hs[j], sl[j]>> : j \in Below(n)}
         /\ u.populated = Below(n) \cup {sl[j] : j \in Below(n)}
    BY <1>9, <1>18, <1>19 DEF HasEntered, SameItems
  <1>21. u.populated = Below(n)
    BY <1>16, <1>20
  <1>22. Roomy(u) /\ u.size > 0
    BY <1>5, <1>20 DEF Roomy
  <1>23. \A j \in Below(n) : KeyOf(u, j) = KeyOf(r, j) /\ KeyOf(u, j) = its[j].key
    BY <1>9, <1>20 DEF KeyOf
  <1>24. ASSUME NEW e \in Entries(u) PROVE e[1] = Hash[KeyOf(u, e[2])] /\ e[2] \in Below(n)
    <2>1. PICK j \in Below(n) : e = <<hs[j], sl[j]>>
      BY <1>20
    <2>2. e[1] = hs[j] /\ e[2] = j
      BY <1>16, <2>1
    <2> QED
      BY <1>11, <1>23, <2>2
  <1>25. SlotsOf(u) = Below(n)
    <2>1. \A q : q \in SlotsOf(u) <=> \E e \in Entries(u) : e[2] = q
      BY SlotsOfEntries
    <2>2. ASSUME NEW j \in Below(n) PROVE \E e \in Entries(u) : e[2] = j
      <3>1. PICK e : e = <<hs[j], sl[j]>>
        OBVIOUS
      <3>2. e \in Entries(u) /\ e[2] = j
        BY <1>16, <1>20, <3>1
      <3> QED
        BY <3>2
    <2> QED
      BY <1>24, <2>1, <2>2
  <1>26. ItemsOK(u)
    <2>1. u.populated \subseteq Below(u.top) /\ u.top <= u.reserved
      BY <1>20, <1>21
    <2>2. u.items \in [Below(u.reserved) -> Item]
      BY <1>2, <1>9, <1>15, <1>20
    <2>3. \A s \in Below(u.reserved) : IF s \in u.populated THEN u.items[s].key \in Key /\ u.items[s].value \in Value
                                       ELSE u.items[s] = Raw
      BY <1>2, <1>9, <1>15, <1>20, <1>21
    <2>4. \A q1, q2 \in u.populated : KeyOf(u, q1) = KeyOf(u, q2) => q1 = q2
      BY <1>9, <1>15, <1>21, <1>23
    <2> QED
      BY <1>20, <1>21, <1>24, <1>25, <2>1, <2>2, <2>3, <2>4 DEF ItemsOK
  <1>27. SameContents(u, r)
    BY <1>9, <1>20, <1>21, ContentsStay
  <1>28. SameContents(u, t)
    BY <1>15, <1>27, SameTwice
  <1> QED
    BY <1>2, <1>20, <1>22, <1>26, <1>28 DEF TableOK

-----------------------------------------------------------------------------
(* The steps of the program.                                               *)

\* A look-up in t ends.
Lookable(t) == t.slotsNull \/ t.size > 0

\* The item table is in proportion to n keys.  A full one, which the next
\* insertion enlarges, is not far above the keys it has.
Bounded(t, n) == 4 * t.top <= 3 * t.reserved + 4 * t.count + 12 /\ t.reserved <= 5 * n + 11

\* The table u comes after t.
Follows(u, t) ==
  /\ TableOK(u)
  /\ Lookable(t) => Lookable(u)
  /\ \A n \in Nat : t.count <= n /\ u.count <= n /\ Bounded(t, n) => Bounded(u, n)
  /\ Layout(u) = Layout(t) => u.reserved <= t.reserved

LEMMA TableCounts ==
  ASSUME NEW t, TableOK(t)
  PROVE  /\ t.count \in Nat /\ t.reserved \in Nat /\ t.top \in Nat /\ t.size \in Nat /\ t.slotsNull \in BOOLEAN
         /\ t.count <= t.top /\ t.top <= t.reserved
         /\ FiniteItems(t) /\ Cardinality(t.populated) = t.count /\ KeysApart(t)
  <1>1. /\ t.count \in Nat /\ t.reserved \in Nat /\ t.top \in Nat /\ t.size \in Nat /\ t.slotsNull \in BOOLEAN
        /\ FiniteItems(t) /\ Cardinality(t.populated) = t.count
    BY TableHasItems, IsTableFields DEF TableOK, HashOK
  <1>2. t.populated \in SUBSET Below(t.top) /\ t.top <= t.reserved /\ KeysApart(t)
    BY DEF TableOK, ItemsOK, KeysApart
  <1>3. IsFiniteSet(Below(t.top)) /\ Cardinality(Below(t.top)) = t.top
    BY <1>1, BelowIsFinite
  <1>4. t.count <= t.top
    BY <1>1, <1>2, <1>3, FS_Subset
  <1> QED
    BY <1>1, <1>2, <1>4

LEMMA ShownKeys ==
  ASSUME NEW t, FiniteItems(t), NEW d, NEW o, Shows(t, d, o)
  PROVE  /\ \A m \in 1..Len(o) : o[m] \in DOMAIN d
         /\ \A k : k \in DOMAIN d <=> HasKey(t, k)
  <1>1. ASSUME NEW m \in 1..Len(o) PROVE o[m] \in DOMAIN d
    <2>1. m - 1 \in Below(Cardinality(t.populated))
      BY DEF Shows, Below
    <2>2. PICK p \in t.populated : Rank(t, p) = m - 1
      BY <2>1, RankReaches
    <2>3. o[(m - 1) + 1] = KeyOf(t, p) /\ (m - 1) + 1 = m
      BY <2>2 DEF Shows
    <2> QED
      BY <2>3 DEF Shows
  <1> QED
    BY <1>1 DEF Shows, HasKey

LEMMA InsertFollows ==
  ASSUME NEW t, TableOK(t), NEW u, NEW s, NEW k, NEW v, Inserted(u, t, s, k, v)
  PROVE  Follows(u, t)
  <1>1. /\ t.count \in Nat /\ t.reserved \in Nat /\ t.top \in Nat /\ t.count <= t.top /\ t.top <= t.reserved
    BY TableCounts
  <1>2. TableOK(u) /\ s \in u.populated /\ s \notin t.populated /\ u.count = t.count + 1 /\ u.size > 0 /\ GrownFrom(u, t)
    BY TableCounts DEF Inserted, FiniteItems
  <1>3. u.reserved \in Nat /\ u.top \in Nat
    BY <1>2, TableCounts
  <1>4. Layout(u) # Layout(t)
    <2>1. DOMAIN Layout(u) = u.populated /\ DOMAIN Layout(t) = t.populated
      BY DEF Layout
    <2> QED
      BY <1>2, <2>1
  <1>5. ASSUME NEW n \in Nat, t.count <= n, u.count <= n, Bounded(t, n) PROVE Bounded(u, n)
    <2>1. 4 * t.top <= 3 * t.reserved + 4 * t.count + 12 /\ t.reserved <= 5 * n + 11 /\ t.count + 1 <= n
      BY <1>2, <1>5 DEF Bounded
    <2>2. u.top = t.top + 1
      BY <1>2 DEF GrownFrom
    <2>3. CASE t.top < t.reserved /\ u.reserved = t.reserved
      BY <1>1, <1>2, <2>1, <2>2, <2>3 DEF Bounded
    <2>4. CASE t.top = t.reserved /\ t.reserved = 0 /\ u.reserved = 4
      BY <1>1, <1>2, <2>1, <2>2, <2>4 DEF Bounded
    <2>5. CASE t.top = t.reserved /\ u.reserved = Enlarged(t.reserved)
      <3>1. u.reserved = (t.reserved * 5) \div 4 + 1
        BY <2>5 DEF Enlarged
      <3>2. t.reserved <= 4 * n + 8
        BY <1>1, <2>1, <2>5
      <3>3. u.reserved <= 5 * n + 11 /\ u.reserved >= t.reserved + 1
        BY <1>1, <3>1, <3>2
      <3> QED
        BY <1>1, <1>2, <1>3, <2>1, <2>2, <2>5, <3>3 DEF Bounded
    <2> QED
      BY <1>2, <2>3, <2>4, <2>5 DEF GrownFrom
  <1> QED
    BY <1>2, <1>4, <1>5 DEF Follows, Lookable

LEMMA UpdateFollows ==
  ASSUME NEW t, TableOK(t), NEW u, NEW f, NEW v, Updated(u, t, f, v)
  PROVE  Follows(u, t)
  <1>1. t.reserved \in Nat
    BY TableCounts
  <1> QED
    BY <1>1 DEF Updated, Follows, SameHash, Bounded, Lookable

LEMMA CopyFollows ==
  ASSUME NEW t, TableOK(t), NEW u, Copies(u, t), Lookable(t) => Lookable(u)
  PROVE  Follows(u, t)
  <1>1. t.reserved \in Nat
    BY TableCounts
  <1> QED
    BY <1>1 DEF Copies, Follows, Bounded

LEMMA ClearFollows ==
  ASSUME NEW t, TableOK(t), NEW u, u = Cleared(t)
  PROVE  Follows(u, t) /\ u.populated = {}
  <1>1. /\ Emptied(u, t) \/ (u = t /\ t.populated = {})
        /\ t.slotsNull \/ t.size > 0 => u.slotsNull \/ u.size > 0
    BY ClearedIs
  <1>2. t.reserved \in Nat /\ t.count \in Nat
    BY TableCounts
  <1>3. CASE Emptied(u, t)
    <2>1. /\ TableOK(u) /\ u.populated = {} /\ u.count = 0 /\ u.reserved = t.reserved /\ u.top = 0
      BY <1>3 DEF Emptied
    <2> QED
      BY <1>1, <1>2, <2>1 DEF Follows, Bounded, Lookable
  <1>4. CASE u = t /\ t.populated = {}
    BY <1>2, <1>4 DEF Follows
  <1> QED
    BY <1>1, <1>3, <1>4

LEMMA ReloadFollows ==
  ASSUME NEW t, TableOK(t), NEW u, u = Reloaded(t)
  PROVE  Follows(u, t) /\ SameContents(u, t)
  <1>1. /\ TableOK(u) /\ SameContents(u, t) /\ u.count = t.count
        /\ u.reserved = t.count /\ u.top = t.count /\ u.size > 0
    BY ReloadedIs
  <1>2. t.reserved \in Nat /\ t.count \in Nat /\ t.count <= t.reserved
    BY TableCounts
  <1>3. Lookable(u)
    BY <1>1 DEF Lookable
  <1>4. \A n \in Nat : t.count <= n => Bounded(u, n)
    BY <1>1, <1>2 DEF Bounded
  <1> QED
    BY <1>1, <1>2, <1>3, <1>4 DEF Follows

LEMMA RemoveFollows ==
  ASSUME NEW t, TableOK(t), NEW k \in Key, NEW u, u = Removed(t, k)
  PROVE  Follows(u, t)
  <1>1. TableOK(u) /\ Without(u, t, k) /\ Shrunk(u, t) /\ (Lookable(t) => Lookable(u))
    BY RemovedIs DEF Lookable
  <1>2. t.reserved \in Nat /\ t.count \in Nat /\ t.count <= t.reserved
    BY TableCounts
  <1>3. u.reserved \in Nat /\ u.count \in Nat /\ u.top \in Nat /\ u.top <= u.reserved
    BY <1>1, TableCounts
  <1>4. u.reserved <= t.reserved /\ (u.reserved = t.reserved \/ u.reserved = t.count)
    BY <1>1, <1>2 DEF Shrunk
  <1>5. u.count >= t.count - 1
    BY <1>1, <1>2 DEF Without
  <1>6. ASSUME NEW n \in Nat, t.count <= n, Bounded(t, n) PROVE Bounded(u, n)
    <2>1. CASE u = t
      BY <1>6, <2>1
    <2>2. CASE u # t
      <3>1. u.reserved <= 4 * (t.count + 2)
        BY <1>1, <2>2 DEF Shrunk
      <3>2. 4 * u.top <= 3 * u.reserved + 4 * u.count + 12
        BY <1>2, <1>3, <1>5, <3>1
      <3>3. t.reserved <= 5 * n + 11
        BY <1>6 DEF Bounded
      <3> QED
        BY <1>2, <1>3, <1>4, <1>6, <3>2, <3>3 DEF Bounded
    <2> QED
      BY <2>1, <2>2
  <1> QED
    BY <1>1, <1>4, <1>6 DEF Follows

\* What is shown when a key has been removed.
LEMMA RemovedShows ==
  ASSUME NEW t, TableOK(t), NEW k \in Key, NEW u, u = Removed(t, k), NEW d, NEW o, Shows(t, d, o),
         NEW e, e = [j \in DOMAIN d \ {k} |-> d[j]], NEW w, w = RemoveFirst(o, k)
  PROVE  Shows(u, e, w)
  <1>1. Without(u, t, k)
    BY RemovedIs
  <1>2. CASE HasKey(t, k)
    <2>1. PICK v : /\ TableOK(v) /\ SameContents(v, t)
                   /\ \E q \in v.populated : KeyOf(v, q) = k /\ u.populated = v.populated \ {q}
                   /\ \A p \in u.populated : u.items[p] = v.items[p]
      BY <1>1, <1>2 DEF Without
    <2>2. PICK q \in v.populated : KeyOf(v, q) = k /\ u.populated = v.populated \ {q}
      BY <2>1
    <2>3. Shows(v, d, o)
      BY <2>1, SameShown
    <2>4. FiniteItems(v) /\ KeysApart(v)
      BY <2>1, TableCounts
    <2> QED
      BY <2>1, <2>2, <2>3, <2>4, ShowsRemoved
  <1>3. CASE ~HasKey(t, k)
    <2>1. SameContents(u, t)
      BY <1>1, <1>3 DEF Without
    <2>2. FiniteItems(t)
      BY TableCounts
    <2>3. k \notin DOMAIN d /\ \A m \in 1..Len(o) : o[m] \in DOMAIN d
      BY <1>3, <2>2, ShownKeys
    <2>4. e = d
      BY <2>3 DEF Shows
    <2>5. w = o
      BY <2>3 DEF RemoveFirst
    <2> QED
      BY <2>1, <2>4, <2>5, SameShown
  <1> QED
    BY <1>2, <1>3

\* What is shown when a key has been inserted.
LEMMA InsertedShows ==
  ASSUME NEW t, TableOK(t), NEW u, NEW s, NEW k \in Key, NEW v, Inserted(u, t, s, k, v),
         NEW d, NEW o, Shows(t, d, o), k \notin DOMAIN d,
         NEW e, e = PutIn(d, k, v), NEW w, w = Append(o, k)
  PROVE  Shows(u, e, w)
  <1>1. FiniteItems(t)
    BY TableCounts
  <1>2. HasOneMore(u, t, s, k, v)
    <2>1. u.items[s] = [key |-> k, value |-> v]
      BY DEF Inserted
    <2>2. u.items[s].key = k /\ u.items[s].value = v
      BY <2>1
    <2> QED
      BY <2>2 DEF Inserted, HasOneMore
  <1> QED
    BY <1>1, <1>2, ShowsAdded

-----------------------------------------------------------------------------
(* The table, what it shows, and that nobody reported it broken.           *)

TableInv == TableOK(table) /\ Shows(table, dict, order) /\ broken = FALSE

\* The iterators see t replaced by u.
IterChanged(u, t) ==
  [i \in Iter |-> [iter[i] EXCEPT
     !.moved = @ \/ (Iterating(i) /\ Layout(u) # Layout(t)),
     !.stale = @ \/ (Iterating(i) /\ Range(Layout(u)) # Range(Layout(t)))]]

\* A step that replaces the table.
Replaces == Follows(table', table) /\ TableInv' /\ iter' = IterChanged(table', table)

LEMMA SetItemReplaces ==
  ASSUME TableInv, NEW k \in Key, NEW v \in Value, SetItem(k, v)
  PROVE  Replaces
  <1>1. PICK t : t = table
    OBVIOUS
  <1>2. PICK found : found = Find(t, k)
    OBVIOUS
  <1>3. PICK r : r = NewSlot(t)
    OBVIOUS
  <1>4. PICK s : s = r.top - 1
    OBVIOUS
  <1>5. PICK u : u = IF found >= 0 THEN [t EXCEPT !.items[found].value = v]
                     ELSE [Add(r, Hash[k], s) EXCEPT !.items[s] = [key |-> k, value |-> v]]
    OBVIOUS
  <1>6. PICK d : d = PutIn(dict, k, v)
    OBVIOUS
  <1>7. PICK o : o = IF k \in DOMAIN dict THEN order ELSE Append(order, k)
    OBVIOUS
  <1>8. table' = u /\ dict' = d /\ order' = o /\ iter' = IterChanged(u, t) /\ broken' = broken
    BY <1>1, <1>2, <1>3, <1>4, <1>5, <1>6, <1>7 DEF SetItem, Change, Put, PutIn, IterChanged
  <1>9. TableOK(t) /\ Shows(t, dict, order) /\ FiniteItems(t) /\ KeysApart(t)
    BY <1>1, TableCounts DEF TableInv
  <1>10. \A p \in t.populated : p \in Nat
    BY <1>9 DEF FiniteItems
  <1>11. k \in DOMAIN dict <=> HasKey(t, k)
    BY <1>9, ShownKeys
  <1>12. CASE HasKey(t, k)
    <2>1. PICK f \in t.populated : KeyOf(t, f) = k
      BY <1>12 DEF HasKey
    <2>2. found = f /\ f >= 0
      BY <1>2, <1>9, <1>10, <2>1, FindIs
    <2>3. u = [t EXCEPT !.items[f].value = v]
      BY <1>5, <2>2
    <2>4. Updated(u, t, f, v)
      BY <1>9, <2>3, UpdatedIs
    <2>5. Follows(u, t)
      BY <1>9, <2>4, UpdateFollows
    <2>6. u.populated = t.populated /\ u.items[f].key = k /\ u.items[f].value = v
          /\ \A p \in t.populated : p # f => u.items[p] = t.items[p]
      BY <2>1, <2>4 DEF Updated, KeyOf
    <2>7. Shows(u, d, order)
      BY <1>6, <1>9, <2>1, <2>6, ShowsUpdated
    <2>8. o = order
      BY <1>7, <1>11, <1>12
    <2> QED
      BY <1>1, <1>8, <2>5, <2>7, <2>8 DEF Replaces, TableInv, Follows
  <1>13. CASE ~HasKey(t, k)
    <2>1. ~(found >= 0)
      BY <1>2, <1>9, <1>13, FindIs DEF Lost, EMPTY
    <2>2. u = [Add(r, Hash[k], s) EXCEPT !.items[s] = [key |-> k, value |-> v]]
      BY <1>5, <2>1
    <2>3. Inserted(u, t, s, k, v)
      BY <1>3, <1>4, <1>9, <1>13, <2>2, InsertedIs
    <2>4. Follows(u, t)
      BY <1>9, <2>3, InsertFollows
    <2>6. o = Append(order, k) /\ k \notin DOMAIN dict
      BY <1>7, <1>11, <1>13
    <2>7. Shows(u, d, o)
      BY <1>6, <1>9, <2>3, <2>6, InsertedShows
    <2> QED
      BY <1>1, <1>8, <2>4, <2>7 DEF Replaces, TableInv, Follows
  <1> QED
    BY <1>12, <1>13

LEMMA DeleteKeyReplaces ==
  ASSUME TableInv, NEW k \in Key, DeleteKey(k)
  PROVE  Replaces
  <1>1. PICK t : t = table
    OBVIOUS
  <1>2. TableOK(t) /\ Shows(t, dict, order)
    BY <1>1 DEF TableInv
  <1>3. ~Corrupt(table)
    BY <1>1, <1>2 DEF Corrupt, TableOK, ItemsOK, SlotsOf
  <1>4. PICK u : u = Removed(t, k)
    OBVIOUS
  <1>5. PICK d : d = [j \in DOMAIN dict \ {k} |-> dict[j]]
    OBVIOUS
  <1>6. PICK o : o = RemoveFirst(order, k)
    OBVIOUS
  <1>7. table' = u /\ dict' = d /\ order' = o /\ iter' = IterChanged(u, t) /\ broken' = broken
    BY <1>1, <1>3, <1>4, <1>5, <1>6 DEF DeleteKey, Change, IterChanged
  <1>8. Follows(u, t)
    BY <1>2, <1>4, RemoveFollows
  <1>9. Shows(u, d, o)
    BY <1>2, <1>4, <1>5, <1>6, RemovedShows
  <1> QED
    BY <1>1, <1>7, <1>8, <1>9 DEF Replaces, TableInv, Follows

\* A table without items shows the empty dict.
LEMMA NothingShown ==
  ASSUME NEW t, t.populated = {}
  PROVE  Shows(t, << >>, << >>)
  <1>1. Cardinality(t.populated) = 0
    BY FS_EmptySet
  <1>2. DOMAIN << >> = {} /\ << >> = [k \in DOMAIN << >> |-> << >>[k]]
    OBVIOUS
  <1>3. << >> \in Seq(Key) /\ Len(<< >>) = 0
    OBVIOUS
  <1> QED
    BY <1>1, <1>2, <1>3 DEF Shows

LEMMA ClearReplaces ==
  ASSUME TableInv, Clear
  PROVE  Replaces
  <1>1. PICK t : t = table
    OBVIOUS
  <1>2. TableOK(t)
    BY <1>1 DEF TableInv
  <1>3. PICK u : u = Cleared(t)
    OBVIOUS
  <1>4. table' = u /\ dict' = << >> /\ order' = << >> /\ iter' = IterChanged(u, t) /\ broken' = broken
    BY <1>1, <1>3 DEF Clear, Change, IterChanged
  <1>5. Follows(u, t) /\ u.populated = {}
    BY <1>2, <1>3, ClearFollows
  <1>6. Shows(u, << >>, << >>)
    BY <1>5, NothingShown
  <1> QED
    BY <1>1, <1>4, <1>5, <1>6 DEF Replaces, TableInv, Follows

\* The program goes on with a copy u of t.
LEMMA GoOnReplaces ==
  ASSUME TableInv, NEW u, Follows(u, table), SameContents(u, table), GoOnWith(u)
  PROVE  Replaces
  <1>1. table' = u /\ dict' = dict /\ order' = order /\ iter' = IterChanged(u, table) /\ broken' = broken
    BY DEF GoOnWith, Change, IterChanged
  <1>2. Shows(u, dict, order)
    BY SameShown DEF TableInv
  <1> QED
    BY <1>1, <1>2 DEF Replaces, TableInv, Follows

LEMMA CopiesReplace ==
  ASSUME TableInv, Copy \/ DeepCopy \/ Reload
  PROVE  Replaces
  <1>0. TableOK(table)
    BY DEF TableInv
  <1>1. CASE Copy
    <2>1. PICK u : u = Copied(table)
      OBVIOUS
    <2>2. Copies(u, table) /\ (Lookable(table) => Lookable(u))
      BY <1>0, <2>1, CopiedIs DEF Lookable
    <2>3. Follows(u, table) /\ SameContents(u, table)
      BY <1>0, <2>2, CopyFollows DEF Copies
    <2> QED
      BY <1>1, <2>1, <2>3, GoOnReplaces DEF Copy
  <1>2. CASE DeepCopy
    <2>1. PICK u : u = DeepCopied(table)
      OBVIOUS
    <2>2. Copies(u, table) /\ Lookable(u)
      BY <1>0, <2>1, DeepCopiedIs DEF Lookable
    <2>3. Follows(u, table) /\ SameContents(u, table)
      BY <1>0, <2>2, CopyFollows DEF Copies
    <2> QED
      BY <1>2, <2>1, <2>3, GoOnReplaces DEF DeepCopy
  <1>3. CASE Reload
    <2>1. PICK u : u = Reloaded(table)
      OBVIOUS
    <2>2. Follows(u, table) /\ SameContents(u, table)
      BY <1>0, <2>1, ReloadFollows
    <2>3. GoOnWith(u)
      BY <1>0, <1>3, <2>1, TableCounts DEF Reload
    <2> QED
      BY <2>2, <2>3, GoOnReplaces
  <1> QED
    BY <1>1, <1>2, <1>3

\* A step of an iterator, that leaves the table alone.
Iterates ==
  /\ \E i \in Iter : (\E kind \in Kinds \ {"none"} : NewIterator(i, kind)) \/ IterNext(i) \/ FastNext(i)
  /\ UNCHANGED <<table, dict, order, broken>>

LEMMA StepsAre ==
  ASSUME TableInv, [Next]_vars
  PROVE  Replaces \/ Iterates \/ UNCHANGED vars
  <1>1. ASSUME NEW k \in Key, NEW v \in Value, SetItem(k, v) PROVE Replaces
    BY <1>1, SetItemReplaces
  <1>2. ASSUME NEW k \in Key, DeleteKey(k) PROVE Replaces
    BY <1>2, DeleteKeyReplaces
  <1>3. CASE Clear \/ Copy \/ DeepCopy \/ Reload
    BY <1>3, ClearReplaces, CopiesReplace
  <1>4. ASSUME NEW i \in Iter, (\E kind \in Kinds \ {"none"} : NewIterator(i, kind)) \/ IterNext(i) \/ FastNext(i)
        PROVE  Iterates
    <2>1. UNCHANGED <<table, dict, order, broken>>
      BY <1>4 DEF NewIterator, IterNext, FastNext
    <2> QED
      BY <1>4, <2>1 DEF Iterates
  <1> QED
    BY <1>1, <1>2, <1>3, <1>4 DEF Next

-----------------------------------------------------------------------------
(* The iterators.                                                          *)

IterRec ==
  [kind : Kinds, offset : {n \in Int : n >= -1}, size : Nat, seen : Seq(Key \cup {NoKey}),
   live : BOOLEAN, moved : BOOLEAN, stale : BOOLEAN, done : BOOLEAN]

IterInv ==
  /\ iter \in [Iter -> IterRec]
  /\ \A i \in Iter : /\ iter[i].kind = "interpreted" => iter[i].offset >= 0
                     /\ iter[i].kind = "compiled" => iter[i].live = TRUE

LEMMA NextPopulatedIs ==
  ASSUME NEW t, TableOK(t), NEW from \in Nat, NEW s, s = NextPopulated(t, from)
  PROVE  /\ s \in Nat /\ (s \in t.populated \/ s = t.reserved) /\ (s < t.reserved => s \in t.populated)
         /\ Rank(t, s) = Rank(t, from)
  <1> DEFINE later == {p \in t.populated : p >= from}
  <1>1. /\ t.reserved \in Nat /\ \A p \in t.populated : p \in Nat /\ p < t.reserved
    <2>1. t.reserved \in Nat
      BY TableCounts
    <2>2. \A p \in t.populated : p \in Nat /\ p \in Below(t.reserved)
      BY LiveItem
    <2> QED
      BY <2>1, <2>2 DEF Below
  <1>2. CASE later = {}
    <2>1. s = t.reserved
      BY <1>2 DEF NextPopulated
    <2>2. {p \in t.populated : p < s} = {p \in t.populated : p < from}
      BY <1>1, <1>2, <2>1
    <2> QED
      BY <1>1, <2>1, <2>2 DEF Rank
  <1>3. CASE later # {}
    <2>1. \E p \in later : \A q \in later : p <= q
      <3>1. later \subseteq Nat
        BY <1>1
      <3> HIDE DEF later
      <3> QED
        BY <1>3, <3>1, LeastOf
    <2>2. s = CHOOSE p \in later : \A q \in later : p <= q
      BY <1>3 DEF NextPopulated
    <2> HIDE DEF later
    <2>3. s \in later /\ \A q \in later : s <= q
      BY <2>1, <2>2
    <2>4. s \in t.populated /\ s >= from /\ \A q \in t.populated : q >= from => s <= q
      BY <2>3 DEF later
    <2>5. {p \in t.populated : p < s} = {p \in t.populated : p < from}
      BY <1>1, <2>4
    <2> QED
      BY <1>1, <2>4, <2>5 DEF Rank
  <1> QED
    BY <1>2, <1>3

\* A yield leaves one more item behind.
LEMMA RankAfter ==
  ASSUME NEW t, FiniteItems(t), NEW s \in t.populated
  PROVE  Rank(t, s + 1) = Rank(t, s) + 1 /\ s + 1 \in Nat /\ s \in Nat
  <1>1. PICK A : A = {p \in t.populated : p < s}
    OBVIOUS
  <1>2. PICK B : B = {p \in t.populated : p < s + 1}
    OBVIOUS
  <1>3. s \in Nat /\ t.populated \subseteq Nat
    BY DEF FiniteItems
  <1>4. B = A \cup {s} /\ s \notin A /\ A \in SUBSET t.populated
    BY <1>1, <1>2, <1>3
  <1>5. IsFiniteSet(A)
    BY <1>4, FS_Subset DEF FiniteItems
  <1>6. Cardinality(A \cup {s}) = Cardinality(A) + 1
    BY <1>4, <1>5, FS_AddElement
  <1> QED
    BY <1>1, <1>2, <1>3, <1>4, <1>6 DEF Rank

LEMMA RankAtEnds ==
  ASSUME NEW t, TableOK(t)
  PROVE  Rank(t, 0) = 0 /\ \A s \in Nat : s >= t.reserved => Rank(t, s) = Cardinality(t.populated)
  <1>1. /\ t.reserved \in Nat /\ \A p \in t.populated : p \in Nat /\ p < t.reserved
    <2>1. t.reserved \in Nat
      BY TableCounts
    <2>2. \A p \in t.populated : p \in Nat /\ p \in Below(t.reserved)
      BY LiveItem
    <2> QED
      BY <2>1, <2>2 DEF Below
  <1>2. {p \in t.populated : p < 0} = {}
    BY <1>1
  <1>3. \A s \in Nat : s >= t.reserved => {p \in t.populated : p < s} = t.populated
    BY <1>1
  <1> QED
    BY <1>2, <1>3, FS_EmptySet DEF Rank

\* The slots below it have been yielded.
Reached(it) == IF it.kind = "compiled" THEN it.offset + 1 ELSE it.offset

\* it has yielded the keys of the slots it has reached, in order, and its
\* offset is one where the interpreter's iterator may stand.
Tracks(it, t, o) ==
  /\ it.stale = FALSE
  /\ Len(it.seen) = Rank(t, Reached(it)) /\ \A m \in 1..Len(it.seen) : it.seen[m] = o[m]
  /\ it.kind = "interpreted" => it.offset = 0 \/ it.offset \in t.populated \/ it.offset >= t.reserved

PathInv == \A i \in Iter : Iterating(i) /\ ~iter[i].moved => Tracks(iter[i], table, order)

\* A table with its keys in the slots where they were shows the same order.
LEMMA SameLayout ==
  ASSUME NEW t, FiniteItems(t), NEW u, Layout(u) = Layout(t), NEW d, NEW e, NEW o, NEW w, Shows(t, d, o), Shows(u, e, w)
  PROVE  u.populated = t.populated /\ w = o /\ \A p : Rank(u, p) = Rank(t, p)
  <1>1. DOMAIN Layout(u) = u.populated /\ DOMAIN Layout(t) = t.populated
    BY DEF Layout
  <1>2. u.populated = t.populated
    BY <1>1
  <1>3. \A p \in t.populated : Layout(u)[p] = KeyOf(u, p) /\ Layout(t)[p] = KeyOf(t, p)
    BY <1>2 DEF Layout, KeyOf
  <1>4. \A p \in t.populated : KeyOf(u, p) = KeyOf(t, p)
    BY <1>3
  <1>5. \A p : Rank(u, p) = Rank(t, p)
    BY <1>2 DEF Rank
  <1>6. o \in Seq(Key) /\ w \in Seq(Key) /\ Len(w) = Len(o) /\ Len(o) = Cardinality(t.populated)
    BY <1>2 DEF Shows
  <1>7. ASSUME NEW m \in 1..Len(o) PROVE w[m] = o[m]
    <2>1. m - 1 \in Below(Cardinality(t.populated))
      BY <1>6 DEF Below
    <2>2. PICK p \in t.populated : Rank(t, p) = m - 1
      BY <2>1, RankReaches
    <2>3. (m - 1) + 1 = m
      OBVIOUS
    <2>4. o[m] = KeyOf(t, p) /\ w[m] = KeyOf(u, p)
      BY <1>2, <1>5, <2>2, <2>3 DEF Shows
    <2> QED
      BY <1>4, <2>4
  <1>8. w = o
    BY <1>6, <1>7
  <1> QED
    BY <1>2, <1>5, <1>8

LEMMA ReplacesIter ==
  ASSUME TableInv, IterInv, Replaces
  PROVE  IterInv' /\ \A i \in Iter : iter'[i].done = iter[i].done
  <1>1. iter' = IterChanged(table', table)
    BY DEF Replaces
  <1>2. ASSUME NEW i \in Iter
        PROVE  /\ iter'[i] \in IterRec /\ iter'[i].kind = iter[i].kind /\ iter'[i].offset = iter[i].offset
               /\ iter'[i].live = iter[i].live /\ iter'[i].done = iter[i].done
    <2>1. PICK a \in BOOLEAN : a = (iter[i].moved \/ (Iterating(i) /\ Layout(table') # Layout(table)))
      OBVIOUS
    <2>2. PICK b \in BOOLEAN : b = (iter[i].stale \/ (Iterating(i) /\ Range(Layout(table')) # Range(Layout(table))))
      OBVIOUS
    <2>3. iter[i] \in IterRec
      BY DEF IterInv
    <2>4. iter'[i] = [iter[i] EXCEPT !.moved = a, !.stale = b]
      BY <1>1, <2>1, <2>2, <2>3 DEF IterChanged, IterRec
    <2> QED
      BY <2>3, <2>4 DEF IterRec
  <1>3. iter' \in [Iter -> IterRec]
    BY <1>1, <1>2 DEF IterChanged
  <1> QED
    BY <1>2, <1>3 DEF IterInv

LEMMA ReplacesPath ==
  ASSUME TableInv, IterInv, PathInv, Replaces
  PROVE  PathInv'
  <1>1. iter' = IterChanged(table', table) /\ Follows(table', table) /\ TableInv'
    BY DEF Replaces
  <1> SUFFICES ASSUME NEW i \in Iter, Iterating(i)', ~iter'[i].moved PROVE Tracks(iter[i], table, order)'
    BY DEF PathInv
  <1>2. PICK it \in IterRec : it = iter[i]
    BY DEF IterInv
  <1>3. PICK new : new = iter'[i]
    OBVIOUS
  <1>4. new = [it EXCEPT !.moved = @ \/ (Iterating(i) /\ Layout(table') # Layout(table)),
                         !.stale = @ \/ (Iterating(i) /\ Range(Layout(table')) # Range(Layout(table)))]
    BY <1>1, <1>2, <1>3 DEF IterChanged
  <1>5. /\ new.kind = it.kind /\ new.offset = it.offset /\ new.seen = it.seen /\ new.done = it.done
        /\ new.moved = (it.moved \/ (Iterating(i) /\ Layout(table') # Layout(table)))
        /\ new.stale = (it.stale \/ (Iterating(i) /\ Range(Layout(table')) # Range(Layout(table))))
    BY <1>4 DEF IterRec
  <1>6. Iterating(i) /\ ~it.moved /\ Layout(table') = Layout(table)
    BY <1>2, <1>3, <1>5 DEF Iterating
  <1>7. new.stale = it.stale
    BY <1>5, <1>6 DEF IterRec
  <1>8. Tracks(it, table, order)
    BY <1>2, <1>6 DEF PathInv
  <1>9. PICK t : t = table
    OBVIOUS
  <1>10. PICK u : u = table'
    OBVIOUS
  <1>11. FiniteItems(t) /\ t.reserved \in Nat /\ TableOK(u) /\ u.reserved <= t.reserved /\ u.reserved \in Nat
    BY <1>1, <1>6, <1>9, <1>10, TableCounts DEF TableInv, Follows
  <1>12. u.populated = t.populated /\ order' = order /\ \A p : Rank(u, p) = Rank(t, p)
    BY <1>1, <1>6, <1>9, <1>10, <1>11, SameLayout DEF TableInv
  <1>13. new.offset \in Int
    BY <1>5 DEF IterRec
  <1>14. Tracks(new, u, order)
    BY <1>5, <1>7, <1>8, <1>9, <1>11, <1>12, <1>13 DEF Tracks, Reached
  <1> QED
    BY <1>3, <1>10, <1>12, <1>14

\* What a step of iterator i makes of it.
Finished == [Unused EXCEPT !.done = TRUE]

YieldOf(it, slot, offset) ==
  [it EXCEPT !.offset = offset, !.live = @ /\ slot \in table.populated,
             !.seen = IF it.stale THEN << >> ELSE Append(@, table.items[slot].key)]

\* Iterator i starts, ends or yields an item, and has become new.
Becomes(i, it, new) ==
  \/ /\ it.kind = "none" \/ it.done
     /\ \E kind \in Kinds \ {"none"} :
          new = [Unused EXCEPT !.kind = kind, !.size = table.count,
                               !.offset = IF kind = "compiled" THEN -1 ELSE 0]
  \/ LET start == IF it.offset = 0 THEN NextPopulated(table, 0) ELSE it.offset
     IN  /\ it.kind = "interpreted" /\ ~it.done
         /\ \/ (table.count # it.size \/ start >= table.reserved) /\ new = Finished
            \/ ~(start >= table.reserved) /\ new = YieldOf(it, start, NextPopulated(table, start + 1))
  \/ LET slot == NextPopulated(table, it.offset + 1)
     IN  /\ it.kind = "compiled" /\ ~it.done
         /\ \/ (table.count # it.size \/ slot >= table.reserved) /\ new = Finished
            \/ ~(slot >= table.reserved) /\ new = YieldOf(it, slot, slot)

LEMMA IteratesIs ==
  ASSUME IterInv, Iterates
  PROVE  \E i \in Iter : \E new : Becomes(i, iter[i], new) /\ iter' = [iter EXCEPT ![i] = new]
  <1>1. PICK i \in Iter : (\E kind \in Kinds \ {"none"} : NewIterator(i, kind)) \/ IterNext(i) \/ FastNext(i)
    BY DEF Iterates
  <1>2. iter \in [Iter -> IterRec] /\ iter[i] \in IterRec
    BY DEF IterInv
  <1>3. ASSUME NEW slot, NEW offset, Yield(i, slot, offset)
        PROVE  iter' = [iter EXCEPT ![i] = YieldOf(iter[i], slot, offset)]
    BY <1>2, <1>3 DEF Yield, YieldOf, IterRec
  <1>4. CASE \E kind \in Kinds \ {"none"} : NewIterator(i, kind)
    BY <1>4 DEF NewIterator, Becomes
  <1>5. CASE IterNext(i)
    <2>1. PICK start : start = IF iter[i].offset = 0 THEN NextPopulated(table, 0) ELSE iter[i].offset
      OBVIOUS
    <2>2. CASE table.count # iter[i].size \/ start >= table.reserved
      BY <1>5, <2>1, <2>2 DEF IterNext, Finish, Finished, Becomes
    <2>3. CASE ~(table.count # iter[i].size \/ start >= table.reserved)
      <3>1. PICK offset : offset = NextPopulated(table, start + 1)
        OBVIOUS
      <3>2. Yield(i, start, offset) /\ iter[i].kind = "interpreted" /\ ~iter[i].done
        BY <1>5, <2>1, <2>3, <3>1 DEF IterNext
      <3>3. PICK new : new = YieldOf(iter[i], start, offset)
        OBVIOUS
      <3>4. iter' = [iter EXCEPT ![i] = new]
        BY <1>3, <3>2, <3>3
      <3>5. Becomes(i, iter[i], new)
        BY <2>1, <2>3, <3>1, <3>2, <3>3 DEF Becomes
      <3> QED
        BY <3>4, <3>5
    <2> QED
      BY <2>2, <2>3
  <1>6. CASE FastNext(i)
    <2>1. PICK slot : slot = NextPopulated(table, iter[i].offset + 1)
      OBVIOUS
    <2>2. CASE table.count # iter[i].size \/ slot >= table.reserved
      BY <1>6, <2>1, <2>2 DEF FastNext, Finish, Finished, Becomes
    <2>3. CASE ~(table.count # iter[i].size \/ slot >= table.reserved)
      <3>1. Yield(i, slot, slot) /\ iter[i].kind = "compiled" /\ ~iter[i].done
        BY <1>6, <2>1, <2>3 DEF FastNext
      <3>2. PICK new : new = YieldOf(iter[i], slot, slot)
        OBVIOUS
      <3>3. iter' = [iter EXCEPT ![i] = new]
        BY <1>3, <3>1, <3>2
      <3>4. Becomes(i, iter[i], new)
        BY <2>1, <2>3, <3>1, <3>2 DEF Becomes
      <3> QED
        BY <3>3, <3>4
    <2> QED
      BY <2>2, <2>3
  <1> QED
    BY <1>1, <1>4, <1>5, <1>6

\* What is true of an iterator at any time.
Sound(it) ==
  /\ it \in IterRec
  /\ it.kind = "interpreted" => it.offset >= 0
  /\ it.kind = "compiled" => it.live = TRUE

OnPath(it, t, o) == it.kind # "none" /\ ~it.done /\ ~it.moved => Tracks(it, t, o)

\* The iterator ends over the table it was made for.
EndsWith(it, new, t) == ~it.done /\ new.done /\ it.size = t.count

LEMMA UnusedIs ==
  Unused \in IterRec
  <1>1. "none" \in Kinds /\ 0 \in {n \in Int : n >= -1} /\ 0 \in Nat
    BY DEF Kinds
  <1>2. << >> \in Seq(Key \cup {NoKey}) /\ TRUE \in BOOLEAN /\ FALSE \in BOOLEAN
    OBVIOUS
  <1> QED
    BY <1>1, <1>2 DEF Unused, IterRec

LEMMA YieldIs ==
  ASSUME NEW t, TableOK(t), t = table, NEW o \in Seq(Key), Len(o) = Cardinality(t.populated),
         \A p \in t.populated : o[Rank(t, p) + 1] = KeyOf(t, p),
         NEW it, Sound(it), OnPath(it, t, o), it.kind # "none", ~it.done,
         NEW slot \in Nat, slot < t.reserved, NEW offset \in Nat, NEW new, new = YieldOf(it, slot, offset),
         it.kind = "compiled" => slot \in t.populated /\ offset = slot,
         it.kind = "interpreted" => /\ Rank(t, offset) = Rank(t, slot + 1)
                                    /\ offset \in t.populated \/ offset >= t.reserved,
         ~it.moved => slot \in t.populated /\ Rank(t, slot) = Rank(t, Reached(it))
  PROVE  Sound(new) /\ OnPath(new, t, o) /\ ~new.done
  <1>1. it \in IterRec
    BY DEF Sound
  <1>2. t.items[slot].key \in Key \cup {NoKey}
    <2>1. slot \in Below(t.reserved) /\ t.items \in [Below(t.reserved) -> Item]
      BY TableCounts DEF Below, TableOK, ItemsOK
    <2> QED
      BY <2>1 DEF Item
  <1>3. PICK seen \in Seq(Key \cup {NoKey}) : seen = IF it.stale THEN << >> ELSE Append(it.seen, t.items[slot].key)
    <2>1. it.seen \in Seq(Key \cup {NoKey})
      BY <1>1 DEF IterRec
    <2>2. PICK key \in Key \cup {NoKey} : key = t.items[slot].key
      BY <1>2
    <2>3. Append(it.seen, key) \in Seq(Key \cup {NoKey}) /\ << >> \in Seq(Key \cup {NoKey})
      BY <2>1
    <2> QED
      BY <2>2, <2>3
  <1>4. PICK live \in BOOLEAN : live = (it.live /\ slot \in t.populated)
    OBVIOUS
  <1>5. new = [it EXCEPT !.offset = offset, !.live = live, !.seen = seen]
    BY <1>1, <1>3, <1>4 DEF YieldOf, IterRec
  <1>6. offset \in {n \in Int : n >= -1}
    OBVIOUS
  <1>7. /\ new \in IterRec /\ new.offset = offset /\ new.seen = seen /\ new.live = live
        /\ new.kind = it.kind /\ new.done = it.done /\ new.moved = it.moved /\ new.stale = it.stale
    BY <1>1, <1>5, <1>6 DEF IterRec
  <1>8. Sound(new)
    <2>1. new.kind = "interpreted" => new.offset >= 0
      BY <1>7
    <2>2. new.kind = "compiled" => new.live = TRUE
      <3>1. CASE it.kind = "compiled"
        BY <1>4, <1>7, <3>1 DEF Sound
      <3>2. CASE it.kind # "compiled"
        BY <1>7, <3>2
      <3> QED
        BY <3>1, <3>2
    <2> QED
      BY <1>7, <2>1, <2>2 DEF Sound
  <1>9. ASSUME ~it.moved PROVE Tracks(new, t, o)
    <2>1. /\ it.stale = FALSE /\ Len(it.seen) = Rank(t, Reached(it)) /\ \A m \in 1..Len(it.seen) : it.seen[m] = o[m]
      BY <1>9 DEF OnPath, Tracks
    <2>2. slot \in t.populated /\ Rank(t, slot) = Rank(t, Reached(it)) /\ o[Rank(t, slot) + 1] = KeyOf(t, slot)
      BY <1>9
    <2>3. seen = Append(it.seen, KeyOf(t, slot)) /\ it.seen \in Seq(Key \cup {NoKey})
      BY <1>1, <1>3, <2>1 DEF KeyOf, IterRec
    <2>4. PICK n \in Nat : n = Len(it.seen)
      BY <2>3
    <2>5. /\ Len(seen) = n + 1 /\ seen[n + 1] = KeyOf(t, slot)
          /\ \A m \in 1..n : seen[m] = it.seen[m]
      BY <2>3, <2>4
    <2>6. \A m \in 1..(n + 1) : seen[m] = o[m]
      BY <2>1, <2>2, <2>4, <2>5
    <2>7. Rank(t, slot + 1) = n + 1
      BY <2>1, <2>2, <2>4, TableCounts, RankAfter
    <2>8. Rank(t, Reached(new)) = n + 1
      <3>1. it.kind \in {"interpreted", "compiled"}
        BY <1>1 DEF IterRec, Kinds
      <3>2. CASE it.kind = "compiled"
        BY <1>7, <2>7, <3>2 DEF Reached
      <3>3. CASE it.kind = "interpreted"
        BY <1>7, <2>7, <3>3 DEF Reached
      <3> QED
        BY <3>1, <3>2, <3>3
    <2> QED
      BY <1>7, <2>1, <2>5, <2>6, <2>8 DEF Tracks
  <1> QED
    BY <1>7, <1>8, <1>9 DEF OnPath

LEMMA BecomesIs ==
  ASSUME NEW t, TableOK(t), t = table, NEW d, NEW o, Shows(t, d, o),
         NEW i, NEW it, Sound(it), OnPath(it, t, o), NEW new, Becomes(i, it, new)
  PROVE  Sound(new) /\ OnPath(new, t, o) /\ (EndsWith(it, new, t) /\ ~it.moved => it.seen = o)
  <1>0. /\ t.reserved \in Nat /\ FiniteItems(t) /\ Cardinality(t.populated) = t.count /\ t.count \in Nat
        /\ o \in Seq(Key) /\ Len(o) = Cardinality(t.populated)
        /\ \A p \in t.populated : o[Rank(t, p) + 1] = KeyOf(t, p)
    BY TableCounts DEF Shows
  <1>1. it \in IterRec
    BY DEF Sound
  <1>2. Sound(Finished) /\ OnPath(Finished, t, o)
    <2>1. Unused \in IterRec
      BY UnusedIs
    <2>2. TRUE \in BOOLEAN
      OBVIOUS
    <2>3. Finished \in IterRec /\ Finished.kind = "none" /\ Finished.done = TRUE
      BY <2>1, <2>2 DEF Finished, IterRec, Unused
    <2> QED
      BY <2>3 DEF Sound, OnPath
  \* An iterator that has reached the end has seen every key.
  <1>3. ASSUME it.kind # "none", ~it.done, ~it.moved, Rank(t, Reached(it)) = t.count PROVE it.seen = o
    <2>1. Len(it.seen) = t.count /\ \A m \in 1..Len(it.seen) : it.seen[m] = o[m]
      BY <1>3 DEF OnPath, Tracks
    <2>2. it.seen \in Seq(Key \cup {NoKey})
      BY <1>1 DEF IterRec
    <2> QED
      BY <1>0, <2>1, <2>2
  <1>4. ASSUME it.kind = "none" \/ it.done, NEW kind \in Kinds \ {"none"},
               new = [Unused EXCEPT !.kind = kind, !.size = table.count, !.offset = IF kind = "compiled" THEN -1 ELSE 0]
        PROVE  Sound(new) /\ OnPath(new, t, o) /\ ~new.done
    <2>1. PICK f \in {n \in Int : n >= -1} : f = IF kind = "compiled" THEN -1 ELSE 0
      OBVIOUS
    <2>2. new = [Unused EXCEPT !.kind = kind, !.size = t.count, !.offset = f]
      BY <1>4, <2>1
    <2>3. Unused \in IterRec
      BY UnusedIs
    <2>4. kind \in Kinds
      OBVIOUS
    <2>5. /\ new \in IterRec /\ new.kind = kind /\ new.offset = f /\ new.seen = << >> /\ new.live = TRUE
          /\ new.stale = FALSE /\ new.done = FALSE
      BY <1>0, <2>2, <2>3, <2>4 DEF Unused, IterRec
    <2>6. Reached(new) = 0
      BY <2>1, <2>5 DEF Reached
    <2>7. Tracks(new, t, o)
      <3>1. Rank(t, Reached(new)) = 0
        BY <2>6, RankAtEnds
      <3>2. new.kind = "interpreted" => new.offset = 0
        BY <2>1, <2>5
      <3>3. Len(new.seen) = 0
        BY <2>5
      <3> QED
        BY <2>5, <3>1, <3>2, <3>3 DEF Tracks
    <2>8. Sound(new)
      BY <2>1, <2>5 DEF Sound
    <2> QED
      BY <2>5, <2>7, <2>8 DEF OnPath
  <1>5. ASSUME it.kind = "interpreted", ~it.done, NEW start, start = IF it.offset = 0 THEN NextPopulated(table, 0) ELSE it.offset,
               \/ (table.count # it.size \/ start >= table.reserved) /\ new = Finished
               \/ ~(start >= table.reserved) /\ new = YieldOf(it, start, NextPopulated(table, start + 1))
        PROVE  Sound(new) /\ OnPath(new, t, o) /\ (EndsWith(it, new, t) /\ ~it.moved => it.seen = o)
    <2>1. /\ start \in Nat /\ Rank(t, start) = Rank(t, Reached(it))
          /\ ~it.moved => start \in t.populated \/ start >= t.reserved
      <3>1. CASE it.offset = 0
        <4>1. start = NextPopulated(t, 0)
          BY <1>5, <3>1
        <4>2. start \in Nat /\ Rank(t, start) = Rank(t, 0) /\ (start \in t.populated \/ start = t.reserved)
          BY <4>1, NextPopulatedIs
        <4> QED
          BY <1>0, <1>5, <3>1, <4>2 DEF Reached
      <3>2. CASE it.offset # 0
        <4>1. start = it.offset /\ start \in Nat
          BY <1>1, <1>5, <3>2 DEF Sound, IterRec
        <4>2. ~it.moved => start \in t.populated \/ start >= t.reserved
          BY <1>5, <3>2, <4>1 DEF OnPath, Tracks
        <4>3. Reached(it) = start
          BY <1>5, <4>1 DEF Reached
        <4> QED
          BY <4>1, <4>2, <4>3
      <3> QED
        BY <3>1, <3>2
    <2>2. CASE (table.count # it.size \/ start >= table.reserved) /\ new = Finished
      <3>1. ASSUME EndsWith(it, new, t), ~it.moved PROVE it.seen = o
        <4>1. start >= t.reserved
          BY <2>2, <3>1 DEF EndsWith
        <4>2. Rank(t, start) = t.count
          BY <1>0, <2>1, <4>1, RankAtEnds
        <4> QED
          BY <1>3, <1>5, <2>1, <3>1, <4>2
      <3> QED
        BY <1>2, <2>2, <3>1
    <2>3. CASE ~(start >= table.reserved) /\ new = YieldOf(it, start, NextPopulated(table, start + 1))
      <3>1. PICK offset : offset = NextPopulated(t, start + 1)
        OBVIOUS
      <3>2. start + 1 \in Nat
        BY <2>1
      <3>3. offset \in Nat /\ (offset \in t.populated \/ offset = t.reserved) /\ Rank(t, offset) = Rank(t, start + 1)
        BY <3>1, <3>2, NextPopulatedIs
      <3>4. new = YieldOf(it, start, offset) /\ start < t.reserved
        BY <1>0, <2>1, <2>3, <3>1
      <3>5. offset \in t.populated \/ offset >= t.reserved
        BY <1>0, <3>3
      <3>6. ~it.moved => start \in t.populated /\ Rank(t, start) = Rank(t, Reached(it))
        BY <1>0, <2>1, <3>4
      <3>7. Sound(new) /\ OnPath(new, t, o) /\ ~new.done
        BY <1>0, <1>5, <2>1, <3>3, <3>4, <3>5, <3>6, YieldIs
      <3> QED
        BY <3>7 DEF EndsWith
    <2> QED
      BY <1>5, <2>2, <2>3
  <1>6. ASSUME it.kind = "compiled", ~it.done, NEW slot, slot = NextPopulated(table, it.offset + 1),
               \/ (table.count # it.size \/ slot >= table.reserved) /\ new = Finished
               \/ ~(slot >= table.reserved) /\ new = YieldOf(it, slot, slot)
        PROVE  Sound(new) /\ OnPath(new, t, o) /\ (EndsWith(it, new, t) /\ ~it.moved => it.seen = o)
    <2>1. it.offset + 1 \in Nat /\ Reached(it) = it.offset + 1
      BY <1>1, <1>6 DEF IterRec, Reached
    <2>2. /\ slot \in Nat /\ Rank(t, slot) = Rank(t, Reached(it)) /\ (slot < t.reserved => slot \in t.populated)
      <3>1. slot = NextPopulated(t, it.offset + 1)
        BY <1>6
      <3> QED
        BY <2>1, <3>1, NextPopulatedIs
    <2>3. CASE (table.count # it.size \/ slot >= table.reserved) /\ new = Finished
      <3>1. ASSUME EndsWith(it, new, t), ~it.moved PROVE it.seen = o
        <4>1. slot >= t.reserved
          BY <2>3, <3>1 DEF EndsWith
        <4>2. Rank(t, slot) = t.count
          BY <1>0, <2>2, <4>1, RankAtEnds
        <4> QED
          BY <1>3, <1>6, <2>2, <3>1, <4>2
      <3> QED
        BY <1>2, <2>3, <3>1
    <2>4. CASE ~(slot >= table.reserved) /\ new = YieldOf(it, slot, slot)
      <3>1. new = YieldOf(it, slot, slot) /\ slot < t.reserved /\ slot \in t.populated
        BY <1>0, <2>2, <2>4
      <3>2. Sound(new) /\ OnPath(new, t, o) /\ ~new.done
        BY <1>0, <1>6, <2>2, <3>1, YieldIs
      <3> QED
        BY <3>2 DEF EndsWith
    <2> QED
      BY <1>6, <2>3, <2>4
  <1>7. CASE \E kind \in Kinds \ {"none"} : /\ it.kind = "none" \/ it.done
               /\ new = [Unused EXCEPT !.kind = kind, !.size = table.count, !.offset = IF kind = "compiled" THEN -1 ELSE 0]
    <2>1. Sound(new) /\ OnPath(new, t, o) /\ ~new.done
      BY <1>4, <1>7
    <2> QED
      BY <2>1 DEF EndsWith
  <1> QED
    BY <1>5, <1>6, <1>7 DEF Becomes


-----------------------------------------------------------------------------
(* The inductive invariant.                                                *)

\* The table is sound and shows the dict, the iterators that nothing moved are
\* on their path through it, and look-ups end.
DictInv == TableInv /\ IterInv /\ PathInv /\ Lookable(table)

\* What a step keeps of the bound on the item table.
KeepsBound(u, t) == \A n \in Nat : t.count <= n /\ u.count <= n /\ Bounded(t, n) => Bounded(u, n)

LEMMA DictInit ==
  ASSUME Init
  PROVE  DictInv /\ \A n \in Nat : Bounded(table, n)
  <1>1. table = NewTable /\ dict = << >> /\ order = << >> /\ iter = [i \in Iter |-> Unused] /\ broken = FALSE
    BY DEF Init
  <1>2. TableInv
    BY <1>1, NewTableOK, NothingShown DEF TableInv
  <1>3. Unused.kind = "none"
    BY DEF Unused
  <1>4. IterInv /\ PathInv
    BY <1>1, <1>3, UnusedIs DEF IterInv, PathInv, Iterating
  <1>5. Lookable(table)
    BY <1>1 DEF Lookable, NewTable
  <1>6. table.top = 0 /\ table.reserved = 0 /\ table.count = 0
    BY <1>1 DEF NewTable
  <1>7. \A n \in Nat : Bounded(table, n)
    BY <1>6 DEF Bounded
  <1> QED
    BY <1>2, <1>4, <1>5, <1>7 DEF DictInv

\* Every iterator is sound and, unless something moved, on its path.
LEMMA IteratorIs ==
  ASSUME IterInv, PathInv, NEW i \in Iter
  PROVE  Sound(iter[i]) /\ OnPath(iter[i], table, order)
  BY DEF IterInv, PathInv, Sound, OnPath, Iterating

LEMMA IteratesKeeps ==
  ASSUME DictInv, Iterates
  PROVE  DictInv' /\ \A i \in Iter : Ends(i) /\ ~iter[i].moved => iter[i].seen = order
  <1>1. table' = table /\ dict' = dict /\ order' = order /\ broken' = broken
    BY DEF Iterates
  <1>2. PICK j \in Iter : \E new : Becomes(j, iter[j], new) /\ iter' = [iter EXCEPT ![j] = new]
    BY IteratesIs DEF DictInv
  <1>3. PICK new : Becomes(j, iter[j], new) /\ iter' = [iter EXCEPT ![j] = new]
    BY <1>2
  <1>4. PICK it : it = iter[j]
    OBVIOUS
  <1>5. PICK t : t = table
    OBVIOUS
  <1>6. TableOK(t) /\ Shows(t, dict, order)
    BY <1>5 DEF DictInv, TableInv
  <1>7. Sound(it) /\ OnPath(it, t, order)
    BY <1>4, <1>5, IteratorIs DEF DictInv
  <1>8. Sound(new) /\ OnPath(new, t, order) /\ (EndsWith(it, new, t) /\ ~it.moved => it.seen = order)
    <2>1. Becomes(j, it, new)
      BY <1>3, <1>4
    <2> QED
      BY <1>5, <1>6, <1>7, <2>1, BecomesIs
  <1>9. iter \in [Iter -> IterRec]
    BY DEF DictInv, IterInv
  <1>10. ASSUME NEW i \in Iter
         PROVE  /\ Sound(iter'[i]) /\ OnPath(iter'[i], t, order)
                /\ Ends(i) /\ ~iter[i].moved => iter[i].seen = order
    <2>1. CASE i = j
      <3>1. iter'[i] = new /\ iter[i] = it
        BY <1>3, <1>4, <1>9, <2>1
      <3>2. Ends(i) => EndsWith(it, new, t)
        BY <1>5, <3>1 DEF Ends, EndsWith
      <3> QED
        BY <1>8, <3>1, <3>2
    <2>2. CASE i # j
      <3>1. iter'[i] = iter[i]
        BY <1>3, <1>9, <2>2
      <3>2. ~Ends(i)
        BY <3>1 DEF Ends
      <3>3. Sound(iter[i]) /\ OnPath(iter[i], t, order)
        BY <1>5, IteratorIs DEF DictInv
      <3> QED
        BY <3>1, <3>2, <3>3
    <2> QED
      BY <2>1, <2>2
  <1>11. iter' \in [Iter -> IterRec]
    <2>1. \A i \in Iter : iter'[i] \in IterRec
      BY <1>10 DEF Sound
    <2> QED
      BY <1>3, <1>9, <2>1
  <1>12. IterInv'
    BY <1>10, <1>11 DEF IterInv, Sound
  <1>13. PathInv'
    <2> SUFFICES ASSUME NEW i \in Iter, Iterating(i)', ~iter'[i].moved PROVE Tracks(iter[i], table, order)'
      BY DEF PathInv
    <2>1. iter'[i].kind # "none" /\ ~iter'[i].done
      BY DEF Iterating
    <2>2. Tracks(iter'[i], t, order)
      BY <1>10, <2>1 DEF OnPath
    <2> QED
      BY <1>1, <1>5, <2>2
  <1>14. TableInv' /\ Lookable(table)'
    BY <1>1 DEF DictInv, TableInv
  <1> QED
    BY <1>10, <1>12, <1>13, <1>14 DEF DictInv

\* A step keeps the invariant, and an iterator that ends has seen every key.
LEMMA DictNext ==
  ASSUME DictInv, [Next]_vars
  PROVE  /\ DictInv'
         /\ KeepsBound(table', table)
         /\ \A i \in Iter : Ends(i) /\ ~iter[i].moved => iter[i].seen = order
  <1>1. CASE Replaces
    <2>1. IterInv' /\ \A i \in Iter : iter'[i].done = iter[i].done
      BY <1>1, ReplacesIter DEF DictInv
    <2>2. PathInv'
      BY <1>1, ReplacesPath DEF DictInv
    <2>3. PICK u : u = table'
      OBVIOUS
    <2>4. Follows(u, table) /\ TableInv'
      BY <1>1, <2>3 DEF Replaces
    <2>5. Lookable(u)
      BY <2>4 DEF DictInv, Follows
    <2>6. Lookable(table)'
      BY <2>3, <2>5
    <2>7. \A i \in Iter : ~Ends(i)
      BY <2>1 DEF Ends
    <2>8. KeepsBound(u, table)
      BY <2>4 DEF Follows, KeepsBound
    <2> QED
      BY <2>1, <2>2, <2>3, <2>4, <2>6, <2>7, <2>8 DEF DictInv
  <1>2. CASE Iterates
    <2>1. KeepsBound(table, table)
      BY DEF KeepsBound
    <2>2. table' = table
      BY <1>2 DEF Iterates
    <2> QED
      BY <1>2, <2>1, <2>2, IteratesKeeps
  <1>3. CASE UNCHANGED vars
    <2>1. table' = table /\ dict' = dict /\ order' = order /\ iter' = iter /\ broken' = broken
      BY <1>3 DEF vars
    <2>2. KeepsBound(table, table)
      BY DEF KeepsBound
    <2>3. \A i \in Iter : ~Ends(i)
      BY <2>1 DEF Ends
    <2>4. DictInv'
      BY <2>1 DEF DictInv, TableInv, IterInv, PathInv, Iterating
    <2> QED
      BY <2>1, <2>2, <2>3, <2>4
  <1> QED
    BY <1>1, <1>2, <1>3, StepsAre DEF DictInv

\* The inductive invariant holds, of the table whatever its history, and of every
\* iterator over it.
THEOREM DictInvariant ==
  Spec => []DictInv
  <1>1. Init => DictInv
    BY DictInit
  <1>2. DictInv /\ [Next]_vars => DictInv'
    BY DictNext
  <1> QED
    BY <1>1, <1>2, PTL DEF Spec

-----------------------------------------------------------------------------
(* What it is proved for.                                                  *)

\* In every state the item table, the hash table and the counters agree (what
\* checkInvariants of hash_table_layout tests), and neither compressItemTable
\* nor serialize has met a table it reports as corrupt.
THEOREM TablesAreConsistent ==
  Spec => []Consistent
  <1> SUFFICES ASSUME DictInv PROVE Consistent
    BY DictInvariant, PTL
  <1>1. PICK t : t = table
    OBVIOUS
  <1>2. TableOK(t) /\ Shows(t, dict, order) /\ broken = FALSE /\ iter \in [Iter -> IterRec]
    BY <1>1 DEF DictInv, TableInv, IterInv
  <1>3. HashOK(t) /\ ItemsOK(t) /\ HashTyped(t) /\ Counted(t)
    BY <1>2 DEF TableOK, HashOK
  <1>4. /\ t.count \in Nat /\ t.reserved \in Nat /\ t.top \in Nat /\ t.top <= t.reserved
        /\ FiniteItems(t) /\ Cardinality(t.populated) = t.count
    BY <1>2, TableCounts
  <1>5. t.populated = SlotsOf(t) /\ t.populated \subseteq Below(t.top) /\ Below(t.top) \subseteq Below(t.reserved)
    BY <1>3, <1>4 DEF ItemsOK, Below
  <1>6. ASSUME NEW x \in FilledAt(t) PROVE t.slots[x] \in t.populated /\ \E k \in Key : t.hashes[x] = Hash[k]
    <2>1. t.slots[x] \in t.populated
      BY <1>5 DEF SlotsOf
    <2>2. PICK e : e = Entry(t, x)
      OBVIOUS
    <2>3. e \in Entries(t) /\ e[1] = t.hashes[x] /\ e[2] = t.slots[x]
      BY <2>2 DEF Entries, Entry
    <2>4. t.hashes[x] = Hash[KeyOf(t, t.slots[x])]
      BY <1>3, <2>3 DEF ItemsOK
    <2>5. KeyOf(t, t.slots[x]) \in Key
      BY <1>3, <1>5, <2>1 DEF ItemsOK, KeyOf
    <2> QED
      BY <2>1, <2>4, <2>5
  <1>7. ASSUME NEW x \in Below(t.size)
        PROVE  /\ t.slots[x] \in {EMPTY, DELETED} \cup Below(t.reserved)
               /\ t.hashes[x] \in {EMPTY} \cup {Hash[k] : k \in Key}
    <2>1. t.slots[x] \in SlotValue
      BY <1>3 DEF HashTyped
    <2>2. CASE t.slots[x] >= 0
      BY <1>5, <1>6, <2>2 DEF FilledAt
    <2>3. CASE ~(t.slots[x] >= 0)
      <3>1. t.hashes[x] = EMPTY
        BY <1>3, <2>3 DEF HashTyped
      <3>2. t.slots[x] \in {EMPTY, DELETED}
        BY <2>1, <2>3 DEF SlotValue, EMPTY, DELETED
      <3> QED
        BY <3>1, <3>2
    <2> QED
      BY <2>2, <2>3
  <1>8. /\ t.slots \in [Below(t.size) -> {EMPTY, DELETED} \cup Below(t.reserved)]
        /\ t.hashes \in [Below(t.size) -> {EMPTY} \cup {Hash[k] : k \in Key}]
    BY <1>3, <1>7 DEF HashTyped
  <1>9. t.items \in [Below(t.reserved) -> [key : Key \cup {NoKey}, value : Value \cup {NoValue}]]
    BY <1>3 DEF ItemsOK, Item
  <1>10. \A s \in t.populated : s < t.top
    BY <1>4, <1>5 DEF Below
  <1>11. \A i \in Iter : /\ iter[i].kind \in Kinds
                         /\ iter[i].offset \in Int /\ iter[i].size \in Nat
                         /\ iter[i].seen \in Seq(Key \cup {NoKey})
                         /\ {iter[i].live, iter[i].moved, iter[i].stale, iter[i].done} \subseteq BOOLEAN
    BY <1>2 DEF IterRec
  <1>12. DOMAIN dict \subseteq Key /\ order \in Seq(Key)
    BY <1>2, <1>3, <1>5 DEF Shows, ItemsOK, KeyOf
  <1>13. TypeOK
    <2>1. t.top \in 0..t.reserved /\ t.populated \subseteq Below(t.reserved)
      BY <1>4, <1>5
    <2>2. (t.slotsNull => t.size = 0) /\ (t.itemsNull => t.reserved = 0)
      BY <1>3 DEF ItemsOK
    <2> QED
      BY <1>1, <1>2, <1>8, <1>9, <1>11, <1>12, <2>1, <2>2 DEF TypeOK
  <1>14. {t.slots[x] : x \in FilledAt(t)} \subseteq t.populated
    BY <1>6
  <1> QED
    BY <1>1, <1>2, <1>3, <1>4, <1>10, <1>13, <1>14 DEF Consistent, NotBroken, Counted

\* An item slot holds a constructed item exactly while it is populated, for
\* every writer of the item table (insertion, growth, compression, removal,
\* the copies), and the compiled loop yields no other slot.
THEOREM EveryItemHasOneOwner ==
  Spec => []ItemsAreOwned
  <1> SUFFICES ASSUME DictInv PROVE ItemsAreOwned
    BY DictInvariant, PTL
  <1>1. CompiledYieldsLive
    BY DEF DictInv, IterInv, CompiledYieldsLive
  <1> QED
    BY <1>1 DEF DictInv, TableInv, TableOK, ItemsOK, ItemsAreOwned

\* Every look-up ends, whatever the history of insertions, removals, resizes
\* and copies, and what the look-ups show is what a Python dict would hold.
THEOREM DictActsAsDict ==
  Spec => []ActsAsDict
  <1> SUFFICES ASSUME DictInv PROVE ActsAsDict
    BY DictInvariant, PTL
  <1>1. PICK t : t = table
    OBVIOUS
  <1>2. TableOK(t) /\ Shows(t, dict, order) /\ Lookable(t) /\ FiniteItems(t) /\ t.size \in Nat
    BY <1>1, TableCounts DEF DictInv, TableInv
  <1>3. \A p \in t.populated : p \in Nat /\ KeyOf(t, p) \in Key
    <2>1. \A p \in t.populated : p \in Nat
      BY <1>2 DEF FiniteItems
    <2>2. \A p \in t.populated : KeyOf(t, p) \in Key
      BY <1>2, LiveItem DEF KeyOf
    <2> QED
      BY <2>1, <2>2
  <1>4. ASSUME NEW k \in Key
        PROVE  /\ HasKey(t, k) => /\ Find(t, k) >= 0 /\ Find(t, k) # Lost
                                  /\ dict[k] = t.items[Find(t, k)].value
               /\ ~HasKey(t, k) => ~(Find(t, k) >= 0) /\ Find(t, k) # Lost
    <2>1. ASSUME HasKey(t, k)
          PROVE  Find(t, k) >= 0 /\ Find(t, k) # Lost /\ dict[k] = t.items[Find(t, k)].value
      <3>1. PICK p \in t.populated : KeyOf(t, p) = k
        BY <2>1 DEF HasKey
      <3>2. Find(t, k) = p
        BY <1>2, <3>1, FindIs
      <3>3. p >= 0 /\ p # Lost
        BY <1>3 DEF Lost
      <3> QED
        BY <1>2, <3>1, <3>2, <3>3 DEF Shows
    <2>2. ASSUME ~HasKey(t, k) PROVE ~(Find(t, k) >= 0) /\ Find(t, k) # Lost
      <3>1. t.slotsNull \/ t.size # 0
        BY <1>2 DEF Lookable
      <3>2. Find(t, k) = EMPTY
        BY <1>2, <2>2, <3>1, FindIs
      <3> QED
        BY <3>2 DEF EMPTY, Lost
    <2> QED
      BY <2>1, <2>2
  <1>5. FindStops
    BY <1>1, <1>4 DEF FindStops
  <1>6. PICK present : present = {k \in Key : Find(t, k) >= 0}
    OBVIOUS
  <1>7. present = DOMAIN dict
    <2>1. DOMAIN dict \subseteq Key
      BY <1>2, <1>3 DEF Shows
    <2>2. \A k : k \in DOMAIN dict <=> HasKey(t, k)
      BY <1>2, ShownKeys
    <2> QED
      BY <1>4, <1>6, <2>1, <2>2
  <1>8. \A k \in DOMAIN dict : dict[k] = t.items[Find(t, k)].value
    <2>1. \A k \in DOMAIN dict : k \in Key /\ HasKey(t, k)
      BY <1>2, <1>6, <1>7, ShownKeys
    <2> QED
      BY <1>4, <2>1
  <1>9. Contents = [k \in DOMAIN dict |-> t.items[Find(t, k)].value]
    BY <1>1, <1>6, <1>7 DEF Contents
  <1>10. dict = [k \in DOMAIN dict |-> dict[k]]
    BY <1>2 DEF Shows
  <1>11. Contents = dict
    BY <1>8, <1>9, <1>10
  <1> QED
    BY <1>5, <1>11 DEF ActsAsDict

\* A table has at most one item per key.
LEMMA FewItems ==
  ASSUME NEW t, TableOK(t), IsFiniteSet(FewKeys), Key \subseteq FewKeys
  PROVE  Cardinality(FewKeys) \in Nat /\ t.count <= Cardinality(FewKeys)
  <1> DEFINE f == [p \in t.populated |-> KeyOf(t, p)]
  <1>1. \A p \in t.populated : KeyOf(t, p) \in FewKeys
    BY LiveItem DEF KeyOf
  <1>2. f \in [t.populated -> FewKeys]
    BY <1>1
  <1>3. \A p, q \in t.populated : f[p] = f[q] => p = q
    BY TableCounts DEF KeysApart
  <1> HIDE DEF f
  <1>4. f \in Injection(t.populated, FewKeys)
    BY <1>2, <1>3, Zenon DEF Injection, IsInjective
  <1>5. Cardinality(t.populated) <= Cardinality(FewKeys)
    BY <1>4, FS_Injection
  <1>6. Cardinality(FewKeys) \in Nat
    BY FS_CardinalityType
  <1> QED
    BY <1>5, <1>6, TableCounts

\* However long a program with the keys of a finite set runs, and in whatever
\* order it inserts and removes them, compression keeps the item table within
\* five slots a key and eleven.
THEOREM ItemTableStaysBounded ==
  ASSUME IsFiniteSet(FewKeys), Key \subseteq FewKeys
  PROVE  Spec => []ItemTableBounded
  <1> DEFINE n == Cardinality(FewKeys)
             Inv == DictInv /\ Bounded(table, n)
  <1>1. n \in Nat
    <2>1. TableOK(NewTable)
      BY NewTableOK
    <2> QED
      BY <2>1, FewItems
  <1>2. ASSUME DictInv PROVE table.count <= n
    BY <1>2, FewItems DEF DictInv, TableInv
  <1> HIDE DEF n
  <1>3. Init => Inv
    BY <1>1, DictInit
  <1>4. Inv /\ [Next]_vars => Inv'
    <2> SUFFICES ASSUME DictInv, Bounded(table, n), [Next]_vars PROVE DictInv' /\ Bounded(table, n)'
      OBVIOUS
    <2>1. DictInv' /\ KeepsBound(table', table)
      BY DictNext
    <2>2. PICK u : u = table'
      OBVIOUS
    <2>3. u.count <= n
      <3>1. TableOK(u)
        BY <2>1, <2>2 DEF DictInv, TableInv
      <3> QED
        BY <3>1, FewItems DEF n
    <2>4. Bounded(u, n)
      BY <1>1, <1>2, <2>1, <2>2, <2>3 DEF KeepsBound
    <2> QED
      BY <2>1, <2>2, <2>4
  <1>5. Inv => ItemTableBounded
    BY DEF n, Bounded, ItemTableBounded
  <1> QED
    BY <1>3, <1>4, <1>5, PTL DEF Spec

\* An iterator that ends, and not by RuntimeError, over a table whose items
\* stayed where they were has yielded every key in insertion order, the
\* interpreter's and the compiled loop's.
THEOREM EveryIterationIsComplete ==
  Spec => IterationIsComplete
  <1>1. DictInv /\ [Next]_vars => [\A i \in Iter : Ends(i) /\ ~iter[i].moved => iter[i].seen = order]_vars
    BY DictNext
  <1> QED
    BY <1>1, DictInvariant, PTL DEF Spec, IterationIsComplete
=============================================================================
