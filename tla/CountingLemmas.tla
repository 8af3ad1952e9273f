--------------------------- MODULE CountingLemmas ---------------------------
(***************************************************************************)
(* Induction over the naturals and finite sets, in the first-order form    *)
(* that the proofs use, and what it gives for sums.                        *)
(***************************************************************************)
EXTENDS Integers, Functions, FiniteSetTheorems, WellFoundedInduction, TLAPS

(* Every nonempty set of naturals has a least element. *)
LEMMA LeastNat ==
  ASSUME NEW T \in SUBSET Nat, T # {}
  PROVE  \E n \in T : \A m \in T : n <= m
<1> DEFINE Less == OpToRel(<, Nat)
<1>1. IsWellFoundedOn(Less, Nat)
  BY NatLessThanWellFounded
<1>2. \A m, n \in Nat : m < n => <<m, n>> \in Less
  BY DEF OpToRel
<1> HIDE DEF Less
<1>3. PICK n \in T : \A m \in T : <<m, n>> \notin Less
  BY <1>1, WFMin
<1>4. n \in Nat
  OBVIOUS
<1>5. ASSUME NEW m \in T PROVE n <= m
  <2>1. m \in Nat /\ <<m, n>> \notin Less
    BY <1>3
  <2>2. ~(m < n)
    BY <1>2, <1>4, <2>1
  <2> QED
    BY <1>4, <2>1, <2>2
<1> QED
  BY <1>5

(* A set that has 0, and the successor of each natural it has, has all. *)
LEMMA SetInduction ==
  ASSUME NEW S, 0 \in S, \A n \in Nat : n \in S => n + 1 \in S
  PROVE  Nat \subseteq S
<1> SUFFICES ASSUME Nat \ S # {} PROVE FALSE
  OBVIOUS
<1>1. PICK n \in Nat \ S : \A m \in Nat \ S : n <= m
  BY LeastNat
<1> QED
  BY <1>1

(* What holds of a set if it holds of the set without any one of its       *)
(* elements holds of every finite set.                                     *)
LEMMA FiniteInduction ==
  ASSUME NEW S, IsFiniteSet(S), NEW C,
         \A T \in SUBSET S : (\A x \in T : T \ {x} \in C) => T \in C
  PROVE  SUBSET S \subseteq C
<1> SUFFICES ASSUME NEW U \in SUBSET S, U \notin C PROVE FALSE
  OBVIOUS
<1> DEFINE Bad == {n \in Nat : \E T \in SUBSET S : T \notin C /\ Cardinality(T) = n}
<1>1. \A T \in SUBSET S : IsFiniteSet(T) /\ Cardinality(T) \in Nat
  BY FS_Subset, FS_CardinalityType
<1>2. PICK n \in Bad : \A m \in Bad : n <= m
  <2>1. Bad \in SUBSET Nat /\ Bad # {}
    BY <1>1
  <2> HIDE DEF Bad
  <2> QED
    BY <2>1, LeastNat
<1>3. PICK T \in SUBSET S : T \notin C /\ Cardinality(T) = n
  BY <1>2
<1>4. PICK x \in T : T \ {x} \notin C
  BY <1>3
<1>5. Cardinality(T \ {x}) = n - 1 /\ T \ {x} \in SUBSET S /\ n \in Nat
  BY <1>1, <1>2, <1>3, <1>4, FS_RemoveElement
<1>6. n - 1 \in Bad
  BY <1>1, <1>4, <1>5
<1> QED
  BY <1>2, <1>5, <1>6

(* The sizes of two sets that differ in one element at most. *)
Flag(b) == IF b THEN 1 ELSE 0

(* Two sets that differ in one element at most differ by that in size. *)
LEMMA OneMoved ==
  ASSUME NEW A, NEW B, NEW x, IsFiniteSet(A), A \ {x} = B \ {x}
  PROVE  /\ IsFiniteSet(B) /\ Cardinality(A) \in Nat /\ Cardinality(B) \in Nat
         /\ Cardinality(B) = Cardinality(A) - Flag(x \in A) + Flag(x \in B)
<1>1. IsFiniteSet(A \ {x}) /\ Cardinality(A \ {x}) = Cardinality(A) - Flag(x \in A)
      /\ Cardinality(A) \in Nat
  BY FS_RemoveElement, FS_CardinalityType DEF Flag
<1>2. CASE x \in B
  <2>1. B = (A \ {x}) \cup {x} /\ x \notin A \ {x}
    BY <1>2
  <2>2. IsFiniteSet(B) /\ Cardinality(B) = Cardinality(A \ {x}) + 1
    BY <1>1, <2>1, FS_AddElement
  <2> QED
    BY <1>1, <1>2, <2>2, FS_CardinalityType DEF Flag
<1>3. CASE x \notin B
  <2>1. B = A \ {x}
    BY <1>3
  <2> QED
    BY <1>1, <1>3, <2>1, FS_CardinalityType DEF Flag
<1> QED
  BY <1>2, <1>3

-----------------------------------------------------------------------------
(* Sums.  The sum of w over S is the number of its units, and any function *)
(* that satisfies the equation of a recursive sum gives it.                *)
Units(w, S) == {u \in S \X Nat : u[2] \in 1 .. w[u[1]]}

(* The sum of the weights w[x] of the elements x of S. *)
SumOf(w, S) == Cardinality(Units(w, S))

(* The defining equation of a sum by recursion on sets. *)
SumsUp(it, w, S) ==
  it = [s \in SUBSET S |->
          IF s = {} THEN 0
          ELSE w[CHOOSE x \in s : TRUE] + it[s \ {CHOOSE x \in s : TRUE}]]

(* One element more adds its weight. *)
LEMMA UnitsAdd ==
  ASSUME NEW w, NEW T, NEW x, x \notin T, w[x] \in Nat, IsFiniteSet(Units(w, T))
  PROVE  /\ IsFiniteSet(Units(w, T \cup {x}))
         /\ SumOf(w, T) \in Nat
         /\ SumOf(w, T \cup {x}) = SumOf(w, T) + w[x]
<1> DEFINE X == {x} \X (1 .. w[x])
<1>1. IsFiniteSet({x}) /\ Cardinality({x}) = 1
  BY FS_Singleton
<1>2. IsFiniteSet(1 .. w[x]) /\ Cardinality(1 .. w[x]) = w[x]
  BY FS_Interval
<1>3. IsFiniteSet(X) /\ Cardinality(X) = w[x]
  <2>1. IsFiniteSet(X) /\ Cardinality(X) = Cardinality({x}) * Cardinality(1 .. w[x])
    BY <1>1, <1>2, FS_Product
  <2> HIDE DEF X
  <2> QED
    BY <1>1, <1>2, <2>1
<1>4. Units(w, T \cup {x}) = Units(w, T) \cup X
  BY DEF Units
<1>5. Units(w, T) \cap X = {}
  BY DEF Units
<1> HIDE DEF X
<1>6. Cardinality({}) = 0
  BY FS_EmptySet
<1>7. IsFiniteSet(Units(w, T) \cup X)
      /\ Cardinality(Units(w, T) \cup X) =
           Cardinality(Units(w, T)) + Cardinality(X) - Cardinality(Units(w, T) \cap X)
  BY <1>3, FS_Union
<1>8. Cardinality(Units(w, T)) \in Nat
  BY FS_CardinalityType
<1> QED
  BY <1>3, <1>4, <1>5, <1>6, <1>7, <1>8 DEF SumOf

(* Sums over a finite set: the type, the empty sum, one element less. *)
LEMMA SumFacts ==
  ASSUME NEW S, IsFiniteSet(S), NEW w, \A x \in S : w[x] \in Nat
  PROVE  /\ \A T \in SUBSET S : IsFiniteSet(Units(w, T)) /\ SumOf(w, T) \in Nat
         /\ SumOf(w, {}) = 0
         /\ \A T \in SUBSET S : \A x \in T : SumOf(w, T) = SumOf(w, T \ {x}) + w[x]
<1> DEFINE C == {T \in SUBSET S : IsFiniteSet(Units(w, T))}
<1>1. Units(w, {}) = {}
  BY DEF Units
<1>2. {} \in C
  BY <1>1, FS_EmptySet
<1>3. ASSUME NEW T \in SUBSET S, \A x \in T : T \ {x} \in C PROVE T \in C
  <2>1. CASE T = {}
    BY <1>2, <2>1
  <2>2. CASE T # {}
    <3>1. PICK x \in T : TRUE
      BY <2>2
    <3>2. (T \ {x}) \cup {x} = T /\ x \notin T \ {x} /\ T \ {x} \in C /\ w[x] \in Nat
      BY <1>3, <3>1
    <3> QED
      BY <3>2, UnitsAdd
  <2> QED
    BY <2>1, <2>2
<1>4. SUBSET S \subseteq C
  <2> HIDE DEF C
  <2> QED
    BY <1>3, FiniteInduction
<1>5. \A T \in SUBSET S : IsFiniteSet(Units(w, T)) /\ SumOf(w, T) \in Nat
  BY <1>4, FS_CardinalityType DEF SumOf
<1>6. ASSUME NEW T \in SUBSET S, NEW x \in T
      PROVE  SumOf(w, T) = SumOf(w, T \ {x}) + w[x]
  <2>1. (T \ {x}) \cup {x} = T /\ x \notin T \ {x} /\ T \ {x} \in SUBSET S
    OBVIOUS
  <2>2. SumOf(w, (T \ {x}) \cup {x}) = SumOf(w, T \ {x}) + w[x]
    BY <1>5, <2>1, UnitsAdd
  <2> QED
    BY <2>1, <2>2
<1> QED
  BY <1>1, <1>5, <1>6, FS_EmptySet DEF SumOf

(* The equation has the sum as a solution, and no other. *)
LEMMA SumSolves ==
  ASSUME NEW S, IsFiniteSet(S), NEW w, \A x \in S : w[x] \in Nat
  PROVE  /\ SumsUp([s \in SUBSET S |-> SumOf(w, s)], w, S)
         /\ \A it : SumsUp(it, w, S) => it[S] = SumOf(w, S)
<1>1. SumsUp([s \in SUBSET S |-> SumOf(w, s)], w, S)
  <2> DEFINE g == [s \in SUBSET S |-> SumOf(w, s)]
  <2>1. ASSUME NEW s \in SUBSET S
        PROVE  g[s] = IF s = {} THEN 0
                      ELSE w[CHOOSE x \in s : TRUE] + g[s \ {CHOOSE x \in s : TRUE}]
    <3>1. CASE s = {}
      BY <3>1, SumFacts
    <3>2. CASE s # {}
      <4>1. PICK y \in s : y = CHOOSE x \in s : TRUE
        BY <3>2
      <4>2. SumOf(w, s) = SumOf(w, s \ {y}) + w[y] /\ SumOf(w, s \ {y}) \in Nat
            /\ w[y] \in Nat /\ s \ {y} \in SUBSET S
        BY SumFacts
      <4> QED
        BY <3>2, <4>1, <4>2
    <3> QED
      BY <3>1, <3>2
  <2> QED
    BY <2>1 DEF SumsUp
<1>2. ASSUME NEW it, SumsUp(it, w, S) PROVE it[S] = SumOf(w, S)
  <2> DEFINE C == {T \in SUBSET S : it[T] = SumOf(w, T)}
  <2>1. ASSUME NEW T \in SUBSET S, \A x \in T : T \ {x} \in C PROVE T \in C
    <3>1. CASE T = {}
      BY <1>2, <3>1, SumFacts DEF SumsUp
    <3>2. CASE T # {}
      <4>1. PICK y \in T : y = CHOOSE x \in T : TRUE
        BY <3>2
      <4>2. it[T] = w[y] + it[T \ {y}]
        BY <1>2, <3>2, <4>1 DEF SumsUp
      <4>3. SumOf(w, T) = SumOf(w, T \ {y}) + w[y] /\ SumOf(w, T \ {y}) \in Nat
            /\ w[y] \in Nat /\ T \ {y} \in SUBSET S
        BY SumFacts
      <4>4. it[T \ {y}] = SumOf(w, T \ {y})
        BY <2>1, <4>1
      <4> QED
        BY <4>2, <4>3, <4>4
    <3> QED
      BY <3>1, <3>2
  <2>2. SUBSET S \subseteq C
    <3> HIDE DEF C
    <3> QED
      BY <2>1, FiniteInduction
  <2> QED
    BY <2>2
<1> QED
  BY <1>1, <1>2

(* A sum over a subset changes by what changes at one element. *)
LEMMA SumMoved ==
  ASSUME NEW S, IsFiniteSet(S), NEW A \in SUBSET S, NEW B \in SUBSET S, NEW x \in S,
         NEW v, NEW w, A \ {x} = B \ {x},
         \A y \in S : v[y] \in Nat /\ w[y] \in Nat /\ (y # x => v[y] = w[y])
  PROVE  /\ SumOf(v, A) \in Nat /\ SumOf(w, B) \in Nat
         /\ SumOf(w, B) = SumOf(v, A) - (IF x \in A THEN v[x] ELSE 0)
                                      + (IF x \in B THEN w[x] ELSE 0)
<1>1. Units(v, A \ {x}) = Units(w, B \ {x})
  BY DEF Units
<1>2. SumOf(v, A \ {x}) = SumOf(w, B \ {x})
  BY <1>1 DEF SumOf
<1>3. SumOf(v, A) \in Nat /\ SumOf(w, B) \in Nat /\ SumOf(v, A \ {x}) \in Nat
  BY SumFacts
<1>4. v[x] \in Nat /\ w[x] \in Nat
  OBVIOUS
<1>5. SumOf(v, A) = SumOf(v, A \ {x}) + (IF x \in A THEN v[x] ELSE 0)
  <2>1. CASE x \in A
    BY <2>1, SumFacts
  <2>2. CASE x \notin A
    <3>1. A \ {x} = A
      BY <2>2
    <3> QED
      BY <1>3, <2>2, <3>1
  <2> QED
    BY <2>1, <2>2
<1>6. SumOf(w, B) = SumOf(w, B \ {x}) + (IF x \in B THEN w[x] ELSE 0)
  <2>1. CASE x \in B
    BY <2>1, SumFacts
  <2>2. CASE x \notin B
    <3>1. B \ {x} = B
      BY <2>2
    <3> QED
      BY <1>3, <2>2, <3>1
  <2> QED
    BY <2>1, <2>2
<1> QED
  BY <1>2, <1>3, <1>4, <1>5, <1>6

(* Elements of T are at places, p, and have weights, v; t moves, and the   *)
(* others do not: to the places q and the weights w.                       *)
MovesOne(T, t, p, q, v, w) ==
  /\ IsFiniteSet(T) /\ t \in T /\ v \in [T -> Nat] /\ w \in [T -> Nat]
  /\ \A u \in T \ {t} : p[u] = q[u] /\ v[u] = w[u]

(* Those that are at some places. *)
Here(T, p, steps) == {u \in T : p[u] \in steps}

(* The change of a count or of a sum. *)
Changes(before, after, less, more) == before \in Nat /\ after = before - less + more

(* What this makes of the number and of the sum of those at some places.   *)
LEMMA OnePlaced ==
  ASSUME NEW T, NEW t, NEW p, NEW q, NEW v, NEW w, NEW steps, NEW A, NEW B,
         MovesOne(T, t, p, q, v, w), A = Here(T, p, steps), B = Here(T, q, steps)
  PROVE  /\ Changes(SumOf(v, A), SumOf(w, B), IF p[t] \in steps THEN v[t] ELSE 0,
                                             IF q[t] \in steps THEN w[t] ELSE 0)
         /\ Changes(Cardinality(A), Cardinality(B), Flag(p[t] \in steps), Flag(q[t] \in steps))
<1> USE DEF MovesOne, Here
<1>1. /\ A \in SUBSET T /\ B \in SUBSET T /\ A \ {t} = B \ {t} /\ IsFiniteSet(A)
      /\ (t \in A <=> p[t] \in steps) /\ (t \in B <=> q[t] \in steps)
  BY FS_Subset
<1>2. \A u \in T : v[u] \in Nat /\ w[u] \in Nat /\ (u # t => v[u] = w[u])
  OBVIOUS
<1>3. /\ SumOf(v, A) \in Nat
      /\ SumOf(w, B) = SumOf(v, A) - (IF t \in A THEN v[t] ELSE 0)
                                   + (IF t \in B THEN w[t] ELSE 0)
  <2>1. IsFiniteSet(T) /\ t \in T /\ A \in SUBSET T /\ B \in SUBSET T /\ A \ {t} = B \ {t}
    BY <1>1
  <2> QED
    BY <1>2, <2>1, SumMoved
<1>4. /\ Cardinality(A) \in Nat
      /\ Cardinality(B) = Cardinality(A) - Flag(t \in A) + Flag(t \in B)
  BY <1>1, OneMoved
<1>5. /\ Flag(t \in A) = Flag(p[t] \in steps) /\ Flag(t \in B) = Flag(q[t] \in steps)
      /\ (IF t \in A THEN v[t] ELSE 0) = (IF p[t] \in steps THEN v[t] ELSE 0)
      /\ (IF t \in B THEN w[t] ELSE 0) = (IF q[t] \in steps THEN w[t] ELSE 0)
  BY <1>1 DEF Flag
<1>6. /\ SumOf(v, A) \in Nat
      /\ SumOf(w, B) = SumOf(v, A) - (IF p[t] \in steps THEN v[t] ELSE 0)
                                   + (IF q[t] \in steps THEN w[t] ELSE 0)
      /\ Cardinality(A) \in Nat
      /\ Cardinality(B) = Cardinality(A) - Flag(p[t] \in steps) + Flag(q[t] \in steps)
  BY <1>3, <1>4, <1>5
<1> QED
  BY <1>6 DEF Changes

(* SumFunction and MapThenSumSet, as the models use them, are such sums.   *)
LEMMA SumFunctionIs ==
  ASSUME NEW S, IsFiniteSet(S), NEW w \in [S -> Nat]
  PROVE  SumFunction(w) = SumOf(w, S)
<1> DEFINE it == CHOOSE it : SumsUp(it, w, DOMAIN w)
<1>0. DOMAIN w = S
  OBVIOUS
<1>1. SumsUp(it, w, DOMAIN w)
  <2>1. \E g : SumsUp(g, w, DOMAIN w)
    BY <1>0, SumSolves
  <2> QED
    BY <2>1
<1>2. it[S] = SumOf(w, S)
  <2> HIDE DEF it
  <2> QED
    BY <1>0, <1>1, SumSolves
<1>3. SumFunction(w) = it[DOMAIN w]
  BY DEF SumFunction, SumFunctionOnSet, FoldFunctionOnSet, MapThenFoldSet, SumsUp
<1> QED
  BY <1>0, <1>2, <1>3

(* A function raised by one at one place, and one that is zero.            *)
LEMMA SumRaised ==
  ASSUME NEW S, IsFiniteSet(S), NEW w \in [S -> Nat], NEW x \in S
  PROVE  /\ SumOf(w, S) \in Nat
         /\ SumOf([w EXCEPT ![x] = @ + 1], S) = SumOf(w, S) + 1
<1> DEFINE v == [w EXCEPT ![x] = @ + 1]
<1>1. /\ \A y \in S : w[y] \in Nat /\ v[y] \in Nat /\ (y # x => w[y] = v[y])
      /\ v[x] = w[x] + 1
  OBVIOUS
<1> HIDE DEF v
<1>2. /\ SumOf(w, S) \in Nat /\ SumOf(v, S) \in Nat
      /\ SumOf(v, S) = SumOf(w, S) - (IF x \in S THEN w[x] ELSE 0)
                                   + (IF x \in S THEN v[x] ELSE 0)
  BY <1>1, SumMoved
<1> QED
  BY <1>1, <1>2 DEF v

(* A sum of zeros. *)
LEMMA SumZero ==
  ASSUME NEW S, NEW w, \A x \in S : w[x] = 0 PROVE SumOf(w, S) = 0
<1>1. Units(w, S) = {}
  BY DEF Units
<1> QED
  BY <1>1, FS_EmptySet DEF SumOf

-----------------------------------------------------------------------------
(* What \div and % give, and the only quotient and remainder there are.    *)
LEMMA Division ==
  ASSUME NEW x \in Int, NEW n \in Nat \ {0}
  PROVE  /\ x \div n \in Int /\ x % n \in 0 .. n - 1
         /\ x = n * (x \div n) + (x % n)
  OBVIOUS

(* There is one quotient and one remainder. *)
LEMMA Quotients ==
  ASSUME NEW n \in Nat \ {0}, NEW q \in Int, NEW x \in Int, NEW r \in 0 .. n - 1,
         x = n * q + r
  PROVE  x \div n = q /\ x % n = r
  OBVIOUS

(* The quotient of the next number is larger by one at every multiple.     *)
LEMMA NextQuotient ==
  ASSUME NEW x \in Nat, NEW n \in Nat \ {0}
  PROVE  (x + 1) \div n = (x \div n) + Flag((x + 1) % n = 0)
<1>1. PICK q \in Int, r \in 0 .. n - 1 : q = x \div n /\ x = n * q + r
  BY Division
<1>2. CASE r + 1 < n
  <2>1. r + 1 \in 0 .. n - 1 /\ x + 1 = n * q + (r + 1) /\ r + 1 # 0
    <3>1. n * q \in Int
      OBVIOUS
    <3> QED
      BY <1>1, <1>2, <3>1
  <2>2. (x + 1) \div n = q /\ (x + 1) % n = r + 1
    BY <2>1, Quotients
  <2> QED
    BY <1>1, <2>1, <2>2 DEF Flag
<1>3. CASE r + 1 = n
  <2>1. x + 1 = n * (q + 1) + 0 /\ 0 \in 0 .. n - 1 /\ q + 1 \in Int
    <3>1. n * q \in Int /\ n * (q + 1) = n * q + n
      OBVIOUS
    <3> QED
      BY <1>1, <1>3, <3>1
  <2>2. (x + 1) \div n = q + 1 /\ (x + 1) % n = 0
    BY <2>1, Quotients
  <2> QED
    BY <1>1, <2>2 DEF Flag
<1> QED
  BY <1>2, <1>3

(* Products of integers. *)
LEMMA Distributes ==
  \A a, b, c \in Int : c * (a + b) = c * a + c * b /\ c * a \in Int /\ c * b \in Int
  OBVIOUS

(* Taking the remainder before an addition or after it is the same. *)
LEMMA RemainderAdds ==
  ASSUME NEW x \in Int, NEW y \in Int, NEW n \in Nat \ {0}
  PROVE  ((x % n) + y) % n = (x + y) % n
<1>1. PICK q \in Int, r \in 0 .. n - 1 : r = x % n /\ x = n * q + r
  BY Division
<1>2. r + y \in Int
  OBVIOUS
<1>3. PICK p \in Int, s \in 0 .. n - 1 : s = (r + y) % n /\ r + y = n * p + s
  BY <1>2, Division
<1>4. x + y = n * (q + p) + s
  <2>1. n * (q + p) = n * q + n * p /\ n * q \in Int /\ n * p \in Int
    BY Distributes
  <2>2. PICK a \in Int, b \in Int : a = n * q /\ b = n * p
    BY <2>1
  <2>3. x = a + r /\ r + y = b + s /\ n * (q + p) = a + b
    BY <1>1, <1>3, <2>1, <2>2
  <2>4. x + y = a + b + s
    BY <2>3
  <2> QED
    BY <2>3, <2>4
<1>5. (x + y) % n = s
  <2>1. q + p \in Int /\ x + y \in Int
    OBVIOUS
  <2> QED
    BY <1>4, <2>1, Quotients
<1> QED
  BY <1>1, <1>3, <1>5

(* Adding a multiple, or what leads to a remainder. *)
LEMMA Remainders ==
  ASSUME NEW n \in Nat \ {0}, NEW x \in Int
  PROVE  /\ \A d \in Int : (x + n * d) % n = x % n
         /\ \A a \in 0 .. n - 1 : (x + ((a - x) % n)) % n = a
<1>1. PICK q \in Int, r \in 0 .. n - 1 : r = x % n /\ x = n * q + r
  BY Division
<1>2. ASSUME NEW d \in Int PROVE (x + n * d) % n = x % n
  <2>1. n * (q + d) = n * q + n * d /\ n * q \in Int /\ n * d \in Int /\ q + d \in Int
    BY Distributes
  <2>2. PICK y \in Int, p \in Int : y = x + n * d /\ p = q + d
    BY <2>1
  <2>3. y = n * p + r
    BY <1>1, <2>1, <2>2
  <2>4. y % n = r
    BY <2>3, Quotients
  <2> QED
    BY <1>1, <2>2, <2>4
<1>3. ASSUME NEW a \in 0 .. n - 1 PROVE (x + ((a - x) % n)) % n = a
  <2>1. a - x \in Int
    OBVIOUS
  <2>2. PICK p \in Int, s \in 0 .. n - 1 : s = (a - x) % n /\ a - x = n * p + s
    BY <2>1, Division
  <2>3. PICK z \in Int : z = n * p
    OBVIOUS
  <2>4. n * (0 - p) = 0 - z /\ 0 - p \in Int
    BY <2>3
  <2>5. x + s = n * (0 - p) + a /\ x + s \in Int
    BY <2>2, <2>3, <2>4
  <2>6. (x + s) % n = a
    BY <2>4, <2>5, Quotients
  <2> QED
    BY <2>2, <2>6
<1> QED
  BY <1>2, <1>3
=============================================================================
