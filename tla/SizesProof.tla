----------------------------- MODULE SizesProof -----------------------------
(***************************************************************************)
(* Proofs about the arithmetic of the allocators: Layout, for any width of *)
(* an int32, any guard page size and any arguments of New; SizeClass, for  *)
(* any sorted tables and thresholds; and ColoredLists, for any numbers of  *)
(* colors, shards and slabs.                                               *)
(***************************************************************************)
EXTENDS MCSizes, CountingLemmas

(* The next multiple. *)
LEMMA Multiples ==
  ASSUME NEW a \in Nat, NEW s \in Nat, NEW u \in Nat, s < u
  PROVE  s * a \in Nat /\ u * a \in Nat /\ s * a + a <= u * a
<1>1. PICK d \in Nat : u = s + 1 + d
  OBVIOUS
<1>2. u * a = s * a + a + d * a /\ d * a \in Nat
  BY <1>1
<1> QED
  BY <1>2

-----------------------------------------------------------------------------
(* Layout: n & m. *)

(* The recursion that defines Common has a solution up to any number, and  *)
(* only one.                                                               *)
Masks(g, m) ==
  [n \in Nat |-> IF m = 0 THEN 0 ELSE 2 * g[m \div 2][n \div 2] + (m % 2) * (n % 2)]

MasksUpTo(k, g) ==
  /\ DOMAIN g = 0 .. k
  /\ \A m \in 0 .. k : g[m] = Masks(g, m)

(* Half of a number, and what is left. *)
LEMMA Halves ==
  ASSUME NEW m \in Nat
  PROVE  /\ m \div 2 \in Nat /\ m % 2 \in {0, 1} /\ m = 2 * (m \div 2) + (m % 2)
         /\ m # 0 => m \div 2 < m
  OBVIOUS

(* Two solutions agree where both are defined. *)
LEMMA MasksUnique ==
  ASSUME NEW k \in Nat, NEW g, MasksUpTo(k, g), NEW l \in Nat, NEW h, MasksUpTo(l, h)
  PROVE  \A m \in Nat : m <= k /\ m <= l => g[m] = h[m]
<1> DEFINE D == {m \in Nat : m <= k /\ m <= l /\ g[m] # h[m]}
<1> SUFFICES ASSUME D # {} PROVE FALSE
  OBVIOUS
<1>1. PICK m \in D : \A i \in D : m <= i
  <2>1. D \in SUBSET Nat
    OBVIOUS
  <2> HIDE DEF D
  <2> QED
    BY <2>1, LeastNat
<1>2. m \in Nat /\ m <= k /\ m <= l /\ m \in 0 .. k /\ m \in 0 .. l
  OBVIOUS
<1>3. g[m] = Masks(g, m) /\ h[m] = Masks(h, m)
  BY <1>2 DEF MasksUpTo
<1>4. m # 0 => g[m \div 2] = h[m \div 2]
  <2> SUFFICES ASSUME m # 0 PROVE g[m \div 2] = h[m \div 2]
    OBVIOUS
  <2>1. PICK i \in Nat : i = m \div 2 /\ i < m
    BY <1>2, Halves
  <2>2. i \notin D /\ i <= k /\ i <= l
    BY <1>1, <1>2, <2>1
  <2> QED
    BY <2>1, <2>2
<1>5. Masks(g, m) = Masks(h, m)
  <2>1. CASE m = 0
    BY <2>1 DEF Masks
  <2>2. CASE m # 0
    BY <1>4, <2>2, Zenon DEF Masks
  <2> QED
    BY <2>1, <2>2
<1> QED
  BY <1>3, <1>5

(* There is a solution, up to any number. *)
LEMMA MasksExist ==
  ASSUME NEW k \in Nat
  PROVE  \E g : MasksUpTo(k, g)
<1> DEFINE S == {n \in Nat : \E g : MasksUpTo(n, g)}
<1>1. 0 \in S
  <2> DEFINE g == [m \in 0 .. 0 |-> [n \in Nat |-> 0]]
  <2>1. MasksUpTo(0, g)
    <3>1. \A m \in 0 .. 0 : m = 0
      OBVIOUS
    <3> QED
      BY <3>1 DEF MasksUpTo, Masks
  <2> HIDE DEF g
  <2> QED
    BY <2>1
<1>2. ASSUME NEW n \in Nat, n \in S PROVE n + 1 \in S
  <2>1. PICK g : MasksUpTo(n, g)
    BY <1>2
  <2> DEFINE h == [m \in 0 .. n + 1 |-> IF m = n + 1 THEN Masks(g, m) ELSE g[m]]
  <2>2. ASSUME NEW m \in 0 .. n + 1 PROVE h[m] = Masks(h, m)
    <3>1. m # 0 => h[m \div 2] = g[m \div 2]
      <4> SUFFICES ASSUME m # 0 PROVE h[m \div 2] = g[m \div 2]
        OBVIOUS
      <4>1. PICK i \in Nat : i = m \div 2 /\ i < m
        BY Halves
      <4>2. i \in 0 .. n + 1 /\ i # n + 1
        BY <4>1
      <4> QED
        BY <4>1, <4>2
    <3>2. h[m] = Masks(g, m)
      <4>1. CASE m = n + 1
        BY <4>1, Zenon
      <4>2. CASE m # n + 1
        <5>1. m \in 0 .. n
          BY <4>2
        <5>2. h[m] = g[m]
          BY <4>2
        <5> HIDE DEF h
        <5> QED
          BY <2>1, <5>1, <5>2 DEF MasksUpTo
      <4> QED
        BY <4>1, <4>2
    <3> HIDE DEF h
    <3>3. Masks(h, m) = Masks(g, m)
      <4>1. CASE m = 0
        BY <4>1 DEF Masks
      <4>2. CASE m # 0
        BY <3>1, <4>2, Zenon DEF Masks
      <4> QED
        BY <4>1, <4>2
    <3> QED
      BY <3>2, <3>3
  <2>3. DOMAIN h = 0 .. n + 1
    OBVIOUS
  <2> HIDE DEF h
  <2>4. MasksUpTo(n + 1, h)
    BY <2>2, <2>3 DEF MasksUpTo
  <2> QED
    BY <2>4
<1>3. Nat \subseteq S
  <2> HIDE DEF S
  <2> QED
    BY <1>1, <1>2, SetInduction
<1> QED
  BY <1>3

(* Common is what its definition says. *)
LEMMA CommonIs ==
  \A m \in Nat, n \in Nat :
    Common[m][n] = IF m = 0 THEN 0
                   ELSE 2 * Common[m \div 2][n \div 2] + (m % 2) * (n % 2)
<1> DEFINE upTo(m) == CHOOSE g : MasksUpTo(m, g)
           h == [m \in Nat |-> upTo(m)[m]]
<1>1. \A m \in Nat : MasksUpTo(m, upTo(m))
  BY MasksExist
<1>2. ASSUME NEW m \in Nat PROVE h[m] = Masks(h, m)
  <2>1. h[m] = Masks(upTo(m), m)
    BY <1>1 DEF MasksUpTo
  <2>2. m # 0 => h[m \div 2] = upTo(m)[m \div 2]
    <3> SUFFICES ASSUME m # 0 PROVE h[m \div 2] = upTo(m)[m \div 2]
      OBVIOUS
    <3>1. PICK i \in Nat : i = m \div 2 /\ i < m
      BY Halves
    <3>2. h[i] = upTo(i)[i]
      OBVIOUS
    <3>3. MasksUpTo(i, upTo(i)) /\ MasksUpTo(m, upTo(m))
      BY <1>1
    <3> HIDE DEF h, upTo
    <3>4. upTo(i)[i] = upTo(m)[i]
      BY <3>1, <3>3, MasksUnique
    <3> QED
      BY <3>1, <3>2, <3>4
  <2> HIDE DEF h, upTo
  <2>3. Masks(h, m) = Masks(upTo(m), m)
    <3>1. CASE m = 0
      BY <3>1 DEF Masks
    <3>2. CASE m # 0
      BY <2>2, <3>2, Zenon DEF Masks
    <3> QED
      BY <3>1, <3>2
  <2> QED
    BY <2>1, <2>3
<1>3. h = [m \in Nat |-> h[m]]
  OBVIOUS
<1> HIDE DEF h
<1>4. h = [m \in Nat |-> Masks(h, m)]
  BY <1>2, <1>3
<1>5. Common = [m \in Nat |-> Masks(Common, m)]
  BY <1>4 DEF Common, Masks
<1>6. \A m \in Nat : Common[m] = Masks(Common, m)
  BY <1>5
<1> QED
  BY <1>6 DEF Masks

(* n & m is at most m. *)
LEMMA CommonBounds ==
  \A m \in Nat, n \in Nat : Common[m][n] \in 0 .. m
<1> DEFINE Bad == {m \in Nat : \E n \in Nat : Common[m][n] \notin 0 .. m}
<1> SUFFICES ASSUME Bad # {} PROVE FALSE
  OBVIOUS
<1>1. PICK m \in Bad : \A i \in Bad : m <= i
  <2>1. Bad \in SUBSET Nat
    OBVIOUS
  <2> HIDE DEF Bad
  <2> QED
    BY <2>1, LeastNat
<1>2. PICK n \in Nat : m \in Nat /\ Common[m][n] \notin 0 .. m
  BY <1>1
<1>3. m # 0 /\ Common[m][n] = 2 * Common[m \div 2][n \div 2] + (m % 2) * (n % 2)
  BY <1>2, CommonIs
<1>4. PICK i \in Nat, p \in {0, 1} : i = m \div 2 /\ p = m % 2 /\ m = 2 * i + p /\ i < m
  BY <1>2, <1>3, Halves
<1>5. PICK j \in Nat, q \in {0, 1} : j = n \div 2 /\ q = n % 2
  BY <1>2, Halves
<1>6. Common[i][j] \in 0 .. i
  BY <1>1, <1>2, <1>4
<1>7. p * q \in 0 .. p
  OBVIOUS
<1> HIDE DEF Bad
<1>8. PICK e \in 0 .. i, d \in 0 .. p : e = Common[i][j] /\ d = p * q
  BY <1>6, <1>7
<1>9. Common[m][n] = 2 * e + d
  BY <1>3, <1>4, <1>5, <1>8
<1>10. 2 * e + d \in 0 .. m
  BY <1>4
<1> QED
  BY <1>2, <1>9, <1>10

(* For a power of two, n & (line - 1) is the remainder. *)
LEMMA CommonIsRemainder ==
  \A line \in Nat \ {0}, n \in Nat : PowerOfTwo(line) => Common[line - 1][n] = n % line
<1> DEFINE Bad == {k \in Nat : k # 0 /\ PowerOfTwo(k) /\ \E n \in Nat : Common[k - 1][n] # n % k}
<1> SUFFICES ASSUME Bad # {} PROVE FALSE
  OBVIOUS
<1>1. PICK k \in Bad : \A i \in Bad : k <= i
  <2>1. Bad \in SUBSET Nat
    OBVIOUS
  <2> HIDE DEF Bad
  <2> QED
    BY <2>1, LeastNat
<1>2. PICK n \in Nat : /\ k \in Nat \ {0} /\ PowerOfTwo(k)
                       /\ Common[k - 1][n] # n % k
  BY <1>1
<1>5. ASSUME NEW i \in Nat \ {0}, NEW j \in Nat, i < k, PowerOfTwo(i)
      PROVE  Common[i - 1][j] = j % i
  BY <1>1, <1>2, <1>5
<1> HIDE DEF Bad
<1>3. CASE k = 1
  <2>1. Common[0][n] = 0
    BY CommonIs
  <2> QED
    BY <1>2, <1>3, <2>1
<1>4. CASE k # 1
  <2>1. k % 2 = 0
    <3>1. k % k = 0 /\ k \in 1 .. k
      BY <1>2
    <3> QED
      BY <1>2, <1>4, <3>1 DEF PowerOfTwo
  <2>2. PICK i \in Nat \ {0} : k = 2 * i
    BY <1>2, <2>1
  <2>3. (k - 1) \div 2 = i - 1 /\ (k - 1) % 2 = 1 /\ k - 1 \in Nat \ {0} /\ i < k
    BY <2>2
  <2>4. PICK j \in Nat, q \in {0, 1} : j = n \div 2 /\ q = n % 2 /\ n = 2 * j + q
    BY <1>2, Halves
  <2>5. Common[k - 1][n] = 2 * Common[i - 1][j] + q
    <3>1. PICK m \in Nat \ {0} : m = k - 1
      BY <2>3
    <3>2. Common[m][n] = 2 * Common[m \div 2][n \div 2] + (m % 2) * (n % 2)
      BY <1>2, <3>1, CommonIs
    <3>3. (m % 2) * (n % 2) = q /\ m \div 2 = i - 1
      BY <2>3, <2>4, <3>1
    <3> QED
      BY <2>4, <3>1, <3>2, <3>3
  <2>6. PowerOfTwo(i)
    <3> SUFFICES ASSUME NEW d \in 1 .. i, i % d = 0 PROVE d = 1 \/ d % 2 = 0
      BY DEF PowerOfTwo
    <3>1. i = d * (i \div d) /\ i \div d \in Int
      BY Division
    <3>2. PICK e \in Int : e = i \div d
      BY <3>1
    <3>3. k = d * (2 * e) + 0 /\ 2 * e \in Int
      <4>1. d * (2 * e) = 2 * (d * e)
        OBVIOUS
      <4> QED
        BY <2>2, <3>1, <3>2, <4>1
    <3>4. k % d = 0
      <4>1. d \in Nat \ {0} /\ 0 \in 0 .. d - 1 /\ k \in Int
        BY <2>2
      <4>2. PICK f \in Int : f = 2 * e /\ k = d * f + 0
        BY <3>3
      <4> QED
        BY <4>1, <4>2, Quotients
    <3>5. d \in 1 .. k
      BY <1>2, <2>3
    <3> QED
      BY <1>2, <3>4, <3>5 DEF PowerOfTwo
  <2>7. Common[i - 1][j] = j % i
    BY <1>5, <2>2, <2>3, <2>6
  <2>8. PICK a \in Int, r \in 0 .. i - 1 : a = j \div i /\ r = j % i /\ j = i * a + r
    <3>1. i \in Nat \ {0} /\ j \in Int
      OBVIOUS
    <3>2. j \div i \in Int /\ j % i \in 0 .. i - 1 /\ j = i * (j \div i) + (j % i)
      BY <3>1, Division
    <3> QED
      BY <3>2, Zenon
  <2>9. n = k * a + (2 * r + q) /\ 2 * r + q \in 0 .. k - 1
    <3>1. PICK c \in Int : c = i * a
      OBVIOUS
    <3>2. k * a = 2 * c
      BY <2>2, <3>1
    <3>3. n = k * a + (2 * r + q)
      <4>1. j = c + r
        BY <2>8, <3>1
      <4>2. n = 2 * c + (2 * r + q)
        BY <2>4, <4>1
      <4> QED
        BY <3>2, <4>2, Zenon
    <3>4. 2 * r + q \in 0 .. k - 1
      BY <2>2, <2>8
    <3> QED
      BY <3>3, <3>4
  <2>10. n % k = 2 * r + q
    <3>1. PICK d \in 0 .. k - 1 : d = 2 * r + q /\ n = k * a + d
      BY <2>9
    <3>2. k \in Nat \ {0} /\ a \in Int /\ n \in Int
      BY <1>2
    <3>3. n % k = d
      BY <3>1, <3>2, Quotients
    <3> QED
      BY <3>1, <3>3
  <2> QED
    BY <1>2, <2>5, <2>7, <2>8, <2>10
<1> QED
  BY <1>3, <1>4

USE LayoutAssumption DEF LayoutAssumption

(* A conversion to int32 yields an int32, and changes a number by a        *)
(* multiple of the number of int32 values.                                 *)
LEMMA Int32Wraps ==
  ASSUME NEW n \in Int
  PROVE  /\ Int32(n) \in Int /\ -Half <= Int32(n) /\ Int32(n) <= MaxInt32
         /\ \E q \in Int : n = Int32(n) + q * (2 * Half)
<1>1. PICK m \in Nat \ {0} : m = 2 * Half
  OBVIOUS
<1>2. PICK x \in Int : x = n + Half
  OBVIOUS
<1>3. x \div m \in Int /\ x % m \in 0 .. m - 1 /\ x = m * (x \div m) + (x % m)
  BY Division
<1>4. Int32(n) = (x % m) - Half
  BY <1>1, <1>2 DEF Int32
<1>5. n = Int32(n) + (x \div m) * m
  BY <1>2, <1>3, <1>4
<1>6. Int32(n) \in Int /\ -Half <= Int32(n) /\ Int32(n) <= MaxInt32
  BY <1>1, <1>3, <1>4 DEF MaxInt32
<1>7. \E q \in Int : n = Int32(n) + q * (2 * Half)
  BY <1>1, <1>3, <1>5, Zenon
<1> QED
  BY <1>6, <1>7

(* What the code relies on when it spaces slabs alignedSize apart: New     *)
(* accepts no size that its alignment to cache lines, or a wrap on the way,*)
(* has made smaller, whatever the cache line.                              *)
LEMMA AlignedHolds ==
  ASSUME NEW size \in Int, -Half <= size, size <= MaxInt32, NEW line \in 1 .. Half - 1,
         AlignToCache(size, line) > 0
  PROVE  /\ AlignToCache(size, line) \in Nat /\ size <= AlignToCache(size, line)
         /\ PowerOfTwo(line) => \E q \in Nat : AlignToCache(size, line) = q * line
<1>1. PICK x \in Int : /\ x = Int32(size + line - 1) /\ x <= MaxInt32
                      /\ \E q \in Int : size + line - 1 = x + q * (2 * Half)
  <2>1. size + line - 1 \in Int
    OBVIOUS
  <2> QED
    BY <2>1, Int32Wraps
<1>2. PICK w \in Nat \ {0} : w = 2 * Half
  OBVIOUS
<1>3. PICK c \in 0 .. line - 1 : c = Common[line - 1][x % w]
  <2>1. line - 1 \in Nat /\ x % w \in Nat
    BY Division
  <2> QED
    BY <2>1, CommonBounds
<1>4. AlignToCache(size, line) = x - c
  BY <1>1, <1>2, <1>3 DEF AlignToCache
<1>5. PICK q \in Int : size + line - 1 = x + q * w
  BY <1>1, <1>2
<1>6. x > 0
  BY <1>4
<1>7. q = 0
  <2>1. ASSUME q < 0 PROVE FALSE
    <3>1. q * w <= -w
      <4>1. PICK d \in Nat : q = -1 - d
        <5>1. -1 - q \in Nat /\ q = -1 - (-1 - q)
          BY <2>1
        <5> QED
          BY <5>1
      <4>2. q * w = -w - d * w /\ d * w \in Nat
        BY <4>1
      <4> QED
        BY <4>2
    <3>2. PICK u \in Int : u = q * w
      OBVIOUS
    <3> QED
      BY <1>1, <1>2, <1>5, <3>1, <3>2 DEF MaxInt32
  <2>2. ASSUME q > 0 PROVE FALSE
    <3>1. q * w >= w
      <4>1. PICK d \in Nat : q = 1 + d
        <5>1. q - 1 \in Nat /\ q = 1 + (q - 1)
          BY <2>2
        <5> QED
          BY <5>1
      <4>2. q * w = w + d * w /\ d * w \in Nat
        BY <4>1
      <4> QED
        BY <4>2
    <3>2. PICK u \in Int : u = q * w
      OBVIOUS
    <3> QED
      BY <1>2, <1>5, <1>6, <3>1, <3>2 DEF MaxInt32
  <2> QED
    BY <2>1, <2>2
<1>8. x = size + line - 1
  BY <1>5, <1>7
<1>9. ASSUME PowerOfTwo(line) PROVE \E d \in Nat : x - c = d * line
  <2>1. x % w = x
    BY <1>1, <1>2, <1>6 DEF MaxInt32
  <2>2. c = x % line
    <3>1. line \in Nat \ {0} /\ x \in Nat
      BY <1>6
    <3> QED
      BY <1>3, <1>9, <2>1, <3>1, CommonIsRemainder
  <2>3. x \div line \in Int /\ x = line * (x \div line) + c
    <3>1. line \in Nat \ {0}
      OBVIOUS
    <3> QED
      BY <2>2, <3>1, Division
  <2>4. PICK d \in Int : d = x \div line /\ x = line * d + c
    BY <2>3
  <2>5. x - c = line * d
    BY <2>4
  <2>6. d >= 0
    <3> SUFFICES ASSUME d < 0 PROVE FALSE
      OBVIOUS
    <3>1. PICK e \in Nat : d = -1 - e
      <4>1. -1 - d \in Nat /\ d = -1 - (-1 - d)
        OBVIOUS
      <4> QED
        BY <4>1
    <3>2. line * d = -line - line * e /\ line * e \in Nat
      BY <3>1
    <3> QED
      BY <1>4, <2>5, <3>2
  <2>7. line * d = d * line
    OBVIOUS
  <2> QED
    BY <2>5, <2>6, <2>7
<1>10. x - c \in Nat /\ size <= x - c
  BY <1>4, <1>8
<1> QED
  BY <1>4, <1>9, <1>10

(* What New leaves behind. *)
Made ==
  \/ made = NoAllocator
  \/ /\ made.slabSize \in Int /\ made.capacity \in Nat /\ made.alignedSize \in Nat
     /\ made.guarded \in BOOLEAN /\ made.line \in 1 .. Half - 1
     /\ made.slabSize <= made.alignedSize
     /\ PowerOfTwo(made.line) => \E q \in Nat : made.alignedSize = q * made.line

(* New with any arguments. *)
LEMMA NextMade == [Next]_made /\ Made => Made'
<1>1. ASSUME NEW size \in Sizes, NEW capacity \in Capacities, NEW line \in Lines,
             NEW guarded \in BOOLEAN, New(size, capacity, line, guarded)
      PROVE  Made'
  <2>1. CASE Accepted(size, capacity, line)
    <3>1. size \in Int /\ capacity \in Nat \ {0} /\ line \in 1 .. Half - 1
      BY <2>1 DEF Accepted
    <3>2. Int32(size) \in Int /\ -Half <= Int32(size) /\ Int32(size) <= MaxInt32
      BY <3>1, Int32Wraps
    <3>3. AlignToCache(Int32(size), line) \in Int
      <4>1. Int32(size) + line - 1 \in Int
        BY <3>1, <3>2
      <4>2. Int32(Int32(size) + line - 1) \in Int
        BY <4>1, Int32Wraps
      <4>3. PICK x \in Int : x = Int32(Int32(size) + line - 1)
        BY <4>2
      <4>4. Common[line - 1][x % (2 * Half)] \in Int
        <5>1. line - 1 \in Nat /\ 2 * Half \in Nat \ {0}
          BY <3>1
        <5>2. x % (2 * Half) \in Nat
          BY <5>1, Division
        <5> QED
          BY <5>1, <5>2, CommonBounds
      <4> QED
        BY <4>3, <4>4 DEF AlignToCache
    <3>4. AlignToCache(Int32(size), line) > 0
      BY <2>1, <3>1, <3>3 DEF Accepted
    <3>5. /\ AlignToCache(Int32(size), line) \in Nat
          /\ Int32(size) <= AlignToCache(Int32(size), line)
          /\ PowerOfTwo(line) => \E q \in Nat : AlignToCache(Int32(size), line) = q * line
      BY <3>1, <3>2, <3>4, AlignedHolds
    <3>6. made' = Allocator(size, capacity, line, guarded)
      BY <1>1, <2>1 DEF New
    <3> QED
      BY <3>1, <3>2, <3>5, <3>6 DEF Made, Allocator
  <2>2. CASE ~Accepted(size, capacity, line)
    BY <1>1, <2>2 DEF New, Made
  <2> QED
    BY <2>1, <2>2
<1> QED
  BY <1>1 DEF Next, Made

(* Slabs begin alignedSize, and a guard page if there are any, apart. *)
LEMMA Spacing ==
  ASSUME Made, NEW s \in Slabs(made), NEW u \in Slabs(made), s < u
  PROVE  SlabOffset(made, s) \in Nat /\ SlabOffset(made, u) \in Nat
         /\ SlabOffset(made, s) + made.alignedSize <= SlabOffset(made, u)
<1>1. made # NoAllocator
  BY DEF NoAllocator, Slabs
<1>2. made.alignedSize \in Nat /\ s \in Nat /\ u \in Nat
  BY <1>1 DEF Made, Slabs
<1>3. /\ s * made.alignedSize \in Nat /\ u * made.alignedSize \in Nat
      /\ s * made.alignedSize + made.alignedSize <= u * made.alignedSize
  BY <1>2, Multiples
<1>4. /\ s * GuardPage \in Nat /\ u * GuardPage \in Nat
      /\ s * GuardPage + GuardPage <= u * GuardPage
  BY <1>2, Multiples
<1>5. CASE made.guarded
  <2>1. /\ SlabOffset(made, s) = s * made.alignedSize + s * GuardPage
        /\ SlabOffset(made, u) = u * made.alignedSize + u * GuardPage
    BY <1>5 DEF SlabOffset
  <2>2. PICK i, j, g, h \in Nat : /\ i = s * made.alignedSize /\ j = u * made.alignedSize
                                  /\ g = s * GuardPage /\ h = u * GuardPage
    BY <1>3, <1>4
  <2>3. i + made.alignedSize <= j /\ g <= h
    BY <1>2, <1>3, <1>4, <2>2
  <2>4. SlabOffset(made, s) = i + g /\ SlabOffset(made, u) = j + h
    BY <2>1, <2>2
  <2> QED
    BY <1>2, <2>3, <2>4
<1>6. CASE ~made.guarded
  <2>1. /\ SlabOffset(made, s) = s * made.alignedSize
        /\ SlabOffset(made, u) = u * made.alignedSize
    BY <1>3, <1>6 DEF SlabOffset
  <2> QED
    BY <1>2, <1>3, <2>1
<1> QED
  BY <1>5, <1>6

(* Slabs are apart. *)
LEMMA MadeDisjoint == Made => SlabsDisjoint
<1> SUFFICES ASSUME Made, NEW s \in Slabs(made), NEW u \in Slabs(made), s < u
             PROVE  /\ ~Overlap(SlabOffset(made, s), SlabEnd(made, s),
                                SlabOffset(made, u), SlabEnd(made, u))
                    /\ ~Overlap(SlabOffset(made, u), SlabEnd(made, u),
                                SlabOffset(made, s), SlabEnd(made, s))
  <2>1. \A s, u \in Slabs(made) : s # u => s < u \/ u < s
    BY DEF Slabs, Made, NoAllocator
  <2> QED
    BY <2>1 DEF SlabsDisjoint
<1>1. made # NoAllocator
  BY DEF NoAllocator, Slabs
<1>2. made.slabSize \in Int /\ made.alignedSize \in Nat
      /\ made.slabSize <= made.alignedSize
  BY <1>1 DEF Made
<1>3. /\ SlabOffset(made, s) \in Nat /\ SlabOffset(made, u) \in Nat
      /\ SlabOffset(made, s) + made.alignedSize <= SlabOffset(made, u)
  BY Spacing
<1> QED
  BY <1>2, <1>3 DEF Overlap, SlabEnd

(* Slabs are inside the memory. *)
LEMMA MadeInBounds == Made => SlabsInBounds
<1> SUFFICES ASSUME Made, NEW s \in Slabs(made)
             PROVE  0 <= SlabOffset(made, s) /\ SlabEnd(made, s) <= PoolCap(made)
  BY DEF SlabsInBounds
<1>1. made # NoAllocator
  BY DEF NoAllocator, Slabs
<1> DEFINE a == made.alignedSize
           n == made.capacity
<1>2. /\ made.slabSize \in Int /\ a \in Nat /\ made.slabSize <= a
      /\ n \in Nat /\ s \in Nat /\ s < n
  BY <1>1 DEF Made, Slabs
<1>3. s * a \in Nat /\ n * a \in Nat /\ s * a + a <= n * a /\ n * a = a * n
  BY <1>2, Multiples
<1>4. /\ s * GuardPage \in Nat /\ n * GuardPage \in Nat
      /\ s * GuardPage + GuardPage <= n * GuardPage
      /\ 2 * GuardPage * n = 2 * (n * GuardPage)
  BY <1>2, Multiples
<1> QED
  BY <1>2, <1>3, <1>4 DEF SlabOffset, SlabEnd, PoolCap, PoolLen, GuardMemory

(* No two slabs of an allocator share a byte, whatever its size, capacity  *)
(* and cache line (New, getSlabBytes).                                     *)
THEOREM Disjoint == Spec => []SlabsDisjoint
<1>1. Init => Made
  BY DEF Init, Made
<1> QED
  BY <1>1, NextMade, MadeDisjoint, PTL DEF Spec

(* No allocation slices beyond the memory New reserved, with or without    *)
(* guard pages (getSlabBytes).                                             *)
THEOREM InBounds == Spec => []SlabsInBounds
<1>1. Init => Made
  BY DEF Init, Made
<1> QED
  BY <1>1, NextMade, MadeInBounds, PTL DEF Spec

(* Slabs and guard pages that are whole cache lines put every slab on the  *)
(* start of one.                                                           *)
LEMMA MadeAligned == Made => SlabsAligned
<1> SUFFICES ASSUME Made, PowerOfTwo(made.line), GuardPage % made.line = 0, NEW s \in Slabs(made)
             PROVE  SlabOffset(made, s) % made.line = 0
  BY DEF SlabsAligned
<1>1. made # NoAllocator
  BY DEF NoAllocator, Slabs
<1>2. PICK n \in Nat \ {0} : n = made.line
  BY <1>1 DEF Made
<1>3. PICK q \in Nat : made.alignedSize = q * n
  BY <1>1, <1>2 DEF Made
<1>4. PICK g \in Int : GuardPage = n * g
  <2>1. PICK p \in Int : p = GuardPage /\ p % n = 0
    BY <1>2
  <2>2. p \div n \in Int /\ p = n * (p \div n) + (p % n)
    BY Division
  <2>3. n * (p \div n) \in Int
    BY <2>2
  <2>4. PICK g \in Int : g = p \div n
    BY <2>2
  <2>5. GuardPage = n * g
    BY <2>1, <2>2, <2>3, <2>4
  <2> QED
    BY <2>5, Zenon
<1>5. s \in Nat
  BY <1>1 DEF Made, Slabs
<1>6. s * made.alignedSize = n * (s * q) /\ s * q \in Int
  BY <1>3, <1>5
<1>7. s * GuardPage = n * (s * g) /\ s * g \in Int
  BY <1>4, <1>5
<1>8. PICK x \in Int : SlabOffset(made, s) = n * x
  <2>1. PICK i, j \in Int : i = s * q /\ j = s * g
    BY <1>6, <1>7
  <2>2. s * made.alignedSize = n * i /\ s * GuardPage = n * j
    BY <1>6, <1>7, <2>1
  <2>3. CASE made.guarded
    <3>1. SlabOffset(made, s) = n * i + n * j
      BY <2>2, <2>3 DEF SlabOffset
    <3>2. n * i + n * j = n * (i + j)
      OBVIOUS
    <3>3. i + j \in Int /\ SlabOffset(made, s) = n * (i + j)
      BY <3>1, <3>2
    <3> QED
      BY <3>3, Zenon
  <2>4. CASE ~made.guarded
    <3>1. PICK m \in Int : m = n * i
      OBVIOUS
    <3>2. SlabOffset(made, s) = m
      BY <2>2, <2>4, <3>1 DEF SlabOffset
    <3>3. SlabOffset(made, s) = n * i
      BY <3>1, <3>2
    <3> QED
      BY <3>3, Zenon
  <2> QED
    BY <2>3, <2>4
<1> QED
  BY <1>2, <1>8, Quotients

(* Every slab begins on a cache line, whichever power of two the line is   *)
(* (alignToCache).                                                         *)
THEOREM Aligned == Spec => []SlabsAligned
<1>1. Init => Made
  BY DEF Init, Made
<1> QED
  BY <1>1, NextMade, MadeAligned, PTL DEF Spec

-----------------------------------------------------------------------------
(* SizeClassAllocator *)

(* The library's Min is the least element. *)
LEMMA LeastClass ==
  ASSUME NEW S \in SUBSET Nat, S # {}
  PROVE  C!Min(S) \in S /\ \A i \in S : C!Min(S) <= i
<1>1. \E n \in S : \A m \in S : n <= m
  BY LeastNat
<1> QED
  BY <1>1 DEF C!Min

(* The classes are numbers. *)
LEMMA ClassesTyped == C!Classes \in Seq(Nat) /\ Len(C!Classes) \in Nat
  BY SizesAssumption DEF SizesAssumption, C!Classes

(* findSizeClass finds the first class that holds a size, if any does. *)
LEMMA FirstClass ==
  ASSUME NEW size \in Int
  PROVE  /\ C!FindSizeClass(size) \in -1 .. Len(C!Classes) - 1
         /\ C!FindSizeClass(size) >= 0 =>
              /\ C!Classes[C!FindSizeClass(size) + 1] >= size
              /\ \A i \in 1 .. C!FindSizeClass(size) : C!Classes[i] < size
         /\ C!FindSizeClass(size) < 0 => \A i \in DOMAIN C!Classes : C!Classes[i] < size
<1> DEFINE I == {i \in 1 .. Len(C!Classes) : C!Classes[i] >= size}
<1>1. C!FindSizeClass(size) = (IF I # {} THEN C!Min(I) ELSE 0) - 1
  BY DEF C!FindSizeClass, C!SelectInSeq
<1>2. \A i \in 1 .. Len(C!Classes) : C!Classes[i] \in Nat /\ i \in Nat
  BY ClassesTyped
<1>3. DOMAIN C!Classes = 1 .. Len(C!Classes) /\ Len(C!Classes) \in Nat
  BY ClassesTyped
<1>4. CASE I = {}
  BY <1>1, <1>2, <1>3, <1>4
<1>5. CASE I # {}
  <2>1. PICK k \in I : k = C!Min(I) /\ \A i \in I : k <= i
    <3>1. I \in SUBSET Nat
      OBVIOUS
    <3> HIDE DEF I
    <3> QED
      BY <1>5, <3>1, LeastClass
  <2>2. C!FindSizeClass(size) = k - 1 /\ k \in 1 .. Len(C!Classes) /\ C!Classes[k] >= size
    BY <1>1, <1>5, <2>1
  <2>3. \A i \in 1 .. k - 1 : C!Classes[i] < size
    BY <1>2, <1>3, <2>1, <2>2
  <2>4. k - 1 \in -1 .. Len(C!Classes) - 1 /\ k - 1 >= 0 /\ (k - 1) + 1 = k
    BY <1>3, <2>2
  <2> QED
    BY <2>2, <2>3, <2>4
<1> QED
  BY <1>4, <1>5

(* The inductive invariant: what is served is what the tables say, for a   *)
(* threshold that never changes.                                           *)
ServedInv == largeThreshold \in Thresholds /\ C!RefusedOnlyAtTop /\ C!SmallestClass

(* A refusal is at the top, and an answer from the smallest class. *)
LEMMA AnswerHolds ==
  ASSUME NEW size \in Requests, largeThreshold \in Thresholds
  PROVE  LET a == C!Answer(size) IN
           /\ a.by = "unavailable" =>
                \A class \in 0 .. Len(C!Classes) - 1 :
                  C!Made(class) => C!Classes[class + 1] < a.asked
           /\ a.by = "slab" =>
                \A i \in DOMAIN C!Classes : C!Classes[i] >= a.asked => a.length <= C!Classes[i]
           /\ a.by = "large" => a.asked > largeThreshold
<1>0. size \in Int /\ largeThreshold \in Int
  BY SizesAssumption DEF SizesAssumption
<1> DEFINE k == C!FindSizeClass(size)
<1>1. /\ k \in -1 .. Len(C!Classes) - 1
      /\ k >= 0 => C!Classes[k + 1] >= size /\ \A i \in 1 .. k : C!Classes[i] < size
      /\ k < 0 => \A i \in DOMAIN C!Classes : C!Classes[i] < size
  BY <1>0, FirstClass
<1> HIDE DEF k
<1>2. CASE size <= 0
  BY <1>0, <1>2 DEF C!Answer
<1>3. CASE size > 0 /\ size <= largeThreshold /\ k >= 0
  <2>1. C!Answer(size) = C!FromSlab(size, k)
    BY <1>0, <1>3 DEF C!Answer, C!SizeToClass, k
  <2>2. ASSUME NEW i \in DOMAIN C!Classes, C!Classes[i] >= size
        PROVE  C!Classes[k + 1] <= C!Classes[i]
    <3>1. i \in 1 .. Len(C!Classes) /\ C!Classes[i] \in Nat /\ Len(C!Classes) \in Nat
      BY ClassesTyped
    <3>2. k \in Nat /\ i \in Nat /\ ~(i \in 1 .. k)
      BY <1>0, <1>1, <1>3, <2>2, <3>1
    <3>3. k + 1 <= i /\ k + 1 \in DOMAIN C!Classes
      BY <1>1, <1>3, <3>1, <3>2, ClassesTyped
    <3> QED
      BY <3>3, SizesAssumption DEF SizesAssumption
  <2>3. CASE C!Made(k)
    <3>1. C!Answer(size) = [asked |-> size, by |-> "slab", length |-> C!Classes[k + 1]]
      BY <2>1, <2>3 DEF C!FromSlab
    <3> QED
      BY <1>1, <1>3, <2>2, <3>1
  <2>4. CASE ~C!Made(k)
    <3>1. C!Answer(size) = [asked |-> size, by |-> "unavailable", length |-> 0]
      BY <2>1, <2>4 DEF C!FromSlab
    <3>2. ASSUME NEW class \in 0 .. Len(C!Classes) - 1, C!Made(class)
          PROVE  C!Classes[class + 1] < size
      <4>1. class < k
        <5> SUFFICES ASSUME k <= class PROVE FALSE
          BY <1>1, <1>3
        <5>1. k >= C!SizeClassCount /\ ~(class < C!SizeClassCount)
          <6>1. BaseTable \in Seq(Nat)
            BY SizesAssumption DEF SizesAssumption
          <6>2. C!SizeClassCount \in Nat
            BY <6>1 DEF C!SizeClassCount
          <6>3. ~(k < C!SizeClassCount)
            BY <2>4 DEF C!Made
          <6> QED
            BY <1>1, <1>3, <6>2, <6>3
        <5>2. \A i \in C!SizeClassCount .. class : C!Classes[i + 1] < largeThreshold
          BY <3>2, <5>1 DEF C!Made
        <5> QED
          BY <1>1, <1>3, <2>4, <5>2 DEF C!Made
      <4>2. class + 1 \in 1 .. k
        BY <1>1, <1>3, <4>1
      <4> QED
        BY <1>1, <1>3, <4>2
    <3> QED
      BY <3>1, <3>2
  <2> QED
    BY <2>3, <2>4
<1>4. CASE size > 0 /\ ~(size <= largeThreshold /\ k >= 0)
  <2>1. C!Answer(size) = [asked |-> size, by |-> "large", length |-> size]
    BY <1>0, <1>1, <1>4 DEF C!Answer, C!SizeToClass, k
  <2>2. ~(size <= largeThreshold)
    <3> SUFFICES ASSUME size <= largeThreshold PROVE FALSE
      OBVIOUS
    <3>1. k < 0
      BY <1>1, <1>4
    <3>2. PICK i \in DOMAIN C!Classes : largeThreshold <= C!Classes[i]
      BY SizesAssumption DEF SizesAssumption
    <3>3. C!Classes[i] \in Nat /\ C!Classes[i] < size
      BY <1>1, <3>1, ClassesTyped
    <3> QED
      BY <1>0, <3>2, <3>3
  <2> QED
    BY <1>0, <2>1, <2>2
<1> QED
  BY <1>0, <1>1, <1>2, <1>3, <1>4

(* Whatever is made or asked for, the last answer is right. *)
LEMMA ServedAlways == MCSpec => []ServedInv
<1>1. MCInit => ServedInv
  BY DEF MCInit, C!Init, C!Nothing, ServedInv, C!RefusedOnlyAtTop, C!SmallestClass
<1>2. ASSUME ServedInv, MCNext \/ UNCHANGED <<made, largeThreshold, served, lists>>
      PROVE  ServedInv'
  <2>1. UNCHANGED largeThreshold
    BY <1>2 DEF MCNext, C!Next, C!Allocate
  <2>2. \/ UNCHANGED served
        \/ served' = C!Nothing
        \/ \E size \in Requests : served' = C!Answer(size)
    BY <1>2 DEF MCNext, C!Next, C!Allocate
  <2>3. CASE UNCHANGED served
    BY <1>2, <2>1, <2>3 DEF ServedInv, C!RefusedOnlyAtTop, C!SmallestClass, C!Made
  <2>4. CASE served' = C!Nothing
    BY <1>2, <2>1, <2>4 DEF ServedInv, C!Nothing, C!RefusedOnlyAtTop, C!SmallestClass
  <2>5. ASSUME NEW size \in Requests, served' = C!Answer(size) PROVE ServedInv'
    BY <1>2, <2>1, <2>5, AnswerHolds DEF ServedInv, C!RefusedOnlyAtTop,
         C!SmallestClass, C!Made
  <2> QED
    BY <2>2, <2>3, <2>4, <2>5
<1> QED
  BY <1>1, <1>2, PTL DEF MCSpec

(* No request is refused that a class which was made would have held, for  *)
(* any sorted tables of classes and any threshold: the loop that stops at  *)
(* the threshold and the lookup table that does not leave no gap below it  *)
(* (NewSizeClassAllocator, allocateFromSlab).                              *)
THEOREM RefusalsAreAtTop == MCSpec => []RefusedOnlyAtTop
<1>1. ServedInv => RefusedOnlyAtTop
  BY DEF ServedInv, RefusedOnlyAtTop
<1> QED
  BY <1>1, ServedAlways, PTL

(* A request up to the threshold is served by the smallest class that      *)
(* holds it, and none of them is large (findSizeClass).                    *)
THEOREM SmallestServes == MCSpec => []SmallestClass
<1>1. ServedInv => SmallestClass
  BY DEF ServedInv, SmallestClass
<1> QED
  BY <1>1, ServedAlways, PTL

-----------------------------------------------------------------------------
(* The lists of the colored free list. *)

(* How many lists the array of l has, and their indices. *)
Length(l) == l.shards * Colors
Indices(l) == 0 .. Length(l) - 1

(* Whether the last get failed. *)
Yes == TRUE
No == FALSE

(* A free list by its fields. *)
FreeList(n, aligned, hash, array, kept, missed) ==
  [shards |-> n, aligned |-> aligned, hash |-> hash, array |-> array,
   kept |-> kept, missed |-> missed]

(* The array holds a list of slabs at each index. *)
ListsShape ==
  /\ lists = FreeList(lists.shards, lists.aligned, lists.hash, lists.array,
                      lists.kept, lists.missed)
  /\ lists.shards \in Nat \ {0} /\ lists.aligned \in Nat
  /\ lists.hash \in [F!Slabs -> Nat]
  /\ lists.array \in [Indices(lists) -> Seq(F!Slabs)]
  /\ lists.kept \subseteq F!Slabs

(* A numbering by shard and color reaches every list, and no other place. *)
LEMMA ShardAndColor ==
  ASSUME NEW n \in Nat \ {0}, NEW m \in Nat \ {0}
  PROVE  /\ \A a \in 0 .. n - 1, c \in 0 .. m - 1 : a * m + c \in 0 .. n * m - 1
         /\ \A i \in 0 .. n * m - 1 : /\ i \div m \in 0 .. n - 1 /\ i % m \in 0 .. m - 1
                                      /\ i = (i \div m) * m + (i % m)
         /\ n * m \in Nat \ {0}
<1>1. n * m \in Nat \ {0}
  OBVIOUS
<1>2. ASSUME NEW a \in 0 .. n - 1, NEW c \in 0 .. m - 1 PROVE a * m + c \in 0 .. n * m - 1
  <2>1. PICK d \in Nat : n = a + 1 + d
    <3>1. n - a - 1 \in Nat /\ n = a + 1 + (n - a - 1)
      OBVIOUS
    <3> QED
      BY <3>1
  <2>2. n * m = a * m + m + d * m /\ d * m \in Nat /\ a * m \in Nat
    BY <2>1
  <2> QED
    BY <2>2
<1>3. ASSUME NEW i \in 0 .. n * m - 1
      PROVE  /\ i \div m \in 0 .. n - 1 /\ i % m \in 0 .. m - 1
             /\ i = (i \div m) * m + (i % m)
  <2>1. PICK q \in Int, r \in 0 .. m - 1 : q = i \div m /\ r = i % m /\ i = m * q + r
    <3>1. i \in Int /\ i \div m \in Int /\ i % m \in 0 .. m - 1
          /\ i = m * (i \div m) + (i % m)
      BY Division
    <3> QED
      BY <3>1, Zenon
  <2>2. m * q = q * m
    OBVIOUS
  <2>3. q >= 0
    <3> SUFFICES ASSUME q <= -1 PROVE FALSE
      OBVIOUS
    <3>1. PICK e \in Nat : q = -1 - e
      <4>1. -1 - q \in Nat /\ q = -1 - (-1 - q)
        OBVIOUS
      <4> QED
        BY <4>1
    <3>2. m * q = -m - m * e /\ m * e \in Nat
      BY <3>1
    <3> QED
      BY <1>1, <2>1, <3>2
  <2>4. q < n
    <3> SUFFICES ASSUME q >= n PROVE FALSE
      OBVIOUS
    <3>1. PICK e \in Nat : q = n + e
      <4>1. q - n \in Nat /\ q = n + (q - n)
        OBVIOUS
      <4> QED
        BY <4>1
    <3>2. m * q = n * m + m * e /\ m * e \in Nat
      BY <3>1
    <3> QED
      BY <1>1, <2>1, <3>2
  <2> QED
    BY <2>1, <2>2, <2>3, <2>4
<1> QED
  BY <1>1, <1>2, <1>3

(* The scan of get comes by every list. *)
LEMMA ScanCovers ==
  ASSUME NEW l, l.shards \in Nat \ {0}, NEW start \in Int, NEW last \in Int,
         NEW i \in Indices(l)
  PROVE  \E k \in 1 .. Length(l) : F!Scan(l, start, last)[k] = i
<1>0. Colors \in Nat \ {0}
  BY SizesAssumption DEF SizesAssumption
<1>1. PICK n \in Nat \ {0}, m \in Nat \ {0} : n = l.shards /\ m = Colors
  BY <1>0
<1>2. PICK a \in 0 .. n - 1, c \in 0 .. m - 1 : i = a * m + c /\ Length(l) = n * m
  <2>1. i \in 0 .. n * m - 1 /\ Length(l) = n * m
    BY <1>1 DEF Indices, Length
  <2>2. /\ i \div m \in 0 .. n - 1 /\ i % m \in 0 .. m - 1
        /\ i = (i \div m) * m + (i % m)
    BY <2>1, ShardAndColor
  <2> QED
    BY <2>1, <2>2
<1>3. PICK r \in 0 .. n - 1 : r = (a - start) % n /\ (start + r) % n = a
  <2>1. (a - start) % n \in 0 .. n - 1
    OBVIOUS
  <2>2. (start + ((a - start) % n)) % n = a
    BY Remainders
  <2> QED
    BY <2>1, <2>2
<1>4. PICK d \in 0 .. m - 1 : (last + 1 + d) % m = c
  <2>1. PICK x \in Int : x = last + 1
    OBVIOUS
  <2>2. (c - x) % m \in 0 .. m - 1
    OBVIOUS
  <2>3. (x + ((c - x) % m)) % m = c
    BY Remainders
  <2> QED
    BY <2>1, <2>2, <2>3
<1>5. d * n + r \in 0 .. m * n - 1 /\ m * n = n * m
  BY ShardAndColor
<1>6. PICK k \in Int : k = d * n + r + 1
  BY <1>5
<1>7. k \in 1 .. Length(l) /\ k - 1 = n * d + r /\ start + k - 1 = (start + r) + n * d
  <2>1. n * d = d * n /\ n * d \in Int
    OBVIOUS
  <2> QED
    BY <1>2, <1>5, <1>6, <2>1
<1>8. (k - 1) \div n = d
  <2>1. PICK y \in Int : y = k - 1 /\ y = n * d + r
    BY <1>7
  <2>2. y \div n = d
    BY <2>1, Quotients
  <2> QED
    BY <2>1, <2>2
<1>9. (start + k - 1) % n = a
  <2>1. start + r \in Int /\ d \in Int
    OBVIOUS
  <2>2. ((start + r) + n * d) % n = (start + r) % n
    BY <2>1, Remainders
  <2> QED
    BY <1>3, <1>7, <2>2
<1>10. F!Scan(l, start, last)[k] = a * m + c
  <2>1. F!Scan(l, start, last)[k] =
          ((start + k - 1) % n) * m + ((last + 1 + ((k - 1) \div n)) % m)
    BY <1>1, <1>7 DEF F!Scan, Length
  <2> QED
    BY <1>4, <1>8, <1>9, <2>1
<1> QED
  BY <1>2, <1>7, <1>10

(* The order in which get looks into the lists, and the one it chooses. *)
Order(l, start) == F!Scan(l, start, 0) \o F!LastResort(l, start)
Choice(order, array) == F!SelectInSeq(order, LAMBDA i : array[i] # <<>>)

(* The order in which get looks: every list, at least once, and no other place. *)
LEMMA OrderCovers ==
  ASSUME NEW l, l.shards \in Nat \ {0}, NEW start \in 0 .. l.shards - 1,
         NEW order, order = Order(l, start)
  PROVE  /\ Len(order) \in Nat
         /\ \A k \in 1 .. Len(order) : order[k] \in Indices(l)
         /\ \A i \in Indices(l) : \E k \in 1 .. Len(order) : order[k] = i
<1>0. PICK n \in Nat \ {0}, m \in Nat \ {0} : n = l.shards /\ m = Colors
  BY SizesAssumption DEF SizesAssumption
<1>1. PICK N \in Nat \ {0} : N = n * m /\ N = Length(l) /\ n <= N
  <2>1. n * m \in Nat \ {0} /\ 0 \in 0 .. m - 1 /\ n - 1 \in 0 .. n - 1
    BY ShardAndColor
  <2>2. (n - 1) * m + 0 \in 0 .. n * m - 1
    BY <2>1, ShardAndColor
  <2>3. n <= n * m
    <3>1. PICK e \in Nat : m = 1 + e
      <4>1. m - 1 \in Nat /\ m = 1 + (m - 1)
        OBVIOUS
      <4> QED
        BY <4>1
    <3>2. n * m = n + n * e /\ n * e \in Nat
      BY <3>1
    <3> QED
      BY <3>2
  <2> QED
    BY <1>0, <2>1, <2>3 DEF Length
<1>2. PICK s, r : s = F!Scan(l, start, 0) /\ r = F!LastResort(l, start)
  OBVIOUS
<1>3. /\ s = [k \in 1 .. N |-> ((start + k - 1) % n) * m + ((0 + 1 + (k - 1) \div n) % m)]
      /\ r = [k \in 1 .. n |-> (start + k - 1) % n]
  BY <1>0, <1>1, <1>2 DEF F!Scan, F!LastResort, Length
<1>4. \A k \in 1 .. N : s[k] \in 0 .. N - 1
  <2> SUFFICES ASSUME NEW k \in 1 .. N PROVE s[k] \in 0 .. N - 1
    OBVIOUS
  <2>1. PICK x \in Int, y \in Int : x = start + k - 1 /\ y = 0 + 1 + ((k - 1) \div n)
    <3>1. start \in Int /\ k \in Int /\ k - 1 \in Int
      BY <1>0
    <3>2. (k - 1) \div n \in Int
      BY <3>1, Division
    <3> QED
      BY <3>1, <3>2
  <2>2. x % n \in 0 .. n - 1 /\ y % m \in 0 .. m - 1
    OBVIOUS
  <2>3. (x % n) * m + (y % m) \in 0 .. n * m - 1
    BY <2>2, ShardAndColor
  <2>4. s[k] = (x % n) * m + (y % m)
    BY <1>3, <2>1
  <2> QED
    BY <1>1, <2>3, <2>4
<1>5. \A k \in 1 .. n : r[k] \in 0 .. N - 1
  <2> SUFFICES ASSUME NEW k \in 1 .. n PROVE r[k] \in 0 .. N - 1
    OBVIOUS
  <2>1. start + k - 1 \in Int
    BY <1>0
  <2>2. (start + k - 1) % n \in 0 .. n - 1
    BY <2>1
  <2>3. r[k] = (start + k - 1) % n
    BY <1>3
  <2> QED
    BY <1>1, <2>2, <2>3
<1>6. /\ s \in Seq(Int) /\ Len(s) = N /\ r \in Seq(Int) /\ Len(r) = n
  <2>1. s \in [1 .. N -> Int]
    BY <1>3, <1>4
  <2>2. r \in [1 .. n -> Int]
    BY <1>3, <1>5
  <2> QED
    BY <2>1, <2>2
<1>7. PICK t : t = s \o r
  OBVIOUS
<1>8. /\ Len(t) = N + n
      /\ \A k \in 1 .. N : t[k] = s[k]
      /\ \A k \in N + 1 .. N + n : t[k] = r[k - N]
  <2>1. /\ Len(s \o r) = N + n
        /\ \A k \in 1 .. N : (s \o r)[k] = s[k]
        /\ \A k \in N + 1 .. N + n : (s \o r)[k] = r[k - N]
    <3>1. ASSUME NEW a \in Seq(Int), NEW b \in Seq(Int)
          PROVE  /\ Len(a \o b) = Len(a) + Len(b)
                 /\ \A k \in 1 .. Len(a) : (a \o b)[k] = a[k]
                 /\ \A k \in Len(a) + 1 .. Len(a) + Len(b) : (a \o b)[k] = b[k - Len(a)]
      OBVIOUS
    <3> QED
      BY <1>6, <3>1
  <2> QED
    BY <1>7, <2>1
<1>9. Indices(l) = 0 .. N - 1
  BY <1>1 DEF Indices
<1>10. ASSUME NEW k \in 1 .. N + n PROVE t[k] \in 0 .. N - 1
  <2>1. CASE k <= N
    <3>1. k \in 1 .. N
      BY <2>1
    <3> QED
      BY <1>4, <1>8, <3>1
  <2>2. CASE k > N
    <3>1. k \in N + 1 .. N + n /\ k - N \in 1 .. n
      BY <2>2
    <3> QED
      BY <1>5, <1>8, <3>1
  <2>3. k <= N \/ k > N
    OBVIOUS
  <2> QED
    BY <2>1, <2>2, <2>3
<1>11. ASSUME NEW i \in Indices(l) PROVE \E k \in 1 .. N + n : t[k] = i
  <2>1. start \in Int /\ 0 \in Int
    BY <1>0
  <2>2. PICK k \in 1 .. N : s[k] = i
    BY <1>1, <1>2, <2>1, ScanCovers
  <2>3. k \in 1 .. N + n /\ t[k] = i
    BY <1>8, <2>2
  <2> QED
    BY <2>3
<1>12. /\ Len(t) \in Nat
       /\ \A k \in 1 .. Len(t) : t[k] \in Indices(l)
       /\ \A i \in Indices(l) : \E k \in 1 .. Len(t) : t[k] = i
  BY <1>8, <1>9, <1>10, <1>11
<1>13. order = t
  BY <1>2, <1>7 DEF Order
<1> QED
  BY <1>12, <1>13

(* What get chooses: a list that is not empty, if there is one. *)
LEMMA GetChooses ==
  ASSUME NEW order, Len(order) \in Nat, NEW array, NEW k,
         k = Choice(order, array)
  PROVE  /\ k = 0 => \A j \in 1 .. Len(order) : array[order[j]] = <<>>
         /\ k # 0 => k \in 1 .. Len(order) /\ array[order[k]] # <<>>
<1> DEFINE I == {i \in 1 .. Len(order) : array[order[i]] # <<>>}
<1>1. k = IF I # {} THEN F!Min(I) ELSE 0
  BY DEF Choice, F!SelectInSeq
<1>2. I # {} => F!Min(I) \in I
  <2>1. I \in SUBSET Nat
    OBVIOUS
  <2> HIDE DEF I
  <2> SUFFICES ASSUME I # {} PROVE F!Min(I) \in I
    OBVIOUS
  <2>2. \E n \in I : \A j \in I : n <= j
    BY <2>1, LeastNat
  <2> QED
    BY <2>2 DEF F!Min
<1>3. I # {} => F!Min(I) # 0
  BY <1>2
<1> QED
  BY <1>1, <1>2, <1>3

(* A sequence of numbers below one another. *)
Falling(q, n) == \A j, k \in 1 .. n : j < k => q[j] > q[k]

(* The cardinality that ColoredLists uses. *)
LEMMA ListCardinality == \A S : F!Cardinality(S) = Cardinality(S)
  BY DEF F!Cardinality, Cardinality

(* A finite set of numbers can be put in falling order. *)
LEMMA CanFall ==
  ASSUME NEW S \in SUBSET Nat, IsFiniteSet(S)
  PROVE  \E q \in [1 .. Cardinality(S) -> S] : Falling(q, Cardinality(S))
<1> DEFINE Good == {T \in SUBSET S : \E q \in [1 .. Cardinality(T) -> T] : Falling(q, Cardinality(T))}
<1>1. ASSUME NEW T \in SUBSET S, \A x \in T : T \ {x} \in Good PROVE T \in Good
  <2>1. CASE T = {}
    <3>1. Cardinality(T) = 0
      BY <2>1, FS_EmptySet
    <3>2. [k \in 1 .. 0 |-> 0] \in [1 .. Cardinality(T) -> T]
      BY <2>1, <3>1
    <3>3. Falling([k \in 1 .. 0 |-> 0], Cardinality(T))
      BY <3>1 DEF Falling
    <3> QED
      BY <3>2, <3>3
  <2>2. CASE T # {}
    <3>1. PICK x \in T : \A y \in T : x <= y
      <4>1. T \in SUBSET Nat
        OBVIOUS
      <4> QED
        BY <2>2, <4>1, LeastNat
    <3>2. PICK n \in Nat : n = Cardinality(T \ {x}) /\ Cardinality(T) = n + 1
      <4>1. IsFiniteSet(T)
        BY FS_Subset
      <4>2. Cardinality(T \ {x}) = Cardinality(T) - 1 /\ Cardinality(T) \in Nat
            /\ IsFiniteSet(T \ {x})
        BY <3>1, <4>1, FS_RemoveElement, FS_CardinalityType
      <4>3. Cardinality(T \ {x}) \in Nat
        BY <4>2, FS_CardinalityType
      <4> QED
        BY <4>2, <4>3
    <3>3. PICK q \in [1 .. n -> T \ {x}] : Falling(q, n)
      BY <1>1, <3>1, <3>2
    <3> DEFINE p == [k \in 1 .. n + 1 |-> IF k = n + 1 THEN x ELSE q[k]]
    <3>4. p \in [1 .. n + 1 -> T]
      BY <3>1, <3>3
    <3>5. \A k \in 1 .. n : p[k] = q[k] /\ q[k] \in T \ {x}
      BY <3>3
    <3>6. p[n + 1] = x
      OBVIOUS
    <3> HIDE DEF p
    <3>7. Falling(p, n + 1)
      <4> SUFFICES ASSUME NEW j \in 1 .. n + 1, NEW k \in 1 .. n + 1, j < k PROVE p[j] > p[k]
        BY DEF Falling
      <4>1. j \in 1 .. n
        OBVIOUS
      <4>2. CASE k = n + 1
        <5>1. q[j] \in T /\ q[j] # x /\ x <= q[j] /\ q[j] \in Nat /\ x \in Nat
          BY <3>1, <3>5, <4>1
        <5>2. p[j] = q[j] /\ p[k] = x
          BY <3>5, <3>6, <4>1, <4>2
        <5> QED
          BY <5>1, <5>2
      <4>3. CASE k # n + 1
        <5>1. k \in 1 .. n
          BY <4>3
        <5> QED
          BY <3>3, <3>5, <4>1, <5>1 DEF Falling
      <4> QED
        BY <4>2, <4>3
    <3> QED
      BY <3>2, <3>4, <3>7
  <2> QED
    BY <2>1, <2>2
<1>2. SUBSET S \subseteq Good
  <2> HIDE DEF Good
  <2> QED
    BY <1>1, FiniteInduction
<1> QED
  BY <1>2

(* The slabs pushed on one list: each of them is there once. *)
LEMMA StackedOnce ==
  ASSUME NEW S \in SUBSET F!Slabs
  PROVE  /\ F!Stacked(S) \in Seq(S)
         /\ \A s \in S : \E k \in 1 .. Len(F!Stacked(S)) : F!Stacked(S)[k] = s
         /\ \A j, k \in 1 .. Len(F!Stacked(S)) : F!Stacked(S)[j] = F!Stacked(S)[k] => j = k
<1>1. F!Slabs \in SUBSET Nat /\ IsFiniteSet(F!Slabs)
  <2>1. 0 \in Int /\ Blocks - 1 \in Int
    BY SizesAssumption DEF SizesAssumption
  <2>2. IsFiniteSet(0 .. Blocks - 1)
    BY <2>1, FS_Interval
  <2> QED
    BY <2>1, <2>2 DEF F!Slabs
<1>2. S \in SUBSET Nat /\ IsFiniteSet(S)
  BY <1>1, FS_Subset
<1>3. PICK n \in Nat : n = Cardinality(S)
  BY <1>2, FS_CardinalityType
<1>4. PICK q : q = F!Stacked(S)
  OBVIOUS
<1>5. q \in [1 .. n -> S] /\ Falling(q, n)
  <2>1. q = CHOOSE p \in [1 .. n -> S] : \A j, k \in 1 .. n : j < k => p[j] > p[k]
    BY <1>3, <1>4, ListCardinality DEF F!Stacked
  <2>2. \E p \in [1 .. n -> S] : \A j, k \in 1 .. n : j < k => p[j] > p[k]
    BY <1>2, <1>3, CanFall DEF Falling
  <2> QED
    BY <2>1, <2>2 DEF Falling
<1>6. q \in Seq(S) /\ Len(q) = n
  BY <1>5
<1>7. ASSUME NEW j \in 1 .. n, NEW k \in 1 .. n, q[j] = q[k] PROVE j = k
  <2>1. q[j] \in Nat /\ q[k] \in Nat
    BY <1>2, <1>5
  <2>2. ~(j < k) /\ ~(k < j)
    BY <1>5, <1>7, <2>1 DEF Falling
  <2> QED
    BY <2>2
<1>8. ASSUME NEW s \in S PROVE \E k \in 1 .. n : q[k] = s
  <2>1. IsFiniteSet(1 .. n) /\ Cardinality(1 .. n) = n
    BY FS_Interval
  <2>2. q \in Injection(1 .. n, S)
    BY <1>5, <1>7 DEF Injection, IsInjective
  <2>3. q \in Surjection(1 .. n, S)
    BY <1>2, <1>3, <2>1, <2>2, FS_Injection
  <2> QED
    BY <2>3 DEF Surjection
<1> QED
  BY <1>4, <1>6, <1>7, <1>8

(* Place k of list i holds the slab. *)
At(arr, i, k, s) == i \in DOMAIN arr /\ k \in 1 .. Len(arr[i]) /\ arr[i][k] = s

(* The lists hold the slabs that no caller keeps, each at one place. *)
Once(arr, kept) ==
  /\ \A i, k, s : At(arr, i, k, s) => s \in F!Slabs \ kept
  /\ \A s \in F!Slabs \ kept : \E i, k : At(arr, i, k, s)
  /\ \A s, i, j, k, n : At(arr, i, k, s) /\ At(arr, j, n, s) => i = j /\ k = n

(* What OnOneList counts. *)
LEMMA OnceCounted ==
  ASSUME NEW I, NEW arr \in [I -> Seq(F!Slabs)], NEW kept \in SUBSET F!Slabs,
         Once(arr, kept), NEW s \in F!Slabs
  PROVE  F!Cardinality({e \in UNION {{i} \X DOMAIN arr[i] : i \in DOMAIN arr} :
                          arr[e[1]][e[2]] = s})
           = (IF s \in kept THEN 0 ELSE 1)
<1> DEFINE E == {e \in UNION {{i} \X DOMAIN arr[i] : i \in DOMAIN arr} : arr[e[1]][e[2]] = s}
<1>1. ASSUME NEW e \in E PROVE e = <<e[1], e[2]>> /\ At(arr, e[1], e[2], s)
  <2>1. PICK i \in DOMAIN arr : e \in {i} \X DOMAIN arr[i]
    OBVIOUS
  <2>2. e = <<e[1], e[2]>> /\ e[1] = i /\ e[2] \in DOMAIN arr[i] /\ arr[e[1]][e[2]] = s
    BY <2>1
  <2>3. DOMAIN arr[i] = 1 .. Len(arr[i])
    OBVIOUS
  <2> QED
    BY <2>1, <2>2, <2>3 DEF At
<1>2. ASSUME NEW i, NEW k, At(arr, i, k, s) PROVE <<i, k>> \in E
  <2>1. i \in DOMAIN arr /\ k \in 1 .. Len(arr[i]) /\ arr[i][k] = s
    BY <1>2 DEF At
  <2>2. DOMAIN arr[i] = 1 .. Len(arr[i])
    BY <2>1
  <2>3. <<i, k>> \in {i} \X DOMAIN arr[i]
    BY <2>1, <2>2
  <2>4. <<i, k>> \in UNION {{j} \X DOMAIN arr[j] : j \in DOMAIN arr}
    BY <2>1, <2>3
  <2> QED
    BY <2>1, <2>4
<1> HIDE DEF E
<1>3. CASE s \in kept
  <2>1. E = {}
    BY <1>1, <1>3 DEF Once
  <2> QED
    BY <1>3, <2>1, ListCardinality, FS_EmptySet DEF E
<1>4. CASE s \notin kept
  <2>1. PICK i, k : At(arr, i, k, s)
    BY <1>4 DEF Once
  <2>2. E = {<<i, k>>}
    <3>1. <<i, k>> \in E
      BY <1>2, <2>1
    <3>2. ASSUME NEW e \in E PROVE e = <<i, k>>
      <4>1. e[1] = i /\ e[2] = k
        BY <1>1, <2>1 DEF Once
      <4> QED
        BY <1>1, <4>1
    <3> QED
      BY <3>1, <3>2
  <2>3. Cardinality(E) = 1
    BY <2>2, FS_Singleton
  <2> QED
    BY <1>4, <2>3, ListCardinality DEF E
<1> QED
  BY <1>3, <1>4

(* The slabs that an index sends to list i. *)
On(index, i) == {s \in F!Slabs : index[s] = i}

(* Pushing every slab on the list that an index gives it. *)
LEMMA DistributedOnce ==
  ASSUME NEW l, NEW index \in [F!Slabs -> Indices(l)]
  PROVE  /\ F!Distributed(l, index) \in [Indices(l) -> Seq(F!Slabs)]
         /\ Once(F!Distributed(l, index), {})
<1>1. PICK arr : arr = F!Distributed(l, index)
  OBVIOUS
<1>2. arr = [i \in Indices(l) |-> F!Stacked(On(index, i))]
  BY <1>1 DEF F!Distributed, Indices, Length, On
<1>3. ASSUME NEW i \in Indices(l)
      PROVE  /\ arr[i] \in Seq(On(index, i))
             /\ \A s \in On(index, i) : \E k \in 1 .. Len(arr[i]) : arr[i][k] = s
             /\ \A j, k \in 1 .. Len(arr[i]) : arr[i][j] = arr[i][k] => j = k
  <2>1. On(index, i) \in SUBSET F!Slabs
    BY DEF On
  <2>2. arr[i] = F!Stacked(On(index, i))
    BY <1>2
  <2>3. PICK S \in SUBSET F!Slabs : S = On(index, i)
    BY <2>1
  <2>4. /\ F!Stacked(S) \in Seq(S)
        /\ \A s \in S : \E k \in 1 .. Len(F!Stacked(S)) : F!Stacked(S)[k] = s
        /\ \A j, k \in 1 .. Len(F!Stacked(S)) : F!Stacked(S)[j] = F!Stacked(S)[k] => j = k
    BY StackedOnce
  <2>5. PICK q : q = F!Stacked(S)
    OBVIOUS
  <2>6. /\ q \in Seq(S)
        /\ \A s \in S : \E k \in 1 .. Len(q) : q[k] = s
        /\ \A j, k \in 1 .. Len(q) : q[j] = q[k] => j = k
    BY <2>4, <2>5, Zenon
  <2>7. arr[i] = q /\ S = On(index, i)
    BY <2>2, <2>3, <2>5
  <2> QED
    BY <2>6, <2>7, Zenon
<1>4. DOMAIN arr = Indices(l)
  BY <1>2
<1>5. ASSUME NEW i, NEW k, NEW s, At(arr, i, k, s)
      PROVE  /\ i \in Indices(l) /\ k \in 1 .. Len(arr[i]) /\ arr[i][k] = s
             /\ s \in F!Slabs /\ index[s] = i
  <2>1. i \in Indices(l) /\ k \in 1 .. Len(arr[i]) /\ arr[i][k] = s
    BY <1>4, <1>5 DEF At
  <2>2. arr[i] \in Seq(On(index, i))
    BY <1>3, <2>1
  <2>3. s \in On(index, i)
    BY <2>1, <2>2
  <2> QED
    BY <2>1, <2>3 DEF On
<1>6. ASSUME NEW i \in Indices(l) PROVE arr[i] \in Seq(F!Slabs)
  <2>1. PICK q \in Seq(On(index, i)) : q = arr[i]
    BY <1>3
  <2>2. On(index, i) \subseteq F!Slabs
    BY DEF On
  <2>3. q \in Seq(F!Slabs)
    BY <2>1, <2>2
  <2> QED
    BY <2>1, <2>3
<1>7. arr \in [Indices(l) -> Seq(F!Slabs)]
  BY <1>2, <1>6
<1>8. ASSUME NEW s \in F!Slabs PROVE \E i, k : At(arr, i, k, s)
  <2>1. index[s] \in Indices(l) /\ s \in On(index, index[s])
    BY DEF On
  <2>2. \E k \in 1 .. Len(arr[index[s]]) : arr[index[s]][k] = s
    BY <1>3, <2>1
  <2> QED
    BY <1>4, <2>1, <2>2 DEF At
<1>9. ASSUME NEW s, NEW i, NEW j, NEW k, NEW n, At(arr, i, k, s), At(arr, j, n, s)
      PROVE  i = j /\ k = n
  <2>1. i = j /\ i \in Indices(l)
    BY <1>5, <1>9
  <2> QED
    BY <1>3, <1>5, <1>9, <2>1
<1>10. Once(arr, {})
  <2>1. \A i, k, s : At(arr, i, k, s) => s \in F!Slabs \ {}
    BY <1>5
  <2>2. \A s \in F!Slabs \ {} : \E i, k : At(arr, i, k, s)
    BY <1>8
  <2>3. \A s, i, j, k, n : At(arr, i, k, s) /\ At(arr, j, n, s) => i = j /\ k = n
    BY <1>9
  <2> QED
    BY <2>1, <2>2, <2>3 DEF Once
<1> QED
  BY <1>1, <1>7, <1>10

(* The array after get took the top of list i, and after put pushed a slab. *)
Taken(arr, i) == [arr EXCEPT ![i] = Tail(@)]
Pushed(arr, i, slab) == [arr EXCEPT ![i] = <<slab>> \o @]

(* get takes the slab on top of a list that is not empty. *)
LEMMA TakenOnce ==
  ASSUME NEW I, NEW arr \in [I -> Seq(F!Slabs)], NEW kept \in SUBSET F!Slabs,
         Once(arr, kept), NEW i \in I, arr[i] # <<>>
  PROVE  /\ Taken(arr, i) \in [I -> Seq(F!Slabs)]
         /\ Head(arr[i]) \in F!Slabs
         /\ Once(Taken(arr, i), kept \cup {Head(arr[i])})
<1>1. PICK q \in Seq(F!Slabs) : q = arr[i] /\ q # <<>>
  OBVIOUS
<1>2. PICK h, t : h = Head(q) /\ t = Tail(q)
  OBVIOUS
<1>3. /\ h \in F!Slabs /\ h = q[1] /\ t \in Seq(F!Slabs)
      /\ Len(q) \in Nat \ {0} /\ Len(t) = Len(q) - 1
      /\ \A k \in 1 .. Len(t) : t[k] = q[k + 1]
  BY <1>1, <1>2
<1>4. PICK new : new = [arr EXCEPT ![i] = t]
  OBVIOUS
<1>5. new \in [I -> Seq(F!Slabs)] /\ new[i] = t /\ \A j \in I \ {i} : new[j] = arr[j]
  BY <1>3, <1>4
<1>6. At(arr, i, 1, h)
  BY <1>1, <1>3 DEF At
<1>7. ASSUME NEW j, NEW k, NEW s, At(new, j, k, s)
      PROVE  At(arr, j, IF j = i THEN k + 1 ELSE k, s) /\ k \in Int /\ k >= 1
  <2>1. j \in I /\ k \in 1 .. Len(new[j]) /\ new[j][k] = s /\ Len(new[j]) \in Nat
    BY <1>5, <1>7 DEF At
  <2>2. CASE j = i
    <3>1. k \in 1 .. Len(t) /\ t[k] = s
      BY <1>5, <2>1, <2>2
    <3>2. k + 1 \in 1 .. Len(q) /\ q[k + 1] = s
      BY <1>3, <3>1
    <3> QED
      BY <1>1, <2>1, <2>2, <3>2 DEF At
  <2>3. CASE j # i
    BY <1>5, <2>1, <2>3 DEF At
  <2> QED
    BY <2>2, <2>3
<1>8. ASSUME NEW j, NEW k, NEW s, At(arr, j, k, s), s # h
      PROVE  \E n : At(new, j, n, s)
  <2>1. j \in I /\ k \in 1 .. Len(arr[j]) /\ arr[j][k] = s
    BY <1>8 DEF At
  <2>2. CASE j = i
    <3>1. k \in 1 .. Len(q) /\ q[k] = s
      BY <1>1, <2>1, <2>2
    <3>2. k # 1
      BY <1>3, <1>8, <3>1
    <3>3. k - 1 \in 1 .. Len(t) /\ (k - 1) + 1 = k
      BY <1>3, <3>1, <3>2
    <3>4. t[k - 1] = s
      BY <1>3, <3>1, <3>3
    <3>5. At(new, j, k - 1, s)
      BY <1>5, <2>1, <2>2, <3>3, <3>4 DEF At
    <3> QED
      BY <3>5
  <2>3. CASE j # i
    <3>1. At(new, j, k, s)
      BY <1>5, <2>1, <2>3 DEF At
    <3> QED
      BY <3>1
  <2> QED
    BY <2>2, <2>3
<1>9. Once(new, kept \cup {h})
  <2>1. ASSUME NEW j, NEW k, NEW s, At(new, j, k, s) PROVE s \in F!Slabs \ (kept \cup {h})
    <3>1. At(arr, j, IF j = i THEN k + 1 ELSE k, s) /\ k \in Int /\ k >= 1
      BY <1>7, <2>1
    <3>2. s \in F!Slabs \ kept
      BY <3>1 DEF Once
    <3>3. CASE s = h
      <4>1. j = i /\ (IF j = i THEN k + 1 ELSE k) = 1
        BY <1>6, <3>1, <3>3 DEF Once
      <4> QED
        BY <3>1, <4>1
    <3> QED
      BY <3>2, <3>3
  <2>2. ASSUME NEW s \in F!Slabs \ (kept \cup {h}) PROVE \E j, k : At(new, j, k, s)
    <3>1. PICK j, k : At(arr, j, k, s)
      BY DEF Once
    <3> QED
      BY <1>8, <3>1
  <2>3. ASSUME NEW s, NEW j, NEW k, NEW g, NEW n, At(new, j, k, s), At(new, g, n, s)
        PROVE  j = g /\ k = n
    <3>1. At(arr, j, IF j = i THEN k + 1 ELSE k, s) /\ k \in Int
      BY <1>7, <2>3
    <3>2. At(arr, g, IF g = i THEN n + 1 ELSE n, s) /\ n \in Int
      BY <1>7, <2>3
    <3>3. j = g /\ (IF j = i THEN k + 1 ELSE k) = (IF g = i THEN n + 1 ELSE n)
      BY <3>1, <3>2 DEF Once
    <3> QED
      BY <3>1, <3>2, <3>3
  <2> QED
    BY <2>1, <2>2, <2>3 DEF Once
<1>10. Taken(arr, i) = new /\ Head(arr[i]) = h
  BY <1>1, <1>2, <1>4 DEF Taken
<1> QED
  BY <1>3, <1>5, <1>9, <1>10

(* put pushes a slab on a list: it was on none. *)
LEMMA PutOnce ==
  ASSUME NEW I, NEW arr \in [I -> Seq(F!Slabs)], NEW kept \in SUBSET F!Slabs,
         Once(arr, kept), NEW i \in I, NEW slab \in kept
  PROVE  /\ Pushed(arr, i, slab) \in [I -> Seq(F!Slabs)]
         /\ Once(Pushed(arr, i, slab), kept \ {slab})
<1>1. PICK q, t : q \in Seq(F!Slabs) /\ q = arr[i] /\ t = <<slab>> \o q
  OBVIOUS
<1>2. PICK h \in F!Slabs : h = slab
  OBVIOUS
<1>3. /\ t \in Seq(F!Slabs) /\ Len(q) \in Nat /\ Len(t) = Len(q) + 1 /\ t[1] = h
      /\ \A k \in 2 .. Len(t) : t[k] = q[k - 1]
  <2>1. <<h>> \in Seq(F!Slabs) /\ Len(<<h>>) = 1
    OBVIOUS
  <2>2. t = <<h>> \o q
    BY <1>1, <1>2
  <2> QED
    BY <1>1, <2>1, <2>2
<1>4. PICK new : new = [arr EXCEPT ![i] = t]
  OBVIOUS
<1>5. new \in [I -> Seq(F!Slabs)] /\ new[i] = t /\ \A j \in I \ {i} : new[j] = arr[j]
  BY <1>3, <1>4
<1>6. At(new, i, 1, h)
  BY <1>3, <1>5 DEF At
<1>7. ASSUME NEW j, NEW k, NEW s, At(new, j, k, s)
      PROVE  \/ j = i /\ k = 1 /\ s = h
             \/ At(arr, j, IF j = i THEN k - 1 ELSE k, s) /\ k \in Int
  <2>1. j \in I /\ k \in 1 .. Len(new[j]) /\ new[j][k] = s /\ Len(new[j]) \in Nat
    BY <1>5, <1>7 DEF At
  <2>2. CASE j = i
    <3>1. k \in 1 .. Len(t) /\ t[k] = s
      BY <1>5, <2>1, <2>2
    <3>2. CASE k = 1
      BY <1>3, <2>2, <3>1, <3>2
    <3>3. CASE k # 1
      <4>1. k \in 2 .. Len(t) /\ k - 1 \in 1 .. Len(q)
        BY <1>3, <3>1, <3>3
      <4>2. q[k - 1] = s
        BY <1>3, <3>1, <4>1
      <4> QED
        BY <1>1, <2>1, <2>2, <4>1, <4>2 DEF At
    <3> QED
      BY <3>2, <3>3
  <2>3. CASE j # i
    BY <1>5, <2>1, <2>3 DEF At
  <2> QED
    BY <2>2, <2>3
<1>8. ASSUME NEW j, NEW k, NEW s, At(arr, j, k, s) PROVE \E n : At(new, j, n, s)
  <2>1. j \in I /\ k \in 1 .. Len(arr[j]) /\ arr[j][k] = s
    BY <1>8 DEF At
  <2>2. CASE j = i
    <3>1. k \in 1 .. Len(q) /\ q[k] = s
      BY <1>1, <2>1, <2>2
    <3>2. k + 1 \in 2 .. Len(t) /\ k + 1 \in 1 .. Len(t) /\ (k + 1) - 1 = k
      BY <1>3, <3>1
    <3>3. t[k + 1] = s
      BY <1>3, <3>1, <3>2
    <3>4. At(new, j, k + 1, s)
      BY <1>5, <2>1, <2>2, <3>2, <3>3 DEF At
    <3> QED
      BY <3>4
  <2>3. CASE j # i
    <3>1. At(new, j, k, s)
      BY <1>5, <2>1, <2>3 DEF At
    <3> QED
      BY <3>1
  <2> QED
    BY <2>2, <2>3
<1>9. Once(new, kept \ {h})
  <2>1. ASSUME NEW j, NEW k, NEW s, At(new, j, k, s) PROVE s \in F!Slabs \ (kept \ {h})
    <3>1. CASE s = h
      BY <3>1
    <3>2. CASE s # h
      <4>1. At(arr, j, IF j = i THEN k - 1 ELSE k, s)
        BY <1>7, <2>1, <3>2
      <4> QED
        BY <4>1 DEF Once
    <3> QED
      BY <3>1, <3>2
  <2>2. ASSUME NEW s \in F!Slabs \ (kept \ {h}) PROVE \E j, k : At(new, j, k, s)
    <3>1. CASE s = h
      BY <1>6, <3>1
    <3>2. CASE s # h
      <4>1. s \in F!Slabs \ kept
        BY <3>2
      <4>2. PICK j, k : At(arr, j, k, s)
        BY <4>1 DEF Once
      <4> QED
        BY <1>8, <4>2
    <3> QED
      BY <3>1, <3>2
  <2>3. ASSUME NEW s, NEW j, NEW k, NEW g, NEW n, At(new, j, k, s), At(new, g, n, s)
        PROVE  j = g /\ k = n
    <3>1. CASE s = h
      <4>1. \A a, b : ~At(arr, a, b, s)
        BY <1>2, <3>1 DEF Once
      <4> QED
        BY <1>7, <2>3, <4>1
    <3>2. CASE s # h
      <4>1. At(arr, j, IF j = i THEN k - 1 ELSE k, s) /\ k \in Int
        BY <1>7, <2>3, <3>2
      <4>2. At(arr, g, IF g = i THEN n - 1 ELSE n, s) /\ n \in Int
        BY <1>7, <2>3, <3>2
      <4>3. j = g /\ (IF j = i THEN k - 1 ELSE k) = (IF g = i THEN n - 1 ELSE n)
        BY <4>1, <4>2 DEF Once
      <4> QED
        BY <4>1, <4>2, <4>3
    <3> QED
      BY <3>1, <3>2
  <2> QED
    BY <2>1, <2>2, <2>3 DEF Once
<1>10. Pushed(arr, i, slab) = new /\ kept \ {slab} = kept \ {h}
  BY <1>1, <1>2, <1>4 DEF Pushed
<1> QED
  BY <1>5, <1>9, <1>10

(* The inductive invariant: the free list is not made yet, or its array    *)
(* has a list for each index, and a slab is at one place of one list or    *)
(* with a caller.                                                          *)
ListsKept == ListsShape /\ Once(lists.array, lists.kept) /\ F!MissMeansEmpty
ListsInv == lists = F!NoLists \/ ListsKept

(* The color of a slab. *)
LEMMA ColorTyped ==
  ASSUME NEW s \in F!Slabs, NEW aligned \in Nat
  PROVE  /\ F!SlabColor(s, aligned) \in Nat
         /\ F!SlabColor(s, aligned) % Colors \in 0 .. Colors - 1
<1>1. PICK m \in Nat \ {0} : m = Colors
  BY SizesAssumption DEF SizesAssumption
<1>2. s \in Nat
  BY SizesAssumption DEF SizesAssumption, F!Slabs
<1>3. PICK x \in Nat : x = s * aligned
  BY <1>2
<1>4. PICK y \in Int : y = x \div m
  BY <1>3, Division
<1>5. PICK z \in 0 .. 1 : z = y % 2
  OBVIOUS
<1>6. PICK c \in Nat : c = z * m
  BY <1>5
<1>7. F!SlabColor(s, aligned) = c
  BY <1>1, <1>3, <1>4, <1>5, <1>6 DEF F!SlabColor
<1>8. c % m \in 0 .. m - 1
  OBVIOUS
<1> QED
  BY <1>1, <1>7, <1>8

(* The list that put and Reset choose for a slab is one of the array, and  *)
(* so is the constructor's where it does not panic.                        *)
LEMMA IndicesTyped ==
  ASSUME NEW l, l.shards \in Nat \ {0}, l.aligned \in Nat, l.hash \in [F!Slabs -> Nat]
  PROVE  /\ F!IndexWhenPut(l) \in [F!Slabs -> Indices(l)]
         /\ (\A s \in F!Slabs : F!IndexWhenMade(l)[s] < l.shards * Colors)
              => F!IndexWhenMade(l) \in [F!Slabs -> Indices(l)]
<1>1. PICK n \in Nat \ {0}, m \in Nat \ {0} : n = l.shards /\ m = Colors
  BY SizesAssumption DEF SizesAssumption
<1>2. Indices(l) = 0 .. n * m - 1
  BY <1>1 DEF Indices, Length
<1>3. ASSUME NEW s \in F!Slabs PROVE F!ShardIndex(l, s) \in 0 .. n - 1
  <2>1. PICK x \in Nat : x = l.hash[s]
    OBVIOUS
  <2>2. x % n \in 0 .. n - 1
    OBVIOUS
  <2> QED
    BY <1>1, <2>1, <2>2 DEF F!ShardIndex
<1>4. ASSUME NEW s \in F!Slabs PROVE F!IndexWhenPut(l)[s] \in Indices(l)
  <2>1. PICK a \in 0 .. n - 1 : a = F!ShardIndex(l, s)
    BY <1>3
  <2>2. PICK c \in 0 .. m - 1 : c = F!SlabColor(s, l.aligned) % Colors
    BY <1>1, ColorTyped
  <2>3. a * m + c \in 0 .. n * m - 1
    BY ShardAndColor
  <2>4. F!IndexWhenPut(l)[s] = a * m + c
    BY <1>1, <2>1, <2>2 DEF F!IndexWhenPut
  <2> QED
    BY <1>2, <2>3, <2>4
<1>5. ASSUME NEW s \in F!Slabs, F!IndexWhenMade(l)[s] < l.shards * Colors
      PROVE  F!IndexWhenMade(l)[s] \in Indices(l)
  <2>1. PICK a \in 0 .. n - 1 : a = F!ShardIndex(l, s)
    BY <1>3
  <2>2. PICK c \in Nat : c = F!SlabColor(s, l.aligned)
    BY ColorTyped
  <2>3. PICK i \in Nat : i = a * m + c
    <3>1. a * m \in Nat
      OBVIOUS
    <3> QED
      BY <3>1
  <2>4. F!IndexWhenMade(l)[s] = i
    BY <1>1, <2>1, <2>2, <2>3 DEF F!IndexWhenMade
  <2>5. PICK N \in Nat : N = n * m
    OBVIOUS
  <2>6. i < N
    BY <1>1, <1>5, <2>4, <2>5
  <2> QED
    BY <1>2, <2>4, <2>5, <2>6
<1>6. /\ F!IndexWhenPut(l) = [s \in F!Slabs |-> F!IndexWhenPut(l)[s]]
      /\ F!IndexWhenMade(l) = [s \in F!Slabs |-> F!IndexWhenMade(l)[s]]
  BY DEF F!IndexWhenPut, F!IndexWhenMade
<1>7. F!IndexWhenPut(l) \in [F!Slabs -> Indices(l)]
  BY <1>4, <1>6
<1>8. (\A s \in F!Slabs : F!IndexWhenMade(l)[s] < l.shards * Colors)
        => F!IndexWhenMade(l) \in [F!Slabs -> Indices(l)]
  BY <1>5, <1>6
<1> QED
  BY <1>7, <1>8

(* The free list as the constructor begins it, and as it returns it. *)
Begun(n, aligned, hash) ==
  [F!NoLists EXCEPT !.shards = n, !.aligned = aligned, !.hash = hash]
Filled(l, array) == [l EXCEPT !.array = array]

(* What the constructor, get, put and Reset assign, field by field. *)
LEMMA FieldsUpdated ==
  ASSUME NEW n, NEW aligned, NEW hash, NEW array, NEW kept, NEW missed, NEW l,
         l = FreeList(n, aligned, hash, array, kept, missed)
  PROVE  /\ l.shards = n /\ l.aligned = aligned /\ l.hash = hash
         /\ l.array = array /\ l.kept = kept /\ l.missed = missed
         /\ \A up : Filled(l, up) = FreeList(n, aligned, hash, up, kept, missed)
<1>1. /\ l.shards = n /\ l.aligned = aligned /\ l.hash = hash
      /\ l.array = array /\ l.kept = kept /\ l.missed = missed
  BY DEF FreeList
<1>2. ASSUME NEW up PROVE Filled(l, up) = FreeList(n, aligned, hash, up, kept, missed)
  <2>1. PICK new : new = Filled(l, up)
    OBVIOUS
  <2>2. new = FreeList(n, aligned, hash, up, kept, missed)
    BY <2>1 DEF Filled, FreeList
  <2> QED
    BY <2>1, <2>2
<1> QED
  BY <1>1, <1>2

(* The fields that the constructor begins with. *)
LEMMA FieldsBegun ==
  ASSUME NEW n, NEW aligned, NEW hash
  PROVE  Begun(n, aligned, hash) = FreeList(n, aligned, hash, <<>>, {}, No)
<1>1. PICK l : l = Begun(n, aligned, hash)
  OBVIOUS
<1>2. l = FreeList(n, aligned, hash, <<>>, {}, No)
  BY <1>1 DEF Begun, FreeList, No, F!NoLists
<1> QED
  BY <1>1, <1>2

(* A free list whose array holds the slabs that are not kept. *)
LEMMA Changed ==
  ASSUME NEW n \in Nat \ {0}, NEW aligned \in Nat, NEW hash \in [F!Slabs -> Nat],
         NEW arr \in [0 .. n * Colors - 1 -> Seq(F!Slabs)], NEW kept \in SUBSET F!Slabs,
         NEW missed, Once(arr, kept),
         lists' = FreeList(n, aligned, hash, arr, kept, missed),
         missed => \A i \in 0 .. n * Colors - 1 : arr[i] = <<>>
  PROVE  ListsKept'
<1>1. PICK l : l = lists'
  OBVIOUS
<1>2. l = FreeList(n, aligned, hash, arr, kept, missed)
  BY <1>1
<1>3. /\ l.shards = n /\ l.aligned = aligned /\ l.hash = hash
      /\ l.array = arr /\ l.kept = kept /\ l.missed = missed
  BY <1>2, FieldsUpdated
<1>4. Indices(l) = 0 .. n * Colors - 1
  BY <1>3 DEF Indices, Length
<1>5. l = FreeList(l.shards, l.aligned, l.hash, l.array, l.kept, l.missed)
  BY <1>2, <1>3, Zenon
<1>6. ListsShape'
  BY <1>1, <1>3, <1>4, <1>5 DEF ListsShape
<1>7. Once(lists.array, lists.kept)'
  BY <1>1, <1>3
<1>8. F!MissMeansEmpty'
  BY <1>1, <1>3 DEF F!MissMeansEmpty
<1> QED
  BY <1>6, <1>7, <1>8 DEF ListsKept

(* The constructor. *)
LEMMA MadeOnce ==
  ASSUME NEW count \in ShardCounts, NEW aligned \in LineSizes, NEW hash \in [F!Slabs -> 0 .. 3],
         F!New(count, aligned, hash)
  PROVE  ListsKept'
<1>1. PICK n \in Nat \ {0} : n = F!NextPowerOfTwo(count)
  BY SizesAssumption DEF SizesAssumption
<1>2. aligned \in Nat /\ hash \in [F!Slabs -> Nat]
  BY SizesAssumption DEF SizesAssumption
<1>3. PICK l : l = Begun(n, aligned, hash)
  OBVIOUS
<1>4. /\ \A s \in F!Slabs : F!IndexWhenMade(l)[s] < l.shards * Colors
      /\ lists' = Filled(l, F!Distributed(l, F!IndexWhenMade(l)))
  BY <1>1, <1>3 DEF F!New, Begun, Filled
<1>5. l = FreeList(n, aligned, hash, <<>>, {}, No)
  BY <1>3, FieldsBegun
<1>6. l.shards = n /\ l.aligned = aligned /\ l.hash = hash
  BY <1>5, FieldsUpdated
<1>7. PICK index : index = F!IndexWhenMade(l) /\ index \in [F!Slabs -> Indices(l)]
  BY <1>2, <1>4, <1>6, IndicesTyped
<1>8. PICK arr : /\ arr = F!Distributed(l, index)
                 /\ arr \in [Indices(l) -> Seq(F!Slabs)] /\ Once(arr, {})
  BY <1>7, DistributedOnce
<1>9. lists' = FreeList(n, aligned, hash, arr, {}, No)
  <2>1. lists' = Filled(l, arr)
    BY <1>4, <1>7, <1>8
  <2> QED
    BY <1>5, <2>1, FieldsUpdated
<1>10. Indices(l) = 0 .. n * Colors - 1
  BY <1>6 DEF Indices, Length
<1>11. No => \A j \in 0 .. n * Colors - 1 : arr[j] = <<>>
  BY DEF No
<1> QED
  BY <1>2, <1>8, <1>9, <1>10, <1>11, Changed

(* The free list after get failed, after it took the top of list i (and    *)
(* gave that slab to a caller), after put pushed a slab, and after Reset.  *)
AfterMiss(l) == [l EXCEPT !.missed = TRUE]
AfterGet(l, i) == [l EXCEPT !.array[i] = Tail(@),
                            !.kept = @ \cup {Head(l.array[i])}, !.missed = FALSE]
Given(array, i, kept) == kept \cup {Head(array[i])}
AfterPut(l, i, slab) == [l EXCEPT !.array[i] = <<slab>> \o @,
                                  !.kept = @ \ {slab}, !.missed = FALSE]
AfterReset(l, array) == [l EXCEPT !.array = array, !.missed = FALSE]

(* What get, put and Reset assign, field by field. *)
LEMMA FieldsAfter ==
  ASSUME NEW n, NEW aligned, NEW hash, NEW array, NEW kept, NEW missed, NEW l,
         l = FreeList(n, aligned, hash, array, kept, missed)
  PROVE  /\ AfterMiss(l) = FreeList(n, aligned, hash, array, kept, Yes)
         /\ \A i : AfterGet(l, i) = FreeList(n, aligned, hash, Taken(array, i),
                                             Given(array, i, kept), No)
         /\ \A i, h : AfterPut(l, i, h) = FreeList(n, aligned, hash, Pushed(array, i, h),
                                                   kept \ {h}, No)
         /\ \A up : AfterReset(l, up) = FreeList(n, aligned, hash, up, kept, No)
<1>1. AfterMiss(l) = FreeList(n, aligned, hash, array, kept, Yes)
  <2>1. PICK new : new = AfterMiss(l)
    OBVIOUS
  <2>2. new = FreeList(n, aligned, hash, array, kept, Yes)
    BY <2>1 DEF AfterMiss, FreeList, Yes
  <2> QED
    BY <2>1, <2>2
<1>2. ASSUME NEW i
      PROVE  AfterGet(l, i) = FreeList(n, aligned, hash, Taken(array, i),
                                       Given(array, i, kept), No)
  <2>1. PICK new, g : new = AfterGet(l, i) /\ g = Head(array[i])
    OBVIOUS
  <2>2. l.array = array
    BY DEF FreeList
  <2>3. new = [l EXCEPT !.array[i] = Tail(@), !.kept = @ \cup {g}, !.missed = FALSE]
    BY <2>1, <2>2 DEF AfterGet
  <2>4. new = FreeList(n, aligned, hash, Taken(array, i), kept \cup {g}, No)
    BY <2>3 DEF FreeList, Taken, No
  <2>5. kept \cup {g} = Given(array, i, kept)
    BY <2>1 DEF Given
  <2> QED
    BY <2>1, <2>4, <2>5
<1>3. ASSUME NEW i, NEW h
      PROVE  AfterPut(l, i, h) = FreeList(n, aligned, hash, Pushed(array, i, h), kept \ {h}, No)
  <2>1. PICK new : new = AfterPut(l, i, h)
    OBVIOUS
  <2>2. new = FreeList(n, aligned, hash, Pushed(array, i, h), kept \ {h}, No)
    BY <2>1 DEF AfterPut, FreeList, No, Pushed
  <2> QED
    BY <2>1, <2>2
<1>4. ASSUME NEW up PROVE AfterReset(l, up) = FreeList(n, aligned, hash, up, kept, No)
  <2>1. PICK new : new = AfterReset(l, up)
    OBVIOUS
  <2>2. new = FreeList(n, aligned, hash, up, kept, No)
    BY <2>1 DEF AfterReset, FreeList, No
  <2> QED
    BY <2>1, <2>2
<1> QED
  BY <1>1, <1>2, <1>3, <1>4

(* The fields of the free list, named. *)
LEMMA Named ==
  ASSUME ListsKept
  PROVE  \E n, aligned, hash, arr, kept, missed :
           /\ lists = FreeList(n, aligned, hash, arr, kept, missed)
           /\ n \in Nat \ {0} /\ aligned \in Nat /\ hash \in [F!Slabs -> Nat]
           /\ kept \in SUBSET F!Slabs
           /\ arr \in [0 .. n * Colors - 1 -> Seq(F!Slabs)]
           /\ Once(arr, kept)
<1>1. PICK n, aligned, hash, arr, kept, missed :
        /\ n = lists.shards /\ aligned = lists.aligned /\ hash = lists.hash
        /\ arr = lists.array /\ kept = lists.kept /\ missed = lists.missed
  OBVIOUS
<1>2. /\ n \in Nat \ {0} /\ aligned \in Nat /\ hash \in [F!Slabs -> Nat]
      /\ arr \in [0 .. n * Colors - 1 -> Seq(F!Slabs)] /\ kept \in SUBSET F!Slabs
      /\ Once(arr, kept)
  BY <1>1 DEF ListsKept, ListsShape, Indices, Length
<1>3. lists = FreeList(n, aligned, hash, arr, kept, missed)
  BY <1>1 DEF ListsKept, ListsShape
<1> QED
  BY <1>2, <1>3

(* get: it takes the top of a list, or every list is empty. *)
LEMMA GetKept ==
  ASSUME ListsKept, NEW start \in 0 .. lists.shards - 1, F!Get(start, 0)
  PROVE  ListsKept'
<1>1. PICK l : l = lists
  OBVIOUS
<1>2. PICK n, aligned, hash, arr, kept, missed :
        /\ l = FreeList(n, aligned, hash, arr, kept, missed)
        /\ n \in Nat \ {0} /\ aligned \in Nat /\ hash \in [F!Slabs -> Nat]
        /\ kept \in SUBSET F!Slabs
        /\ arr \in [0 .. n * Colors - 1 -> Seq(F!Slabs)]
        /\ Once(arr, kept)
  BY <1>1, Named
<1>3. /\ l.shards = n /\ l.aligned = aligned /\ l.hash = hash
      /\ l.array = arr /\ l.kept = kept /\ l.missed = missed
  BY <1>2, FieldsUpdated
<1>4. Indices(l) = 0 .. n * Colors - 1
  BY <1>3 DEF Indices, Length
<1>5. PICK order : order = Order(l, start)
  OBVIOUS
<1>6. /\ Len(order) \in Nat
      /\ \A k \in 1 .. Len(order) : order[k] \in Indices(l)
      /\ \A i \in Indices(l) : \E k \in 1 .. Len(order) : order[k] = i
  <2>1. l.shards \in Nat \ {0} /\ start \in 0 .. l.shards - 1
    BY <1>1, <1>2, <1>3
  <2> QED
    BY <1>5, <2>1, OrderCovers
<1>7. PICK k : k = Choice(order, arr)
  OBVIOUS
<1>8. /\ k = 0 => \A j \in 1 .. Len(order) : arr[order[j]] = <<>>
      /\ k # 0 => k \in 1 .. Len(order) /\ arr[order[k]] # <<>>
  BY <1>6, <1>7, GetChooses
<1>9. lists' = IF k = 0 THEN AfterMiss(l) ELSE AfterGet(l, order[k])
  BY <1>1, <1>3, <1>5, <1>7 DEF F!Get, Order, Choice, AfterMiss, AfterGet
<1>10. CASE k = 0
  <2>1. lists' = FreeList(n, aligned, hash, arr, kept, Yes)
    BY <1>2, <1>9, <1>10, FieldsAfter
  <2>2. \A i \in 0 .. n * Colors - 1 : arr[i] = <<>>
    BY <1>4, <1>6, <1>8, <1>10
  <2> QED
    BY <1>2, <2>1, <2>2, Changed
<1>11. CASE k # 0
  <2>1. PICK i \in 0 .. n * Colors - 1 : i = order[k] /\ arr[i] # <<>>
    BY <1>4, <1>6, <1>8, <1>11
  <2>2. PICK new, h : new = Taken(arr, i) /\ h = Head(arr[i])
    OBVIOUS
  <2>3. /\ new \in [0 .. n * Colors - 1 -> Seq(F!Slabs)] /\ h \in F!Slabs
        /\ Once(new, kept \cup {h})
    BY <1>2, <2>1, <2>2, TakenOnce
  <2>4. lists' = FreeList(n, aligned, hash, new, kept \cup {h}, No)
    <3>1. lists' = AfterGet(l, i)
      BY <1>9, <1>11, <2>1
    <3>2. AfterGet(l, i) = FreeList(n, aligned, hash, Taken(arr, i), Given(arr, i, kept), No)
      BY <1>2, FieldsAfter
    <3>3. Given(arr, i, kept) = kept \cup {h}
      BY <2>2 DEF Given
    <3> QED
      BY <2>2, <3>1, <3>2, <3>3, Zenon
  <2>5. kept \cup {h} \in SUBSET F!Slabs
    BY <1>2, <2>3
  <2>6. No => \A j \in 0 .. n * Colors - 1 : new[j] = <<>>
    BY DEF No
  <2> QED
    BY <1>2, <2>3, <2>4, <2>5, <2>6, Changed
<1> QED
  BY <1>10, <1>11

(* put: a slab that a caller keeps goes on one list. *)
LEMMA PutKept ==
  ASSUME ListsKept, NEW slab \in F!Slabs, F!Put(slab)
  PROVE  ListsKept'
<1>1. PICK l : l = lists
  OBVIOUS
<1>2. PICK n, aligned, hash, arr, kept, missed :
        /\ l = FreeList(n, aligned, hash, arr, kept, missed)
        /\ n \in Nat \ {0} /\ aligned \in Nat /\ hash \in [F!Slabs -> Nat]
        /\ kept \in SUBSET F!Slabs
        /\ arr \in [0 .. n * Colors - 1 -> Seq(F!Slabs)]
        /\ Once(arr, kept)
  BY <1>1, Named
<1>3. /\ l.shards = n /\ l.aligned = aligned /\ l.hash = hash /\ l.kept = kept
  BY <1>2, FieldsUpdated
<1>4. Indices(l) = 0 .. n * Colors - 1
  BY <1>3 DEF Indices, Length
<1>5. PICK i \in 0 .. n * Colors - 1 : i = F!IndexWhenPut(l)[slab]
  <2>1. F!IndexWhenPut(l) \in [F!Slabs -> Indices(l)]
    BY <1>2, <1>3, IndicesTyped
  <2> QED
    BY <1>4, <2>1
<1>6. slab \in kept /\ lists' = AfterPut(l, i, slab)
  BY <1>1, <1>3, <1>5 DEF F!Put, AfterPut
<1>7. PICK new : new = Pushed(arr, i, slab)
  OBVIOUS
<1>8. /\ new \in [0 .. n * Colors - 1 -> Seq(F!Slabs)]
      /\ Once(new, kept \ {slab})
  BY <1>2, <1>6, <1>7, PutOnce
<1>9. lists' = FreeList(n, aligned, hash, new, kept \ {slab}, No)
  BY <1>2, <1>6, <1>7, FieldsAfter
<1>10. kept \ {slab} \in SUBSET F!Slabs
  BY <1>2
<1>11. No => \A j \in 0 .. n * Colors - 1 : new[j] = <<>>
  BY DEF No
<1> QED
  BY <1>2, <1>8, <1>9, <1>10, <1>11, Changed

(* Reset: the shards are emptied and every slab is pushed again. *)
LEMMA ResetKept ==
  ASSUME ListsKept, F!Reset
  PROVE  ListsKept'
<1>1. PICK l : l = lists
  OBVIOUS
<1>2. PICK n, aligned, hash, arr, kept, missed :
        /\ l = FreeList(n, aligned, hash, arr, kept, missed)
        /\ n \in Nat \ {0} /\ aligned \in Nat /\ hash \in [F!Slabs -> Nat]
        /\ kept \in SUBSET F!Slabs
  BY <1>1, Named
<1>3. /\ l.shards = n /\ l.aligned = aligned /\ l.hash = hash /\ l.kept = kept
  BY <1>2, FieldsUpdated
<1>4. Indices(l) = 0 .. n * Colors - 1
  BY <1>3 DEF Indices, Length
<1>5. PICK index : index = F!IndexWhenPut(l) /\ index \in [F!Slabs -> Indices(l)]
  BY <1>2, <1>3, IndicesTyped
<1>6. PICK new : /\ new = F!Distributed(l, index)
                 /\ new \in [Indices(l) -> Seq(F!Slabs)] /\ Once(new, {})
  BY <1>5, DistributedOnce
<1>7. kept = {} /\ lists' = AfterReset(l, new)
  BY <1>1, <1>3, <1>5, <1>6 DEF F!Reset, F!Redistributed, AfterReset
<1>8. lists' = FreeList(n, aligned, hash, new, {}, No)
  BY <1>2, <1>7, FieldsAfter
<1>9. No => \A j \in 0 .. n * Colors - 1 : new[j] = <<>>
  BY DEF No
<1> QED
  <2>1. new \in [0 .. n * Colors - 1 -> Seq(F!Slabs)] /\ {} \in SUBSET F!Slabs
    BY <1>4, <1>6
  <2> QED
    BY <1>2, <1>6, <1>8, <1>9, <2>1, Changed

(* Whatever is done with the free list, its slabs are where they should be.*)
LEMMA ListsAlways == MCSpec => []ListsInv
<1>1. MCInit => ListsInv
  BY DEF MCInit, F!Init, ListsInv
<1>2. ASSUME ListsInv, MCNext \/ UNCHANGED <<made, largeThreshold, served, lists>>
      PROVE  ListsInv'
  <2>1. UNCHANGED lists \/ F!Make \/ F!Use
    BY <1>2 DEF MCNext
  <2>2. CASE UNCHANGED lists
    BY <1>2, <2>2 DEF ListsInv, ListsKept, ListsShape, Indices, Length, F!MissMeansEmpty
  <2>3. CASE F!Make
    <3>1. PICK count \in ShardCounts, aligned \in LineSizes, hash \in [F!Slabs -> 0 .. 3] :
            F!New(count, aligned, hash)
      BY <2>3 DEF F!Make
    <3> QED
      BY <3>1, MadeOnce DEF ListsInv
  <2>4. CASE F!Use
    <3>1. ListsKept
      BY <1>2, <2>4 DEF ListsInv, F!Use
    <3>2. CASE \E start \in 0 .. lists.shards - 1 : F!Get(start, 0)
      BY <3>1, <3>2, GetKept DEF ListsInv
    <3>3. CASE \E slab \in F!Slabs : F!Put(slab)
      BY <3>1, <3>3, PutKept DEF ListsInv
    <3>4. CASE F!Reset
      BY <3>1, <3>4, ResetKept DEF ListsInv
    <3> QED
      BY <2>4, <3>2, <3>3, <3>4 DEF F!Use
  <2> QED
    BY <2>1, <2>2, <2>3, <2>4
<1> QED
  BY <1>1, <1>2, PTL DEF MCSpec

(* get fails only when every list is empty, whatever the number of colors, *)
(* shards and slabs and wherever it starts: its scan comes by every list   *)
(* (coloredShardedFreeList.get).                                           *)
THEOREM MissesAreEmpty == MCSpec => []MissMeansEmpty
<1>1. ListsInv => MissMeansEmpty
  <2>1. CASE lists = F!NoLists
    <3>1. lists.missed = FALSE
      BY <2>1 DEF F!NoLists
    <3> QED
      BY <3>1 DEF MissMeansEmpty, F!MissMeansEmpty
  <2> QED
    BY <2>1 DEF ListsInv, ListsKept, MissMeansEmpty
<1> QED
  BY <1>1, ListsAlways, PTL

(* Every slab is on one list, once, or with a caller: the index by which   *)
(* the constructor placed it and the one by which put and Reset do may     *)
(* differ, but a slab is never left on two lists (put, Reset).             *)
THEOREM ListedOnce == MCSpec => []OnOneList
<1>1. ListsInv => OnOneList
  <2> SUFFICES ASSUME ListsInv, lists # F!NoLists, NEW s \in F!Slabs
               PROVE  F!Cardinality({e \in UNION {{i} \X DOMAIN lists.array[i] :
                                                     i \in DOMAIN lists.array} :
                                       lists.array[e[1]][e[2]] = s})
                        = (IF s \in lists.kept THEN 0 ELSE 1)
    BY DEF OnOneList, F!OnOneList
  <2>1. PICK arr, kept : arr = lists.array /\ kept = lists.kept
    OBVIOUS
  <2>2. arr \in [Indices(lists) -> Seq(F!Slabs)] /\ kept \in SUBSET F!Slabs /\ Once(arr, kept)
    BY <2>1 DEF ListsInv, ListsKept, ListsShape
  <2>3. F!Cardinality({e \in UNION {{i} \X DOMAIN arr[i] : i \in DOMAIN arr} :
                         arr[e[1]][e[2]] = s}) = (IF s \in kept THEN 0 ELSE 1)
    BY <2>2, OnceCounted
  <2> QED
    BY <2>1, <2>3
<1> QED
  BY <1>1, ListsAlways, PTL
=============================================================================
