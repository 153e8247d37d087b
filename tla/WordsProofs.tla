---------------------------- MODULE WordsProofs -----------------------------
(***************************************************************************)
(* Proofs about Words, for every list of 2^WordBits different words, every *)
(* hash and all bytes: Decode undoes Encode, Encode undoes Decode, and what *)
(* Complete returns.                                                       *)
(***************************************************************************)
EXTENDS Words, Integers, SequenceTheorems, WellFoundedInduction, TLAPS

-----------------------------------------------------------------------------
(* Induction up to a number, and what recursion up to a number defines. *)

\* A set of natural numbers has a least one.
LEMMA Least ==
    ASSUME NEW T, T \subseteq Nat, T # {}
    PROVE  \E m \in T : \A k \in T : m <= k
<1> DEFINE R == {ss \in Nat \X Nat : ss[1] < ss[2]}
<1>1. IsWellFoundedOn(R, Nat)
  BY NatLessThanWellFounded, Zenon DEF OpToRel
<1>2. \A k, m \in Nat : <<k, m>> \notin R => m <= k
  OBVIOUS
<1> HIDE DEF R
<1>3. \E m \in T : \A k \in T : <<k, m>> \notin R
  BY <1>1, WFMin, Zenon
<1> QED BY <1>2, <1>3

\* A set with 0 and, up to n, with every number behind one of its own, has
\* every number up to n.
LEMMA Upwards ==
    ASSUME NEW n \in Nat, NEW T,
           0 \in T, \A i \in 1..n : i - 1 \in T => i \in T
    PROVE  \A i \in 0..n : i \in T
<1> SUFFICES ASSUME {i \in 0..n : i \notin T} # {} PROVE FALSE
  OBVIOUS
<1>1. {i \in 0..n : i \notin T} \subseteq Nat
  OBVIOUS
<1> DEFINE Missing == {i \in 0..n : i \notin T}
<1>2. PICK m \in Missing : \A k \in Missing : m <= k
  <2> HIDE DEF Missing
  <2>1. Missing # {} /\ Missing \subseteq Nat
    BY <1>1 DEF Missing
  <2> QED BY <2>1, Least
<1>3. m \in 1..n /\ m - 1 \in 0..n
  OBVIOUS
<1>4. m - 1 \in T
  BY <1>2, <1>3
<1> QED BY <1>3, <1>4

\* f begins with e and goes on, from each value to the next, by F.
Recurs(f, n, e, F) == f[0] = e /\ \A i \in 1..n : f[i] = F[<<f[i - 1], i>>]

\* There is a function of the numbers up to n that begins with e and goes on,
\* from each to the next, by F.
LEMMA Recursion ==
    ASSUME NEW n \in Nat, NEW S, NEW e \in S, NEW F \in [S \X (1..n) -> S]
    PROVE  \E f \in [0..n -> S] : Recurs(f, n, e, F)
<1> DEFINE T == {k \in 0..n : \E f \in [0..k -> S] : Recurs(f, k, e, F)}
<1>1. 0 \in T
  <2>1. [i \in 0..0 |-> e] \in [0..0 -> S] /\ Recurs([i \in 0..0 |-> e], 0, e, F)
    BY DEF Recurs
  <2>2. 0 \in 0..n
    OBVIOUS
  <2> QED BY <2>1, <2>2
<1>2. ASSUME NEW k \in 1..n, k - 1 \in T PROVE k \in T
  <2>1. PICK f \in [0..k - 1 -> S] : Recurs(f, k - 1, e, F)
    BY <1>2
  <2> DEFINE g == [i \in 0..k |-> IF i = k THEN F[<<f[k - 1], k>>] ELSE f[i]]
  <2>2. f[k - 1] \in S /\ F[<<f[k - 1], k>>] \in S
    OBVIOUS
  <2>3. \A i \in 0..k : i # k => i \in 0..k - 1 /\ f[i] \in S
    OBVIOUS
  <2>4. g \in [0..k -> S]
    BY <2>2, <2>3
  <2>5. g[0] = e
    BY <2>1 DEF Recurs
  <2>6. ASSUME NEW i \in 1..k PROVE g[i] = F[<<g[i - 1], i>>]
    <3>1. i - 1 \in 0..k /\ i - 1 # k /\ i \in 0..k
      OBVIOUS
    <3>2. g[i - 1] = f[i - 1] /\ g[i] = IF i = k THEN F[<<f[k - 1], k>>] ELSE f[i]
      BY <3>1
    <3>3. i # k => f[i] = F[<<f[i - 1], i>>]
      BY <2>1 DEF Recurs
    <3> HIDE DEF g
    <3> QED BY <3>2, <3>3
  <2> HIDE DEF g
  <2> QED BY <2>4, <2>5, <2>6 DEF Recurs
<1>3. \A i \in 0..n : i \in T
  <2> HIDE DEF T
  <2> QED BY <1>1, <1>2, Upwards
<1>4. n \in T
  BY <1>3
<1> QED BY <1>4

\* What holds of the first value and passes from each value to the next holds
\* of all of them.
LEMMA ValuesUpTo ==
    ASSUME NEW n \in Nat, NEW S, NEW f, f[0] \in S,
           \A i \in 1..n : f[i - 1] \in S => f[i] \in S
    PROVE  \A i \in 0..n : f[i] \in S
<1> DEFINE T == {i \in 0..n : f[i] \in S}
<1>1. 0 \in T /\ \A i \in 1..n : i - 1 \in T => i \in T
  OBVIOUS
<1>2. \A i \in 0..n : i \in T
  <2> HIDE DEF T
  <2> QED BY <1>1, Upwards
<1> QED BY <1>2

-----------------------------------------------------------------------------
(* The recursive definitions, as their equations. *)

\* The powers of two up to the size of the list.
IsPowers(pow) ==
    /\ pow \in [0..WordBits -> Nat]
    /\ pow[0] = 1 /\ \A b \in 1..WordBits : pow[b] = 2 * pow[b - 1]
    /\ pow[WordBits] = ListSize

\* Partial numbers of some bits: idx[b] is the number of the first b.
IsNumbers(idx, bits) ==
    /\ idx \in [0..Len(bits) -> Nat]
    /\ idx[0] = 0 /\ \A b \in 1..Len(bits) : idx[b] = 2 * idx[b - 1] + bits[b]
    /\ idx[Len(bits)] = Number(bits)

\* ListSize is the last of the powers of two.
LEMMA Powers == \E pow : IsPowers(pow)
<1> DEFINE Eq(f) == f = [b \in 0..WordBits |-> IF b = 0 THEN 1 ELSE 2 * f[b - 1]]
           F == [p \in Nat \X (1..WordBits) |-> 2 * p[1]]
<1>1. WordBits \in Nat /\ 1 \in Nat
  BY ListAssumption
<1>2. F \in [Nat \X (1..WordBits) -> Nat]
  OBVIOUS
<1>3. PICK f \in [0..WordBits -> Nat] : Recurs(f, WordBits, 1, F)
  <2> HIDE DEF F
  <2> QED BY <1>1, <1>2, Recursion, Zenon
<1>4. \A b \in 1..WordBits : f[b] = 2 * f[b - 1]
  <2> SUFFICES ASSUME NEW b \in 1..WordBits PROVE F[<<f[b - 1], b>>] = 2 * f[b - 1]
    BY <1>3 DEF Recurs
  <2>1. f[b - 1] \in Nat
    BY <1>1
  <2> QED BY <2>1
<1>5. Eq(f)
  BY <1>1, <1>3, <1>4 DEF Recurs
<1>6. PICK pow : pow = CHOOSE g : Eq(g)
  OBVIOUS
<1>7. Eq(pow)
  <2> HIDE DEF Eq
  <2> QED BY <1>5, <1>6
<1>8. ListSize = pow[WordBits]
  BY <1>6 DEF ListSize
<1>9. pow[0] = 1 /\ \A b \in 1..WordBits : pow[b] = 2 * pow[b - 1]
  BY <1>1, <1>7
<1>10. \A b \in 0..WordBits : pow[b] \in Nat
  <2>1. pow[0] \in Nat /\ \A b \in 1..WordBits : pow[b - 1] \in Nat => pow[b] \in Nat
    BY <1>1, <1>9
  <2> QED BY <1>1, <2>1, ValuesUpTo
<1>11. pow \in [0..WordBits -> Nat]
  BY <1>7, <1>10
<1> QED BY <1>8, <1>9, <1>11 DEF IsPowers

\* Number is the last of the partial numbers.
LEMMA Numbers ==
    ASSUME NEW bits \in Seq({0, 1})
    PROVE  \E idx : IsNumbers(idx, bits)
<1> DEFINE n == Len(bits)
           Eq(f) == f = [b \in 0..Len(bits) |-> IF b = 0 THEN 0 ELSE 2 * f[b - 1] + bits[b]]
           F == [p \in Nat \X (1..n) |-> 2 * p[1] + bits[p[2]]]
<1>1. n \in Nat /\ 0 \in Nat /\ \A b \in 1..n : bits[b] \in {0, 1}
  OBVIOUS
<1>2. F \in [Nat \X (1..n) -> Nat]
  <2> SUFFICES ASSUME NEW i \in Nat, NEW b \in 1..n PROVE 2 * i + bits[b] \in Nat
    OBVIOUS
  <2>1. bits[b] \in {0, 1}
    BY <1>1
  <2> QED BY <2>1
<1>3. PICK f \in [0..n -> Nat] : Recurs(f, n, 0, F)
  <2> HIDE DEF F, n
  <2> QED BY <1>1, <1>2, Recursion, Zenon
<1>4. \A b \in 1..n : f[b] = 2 * f[b - 1] + bits[b]
  <2> SUFFICES ASSUME NEW b \in 1..n PROVE F[<<f[b - 1], b>>] = 2 * f[b - 1] + bits[b]
    BY <1>3 DEF Recurs
  <2>1. f[b - 1] \in Nat
    BY <1>1
  <2> QED BY <2>1
<1>5. Eq(f)
  BY <1>1, <1>3, <1>4 DEF Recurs
<1>6. PICK idx : idx = CHOOSE g : Eq(g)
  OBVIOUS
<1>7. Eq(idx)
  <2> HIDE DEF Eq
  <2> QED BY <1>5, <1>6
<1>8. Number(bits) = idx[n]
  BY <1>6 DEF Number
<1>9. idx[0] = 0 /\ \A b \in 1..n : idx[b] = 2 * idx[b - 1] + bits[b]
  BY <1>1, <1>7
<1>10. \A b \in 0..n : idx[b] \in Nat
  <2>1. ASSUME NEW b \in 1..n, idx[b - 1] \in Nat PROVE idx[b] \in Nat
    <3>1. idx[b] = 2 * idx[b - 1] + bits[b] /\ bits[b] \in {0, 1}
      BY <1>1, <1>9
    <3> QED BY <2>1, <3>1
  <2>2. idx[0] \in Nat
    BY <1>9
  <2> HIDE DEF n
  <2> QED BY <1>1, <2>1, <2>2, ValuesUpTo
<1>11. idx \in [0..n -> Nat]
  BY <1>7, <1>10
<1> QED BY <1>8, <1>9, <1>11 DEF IsNumbers

\* Shr halves as often as it is told to.
LEMMA Shifts ==
    ASSUME NEW m \in Nat
    PROVE  /\ \A b \in 0..WordBits : Shr(m, b) \in Nat
           /\ Shr(m, 0) = m
           /\ \A b \in 1..WordBits : Shr(m, b) = Shr(m, b - 1) \div 2
<1> DEFINE Eq(f) == f = [b \in 0..WordBits |-> IF b = 0 THEN m ELSE f[b - 1] \div 2]
           F == [p \in Nat \X (1..WordBits) |-> p[1] \div 2]
<1>1. WordBits \in Nat
  BY ListAssumption
<1>2. F \in [Nat \X (1..WordBits) -> Nat]
  OBVIOUS
<1>3. PICK f \in [0..WordBits -> Nat] : Recurs(f, WordBits, m, F)
  <2> HIDE DEF F
  <2> QED BY <1>1, <1>2, Recursion, Zenon
<1>4. \A b \in 1..WordBits : f[b] = f[b - 1] \div 2
  <2> SUFFICES ASSUME NEW b \in 1..WordBits PROVE F[<<f[b - 1], b>>] = f[b - 1] \div 2
    BY <1>3 DEF Recurs
  <2>1. f[b - 1] \in Nat
    BY <1>1
  <2> QED BY <2>1
<1>5. Eq(f)
  BY <1>1, <1>3, <1>4 DEF Recurs
<1>6. PICK shr : shr = CHOOSE g : Eq(g)
  OBVIOUS
<1>7. Eq(shr)
  <2> HIDE DEF Eq
  <2> QED BY <1>5, <1>6
<1>8. \A b : Shr(m, b) = shr[b]
  BY <1>6 DEF Shr
<1>9. shr[0] = m /\ \A b \in 1..WordBits : shr[b] = shr[b - 1] \div 2
  BY <1>1, <1>7
<1>10. \A b \in 0..WordBits : shr[b] \in Nat
  <2>1. shr[0] \in Nat /\ \A b \in 1..WordBits : shr[b - 1] \in Nat => shr[b] \in Nat
    BY <1>9
  <2> QED BY <1>1, <2>1, ValuesUpTo
<1> QED BY <1>8, <1>9, <1>10

-----------------------------------------------------------------------------
(* Numbers and their bits. *)

\* A bit shifted in at the right is the one that comes out first.
LEMMA LastBit == \A i \in Nat, d \in {0, 1} : (2 * i + d) \div 2 = i /\ (2 * i + d) % 2 = d
<1>1. \A i \in Nat : (2 * i) \div 2 = i /\ (2 * i) % 2 = 0
  OBVIOUS
<1>2. \A i \in Nat : (2 * i + 1) \div 2 = i /\ (2 * i + 1) % 2 = 1
  OBVIOUS
<1> QED BY <1>1, <1>2

\* The number of the bits of a word is below the size of the list, and the
\* bits Decode shifts out of it are those it was made of.
LEMMA BitsOfNumber ==
    ASSUME NEW bits \in [1..WordBits -> {0, 1}]
    PROVE  /\ Number(bits) \in Nat /\ Number(bits) < ListSize
           /\ \A j \in 1..WordBits : Shr(Number(bits), WordBits - j) % 2 = bits[j]
<1>1. WordBits \in Nat /\ bits \in Seq({0, 1}) /\ Len(bits) = WordBits
  BY ListAssumption
<1>2. PICK idx : IsNumbers(idx, bits)
  BY <1>1, Numbers
<1>3. PICK pow : IsPowers(pow)
  BY Powers
<1> DEFINE m == Number(bits)
<1>4. m \in Nat /\ m = idx[WordBits] /\ ListSize = pow[WordBits]
  BY <1>1, <1>2, <1>3 DEF IsNumbers, IsPowers
<1>5. \A b \in 1..WordBits :
          /\ b - 1 \in 0..WordBits /\ b \in 0..WordBits
          /\ idx[b - 1] \in Nat /\ idx[b] = 2 * idx[b - 1] + bits[b]
          /\ pow[b - 1] \in Nat /\ pow[b] = 2 * pow[b - 1] /\ bits[b] \in {0, 1}
  BY <1>1, <1>2, <1>3 DEF IsNumbers, IsPowers
<1>6. idx[0] = 0 /\ pow[0] = 1 /\ \A b \in 0..WordBits : idx[b] \in Nat
  BY <1>1, <1>2, <1>3 DEF IsNumbers, IsPowers
<1>7. \A b \in 0..WordBits : idx[b] < pow[b]
  <2> DEFINE T == {b \in 0..WordBits : idx[b] < pow[b]}
  <2>1. 0 \in T
    BY <1>1, <1>6
  <2>2. ASSUME NEW b \in 1..WordBits, b - 1 \in T PROVE b \in T
    <3>1. idx[b - 1] < pow[b - 1]
      BY <2>2
    <3>2. \A i, q \in Nat, d \in {0, 1} : i < q => 2 * i + d < 2 * q
      OBVIOUS
    <3>3. idx[b] < pow[b] /\ b \in 0..WordBits
      BY <1>5, <3>1, <3>2
    <3> QED BY <3>3
  <2>3. \A b \in 0..WordBits : b \in T
    <3> HIDE DEF T
    <3> QED BY <1>1, <2>1, <2>2, Upwards
  <2> QED BY <2>3
<1> HIDE DEF m
<1>8. \A k \in 0..WordBits : Shr(m, k) = idx[WordBits - k]
  <2> DEFINE T == {k \in 0..WordBits : Shr(m, k) = idx[WordBits - k]}
  <2>1. 0 \in T
    <3>1. WordBits - 0 = WordBits
      BY <1>1
    <3> QED BY <1>1, <1>4, <3>1, Shifts
  <2>2. ASSUME NEW k \in 1..WordBits, k - 1 \in T PROVE k \in T
    <3>1. Shr(m, k) = Shr(m, k - 1) \div 2 /\ Shr(m, k - 1) = idx[WordBits - (k - 1)]
      BY <1>4, <2>2, Shifts
    <3>2. WordBits - (k - 1) \in 1..WordBits /\ (WordBits - (k - 1)) - 1 = WordBits - k
      BY <1>1
    <3>3. /\ idx[WordBits - (k - 1)] = 2 * idx[WordBits - k] + bits[WordBits - (k - 1)]
          /\ idx[WordBits - k] \in Nat /\ bits[WordBits - (k - 1)] \in {0, 1}
      BY <1>5, <3>2
    <3> QED BY <3>1, <3>3, LastBit
  <2>3. \A k \in 0..WordBits : k \in T
    <3> HIDE DEF T
    <3> QED BY <1>1, <2>1, <2>2, Upwards
  <2> QED BY <2>3
<1>9. ASSUME NEW j \in 1..WordBits PROVE Shr(m, WordBits - j) % 2 = bits[j]
  <2>1. WordBits - j \in 0..WordBits /\ WordBits - (WordBits - j) = j
    BY <1>1
  <2>2. Shr(m, WordBits - j) = 2 * idx[j - 1] + bits[j] /\ idx[j - 1] \in Nat /\ bits[j] \in {0, 1}
    BY <1>5, <1>8, <2>1
  <2> QED BY <2>2, LastBit
<1>10. m < ListSize
  BY <1>1, <1>4, <1>7
<1> QED BY <1>4, <1>9, <1>10 DEF m

\* A number below the size of the list is the number of its bits.
LEMMA NumberOfBits ==
    ASSUME NEW m \in Nat, m < ListSize,
           NEW bits, bits = [j \in 1..WordBits |-> Shr(m, WordBits - j) % 2]
    PROVE  bits \in Seq({0, 1}) /\ Len(bits) = WordBits /\ Number(bits) = m
<1>1. WordBits \in Nat
  BY ListAssumption
<1>2. \A j \in 1..WordBits : Shr(m, WordBits - j) \in Nat
  <2>1. \A j \in 1..WordBits : WordBits - j \in 0..WordBits
    BY <1>1
  <2> QED BY <2>1, Shifts
<1>3. bits \in Seq({0, 1}) /\ Len(bits) = WordBits
  <2>1. \A i \in Nat : i % 2 \in {0, 1}
    OBVIOUS
  <2>2. bits \in [1..WordBits -> {0, 1}]
    BY <1>2, <2>1
  <2> QED BY <1>1, <2>2
<1>4. PICK idx : IsNumbers(idx, bits)
  BY <1>3, Numbers
<1>5. PICK pow : IsPowers(pow)
  BY Powers
<1>6. \A k \in 0..WordBits : Shr(m, k) \in Nat /\ pow[k] \in Nat
  BY <1>5, Shifts DEF IsPowers
<1>7. \A k \in 0..WordBits : Shr(m, k) < pow[WordBits - k]
  <2> DEFINE T == {k \in 0..WordBits : Shr(m, k) < pow[WordBits - k]}
  <2>1. 0 \in T
    <3>1. Shr(m, 0) < pow[WordBits]
      BY <1>5, Shifts DEF IsPowers
    <3> QED BY <1>1, <3>1
  <2>2. ASSUME NEW k \in 1..WordBits, k - 1 \in T PROVE k \in T
    <3>1. WordBits - (k - 1) \in 1..WordBits /\ (WordBits - (k - 1)) - 1 = WordBits - k
      BY <1>1
    <3>2. pow[WordBits - (k - 1)] = 2 * pow[WordBits - k] /\ WordBits - k \in 0..WordBits
      BY <1>1, <1>5, <3>1 DEF IsPowers
    <3>3. Shr(m, k) = Shr(m, k - 1) \div 2 /\ Shr(m, k - 1) < 2 * pow[WordBits - k]
      BY <2>2, <3>2, Shifts
    <3>4. \A i, q \in Nat : i < 2 * q => i \div 2 < q
      OBVIOUS
    <3>5. k - 1 \in 0..WordBits
      BY <1>1
    <3> QED BY <1>6, <3>2, <3>3, <3>4, <3>5
  <2>3. \A k \in 0..WordBits : k \in T
    <3> HIDE DEF T
    <3> QED BY <1>1, <2>1, <2>2, Upwards
  <2> QED BY <2>3
<1>8. Shr(m, WordBits) = 0
  <2>1. Shr(m, WordBits) \in Nat /\ Shr(m, WordBits) < pow[0]
    BY <1>1, <1>6, <1>7
  <2> QED BY <1>5, <2>1 DEF IsPowers
<1>9. \A b \in 0..WordBits : idx[b] = Shr(m, WordBits - b)
  <2> DEFINE T == {b \in 0..WordBits : idx[b] = Shr(m, WordBits - b)}
  <2>1. 0 \in T
    BY <1>1, <1>4, <1>8 DEF IsNumbers
  <2>2. ASSUME NEW b \in 1..WordBits, b - 1 \in T PROVE b \in T
    <3>1. idx[b] = 2 * idx[b - 1] + bits[b] /\ idx[b - 1] = Shr(m, WordBits - (b - 1))
      BY <1>3, <1>4, <2>2 DEF IsNumbers
    <3>2. /\ WordBits - (b - 1) = WordBits - b + 1 /\ (WordBits - b + 1) - 1 = WordBits - b
          /\ WordBits - b + 1 \in 1..WordBits /\ WordBits - b \in 0..WordBits
      BY <1>1
    <3>3. Shr(m, WordBits - b + 1) = Shr(m, WordBits - b) \div 2
      BY <3>2, Shifts
    <3>4. bits[b] = Shr(m, WordBits - b) % 2
      OBVIOUS
    <3>5. \A i \in Nat : 2 * (i \div 2) + (i % 2) = i
      OBVIOUS
    <3>6. idx[b] = 2 * (Shr(m, WordBits - b) \div 2) + (Shr(m, WordBits - b) % 2)
      BY <3>1, <3>2, <3>3, <3>4
    <3> QED BY <1>6, <3>2, <3>5, <3>6
  <2>3. \A b \in 0..WordBits : b \in T
    <3> HIDE DEF T
    <3> QED BY <1>1, <2>1, <2>2, Upwards
  <2> QED BY <2>3
<1>10. idx[WordBits] = m
  <2>1. WordBits - WordBits = 0 /\ WordBits \in 0..WordBits
    BY <1>1
  <2> QED BY <1>9, <2>1, Shifts
<1> QED BY <1>3, <1>4, <1>10 DEF IsNumbers

-----------------------------------------------------------------------------
(* The list, and where the bits of a phrase are. *)

\* The words of the list and the numbers below its size stand for each other.
LEMMA Lookup ==
    /\ \A m \in Nat : m < ListSize =>
           List[1 + m] \in Word /\ Valid(List[1 + m]) /\ Index(List[1 + m]) = m
    /\ \A word : Valid(word) =>
           /\ word \in Word /\ List[1 + Index(word)] = word
           /\ Index(word) \in Nat /\ Index(word) < ListSize
<1>1. /\ List \in Seq(Word) /\ Len(List) = ListSize /\ DOMAIN List = 1..ListSize
      /\ ListSize \in Nat
  BY ListAssumption DEF IsList
<1>2. \A a, b \in 1..ListSize : List[a] = List[b] => a = b
  BY <1>1, ListAssumption DEF IsList, IsInjective
<1>3. ASSUME NEW m \in Nat, m < ListSize
      PROVE  List[1 + m] \in Word /\ Valid(List[1 + m]) /\ Index(List[1 + m]) = m
  <2>1. 1 + m \in 1..ListSize
    BY <1>1, <1>3
  <2>2. List[1 + m] \in Word /\ Valid(List[1 + m])
    BY <1>1, <2>1 DEF Valid, Contains
  <2>3. PICK i : i = CHOOSE k \in 1..ListSize : List[k] = List[1 + m]
    OBVIOUS
  <2>4. i \in 1..ListSize /\ List[i] = List[1 + m]
    BY <2>1, <2>3
  <2>5. Index(List[1 + m]) = i - 1
    BY <2>3 DEF Index
  <2>6. i = 1 + m
    BY <1>2, <2>1, <2>4
  <2>7. i - 1 = m
    BY <2>6
  <2> QED BY <2>2, <2>5, <2>7
<1>4. ASSUME NEW word, Valid(word)
      PROVE  /\ word \in Word /\ List[1 + Index(word)] = word
             /\ Index(word) \in Nat /\ Index(word) < ListSize
  <2>1. PICK i : i = CHOOSE k \in 1..ListSize : List[k] = word
    OBVIOUS
  <2>2. \E k \in 1..ListSize : List[k] = word
    BY <1>1, <1>4 DEF Valid, Contains
  <2>3. i \in 1..ListSize /\ List[i] = word
    BY <2>1, <2>2
  <2>4. Index(word) = i - 1
    BY <2>1 DEF Index
  <2>5. 1 + (i - 1) = i /\ i - 1 \in Nat /\ i - 1 < ListSize
    BY <1>1, <2>3
  <2>6. word \in Word
    BY <1>1, <2>3
  <2> QED BY <2>3, <2>4, <2>5, <2>6
<1> QED BY <1>3, <1>4

\* A position in a phrase is one in a word of it.
LEMMA PositionOf ==
    ASSUME NEW n \in Nat, NEW p \in 1..n * WordBits
    PROVE  \E w \in 1..n, j \in 1..WordBits :
               /\ p = (w - 1) * WordBits + j
               /\ w = (p - 1) \div WordBits + 1
               /\ WordBits - 1 - ((p - 1) % WordBits) = WordBits - j
<1>1. WordBits \in Nat \ {0} /\ n * WordBits \in Nat /\ p - 1 \in Nat
  BY ListAssumption
<1> DEFINE q == p - 1
           d == q \div WordBits
           r == q % WordBits
<1>2. d \in Nat /\ r \in 0..WordBits - 1 /\ q = d * WordBits + r
  BY <1>1
<1>3. d < n
  <2>1. d * WordBits < n * WordBits
    BY <1>1, <1>2
  <2>2. ASSUME NEW a \in Nat, NEW b \in Nat, NEW c \in Nat, a * c < b * c PROVE a < b
    BY <2>2
  <2> HIDE DEF d
  <2> QED BY <1>1, <1>2, <2>1, <2>2
<1> HIDE DEF d, r
<1>4. d + 1 \in 1..n /\ r + 1 \in 1..WordBits /\ (d + 1) - 1 = d
  BY <1>1, <1>2, <1>3
<1>5. p = d * WordBits + (r + 1)
  <2>1. d * WordBits \in Nat
    BY <1>1, <1>2
  <2> QED BY <1>1, <1>2, <2>1
<1>6. WordBits - 1 - r = WordBits - (r + 1)
  BY <1>1, <1>2
<1> QED BY <1>4, <1>5, <1>6 DEF d, r

\* A position in a word is one in the phrase, from which that word is found.
LEMMA PositionIn ==
    ASSUME NEW n \in Nat, NEW w \in 1..n, NEW j \in 1..WordBits
    PROVE  LET p == (w - 1) * WordBits + j
           IN  /\ p \in 1..n * WordBits
               /\ w = (p - 1) \div WordBits + 1
               /\ WordBits - 1 - ((p - 1) % WordBits) = WordBits - j
               /\ w * WordBits = (w - 1) * WordBits + WordBits
               /\ w * WordBits <= n * WordBits
<1> DEFINE d == w - 1
           p == d * WordBits + j
<1>1. WordBits \in Nat \ {0} /\ d \in Nat /\ w = d + 1 /\ d * WordBits \in Nat
  BY ListAssumption
<1>2. ASSUME NEW a \in Nat, NEW b \in Nat, NEW c \in Nat, a <= b PROVE a * c <= b * c
  BY <1>2
<1>3. w * WordBits = d * WordBits + WordBits
  BY <1>1
<1>4. w * WordBits <= n * WordBits /\ n * WordBits \in Nat
  BY <1>1, <1>2
<1>5. p \in 1..n * WordBits
  BY <1>1, <1>3, <1>4
<1>6. d * WordBits <= p - 1 /\ p - 1 < d * WordBits + WordBits /\ p - 1 \in Nat
  BY <1>1
<1> HIDE DEF d
<1>7. (p - 1) \div WordBits = d /\ (p - 1) % WordBits = j - 1
  <2>1. ASSUME NEW a \in Nat, NEW b \in Nat, NEW c \in Nat \ {0},
               b * c <= a, a < b * c + c
        PROVE  a \div c = b /\ a % c = a - b * c
    <3>1. a \div c = b
      BY <2>1
    <3>2. a = (a \div c) * c + (a % c)
      OBVIOUS
    <3>3. a = b * c + (a % c) /\ b * c \in Nat /\ a % c \in Nat
      BY <3>1, <3>2
    <3> QED BY <3>1, <3>3
  <2>2. (p - 1) \div WordBits = d /\ (p - 1) % WordBits = (p - 1) - d * WordBits
    <3> HIDE DEF p
    <3> QED BY <1>1, <1>6, <2>1
  <2>3. (p - 1) - d * WordBits = j - 1
    BY <1>1
  <2> QED BY <2>2, <2>3
<1>8. WordBits - 1 - (j - 1) = WordBits - j
  BY <1>1
<1> QED BY <1>1, <1>3, <1>4, <1>5, <1>7, <1>8 DEF d

-----------------------------------------------------------------------------
(* The bits of a phrase, and the words for some bits. *)

\* A part of a sequence, element by element.
LEMMA PartOf ==
    ASSUME NEW S, NEW s \in Seq(S), NEW from \in 1..Len(s), NEW to \in from..Len(s)
    PROVE  SubSeq(s, from, to) = [j \in 1..to - from + 1 |-> s[from + j - 1]]
OBVIOUS

\* The words Encode looks up for some bits.
WordsFor(bits, n) == [w \in 1..n |-> List[1 + Number(Chunk(bits, w))]]

\* The w-th chunk is as long as a word and begins behind w - 1 words.
LEMMA ChunkBits ==
    ASSUME NEW n \in Nat, NEW bits \in [1..n * WordBits -> {0, 1}], NEW w \in 1..n
    PROVE  /\ Chunk(bits, w) \in [1..WordBits -> {0, 1}]
           /\ \A j \in 1..WordBits : Chunk(bits, w)[j] = bits[(w - 1) * WordBits + j]
<1> DEFINE from == (w - 1) * WordBits + 1
           to == w * WordBits
<1>1. WordBits \in Nat \ {0} /\ n * WordBits \in Nat /\ (w - 1) * WordBits \in Nat
  BY ListAssumption
<1>2. to = (w - 1) * WordBits + WordBits /\ to <= n * WordBits /\ to \in Nat /\ from \in Nat
  <2>1. 1 \in 1..WordBits
    BY <1>1
  <2> QED BY <1>1, <2>1, PositionIn
<1>3. bits \in Seq({0, 1}) /\ Len(bits) = n * WordBits
  BY <1>1
<1>4. to - from + 1 = WordBits /\ from <= to /\ 1 <= from
  BY <1>1, <1>2
<1> HIDE DEF from, to
<1>5. Chunk(bits, w) = [j \in 1..WordBits |-> bits[from + j - 1]]
  <2>1. Chunk(bits, w) = SubSeq(bits, from, to)
    BY DEF Chunk, from, to
  <2>2. from \in 1..Len(bits) /\ to \in from..Len(bits)
    BY <1>1, <1>2, <1>3, <1>4
  <2>3. SubSeq(bits, from, to) = [j \in 1..to - from + 1 |-> bits[from + j - 1]]
    BY <1>3, <2>2, PartOf
  <2> QED BY <1>4, <2>1, <2>3
<1>6. ASSUME NEW j \in 1..WordBits
      PROVE  from + j - 1 = (w - 1) * WordBits + j /\ bits[from + j - 1] \in {0, 1}
  <2>1. from + j - 1 = (w - 1) * WordBits + j
    BY <1>1 DEF from
  <2> QED BY <2>1, PositionIn
<1> QED BY <1>5, <1>6

\* The words looked up for some bits are words of the list and stand for them.
LEMMA BitsOfWordsFor ==
    ASSUME NEW n \in Nat, NEW bits \in [1..n * WordBits -> {0, 1}]
    PROVE  /\ PhraseBits(WordsFor(bits, n)) = bits
           /\ Len(WordsFor(bits, n)) = n
           /\ \A w \in 1..n : Valid(WordsFor(bits, n)[w])
<1> DEFINE words == WordsFor(bits, n)
<1>1. words = [w \in 1..n |-> List[1 + Number(Chunk(bits, w))]] /\ Len(words) = n
  BY DEF WordsFor
<1>2. ASSUME NEW w \in 1..n
      PROVE  /\ Valid(words[w]) /\ Index(words[w]) = Number(Chunk(bits, w))
             /\ \A j \in 1..WordBits :
                    Shr(Index(words[w]), WordBits - j) % 2 = bits[(w - 1) * WordBits + j]
  <2>1. Chunk(bits, w) \in [1..WordBits -> {0, 1}]
    BY ChunkBits
  <2>2. Number(Chunk(bits, w)) \in Nat /\ Number(Chunk(bits, w)) < ListSize
    BY <2>1, BitsOfNumber
  <2>3. words[w] = List[1 + Number(Chunk(bits, w))]
    BY <1>1
  <2>4. Valid(words[w]) /\ Index(words[w]) = Number(Chunk(bits, w))
    BY <2>2, <2>3, Lookup
  <2> QED BY <2>1, <2>4, BitsOfNumber, ChunkBits
<1> HIDE DEF words
<1>3. ASSUME NEW p \in 1..n * WordBits
      PROVE  Shr(Index(words[(p - 1) \div WordBits + 1]),
                 WordBits - 1 - ((p - 1) % WordBits)) % 2 = bits[p]
  <2>1. PICK w \in 1..n, j \in 1..WordBits :
            /\ p = (w - 1) * WordBits + j
            /\ w = (p - 1) \div WordBits + 1
            /\ WordBits - 1 - ((p - 1) % WordBits) = WordBits - j
    BY PositionOf
  <2> QED BY <1>2, <2>1, Zenon
<1>4. PhraseBits(words) = [p \in 1..n * WordBits |-> bits[p]]
  BY <1>1, <1>3, Zenon DEF PhraseBits
<1> QED BY <1>1, <1>2, <1>4 DEF words

\* Words of the list are those looked up for the bits they stand for.
LEMMA WordsForBits ==
    ASSUME NEW words \in Seq(Word), \A w \in 1..Len(words) : Valid(words[w])
    PROVE  /\ PhraseBits(words) \in [1..Len(words) * WordBits -> {0, 1}]
           /\ WordsFor(PhraseBits(words), Len(words)) = words
<1> DEFINE n == Len(words)
           bits == PhraseBits(words)
<1>1. n \in Nat /\ words = [w \in 1..n |-> words[w]]
  OBVIOUS
<1>2. bits = [p \in 1..n * WordBits |->
                  Shr(Index(words[(p - 1) \div WordBits + 1]),
                      WordBits - 1 - ((p - 1) % WordBits)) % 2]
  BY Zenon DEF PhraseBits
<1>3. \A w \in 1..n : /\ Index(words[w]) \in Nat /\ Index(words[w]) < ListSize
                      /\ List[1 + Index(words[w])] = words[w]
  BY Lookup
<1> HIDE DEF n, bits
<1>4. ASSUME NEW w \in 1..n, NEW j \in 1..WordBits
      PROVE  bits[(w - 1) * WordBits + j] = Shr(Index(words[w]), WordBits - j) % 2
  <2>1. PICK p : p = (w - 1) * WordBits + j
    OBVIOUS
  <2>2. /\ p \in 1..n * WordBits /\ w = (p - 1) \div WordBits + 1
        /\ WordBits - 1 - ((p - 1) % WordBits) = WordBits - j
    BY <1>1, <2>1, PositionIn, Zenon
  <2>3. bits[p] = Shr(Index(words[(p - 1) \div WordBits + 1]),
                      WordBits - 1 - ((p - 1) % WordBits)) % 2
    BY <1>2, <2>2, Zenon
  <2> QED BY <2>1, <2>2, <2>3, Zenon
<1>5. bits \in [1..n * WordBits -> {0, 1}]
  <2>1. ASSUME NEW p \in 1..n * WordBits PROVE bits[p] \in {0, 1}
    <3>1. PICK w \in 1..n, j \in 1..WordBits : p = (w - 1) * WordBits + j
      BY <1>1, PositionOf
    <3>2. bits[p] = Shr(Index(words[w]), WordBits - j) % 2
      BY <1>4, <3>1
    <3>3. WordBits - j \in 0..WordBits
      BY ListAssumption
    <3>4. Shr(Index(words[w]), WordBits - j) \in Nat
      BY <1>3, <3>3, Shifts
    <3> QED BY <3>2, <3>4
  <2> QED BY <1>2, <2>1
<1>6. ASSUME NEW w \in 1..n PROVE List[1 + Number(Chunk(bits, w))] = words[w]
  <2>1. /\ Chunk(bits, w) \in [1..WordBits -> {0, 1}]
        /\ \A j \in 1..WordBits : Chunk(bits, w)[j] = bits[(w - 1) * WordBits + j]
    BY <1>1, <1>5, ChunkBits
  <2>2. Chunk(bits, w) = [j \in 1..WordBits |-> Shr(Index(words[w]), WordBits - j) % 2]
    BY <1>4, <2>1
  <2>3. Number(Chunk(bits, w)) = Index(words[w])
    BY <1>3, <2>2, NumberOfBits
  <2> QED BY <1>3, <2>3
<1>7. WordsFor(bits, n) = words
  BY <1>1, <1>6 DEF WordsFor
<1> QED BY <1>5, <1>7 DEF n, bits

-----------------------------------------------------------------------------
(* Encode and Decode. *)

\* A number is its quotient and its remainder.
LEMMA Division ==
    ASSUME NEW a \in Nat, NEW b \in Nat \ {0}
    PROVE  /\ a \div b \in Nat /\ a % b \in 0..b - 1
           /\ a = (a \div b) * b + (a % b)
OBVIOUS

\* Three words for every block of bits and its bit of checksum.
LEMMA Sizes ==
    ASSUME NEW c \in Nat
    PROVE  /\ BlockBits \in Nat \ {0} /\ c * BlockBits \in Nat
           /\ (c * BlockBits) \div BlockBits = c /\ (c * BlockBits) % BlockBits = 0
           /\ (3 * c) * WordBits = c * BlockBits + c
           /\ (c * BlockBits + c) \div WordBits = 3 * c
           /\ ((3 * c) * WordBits * BlockBits) \div (BlockBits + 1) = c * BlockBits
           /\ ((3 * c) * WordBits) % (BlockBits + 1) = 0
<1>1. WordBits \in Nat \ {0} /\ BlockBits = 3 * WordBits - 1
  BY ListAssumption DEF BlockBits
<1>2. BlockBits \in Nat \ {0} /\ BlockBits + 1 = 3 * WordBits /\ BlockBits + 1 \in Nat \ {0}
  BY <1>1
<1>3. ASSUME NEW a \in Nat, NEW b \in Nat \ {0}
      PROVE  (a * b) \div b = a /\ (a * b) % b = 0 /\ a * b \in Nat
  <2>1. (a * b) \div b = a /\ a * b \in Nat
    OBVIOUS
  <2>2. PICK q \in Nat : q = a * b
    BY <2>1
  <2>3. q = (q \div b) * b + (q % b) /\ q % b \in Nat
    BY Division
  <2>4. (q \div b) * b = q
    BY <2>1, <2>2
  <2>5. q = q + (q % b)
    BY <2>3, <2>4
  <2>6. q % b = 0
    BY <2>3, <2>5
  <2> QED BY <2>1, <2>2, <2>6
<1>4. (3 * c) * WordBits = c * (BlockBits + 1)
  BY <1>1, <1>2
<1>5. c * (BlockBits + 1) = c * BlockBits + c
  BY <1>2
<1>6. c * BlockBits \in Nat /\ 3 * c \in Nat
  BY <1>2
<1>7. ((3 * c) * WordBits) * BlockBits = (c * BlockBits) * (BlockBits + 1)
  <2>1. (c * (BlockBits + 1)) * BlockBits = (c * BlockBits) * (BlockBits + 1)
    BY <1>2
  <2> QED BY <1>4, <2>1
<1>8. ((c * BlockBits) * (BlockBits + 1)) \div (BlockBits + 1) = c * BlockBits
  BY <1>2, <1>3, <1>6
<1>9. ((3 * c) * WordBits) \div WordBits = 3 * c
  BY <1>1, <1>3, <1>6
<1>10. /\ (c * (BlockBits + 1)) % (BlockBits + 1) = 0
       /\ (c * BlockBits) \div BlockBits = c /\ (c * BlockBits) % BlockBits = 0
  BY <1>2, <1>3
<1> QED BY <1>2, <1>4, <1>5, <1>6, <1>7, <1>8, <1>9, <1>10

\* Bytes that Encode takes, their checksum, and the two behind each other.
LEMMA Checked ==
    ASSUME NEW entropy \in Seq({0, 1}), Encodes(entropy)
    PROVE  \E c \in Nat \ {0} :
               /\ Len(entropy) = c * BlockBits
               /\ Sha256(entropy) \in Seq({0, 1}) /\ Len(Sha256(entropy)) >= c
               /\ CheckedBits(entropy) = entropy \o SubSeq(Sha256(entropy), 1, c)
<1> DEFINE n == Len(entropy)
           c == n \div BlockBits
<1>1. n \in MinBits..MaxBits /\ n % BlockBits = 0 /\ n \in Nat \ {0} /\ entropy \in [1..n -> {0, 1}]
  BY SizeAssumption DEF Encodes
<1>2. BlockBits \in Nat \ {0}
  BY ListAssumption DEF BlockBits
<1>3. n = c * BlockBits /\ c \in Nat
  <2>1. n = c * BlockBits + (n % BlockBits) /\ c \in Nat
    <3> HIDE DEF n
    <3> QED BY <1>1, <1>2, Division
  <2>2. c * BlockBits \in Nat
    BY <1>2, <2>1
  <2> HIDE DEF n, c
  <2> QED BY <1>1, <2>1, <2>2
<1>4. c # 0
  <2>1. 0 * BlockBits = 0
    BY <1>2
  <2> HIDE DEF n, c
  <2> QED BY <1>1, <1>3, <2>1
<1>5. Sha256(entropy) \in Seq({0, 1}) /\ Len(Sha256(entropy)) >= c
  BY <1>1, Sha256Assumption
<1>6. CheckedBits(entropy) = entropy \o SubSeq(Sha256(entropy), 1, c)
  BY DEF CheckedBits
<1> HIDE DEF n, c
<1> QED BY <1>3, <1>4, <1>5, <1>6 DEF n

\* The phrase for some bytes is decoded to these bytes.
THEOREM DecodeUndoesEncode ==
    ASSUME NEW entropy \in Seq({0, 1}), Encodes(entropy)
    PROVE  /\ Encode(entropy) \in Seq(Word)
           /\ \A i \in 1..Len(Encode(entropy)) : Valid(Encode(entropy)[i])
           /\ Decodes(Encode(entropy)) /\ Decode(Encode(entropy)) = entropy
<1>1. PICK c \in Nat \ {0} :
          /\ Len(entropy) = c * BlockBits
          /\ Sha256(entropy) \in Seq({0, 1}) /\ Len(Sha256(entropy)) >= c
          /\ CheckedBits(entropy) = entropy \o SubSeq(Sha256(entropy), 1, c)
  BY Checked
<1> DEFINE n == 3 * c
           m == c * BlockBits
           bits == CheckedBits(entropy)
           sum == SubSeq(Sha256(entropy), 1, c)
           words == Encode(entropy)
<1>2. sum \in Seq({0, 1}) /\ Len(sum) = c
  BY <1>1
<1>3. /\ n \in Nat \ {0} /\ n * WordBits = m + c /\ m \in Nat
      /\ (m + c) \div WordBits = n
      /\ (n * WordBits * BlockBits) \div (BlockBits + 1) = m
      /\ (n * WordBits) % (BlockBits + 1) = 0
  <2>1. c \in Nat /\ n \in Nat \ {0}
    OBVIOUS
  <2> QED BY <2>1, Sizes, Zenon
<1> HIDE DEF n, m, sum
<1>len. Len(entropy) = m
  BY <1>1 DEF m
<1>4. bits = entropy \o sum
  BY <1>1 DEF sum
<1>5. bits \in Seq({0, 1}) /\ Len(bits) = m + c
  <2> HIDE DEF bits
  <2>1. entropy \o sum \in Seq({0, 1}) /\ Len(entropy \o sum) = Len(entropy) + Len(sum)
    BY <1>2, ConcatProperties
  <2> QED BY <1>len, <1>2, <1>4, <2>1
<1>6. bits \in [1..n * WordBits -> {0, 1}]
  BY <1>3, <1>5
<1>7. words = WordsFor(bits, n)
  BY <1>3, <1>5, Zenon DEF Encode, WordsFor
<1> HIDE DEF bits, words
<1>8. PhraseBits(words) = bits /\ Len(words) = n /\ \A i \in 1..n : Valid(words[i])
  BY <1>3, <1>6, <1>7, BitsOfWordsFor
<1>9. words \in Seq(Word)
  <2>1. \A i \in 1..n : words[i] \in Word
    BY <1>8, Lookup
  <2>2. words = [i \in 1..n |-> words[i]]
    BY <1>7 DEF WordsFor
  <2> QED BY <1>3, <2>1, <2>2
<1>10. EntropyBits(words) = m
  BY <1>3, <1>8 DEF EntropyBits
<1>11. SubSeq(bits, 1, m) = entropy
  BY <1>len, <1>2, <1>3, <1>4
<1>12. Decode(words) = entropy
  BY <1>8, <1>10, <1>11 DEF Decode
<1>13. SubSeq(bits, m + 1, m + c) = sum
  BY <1>len, <1>2, <1>3, <1>4
<1>14. IsPhraseSize(Len(words))
  BY <1>3, <1>8 DEF IsPhraseSize
<1>15. Len(words) * WordBits = m + c /\ Len(words) * WordBits - EntropyBits(words) = c
  <2>1. (m + c) - m = c
    BY <1>3
  <2> QED BY <1>3, <1>8, <1>10, <2>1
<1>16. Decodes(words)
  BY <1>8, <1>10, <1>12, <1>13, <1>14, <1>15 DEF Decodes, sum
<1> QED BY <1>8, <1>9, <1>12, <1>16 DEF words

\* No two phrases stand for the same bytes: those that a phrase is decoded to
\* are encoded to its words.
THEOREM EncodeUndoesDecode ==
    ASSUME NEW words \in Seq(Word), Decodes(words), EntropyBits(words) \in MinBits..MaxBits
    PROVE  Encodes(Decode(words)) /\ Encode(Decode(words)) = words
<1> DEFINE n == Len(words)
           c == (n * WordBits) \div (BlockBits + 1)
           m == c * BlockBits
           bits == PhraseBits(words)
           entropy == Decode(words)
<1>1. /\ WordBits \in Nat \ {0} /\ BlockBits + 1 = 3 * WordBits /\ BlockBits \in Nat
      /\ BlockBits + 1 \in Nat \ {0} /\ n \in Nat
  BY ListAssumption DEF BlockBits
<1>2. n # 0 /\ (n * WordBits) % (BlockBits + 1) = 0 /\ \A i \in 1..n : Valid(words[i])
  BY DEF Decodes, IsPhraseSize
<1>3. c \in Nat /\ n = 3 * c
  <2>1. PICK t \in Nat : t = n * WordBits
    BY <1>1
  <2>2. t = (t \div (BlockBits + 1)) * (BlockBits + 1) + (t % (BlockBits + 1))
    BY <1>1, Division
  <2>3. t \div (BlockBits + 1) \in Nat
    BY <1>1, Division
  <2>4. c \in Nat /\ n * WordBits = c * (BlockBits + 1) + 0
    BY <1>2, <2>1, <2>2, <2>3
  <2> HIDE DEF c, n
  <2>5. n * WordBits = (3 * c) * WordBits /\ 3 * c \in Nat
    BY <1>1, <2>4
  <2>6. ASSUME NEW a \in Nat, NEW b \in Nat, NEW d \in Nat \ {0}, a * d = b * d PROVE a = b
    BY <2>6
  <2> QED BY <1>1, <2>4, <2>5, <2>6
<1> HIDE DEF c
<1>4. /\ m \in Nat /\ m \div BlockBits = c /\ m % BlockBits = 0
      /\ n * WordBits = m + c /\ (m + c) \div WordBits = n
      /\ (n * WordBits * BlockBits) \div (BlockBits + 1) = m
  <2> HIDE DEF n
  <2> QED BY <1>3, Sizes, Zenon
<1>5. bits \in [1..n * WordBits -> {0, 1}] /\ WordsFor(bits, n) = words
  BY <1>2, WordsForBits
<1>6. EntropyBits(words) = m
  BY <1>4, Zenon DEF EntropyBits
<1>7. entropy = SubSeq(bits, 1, m)
  BY <1>6 DEF Decode
<1>8. SubSeq(bits, m + 1, m + c) = SubSeq(Sha256(entropy), 1, c)
  <2>1. (m + c) - m = c
    BY <1>3, <1>4
  <2> QED BY <1>4, <1>6, <2>1 DEF Decodes
<1> HIDE DEF n, m, bits, entropy
<1>9. bits \in Seq({0, 1}) /\ Len(bits) = m + c
  BY <1>3, <1>4, <1>5
<1>10. entropy \in Seq({0, 1}) /\ Len(entropy) = m
  BY <1>3, <1>4, <1>7, <1>9
<1>11. Encodes(entropy)
  BY <1>4, <1>6, <1>10 DEF Encodes
<1>12. CheckedBits(entropy) = bits
  <2>1. CheckedBits(entropy) = SubSeq(bits, 1, m) \o SubSeq(bits, m + 1, m + c)
    BY <1>4, <1>7, <1>8, <1>10 DEF CheckedBits
  <2>2. 1 \in 1..Len(bits) + 1 /\ m \in 0..Len(bits) /\ m + c \in m..Len(bits) /\ 1 - 1 = 0
    BY <1>3, <1>4, <1>9
  <2>3. SubSeq(bits, 1, m) \o SubSeq(bits, m + 1, m + c) = SubSeq(bits, 1, m + c)
    BY <1>9, <2>2, ConcatAdjacentSubSeq
  <2>4. SubSeq(bits, 1, m + c) = bits
    BY <1>9, SubSeqFull
  <2> QED BY <2>1, <2>3, <2>4
<1>13. Encode(entropy) = WordsFor(bits, n)
  BY <1>4, <1>9, <1>12, Zenon DEF Encode, WordsFor
<1> QED BY <1>5, <1>11, <1>13 DEF entropy

-----------------------------------------------------------------------------
(* Prefixes. *)

\* Words of the list that begin with a prefix.
Beginning(prefix) == {word \in Word : Valid(word) /\ IsPrefix(prefix, word)}

\* Complete returns such words only.
LEMMA Completions ==
    ASSUME NEW prefix
    PROVE  Complete(prefix) \in Seq(Beginning(prefix))
<1> DEFINE S == Seq(Beginning(prefix))
           Longer(list, i) == IF IsPrefix(prefix, List[i]) THEN Append(list, List[i]) ELSE list
           Body(f, i) == IF i = 0 THEN <<>>
                         ELSE IF IsPrefix(prefix, List[i]) THEN Append(f[i - 1], List[i])
                         ELSE f[i - 1]
           Eq(f) == f = [i \in 0..ListSize |-> Body(f, i)]
           F == [p \in S \X (1..ListSize) |-> Longer(p[1], p[2])]
<1>1. ListSize \in Nat /\ \A i \in 1..ListSize : List[i] \in Word /\ Valid(List[i])
  BY ListAssumption DEF IsList, Valid, Contains
<1>2. ASSUME NEW list \in S, NEW i \in 1..ListSize PROVE Longer(list, i) \in S
  <2>1. IsPrefix(prefix, List[i]) => List[i] \in Beginning(prefix)
    BY <1>1 DEF Beginning
  <2> QED BY <2>1
<1>3. F \in [S \X (1..ListSize) -> S]
  <2> HIDE DEF Longer, S
  <2> QED BY <1>2
<1>4. <<>> \in S
  OBVIOUS
<1>5. PICK f \in [0..ListSize -> S] : Recurs(f, ListSize, <<>>, F)
  <2> HIDE DEF F, S
  <2> QED BY <1>1, <1>3, <1>4, Recursion
<1>6. \A i \in 1..ListSize : f[i] = Longer(f[i - 1], i)
  <2> SUFFICES ASSUME NEW i \in 1..ListSize PROVE F[<<f[i - 1], i>>] = Longer(f[i - 1], i)
    BY <1>5 DEF Recurs
  <2>1. f[i - 1] \in S
    BY <1>1
  <2> HIDE DEF Longer, S
  <2> QED BY <2>1
<1>body. ASSUME NEW g
      PROVE  Body(g, 0) = <<>> /\ \A i \in 1..ListSize : Body(g, i) = Longer(g[i - 1], i)
  <2>1. \A i \in 1..ListSize : i # 0
    BY <1>1
  <2> QED BY <2>1, Zenon
<1>7. Eq(f)
  <2>1. f[0] = <<>>
    BY <1>5 DEF Recurs
  <2> HIDE DEF Body, Longer, S, F
  <2>2. \A i \in 0..ListSize : f[i] = Body(f, i)
    BY <1>body, <1>1, <1>6, <2>1
  <2> QED BY <2>2
<1>8. PICK out : out = CHOOSE g : Eq(g)
  OBVIOUS
<1>9. Eq(out)
  <2> HIDE DEF Eq
  <2> QED BY <1>7, <1>8
<1>10. Complete(prefix) = IF prefix = <<>> THEN <<>> ELSE out[ListSize]
  BY <1>8 DEF Complete
<1>11. out[0] = <<>> /\ \A i \in 1..ListSize : out[i] = Longer(out[i - 1], i)
  <2> HIDE DEF Body, Longer
  <2>1. 0 \in 0..ListSize /\ \A i \in 1..ListSize : i \in 0..ListSize
    BY <1>1
  <2>2. \A i \in 0..ListSize : out[i] = Body(out, i)
    BY <1>9
  <2> QED BY <1>body, <2>1, <2>2
<1>12. \A i \in 0..ListSize : out[i] \in S
  <2>1. \A i \in 1..ListSize : out[i - 1] \in S => out[i] \in S
    <3> HIDE DEF Longer, S
    <3> QED BY <1>2, <1>11
  <2>2. out[0] \in S
    BY <1>4, <1>11
  <2> HIDE DEF S
  <2> QED BY <1>1, <2>1, <2>2, ValuesUpTo
<1> QED BY <1>1, <1>4, <1>10, <1>12

\* The shortest prefix that is a word's alone stands for it.
LEMMA ShortestStandsForIt ==
    ASSUME NEW word, Valid(word)
    PROVE  Expansions(Shortest(word)) = <<word>>
<1> DEFINE T == {n \in 1..Len(word) : Expansions(SubSeq(word, 1, n)) = <<word>>}
<1>1. word \in Seq(Letters) /\ Len(word) \in 1..Len(word)
  BY Lookup DEF Word
<1>2. SubSeq(word, 1, Len(word)) = word
  BY <1>1, SubSeqFull
<1>3. Len(word) \in T
  BY <1>1, <1>2 DEF Expansions
<1>4. \E m \in T : \A k \in T : m <= k
  <2>1. T \subseteq Nat /\ T # {}
    BY <1>1, <1>3
  <2> HIDE DEF T
  <2> QED BY <2>1, Least
<1>5. PICK m : m = Min(T)
  OBVIOUS
<1>6. m \in T
  <2> HIDE DEF T
  <2> QED BY <1>4, <1>5 DEF Min
<1> QED BY <1>5, <1>6 DEF Shortest

\* What is read off one screen and typed, as briefly as is allowed, at another
\* is decoded to the same bytes, whatever the bytes (Words!PhraseKept).
THEOREM SpokenPhrase ==
    \A entropy \in Seq({0, 1}) : Encodes(entropy) => PhraseKept(entropy)
<1> SUFFICES ASSUME NEW entropy \in Seq({0, 1}), Encodes(entropy)
             PROVE  PhraseKept(entropy)
  OBVIOUS
<1> DEFINE words == Encode(entropy)
           tokens == [i \in 1..Len(words) |-> Shortest(words[i])]
<1>1. /\ words \in Seq(Word) /\ \A i \in 1..Len(words) : Valid(words[i])
      /\ Decodes(words) /\ Decode(words) = entropy
  BY DecodeUndoesEncode
<1> HIDE DEF words
<1>2. Len(tokens) = Len(words) /\ Len(words) \in Nat
  BY <1>1
<1>3. \A i \in 1..Len(tokens) : Expansions(tokens[i]) = <<words[i]>>
  BY <1>1, <1>2, ShortestStandsForIt
<1>4. Normalizes(tokens) /\ Normalize(tokens) = words
  <2> HIDE DEF tokens
  <2> QED BY <1>1, <1>2, <1>3 DEF Normalizes, Normalize
<1> QED BY <1>1, <1>4 DEF PhraseKept, words
=============================================================================
