-------------------------- MODULE BoardServerProofs --------------------------
(***************************************************************************)
(* Proofs about BoardServer, for any table of commands, whatever its       *)
(* functions do and however their accesses turn out, any number of boards  *)
(* (up to 8), of clients and of commands: a command reaches exactly the    *)
(* boards that its client chose, and if what it says of each board is one  *)
(* whole reply, so is what the client is sent.                             *)
(***************************************************************************)
EXTENDS BoardServer, Induction, SequenceTheorems, FiniteSetTheorems

-----------------------------------------------------------------------------
(* Masks                                                                   *)

\* What a bit is worth in a mask.
Worth(S, b) == IF b \in S THEN 2^b ELSE 0
\* The mask of some of eight boards.
Weight(S) == Worth(S, 0) + Worth(S, 1) + Worth(S, 2) + Worth(S, 3)
             + Worth(S, 4) + Worth(S, 5) + Worth(S, 6) + Worth(S, 7)

(* The bits of a byte. *)
LEMMA Powers ==
  /\ 2^0 = 1 /\ 2^1 = 2 /\ 2^2 = 4 /\ 2^3 = 8
  /\ 2^4 = 16 /\ 2^5 = 32 /\ 2^6 = 64 /\ 2^7 = 128
OBVIOUS

(* The numbers of the boards. *)
LEMMA Places ==
  \A b \in 0 .. 7 : b = 0 \/ b = 1 \/ b = 2 \/ b = 3 \/ b = 4 \/ b = 5 \/ b = 6 \/ b = 7
OBVIOUS

(* A bit as a number. *)
LEMMA PowerType ==
  ASSUME NEW b \in 0 .. 7
  PROVE  2^b \in Nat
<1>1. /\ 2^0 \in Nat /\ 2^1 \in Nat /\ 2^2 \in Nat /\ 2^3 \in Nat
      /\ 2^4 \in Nat /\ 2^5 \in Nat /\ 2^6 \in Nat /\ 2^7 \in Nat
  BY Powers
<1> QED
  BY <1>1, Places, Zenon

(* What a bit is worth is a natural number. *)
LEMMA WorthType ==
  ASSUME NEW S, NEW b \in 0 .. 7
  PROVE  Worth(S, b) \in Nat
<1>1. 2^b \in Nat
  BY PowerType
<1> QED
  BY <1>1 DEF Worth

(* A mask without one of its bits. *)
LEMMA WeightLess ==
  ASSUME NEW S, NEW x \in S, x \in 0 .. 7
  PROVE  Weight(S) = 2^x + Weight(S \ {x})
<1>1. Worth(S, x) = 2^x /\ Worth(S \ {x}, x) = 0
  BY DEF Worth
<1>2. \A b \in 0 .. 7 : b # x => Worth(S \ {x}, b) = Worth(S, b)
  BY DEF Worth
<1>3. \A b \in 0 .. 7 : Worth(S, b) \in Nat /\ Worth(S \ {x}, b) \in Nat
  BY WorthType
<1>4. 2^x \in Nat
  BY PowerType
<1> DEFINE p == 2^x
<1> HIDE DEF p
<1>5. Worth(S, x) = p + Worth(S \ {x}, x) /\ p \in Nat
  BY <1>1, <1>4 DEF p
<1>6. x = 0 \/ x = 1 \/ x = 2 \/ x = 3 \/ x = 4 \/ x = 5 \/ x = 6 \/ x = 7
  BY Places
<1>7. Weight(S) = p + Weight(S \ {x})
  <2>1. CASE x = 0
    BY <1>2, <1>3, <1>5, <2>1 DEF Weight
  <2>2. CASE x = 1
    BY <1>2, <1>3, <1>5, <2>2 DEF Weight
  <2>3. CASE x = 2
    BY <1>2, <1>3, <1>5, <2>3 DEF Weight
  <2>4. CASE x = 3
    BY <1>2, <1>3, <1>5, <2>4 DEF Weight
  <2>5. CASE x = 4
    BY <1>2, <1>3, <1>5, <2>5 DEF Weight
  <2>6. CASE x = 5
    BY <1>2, <1>3, <1>5, <2>6 DEF Weight
  <2>7. CASE x = 6
    BY <1>2, <1>3, <1>5, <2>7 DEF Weight
  <2>8. CASE x = 7
    BY <1>2, <1>3, <1>5, <2>8 DEF Weight
  <2> QED
    BY <1>6, <2>1, <2>2, <2>3, <2>4, <2>5, <2>6, <2>7, <2>8
<1> QED
  BY <1>7 DEF p

(* The sum over the bits is the mask: the recursion takes one bit after the
   other, whichever it chooses. *)
LEMMA FromBitsIsWeight ==
  ASSUME NEW S \in SUBSET (0 .. 7)
  PROVE  FromBits(S) = Weight(S)
<1> DEFINE Step(f, s) == IF s = {} THEN 0
                         ELSE 2^(CHOOSE x \in s : TRUE) + f[s \ {CHOOSE x \in s : TRUE}]
           Sums(f) == f = [s \in SUBSET S |-> Step(f, s)]
           iter == CHOOSE f : Sums(f)
<1>1. FromBits(S) = iter[S]
  BY DEF FromBits, MapThenSumSet, MapThenFoldSet
<1>2. Sums(iter)
  <2> DEFINE f == [s \in SUBSET S |-> Weight(s)]
  <2>1. ASSUME NEW s \in SUBSET S
        PROVE  f[s] = Step(f, s)
    <3>1. CASE s = {}
      <4>1. \A b \in 0 .. 7 : Worth(s, b) = 0
        BY <3>1 DEF Worth
      <4>2. Weight(s) = 0
        BY <4>1 DEF Weight
      <4> QED
        BY <3>1, <4>2
    <3>2. CASE s # {}
      <4> DEFINE x == CHOOSE y \in s : TRUE
      <4>1. x \in s
        BY <3>2
      <4> HIDE DEF x
      <4>2. x \in 0 .. 7 /\ s \ {x} \in SUBSET S
        BY <4>1
      <4>3. Weight(s) = 2^x + Weight(s \ {x})
        BY <4>1, <4>2, WeightLess
      <4>4. f[s] = 2^x + f[s \ {x}]
        BY <4>2, <4>3, Zenon
      <4> QED
        BY <3>2, <4>4, Zenon DEF x
    <3> QED
      BY <3>1, <3>2
  <2>2. Sums(f)
    BY <2>1, Zenon
  <2> QED
    BY <2>2, Zenon
<1> HIDE DEF iter
<1> DEFINE Same == {n \in Nat : \A s \in SUBSET S : Cardinality(s) = n => iter[s] = Weight(s)}
<1>3. IsFiniteSet(S)
  <2>1. 0 \in Int /\ 7 \in Int
    OBVIOUS
  <2>2. IsFiniteSet(0 .. 7)
    BY <2>1, FS_Interval
  <2> QED
    BY <2>2, FS_Subset
<1>4. \A s \in SUBSET S : IsFiniteSet(s) /\ Cardinality(s) \in Nat
  BY <1>3, FS_Subset, FS_CardinalityType
<1>5. 0 \in Same
  <2>1. ASSUME NEW s \in SUBSET S, Cardinality(s) = 0
        PROVE  iter[s] = Weight(s)
    <3>1. s = {}
      BY <1>4, <2>1, FS_EmptySet
    <3>2. iter[s] = 0
      BY <1>2, <3>1, Zenon
    <3>3. \A b \in 0 .. 7 : Worth(s, b) = 0
      BY <3>1 DEF Worth
    <3>4. Weight(s) = 0
      BY <3>3 DEF Weight
    <3> QED
      BY <3>2, <3>4
  <2>2. 0 \in Nat
    OBVIOUS
  <2> QED
    BY <2>1, <2>2, Zenon
<1>6. ASSUME NEW n \in Nat, n \in Same
      PROVE  n + 1 \in Same
  <2>1. ASSUME NEW s \in SUBSET S, Cardinality(s) = n + 1
        PROVE  iter[s] = Weight(s)
    <3> DEFINE x == CHOOSE y \in s : TRUE
    <3>1. s # {}
      BY <1>4, <2>1, FS_EmptySet
    <3>2. x \in s
      BY <3>1
    <3>3. iter[s] = 2^x + iter[s \ {x}]
      BY <1>2, <3>1, Zenon
    <3> HIDE DEF x
    <3>4. x \in 0 .. 7 /\ s \ {x} \in SUBSET S
      BY <3>2
    <3>5. Cardinality(s \ {x}) = n
      BY <1>4, <2>1, <3>2, FS_RemoveElement
    <3>6. iter[s \ {x}] = Weight(s \ {x})
      BY <1>6, <3>4, <3>5, Zenon
    <3>7. Weight(s) = 2^x + Weight(s \ {x})
      BY <3>2, <3>4, WeightLess
    <3> QED
      BY <3>3, <3>6, <3>7, Zenon
  <2>2. n + 1 \in Nat
    OBVIOUS
  <2> QED
    BY <2>1, <2>2, Zenon
<1>7. Cardinality(S) \in Same
  <2> HIDE DEF Same
  <2>1. Nat \subseteq Same
    BY <1>5, <1>6, NaturalsInSet
  <2>2. S \in SUBSET S
    OBVIOUS
  <2> QED
    BY <1>4, <2>1, <2>2
<1>8. iter[S] = Weight(S)
  BY <1>7, Zenon
<1> QED
  BY <1>1, <1>8

(* A mask has the bits it was made of, and is 0 only if it has none. *)
LEMMA BitsOfMask ==
  ASSUME NEW S \in SUBSET (0 .. 7)
  PROVE  /\ FromBits(S) \in Nat
         /\ \A b \in 0 .. 7 : Bit(FromBits(S), b) <=> b \in S
         /\ FromBits(S) = 0 <=> S = {}
<1> DEFINE d(b) == IF b \in S THEN 1 ELSE 0
           w == FromBits(S)
<1>1. \A b \in 0 .. 7 : d(b) \in {0, 1} /\ (d(b) = 1 <=> b \in S)
  OBVIOUS
<1>2. \A b \in 0 .. 7 : Worth(S, b) = d(b) * 2^b
  <2>1. \A b \in 0 .. 7 : 2^b \in Int
    BY PowerType
  <2> QED
    BY <2>1 DEF Worth
<1>3. w = Weight(S)
  BY FromBitsIsWeight
<1> HIDE DEF d, w
<1>4. PICK d0, d1, d2, d3, d4, d5, d6, d7 \in {0, 1} :
        /\ d(0) = d0 /\ d(1) = d1 /\ d(2) = d2 /\ d(3) = d3
        /\ d(4) = d4 /\ d(5) = d5 /\ d(6) = d6 /\ d(7) = d7
  BY <1>1
<1>5. w = d0 + 2 * d1 + 4 * d2 + 8 * d3 + 16 * d4 + 32 * d5 + 64 * d6 + 128 * d7
  BY <1>2, <1>3, <1>4, Powers DEF Weight
<1>6. w \in Nat
  BY <1>5
<1>7. /\ (w \div 1) % 2 = d0 /\ (w \div 2) % 2 = d1
      /\ (w \div 4) % 2 = d2 /\ (w \div 8) % 2 = d3
      /\ (w \div 16) % 2 = d4 /\ (w \div 32) % 2 = d5
      /\ (w \div 64) % 2 = d6 /\ (w \div 128) % 2 = d7
  BY <1>5
<1>8. \A b \in 0 .. 7 : Bit(w, b) <=> d(b) = 1
  <2> SUFFICES ASSUME NEW b \in 0 .. 7
               PROVE  Bit(w, b) <=> d(b) = 1
    OBVIOUS
  <2>1. /\ (Bit(w, 0) <=> d0 = 1) /\ (Bit(w, 1) <=> d1 = 1)
        /\ (Bit(w, 2) <=> d2 = 1) /\ (Bit(w, 3) <=> d3 = 1)
        /\ (Bit(w, 4) <=> d4 = 1) /\ (Bit(w, 5) <=> d5 = 1)
        /\ (Bit(w, 6) <=> d6 = 1) /\ (Bit(w, 7) <=> d7 = 1)
    BY <1>7, Powers DEF Bit
  <2> QED
    BY <1>4, <2>1, Places, SMTT(30)
<1>9. w = 0 <=> \A b \in 0 .. 7 : d(b) = 0
  <2>1. w = 0 <=> d0 = 0 /\ d1 = 0 /\ d2 = 0 /\ d3 = 0 /\ d4 = 0 /\ d5 = 0 /\ d6 = 0 /\ d7 = 0
    BY <1>5
  <2> QED
    BY <1>4, <2>1, Places
<1>10. (\A b \in 0 .. 7 : d(b) = 0) <=> S = {}
  BY <1>1
<1> QED
  BY <1>1, <1>6, <1>8, <1>9, <1>10 DEF w

-----------------------------------------------------------------------------
(* Boards in their order, and what they say one after the other            *)

(* As many members of a set are below one of its members as one likes, up to
   its size: the boards can be put in their order. *)
LEMMA RankExists ==
  ASSUME NEW S \in SUBSET Int, IsFiniteSet(S), NEW k \in 1 .. Cardinality(S)
  PROVE  \E i \in S : Cardinality({j \in S : j < i}) = k - 1
<1> DEFINE Under(i) == {j \in S : j < i}
           n == Cardinality(S)
           f == [i \in S |-> Cardinality(Under(i))]
<1>1. n \in Nat /\ \A i : IsFiniteSet(Under(i)) /\ Cardinality(Under(i)) \in Nat
  <2>1. \A i : Under(i) \in SUBSET S
    OBVIOUS
  <2> QED
    BY <2>1, FS_Subset, FS_CardinalityType
<1>2. ASSUME NEW i \in S
      PROVE  Cardinality(Under(i)) < n
  <2>1. Under(i) \in SUBSET S /\ i \notin Under(i)
    OBVIOUS
  <2>2. Cardinality(Under(i)) <= n /\ Cardinality(Under(i)) # n
    BY <1>2, <2>1, FS_Subset
  <2> HIDE DEF Under, n
  <2> QED
    BY <1>1, <2>2
<1>3. ASSUME NEW i \in S, NEW j \in S, i < j
      PROVE  Cardinality(Under(i)) # Cardinality(Under(j))
  <2>1. i \in Int /\ j \in Int /\ S \subseteq Int
    OBVIOUS
  <2>2. i \in Under(j) /\ i \notin Under(i)
    BY <1>3, <2>1
  <2>3. Under(i) \in SUBSET Under(j)
    <3>1. ASSUME NEW l \in S, l < i
          PROVE  l < j
      BY <1>3, <2>1, <3>1
    <3> QED
      BY <3>1
  <2> HIDE DEF Under
  <2> QED
    BY <1>1, <2>2, <2>3, FS_Subset
<1> HIDE DEF Under, n
<1>4. f \in [S -> 0 .. n - 1]
  BY <1>1, <1>2
<1>5. \A i, j \in S : f[i] = f[j] => i = j
  <2> SUFFICES ASSUME NEW i \in S, NEW j \in S, f[i] = f[j]
               PROVE  i = j
    OBVIOUS
  <2>1. i \in Int /\ j \in Int
    OBVIOUS
  <2> QED
    BY <1>3, <2>1
<1>6. f \in Injection(S, 0 .. n - 1)
  BY <1>4, <1>5 DEF Injection, IsInjective
<1>7. IsFiniteSet(0 .. n - 1) /\ Cardinality(0 .. n - 1) = n
  <2>1. 0 \in Int /\ n - 1 \in Int
    BY <1>1
  <2> QED
    BY <1>1, <2>1, FS_Interval
<1>8. f \in Surjection(S, 0 .. n - 1)
  <2>1. Cardinality(S) = Cardinality(0 .. n - 1)
    BY <1>7 DEF n
  <2> HIDE DEF f
  <2> QED
    BY <1>6, <1>7, <2>1, FS_Injection, Zenon
<1>9. k - 1 \in 0 .. n - 1
  <2>1. k \in 1 .. n
    BY DEF n
  <2> QED
    BY <1>1, <2>1
<1>10. \E i \in S : f[i] = k - 1
  BY <1>8, <1>9 DEF Surjection
<1> QED
  BY <1>10 DEF Under

(* The boards in their order. *)
LEMMA OrderOfBoards ==
  ASSUME NEW S \in SUBSET Int, IsFiniteSet(S)
  PROVE  /\ InOrder(S) \in Seq(S) /\ Len(InOrder(S)) = Cardinality(S)
<1>1. Cardinality(S) \in Nat
  BY FS_CardinalityType
<1>2. ASSUME NEW k \in 1 .. Cardinality(S)
      PROVE  (CHOOSE i \in S : Cardinality({j \in S : j < i}) = k - 1) \in S
  BY RankExists
<1> DEFINE n == Cardinality(S)
<1>3. InOrder(S) \in [1 .. n -> S]
  BY <1>2 DEF InOrder
<1> HIDE DEF n
<1> QED
  <2>1. n \in Nat
    BY <1>1 DEF n
  <2> QED
    BY <1>3, <2>1 DEF n

(* Sequences are put together one after the other. *)
LEMMA Flattened ==
  ASSUME NEW R, NEW seqs \in Seq(Seq(R)), Len(seqs) # 0
  PROVE  \E f : /\ \A i \in 1 .. Len(seqs) :
                     /\ f[i] = IF i = 1 THEN seqs[i] ELSE f[i - 1] \o seqs[i]
                     /\ f[i] \in Seq(R)
                /\ FlattenSeq(seqs) = f[Len(seqs)]
<1> DEFINE n == Len(seqs)
           Step(f, i) == IF i = 1 THEN seqs[i] ELSE f[i - 1] \o seqs[i]
           Steps(f, k) == f = [i \in 1 .. k |-> Step(f, i)]
           Has == {k \in Nat : k <= n => \E f : Steps(f, k) /\ \A i \in 1 .. k : f[i] \in Seq(R)}
           flatten == CHOOSE f : Steps(f, n)
<1>1. FlattenSeq(seqs) = flatten[n]
  BY DEF FlattenSeq
<1>2. n \in Nat /\ n # 0 /\ \A i \in 1 .. n : seqs[i] \in Seq(R)
  OBVIOUS
<1> HIDE DEF n
<1>3. 0 \in Has
  <2>1. 0 \in Nat /\ 1 .. 0 = {}
    OBVIOUS
  <2>2. Steps([i \in 1 .. 0 |-> R], 0)
    BY <2>1
  <2> QED
    BY <2>1, <2>2
<1>4. ASSUME NEW k \in Nat, k \in Has
      PROVE  k + 1 \in Has
  <2>0. k + 1 \in Nat
    OBVIOUS
  <2> SUFFICES ASSUME k + 1 <= n
               PROVE  \E f : Steps(f, k + 1) /\ \A i \in 1 .. k + 1 : f[i] \in Seq(R)
    BY <2>0, Zenon
  <2>1. k <= n /\ k + 1 \in 1 .. n /\ k + 1 \notin 1 .. k
    BY <1>2
  <2>2. PICK f : Steps(f, k) /\ \A i \in 1 .. k : f[i] \in Seq(R)
    BY <1>4, <2>1
  <2> DEFINE last_ == IF k + 1 = 1 THEN seqs[k + 1] ELSE f[k] \o seqs[k + 1]
             h == [i \in 1 .. k + 1 |-> IF i = k + 1 THEN last_ ELSE f[i]]
  <2>3. last_ \in Seq(R)
    <3>1. seqs[k + 1] \in Seq(R)
      BY <1>2, <2>1
    <3>2. k + 1 # 1 => f[k] \in Seq(R)
      BY <2>2
    <3> QED
      BY <3>1, <3>2
  <2>4. ASSUME NEW i \in 1 .. k + 1
        PROVE  h[i] = Step(h, i) /\ h[i] \in Seq(R)
    <3>1. CASE i = k + 1
      <4>1. k + 1 # 1 => (k + 1) - 1 = k /\ k \in 1 .. k + 1 /\ k # k + 1
        OBVIOUS
      <4>2. k + 1 # 1 => h[(k + 1) - 1] = f[k]
        BY <4>1, Zenon
      <4>3. h[k + 1] = last_
        BY <3>1, Zenon
      <4> HIDE DEF h
      <4> QED
        BY <2>3, <3>1, <4>2, <4>3, Zenon
    <3>2. CASE i # k + 1
      <4>1. /\ i \in 1 .. k
            /\ i # 1 => i - 1 \in 1 .. k + 1 /\ i - 1 # k + 1
        BY <3>2
      <4>2. h[i] = f[i] /\ f[i] \in Seq(R) /\ f[i] = Step(f, i)
        BY <2>2, <3>2, <4>1, Zenon
      <4>3. i # 1 => h[i - 1] = f[i - 1]
        BY <4>1, Zenon
      <4> HIDE DEF h
      <4> QED
        BY <4>2, <4>3, Zenon
    <3> QED
      BY <3>1, <3>2
  <2>5. Steps(h, k + 1) /\ \A i \in 1 .. k + 1 : h[i] \in Seq(R)
    BY <2>4, Zenon
  <2> QED
    BY <2>5, Zenon
<1>5. n \in Has
  <2> HIDE DEF Has
  <2> QED
    BY <1>2, <1>3, <1>4, NaturalsInSet
<1>6. PICK f : Steps(f, n) /\ \A i \in 1 .. n : f[i] \in Seq(R)
  <2>1. n <= n
    BY <1>2
  <2> QED
    BY <1>5, <2>1, Zenon
<1>7. Steps(flatten, n)
  BY <1>6, Zenon
<1> HIDE DEF flatten
<1> DEFINE Good == {k \in Nat : k \in 1 .. n => flatten[k] \in Seq(R)}
<1>8. 0 \in Good
  OBVIOUS
<1>9. ASSUME NEW k \in Nat, k \in Good
      PROVE  k + 1 \in Good
  <2> SUFFICES ASSUME k + 1 \in 1 .. n
               PROVE  flatten[k + 1] \in Seq(R)
    OBVIOUS
  <2>1. flatten[k + 1] = Step(flatten, k + 1)
    BY <1>7, Zenon
  <2>2. seqs[k + 1] \in Seq(R)
    BY <1>2
  <2>3. k + 1 # 1 => (k + 1) - 1 = k /\ flatten[k] \in Seq(R)
    BY <1>2, <1>9
  <2>4. k + 1 # 1 => flatten[(k + 1) - 1] \o seqs[k + 1] \in Seq(R)
    BY <2>2, <2>3
  <2> QED
    BY <2>1, <2>2, <2>4, Zenon
<1>10. Nat \subseteq Good
  <2> HIDE DEF Good
  <2> QED
    BY <1>8, <1>9, NaturalsInSet
<1> DEFINE whole == [k \in 1 .. n |-> flatten[k]]
<1>11. ASSUME NEW i \in 1 .. n
       PROVE  /\ whole[i] = IF i = 1 THEN seqs[i] ELSE whole[i - 1] \o seqs[i]
              /\ whole[i] \in Seq(R)
  <2>1. i \in Nat /\ (i # 1 => i - 1 \in 1 .. n)
    BY <1>2
  <2>2. flatten[i] = Step(flatten, i) /\ flatten[i] \in Seq(R)
    BY <1>7, <1>10, <2>1, Zenon
  <2>3. whole[i] = flatten[i] /\ (i # 1 => whole[i - 1] = flatten[i - 1])
    BY <2>1, Zenon
  <2> HIDE DEF whole
  <2> QED
    BY <2>2, <2>3, Zenon
<1>12. whole[n] = flatten[n]
  <2>1. n \in 1 .. n
    BY <1>2
  <2> QED
    BY <2>1, Zenon
<1> HIDE DEF whole
<1> QED
  BY <1>1, <1>11, <1>12 DEF n

(* Sequences put together are a sequence. *)
LEMMA FlattenedIsSeq ==
  ASSUME NEW R, NEW seqs \in Seq(Seq(R))
  PROVE  FlattenSeq(seqs) \in Seq(R) /\ (Len(seqs) = 0 => FlattenSeq(seqs) = << >>)
<1>1. Len(seqs) \in Nat
  OBVIOUS
<1>2. CASE Len(seqs) = 0
  <2>1. seqs = << >>
    BY <1>2
  <2>2. FlattenSeq(seqs) = seqs
    BY <1>2 DEF FlattenSeq
  <2>3. << >> \in Seq(R)
    OBVIOUS
  <2> QED
    BY <2>1, <2>2, <2>3, Zenon
<1>3. CASE Len(seqs) # 0
  <2>1. PICK f : /\ \A i \in 1 .. Len(seqs) : f[i] \in Seq(R)
                 /\ FlattenSeq(seqs) = f[Len(seqs)]
    BY <1>3, Flattened
  <2>2. Len(seqs) \in 1 .. Len(seqs)
    BY <1>1, <1>3
  <2> QED
    BY <1>3, <2>1, <2>2, Zenon
<1> QED
  BY <1>2, <1>3

-----------------------------------------------------------------------------
(* Whole replies                                                           *)

\* What is said: replies of the protocol, token after token.
Tokens == Token \X Int

(* What a token announces is a number. *)
LEMMA AnnouncedType ==
  ASSUME NEW t \in Tokens
  PROVE  Announced(t) \in Int
BY DEF Tokens, Announced

(* The replies that are still to come, token after token. *)
LEMMA MissingReplies ==
  ASSUME NEW R, NEW out \in Seq(R), \A k \in 1 .. Len(out) : Announced(out[k]) \in Int
  PROVE  /\ Missing(out)[0] = 1
         /\ \A k \in 1 .. Len(out) :
              Missing(out)[k] = Missing(out)[k - 1] - 1 + Announced(out[k])
         /\ \A k \in 0 .. Len(out) : Missing(out)[k] \in Int
<1> DEFINE n == Len(out)
           Step(f, k) == IF k = 0 THEN 1 ELSE f[k - 1] - 1 + Announced(out[k])
           Steps(f, j) == f = [k \in 0 .. j |-> Step(f, k)]
           Has == {j \in Nat : \E f : Steps(f, j)}
           m == CHOOSE f : Steps(f, n)
<1>1. Missing(out) = m
  BY DEF Missing
<1>2. n \in Nat /\ \A k \in 1 .. n : Announced(out[k]) \in Int
  OBVIOUS
<1>3. 0 \in Has
  <2>1. 0 \in Nat /\ \A k \in 0 .. 0 : k = 0
    OBVIOUS
  <2>2. Steps([k \in 0 .. 0 |-> 1], 0)
    BY <2>1
  <2> QED
    BY <2>1, <2>2
<1>4. ASSUME NEW j \in Nat, j \in Has
      PROVE  j + 1 \in Has
  <2>1. PICK f : Steps(f, j)
    BY <1>4
  <2> DEFINE next == f[j] - 1 + Announced(out[j + 1])
             h == [k \in 0 .. j + 1 |-> IF k = j + 1 THEN next ELSE f[k]]
  <2>2. ASSUME NEW k \in 0 .. j + 1
        PROVE  h[k] = Step(h, k)
    <3>1. CASE k = j + 1
      <4>1. j + 1 # 0 /\ (j + 1) - 1 = j /\ j \in 0 .. j + 1 /\ j # j + 1
        OBVIOUS
      <4>2. h[(j + 1) - 1] = f[j] /\ h[j + 1] = next
        BY <3>1, <4>1, Zenon
      <4> HIDE DEF h
      <4> QED
        BY <3>1, <4>1, <4>2, Zenon
    <3>2. CASE k # j + 1
      <4>1. /\ k \in 0 .. j
            /\ k # 0 => k - 1 \in 0 .. j + 1 /\ k - 1 # j + 1
        BY <3>2
      <4>2. h[k] = f[k] /\ f[k] = Step(f, k)
        BY <2>1, <3>2, <4>1, Zenon
      <4>3. k # 0 => h[k - 1] = f[k - 1]
        BY <4>1, Zenon
      <4> HIDE DEF h
      <4> QED
        BY <4>2, <4>3, Zenon
    <3> QED
      BY <3>1, <3>2
  <2>3. Steps(h, j + 1)
    BY <2>2, Zenon
  <2>4. j + 1 \in Nat
    OBVIOUS
  <2> QED
    BY <2>3, <2>4, Zenon
<1> HIDE DEF n
<1>5. Steps(m, n)
  <2>1. n \in Has
    <3> HIDE DEF Has
    <3> QED
      BY <1>2, <1>3, <1>4, NaturalsInSet
  <2> QED
    BY <2>1, Zenon
<1> HIDE DEF m
<1>6. m[0] = 1
  <2>1. 0 \in 0 .. n
    BY <1>2
  <2> QED
    BY <1>5, <2>1, Zenon
<1>7. \A k \in 1 .. n : m[k] = m[k - 1] - 1 + Announced(out[k])
  <2>1. \A k \in 1 .. n : k \in 0 .. n /\ k # 0
    BY <1>2
  <2> QED
    BY <1>5, <2>1, Zenon
<1> DEFINE Counted == {k \in Nat : k <= n => m[k] \in Int}
<1>8. 0 \in Counted
  BY <1>6
<1>9. ASSUME NEW k \in Nat, k \in Counted
      PROVE  k + 1 \in Counted
  <2> SUFFICES ASSUME k + 1 <= n
               PROVE  m[k + 1] \in Int
    OBVIOUS
  <2>1. k + 1 \in 1 .. n /\ (k + 1) - 1 = k /\ m[k] \in Int
    BY <1>2, <1>9
  <2>2. m[k + 1] = m[k] - 1 + Announced(out[k + 1])
    BY <1>7, <2>1
  <2> QED
    BY <1>2, <2>1, <2>2
<1>10. \A k \in 0 .. n : m[k] \in Int
  <2>1. Nat \subseteq Counted
    <3> HIDE DEF Counted
    <3> QED
      BY <1>8, <1>9, NaturalsInSet
  <2> QED
    BY <1>2, <2>1
<1> QED
  BY <1>1, <1>6, <1>7, <1>10 DEF n

(* The same for tokens of the protocol. *)
LEMMA MissingTokens ==
  ASSUME NEW out \in Seq(Tokens)
  PROVE  /\ Missing(out)[0] = 1
         /\ \A k \in 1 .. Len(out) :
              Missing(out)[k] = Missing(out)[k - 1] - 1 + Announced(out[k])
         /\ \A k \in 0 .. Len(out) : Missing(out)[k] \in Int
<1>1. \A k \in 1 .. Len(out) : out[k] \in Tokens
  OBVIOUS
<1>2. \A k \in 1 .. Len(out) : Announced(out[k]) \in Int
  BY <1>1, AnnouncedType
<1> QED
  BY <1>2, MissingReplies

(* What is still to come in the middle of two texts, put together. *)
LEMMA MissingTogether ==
  ASSUME NEW a \in Seq(Tokens), NEW b \in Seq(Tokens)
  PROVE  /\ a \o b \in Seq(Tokens) /\ Len(a \o b) = Len(a) + Len(b)
         /\ \A k \in 0 .. Len(a) : Missing(a \o b)[k] = Missing(a)[k]
         /\ \A k \in 0 .. Len(b) :
              Missing(a \o b)[Len(a) + k] = Missing(a)[Len(a)] + Missing(b)[k] - 1
<1> DEFINE l == Len(a)
           n == Len(b)
           c == a \o b
           A == Missing(a)
           B == Missing(b)
           C == Missing(c)
<1>1. /\ l \in Nat /\ n \in Nat /\ c \in Seq(Tokens) /\ Len(c) = l + n
      /\ \A k \in 1 .. l : c[k] = a[k]
      /\ \A k \in 1 .. n : c[l + k] = b[k]
  OBVIOUS
<1>2. /\ A[0] = 1 /\ B[0] = 1 /\ C[0] = 1
      /\ \A k \in 1 .. l : A[k] = A[k - 1] - 1 + Announced(a[k])
      /\ \A k \in 1 .. n : B[k] = B[k - 1] - 1 + Announced(b[k])
      /\ \A k \in 1 .. l + n : C[k] = C[k - 1] - 1 + Announced(c[k])
      /\ \A k \in 0 .. l : A[k] \in Int
      /\ \A k \in 0 .. n : B[k] \in Int
  BY <1>1, MissingTokens
<1>3. \A k \in 1 .. n : Announced(b[k]) \in Int
  BY AnnouncedType
<1> HIDE DEF l, n, c, A, B, C
<1> DEFINE First == {k \in Nat : k <= l => C[k] = A[k]}
           Second == {k \in Nat : k <= n => C[l + k] = A[l] + B[k] - 1}
<1>4. 0 \in First
  BY <1>2
<1>5. ASSUME NEW k \in Nat, k \in First
      PROVE  k + 1 \in First
  <2> SUFFICES ASSUME k + 1 <= l
               PROVE  C[k + 1] = A[k + 1]
    OBVIOUS
  <2>1. k + 1 \in 1 .. l /\ k + 1 \in 1 .. l + n /\ (k + 1) - 1 = k /\ C[k] = A[k]
    BY <1>1, <1>5
  <2>2. C[k + 1] = C[k] - 1 + Announced(c[k + 1])
    BY <1>2, <2>1, Zenon
  <2>3. A[k + 1] = A[k] - 1 + Announced(a[k + 1])
    BY <1>2, <2>1, Zenon
  <2>4. c[k + 1] = a[k + 1]
    BY <1>1, <2>1, Zenon
  <2> QED
    BY <2>1, <2>2, <2>3, <2>4, Zenon
<1>6. \A k \in 0 .. l : C[k] = A[k]
  <2>1. Nat \subseteq First
    <3> HIDE DEF First
    <3> QED
      BY <1>4, <1>5, NaturalsInSet
  <2> QED
    BY <1>1, <2>1
<1>7. 0 \in Second
  <2>1. l \in 0 .. l /\ l + 0 = l
    BY <1>1
  <2>2. C[l] = A[l] /\ A[l] \in Int
    BY <1>2, <1>6, <2>1
  <2> QED
    BY <1>2, <2>1, <2>2
<1>8. ASSUME NEW k \in Nat, k \in Second
      PROVE  k + 1 \in Second
  <2> SUFFICES ASSUME k + 1 <= n
               PROVE  C[l + (k + 1)] = A[l] + B[k + 1] - 1
    OBVIOUS
  <2>1. /\ k + 1 \in 1 .. n /\ l + (k + 1) \in 1 .. l + n
        /\ (k + 1) - 1 = k /\ (l + (k + 1)) - 1 = l + k
        /\ C[l + k] = A[l] + B[k] - 1 /\ k \in 0 .. n /\ l \in 0 .. l
    BY <1>1, <1>8
  <2>2. C[l + (k + 1)] = C[l + k] - 1 + Announced(c[l + (k + 1)])
    BY <1>2, <2>1, Zenon
  <2>3. B[k + 1] = B[k] - 1 + Announced(b[k + 1])
    BY <1>2, <2>1, Zenon
  <2>4. c[l + (k + 1)] = b[k + 1]
    BY <1>1, <2>1, Zenon
  <2>5. Announced(b[k + 1]) \in Int /\ A[l] \in Int /\ B[k] \in Int
    BY <1>2, <1>3, <2>1
  <2>6. \A p, q, r \in Int : (p + q - 1) - 1 + r = p + (q - 1 + r) - 1
    OBVIOUS
  <2>7. C[l + (k + 1)] = (A[l] + B[k] - 1) - 1 + Announced(b[k + 1])
    BY <2>1, <2>2, <2>4, Zenon
  <2>8. C[l + (k + 1)] = A[l] + (B[k] - 1 + Announced(b[k + 1])) - 1
    BY <2>5, <2>6, <2>7, Zenon
  <2> QED
    BY <2>3, <2>8, Zenon
<1>9. \A k \in 0 .. n : C[l + k] = A[l] + B[k] - 1
  <2>1. Nat \subseteq Second
    <3> HIDE DEF Second
    <3> QED
      BY <1>7, <1>8, NaturalsInSet
  <2> QED
    BY <1>1, <2>1
<1> QED
  BY <1>1, <1>6, <1>9 DEF l, n, c, A, B, C

\* So many whole replies, and nothing else.
AreReplies(out, count_) ==
  /\ Missing(out)[Len(out)] = 1 - count_
  /\ \A k \in 0 .. Len(out) - 1 : Missing(out)[k] > 1 - count_

(* One reply is a whole one. *)
LEMMA OneReply ==
  ASSUME NEW out
  PROVE  Whole(out) <=> AreReplies(out, 1)
BY DEF Whole, AreReplies

(* Another whole reply makes one more. *)
LEMMA OneMoreReply ==
  ASSUME NEW a \in Seq(Tokens), NEW b \in Seq(Tokens), NEW j \in Nat,
         AreReplies(a, j), Whole(b)
  PROVE  a \o b \in Seq(Tokens) /\ AreReplies(a \o b, j + 1)
<1> DEFINE l == Len(a)
           n == Len(b)
           A == Missing(a)
           B == Missing(b)
           C == Missing(a \o b)
<1>1. /\ l \in Nat /\ n \in Nat /\ a \o b \in Seq(Tokens) /\ Len(a \o b) = l + n
      /\ \A k \in 0 .. l : C[k] = A[k]
      /\ \A k \in 0 .. n : C[l + k] = A[l] + B[k] - 1
  BY MissingTogether
<1>2. /\ \A k \in 0 .. l : A[k] \in Int
      /\ \A k \in 0 .. n : B[k] \in Int
  BY MissingTokens
<1>3. /\ A[l] = 1 - j /\ \A k \in 0 .. l - 1 : A[k] > 1 - j
      /\ B[n] = 0 /\ \A k \in 0 .. n - 1 : B[k] > 0
  BY DEF AreReplies, Whole
<1> HIDE DEF l, n, A, B, C
<1>4. C[l + n] = 1 - (j + 1)
  <2>1. C[l + n] = A[l] + B[n] - 1
    BY <1>1
  <2> QED
    BY <1>3, <2>1
<1>5. ASSUME NEW k \in 0 .. (l + n) - 1
      PROVE  C[k] > 1 - (j + 1)
  <2>1. CASE k < l
    <3>1. k \in 0 .. l /\ k \in 0 .. l - 1
      BY <1>1, <2>1
    <3>2. C[k] = A[k] /\ A[k] \in Int /\ A[k] > 1 - j
      BY <1>1, <1>2, <1>3, <3>1, Zenon
    <3> QED
      BY <3>2
  <2>2. CASE ~ (k < l)
    <3>1. /\ k - l \in 0 .. n /\ k - l \in 0 .. n - 1
          /\ l + (k - l) = k
      BY <1>1, <2>2
    <3>2. C[k] = A[l] + B[k - l] - 1
      BY <1>1, <3>1
    <3>3. B[k - l] > 0 /\ B[k - l] \in Int
      BY <1>2, <1>3, <3>1
    <3> QED
      BY <1>3, <3>2, <3>3
  <2> QED
    BY <2>1, <2>2
<1> QED
  BY <1>1, <1>4, <1>5 DEF AreReplies, C

(* Nothing is no reply. *)
LEMMA NoReply == << >> \in Seq(Tokens) /\ AreReplies(<< >>, 0)
<1>1. << >> \in Seq(Tokens) /\ Len(<< >>) = 0
  OBVIOUS
<1>2. Missing(<< >>)[0] = 1
  BY <1>1, MissingTokens
<1> QED
  BY <1>1, <1>2 DEF AreReplies

(* A token that announces nothing is a reply. *)
LEMMA SingleReply ==
  ASSUME NEW t, t[1] # "array"
  PROVE  Whole(<<t>>)
<1> DEFINE out == <<t>>
<1>1. out \in Seq({t}) /\ Len(out) = 1 /\ out[1] = t
  OBVIOUS
<1>2. Announced(t) = 0
  BY DEF Announced
<1> HIDE DEF out
<1>3. /\ Missing(out)[0] = 1
      /\ \A k \in 1 .. 1 : Missing(out)[k] = Missing(out)[k - 1] - 1 + Announced(out[k])
  <2>1. \A k \in 1 .. Len(out) : Announced(out[k]) \in Int
    BY <1>1, <1>2
  <2> QED
    BY <1>1, <2>1, MissingReplies
<1>4. Missing(out)[1] = 0
  <2>1. 1 \in 1 .. 1 /\ 1 - 1 = 0
    OBVIOUS
  <2>2. Missing(out)[1] = Missing(out)[1 - 1] - 1 + Announced(out[1])
    BY <1>3, <2>1, Zenon
  <2> QED
    BY <1>1, <1>2, <1>3, <2>1, <2>2
<1>5. \A k \in 0 .. 1 - 1 : k = 0
  OBVIOUS
<1>6. Whole(out)
  BY <1>1, <1>3, <1>4, <1>5 DEF Whole
<1> QED
  BY <1>6 DEF out

(* The head of an array, with as many replies as it announces, is a reply. *)
LEMMA ArrayReply ==
  ASSUME NEW n \in Nat, NEW out \in Seq(Tokens), AreReplies(out, n)
  PROVE  Whole(<<<<"array", n>>>> \o out)
<1> DEFINE t == <<"array", n>>
           a == <<t>>
           l == Len(out)
           B == Missing(out)
           C == Missing(a \o out)
<1>1. t \in Tokens /\ t[1] = "array" /\ t[2] = n
  BY DEF Tokens, Token
<1>2. Announced(t) = n
  BY <1>1 DEF Announced
<1> HIDE DEF t
<1>3. a \in Seq(Tokens) /\ Len(a) = 1 /\ a[1] = t
  BY <1>1
<1>4. Missing(a)[0] = 1 /\ Missing(a)[1] = n
  <2>1. Missing(a)[0] = 1
    BY <1>3, MissingTokens
  <2>2. 1 \in 1 .. Len(a) /\ 1 - 1 = 0
    BY <1>3
  <2>3. Missing(a)[1] = Missing(a)[1 - 1] - 1 + Announced(a[1])
    BY <1>3, <2>2, MissingTokens, Zenon
  <2> QED
    BY <1>2, <1>3, <2>1, <2>2, <2>3
<1> HIDE DEF a
<1>5. /\ l \in Nat /\ Len(a \o out) = 1 + l
      /\ C[0] = 1
      /\ \A k \in 0 .. l : C[1 + k] = n + B[k] - 1
  <2>1. /\ Len(a \o out) = Len(a) + l
        /\ \A k \in 0 .. Len(a) : C[k] = Missing(a)[k]
        /\ \A k \in 0 .. l : C[Len(a) + k] = Missing(a)[Len(a)] + B[k] - 1
    BY <1>3, MissingTogether
  <2>2. l \in Nat /\ 0 \in 0 .. 1
    OBVIOUS
  <2> HIDE DEF l, B, C
  <2> QED
    BY <1>3, <1>4, <2>1, <2>2
<1>6. \A k \in 0 .. l : B[k] \in Int
  BY MissingTokens
<1>7. B[l] = 1 - n /\ \A k \in 0 .. l - 1 : B[k] > 1 - n
  BY DEF AreReplies
<1> HIDE DEF l, B, C
<1>8. C[1 + l] = 0
  BY <1>5, <1>7
<1>9. ASSUME NEW k \in 0 .. (1 + l) - 1
      PROVE  C[k] > 0
  <2>1. CASE k = 0
    BY <1>5, <2>1
  <2>2. CASE k # 0
    <3>1. k - 1 \in 0 .. l /\ k - 1 \in 0 .. l - 1 /\ 1 + (k - 1) = k
      BY <1>5, <2>2
    <3>2. C[k] = n + B[k - 1] - 1
      BY <1>5, <3>1
    <3>3. B[k - 1] > 1 - n /\ B[k - 1] \in Int
      BY <1>6, <1>7, <3>1
    <3> QED
      BY <3>2, <3>3
  <2> QED
    BY <2>1, <2>2
<1> QED
  BY <1>5, <1>8, <1>9 DEF Whole, C, a, t

(* Whole replies, one after the other, are as many replies. *)
LEMMA FlattenedReplies ==
  ASSUME NEW outs \in Seq(Seq(Tokens)), \A i \in 1 .. Len(outs) : Whole(outs[i])
  PROVE  FlattenSeq(outs) \in Seq(Tokens) /\ AreReplies(FlattenSeq(outs), Len(outs))
<1> DEFINE n == Len(outs)
<1>1. n \in Nat /\ \A i \in 1 .. n : outs[i] \in Seq(Tokens)
  OBVIOUS
<1>2. CASE n = 0
  <2>1. FlattenSeq(outs) = << >>
    BY <1>2, FlattenedIsSeq
  <2> QED
    BY <1>2, <2>1, NoReply
<1>3. CASE n # 0
  <2>1. PICK f : /\ \A i \in 1 .. n :
                      /\ f[i] = IF i = 1 THEN outs[i] ELSE f[i - 1] \o outs[i]
                      /\ f[i] \in Seq(Tokens)
                 /\ FlattenSeq(outs) = f[n]
    BY <1>3, Flattened
  <2> DEFINE Good == {i \in Nat : i + 1 <= n => AreReplies(f[i + 1], i + 1)}
  <2> HIDE DEF n
  <2>2. 0 \in Good
    <3>1. 1 \in 1 .. n
      BY <1>1, <1>3
    <3>2. f[1] = outs[1] /\ Whole(outs[1])
      BY <2>1, <3>1 DEF n
    <3>3. AreReplies(f[1], 1)
      BY <3>2, OneReply
    <3>4. 0 + 1 = 1
      OBVIOUS
    <3> QED
      BY <3>3, <3>4
  <2>3. ASSUME NEW i \in Nat, i \in Good
        PROVE  i + 1 \in Good
    <3> SUFFICES ASSUME (i + 1) + 1 <= n
                 PROVE  AreReplies(f[(i + 1) + 1], (i + 1) + 1)
      OBVIOUS
    <3> DEFINE j == i + 1
    <3>1. j \in Nat /\ j \in 1 .. n /\ j + 1 \in 1 .. n /\ (j + 1) - 1 = j /\ j + 1 # 1
      BY <1>1
    <3>2. AreReplies(f[j], j)
      BY <2>3, <3>1
    <3> HIDE DEF j
    <3>3. f[j + 1] = f[j] \o outs[j + 1] /\ f[j] \in Seq(Tokens)
      BY <2>1, <3>1
    <3>4. Whole(outs[j + 1]) /\ outs[j + 1] \in Seq(Tokens)
      BY <1>1, <3>1 DEF n
    <3>5. AreReplies(f[j + 1], j + 1)
      BY <3>1, <3>2, <3>3, <3>4, OneMoreReply
    <3> QED
      BY <3>5 DEF j
  <2>4. Nat \subseteq Good
    <3> HIDE DEF Good
    <3> QED
      BY <2>2, <2>3, NaturalsInSet
  <2>5. n - 1 \in Nat /\ (n - 1) + 1 = n /\ n \in 1 .. n
    BY <1>1, <1>3
  <2>6. AreReplies(f[n], n)
    BY <2>4, <2>5
  <2> QED
    BY <2>1, <2>5, <2>6 DEF n
<1> QED
  BY <1>2, <1>3

-----------------------------------------------------------------------------
(* The masks of the clients                                                *)

\* The device numbers of some boards.
Devices(S) == {DeviceId(i) : i \in S}

(* The boards are told apart by their device numbers. *)
LEMMA DevicesOf ==
  ASSUME NEW S \in SUBSET Index
  PROVE  /\ {i \in Index : DeviceId(i) \in Devices(S)} = S
         /\ IsFiniteSet(S) /\ IsFiniteSet(Devices(S))
         /\ Cardinality(Devices(S)) = Cardinality(S)
<1>1. S \subseteq Int /\ Index \subseteq Int
  BY DEF Index
<1>2. \A i, j \in Index : DeviceId(i) = DeviceId(j) => i = j
  BY <1>1 DEF DeviceId
<1>3. {i \in Index : DeviceId(i) \in Devices(S)} = S
  BY <1>2 DEF Devices
<1>4. IsFiniteSet(S)
  <2>1. NUM_XEMS - 1 \in Int /\ 0 \in Int
    BY BoardServerAssumption
  <2>2. IsFiniteSet(Index)
    BY <2>1, FS_Interval DEF Index
  <2> QED
    BY <2>2, FS_Subset
<1> DEFINE f == [i \in S |-> DeviceId(i)]
<1>5. f \in Bijection(S, Devices(S))
  <2>1. f \in [S -> Devices(S)]
    BY DEF Devices
  <2>2. \A i, j \in S : f[i] = f[j] => i = j
    BY <1>2
  <2>3. \A d \in Devices(S) : \E i \in S : f[i] = d
    BY DEF Devices
  <2> HIDE DEF f
  <2> QED
    BY <2>1, <2>2, <2>3 DEF Bijection, Injection, Surjection, IsInjective
<1>6. ExistsBijection(S, Devices(S))
  BY <1>5 DEF ExistsBijection
<1> QED
  BY <1>3, <1>4, <1>6, FS_Bijection

(* The number of a board is that of a bit in a byte. *)
LEMMA IndexInByte == Index \subseteq 0 .. 7 /\ NUM_XEMS \in 1 .. 8
BY BoardServerAssumption DEF Index

\* A client has no mask yet, or the mask of the boards it was promised.
MaskIsRight(mask, promised) ==
  \/ mask = NotSet /\ promised = {}
  \/ \E S \in SUBSET Index : mask = FromBits(S) /\ promised = Devices(S)

(* What a command about the mask leaves. *)
LEMMA MaskIsSet ==
  ASSUME NEW c \in Clients, NEW mask
  PROVE  LET new == set_active_xem_mask_command(c, mask)
         IN MaskIsRight(new[1], IF new[2] = "ok" THEN BitsOf(mask) ELSE {})
<1> DEFINE requested == BitsOf(mask)
           available == {i \in Index : DeviceId(i) \in requested /\ (i \in linked \/ dummy)}
           new == set_active_xem_mask_command(c, mask)
           none == <<0, "ok">>
           refused == <<0, "error">>
           granted == <<FromBits(available), "ok">>
           over == \/ Cardinality(requested) > NUM_XEMS
                   \/ Cardinality(available) # Cardinality(requested)
<1>1. new = CASE requested = {} -> none [] over -> refused [] OTHER -> granted
  BY DEF set_active_xem_mask_command
<1>2. available \in SUBSET Index /\ Devices(available) \subseteq requested
  BY DEF Devices
<1>3. IsFiniteSet(requested)
  <2>1. 0 \in Int /\ 31 \in Int
    OBVIOUS
  <2>2. IsFiniteSet(0 .. 31)
    BY <2>1, FS_Interval
  <2>3. requested \in SUBSET (0 .. 31)
    BY DEF BitsOf
  <2> HIDE DEF requested
  <2> QED
    BY <2>2, <2>3, FS_Subset
<1>4. requested = {} => ~ over
  <2> SUFFICES ASSUME requested = {}
               PROVE  ~ over
    OBVIOUS
  <2>1. available = {}
    OBVIOUS
  <2> HIDE DEF available, requested
  <2>2. Cardinality(requested) = 0 /\ Cardinality(available) = 0
    BY <2>1, FS_EmptySet
  <2> QED
    BY <2>2, IndexInByte
<1>5. FromBits({}) = 0
  <2>1. {} \in SUBSET (0 .. 7)
    OBVIOUS
  <2> QED
    BY <2>1, BitsOfMask
<1>6. MaskIsRight(0, {})
  <2>1. {} \in SUBSET Index /\ Devices({}) = {}
    BY DEF Devices
  <2> QED
    BY <1>5, <2>1 DEF MaskIsRight
<1> HIDE DEF requested, available, new
<1>7. CASE requested = {}
  <2>1. new = none
    BY <1>1, <1>4, <1>7, Zenon
  <2>2. new[1] = 0 /\ new[2] = "ok"
    BY <2>1
  <2> QED
    BY <1>6, <1>7, <2>2 DEF new, requested
<1>8. CASE requested # {} /\ over
  <2>1. new = refused
    BY <1>1, <1>8, Zenon
  <2>2. new[1] = 0 /\ new[2] # "ok"
    BY <2>1
  <2> QED
    BY <1>6, <2>2 DEF new
<1>9. CASE requested # {} /\ ~ over
  <2>1. new = granted
    BY <1>1, <1>9, Zenon
  <2>2. new[1] = FromBits(available) /\ new[2] = "ok"
    BY <2>1
  <2>3. Cardinality(Devices(available)) = Cardinality(requested)
    BY <1>2, <1>9, DevicesOf
  <2>4. Devices(available) = requested
    BY <1>2, <1>3, <2>3, FS_Subset
  <2> QED
    BY <1>2, <2>2, <2>4 DEF MaskIsRight, new, requested
<1> QED
  BY <1>7, <1>8, <1>9

(* A command is for the boards that the client was promised; without a mask it
   is for none. *)
LEMMA ChosenBoards ==
  ASSUME NEW c, Server = "ceres_server", MaskIsRight(active[c], wanted[c]),
         active[c] # NotSet
  PROVE  /\ Chosen(c) \in SUBSET Index /\ IsFiniteSet(Chosen(c))
         /\ wanted[c] = Devices(Chosen(c)) /\ active[c] = FromBits(Chosen(c))
         /\ active[c] \in Nat /\ (active[c] = 0 <=> Chosen(c) = {})
         /\ {i \in Index : DeviceId(i) \in wanted[c]} = Chosen(c)
         /\ Cardinality(wanted[c]) = Cardinality(Chosen(c))
<1>1. PICK S \in SUBSET Index : active[c] = FromBits(S) /\ wanted[c] = Devices(S)
  BY DEF MaskIsRight
<1>2. S \in SUBSET (0 .. 7)
  BY IndexInByte
<1>3. \A b \in 0 .. 7 : Bit(active[c], b) <=> b \in S
  BY <1>1, <1>2, BitsOfMask
<1>4. Chosen(c) = S
  <2>1. Chosen(c) = {i \in Index : Bit(active[c], i)}
    BY DEF Chosen
  <2> QED
    BY <1>3, <2>1, IndexInByte
<1> QED
  BY <1>1, <1>2, <1>4, BitsOfMask, DevicesOf

-----------------------------------------------------------------------------
(* The invariant                                                           *)

\* Every client's mask is that of the boards it was promised.
MasksAreRight ==
  /\ session \in SessionNames
  /\ DOMAIN active = Clients /\ DOMAIN wanted = Clients
  /\ \A c \in Clients : MaskIsRight(active[c], wanted[c])

IInv == MasksAreRight /\ OnlyChosenBoards

(* At first no client has a mask, and there was no command. *)
LEMMA InitRight == Init => IInv
<1> SUFFICES ASSUME Init
             PROVE  IInv
  OBVIOUS
<1>1. MasksAreRight
  BY DEF Init, MasksAreRight, MaskIsRight
<1>2. last.client = "nobody"
  BY DEF Init, Nothing
<1> QED
  BY <1>1, <1>2 DEF IInv, OnlyChosenBoards

(* Masks that are left alone stay right. *)
LEMMA MasksStay ==
  ASSUME MasksAreRight, UNCHANGED <<session, active, wanted>>
  PROVE  MasksAreRight'
BY DEF MasksAreRight

(* What is remembered of a command. *)
LEMMA Remembered ==
  ASSUME NEW c, NEW r, NEW where, NEW env, NEW replies, NEW runs,
         Remember(c, r, where, env, replies, runs)
  PROVE  /\ last'.client = c /\ last'.request = r /\ last'.replies = replies
         /\ last'.runs = runs /\ last'.before = board
         /\ session' = session /\ linked' = linked /\ dummy' = dummy
BY DEF Remember

(* A client chooses. *)
LEMMA SetActiveRight ==
  ASSUME IInv, NEW c \in Clients, NEW r, SetActive(c, r)
  PROVE  IInv'
<1> DEFINE new == set_active_xem_mask_command(c, r.args[1])
           promised == IF new[2] = "ok" THEN BitsOf(r.args[1]) ELSE {}
<1>1. /\ active' = [active EXCEPT ![c] = new[1]]
      /\ wanted' = [wanted EXCEPT ![c] = promised]
      /\ Remember(c, r, 0, NoEnv, <<<<new[2], 0>>>>, << >>)
      /\ board' = board /\ r.what = "set_active_xem_mask"
  BY DEF SetActive
<1>2. MaskIsRight(new[1], promised)
  BY MaskIsSet
<1> HIDE DEF new, promised
<1>3. /\ session' = session /\ last'.client = c /\ last'.request = r
      /\ last'.before = board
  BY <1>1, Remembered
<1>4. MasksAreRight'
  BY <1>1, <1>2, <1>3 DEF IInv, MasksAreRight
<1>5. r.what \in AboutMask /\ r.what # "get_active_xem_mask"
  BY <1>1 DEF AboutMask
<1>6. OnlyChosenBoards'
  BY <1>1, <1>3, <1>5 DEF OnlyChosenBoards
<1> QED
  BY <1>4, <1>6 DEF IInv

(* A client asks which boards it chose, or which there are. *)
LEMMA GetMasksRight ==
  ASSUME IInv, Server = "ceres_server", NEW c \in Clients, NEW r, GetMasks(c, r)
  PROVE  IInv'
<1>1. MaskIsRight(active[c], wanted[c])
  BY DEF IInv, MasksAreRight
<1>2. PICK replies :
        /\ Remember(c, r, 0, NoEnv, replies, << >>)
        /\ r.what = "get_active_xem_mask" => replies = get_active_xem_mask_command(c)
        /\ r.what \in AboutMask
        /\ board' = board /\ active' = active /\ wanted' = wanted
  BY DEF GetMasks, AboutMask
<1>3. /\ session' = session /\ last'.client = c /\ last'.request = r
      /\ last'.before = board /\ last'.replies = replies
  BY <1>2, Remembered
<1>4. MasksAreRight'
  BY <1>2, <1>3, MasksStay DEF IInv
<1> DEFINE mine == {i \in Index : DeviceId(i) \in wanted[c]}
<1>5. get_active_xem_mask_command(c) =
        IF mine = {} THEN <<<<"null", -1>>>> ELSE <<<<"int", FromBits(wanted[c])>>>>
  <2>1. CASE active[c] = NotSet
    <3>1. wanted[c] = {}
      <4>1. ASSUME NEW S \in SUBSET Index, active[c] = FromBits(S)
            PROVE  FALSE
        <5>1. FromBits(S) \in Nat
          BY IndexInByte, BitsOfMask
        <5> QED
          BY <2>1, <4>1, <5>1 DEF NotSet
      <4> QED
        BY <1>1, <4>1 DEF MaskIsRight
    <3>2. active[c] <= 0 /\ mine = {}
      BY <2>1, <3>1 DEF NotSet
    <3> QED
      BY <3>2 DEF get_active_xem_mask_command
  <2>2. CASE active[c] # NotSet
    <3>1. /\ mine = Chosen(c) /\ wanted[c] = Devices(Chosen(c))
          /\ active[c] \in Nat /\ (active[c] = 0 <=> Chosen(c) = {})
      BY <1>1, <2>2, ChosenBoards
    <3>2. Chosen(c) = {j \in Index : Bit(active[c], j)}
      BY DEF Chosen
    <3>3. active[c] <= 0 <=> mine = {}
      BY <3>1
    <3>4. {DeviceId(i) : i \in {j \in Index : Bit(active[c], j)}} = wanted[c]
      BY <3>1, <3>2 DEF Devices
    <3> HIDE DEF mine
    <3> QED
      BY <3>3, <3>4 DEF get_active_xem_mask_command
  <2> QED
    BY <2>1, <2>2
<1>6. OnlyChosenBoards'
  BY <1>2, <1>3, <1>5 DEF OnlyChosenBoards
<1> QED
  BY <1>4, <1>6 DEF IInv

(* A client that has not chosen is refused. *)
LEMMA NotChosenRight ==
  ASSUME IInv, NEW c \in Clients, NEW r, NotChosen(c, r)
  PROVE  IInv'
<1>1. MaskIsRight(active[c], wanted[c])
  BY DEF IInv, MasksAreRight
<1>2. /\ r.what \notin AboutMask /\ active[c] < 0
      /\ Remember(c, r, 0, NoEnv, <<<<"error", 0>>>>, << >>)
      /\ board' = board /\ active' = active /\ wanted' = wanted
  BY DEF NotChosen
<1>3. /\ session' = session /\ last'.client = c /\ last'.request = r
      /\ last'.before = board /\ last'.replies = <<<<"error", 0>>>>
  BY <1>2, Remembered
<1>4. MasksAreRight'
  BY <1>2, <1>3, MasksStay DEF IInv
<1>5. wanted[c] = {}
  <2>1. ASSUME NEW S \in SUBSET Index, active[c] = FromBits(S)
        PROVE  FALSE
    <3>1. FromBits(S) \in Nat
      BY IndexInByte, BitsOfMask
    <3> QED
      BY <1>2, <2>1, <3>1
  <2> QED
    BY <1>1, <2>1 DEF MaskIsRight
<1>6. r.what # "get_active_xem_mask"
  BY <1>2 DEF AboutMask
<1>7. OnlyChosenBoards'
  BY <1>2, <1>3, <1>5, <1>6 DEF OnlyChosenBoards
<1> QED
  BY <1>4, <1>7 DEF IInv

(* A command is run on the boards that were chosen. *)
LEMMA CallRight ==
  ASSUME IInv, Server = "ceres_server", NEW c \in Clients, NEW r, ceres_call(c, r),
         OutputsAreReplies'
  PROVE  IInv'
<1> DEFINE chosen == Chosen(c)
           order == InOrder(chosen)
           Said(run) == FlattenSeq([k \in DOMAIN order |-> run[order[k]].out])
           Runs(run) == [i \in chosen |->
                           [ret |-> run[i].ret, seen |-> run[i].seen, out |-> run[i].out]]
           quiet == [i \in chosen |-> Run(Begin(i, Undisturbed), r)]
           head == IF Server = "ceres_server" THEN <<<<"array", Cardinality(chosen)>>>> ELSE << >>
           Ran(where, troubled) == [i \in chosen |-> IF i = where THEN troubled ELSE quiet[i]]
           Effect(where, env, run) ==
             /\ board' = [i \in Index |-> IF i \in chosen THEN End(run[i]) ELSE board[i]]
             /\ Remember(c, r, where, env, head \o Said(run), Runs(run))
<1>a. /\ \E where \in IF chosen = {} THEN {NotSet} ELSE chosen :
           \E env \in IF where = NotSet THEN {Undisturbed} ELSE Environments(quiet[where].n) :
             \E troubled \in IF where = NotSet THEN {{}} ELSE {Run(Begin(where, env), r)} :
               Effect(where, env, Ran(where, troubled))
      /\ r.what \notin AboutMask /\ active[c] >= 0
      /\ active' = active /\ wanted' = wanted
  BY Zenon DEF ceres_call
<1>b. PICK run, where, env : Effect(where, env, run)
  <2> HIDE DEF Effect, Ran
  <2> QED
    BY <1>a, Zenon
<1> DEFINE runs == Runs(run)
           said == Said(run)
<1>1. /\ board' = [i \in Index |-> IF i \in chosen THEN End(run[i]) ELSE board[i]]
      /\ Remember(c, r, where, env, head \o said, runs)
      /\ r.what \notin AboutMask /\ active[c] >= 0
      /\ active' = active /\ wanted' = wanted
  BY <1>a, <1>b
<1>r. DOMAIN runs = chosen /\ \A i \in chosen : runs[i].out = run[i].out
  OBVIOUS
<1>s. said = Said(run)
  OBVIOUS
<1>h. head = <<<<"array", Cardinality(chosen)>>>>
  OBVIOUS
<1> HIDE DEF runs, head, said
<1>2. /\ session' = session /\ last'.client = c /\ last'.request = r
      /\ last'.before = board /\ last'.runs = runs
      /\ last'.replies = head \o said
  BY <1>1, Remembered
<1>3. MasksAreRight'
  BY <1>1, <1>2, MasksStay DEF IInv
<1>4. /\ chosen \in SUBSET Index /\ IsFiniteSet(chosen)
      /\ Cardinality(wanted[c]) = Cardinality(chosen)
      /\ {i \in Index : DeviceId(i) \in wanted[c]} = chosen
  <2>1. active[c] # NotSet
    BY <1>1 DEF NotSet
  <2>2. MaskIsRight(active[c], wanted[c])
    BY DEF IInv, MasksAreRight
  <2> QED
    BY <2>1, <2>2, ChosenBoards
<1> HIDE DEF chosen
<1>5. said \in Seq(Token \X Int)
  <2>1. \A i \in chosen : run[i].out \in Seq(Token \X Int)
    BY <1>2, <1>r DEF OutputsAreReplies
  <2>2. order \in Seq(chosen)
    <3>1. chosen \in SUBSET Int
      BY <1>4 DEF Index
    <3> QED
      BY <1>4, <3>1, OrderOfBoards
  <2> HIDE DEF order
  <2>3. \A k \in DOMAIN order : order[k] \in chosen
    BY <2>2
  <2>4. [k \in DOMAIN order |-> run[order[k]].out] \in Seq(Seq(Token \X Int))
    <3>1. DOMAIN order = 1 .. Len(order) /\ Len(order) \in Nat
      BY <2>2
    <3>2. [k \in DOMAIN order |-> run[order[k]].out] \in [1 .. Len(order) -> Seq(Token \X Int)]
      BY <2>1, <2>3, <3>1
    <3> QED
      BY <3>1, <3>2
  <2> QED
    BY <1>s, <2>4, FlattenedIsSeq
<1>6. last'.replies[1] = <<"array", Cardinality(chosen)>>
  <2> DEFINE first == <<"array", Cardinality(chosen)>>
  <2>1. head = <<first>>
    BY <1>h
  <2> HIDE DEF first
  <2>2. (<<first>> \o said)[1] = first
    BY <1>5
  <2> QED
    BY <1>2, <2>1, <2>2 DEF first
<1>7. DOMAIN last'.runs = chosen
  BY <1>2, <1>r
<1>8. \A i \in Index \ chosen : board'[i] = board[i]
  BY <1>1
<1>9. r.what # "get_active_xem_mask"
  BY <1>1 DEF AboutMask
<1>10. OnlyChosenBoards'
  BY <1>1, <1>2, <1>4, <1>6, <1>7, <1>8, <1>9 DEF OnlyChosenBoards
<1> QED
  BY <1>3, <1>10 DEF IInv

(* With ceres_server, a command reaches exactly the boards that its client was
   promised, whatever the command does to them, whatever other clients choose
   in between and however the accesses turn out; no command reaches a board
   before its client has chosen or after it was refused; and the mask that is
   answered is the one that was asked for (set_active_xem_mask_command,
   ceres_call). *)
THEOREM CommandsReachTheChosen ==
  ASSUME Server = "ceres_server"
  PROVE  Spec /\ []OutputsAreReplies => []OnlyChosenBoards
<1>1. Init => IInv
  BY InitRight
<1>2. IInv /\ [Next]_vars /\ OutputsAreReplies' => IInv'
  <2> SUFFICES ASSUME IInv, [Next]_vars, OutputsAreReplies'
               PROVE  IInv'
    OBVIOUS
  <2>1. CASE UNCHANGED vars
    BY <2>1 DEF vars, IInv, MasksAreRight, OnlyChosenBoards
  <2>2. CASE Next
    <3>1. PICK c \in Sessions(session).clients, r \in Sessions(session).requests :
            SetActive(c, r) \/ GetMasks(c, r) \/ NotChosen(c, r) \/ ceres_call(c, r)
      BY <2>2 DEF Next
    <3>2. c \in Clients
      BY BoardServerAssumption DEF IInv, MasksAreRight
    <3> QED
      BY <3>1, <3>2, SetActiveRight, GetMasksRight, NotChosenRight, CallRight
  <2> QED
    BY <2>1, <2>2
<1>3. IInv => OnlyChosenBoards
  BY DEF IInv
<1> QED
  BY <1>1, <1>2, <1>3, PTL DEF Spec

-----------------------------------------------------------------------------
(* Whole answers                                                           *)

(* As many single replies as there are tokens. *)
LEMMA SingleReplies ==
  ASSUME NEW n \in Nat, NEW out \in [1 .. n -> Tokens],
         \A k \in 1 .. n : out[k][1] # "array"
  PROVE  out \in Seq(Tokens) /\ AreReplies(out, n)
<1>1. out \in Seq(Tokens) /\ Len(out) = n
  OBVIOUS
<1> DEFINE m == Missing(out)
<1>2. m[0] = 1 /\ \A k \in 1 .. n : m[k] = m[k - 1] - 1 + Announced(out[k])
  BY <1>1, MissingTokens
<1>3. \A k \in 1 .. n : Announced(out[k]) = 0
  BY DEF Announced
<1> HIDE DEF m
<1> DEFINE Good == {k \in Nat : k <= n => m[k] = 1 - k}
<1>4. 0 \in Good
  BY <1>2
<1>5. ASSUME NEW k \in Nat, k \in Good
      PROVE  k + 1 \in Good
  <2> SUFFICES ASSUME k + 1 <= n
               PROVE  m[k + 1] = 1 - (k + 1)
    OBVIOUS
  <2>1. k + 1 \in 1 .. n /\ (k + 1) - 1 = k /\ m[k] = 1 - k
    BY <1>5
  <2>2. m[k + 1] = m[k] - 1 + 0
    BY <1>2, <1>3, <2>1, Zenon
  <2> QED
    BY <2>1, <2>2
<1>6. \A k \in 0 .. n : m[k] = 1 - k
  <2>1. Nat \subseteq Good
    <3> HIDE DEF Good
    <3> QED
      BY <1>4, <1>5, NaturalsInSet
  <2> QED
    BY <2>1
<1>7. \A k \in 0 .. n - 1 : m[k] > 1 - n
  BY <1>6
<1>8. m[n] = 1 - n
  BY <1>6
<1> QED
  BY <1>1, <1>7, <1>8 DEF AreReplies, m

(* The choice of a mask is answered with a word. *)
LEMMA SetActiveWhole ==
  ASSUME NEW c, NEW r, SetActive(c, r)
  PROVE  RepliesAreWhole'
<1> DEFINE new == set_active_xem_mask_command(c, r.args[1])
<1>1. Remember(c, r, 0, NoEnv, <<<<new[2], 0>>>>, << >>)
  BY DEF SetActive
<1>2. new[2] \in {"ok", "error"}
  BY DEF set_active_xem_mask_command
<1> HIDE DEF new
<1>3. <<new[2], 0>>[1] # "array"
  BY <1>2
<1>4. Whole(<<<<new[2], 0>>>>)
  BY <1>3, SingleReply
<1>5. last'.replies = <<<<new[2], 0>>>>
  BY <1>1, Remembered
<1> QED
  BY <1>4, <1>5 DEF RepliesAreWhole

(* The mask of a client is a number. *)
LEMMA GetMaskWhole ==
  ASSUME NEW c
  PROVE  Whole(get_active_xem_mask_command(c))
<1> DEFINE S == {j \in Index : Bit(active[c], j)}
           mine == <<"int", FromBits({DeviceId(i) : i \in S})>>
           nobody == <<"null", -1>>
<1>1. get_active_xem_mask_command(c) = IF active[c] <= 0 THEN <<nobody>> ELSE <<mine>>
  BY DEF get_active_xem_mask_command
<1>2. mine[1] # "array" /\ nobody[1] # "array"
  OBVIOUS
<1> HIDE DEF mine, nobody
<1>3. Whole(<<mine>>) /\ Whole(<<nobody>>)
  BY <1>2, SingleReply
<1> QED
  BY <1>1, <1>3, Zenon

\* The boards there are, are boards.
LinkedAreBoards == session \in SessionNames /\ linked \in SUBSET Index

(* The boards there are, are an array of numbers. *)
LEMMA GetAvailableWhole ==
  ASSUME LinkedAreBoards
  PROVE  Whole(get_available_xems_command)
<1> DEFINE boards == IF dummy THEN Index ELSE linked
           there == InOrder(boards)
           n == Len(there)
           out == [k \in DOMAIN there |-> <<"int", DeviceId(there[k])>>]
           nobody == <<"null", -1>>
<1>1. get_available_xems_command =
        IF there = << >> THEN <<nobody>> ELSE <<<<"array", n>>>> \o out
  BY DEF get_available_xems_command
<1>2. Whole(<<nobody>>)
  <2>1. nobody[1] # "array"
    OBVIOUS
  <2> QED
    BY <2>1, SingleReply
<1>3. there \in Seq(Index)
  <2>1. boards \in SUBSET Index
    BY DEF LinkedAreBoards
  <2> HIDE DEF boards
  <2>2. IsFiniteSet(boards)
    BY <2>1, DevicesOf
  <2>3. Index \subseteq Int
    BY DEF Index
  <2>4. boards \in SUBSET Int
    BY <2>1, <2>3
  <2>5. there \in Seq(boards)
    BY <2>2, <2>4, OrderOfBoards
  <2> QED
    BY <2>1, <2>5
<1> HIDE DEF boards, there
<1>4. n \in Nat /\ DOMAIN there = 1 .. n /\ \A k \in 1 .. n : DeviceId(there[k]) \in Int
  <2>1. \A i \in Index : DeviceId(i) \in Int
    BY DEF Index, DeviceId
  <2> QED
    BY <1>3, <2>1
<1>5. /\ out \in [1 .. n -> Tokens]
      /\ \A k \in 1 .. n : out[k][1] # "array"
  BY <1>4 DEF Tokens, Token
<1> HIDE DEF n, out
<1>6. out \in Seq(Tokens) /\ AreReplies(out, n)
  BY <1>4, <1>5, SingleReplies
<1>7. Whole(<<<<"array", n>>>> \o out)
  BY <1>4, <1>6, ArrayReply
<1> QED
  BY <1>1, <1>2, <1>7, Zenon

(* The commands about masks answer with a whole reply. *)
LEMMA GetMasksWhole ==
  ASSUME NEW c, NEW r, LinkedAreBoards, GetMasks(c, r)
  PROVE  RepliesAreWhole'
<1>1. PICK replies : /\ Remember(c, r, 0, NoEnv, replies, << >>)
                     /\ \/ replies = get_active_xem_mask_command(c)
                        \/ replies = get_available_xems_command
  BY DEF GetMasks
<1>2. Whole(replies)
  BY <1>1, GetMaskWhole, GetAvailableWhole, Zenon
<1>3. last'.replies = replies
  BY <1>1, Remembered
<1> QED
  BY <1>2, <1>3 DEF RepliesAreWhole

(* So is the refusal. *)
LEMMA NotChosenWhole ==
  ASSUME NEW c, NEW r, NotChosen(c, r)
  PROVE  RepliesAreWhole'
<1> DEFINE refusal == <<"error", 0>>
<1>1. last'.replies = <<refusal>>
  BY Remembered DEF NotChosen
<1>2. refusal[1] # "array"
  OBVIOUS
<1> HIDE DEF refusal
<1>3. Whole(<<refusal>>)
  BY <1>2, SingleReply
<1> QED
  BY <1>1, <1>3 DEF RepliesAreWhole

(* What a command says on its boards is put together as an array of as many
   replies, or is the one reply of the only board. *)
LEMMA CallWhole ==
  ASSUME NEW c, NEW r, ceres_call(c, r), OutputsAreWhole'
  PROVE  RepliesAreWhole'
<1> DEFINE chosen == Chosen(c)
           order == InOrder(chosen)
           Outs(run) == [k \in DOMAIN order |-> run[order[k]].out]
           Runs(run) == [i \in chosen |->
                           [ret |-> run[i].ret, seen |-> run[i].seen, out |-> run[i].out]]
           quiet == [i \in chosen |-> Run(Begin(i, Undisturbed), r)]
           head == IF Server = "ceres_server" THEN <<<<"array", Cardinality(chosen)>>>> ELSE << >>
           Ran(where, troubled) == [i \in chosen |-> IF i = where THEN troubled ELSE quiet[i]]
           Effect(where, env, run) ==
             /\ board' = [i \in Index |-> IF i \in chosen THEN End(run[i]) ELSE board[i]]
             /\ Remember(c, r, where, env, head \o FlattenSeq(Outs(run)), Runs(run))
<1>1. \E where \in IF chosen = {} THEN {NotSet} ELSE chosen :
        \E env \in IF where = NotSet THEN {Undisturbed} ELSE Environments(quiet[where].n) :
          \E troubled \in IF where = NotSet THEN {{}} ELSE {Run(Begin(where, env), r)} :
            Effect(where, env, Ran(where, troubled))
  BY Zenon DEF ceres_call
<1>2. PICK run, where, env : Effect(where, env, run)
  <2> HIDE DEF Effect, Ran
  <2> QED
    BY <1>1, Zenon
<1> DEFINE outs == Outs(run)
           said == FlattenSeq(outs)
           runs == Runs(run)
<1>3. last'.replies = head \o said /\ last'.runs = runs
  <2>1. Remember(c, r, where, env, head \o said, runs)
    BY <1>2
  <2> HIDE DEF head, said, runs
  <2> QED
    BY <2>1, Remembered
<1>4. DOMAIN runs = chosen /\ \A i \in chosen : runs[i].out = run[i].out
  OBVIOUS
<1>5. chosen \in SUBSET Index /\ (Server = "kintex_client_server" => chosen = Index)
  BY DEF Chosen
<1> HIDE DEF runs
<1>6. \A i \in chosen : run[i].out \in Seq(Tokens) /\ Whole(run[i].out)
  BY <1>3, <1>4 DEF OutputsAreWhole, OutputsAreReplies, Tokens
<1> HIDE DEF chosen
<1>7. order \in Seq(chosen) /\ Len(order) = Cardinality(chosen) /\ Cardinality(chosen) \in Nat
  <2>1. IsFiniteSet(chosen)
    BY <1>5, DevicesOf
  <2>2. chosen \in SUBSET Int
    BY <1>5 DEF Index
  <2> QED
    BY <2>1, <2>2, OrderOfBoards, FS_CardinalityType
<1> DEFINE n == Cardinality(chosen)
<1> HIDE DEF order
<1>8. /\ outs \in Seq(Seq(Tokens)) /\ Len(outs) = n
      /\ \A k \in 1 .. n : Whole(outs[k])
  <2>1. DOMAIN order = 1 .. n /\ n \in Nat /\ \A k \in 1 .. n : order[k] \in chosen
    BY <1>7
  <2>2. outs \in [1 .. n -> Seq(Tokens)] /\ \A k \in 1 .. n : outs[k] = run[order[k]].out
    BY <1>6, <2>1
  <2> HIDE DEF outs, n
  <2> QED
    BY <1>6, <2>1, <2>2
<1> HIDE DEF outs
<1>9. said \in Seq(Tokens) /\ AreReplies(said, n)
  BY <1>8, FlattenedReplies
<1> HIDE DEF said
<1>10. CASE Server = "ceres_server"
  <2>1. head = <<<<"array", n>>>>
    BY <1>10
  <2>2. Whole(<<<<"array", n>>>> \o said)
    BY <1>7, <1>9, ArrayReply
  <2> QED
    BY <1>3, <2>1, <2>2 DEF RepliesAreWhole
<1>11. CASE Server # "ceres_server"
  <2>1. Server = "kintex_client_server" /\ NUM_XEMS = 1
    BY <1>11, BoardAssumption, BoardServerAssumption
  <2>2. chosen = {0}
    BY <1>5, <2>1 DEF Index
  <2>3. n = 1
    BY <2>2, FS_Singleton
  <2>4. head = << >> /\ head \o said = said
    <3>1. head = << >>
      BY <1>11
    <3> HIDE DEF head
    <3> QED
      BY <1>9, <3>1
  <2>5. Whole(said)
    BY <1>9, <2>3, OneReply
  <2> QED
    BY <1>3, <2>4, <2>5, Zenon DEF RepliesAreWhole
<1> QED
  BY <1>10, <1>11

(* Whatever the table of commands, if what a command says on one board is one
   whole reply, then so is what the client is sent, for any boards it chose
   and however the accesses turn out: an array is followed by as many replies
   as it announces, and no client waits for one that does not come or takes
   it for the answer to its next command (ceres_call). *)
THEOREM AnswersAreWhole == Spec /\ []OutputsAreWhole => []RepliesAreWhole
<1> DEFINE Inv == LinkedAreBoards /\ RepliesAreWhole
<1>1. Init => Inv
  <2> SUFFICES ASSUME Init
               PROVE  Inv
    OBVIOUS
  <2>1. LinkedAreBoards
    BY BoardServerAssumption DEF Init, LinkedAreBoards, Index
  <2>2. last.client = "nobody"
    BY DEF Init, Nothing
  <2> QED
    BY <2>1, <2>2 DEF RepliesAreWhole
<1>2. Inv /\ [Next]_vars /\ OutputsAreWhole' => Inv'
  <2> SUFFICES ASSUME Inv, [Next]_vars, OutputsAreWhole'
               PROVE  Inv'
    OBVIOUS
  <2>1. CASE UNCHANGED vars
    BY <2>1 DEF vars, LinkedAreBoards, RepliesAreWhole
  <2>2. CASE Next
    <3>1. PICK c \in Sessions(session).clients, r \in Sessions(session).requests :
            SetActive(c, r) \/ GetMasks(c, r) \/ NotChosen(c, r) \/ ceres_call(c, r)
      BY <2>2 DEF Next
    <3>2. RepliesAreWhole'
      BY <3>1, SetActiveWhole, GetMasksWhole, NotChosenWhole, CallWhole
    <3>3. session' = session /\ linked' = linked
      <4>1. ASSUME NEW where, NEW env, NEW replies, NEW runs,
                   Remember(c, r, where, env, replies, runs)
            PROVE  session' = session /\ linked' = linked
        BY <4>1, Remembered
      <4> QED
        BY <3>1, <4>1, Zenon DEF SetActive, GetMasks, NotChosen, ceres_call
    <3> QED
      BY <3>2, <3>3 DEF LinkedAreBoards
  <2> QED
    BY <2>1, <2>2
<1>3. Inv => RepliesAreWhole
  OBVIOUS
<1> QED
  BY <1>1, <1>2, <1>3, PTL DEF Spec
=============================================================================
