--------------------------- MODULE AuditTrail_proofs ---------------------------
(***************************************************************************)
(* Proofs about AuditTrail, for every set of decisions, any number of      *)
(* writing threads and every queue, batch and retention size.              *)
(***************************************************************************)
EXTENDS AuditTrail, SequenceTheorems, FiniteSetTheorems, TLAPS

-------------------------------------------------------------------------------
(* Least and greatest numbers, first and last rows.                        *)

\* Induction over a set of numbers.
LEMMA SetInduction ==
  ASSUME NEW S, 0 \in S, \A n \in Nat : n \in S => n + 1 \in S
  PROVE  Nat \subseteq S
<1> SUFFICES ASSUME Nat \ S # {} PROVE FALSE
  OBVIOUS
<1>1. PICK m \in Nat \ S : \A n \in Nat \ S : ~ (<<n, m>> \in OpToRel(<, Nat))
  BY NatLessThanWellFounded, WFMin
<1>2. \A n \in Nat \ S : ~ (n < m)
  BY <1>1 DEF OpToRel
<1>3. m # 0 /\ m - 1 \in Nat /\ m - 1 < m
  OBVIOUS
<1>4. m - 1 \in S
  BY <1>2, <1>3
<1>5. QED BY <1>3, <1>4

LEMMA LeastNat ==
  ASSUME NEW T \in SUBSET Nat, T # {}
  PROVE  \E m \in T : \A n \in T : m <= n
<1>1. PICK m \in T : \A n \in T : ~ (<<n, m>> \in OpToRel(<, Nat))
  BY NatLessThanWellFounded, WFMin
<1>2. \A n \in T : ~ (n < m)
  BY <1>1 DEF OpToRel
<1>3. QED BY <1>2

LEMMA GreatestNat ==
  ASSUME NEW T \in SUBSET Nat, T # {}, NEW b \in Nat, \A n \in T : n <= b
  PROVE  \E m \in T : \A n \in T : n <= m
<1> DEFINE D == {b - n : n \in T}
<1>1. D \in SUBSET Nat /\ D # {}
  <2>1. \A n \in T : b - n \in Nat
    OBVIOUS
  <2>2. QED BY <2>1, Zenon
<1>2. PICK d \in D : \A e \in D : d <= e
  <2> HIDE DEF D
  <2>1. QED BY <1>1, LeastNat
<1>3. PICK m \in T : d = b - m
  BY <1>2
<1>4. \A n \in T : b - m <= b - n
  BY <1>2, <1>3
<1>5. QED BY <1>4

LEMMA LastRowIsLast ==
  ASSUME NEW S \in SUBSET Row, S # {}, NEW b \in Nat, \A r \in S : r.rowid <= b
  PROVE  LastRow(S) \in S /\ \A s \in S : s.rowid <= LastRow(S).rowid
<1> DEFINE T == {r.rowid : r \in S}
<1>1. T \in SUBSET Nat /\ T # {} /\ \A n \in T : n <= b
  BY DEF Row
<1>2. PICK m \in T : \A n \in T : n <= m
  <2> HIDE DEF T
  <2>1. QED BY <1>1, GreatestNat
<1>3. \E r \in S : \A s \in S : s.rowid <= r.rowid
  BY <1>2
<1>4. QED BY <1>3 DEF LastRow

LEMMA FirstRowExists ==
  ASSUME NEW S \in SUBSET Row, S # {}
  PROVE  \E r \in S : \A s \in S : r.rowid <= s.rowid
<1> DEFINE T == {r.rowid : r \in S}
<1>1. T \in SUBSET Nat /\ T # {}
  BY DEF Row
<1>2. PICK m \in T : \A n \in T : m <= n
  <2> HIDE DEF T
  <2>1. QED BY <1>1, LeastNat
<1>3. QED BY <1>2

-------------------------------------------------------------------------------
(* The rounds of core/receipts/merkle.py, for batches of every size.       *)

\* The recursion behind Layer is well defined, and rounds do not depend on how
\* many follow.
LayersUpTo(hashes, m, f) ==
  f = [j \in 0 .. m |->
         IF j = 0 THEN hashes
         ELSE IF Len(f[j - 1]) <= 1 THEN f[j - 1] ELSE Parents(f[j - 1])]

LEMMA LayersExist ==
  ASSUME NEW hashes
  PROVE  \A m \in Nat : \E f : LayersUpTo(hashes, m, f)
<1> DEFINE S == {m \in Nat : \E f : LayersUpTo(hashes, m, f)}
<1>1. 0 \in S
  <2>1. LayersUpTo(hashes, 0, [j \in 0 .. 0 |-> hashes])
    BY DEF LayersUpTo
  <2>2. QED BY <2>1
<1>2. ASSUME NEW m \in Nat, m \in S
      PROVE  m + 1 \in S
  <2>1. PICK f : LayersUpTo(hashes, m, f)
    BY <1>2
  <2>2. PICK g : g = [j \in 0 .. (m + 1) |->
                        IF j = m + 1 THEN (IF Len(f[m]) <= 1 THEN f[m] ELSE Parents(f[m]))
                        ELSE f[j]]
    OBVIOUS
  <2>3. f = [j \in 0 .. m |->
               IF j = 0 THEN hashes
               ELSE IF Len(f[j - 1]) <= 1 THEN f[j - 1] ELSE Parents(f[j - 1])]
    BY <2>1 DEF LayersUpTo
  <2>4. ASSUME NEW j \in 0 .. (m + 1)
        PROVE  g[j] = IF j = 0 THEN hashes
                      ELSE IF Len(g[j - 1]) <= 1 THEN g[j - 1] ELSE Parents(g[j - 1])
    <3>1. CASE j = m + 1
      BY <2>2, <3>1
    <3>2. CASE j # m + 1
      BY <2>2, <2>3, <3>2
    <3>3. QED BY <3>1, <3>2
  <2>5. LayersUpTo(hashes, m + 1, g)
    BY <2>2, <2>4 DEF LayersUpTo
  <2>6. QED BY <2>5
<1>3. Nat \subseteq S
  <2> HIDE DEF S
  <2>1. QED BY <1>1, <1>2, SetInduction
<1>4. QED BY <1>3

LEMMA LayersAgree ==
  ASSUME NEW hashes, NEW m \in Nat, NEW n \in Nat, NEW f, NEW g,
         LayersUpTo(hashes, m, f), LayersUpTo(hashes, n, g)
  PROVE  \A k \in Nat : k <= m /\ k <= n => f[k] = g[k]
<1> DEFINE S == {k \in Nat : k <= m /\ k <= n => f[k] = g[k]}
<1>1. \A k \in 0 .. m : f[k] = IF k = 0 THEN hashes
        ELSE IF Len(f[k - 1]) <= 1 THEN f[k - 1] ELSE Parents(f[k - 1])
  BY DEF LayersUpTo
<1>2. \A k \in 0 .. n : g[k] = IF k = 0 THEN hashes
        ELSE IF Len(g[k - 1]) <= 1 THEN g[k - 1] ELSE Parents(g[k - 1])
  BY DEF LayersUpTo
<1>3. 0 \in S
  BY <1>1, <1>2
<1>4. \A k \in Nat : k \in S => k + 1 \in S
  BY <1>1, <1>2
<1>5. Nat \subseteq S
  <2> HIDE DEF S
  <2>1. QED BY <1>3, <1>4, SetInduction
<1>6. QED BY <1>5

LEMMA LayerOf ==
  ASSUME NEW hashes, NEW m \in Nat, NEW f, LayersUpTo(hashes, m, f), NEW k \in 0 .. m
  PROVE  Layer(hashes, k) = f[k]
<1> DEFINE after == CHOOSE g :
      g = [j \in 0 .. k |->
             IF j = 0 THEN hashes
             ELSE IF Len(g[j - 1]) <= 1 THEN g[j - 1] ELSE Parents(g[j - 1])]
<1>1. LayersUpTo(hashes, k, after)
  <2>1. \E g : LayersUpTo(hashes, k, g)
    BY LayersExist
  <2>2. QED BY <2>1, Zenon DEF LayersUpTo
<1>2. Layer(hashes, k) = after[k]
  BY DEF Layer
<1>3. after[k] = f[k]
  <2> HIDE DEF after
  <2>1. QED BY <1>1, LayersAgree
<1>4. QED BY <1>2, <1>3

LEMMA LayerRecursion ==
  ASSUME NEW hashes
  PROVE  /\ Layer(hashes, 0) = hashes
         /\ \A k \in Nat :
              /\ Len(Layer(hashes, k)) <= 1 => Layer(hashes, k + 1) = Layer(hashes, k)
              /\ ~ (Len(Layer(hashes, k)) <= 1) => Layer(hashes, k + 1) = Parents(Layer(hashes, k))
<1>1. ASSUME NEW k \in Nat
      PROVE  /\ Layer(hashes, 0) = hashes
             /\ Len(Layer(hashes, k)) <= 1 => Layer(hashes, k + 1) = Layer(hashes, k)
             /\ ~ (Len(Layer(hashes, k)) <= 1) => Layer(hashes, k + 1) = Parents(Layer(hashes, k))
  <2>1. PICK f : LayersUpTo(hashes, k + 1, f)
    BY LayersExist
  <2>2. Layer(hashes, 0) = f[0] /\ Layer(hashes, k) = f[k] /\ Layer(hashes, k + 1) = f[k + 1]
    BY <2>1, LayerOf
  <2>3. \A j \in 0 .. (k + 1) : f[j] = IF j = 0 THEN hashes
          ELSE IF Len(f[j - 1]) <= 1 THEN f[j - 1] ELSE Parents(f[j - 1])
    BY <2>1 DEF LayersUpTo
  <2>4. f[0] = hashes
    BY <2>3
  <2>5. f[k + 1] = IF Len(f[k]) <= 1 THEN f[k] ELSE Parents(f[k])
    BY <2>3
  <2>6. QED BY <2>2, <2>4, <2>5
<1>2. QED BY <1>1

\* Lists, of elements of whatever kind.
IsList(s) == \E S : s \in Seq(S)

LEMMA ListOf ==
  ASSUME NEW n \in Nat, NEW f, f = [i \in 1 .. n |-> f[i]]
  PROVE  IsList(f) /\ Len(f) = n /\ DOMAIN f = 1 .. n
<1>1. PICK S : S = {f[i] : i \in 1 .. n}
  OBVIOUS
<1>2. f \in [1 .. n -> S]
  BY <1>1
<1>3. f \in Seq(S) /\ Len(f) = n
  BY <1>2
<1>4. QED BY <1>2, <1>3 DEF IsList

LEMMA ListLen ==
  ASSUME NEW s, IsList(s)
  PROVE  Len(s) \in Nat /\ DOMAIN s = 1 .. Len(s) /\ s = [i \in 1 .. Len(s) |-> s[i]]
<1>1. PICK S : s \in Seq(S)
  BY DEF IsList
<1>2. QED BY <1>1

\* A round halves a layer, rounding up.
LEMMA ParentsOf ==
  ASSUME NEW layer, IsList(layer)
  PROVE  /\ IsList(Parents(layer))
         /\ Len(Parents(layer)) = (Len(layer) + 1) \div 2
         /\ \A i \in 1 .. (Len(layer) + 1) \div 2 : Parents(layer)[i] =
              NodeHash(layer[2 * i - 1], IF 2 * i <= Len(layer) THEN layer[2 * i] ELSE layer[2 * i - 1])
<1>1. PICK n \in Nat : n = (Len(layer) + 1) \div 2
  BY ListLen
<1>2. Parents(layer) =
        [i \in 1 .. n |->
           NodeHash(layer[2 * i - 1], IF 2 * i <= Len(layer) THEN layer[2 * i] ELSE layer[2 * i - 1])]
  BY <1>1 DEF Parents
<1>3. Parents(layer) = [i \in 1 .. n |-> Parents(layer)[i]]
  BY <1>2
<1>4. IsList(Parents(layer)) /\ Len(Parents(layer)) = n
  BY <1>3, ListOf
<1>5. QED BY <1>1, <1>2, <1>4

LEMMA LayerList ==
  ASSUME NEW hashes, IsList(hashes)
  PROVE  \A k \in Nat : IsList(Layer(hashes, k))
<1> DEFINE S == {k \in Nat : IsList(Layer(hashes, k))}
<1>1. 0 \in S
  BY LayerRecursion
<1>2. ASSUME NEW k \in Nat, k \in S
      PROVE  k + 1 \in S
  <2>1. IsList(Layer(hashes, k))
    BY <1>2
  <2>2. IsList(Parents(Layer(hashes, k)))
    BY <2>1, ParentsOf
  <2>3. Layer(hashes, k + 1) = Layer(hashes, k) \/ Layer(hashes, k + 1) = Parents(Layer(hashes, k))
    BY LayerRecursion
  <2>4. QED BY <2>1, <2>2, <2>3
<1>3. Nat \subseteq S
  <2> HIDE DEF S
  <2>1. QED BY <1>1, <1>2, SetInduction
<1>4. QED BY <1>3

\* Every round but those after the last makes the layer shorter.
LEMMA LayersShrink ==
  ASSUME NEW hashes, IsList(hashes), Len(hashes) > 0
  PROVE  \A k \in Nat : /\ Len(Layer(hashes, k)) \in Nat \ {0}
                        /\ Len(Layer(hashes, k)) = 1 \/ Len(Layer(hashes, k)) + k <= Len(hashes)
<1> DEFINE S == {k \in Nat : /\ Len(Layer(hashes, k)) \in Nat \ {0}
                             /\ Len(Layer(hashes, k)) = 1 \/ Len(Layer(hashes, k)) + k <= Len(hashes)}
<1>1. 0 \in S
  BY LayerRecursion, ListLen
<1>2. ASSUME NEW k \in Nat, k \in S
      PROVE  k + 1 \in S
  <2>1. PICK n \in Nat \ {0} : n = Len(Layer(hashes, k)) /\ (n = 1 \/ n + k <= Len(hashes))
    BY <1>2
  <2>2. CASE n <= 1
    <3>1. n = 1
      BY <2>2
    <3>2. Layer(hashes, k + 1) = Layer(hashes, k)
      BY <2>1, <2>2, LayerRecursion
    <3>3. Len(Layer(hashes, k + 1)) = n
      BY <2>1, <3>2
    <3>4. QED BY <3>1, <3>3
  <2>3. CASE ~ (n <= 1)
    <3>1. IsList(Layer(hashes, k)) /\ Layer(hashes, k + 1) = Parents(Layer(hashes, k))
      BY <2>1, <2>3, LayerRecursion, LayerList
    <3>2. Len(Layer(hashes, k + 1)) = (n + 1) \div 2
      BY <2>1, <3>1, ParentsOf
    <3>3. n > 1 /\ n + k <= Len(hashes) /\ Len(hashes) \in Nat
      BY <2>1, <2>3, ListLen
    <3>4. (n + 1) \div 2 \in Nat \ {0} /\ (n + 1) \div 2 + 1 <= n
      BY <3>3
    <3>5. QED BY <3>2, <3>3, <3>4
  <2>4. QED BY <2>2, <2>3
<1>3. Nat \subseteq S
  <2> HIDE DEF S
  <2>1. QED BY <1>1, <1>2, SetInduction
<1>4. QED BY <1>3

\* The loops of merkle_root and merkle_proof stop, after the same round.
LEMMA RoundsEnd ==
  ASSUME NEW hashes, IsList(hashes), Len(hashes) > 0
  PROVE  /\ Rounds(hashes) \in Nat
         /\ Len(Layer(hashes, Rounds(hashes))) = 1
         /\ \A j \in Nat : j < Rounds(hashes) => Len(Layer(hashes, j)) > 1
         /\ MerkleRoot(hashes) = Layer(hashes, Rounds(hashes))[1]
<1>1. PICK n \in Nat : n = Len(hashes)
  BY ListLen
<1>2. PICK T : T = {k \in 0 .. n : Len(Layer(hashes, k)) <= 1}
  OBVIOUS
<1>3. T \in SUBSET Nat /\ n \in T
  <2>1. PICK l \in Nat \ {0} : l = Len(Layer(hashes, n)) /\ (l = 1 \/ l + n <= n)
    BY <1>1, LayersShrink
  <2>2. l <= 1 /\ n \in 0 .. n
    BY <2>1
  <2>3. QED BY <1>2, <2>1, <2>2
<1>4. PICK m \in T : \A k \in T : m <= k
  BY <1>3, LeastNat
<1>5. \E k \in 0 .. n : Len(Layer(hashes, k)) <= 1 /\ \A j \in 0 .. k - 1 : Len(Layer(hashes, j)) > 1
  <2>1. \A j \in 0 .. m - 1 : Len(Layer(hashes, j)) \in Nat /\ j \notin T /\ j \in 0 .. n
    BY <1>2, <1>3, <1>4, LayersShrink
  <2>2. \A j \in 0 .. m - 1 : Len(Layer(hashes, j)) > 1
    BY <1>2, <2>1
  <2>3. QED BY <1>2, <1>4, <2>2
<1>6. PICK r \in 0 .. n : /\ r = Rounds(hashes)
                          /\ Len(Layer(hashes, r)) <= 1
                          /\ \A j \in 0 .. r - 1 : Len(Layer(hashes, j)) > 1
  BY <1>1, <1>5, Zenon DEF Rounds
<1>7. Len(Layer(hashes, r)) = 1
  <2>1. PICK l \in Nat \ {0} : l = Len(Layer(hashes, r))
    BY LayersShrink
  <2>2. l <= 1
    BY <1>6, <2>1
  <2>3. QED BY <2>1, <2>2
<1>8. Layer(hashes, n) = Layer(hashes, r)
  <2> DEFINE S == {d \in Nat : Layer(hashes, r + d) = Layer(hashes, r)}
  <2>1. 0 \in S
    OBVIOUS
  <2>2. ASSUME NEW d \in Nat, d \in S
        PROVE  d + 1 \in S
    <3>1. PICK e \in Nat : e = r + d
      OBVIOUS
    <3>2. Len(Layer(hashes, e)) = 1
      BY <1>7, <2>2, <3>1
    <3>3. Layer(hashes, e + 1) = Layer(hashes, e)
      <4>1. PICK l \in Nat : l = Len(Layer(hashes, e)) /\ l <= 1
        BY <3>2
      <4>2. QED BY <4>1, LayerRecursion
    <3>4. r + (d + 1) = e + 1
      BY <3>1
    <3>5. QED BY <2>2, <3>1, <3>3, <3>4
  <2>3. Nat \subseteq S
    <3> HIDE DEF S
    <3>1. QED BY <2>1, <2>2, SetInduction
  <2>4. n - r \in S
    BY <2>3
  <2>5. QED BY <2>4
<1>9. QED BY <1>1, <1>6, <1>7, <1>8 DEF MerkleRoot

\* The same for the place of the leaf.
PositionsUpTo(index, m, f) ==
  f = [j \in 0 .. m |-> IF j = 0 THEN index ELSE (f[j - 1] + 1) \div 2]

LEMMA PositionsExist ==
  ASSUME NEW index
  PROVE  \A m \in Nat : \E f : PositionsUpTo(index, m, f)
<1> DEFINE S == {m \in Nat : \E f : PositionsUpTo(index, m, f)}
<1>1. 0 \in S
  <2>1. PositionsUpTo(index, 0, [j \in 0 .. 0 |-> index])
    BY DEF PositionsUpTo
  <2>2. QED BY <2>1
<1>2. ASSUME NEW m \in Nat, m \in S
      PROVE  m + 1 \in S
  <2>1. PICK f : PositionsUpTo(index, m, f)
    BY <1>2
  <2>2. PICK g : g = [j \in 0 .. (m + 1) |-> IF j = m + 1 THEN (f[m] + 1) \div 2 ELSE f[j]]
    OBVIOUS
  <2>3. f = [j \in 0 .. m |-> IF j = 0 THEN index ELSE (f[j - 1] + 1) \div 2]
    BY <2>1 DEF PositionsUpTo
  <2>4. ASSUME NEW j \in 0 .. (m + 1)
        PROVE  g[j] = IF j = 0 THEN index ELSE (g[j - 1] + 1) \div 2
    <3>1. CASE j = m + 1
      BY <2>2, <3>1
    <3>2. CASE j # m + 1
      BY <2>2, <2>3, <3>2
    <3>3. QED BY <3>1, <3>2
  <2>5. PositionsUpTo(index, m + 1, g)
    BY <2>2, <2>4 DEF PositionsUpTo
  <2>6. QED BY <2>5
<1>3. Nat \subseteq S
  <2> HIDE DEF S
  <2>1. QED BY <1>1, <1>2, SetInduction
<1>4. QED BY <1>3

LEMMA PositionsAgree ==
  ASSUME NEW index, NEW m \in Nat, NEW n \in Nat, NEW f, NEW g,
         PositionsUpTo(index, m, f), PositionsUpTo(index, n, g)
  PROVE  \A k \in Nat : k <= m /\ k <= n => f[k] = g[k]
<1> DEFINE S == {k \in Nat : k <= m /\ k <= n => f[k] = g[k]}
<1>1. \A k \in 0 .. m : f[k] = IF k = 0 THEN index ELSE (f[k - 1] + 1) \div 2
  BY DEF PositionsUpTo
<1>2. \A k \in 0 .. n : g[k] = IF k = 0 THEN index ELSE (g[k - 1] + 1) \div 2
  BY DEF PositionsUpTo
<1>3. 0 \in S
  BY <1>1, <1>2
<1>4. \A k \in Nat : k \in S => k + 1 \in S
  BY <1>1, <1>2
<1>5. Nat \subseteq S
  <2> HIDE DEF S
  <2>1. QED BY <1>3, <1>4, SetInduction
<1>6. QED BY <1>5

LEMMA PositionRecursion ==
  ASSUME NEW index
  PROVE  /\ Position(index, 0) = index
         /\ \A k \in Nat : Position(index, k + 1) = (Position(index, k) + 1) \div 2
<1>1. ASSUME NEW m \in Nat, NEW f, PositionsUpTo(index, m, f), NEW k \in 0 .. m
      PROVE  Position(index, k) = f[k]
  <2> DEFINE at == CHOOSE g :
        g = [j \in 0 .. k |-> IF j = 0 THEN index ELSE (g[j - 1] + 1) \div 2]
  <2>1. PositionsUpTo(index, k, at)
    <3>1. \E g : PositionsUpTo(index, k, g)
      BY PositionsExist
    <3>2. QED BY <3>1, Zenon DEF PositionsUpTo
  <2>2. Position(index, k) = at[k]
    BY DEF Position
  <2>3. at[k] = f[k]
    <3> HIDE DEF at
    <3>1. QED BY <1>1, <2>1, PositionsAgree
  <2>4. QED BY <2>2, <2>3
<1>2. ASSUME NEW k \in Nat
      PROVE  /\ Position(index, 0) = index
             /\ Position(index, k + 1) = (Position(index, k) + 1) \div 2
  <2>1. PICK f : PositionsUpTo(index, k + 1, f)
    BY PositionsExist
  <2>2. /\ Position(index, 0) = f[0]
        /\ Position(index, k) = f[k]
        /\ Position(index, k + 1) = f[k + 1]
    BY <1>1, <2>1
  <2>3. \A j \in 0 .. (k + 1) : f[j] = IF j = 0 THEN index ELSE (f[j - 1] + 1) \div 2
    BY <2>1 DEF PositionsUpTo
  <2>4. f[0] = index /\ f[k + 1] = (f[k] + 1) \div 2
    BY <2>3
  <2>5. QED BY <2>2, <2>4
<1>3. QED BY <1>2

\* The path of verify_proof.
PathUpTo(leaf, proof, m, f) ==
  f = [k \in 0 .. m |->
         IF k = 0 THEN leaf
         ELSE IF proof[k].position = "right" THEN NodeHash(f[k - 1], proof[k].sibling)
              ELSE NodeHash(proof[k].sibling, f[k - 1])]

LEMMA PathExists ==
  ASSUME NEW leaf, NEW proof
  PROVE  \A m \in Nat : \E f : PathUpTo(leaf, proof, m, f)
<1> DEFINE S == {m \in Nat : \E f : PathUpTo(leaf, proof, m, f)}
<1>1. 0 \in S
  <2>1. PathUpTo(leaf, proof, 0, [k \in 0 .. 0 |-> leaf])
    BY DEF PathUpTo
  <2>2. QED BY <2>1
<1>2. ASSUME NEW m \in Nat, m \in S
      PROVE  m + 1 \in S
  <2>1. PICK f : PathUpTo(leaf, proof, m, f)
    BY <1>2
  <2>2. PICK g : g = [k \in 0 .. (m + 1) |->
          IF k = m + 1
          THEN (IF proof[k].position = "right" THEN NodeHash(f[m], proof[k].sibling)
                ELSE NodeHash(proof[k].sibling, f[m]))
          ELSE f[k]]
    OBVIOUS
  <2>3. f = [k \in 0 .. m |->
               IF k = 0 THEN leaf
               ELSE IF proof[k].position = "right" THEN NodeHash(f[k - 1], proof[k].sibling)
                    ELSE NodeHash(proof[k].sibling, f[k - 1])]
    BY <2>1 DEF PathUpTo
  <2>4. ASSUME NEW k \in 0 .. (m + 1)
        PROVE  g[k] = IF k = 0 THEN leaf
                      ELSE IF proof[k].position = "right" THEN NodeHash(g[k - 1], proof[k].sibling)
                           ELSE NodeHash(proof[k].sibling, g[k - 1])
    <3>1. CASE k = m + 1
      BY <2>2, <3>1
    <3>2. CASE k # m + 1
      BY <2>2, <2>3, <3>2
    <3>3. QED BY <3>1, <3>2
  <2>5. PathUpTo(leaf, proof, m + 1, g)
    BY <2>2, <2>4 DEF PathUpTo
  <2>6. QED BY <2>5
<1>3. Nat \subseteq S
  <2> HIDE DEF S
  <2>1. QED BY <1>1, <1>2, SetInduction
<1>4. QED BY <1>3

LEMMA VerifyIsPath ==
  ASSUME NEW leaf, NEW proof, NEW root, Len(proof) \in Nat
  PROVE  \E up : /\ VerifyProof(leaf, proof, root) => up[Len(proof)] = root
                 /\ up[Len(proof)] = root => VerifyProof(leaf, proof, root)
                 /\ up[0] = leaf
                 /\ \A k \in Nat : k < Len(proof) =>
                      \/ /\ proof[k + 1].position = "right"
                         /\ up[k + 1] = NodeHash(up[k], proof[k + 1].sibling)
                      \/ /\ proof[k + 1].position # "right"
                         /\ up[k + 1] = NodeHash(proof[k + 1].sibling, up[k])
<1> DEFINE up == CHOOSE f :
      f = [k \in 0 .. Len(proof) |->
             IF k = 0 THEN leaf
             ELSE IF proof[k].position = "right" THEN NodeHash(f[k - 1], proof[k].sibling)
                  ELSE NodeHash(proof[k].sibling, f[k - 1])]
<1>1. PathUpTo(leaf, proof, Len(proof), up)
  <2>1. \E f : PathUpTo(leaf, proof, Len(proof), f)
    BY PathExists
  <2>2. QED BY <2>1, Zenon DEF PathUpTo
<1>2. VerifyProof(leaf, proof, root) <=> up[Len(proof)] = root
  BY DEF VerifyProof
<1>3. PICK f : f = up
  OBVIOUS
<1>4. \A k \in 0 .. Len(proof) : f[k] =
        IF k = 0 THEN leaf
        ELSE IF proof[k].position = "right" THEN NodeHash(f[k - 1], proof[k].sibling)
             ELSE NodeHash(proof[k].sibling, f[k - 1])
  <2> HIDE DEF up
  <2>1. QED BY <1>1, <1>3 DEF PathUpTo
<1>5. f[0] = leaf
  BY <1>4
<1>6. ASSUME NEW k \in Nat, k < Len(proof)
      PROVE  \/ /\ proof[k + 1].position = "right"
                /\ f[k + 1] = NodeHash(f[k], proof[k + 1].sibling)
             \/ /\ proof[k + 1].position # "right"
                /\ f[k + 1] = NodeHash(proof[k + 1].sibling, f[k])
  <2>1. k + 1 \in 0 .. Len(proof) /\ k + 1 # 0 /\ (k + 1) - 1 = k
    BY <1>6
  <2>2. QED BY <1>4, <2>1
<1>7. QED
  <2> HIDE DEF up
  <2>1. QED BY <1>2, <1>3, <1>5, <1>6

-------------------------------------------------------------------------------
(* What proofs and roots say.                                              *)

LEMMA HashesDiffer ==
  /\ \A e, l, r : LeafHash(e) # NodeHash(l, r)
  /\ \A d, e : LeafHash(d) = LeafHash(e) => d = e
  /\ \A k, l, m, n : NodeHash(k, l) = NodeHash(m, n) => k = m /\ l = n
<1>1. \A e, l, r : LeafHash(e) # NodeHash(l, r)
  BY DEF LeafHash, NodeHash
<1>2. \A d, e : LeafHash(d) = LeafHash(e) => d = e
  BY DEF LeafHash
<1>3. \A k, l, m, n : NodeHash(k, l) = NodeHash(m, n) => k = m /\ l = n
  BY DEF NodeHash
<1>4. QED BY <1>1, <1>2, <1>3

\* Layers that are rounds, not repetitions of the root.
LEMMA RoundMade ==
  ASSUME NEW hashes, IsList(hashes), Len(hashes) > 0, NEW j \in Nat, j < Rounds(hashes)
  PROVE  /\ IsList(Layer(hashes, j))
         /\ Len(Layer(hashes, j)) \in Nat /\ Len(Layer(hashes, j)) > 1
         /\ Layer(hashes, j + 1) = Parents(Layer(hashes, j))
<1>1. IsList(Layer(hashes, j))
  BY LayerList
<1>2. PICK l \in Nat : l = Len(Layer(hashes, j)) /\ l > 1
  BY <1>1, RoundsEnd, ListLen
<1>3. ~ (l <= 1)
  BY <1>2
<1>4. QED BY <1>1, <1>2, <1>3, LayerRecursion

\* A node is a leaf or the hash of two nodes.
LEMMA NodesAre ==
  ASSUME NEW hashes, IsList(hashes), Len(hashes) > 0
  PROVE  \A j \in Nat : \A p \in 1 .. Len(Layer(hashes, j)) :
           \/ \E i \in 1 .. Len(hashes) : Layer(hashes, j)[p] = hashes[i]
           \/ \E k \in Nat : \E q, r \in 1 .. Len(Layer(hashes, k)) :
                Layer(hashes, j)[p] = NodeHash(Layer(hashes, k)[q], Layer(hashes, k)[r])
<1> DEFINE Made(j, p) ==
             \/ \E i \in 1 .. Len(hashes) : Layer(hashes, j)[p] = hashes[i]
             \/ \E k \in Nat : \E q, r \in 1 .. Len(Layer(hashes, k)) :
                  Layer(hashes, j)[p] = NodeHash(Layer(hashes, k)[q], Layer(hashes, k)[r])
           S == {j \in Nat : \A p \in 1 .. Len(Layer(hashes, j)) : Made(j, p)}
<1>1. 0 \in S
  BY LayerRecursion
<1>2. ASSUME NEW j \in Nat, j \in S
      PROVE  j + 1 \in S
  <2>1. PICK n \in Nat : n = Len(Layer(hashes, j))
    BY LayersShrink
  <2>2. CASE n <= 1
    <3>1. Layer(hashes, j + 1) = Layer(hashes, j)
      BY <2>1, <2>2, LayerRecursion
    <3>2. ASSUME NEW p \in 1 .. Len(Layer(hashes, j + 1))
          PROVE  Made(j + 1, p)
      <4>1. p \in 1 .. Len(Layer(hashes, j)) /\ Layer(hashes, j + 1)[p] = Layer(hashes, j)[p]
        BY <3>1, <3>2
      <4>2. Made(j, p)
        BY <1>2, <4>1
      <4>3. QED BY <4>1, <4>2
    <3>3. QED
      <4> HIDE DEF Made
      <4>1. QED BY <3>2
  <2>3. CASE ~ (n <= 1)
    <3>1. IsList(Layer(hashes, j)) /\ Layer(hashes, j + 1) = Parents(Layer(hashes, j))
      BY <2>1, <2>3, LayerRecursion, LayerList
    <3>2. ASSUME NEW p \in 1 .. Len(Layer(hashes, j + 1))
          PROVE  \E q, r \in 1 .. n : Layer(hashes, j + 1)[p] =
                   NodeHash(Layer(hashes, j)[q], Layer(hashes, j)[r])
      <4>1. p \in 1 .. (n + 1) \div 2
        BY <2>1, <3>1, <3>2, ParentsOf
      <4>2. 2 * p - 1 \in 1 .. n
        BY <4>1
      <4>3. PICK r \in 1 .. n : r = IF 2 * p <= n THEN 2 * p ELSE 2 * p - 1
        BY <4>1, <4>2
      <4>4. Layer(hashes, j + 1)[p] = NodeHash(Layer(hashes, j)[2 * p - 1], Layer(hashes, j)[r])
        BY <2>1, <3>1, <4>1, <4>3, ParentsOf
      <4>5. QED BY <4>2, <4>4
    <3>3. ASSUME NEW p \in 1 .. Len(Layer(hashes, j + 1))
          PROVE  Made(j + 1, p)
      <4>1. PICK q \in 1 .. Len(Layer(hashes, j)), r \in 1 .. Len(Layer(hashes, j)) :
              Layer(hashes, j + 1)[p] = NodeHash(Layer(hashes, j)[q], Layer(hashes, j)[r])
        BY <2>1, <3>2
      <4>2. QED BY <4>1
    <3>4. QED
      <4> HIDE DEF Made
      <4>1. QED BY <3>3
  <2>4. QED BY <2>2, <2>3
<1>3. Nat \subseteq S
  <2> HIDE DEF S
  <2>1. QED BY <1>1, <1>2, SetInduction
<1>4. QED BY <1>3

\* Soundness of verify_proof: what a proof of any length, with any hashes as
\* siblings, verifies against the root of a batch is a leaf of the batch.
THEOREM MerkleProofSound ==
  ASSUME NEW hashes, IsList(hashes), Len(hashes) > 0,
         \A i \in 1 .. Len(hashes) : \E e : hashes[i] = LeafHash(e),
         NEW entry, NEW proof, Len(proof) \in Nat,
         VerifyProof(LeafHash(entry), proof, MerkleRoot(hashes))
  PROVE  \E i \in 1 .. Len(hashes) : hashes[i] = LeafHash(entry)
<1>1. PICK up : /\ up[Len(proof)] = MerkleRoot(hashes)
                /\ up[0] = LeafHash(entry)
                /\ \A k \in Nat : k < Len(proof) =>
                     \/ up[k + 1] = NodeHash(up[k], proof[k + 1].sibling)
                     \/ up[k + 1] = NodeHash(proof[k + 1].sibling, up[k])
  BY VerifyIsPath
<1> DEFINE S == {k \in Nat : k <= Len(proof) =>
                   \A j \in Nat : \A p \in 1 .. Len(Layer(hashes, j)) :
                     up[k] = Layer(hashes, j)[p] =>
                       \E i \in 1 .. Len(hashes) : hashes[i] = LeafHash(entry)}
<1>2. 0 \in S
  <2>1. SUFFICES ASSUME NEW j \in Nat, NEW p \in 1 .. Len(Layer(hashes, j)),
                        LeafHash(entry) = Layer(hashes, j)[p]
                 PROVE  \E i \in 1 .. Len(hashes) : hashes[i] = LeafHash(entry)
    BY <1>1
  <2>2. QED BY <2>1, NodesAre, HashesDiffer
<1>3. ASSUME NEW k \in Nat, k \in S
      PROVE  k + 1 \in S
  <2>1. SUFFICES ASSUME k + 1 <= Len(proof), NEW j \in Nat,
                        NEW p \in 1 .. Len(Layer(hashes, j)), up[k + 1] = Layer(hashes, j)[p]
                 PROVE  \E i \in 1 .. Len(hashes) : hashes[i] = LeafHash(entry)
    OBVIOUS
  <2>2. k < Len(proof) /\ k <= Len(proof)
    BY <2>1
  <2>3. PICK l, r : up[k + 1] = NodeHash(l, r) /\ (l = up[k] \/ r = up[k])
    BY <1>1, <2>2
  <2>4. \A i \in 1 .. Len(hashes) : Layer(hashes, j)[p] # hashes[i]
    BY <2>1, <2>3, HashesDiffer
  <2>5. PICK m \in Nat : \E a, b \in 1 .. Len(Layer(hashes, m)) :
          Layer(hashes, j)[p] = NodeHash(Layer(hashes, m)[a], Layer(hashes, m)[b])
    BY <2>4, NodesAre
  <2>6. PICK a \in 1 .. Len(Layer(hashes, m)), b \in 1 .. Len(Layer(hashes, m)) :
          NodeHash(l, r) = NodeHash(Layer(hashes, m)[a], Layer(hashes, m)[b])
    BY <2>1, <2>3, <2>5
  <2>7. l = Layer(hashes, m)[a] /\ r = Layer(hashes, m)[b]
    BY <2>6, HashesDiffer, Zenon
  <2>8. QED BY <1>3, <2>2, <2>3, <2>7
<1>4. Nat \subseteq S
  <2> HIDE DEF S
  <2>1. QED BY <1>2, <1>3, SetInduction
<1>5. Rounds(hashes) \in Nat /\ 1 \in 1 .. Len(Layer(hashes, Rounds(hashes)))
      /\ up[Len(proof)] = Layer(hashes, Rounds(hashes))[1]
  BY <1>1, RoundsEnd
<1>6. Len(proof) \in S
  BY <1>4
<1>7. QED BY <1>5, <1>6

\* Completeness of merkle_proof: the proof made for a place in a batch of any
\* size verifies the leaf at that place.
THEOREM MerkleProofComplete ==
  ASSUME NEW hashes, IsList(hashes), Len(hashes) > 0, NEW index \in 1 .. Len(hashes)
  PROVE  VerifyProof(hashes[index], MerkleProof(hashes, index), MerkleRoot(hashes))
<1>1. PICK proof : proof = MerkleProof(hashes, index)
  OBVIOUS
<1>2. PICK R \in Nat : R = Rounds(hashes) /\ MerkleRoot(hashes) = Layer(hashes, R)[1]
                       /\ Len(Layer(hashes, R)) = 1
  BY RoundsEnd
<1>3. proof = [k \in 1 .. R |->
        LET layer == Layer(hashes, k - 1)
            at    == Position(index, k - 1)
        IN  IF at % 2 = 0
            THEN [sibling |-> layer[at - 1], position |-> "left"]
            ELSE [sibling |-> IF at < Len(layer) THEN layer[at + 1] ELSE layer[at],
                  position |-> "right"]]
  BY <1>1, <1>2 DEF MerkleProof
<1>4. Len(proof) = R
  <2>1. proof = [k \in 1 .. R |-> proof[k]]
    BY <1>3
  <2>2. QED BY <2>1, ListOf
<1> DEFINE leaf == hashes[index]
           root == MerkleRoot(hashes)
<1>5. PICK up : /\ VerifyProof(leaf, proof, root) => up[Len(proof)] = root
                /\ up[Len(proof)] = root => VerifyProof(leaf, proof, root)
                /\ up[0] = leaf
                /\ \A k \in Nat : k < Len(proof) =>
                      \/ /\ proof[k + 1].position = "right"
                         /\ up[k + 1] = NodeHash(up[k], proof[k + 1].sibling)
                      \/ /\ proof[k + 1].position # "right"
                         /\ up[k + 1] = NodeHash(proof[k + 1].sibling, up[k])
  <2>1. Len(proof) \in Nat
    BY <1>4
  <2> HIDE DEF leaf, root
  <2>2. QED BY <2>1, VerifyIsPath
<1> DEFINE S == {k \in Nat : k <= R =>
                   /\ Position(index, k) \in 1 .. Len(Layer(hashes, k))
                   /\ up[k] = Layer(hashes, k)[Position(index, k)]}
<1>6. 0 \in S
  BY <1>5, LayerRecursion, PositionRecursion
<1>7. ASSUME NEW k \in Nat, k \in S
      PROVE  k + 1 \in S
  <2>1. SUFFICES ASSUME k < R
                 PROVE  /\ Position(index, k + 1) \in 1 .. Len(Layer(hashes, k + 1))
                        /\ up[k + 1] = Layer(hashes, k + 1)[Position(index, k + 1)]
    OBVIOUS
  <2>2. PICK layer : layer = Layer(hashes, k)
    OBVIOUS
  <2>3. PICK n \in Nat : n = Len(layer) /\ n > 1
    BY <1>2, <2>1, <2>2, RoundMade
  <2>4. IsList(layer) /\ Layer(hashes, k + 1) = Parents(layer)
    BY <1>2, <2>1, <2>2, RoundMade
  <2>5. PICK at \in 1 .. n : at = Position(index, k) /\ up[k] = layer[at]
    BY <1>7, <2>1, <2>2, <2>3
  <2>6. PICK up2 \in 1 .. (n + 1) \div 2 : up2 = Position(index, k + 1)
                                           /\ (at = 2 * up2 \/ at = 2 * up2 - 1)
    <3>1. Position(index, k + 1) = (at + 1) \div 2
      BY <2>5, PositionRecursion
    <3>2. (at + 1) \div 2 \in 1 .. (n + 1) \div 2
      OBVIOUS
    <3>3. at = 2 * ((at + 1) \div 2) \/ at = 2 * ((at + 1) \div 2) - 1
      OBVIOUS
    <3>4. QED BY <3>1, <3>2, <3>3
  <2>7. /\ Len(Layer(hashes, k + 1)) = (n + 1) \div 2
        /\ Layer(hashes, k + 1)[up2] =
             NodeHash(layer[2 * up2 - 1], IF 2 * up2 <= n THEN layer[2 * up2] ELSE layer[2 * up2 - 1])
    BY <2>3, <2>4, ParentsOf
  <2>8. proof[k + 1] = IF at % 2 = 0
                       THEN [sibling |-> layer[at - 1], position |-> "left"]
                       ELSE [sibling |-> IF at < n THEN layer[at + 1] ELSE layer[at],
                             position |-> "right"]
    <3>1. k + 1 \in 1 .. R /\ (k + 1) - 1 = k
      BY <2>1
    <3>2. QED BY <1>3, <2>2, <2>3, <2>5, <3>1
  <2>9. CASE at = 2 * up2
    <3>1. at % 2 = 0 /\ 2 * up2 <= n
      BY <2>9
    <3>2. proof[k + 1].position = "left" /\ proof[k + 1].sibling = layer[at - 1]
      BY <2>8, <3>1
    <3>3. up[k + 1] = NodeHash(layer[at - 1], layer[at])
      BY <1>4, <1>5, <2>1, <2>5, <3>2
    <3>4. QED BY <2>6, <2>7, <2>9, <3>1, <3>3
  <2>10. CASE at = 2 * up2 - 1
    <3>1. at % 2 # 0 /\ (at < n <=> 2 * up2 <= n)
      BY <2>10
    <3>2. /\ proof[k + 1].position = "right"
          /\ proof[k + 1].sibling = IF at < n THEN layer[at + 1] ELSE layer[at]
      BY <2>8, <3>1
    <3>3. up[k + 1] = NodeHash(layer[at], IF at < n THEN layer[at + 1] ELSE layer[at])
      BY <1>4, <1>5, <2>1, <2>5, <3>2
    <3>4. at + 1 = 2 * up2
      BY <2>10
    <3>5. QED BY <2>6, <2>7, <2>10, <3>1, <3>3, <3>4
  <2>11. QED BY <2>6, <2>9, <2>10
<1>8. Nat \subseteq S
  <2> HIDE DEF S
  <2>1. QED BY <1>6, <1>7, SetInduction
<1>9. R \in S
  BY <1>8
<1>10. Position(index, R) = 1
  <2>1. PICK l \in Nat : l = Len(Layer(hashes, R)) /\ l = 1
    BY <1>2
  <2>2. Position(index, R) \in 1 .. Len(Layer(hashes, R))
    BY <1>9
  <2>3. Position(index, R) \in 1 .. l
    BY <2>1, <2>2
  <2>4. QED BY <2>1, <2>3
<1>11. up[R] = MerkleRoot(hashes)
  BY <1>2, <1>9, <1>10
<1>12. QED BY <1>1, <1>4, <1>5, <1>11

Distinct(s) == \A i, j \in 1 .. Len(s) : s[i] = s[j] => i = j

\* A round keeps nodes distinct, and only one layer of distinct nodes gives the
\* next: the last node repeated is told from a node of its own.
LEMMA ParentsDistinct ==
  ASSUME NEW a, IsList(a), Distinct(a)
  PROVE  Distinct(Parents(a))
<1>1. PICK m \in Nat : m = Len(a)
  BY ListLen
<1>2. /\ Len(Parents(a)) = (m + 1) \div 2
      /\ \A q \in 1 .. (m + 1) \div 2 :
           \E r : Parents(a)[q] = NodeHash(a[2 * q - 1], r)
  BY <1>1, ParentsOf
<1>3. ASSUME NEW q \in 1 .. (m + 1) \div 2, NEW r \in 1 .. (m + 1) \div 2,
             Parents(a)[q] = Parents(a)[r]
      PROVE  q = r
  <2>1. a[2 * q - 1] = a[2 * r - 1]
    BY <1>2, <1>3, HashesDiffer
  <2>2. 2 * q - 1 \in 1 .. m /\ 2 * r - 1 \in 1 .. m
    OBVIOUS
  <2>3. 2 * q - 1 = 2 * r - 1
    BY <1>1, <2>1, <2>2 DEF Distinct
  <2>4. QED BY <2>3
<1>4. QED BY <1>2, <1>3 DEF Distinct

LEMMA ParentsPair ==
  ASSUME NEW a, NEW b, IsList(a), IsList(b), Parents(a) = Parents(b),
         NEW q, q \in 1 .. (Len(a) + 1) \div 2, q \in 1 .. (Len(b) + 1) \div 2
  PROVE  /\ a[2 * q - 1] = b[2 * q - 1]
         /\ 2 * q <= Len(a) /\ 2 * q <= Len(b) => a[2 * q] = b[2 * q]
         /\ ~ (2 * q <= Len(a)) /\ 2 * q <= Len(b) => a[2 * q - 1] = b[2 * q]
<1>1. PICK u, x : u = a[2 * q - 1] /\ x = IF 2 * q <= Len(a) THEN a[2 * q] ELSE a[2 * q - 1]
  OBVIOUS
<1>2. PICK v, y : v = b[2 * q - 1] /\ y = IF 2 * q <= Len(b) THEN b[2 * q] ELSE b[2 * q - 1]
  OBVIOUS
<1>3. Parents(a)[q] = NodeHash(u, x)
  BY <1>1, ParentsOf
<1>4. Parents(b)[q] = NodeHash(v, y)
  BY <1>2, ParentsOf
<1>5. u = v /\ x = y
  BY <1>3, <1>4, HashesDiffer
<1>6. QED BY <1>1, <1>2, <1>5

LEMMA ParentsNotShorter ==
  ASSUME NEW a, NEW b, IsList(a), IsList(b), Distinct(b), Parents(a) = Parents(b)
  PROVE  ~ (Len(a) < Len(b))
<1>1. SUFFICES ASSUME Len(a) < Len(b) PROVE FALSE
  OBVIOUS
<1>2. PICK m \in Nat : m = Len(a)
  BY ListLen
<1>3. PICK n \in Nat : n = Len(b)
  BY ListLen
<1>4. PICK p \in Nat : p = (m + 1) \div 2
  OBVIOUS
<1>5. p = (n + 1) \div 2
  BY <1>2, <1>3, <1>4, ParentsOf
<1>6. m = 2 * p - 1 /\ n = 2 * p /\ p \in 1 .. p
  BY <1>1, <1>2, <1>3, <1>4, <1>5
<1>7. a[2 * p - 1] = b[2 * p - 1] /\ a[2 * p - 1] = b[2 * p]
  <2>1. p \in 1 .. (Len(a) + 1) \div 2 /\ p \in 1 .. (Len(b) + 1) \div 2
    BY <1>2, <1>3, <1>4, <1>5, <1>6
  <2>2. ~ (2 * p <= Len(a)) /\ 2 * p <= Len(b)
    BY <1>2, <1>3, <1>6
  <2>3. a[2 * p - 1] = b[2 * p - 1]
    BY <2>1, ParentsPair
  <2>4. a[2 * p - 1] = b[2 * p]
    BY <2>1, <2>2, ParentsPair
  <2>5. QED BY <2>3, <2>4
<1>8. 2 * p - 1 \in 1 .. n /\ 2 * p \in 1 .. n
  BY <1>6
<1>9. 2 * p - 1 = 2 * p
  BY <1>3, <1>7, <1>8 DEF Distinct
<1>10. QED BY <1>9

LEMMA ParentsInjective ==
  ASSUME NEW a, NEW b, IsList(a), IsList(b), Distinct(a), Distinct(b), Parents(a) = Parents(b)
  PROVE  a = b
<1>1. PICK m \in Nat : m = Len(a)
  BY ListLen
<1>2. PICK n \in Nat : n = Len(b)
  BY ListLen
<1>3. m = n
  <2>1. ~ (m < n) /\ ~ (n < m)
    BY <1>1, <1>2, ParentsNotShorter
  <2>2. QED BY <2>1
<1>4. PICK p \in Nat : p = (m + 1) \div 2
  OBVIOUS
<1>5. ASSUME NEW i \in 1 .. m
      PROVE  a[i] = b[i]
  <2>1. PICK q \in 1 .. p : i = 2 * q - 1 \/ i = 2 * q
    <3>1. (i + 1) \div 2 \in 1 .. p /\ (i = 2 * ((i + 1) \div 2) - 1 \/ i = 2 * ((i + 1) \div 2))
      BY <1>4
    <3>2. QED BY <3>1
  <2>2. q \in 1 .. (Len(a) + 1) \div 2 /\ q \in 1 .. (Len(b) + 1) \div 2
    BY <1>1, <1>2, <1>3, <1>4
  <2>3. a[2 * q - 1] = b[2 * q - 1]
    BY <2>2, ParentsPair
  <2>4. CASE i = 2 * q
    <3>1. 2 * q <= Len(a) /\ 2 * q <= Len(b)
      BY <1>1, <1>2, <1>3, <2>4
    <3>2. a[2 * q] = b[2 * q]
      BY <2>2, <3>1, ParentsPair
    <3>3. QED BY <2>4, <3>2
  <2>5. QED BY <2>1, <2>3, <2>4
<1>6. a = [i \in 1 .. m |-> a[i]] /\ b = [i \in 1 .. m |-> b[i]]
  BY <1>1, <1>2, <1>3, ListLen
<1>7. QED BY <1>5, <1>6

LEMMA LayersDistinct ==
  ASSUME NEW hashes, IsList(hashes), Len(hashes) > 0, Distinct(hashes)
  PROVE  \A k \in Nat : Distinct(Layer(hashes, k))
<1> DEFINE S == {k \in Nat : Distinct(Layer(hashes, k))}
<1>1. 0 \in S
  BY LayerRecursion
<1>2. ASSUME NEW k \in Nat, k \in S
      PROVE  k + 1 \in S
  <2>1. Distinct(Layer(hashes, k)) /\ IsList(Layer(hashes, k))
    BY <1>2, LayerList
  <2>2. Distinct(Parents(Layer(hashes, k)))
    BY <2>1, ParentsDistinct
  <2>3. Layer(hashes, k + 1) = Layer(hashes, k) \/ Layer(hashes, k + 1) = Parents(Layer(hashes, k))
    BY LayerRecursion
  <2>4. QED BY <2>1, <2>2, <2>3
<1>3. Nat \subseteq S
  <2> HIDE DEF S
  <2>1. QED BY <1>1, <1>2, SetInduction
<1>4. QED BY <1>3

\* Two trees with one root agree from the root down, as far as both go.
LEMMA LayersFromRoot ==
  ASSUME NEW g, IsList(g), Len(g) > 0, Distinct(g),
         NEW h, IsList(h), Len(h) > 0, Distinct(h),
         MerkleRoot(g) = MerkleRoot(h)
  PROVE  \A k \in Nat : k <= Rounds(g) /\ k <= Rounds(h) =>
           Layer(g, Rounds(g) - k) = Layer(h, Rounds(h) - k)
<1>1. PICK G \in Nat : G = Rounds(g)
  BY RoundsEnd
<1>2. PICK H \in Nat : H = Rounds(h)
  BY RoundsEnd
<1> DEFINE S == {k \in Nat : k <= G /\ k <= H => Layer(g, G - k) = Layer(h, H - k)}
<1>3. 0 \in S
  <2>1. PICK l \in Nat : l = Len(Layer(g, G)) /\ l = 1
    BY <1>1, RoundsEnd
  <2>2. PICK m \in Nat : m = Len(Layer(h, H)) /\ m = 1
    BY <1>2, RoundsEnd
  <2>3. Layer(g, G) = [i \in 1 .. l |-> Layer(g, G)[i]] /\ Layer(h, H) = [i \in 1 .. m |-> Layer(h, H)[i]]
    BY <2>1, <2>2, LayerList, ListLen
  <2>4. Layer(g, G)[1] = Layer(h, H)[1]
    BY <1>1, <1>2, RoundsEnd
  <2>5. \A i \in 1 .. l : Layer(g, G)[i] = Layer(h, H)[i]
    <3>1. \A i \in 1 .. l : i = 1
      BY <2>1
    <3>2. QED BY <2>4, <3>1
  <2>6. l = m /\ G - 0 = G /\ H - 0 = H
    BY <2>1, <2>2
  <2>7. QED BY <2>3, <2>5, <2>6
<1>4. ASSUME NEW k \in Nat, k \in S
      PROVE  k + 1 \in S
  <2>1. SUFFICES ASSUME k + 1 <= G, k + 1 <= H
                 PROVE  Layer(g, G - (k + 1)) = Layer(h, H - (k + 1))
    OBVIOUS
  <2>2. PICK x \in Nat : x = G - (k + 1) /\ x < G /\ x + 1 = G - k
    BY <2>1
  <2>3. PICK y \in Nat : y = H - (k + 1) /\ y < H /\ y + 1 = H - k
    BY <2>1
  <2>4. Layer(g, x + 1) = Layer(h, y + 1)
    BY <1>4, <2>1, <2>2, <2>3
  <2>5. IsList(Layer(g, x)) /\ Layer(g, x + 1) = Parents(Layer(g, x)) /\ Distinct(Layer(g, x))
    BY <1>1, <2>2, RoundMade, LayersDistinct
  <2>6. IsList(Layer(h, y)) /\ Layer(h, y + 1) = Parents(Layer(h, y)) /\ Distinct(Layer(h, y))
    BY <1>2, <2>3, RoundMade, LayersDistinct
  <2>7. Layer(g, x) = Layer(h, y)
    BY <2>4, <2>5, <2>6, ParentsInjective
  <2>8. QED BY <2>2, <2>3, <2>7
<1>5. Nat \subseteq S
  <2> HIDE DEF S
  <2>1. QED BY <1>3, <1>4, SetInduction
<1>6. QED BY <1>1, <1>2, <1>5

\* A list whose tree is as deep as a layer of another tree is made of leaves.
LEMMA NotShallower ==
  ASSUME NEW g, IsList(g), Len(g) > 0, Distinct(g), \A i \in 1 .. Len(g) : \E e : g[i] = LeafHash(e),
         NEW h, IsList(h), Len(h) > 0, Distinct(h),
         MerkleRoot(g) = MerkleRoot(h)
  PROVE  ~ (Rounds(g) < Rounds(h))
<1>1. SUFFICES ASSUME Rounds(g) < Rounds(h) PROVE FALSE
  OBVIOUS
<1>2. PICK G \in Nat : G = Rounds(g)
  BY RoundsEnd
<1>3. PICK H \in Nat : H = Rounds(h)
  BY RoundsEnd
<1>4. g = Layer(h, H - G)
  <2>1. G - G = 0 /\ G <= G /\ G <= H
    BY <1>1, <1>2, <1>3
  <2>2. Layer(g, G - G) = Layer(h, H - G)
    BY <1>2, <1>3, <2>1, LayersFromRoot
  <2>3. QED BY <2>1, <2>2, LayerRecursion
<1>5. PICK y \in Nat : y < H /\ y + 1 = H - G
  <2>1. H - G - 1 \in Nat /\ H - G - 1 < H /\ (H - G - 1) + 1 = H - G
    BY <1>1, <1>2, <1>3
  <2>2. QED BY <2>1
<1>6. IsList(Layer(h, y)) /\ g = Parents(Layer(h, y))
  BY <1>3, <1>4, <1>5, RoundMade
<1>7. 1 \in 1 .. Len(g)
  BY ListLen
<1>8. \E l, r : g[1] = NodeHash(l, r)
  <2>1. PICK layer : layer = Layer(h, y)
    OBVIOUS
  <2>2. PICK m \in Nat : m = Len(layer)
    BY <1>6, <2>1, ListLen
  <2>3. /\ Len(Parents(layer)) = (m + 1) \div 2
        /\ \A i \in 1 .. (m + 1) \div 2 : Parents(layer)[i] =
             NodeHash(layer[2 * i - 1], IF 2 * i <= m THEN layer[2 * i] ELSE layer[2 * i - 1])
    BY <1>6, <2>1, <2>2, ParentsOf
  <2>4. QED BY <1>6, <1>7, <2>1, <2>3
<1>9. \E e : g[1] = LeafHash(e)
  BY <1>7
<1>10. QED BY <1>8, <1>9, HashesDiffer

\* "The root hash commits to the exact set and order of all entries in the
\* batch": two batches of distinct entries with one root are the same list,
\* although an odd layer repeats its last node.
THEOREM MerkleRootCommits ==
  ASSUME NEW g, IsList(g), Len(g) > 0, Distinct(g), \A i \in 1 .. Len(g) : \E e : g[i] = LeafHash(e),
         NEW h, IsList(h), Len(h) > 0, Distinct(h), \A i \in 1 .. Len(h) : \E e : h[i] = LeafHash(e),
         MerkleRoot(g) = MerkleRoot(h)
  PROVE  g = h
<1>1. PICK G \in Nat : G = Rounds(g)
  BY RoundsEnd
<1>2. PICK H \in Nat : H = Rounds(h)
  BY RoundsEnd
<1>3. G = H
  <2>1. ~ (G < H)
    BY <1>1, <1>2, NotShallower
  <2>2. ~ (H < G)
    BY <1>1, <1>2, NotShallower
  <2>3. QED BY <2>1, <2>2
<1>4. G - G = 0 /\ G <= G
  OBVIOUS
<1>5. Layer(g, G - G) = Layer(h, G - G)
  <2>1. \A k \in Nat : k <= G /\ k <= H => Layer(g, G - k) = Layer(h, H - k)
    BY <1>1, <1>2, LayersFromRoot
  <2>2. QED BY <1>3, <1>4, <2>1
<1>6. QED BY <1>4, <1>5, LayerRecursion

-------------------------------------------------------------------------------
(* The rest of the inductive invariant.                                    *)

RowidsBounded == \E n \in Nat : \A r \in log : r.rowid <= n

CheckpointsTyped ==
  \E R : checkpoints \in Seq([from : Nat \ {0}, to : Nat \ {0}, root : R])

IndInv == IInv /\ RowidsBounded /\ CheckpointsTyped

\* What the last row says about the log.
LEMMA LastEntry ==
  ASSUME TypeOK, RowidsBounded, OneHistory
  PROVE  /\ LastEntryHash(log) \in Seq(Ids)
         /\ NextRowid(log) \in Nat \ {0}
         /\ \A r \in log : r.rowid < NextRowid(log)
         /\ \A r \in log : r.hash = LastEntryHash(log) \/ Extends(LastEntryHash(log), r.hash)
<1>1. CASE log = {}
  BY <1>1 DEF LastEntryHash, NextRowid
<1>2. CASE log # {}
  <2>1. log \in SUBSET Row
    BY DEF TypeOK
  <2>2. PICK n \in Nat : \A r \in log : r.rowid <= n
    BY DEF RowidsBounded
  <2>3. LastRow(log) \in log /\ \A r \in log : r.rowid <= LastRow(log).rowid
    BY <1>2, <2>1, <2>2, LastRowIsLast
  <2>4. PICK l \in log : l = LastRow(log) /\ \A r \in log : r.rowid <= l.rowid
    BY <2>3
  <2>5. LastEntryHash(log) = l.hash /\ NextRowid(log) = l.rowid + 1
    BY <1>2, <2>4 DEF LastEntryHash, NextRowid
  <2>6. \A r \in log : r # l => Before(r, l)
    BY <2>1, <2>4 DEF OneHistory, Before, Row
  <2>7. QED BY <2>1, <2>4, <2>5, <2>6 DEF OneHistory, Row
<1>3. QED BY <1>1, <1>2

LEMMA ExtendsAppend ==
  ASSUME NEW h \in Seq(Ids), NEW g \in Seq(Ids), NEW i \in Ids, g = h \/ Extends(h, g)
  PROVE  Extends(Append(h, i), g)
BY DEF Extends

-------------------------------------------------------------------------------
(* Steps that leave the tables alone.                                      *)

LEMMA QuietTables ==
  ASSUME IndInv, UNCHANGED <<log, gone, answered, checkpoints>>
  PROVE  OneHistory' /\ IntactVerifies' /\ AnsweredIsRecorded' /\ RowidsBounded'
         /\ CheckpointsTyped'
<1>1. OneHistory'
  BY DEF IndInv, IInv, OneHistory, Before, Extends
<1>2. IntactVerifies' /\ AnsweredIsRecorded'
  BY DEF IndInv, IInv, IntactVerifies, VerifyChain, AnsweredIsRecorded
<1>3. RowidsBounded' /\ CheckpointsTyped'
  BY DEF IndInv, RowidsBounded, CheckpointsTyped
<1>4. QED BY <1>1, <1>2, <1>3

-------------------------------------------------------------------------------
(* The two steps that change the log.                                      *)

\* A committed row is above every row and extends the history of each.
LEMMA CommitKeeps ==
  ASSUME IndInv, NEW t \in Writers, CommitLog(t)
  PROVE  /\ log' \in SUBSET Row
         /\ OneHistory' /\ IntactVerifies' /\ AnsweredIsRecorded' /\ RowidsBounded'
<1>1. PICK i \in Ids : i = thread[t].id
  BY DEF IndInv, IInv, WritersOK, CommitLog
<1>2. PICK h \in Seq(Ids) : h = LastEntryHash(log)
  BY LastEntry DEF IndInv, IInv
<1>3. PICK n \in Nat \ {0} : n = NextRowid(log)
  BY LastEntry DEF IndInv, IInv
<1>4. Append(h, i) \in Seq(Ids) /\ Append(h, i) # <<>>
      /\ Append(h, i)[Len(Append(h, i))] = i
  BY AppendProperties
<1>5. PICK w \in Row : w = [rowid |-> n, id |-> i, hash |-> Append(h, i)]
  BY <1>4 DEF Row
<1>6. log' = log \union {w}
  BY <1>1, <1>2, <1>3, <1>5 DEF CommitLog, IndInv, IInv, WritersOK
<1>7. w.rowid = n /\ w.id = i /\ w.hash = Append(h, i)
  BY <1>5
<1>8. log \in SUBSET Row /\ \A r \in log : r.rowid \in Nat /\ r.rowid < n /\ r.hash \in Seq(Ids)
  BY <1>3, LastEntry DEF IndInv, IInv, TypeOK, Row
<1>9. \A r \in log : Extends(w.hash, r.hash)
  BY <1>2, <1>7, <1>8, LastEntry, ExtendsAppend DEF IndInv, IInv
<1>10. log' \in SUBSET Row
  BY <1>6, <1>8
<1>11. OneHistory'
  <2>1. \A r \in log' : r.hash # <<>> /\ r.hash[Len(r.hash)] = r.id
    BY <1>4, <1>6, <1>7 DEF IndInv, IInv, OneHistory
  <2>2. \A r, s \in log' : r # s => r.rowid # s.rowid
    <3>1. \A r, s \in log : r # s => r.rowid # s.rowid
      BY DEF IndInv, IInv, OneHistory
    <3>2. \A r \in log : r.rowid # w.rowid
      BY <1>7, <1>8
    <3>3. QED BY <1>6, <3>1, <3>2, Zenon
  <2>3. \A r, s \in log' : r.rowid < s.rowid => Extends(s.hash, r.hash)
    <3>1. \A r, s \in log : r.rowid < s.rowid => Extends(s.hash, r.hash)
      BY DEF IndInv, IInv, OneHistory, Before
    <3>2. \A r \in log : ~ (w.rowid < r.rowid)
      BY <1>7, <1>8
    <3>3. ~ (w.rowid < w.rowid)
      BY <1>7
    <3>4. QED BY <1>6, <1>9, <3>1, <3>2, <3>3, Zenon
  <2>4. QED BY <2>1, <2>2, <2>3 DEF OneHistory, Before
<1>12. IntactVerifies'
  <2>1. \A r \in log : Below(log', r.rowid) = Below(log, r.rowid)
    BY <1>6, <1>7, <1>8 DEF Below
  <2>2. Below(log', n) = log
    BY <1>6, <1>7, <1>8 DEF Below
  <2>3. gone = {} => \A r \in log : r.hash = Append(LastEntryHash(Below(log', r.rowid)), r.id)
    BY <2>1 DEF IndInv, IInv, IntactVerifies, VerifyChain
  <2>4. w.hash = Append(LastEntryHash(Below(log', w.rowid)), w.id)
    BY <1>2, <1>7, <2>2
  <2>5. gone' = gone
    BY DEF CommitLog
  <2>6. QED BY <1>6, <2>3, <2>4, <2>5 DEF IntactVerifies, VerifyChain
<1>13. AnsweredIsRecorded'
  BY <1>1, <1>6, <1>7 DEF IndInv, IInv, AnsweredIsRecorded, CommitLog
<1>14. RowidsBounded'
  BY <1>3, <1>6, <1>7, <1>8 DEF RowidsBounded
<1>15. QED BY <1>10, <1>11, <1>12, <1>13, <1>14

\* What retention leaves is part of the same history.
LEMMA PruneKeeps ==
  ASSUME IndInv, Prune
  PROVE  /\ log' \in SUBSET Row /\ gone' \in SUBSET Ids
         /\ OneHistory' /\ IntactVerifies' /\ AnsweredIsRecorded' /\ RowidsBounded'
<1>1. log \in SUBSET Row /\ gone \in SUBSET Ids /\ now \in Nat
      /\ built \in [Ids -> Nat \union {-1}]
  BY DEF IndInv, IInv, TypeOK
<1>2. log' \in SUBSET log
  BY DEF Prune
<1>3. gone' = gone \union {r.id : r \in log \ log'}
  BY DEF Prune
<1>4. \E r \in log : r \notin log'
  <2>1. PICK r \in log : built[r.id] < now - Retention
    BY DEF Prune
  <2>2. built[r.id] \in Int
    BY <1>1 DEF Row
  <2>3. r \notin log'
    BY <1>1, <2>1, <2>2, SizeAssumption DEF Prune
  <2>4. QED BY <2>3
<1>5. gone' # {}
  BY <1>3, <1>4
<1>6. OneHistory'
  BY <1>2 DEF IndInv, IInv, OneHistory, Before
<1>7. AnsweredIsRecorded'
  <2>1. answered' = answered
    BY DEF Prune
  <2>2. QED BY <1>3, <2>1 DEF IndInv, IInv, AnsweredIsRecorded
<1>8. RowidsBounded'
  BY <1>2 DEF IndInv, RowidsBounded
<1>9. IntactVerifies'
  BY <1>5 DEF IntactVerifies
<1>10. log' \in SUBSET Row /\ gone' \in SUBSET Ids
  BY <1>1, <1>2, <1>3 DEF Row
<1>11. QED BY <1>6, <1>7, <1>8, <1>9, <1>10

-------------------------------------------------------------------------------
(* The threads.                                                            *)

LEMMA IdleIsTyped == Idle \in Writing /\ Idle.pc = "idle"
BY DEF Idle, Writing

LEMMA LoggingIsTyped ==
  ASSUME NEW i \in Ids, NEW g \in {"yes", "no"}
  PROVE  Logging(i, g) \in Writing /\ Logging(i, g).pc = "logging" /\ Logging(i, g).id = i
<1>1. <<>> \in Seq(Ids)
  OBVIOUS
<1>2. QED BY <1>1 DEF Logging, Writing

LEMMA LockedIsTyped ==
  ASSUME NEW r \in Writing, NEW h \in Seq(Ids)
  PROVE  \E w \in Writing : /\ w = [r EXCEPT !.pc = "locked", !.prev = h]
                            /\ w.pc = "locked" /\ w.prev = h /\ w.id = r.id
<1>1. [r EXCEPT !.pc = "locked"] \in Writing
  BY DEF Writing
<1>2. PICK v \in Writing : v = [r EXCEPT !.pc = "locked"]
  BY <1>1
<1>3. v.pc = "locked" /\ v.id = r.id
  BY <1>2 DEF Writing
<1>4. [v EXCEPT !.prev = h] \in Writing
  BY DEF Writing
<1>5. PICK w \in Writing : w = [v EXCEPT !.prev = h]
  BY <1>4
<1>6. w.prev = h /\ w.pc = v.pc /\ w.id = v.id
  BY <1>5 DEF Writing
<1>7. w = [r EXCEPT !.pc = "locked", !.prev = h]
  BY <1>2, <1>5
<1>8. QED BY <1>3, <1>6, <1>7

\* A thread that starts to write has its entry and no lock.
LEMMA StartsToWrite ==
  ASSUME TypeOK, WritersOK, NEW t \in Writers, NEW i \in Ids, NEW g \in {"yes", "no"},
         thread' = [thread EXCEPT ![t] = Logging(i, g)],
         UNCHANGED <<log, lock>>
  PROVE  thread' \in [Writers -> Writing] /\ WritersOK'
<1>1. PICK w \in Writing : w = Logging(i, g) /\ w.pc = "logging" /\ w.id = i
  BY LoggingIsTyped
<1>2. thread \in [Writers -> Writing] /\ thread' = [thread EXCEPT ![t] = w]
  BY <1>1 DEF TypeOK
<1>3. thread' \in [Writers -> Writing]
  BY <1>2
<1>4. thread'[t] = w /\ \A u \in Writers : u # t => thread'[u] = thread[u]
  BY <1>2
<1>5. WritersOK'
  BY <1>1, <1>4 DEF WritersOK
<1>6. QED BY <1>3, <1>5

\* A thread that stops writes nothing, and the lock it held is free.
LEMMA StopsWriting ==
  ASSUME TypeOK, WritersOK, NEW t \in Writers,
         thread' = [thread EXCEPT ![t] = Idle],
         UNCHANGED <<log, lock>> \/ thread[t].pc = "locked"
  PROVE  thread' \in [Writers -> Writing] /\ WritersOK'
<1>1. PICK w \in Writing : w = Idle /\ w.pc = "idle"
  BY IdleIsTyped
<1>2. thread \in [Writers -> Writing] /\ thread' = [thread EXCEPT ![t] = w]
  BY <1>1 DEF TypeOK
<1>3. thread' \in [Writers -> Writing]
  BY <1>2
<1>4. thread'[t] = w /\ \A u \in Writers : u # t => thread'[u] = thread[u]
  BY <1>2
<1>5. WritersOK'
  <2>1. CASE UNCHANGED <<log, lock>>
    BY <1>1, <1>4, <2>1 DEF WritersOK
  <2>2. CASE thread[t].pc = "locked"
    <3>1. \A u \in Writers : u # t => thread[u].pc # "locked"
      BY <2>2 DEF WritersOK
    <3>2. \A u \in Writers : thread'[u].pc # "locked"
      BY <1>1, <1>4, <3>1
    <3>3. \A u \in Writers : thread'[u].pc # "idle" => thread'[u].id \in Ids
      BY <1>1, <1>4 DEF WritersOK
    <3>4. QED BY <3>2, <3>3 DEF WritersOK
  <2>3. QED BY <2>1, <2>2
<1>6. QED BY <1>3, <1>5

-------------------------------------------------------------------------------
(* The inductive step.                                                     *)

LEMMA InitInv == Init => IndInv
<1> SUFFICES ASSUME Init PROVE IndInv
  OBVIOUS
<1>1. thread \in [Writers -> Writing] /\ \A t \in Writers : thread[t].pc = "idle"
  BY IdleIsTyped DEF Init
<1>2. TypeOK
  <2>1. queue \in Seq(Ids) /\ Len(queue) <= QueueSize
    BY SizeAssumption DEF Init
  <2>2. prover \in Proving
    BY DEF Init, NoProof, Proving
  <2>3. QED BY <1>1, <2>1, <2>2 DEF Init, TypeOK
<1>3. WritersOK
  BY <1>1 DEF WritersOK
<1>4. OneHistory /\ IntactVerifies /\ AnsweredIsRecorded
  BY DEF Init, OneHistory, IntactVerifies, VerifyChain, AnsweredIsRecorded
<1>5. RowidsBounded
  BY DEF Init, RowidsBounded
<1>6. CheckpointsTyped
  BY DEF Init, CheckpointsTyped
<1>7. QED BY <1>2, <1>3, <1>4, <1>5, <1>6 DEF IndInv, IInv

\* A built decision keeps a type; so does everything a step does not name.
LEMMA BuildTyped ==
  ASSUME TypeOK, NEW i \in Ids, Build(i)
  PROVE  built' \in [Ids -> Nat \union {-1}]
BY DEF TypeOK, Build

LEMMA DecideKeeps ==
  ASSUME IndInv, NEW t \in Threads, NEW i \in Ids, Decide(t, i)
  PROVE  IndInv'
<1>1. thread' \in [Writers -> Writing] /\ WritersOK'
  <2>1. thread' = [thread EXCEPT ![t] = Logging(i, "yes")]
    BY DEF Decide
  <2>2. QED BY <2>1, StartsToWrite DEF Decide, IndInv, IInv, Writers, Tables
<1>2. TypeOK'
  BY <1>1, BuildTyped DEF Decide, IndInv, IInv, TypeOK, Tables
<1>3. QED BY <1>1, <1>2, QuietTables DEF Decide, IndInv, IInv, Tables

LEMMA LogQueuedKeeps ==
  ASSUME IndInv, NEW t \in Threads, NEW i \in Ids, LogQueued(t, i)
  PROVE  IndInv'
<1>1. CASE Len(queue) < QueueSize
  <2>1. queue' \in Seq(Ids) /\ Len(queue') <= QueueSize
    <3>1. queue \in Seq(Ids) /\ queue' = Append(queue, i)
      BY <1>1 DEF LogQueued, IndInv, IInv, TypeOK
    <3>2. Append(queue, i) \in Seq(Ids) /\ Len(Append(queue, i)) = Len(queue) + 1
      BY <3>1, AppendProperties
    <3>3. QED BY <1>1, <3>1, <3>2, SizeAssumption
  <2>2. TypeOK' /\ WritersOK'
    BY <1>1, <2>1, BuildTyped DEF LogQueued, IndInv, IInv, TypeOK, WritersOK, Tables
  <2>3. QED BY <2>2, QuietTables DEF LogQueued, IndInv, IInv, Tables
<1>2. CASE ~ (Len(queue) < QueueSize)
  <2>1. thread' = [thread EXCEPT ![t] = Logging(i, "no")]
    BY <1>2 DEF LogQueued
  <2>2. thread' \in [Writers -> Writing] /\ WritersOK'
    BY <2>1, StartsToWrite DEF LogQueued, IndInv, IInv, Writers, Tables
  <2>3. TypeOK'
    BY <1>2, <2>2, BuildTyped DEF LogQueued, IndInv, IInv, TypeOK, Tables
  <2>4. QED BY <2>2, <2>3, QuietTables DEF LogQueued, IndInv, IInv, Tables
<1>3. QED BY <1>1, <1>2

LEMMA WriterTakesKeeps ==
  ASSUME IndInv, WriterTakes
  PROVE  IndInv'
<1>1. PICK i \in Ids : i = Head(queue)
  BY DEF WriterTakes, IndInv, IInv, TypeOK
<1>2. queue' \in Seq(Ids) /\ Len(queue') <= QueueSize
  <2>1. queue \in Seq(Ids) /\ queue # <<>> /\ Len(queue) <= QueueSize /\ queue' = Tail(queue)
    BY DEF WriterTakes, IndInv, IInv, TypeOK
  <2>2. Tail(queue) \in Seq(Ids) /\ Len(Tail(queue)) = Len(queue) - 1
    BY <2>1
  <2>3. QED BY <2>1, <2>2, SizeAssumption
<1>3. thread' = [thread EXCEPT ![Writer] = Logging(i, "no")]
  BY <1>1 DEF WriterTakes
<1>4. thread' \in [Writers -> Writing] /\ WritersOK'
  BY <1>3, StartsToWrite DEF WriterTakes, IndInv, IInv, Writers, Tables
<1>5. TypeOK'
  BY <1>2, <1>4 DEF WriterTakes, IndInv, IInv, TypeOK, Tables
<1>6. QED BY <1>4, <1>5, QuietTables DEF WriterTakes, IndInv, IInv, Tables

LEMMA BeginLogKeeps ==
  ASSUME IndInv, NEW t \in Writers, BeginLog(t)
  PROVE  IndInv'
<1>1. PICK h \in Seq(Ids) : h = LastEntryHash(log)
  BY LastEntry DEF IndInv, IInv
<1>2. PICK w \in Writing : w = [thread[t] EXCEPT !.pc = "locked", !.prev = h]
                           /\ w.pc = "locked" /\ w.prev = h /\ w.id = thread[t].id
  <2>1. thread[t] \in Writing
    BY DEF IndInv, IInv, TypeOK
  <2>2. PICK w \in Writing : /\ w = [thread[t] EXCEPT !.pc = "locked", !.prev = h]
                             /\ w.pc = "locked" /\ w.prev = h /\ w.id = thread[t].id
    BY <2>1, LockedIsTyped, Zenon
  <2>3. QED BY <2>2
<1>3. thread \in [Writers -> Writing] /\ thread' = [thread EXCEPT ![t] = w]
  BY <1>1, <1>2 DEF BeginLog, IndInv, IInv, TypeOK
<1>4. thread' \in [Writers -> Writing]
  BY <1>3
<1>5. thread'[t] = w /\ \A u \in Writers : u # t => thread'[u] = thread[u]
  BY <1>3
<1>6. \A u \in Writers : thread[u].pc # "locked"
  BY NameAssumption DEF BeginLog, IndInv, IInv, WritersOK, Writers
<1>7. LastEntryHash(log)' = h
  BY <1>1 DEF BeginLog, Tables
<1>8. WritersOK'
  <2>1. \A u \in Writers : thread'[u].pc # "idle" => thread'[u].id \in Ids
    BY <1>2, <1>5 DEF BeginLog, IndInv, IInv, WritersOK
  <2>2. \A u \in Writers : thread'[u].pc = "locked" => lock' = u /\ thread'[u].prev = h
    BY <1>2, <1>5, <1>6 DEF BeginLog
  <2>3. QED BY <1>7, <2>1, <2>2 DEF WritersOK
<1>9. TypeOK'
  BY <1>4 DEF BeginLog, IndInv, IInv, TypeOK, Tables
<1>10. QED BY <1>8, <1>9, QuietTables DEF BeginLog, IndInv, IInv, Tables

LEMMA CommitLogKeeps ==
  ASSUME IndInv, NEW t \in Writers, CommitLog(t)
  PROVE  IndInv'
<1>1. thread' \in [Writers -> Writing] /\ WritersOK'
  BY StopsWriting DEF CommitLog, IndInv, IInv
<1>2. answered' \in SUBSET Ids
  BY DEF CommitLog, IndInv, IInv, TypeOK, WritersOK
<1>3. late' \in SUBSET Ids
  <2>1. thread[t].id \in Ids /\ late \in SUBSET Ids
    BY DEF CommitLog, IndInv, IInv, TypeOK, WritersOK
  <2>2. late' = late \/ late' = late \union {thread[t].id}
    BY DEF CommitLog
  <2>3. QED BY <2>1, <2>2
<1>4. TypeOK'
  BY <1>1, <1>2, <1>3, CommitKeeps DEF CommitLog, IndInv, IInv, TypeOK
<1>5. CheckpointsTyped'
  BY DEF CommitLog, IndInv, CheckpointsTyped
<1>6. QED BY <1>1, <1>4, <1>5, CommitKeeps DEF IndInv, IInv

LEMMA LockTimeoutKeeps ==
  ASSUME IndInv, NEW t \in Writers, LockTimeout(t)
  PROVE  IndInv'
<1>1. thread' \in [Writers -> Writing] /\ WritersOK'
  BY StopsWriting DEF LockTimeout, IndInv, IInv, Tables
<1>2. TypeOK'
  BY <1>1 DEF LockTimeout, IndInv, IInv, TypeOK, Tables
<1>3. QED BY <1>1, <1>2, QuietTables DEF LockTimeout, IndInv, IInv, Tables

LEMMA PruneIsKept ==
  ASSUME IndInv, Prune
  PROVE  IndInv'
<1>1. \A u \in Writers : thread[u].pc # "locked"
  BY NameAssumption DEF Prune, IndInv, IInv, WritersOK, Writers
<1>2. WritersOK'
  BY <1>1 DEF Prune, IndInv, IInv, WritersOK
<1>3. TypeOK'
  BY PruneKeeps DEF Prune, IndInv, IInv, TypeOK
<1>4. CheckpointsTyped'
  BY DEF Prune, IndInv, CheckpointsTyped
<1>5. QED BY <1>2, <1>3, <1>4, PruneKeeps DEF IndInv, IInv

\* The ends of a sealed range are rowids of the batch.
LEMMA SealKeeps ==
  ASSUME IndInv, NEW force \in BOOLEAN, Seal(force)
  PROVE  IndInv'
<1>1. PICK S \in SUBSET log : S = Batch(Pending) /\ S # {}
  BY DEF Seal, Batch, Pending
<1>2. S \in SUBSET Row
  BY <1>1 DEF IndInv, IInv, TypeOK
<1>3. PICK a \in S : a = CHOOSE r \in S : \A s \in S : r.rowid <= s.rowid
  BY <1>1, <1>2, FirstRowExists
<1>4. PICK z \in S : z = LastRow(S)
  BY <1>1, <1>2, LastRowIsLast DEF IndInv, RowidsBounded
<1>5. PICK c : c = [from |-> a.rowid, to |-> z.rowid, root |-> MerkleRoot(LeafHashes(S))]
  OBVIOUS
<1>6. checkpoints' = Append(checkpoints, c) /\ sealed' = sealed \union {r.id : r \in S}
  BY <1>1, <1>3, <1>4, <1>5 DEF Seal
<1>7. a.rowid \in Nat \ {0} /\ z.rowid \in Nat \ {0}
  BY <1>2 DEF Row
<1>8. PICK R : checkpoints \in Seq([from : Nat \ {0}, to : Nat \ {0}, root : R])
  BY DEF IndInv, CheckpointsTyped
<1>9. PICK Q : Q = R \union {MerkleRoot(LeafHashes(S))}
  OBVIOUS
<1>10. PICK A : A = [from : Nat \ {0}, to : Nat \ {0}, root : Q]
  OBVIOUS
<1>11. c \in A
  BY <1>5, <1>7, <1>9, <1>10
<1>12. checkpoints \in Seq(A)
  <2>1. PICK B : B = [from : Nat \ {0}, to : Nat \ {0}, root : R]
    OBVIOUS
  <2>2. B \subseteq A
    BY <1>9, <1>10, <2>1
  <2>3. checkpoints \in Seq(B)
    BY <1>8, <2>1
  <2>4. QED BY <2>2, <2>3
<1>13. checkpoints' \in Seq(A)
  BY <1>6, <1>11, <1>12, AppendProperties
<1>14. CheckpointsTyped' /\ \A b \in DOMAIN checkpoints' :
         checkpoints'[b].from \in Nat \ {0} /\ checkpoints'[b].to \in Nat \ {0}
  <2>1. \A x \in A : x.from \in Nat \ {0} /\ x.to \in Nat \ {0}
    BY <1>10
  <2>2. \A b \in DOMAIN checkpoints' : checkpoints'[b] \in A
    BY <1>13
  <2>3. QED BY <1>10, <1>13, <2>1, <2>2 DEF CheckpointsTyped
<1>15. sealed' \in SUBSET Ids
  BY <1>2, <1>6 DEF Row, IndInv, IInv, TypeOK
<1>16. TypeOK'
  BY <1>14, <1>15 DEF Seal, IndInv, IInv, TypeOK
<1>17. WritersOK'
  BY DEF Seal, IndInv, IInv, WritersOK
<1>18. OneHistory' /\ IntactVerifies' /\ AnsweredIsRecorded' /\ RowidsBounded'
  BY DEF Seal, IndInv, IInv, OneHistory, Before, IntactVerifies, VerifyChain,
         AnsweredIsRecorded, RowidsBounded
<1>19. QED BY <1>14, <1>16, <1>17, <1>18 DEF IndInv, IInv

LEMMA CrashKeeps ==
  ASSUME IndInv, Crash
  PROVE  IndInv'
<1>1. PICK w \in Writing : w = Idle /\ w.pc = "idle"
  BY IdleIsTyped
<1>2. thread' = [t \in Writers |-> w]
  BY <1>1 DEF Crash
<1>3. thread' \in [Writers -> Writing] /\ \A t \in Writers : thread'[t].pc = "idle"
  BY <1>1, <1>2
<1>4. WritersOK'
  BY <1>3 DEF WritersOK
<1>5. queue' \in Seq(Ids) /\ Len(queue') <= QueueSize
  BY SizeAssumption DEF Crash
<1>6. prover' \in Proving
  BY DEF Crash, NoProof, Proving
<1>7. TypeOK'
  BY <1>3, <1>5, <1>6 DEF Crash, IndInv, IInv, TypeOK, Tables
<1>8. QED BY <1>4, <1>7, QuietTables DEF Crash, IndInv, IInv, Tables

\* Reading a proof changes nothing but the reader.
LEMMA ProofKeeps ==
  ASSUME IndInv, (\E i \in Ids : ProofFindsEntry(i)) \/ ProofFindsBatch \/ ProofAnswers
  PROVE  IndInv'
<1>1. UNCHANGED <<now, built, thread, lock, answered, queue, Tables>>
  BY DEF ProofFindsEntry, ProofFindsBatch, ProofAnswers
<1>2. prover' \in Proving
  <2>1. prover \in Proving
    BY DEF IndInv, IInv, TypeOK
  <2>2. CASE \E i \in Ids : ProofFindsEntry(i)
    <3>1. PICK i \in Ids, r \in log :
            prover' = [NoProof EXCEPT !.pc = "found", !.id = i, !.rowid = r.rowid]
      BY <2>2 DEF ProofFindsEntry
    <3>2. r.rowid \in Nat
      BY DEF IndInv, IInv, TypeOK, Row
    <3>3. QED BY <3>1, <3>2 DEF NoProof, Proving
  <2>3. CASE ProofFindsBatch
    <3>1. CASE prover' = [prover EXCEPT !.pc = "done"]
      BY <2>1, <3>1 DEF Proving
    <3>2. CASE \E b \in Covering(prover.rowid) :
                 prover' = [prover EXCEPT !.pc = "batched", !.batch = b]
      <4>1. PICK b \in Nat : prover' = [prover EXCEPT !.pc = "batched", !.batch = b]
        <5>1. Len(checkpoints) \in Nat
          BY DEF IndInv, CheckpointsTyped
        <5>2. PICK b \in 1 .. Len(checkpoints) :
                prover' = [prover EXCEPT !.pc = "batched", !.batch = b]
          BY <3>2 DEF Covering
        <5>3. b \in Nat
          BY <5>1
        <5>4. QED BY <5>2, <5>3
      <4>2. QED BY <2>1, <4>1 DEF Proving
    <3>3. QED BY <2>3, <3>1, <3>2 DEF ProofFindsBatch
  <2>4. CASE ProofAnswers
    <3>1. PICK x \in {"none", "valid", "invalid", "error"} :
            prover' = [prover EXCEPT !.pc = "done", !.result = x]
      BY <2>4 DEF ProofAnswers
    <3>2. QED BY <2>1, <3>1 DEF Proving
  <2>5. QED BY <2>2, <2>3, <2>4
<1>3. TypeOK' /\ WritersOK'
  BY <1>1, <1>2 DEF IndInv, IInv, TypeOK, WritersOK, Tables
<1>4. QED BY <1>1, <1>3, QuietTables DEF IndInv, IInv, Tables

LEMMA NextInv ==
  ASSUME IndInv, [Next]_vars
  PROVE  IndInv'
<1>1. ASSUME NEW t \in Threads, NEW i \in Ids, Decide(t, i) \/ LogQueued(t, i)
      PROVE  IndInv'
  BY <1>1, DecideKeeps, LogQueuedKeeps
<1>2. CASE WriterTakes
  BY <1>2, WriterTakesKeeps
<1>3. ASSUME NEW t \in Writers, Log(t)
      PROVE  IndInv'
  BY <1>3, BeginLogKeeps, CommitLogKeeps, LockTimeoutKeeps DEF Log
<1>4. CASE Prune
  BY <1>4, PruneIsKept
<1>5. ASSUME NEW force \in BOOLEAN, Seal(force)
      PROVE  IndInv'
  BY <1>5, SealKeeps
<1>6. CASE (\E i \in Ids : ProofFindsEntry(i)) \/ ProofFindsBatch \/ ProofAnswers
  BY <1>6, ProofKeeps
<1>7. CASE Crash
  BY <1>7, CrashKeeps
<1>8. CASE Tick
  <2>1. TypeOK' /\ WritersOK'
    BY <1>8 DEF Tick, IndInv, IInv, TypeOK, WritersOK, Tables
  <2>2. QED BY <1>8, <2>1, QuietTables DEF Tick, IndInv, IInv, Tables
<1>9. CASE UNCHANGED vars
  <2>1. TypeOK' /\ WritersOK'
    BY <1>9 DEF vars, IndInv, IInv, TypeOK, WritersOK
  <2>2. QED BY <1>9, <2>1, QuietTables DEF vars, IndInv, IInv
<1>10. QED
  BY <1>1, <1>2, <1>3, <1>4, <1>5, <1>6, <1>7, <1>8, <1>9 DEF Next

LEMMA Invariant == Spec => []IndInv
<1>1. IndInv /\ [Next]_vars => IndInv'
  BY NextInv
<1>2. QED BY InitInv, <1>1, PTL DEF Spec

-------------------------------------------------------------------------------
(* Rows in order, and the first of them.                                   *)

RowsApart(L) ==
  /\ L \in SUBSET Row
  /\ \E b \in Nat : \A r \in L : r.rowid <= b
  /\ \A r, s \in L : r # s => r.rowid # s.rowid

Ordered(s, n) == \A i, j \in 1 .. n : i < j => s[i].rowid < s[j].rowid

\* As many rows can be put in order as there are: the greatest goes last.
LEMMA OrderExists ==
  ASSUME NEW L, RowsApart(L)
  PROVE  \A n \in Nat : \A T \in SUBSET L :
           IsFiniteSet(T) /\ Cardinality(T) = n => \E s \in [1 .. n -> T] : Ordered(s, n)
<1> DEFINE S == {n \in Nat : \A T \in SUBSET L :
                   IsFiniteSet(T) /\ Cardinality(T) = n => \E s \in [1 .. n -> T] : Ordered(s, n)}
<1>1. 0 \in S
  <2>1. ASSUME NEW T \in SUBSET L
        PROVE  \E s \in [1 .. 0 -> T] : Ordered(s, 0)
    <3>1. [i \in 1 .. 0 |-> i] \in [1 .. 0 -> T] /\ Ordered([i \in 1 .. 0 |-> i], 0)
      BY DEF Ordered
    <3>2. QED BY <3>1
  <2>2. QED BY <2>1
<1>2. ASSUME NEW n \in Nat, n \in S
      PROVE  n + 1 \in S
  <2>1. SUFFICES ASSUME NEW T \in SUBSET L, IsFiniteSet(T), Cardinality(T) = n + 1
                 PROVE  \E s \in [1 .. (n + 1) -> T] : Ordered(s, n + 1)
    OBVIOUS
  <2>2. T # {}
    BY <2>1, FS_EmptySet
  <2>3. PICK z \in T : \A r \in T : r.rowid <= z.rowid
    BY <2>2, LastRowIsLast DEF RowsApart
  <2>4. PICK U \in SUBSET T : U = T \ {z}
    OBVIOUS
  <2>5. IsFiniteSet(U) /\ Cardinality(U) = n
    <3>1. IsFiniteSet(U) /\ Cardinality(U) = Cardinality(T) - 1
      BY <2>1, <2>3, <2>4, FS_RemoveElement
    <3>2. QED BY <2>1, <3>1
  <2>6. PICK s \in [1 .. n -> U] : Ordered(s, n)
    BY <1>2, <2>4, <2>5
  <2>7. PICK q : q = [i \in 1 .. (n + 1) |-> IF i = n + 1 THEN z ELSE s[i]]
    OBVIOUS
  <2>8. q \in [1 .. (n + 1) -> T] /\ q[n + 1] = z /\ \A i \in 1 .. n : q[i] = s[i] /\ q[i] \in U
    <3>1. \A i \in 1 .. (n + 1) : i # n + 1 => i \in 1 .. n
      OBVIOUS
    <3>2. QED BY <2>3, <2>4, <2>6, <2>7, <3>1
  <2>9. \A r \in U : r.rowid < z.rowid
    <3>1. \A r \in U : r # z /\ r.rowid <= z.rowid /\ r.rowid # z.rowid
      BY <2>3, <2>4 DEF RowsApart
    <3>2. \A r \in L : r.rowid \in Nat
      BY DEF RowsApart, Row
    <3>3. QED BY <2>4, <3>1, <3>2
  <2>10. Ordered(q, n + 1)
    <3>1. ASSUME NEW i \in 1 .. (n + 1), NEW j \in 1 .. (n + 1), i < j
          PROVE  q[i].rowid < q[j].rowid
      <4>1. i \in 1 .. n
        BY <3>1
      <4>2. CASE j = n + 1
        BY <2>8, <2>9, <4>1, <4>2
      <4>3. CASE j # n + 1
        <5>1. j \in 1 .. n
          BY <4>3
        <5>2. QED BY <2>6, <2>8, <3>1, <4>1, <5>1 DEF Ordered
      <4>4. QED BY <4>2, <4>3
    <3>2. QED BY <3>1 DEF Ordered
  <2>11. QED BY <2>8, <2>10
<1>3. Nat \subseteq S
  <2> HIDE DEF S
  <2>1. QED BY <1>1, <1>2, SetInduction
<1>4. QED BY <1>3

LEMMA InOrder ==
  ASSUME NEW L, RowsApart(L), NEW T \in SUBSET L, IsFiniteSet(T)
  PROVE  /\ Cardinality(T) \in Nat
         /\ InRowidOrder(T) \in [1 .. Cardinality(T) -> T]
         /\ \A r \in T : \E k \in 1 .. Cardinality(T) : InRowidOrder(T)[k] = r
<1>1. PICK n \in Nat : n = Cardinality(T)
  BY FS_CardinalityType
<1>2. \E s \in [1 .. n -> T] : Ordered(s, n)
  BY <1>1, OrderExists
<1>3. PICK s : s = InRowidOrder(T)
  OBVIOUS
<1>4. s \in [1 .. n -> T] /\ \A i, j \in 1 .. n : i < j => s[i].rowid < s[j].rowid
  <2>1. \E f \in [1 .. Cardinality(T) -> T] :
          \A i, j \in 1 .. Cardinality(T) : i < j => f[i].rowid < f[j].rowid
    BY <1>1, <1>2 DEF Ordered
  <2>2. /\ s \in [1 .. Cardinality(T) -> T]
        /\ \A i, j \in 1 .. Cardinality(T) : i < j => s[i].rowid < s[j].rowid
    BY <1>3, <2>1, Zenon DEF InRowidOrder
  <2>3. QED BY <1>1, <2>2
<1>5. s \in Injection(1 .. n, T)
  <2>1. \A r \in T : r.rowid \in Nat
    BY DEF RowsApart, Row
  <2>2. \A i, j \in 1 .. n : s[i] = s[j] => i = j
    BY <1>4, <2>1
  <2>3. QED BY <1>4, <2>2 DEF Injection, IsInjective
<1>6. IsFiniteSet(1 .. n) /\ Cardinality(1 .. n) = n
  BY FS_Interval
<1>7. s \in Surjection(1 .. n, T)
  BY <1>1, <1>5, <1>6, FS_Injection
<1>8. \A r \in T : \E k \in 1 .. n : s[k] = r
  BY <1>7 DEF Surjection
<1>9. QED BY <1>1, <1>3, <1>4, <1>8

LEMMA LeafHashesOf ==
  ASSUME NEW L, RowsApart(L), NEW T \in SUBSET L, IsFiniteSet(T), T # {}
  PROVE  /\ IsList(LeafHashes(T)) /\ Len(LeafHashes(T)) = Cardinality(T) /\ Len(LeafHashes(T)) > 0
         /\ LeafHashes(T) = [i \in 1 .. Cardinality(T) |-> LeafHash(InRowidOrder(T)[i].id)]
<1>1. PICK n \in Nat : n = Cardinality(T)
  BY FS_CardinalityType
<1>2. LeafHashes(T) = [i \in 1 .. n |-> LeafHash(InRowidOrder(T)[i].id)]
  BY <1>1 DEF LeafHashes
<1>3. LeafHashes(T) = [i \in 1 .. n |-> LeafHashes(T)[i]]
  BY <1>2
<1>4. IsList(LeafHashes(T)) /\ Len(LeafHashes(T)) = n
  BY <1>3, ListOf
<1>5. n > 0
  BY <1>1, FS_EmptySet
<1>6. QED BY <1>1, <1>2, <1>4, <1>5

\* pending[:MERKLE_BATCH_SIZE] is a beginning of pending, of at most that size.
LEMMA BatchOf ==
  ASSUME NEW P, RowsApart(P), IsFiniteSet(P), Batch(P) # {}
  PROVE  /\ Batch(P) \in SUBSET P /\ IsFiniteSet(Batch(P))
         /\ Cardinality(Batch(P)) \in 1 .. BatchSize
         /\ \A r \in P, z \in Batch(P) : r.rowid <= z.rowid => r \in Batch(P)
<1>1. PICK S \in SUBSET P : S = Batch(P)
  BY DEF Batch
<1>2. \A r \in P : r \in S <=> Cardinality(Below(P, r.rowid)) < BatchSize
  BY <1>1 DEF Batch
<1>3. \A r \in P : r.rowid \in Nat
  BY DEF RowsApart, Row
<1>4. IsFiniteSet(S) /\ Cardinality(S) \in Nat
  BY FS_Subset, FS_CardinalityType
<1>5. ASSUME NEW r \in P
      PROVE  IsFiniteSet(Below(P, r.rowid)) /\ Cardinality(Below(P, r.rowid)) \in Nat
  <2>1. Below(P, r.rowid) \in SUBSET P
    BY DEF Below
  <2>2. QED BY <2>1, FS_Subset, FS_CardinalityType
<1>6. ASSUME NEW r \in P, NEW z \in S, r.rowid <= z.rowid
      PROVE  r \in S
  <2>1. Below(P, r.rowid) \in SUBSET Below(P, z.rowid)
    BY <1>3, <1>6 DEF Below
  <2>2. Cardinality(Below(P, r.rowid)) <= Cardinality(Below(P, z.rowid))
    BY <1>5, <2>1, FS_Subset
  <2>3. Cardinality(Below(P, z.rowid)) < BatchSize
    BY <1>2
  <2>4. Cardinality(Below(P, r.rowid)) < BatchSize
    BY <1>5, <2>2, <2>3, SizeAssumption
  <2>5. QED BY <1>2, <2>4
<1>7. PICK z \in S : \A r \in S : r.rowid <= z.rowid
  <2>1. S \in SUBSET Row /\ S # {}
    BY <1>1 DEF RowsApart
  <2>2. QED BY <2>1, LastRowIsLast DEF RowsApart
<1>8. S \in SUBSET (Below(P, z.rowid) \union {z})
  <2>1. \A r \in S : r # z => r.rowid # z.rowid
    BY DEF RowsApart
  <2>2. QED BY <1>3, <1>7, <2>1 DEF Below
<1>9. Cardinality(S) <= BatchSize
  <2>1. PICK B : B = Below(P, z.rowid)
    OBVIOUS
  <2>2. IsFiniteSet(B) /\ Cardinality(B) \in Nat /\ Cardinality(B) < BatchSize
    BY <1>2, <1>5, <2>1
  <2>3. z \notin B
    BY <1>3, <2>1 DEF Below
  <2>4. IsFiniteSet(B \union {z}) /\ Cardinality(B \union {z}) = Cardinality(B) + 1
    BY <2>2, <2>3, FS_AddElement
  <2>5. Cardinality(S) <= Cardinality(B \union {z})
    BY <1>8, <2>1, <2>4, FS_Subset
  <2>6. QED BY <1>4, <2>2, <2>4, <2>5, SizeAssumption
<1>10. Cardinality(S) # 0
  BY <1>1, <1>4, FS_EmptySet
<1>11. QED BY <1>1, <1>4, <1>6, <1>9, <1>10, SizeAssumption

-------------------------------------------------------------------------------
(* Entries are in one place.                                               *)

LEMMA LogApart ==
  ASSUME IndInv
  PROVE  \A T \in SUBSET log : RowsApart(T)
BY DEF IndInv, IInv, TypeOK, OneHistory, RowidsBounded, RowsApart

LEMMA QuietEntries ==
  ASSUME OnePlace, WrittenOnce, UNCHANGED <<built, thread, queue, log, sealed>>
  PROVE  OnePlace' /\ WrittenOnce'
BY DEF OnePlace, WrittenOnce, InFlight, InThread, InQueue, InLog

\* A decision that is built goes to a thread or to the queue, and was nowhere.
LEMMA NewEntryPlaced ==
  ASSUME IndInv, OnePlace, WrittenOnce, NEW i \in Ids, Build(i), UNCHANGED <<log, sealed>>,
         \A j \in Ids : InFlight(j)' => InFlight(j) \/ j = i
  PROVE  WrittenOnce'
<1>1. built' \in [Ids -> Int] /\ built'[i] # -1 /\ \A j \in Ids : j # i => built'[j] = built[j]
  BY DEF IndInv, IInv, TypeOK, Build
<1>2. built[i] = -1 /\ ~ InLog(i) /\ i \notin sealed
  BY DEF Build, WrittenOnce
<1>3. \A j \in Ids : InLog(j)' <=> InLog(j)
  BY DEF InLog
<1>4. ASSUME NEW j \in Ids, built'[j] = -1 \/ InFlight(j)'
      PROVE  ~ InLog(j)' /\ j \notin sealed'
  <2>1. CASE j = i
    BY <1>2, <1>3, <2>1
  <2>2. CASE j # i
    BY <1>1, <1>3, <1>4, <2>2 DEF WrittenOnce
  <2>3. QED BY <2>1, <2>2
<1>5. ASSUME NEW j \in Ids, built'[j] = -1
      PROVE  ~ InFlight(j)'
  <2>1. j # i /\ built[j] = -1
    BY <1>1, <1>5
  <2>2. QED BY <2>1 DEF WrittenOnce
<1>6. QED BY <1>4, <1>5 DEF WrittenOnce

\* A thread that takes an entry nobody has.
LEMMA ThreadTakes ==
  ASSUME IndInv, OnePlace, NEW t \in Writers, NEW i \in Ids, NEW g \in {"yes", "no"},
         thread[t].pc = "idle", ~ \E u \in Writers : InThread(u, i),
         thread' = [thread EXCEPT ![t] = Logging(i, g)]
  PROVE  /\ \A u \in Writers, j \in Ids :
              InThread(u, j)' <=> (u = t /\ j = i) \/ (u # t /\ InThread(u, j))
         /\ \A j \in Ids, u, v \in Writers : InThread(u, j)' /\ InThread(v, j)' => u = v
<1>1. PICK w \in Writing : w = Logging(i, g) /\ w.pc = "logging" /\ w.id = i
  BY LoggingIsTyped
<1>2. thread \in [Writers -> Writing] /\ thread' = [thread EXCEPT ![t] = w]
  BY <1>1 DEF IndInv, IInv, TypeOK
<1>3. thread'[t] = w /\ \A u \in Writers : u # t => thread'[u] = thread[u]
  BY <1>2
<1>4. \A u \in Writers, j \in Ids :
        InThread(u, j)' <=> (u = t /\ j = i) \/ (u # t /\ InThread(u, j))
  BY <1>1, <1>3 DEF InThread
<1>5. \A j \in Ids, u, v \in Writers : InThread(u, j)' /\ InThread(v, j)' => u = v
  BY <1>4 DEF OnePlace
<1>6. QED BY <1>4, <1>5

LEMMA DecidePlaces ==
  ASSUME IndInv, OnePlace, WrittenOnce, NEW t \in Threads, NEW i \in Ids, NEW g \in {"yes", "no"},
         thread[t].pc = "idle", Build(i),
         thread' = [thread EXCEPT ![t] = Logging(i, g)], UNCHANGED <<queue, log, sealed>>
  PROVE  OnePlace' /\ WrittenOnce'
<1>1. ~ InFlight(i)
  BY DEF Build, WrittenOnce
<1>2. ~ InQueue(i) /\ ~ \E u \in Writers : InThread(u, i)
  BY <1>1 DEF InFlight
<1>3. t \in Writers
  BY DEF Writers
<1>4. /\ \A u \in Writers, j \in Ids :
           InThread(u, j)' <=> (u = t /\ j = i) \/ (u # t /\ InThread(u, j))
      /\ \A j \in Ids, u, v \in Writers : InThread(u, j)' /\ InThread(v, j)' => u = v
  BY <1>2, <1>3, ThreadTakes
<1>5. \A j \in Ids : InQueue(j)' <=> InQueue(j)
  BY DEF InQueue
<1>6. OnePlace'
  <2>1. \A j \in Ids, u \in Writers : ~ (InThread(u, j)' /\ InQueue(j)')
    BY <1>2, <1>4, <1>5 DEF OnePlace
  <2>2. \A j, k \in DOMAIN queue' : queue'[j] = queue'[k] => j = k
    BY DEF OnePlace
  <2>3. QED BY <1>4, <2>1, <2>2 DEF OnePlace
<1>7. \A j \in Ids : InFlight(j)' => InFlight(j) \/ j = i
  BY <1>4, <1>5 DEF InFlight
<1>8. QED BY <1>6, <1>7, NewEntryPlaced

LEMMA LogQueuedPlaces ==
  ASSUME IndInv, OnePlace, WrittenOnce, NEW t \in Threads, NEW i \in Ids, LogQueued(t, i)
  PROVE  OnePlace' /\ WrittenOnce'
<1>1. CASE Len(queue) < QueueSize
  <2>1. PICK n \in Nat : n = Len(queue) /\ queue \in Seq(Ids) /\ DOMAIN queue = 1 .. n
    BY DEF IndInv, IInv, TypeOK
  <2>2. queue' = Append(queue, i) /\ thread' = thread
    BY <1>1 DEF LogQueued
  <2>3. /\ DOMAIN queue' = 1 .. (n + 1) /\ queue'[n + 1] = i
        /\ \A k \in 1 .. n : queue'[k] = queue[k]
    BY <2>1, <2>2, AppendProperties
  <2>4. ~ InFlight(i) /\ UNCHANGED <<log, sealed>> /\ Build(i)
    BY DEF LogQueued, Build, WrittenOnce, Tables
  <2>5. \A j \in Ids : InQueue(j)' <=> InQueue(j) \/ j = i
    <3>1. \A k \in 1 .. (n + 1) : k \in 1 .. n \/ k = n + 1
      OBVIOUS
    <3>2. \A k \in 1 .. n : k \in 1 .. (n + 1)
      OBVIOUS
    <3>3. n + 1 \in 1 .. (n + 1)
      OBVIOUS
    <3>4. QED BY <2>1, <2>3, <3>1, <3>2, <3>3 DEF InQueue
  <2>6. \A u \in Writers, j \in Ids : InThread(u, j)' <=> InThread(u, j)
    BY <2>2 DEF InThread
  <2>7. OnePlace'
    <3>1. \A j, k \in DOMAIN queue' : queue'[j] = queue'[k] => j = k
      <4>1. \A k \in 1 .. n : queue[k] # i
        BY <2>1, <2>4 DEF InFlight, InQueue
      <4>2. QED BY <2>1, <2>3, <4>1 DEF OnePlace
    <3>2. \A j \in Ids, u \in Writers : ~ (InThread(u, j)' /\ InQueue(j)')
      BY <2>4, <2>5, <2>6 DEF OnePlace, InFlight
    <3>3. \A j \in Ids, u, v \in Writers : InThread(u, j)' /\ InThread(v, j)' => u = v
      BY <2>6 DEF OnePlace
    <3>4. QED BY <3>1, <3>2, <3>3 DEF OnePlace
  <2>8. \A j \in Ids : InFlight(j)' => InFlight(j) \/ j = i
    BY <2>5, <2>6 DEF InFlight
  <2>9. QED BY <2>4, <2>7, <2>8, NewEntryPlaced
<1>2. CASE ~ (Len(queue) < QueueSize)
  <2>1. thread' = [thread EXCEPT ![t] = Logging(i, "no")] /\ UNCHANGED <<queue, log, sealed>>
    BY <1>2 DEF LogQueued, Tables
  <2>2. QED BY <2>1, DecidePlaces DEF LogQueued
<1>3. QED BY <1>1, <1>2

\* The background thread takes the head of the queue.
LEMMA WriterTakesPlaces ==
  ASSUME IndInv, OnePlace, WrittenOnce, WriterTakes
  PROVE  OnePlace' /\ WrittenOnce'
<1>1. PICK n \in Nat : n = Len(queue) /\ n > 0 /\ queue \in Seq(Ids) /\ DOMAIN queue = 1 .. n
  BY DEF IndInv, IInv, TypeOK, WriterTakes
<1>2. PICK i \in Ids : i = queue[1] /\ i = Head(queue)
  BY <1>1
<1>3. /\ DOMAIN queue' = 1 .. (n - 1)
      /\ \A k \in 1 .. (n - 1) : queue'[k] = queue[k + 1]
  BY <1>1 DEF WriterTakes
<1>4. InQueue(i)
  BY <1>1, <1>2 DEF InQueue
<1>5. \A u \in Writers : ~ InThread(u, i)
  BY <1>4 DEF OnePlace
<1>6. Writer \in Writers /\ thread' = [thread EXCEPT ![Writer] = Logging(i, "no")]
      /\ thread[Writer].pc = "idle"
  BY <1>2 DEF WriterTakes, Writers
<1>7. /\ \A u \in Writers, j \in Ids :
           InThread(u, j)' <=> (u = Writer /\ j = i) \/ (u # Writer /\ InThread(u, j))
      /\ \A j \in Ids, u, v \in Writers : InThread(u, j)' /\ InThread(v, j)' => u = v
  BY <1>5, <1>6, ThreadTakes
<1>8. \A j \in Ids : InQueue(j)' => InQueue(j) /\ j # i
  <2>1. ASSUME NEW j \in Ids, NEW k \in 1 .. (n - 1), queue'[k] = j
        PROVE  InQueue(j) /\ j # i
    <3>1. k + 1 \in 1 .. n /\ k + 1 # 1 /\ 1 \in 1 .. n /\ queue[k + 1] = j
      BY <1>3, <2>1
    <3>2. InQueue(j)
      BY <1>1, <3>1 DEF InQueue
    <3>3. j # i
      BY <1>1, <1>2, <3>1 DEF OnePlace
    <3>4. QED BY <3>2, <3>3
  <2>2. QED BY <1>3, <2>1 DEF InQueue
<1>9. OnePlace'
  <2>1. \A j \in Ids, u \in Writers : ~ (InThread(u, j)' /\ InQueue(j)')
    BY <1>7, <1>8 DEF OnePlace
  <2>2. \A j, k \in DOMAIN queue' : queue'[j] = queue'[k] => j = k
    <3>1. \A k \in 1 .. (n - 1) : k + 1 \in 1 .. n /\ k \in Int
      OBVIOUS
    <3>2. \A j, k \in 1 .. (n - 1) : queue[j + 1] = queue[k + 1] => j + 1 = k + 1
      BY <1>1, <3>1 DEF OnePlace
    <3>3. \A j, k \in 1 .. (n - 1) : j + 1 = k + 1 => j = k
      OBVIOUS
    <3>4. QED BY <1>3, <3>2, <3>3
  <2>3. QED BY <1>7, <2>1, <2>2 DEF OnePlace
<1>10. \A j \in Ids : InFlight(j)' => InFlight(j)
  BY <1>4, <1>7, <1>8 DEF InFlight
<1>11. \A j \in Ids : InLog(j)' <=> InLog(j)
  BY DEF InLog, WriterTakes, Tables
<1>12. WrittenOnce'
  BY <1>10, <1>11 DEF WrittenOnce, WriterTakes, Tables
<1>13. QED BY <1>9, <1>12

\* A thread that becomes idle has no entry; the other threads keep theirs.
LEMMA ThreadStops ==
  ASSUME IndInv, OnePlace, NEW t \in Writers,
         thread' = [thread EXCEPT ![t] = Idle], UNCHANGED queue
  PROVE  /\ OnePlace'
         /\ \A j \in Ids : InFlight(j)' => InFlight(j)
         /\ \A j \in Ids : InThread(t, j) => ~ InFlight(j)'
<1>1. thread \in [Writers -> Writing]
  BY DEF IndInv, IInv, TypeOK
<1>2. thread'[t].pc = "idle" /\ \A u \in Writers : u # t => thread'[u] = thread[u]
  BY <1>1 DEF Idle
<1>3. \A u \in Writers, j \in Ids : InThread(u, j)' <=> u # t /\ InThread(u, j)
  BY <1>2 DEF InThread
<1>4. \A j \in Ids : InQueue(j)' <=> InQueue(j)
  BY DEF InQueue
<1>5. OnePlace'
  <2>1. \A j \in Ids, u \in Writers : ~ (InThread(u, j)' /\ InQueue(j)')
    BY <1>3, <1>4 DEF OnePlace
  <2>2. \A j, k \in DOMAIN queue' : queue'[j] = queue'[k] => j = k
    BY DEF OnePlace
  <2>3. \A j \in Ids, u, v \in Writers : InThread(u, j)' /\ InThread(v, j)' => u = v
    BY <1>3 DEF OnePlace
  <2>4. QED BY <2>1, <2>2, <2>3 DEF OnePlace
<1>6. \A j \in Ids : InFlight(j)' => InFlight(j)
  BY <1>3, <1>4 DEF InFlight
<1>7. \A j \in Ids : InThread(t, j) => ~ InFlight(j)'
  BY <1>3, <1>4 DEF InFlight, OnePlace
<1>8. QED BY <1>5, <1>6, <1>7

-------------------------------------------------------------------------------
(* Checkpoints and proofs: steps that leave the tables alone.              *)

LEMMA QuietCheckpoints ==
  ASSUME SealInv, UNCHANGED <<log, gone, checkpoints, sealed, late>>
  PROVE  IsFiniteSet(log)' /\ RangesOK' /\ RootsOK' /\ RangesIntact' /\ NoneSkipped'
         /\ \A n : Covering(n)' = Covering(n)
<1>1. \A n : Covering(n)' = Covering(n)
  BY DEF Covering
<1>2. IsFiniteSet(log)' /\ RootsOK'
  BY DEF SealInv, RootsOK
<1>3. RangesOK'
  BY <1>1 DEF SealInv, RangesOK
<1>4. RangesIntact'
  BY DEF SealInv, RangesIntact, RangeRows
<1>5. NoneSkipped'
  BY DEF SealInv, NoneSkipped, SealedUpTo
<1>6. QED BY <1>1, <1>2, <1>3, <1>4, <1>5

LEMMA QuietProver ==
  ASSUME SealInv, UNCHANGED <<log, gone, checkpoints, sealed, late>>,
         UNCHANGED prover \/ prover' = NoProof
  PROVE  ProverOK' /\ ProofsSpeakTrue'
<1>1. CASE UNCHANGED prover
  BY <1>1, QuietCheckpoints DEF SealInv, ProverOK, ProofsSpeakTrue
<1>2. CASE prover' = NoProof
  BY <1>2 DEF NoProof, ProverOK, ProofsSpeakTrue
<1>3. QED BY <1>1, <1>2

LEMMA InitSeal == Init => SealInv
<1> SUFFICES ASSUME Init PROVE SealInv
  OBVIOUS
<1>1. \A t \in Writers : thread[t].pc = "idle"
  BY DEF Init, Idle
<1>2. \A i \in Ids, t \in Writers : ~ InThread(t, i)
  BY <1>1 DEF InThread
<1>3. DOMAIN queue = {} /\ DOMAIN checkpoints = {}
  BY DEF Init
<1>4. \A i \in Ids : ~ InFlight(i) /\ ~ InQueue(i) /\ ~ InLog(i)
  BY <1>2, <1>3 DEF Init, InFlight, InQueue, InLog
<1>5. OnePlace
  BY <1>3, <1>4 DEF OnePlace, InFlight
<1>6. WrittenOnce
  BY <1>4 DEF Init, WrittenOnce
<1>7. RangesOK /\ RootsOK /\ RangesIntact
  BY <1>3 DEF Init, RangesOK, RootsOK, RangesIntact
<1>8. ProverOK /\ ProofsSpeakTrue
  BY DEF Init, NoProof, ProverOK, ProofsSpeakTrue
<1>9. IsFiniteSet(log)
  BY FS_EmptySet DEF Init
<1>10. NoneSkipped
  BY DEF Init, NoneSkipped
<1>11. QED BY <1>5, <1>6, <1>7, <1>8, <1>9, <1>10 DEF SealInv

-------------------------------------------------------------------------------
(* The steps that write, delete and seal.                                  *)

LEMMA SealedUpToIsRowid ==
  ASSUME IndInv
  PROVE  SealedUpTo \in Nat
<1>1. CASE checkpoints = <<>>
  BY <1>1 DEF SealedUpTo
<1>2. CASE checkpoints # <<>>
  <2>1. Len(checkpoints) \in DOMAIN checkpoints
    BY <1>2 DEF IndInv, CheckpointsTyped
  <2>2. QED BY <1>2, <2>1 DEF SealedUpTo, IndInv, IInv, TypeOK
<1>3. QED BY <1>1, <1>2

LEMMA CommitAdds ==
  ASSUME IndInv, NEW t \in Writers, CommitLog(t)
  PROVE  \E w : /\ w.id = thread[t].id /\ w.id \in Ids
                /\ log' = log \union {w}
                /\ w.rowid \in Nat
                /\ \A r \in log : r.rowid \in Nat /\ r.rowid < w.rowid
                /\ late' = IF w.rowid <= SealedUpTo THEN late \union {w.id} ELSE late
<1>1. PICK i \in Ids : i = thread[t].id
  BY DEF IndInv, IInv, WritersOK, CommitLog
<1>2. PICK n \in Nat : n = NextRowid(log)
  BY LastEntry DEF IndInv, IInv
<1>3. PICK w : w = [rowid |-> n, id |-> i, hash |-> Append(thread[t].prev, i)]
  OBVIOUS
<1>4. w.rowid = n /\ w.id = i
  BY <1>3
<1>5. log' = log \union {w}
  BY <1>1, <1>2, <1>3 DEF CommitLog
<1>6. \A r \in log : r.rowid \in Nat /\ r.rowid < n
  BY <1>2, LastEntry DEF IndInv, IInv, TypeOK, Row
<1>7. late' = IF w.rowid <= SealedUpTo THEN late \union {w.id} ELSE late
  BY <1>1, <1>2, <1>4 DEF CommitLog
<1>8. QED BY <1>1, <1>2, <1>4, <1>5, <1>6, <1>7

LEMMA CommitSeals ==
  ASSUME IndInv, SealInv, NEW t \in Writers, CommitLog(t)
  PROVE  SealInv'
<1>1. PICK w : /\ w.id = thread[t].id /\ w.id \in Ids
               /\ log' = log \union {w}
               /\ w.rowid \in Nat
               /\ \A r \in log : r.rowid \in Nat /\ r.rowid < w.rowid
               /\ late' = IF w.rowid <= SealedUpTo THEN late \union {w.id} ELSE late
  BY CommitAdds
<1>2. InThread(t, w.id)
  BY <1>1 DEF CommitLog, InThread
<1>3. /\ OnePlace'
      /\ \A j \in Ids : InFlight(j)' => InFlight(j)
      /\ ~ InFlight(w.id)'
  BY <1>1, <1>2, ThreadStops DEF CommitLog, SealInv
<1>4. ~ InLog(w.id) /\ w.id \notin sealed /\ built[w.id] # -1
  BY <1>1, <1>2 DEF SealInv, WrittenOnce, InFlight
<1>5. WrittenOnce'
  <2>1. \A j \in Ids : InLog(j)' => InLog(j) \/ j = w.id
    BY <1>1 DEF InLog
  <2>2. UNCHANGED <<built, sealed>>
    BY DEF CommitLog
  <2>3. \A j \in Ids : built'[j] = -1 \/ InFlight(j)' => ~ InLog(j)' /\ j \notin sealed'
    BY <1>3, <1>4, <2>1, <2>2 DEF SealInv, WrittenOnce
  <2>4. \A j \in Ids : built'[j] = -1 => ~ InFlight(j)'
    BY <1>3, <2>2 DEF SealInv, WrittenOnce
  <2>5. \A r, s \in log' : r.id = s.id => r = s
    <3>1. \A r \in log : r.id # w.id
      BY <1>4 DEF InLog
    <3>2. \A r, s \in log : r.id = s.id => r = s
      BY DEF SealInv, WrittenOnce
    <3>3. QED BY <1>1, <3>1, <3>2
  <2>6. QED BY <2>3, <2>4, <2>5 DEF WrittenOnce
<1>6. UNCHANGED <<gone, checkpoints, sealed, prover>>
  BY DEF CommitLog
<1>7. \A n : Covering(n)' = Covering(n)
  BY <1>6 DEF Covering
<1>8. RangesOK'
  <2>1. \A r \in log' : r.id \in sealed' => Covering(r.rowid)' # {}
    BY <1>1, <1>4, <1>6, <1>7 DEF SealInv, RangesOK
  <2>2. QED BY <1>6, <2>1 DEF SealInv, RangesOK
<1>9. RootsOK'
  BY <1>6 DEF SealInv, RootsOK
<1>10. RangesIntact'
  <2>1. SUFFICES ASSUME gone = {}, NEW b \in DOMAIN checkpoints
                 PROVE  /\ RangeRows(checkpoints[b])' = RangeRows(checkpoints[b])
                        /\ \E r \in log' : r.rowid = checkpoints[b].to
    BY <1>6 DEF SealInv, RangesIntact
  <2>2. PICK r \in log : r.rowid = checkpoints[b].to
    BY <2>1 DEF SealInv, RangesIntact
  <2>3. ~ (w.rowid <= checkpoints[b].to)
    BY <1>1, <2>2
  <2>4. RangeRows(checkpoints[b])' = RangeRows(checkpoints[b])
    BY <1>1, <1>6, <2>3 DEF RangeRows
  <2>5. QED BY <1>1, <2>2, <2>4
<1>11. ProverOK' /\ ProofsSpeakTrue'
  BY <1>1, <1>6, <1>7 DEF SealInv, ProverOK, ProofsSpeakTrue
<1>12. IsFiniteSet(log)'
  BY <1>1, FS_AddElement DEF SealInv
<1>13. NoneSkipped'
  <2>1. SealedUpTo' = SealedUpTo /\ SealedUpTo \in Nat
    BY <1>6, SealedUpToIsRowid DEF SealedUpTo
  <2>2. w.rowid > SealedUpTo \/ w.id \in late'
    BY <1>1, <2>1
  <2>3. late \subseteq late'
    BY <1>1
  <2>4. QED BY <1>1, <1>6, <2>1, <2>2, <2>3 DEF SealInv, NoneSkipped
<1>14. QED BY <1>3, <1>5, <1>8, <1>9, <1>10, <1>11, <1>12, <1>13 DEF SealInv

LEMMA PruneSeals ==
  ASSUME IndInv, SealInv, Prune
  PROVE  SealInv'
<1>1. log' \in SUBSET log /\ UNCHANGED <<built, thread, queue, checkpoints, sealed, late, prover>>
  BY DEF Prune
<1>2. gone' # {}
  <2>1. PICK r \in log : built[r.id] < now - Retention
    BY DEF Prune
  <2>2. r.id \in Ids /\ built[r.id] \in Int /\ now \in Int
    BY DEF IndInv, IInv, TypeOK, Row
  <2>3. r \in log \ log'
    BY <2>1, <2>2, SizeAssumption DEF Prune
  <2>4. QED BY <2>3 DEF Prune
<1>3. OnePlace'
  BY <1>1 DEF SealInv, OnePlace, InThread, InQueue
<1>4. WrittenOnce'
  <2>1. \A j \in Ids : (InFlight(j)' <=> InFlight(j)) /\ (InLog(j)' => InLog(j))
    BY <1>1 DEF InFlight, InThread, InQueue, InLog
  <2>2. QED BY <1>1, <2>1 DEF SealInv, WrittenOnce
<1>5. \A n : Covering(n)' = Covering(n)
  BY <1>1 DEF Covering
<1>6. RangesOK' /\ RootsOK' /\ RangesIntact'
  BY <1>1, <1>2, <1>5 DEF SealInv, RangesOK, RootsOK, RangesIntact
<1>7. ProverOK' /\ ProofsSpeakTrue'
  BY <1>1, <1>2, <1>5 DEF SealInv, ProverOK, ProofsSpeakTrue
<1>8. IsFiniteSet(log)'
  BY <1>1, FS_Subset DEF SealInv
<1>9. NoneSkipped'
  BY <1>1 DEF SealInv, NoneSkipped, SealedUpTo
<1>10. QED BY <1>3, <1>4, <1>6, <1>7, <1>8, <1>9 DEF SealInv

\* What a seal adds: one checkpoint, from the first to the last row of a batch.
LEMMA SealAdds ==
  ASSUME IndInv, SealInv, NEW force \in BOOLEAN, Seal(force)
  PROVE  \E S \in SUBSET log, n \in Nat : \E c :
           /\ S = Batch(Pending) /\ S # {}
           /\ \E a \in S : c.from = a.rowid /\ \A r \in S : a.rowid <= r.rowid
           /\ \E z \in S : c.to = z.rowid /\ \A r \in S : r.rowid <= z.rowid
           /\ c.root = MerkleRoot(LeafHashes(S))
           /\ n = Len(checkpoints) /\ n + 1 = Len(checkpoints')
           /\ DOMAIN checkpoints = 1 .. n /\ DOMAIN checkpoints' = 1 .. (n + 1)
           /\ checkpoints'[n + 1] = c
           /\ \A b \in 1 .. n : checkpoints'[b] = checkpoints[b]
           /\ sealed' = sealed \union {r.id : r \in S}
<1>1. PICK S \in SUBSET log : S = Batch(Pending) /\ S # {}
  BY DEF Seal, Batch, Pending
<1>2. S \in SUBSET Row
  BY <1>1 DEF IndInv, IInv, TypeOK
<1>3. PICK a \in S : /\ a = (CHOOSE r \in S : \A s \in S : r.rowid <= s.rowid)
                     /\ \A s \in S : a.rowid <= s.rowid
  BY <1>1, <1>2, FirstRowExists
<1>4. PICK z \in S : z = LastRow(S) /\ \A s \in S : s.rowid <= z.rowid
  BY <1>1, <1>2, LastRowIsLast DEF IndInv, RowidsBounded
<1>5. PICK c : c = [from |-> a.rowid, to |-> z.rowid, root |-> MerkleRoot(LeafHashes(S))]
  OBVIOUS
<1>6. c.from = a.rowid /\ c.to = z.rowid /\ c.root = MerkleRoot(LeafHashes(S))
  BY <1>5
<1>7. checkpoints' = Append(checkpoints, c) /\ sealed' = sealed \union {r.id : r \in S}
  BY <1>1, <1>3, <1>4, <1>5 DEF Seal
<1>8. PICK n \in Nat : n = Len(checkpoints) /\ checkpoints = [b \in 1 .. n |-> checkpoints[b]]
  BY DEF IndInv, CheckpointsTyped
<1>9. checkpoints' = [b \in 1 .. (n + 1) |-> IF b = n + 1 THEN c ELSE checkpoints[b]]
  BY <1>7, <1>8
<1>10. IsList(checkpoints') /\ Len(checkpoints') = n + 1
  <2>1. checkpoints' = [b \in 1 .. (n + 1) |-> checkpoints'[b]]
    BY <1>9
  <2>2. QED BY <2>1, ListOf
<1>11. /\ DOMAIN checkpoints = 1 .. n /\ DOMAIN checkpoints' = 1 .. (n + 1)
       /\ checkpoints'[n + 1] = c
       /\ \A b \in 1 .. n : checkpoints'[b] = checkpoints[b]
  BY <1>8, <1>9
<1>12. QED
  BY <1>1, <1>3, <1>4, <1>6, <1>7, <1>8, <1>10, <1>11

\* The rows of the new range are the batch: what lies between is pending.
LEMMA SealedRange ==
  ASSUME IndInv, SealInv, NEW S, S = Batch(Pending), S # {},
         NEW a \in S, \A r \in S : a.rowid <= r.rowid,
         NEW z \in S, \A r \in S : r.rowid <= z.rowid,
         NEW c, c.from = a.rowid, c.to = z.rowid
  PROVE  /\ S \in SUBSET log /\ IsFiniteSet(S) /\ Cardinality(S) \in 1 .. BatchSize
         /\ RangeRows(c) = S
         /\ checkpoints # <<>> => checkpoints[Len(checkpoints)].to < c.from
         /\ \A r \in log : r.rowid > SealedUpTo /\ r.rowid <= z.rowid => r \in S
<1>1. PICK P \in SUBSET log : P = Pending
  BY DEF Pending
<1>2. RowsApart(P) /\ IsFiniteSet(P)
  BY LogApart, FS_Subset DEF SealInv
<1>3. /\ S \in SUBSET P /\ IsFiniteSet(S)
      /\ Cardinality(S) \in 1 .. BatchSize
      /\ \A r \in P : r.rowid <= z.rowid => r \in S
  BY <1>1, <1>2, BatchOf
<1>4. \A r \in log : r.rowid \in Nat
  BY DEF IndInv, IInv, TypeOK, Row
<1>5. CASE checkpoints = <<>>
  <2>1. P = log
    BY <1>1, <1>5 DEF Pending
  <2>2. RangeRows(c) = S
    BY <1>3, <2>1 DEF RangeRows
  <2>3. \A r \in log : r.rowid > SealedUpTo /\ r.rowid <= z.rowid => r \in S
    BY <1>3, <2>1
  <2>4. QED BY <1>3, <1>5, <2>1, <2>2, <2>3
<1>6. CASE checkpoints # <<>>
  <2>1. PICK m \in Nat : m = checkpoints[Len(checkpoints)].to
    <3>1. Len(checkpoints) \in DOMAIN checkpoints
      BY <1>6 DEF IndInv, CheckpointsTyped
    <3>2. QED BY <3>1 DEF IndInv, IInv, TypeOK
  <2>2. \A r \in log : r \in P <=> r.rowid > m
    BY <1>1, <1>6, <2>1 DEF Pending
  <2>3. m < a.rowid
    BY <1>3, <1>4, <2>1, <2>2
  <2>4. \A r \in log : a.rowid <= r.rowid => r \in P
    <3>1. \A r \in log : a.rowid <= r.rowid => r.rowid > m
      BY <1>3, <1>4, <2>1, <2>3
    <3>2. QED BY <2>2, <3>1
  <2>5. RangeRows(c) = S
    BY <1>3, <2>4 DEF RangeRows
  <2>6. SealedUpTo = m
    BY <1>6, <2>1 DEF SealedUpTo
  <2>7. \A r \in log : r.rowid > SealedUpTo /\ r.rowid <= z.rowid => r \in S
    BY <1>3, <2>2, <2>6
  <2>8. QED BY <1>3, <2>1, <2>3, <2>5, <2>7
<1>7. QED BY <1>5, <1>6

LEMMA SealSeals ==
  ASSUME IndInv, SealInv, NEW force \in BOOLEAN, Seal(force)
  PROVE  SealInv'
<1>0. PICK S \in SUBSET log, n \in Nat : \E c :
        /\ S = Batch(Pending) /\ S # {}
        /\ \E a \in S : c.from = a.rowid /\ \A r \in S : a.rowid <= r.rowid
        /\ \E z \in S : c.to = z.rowid /\ \A r \in S : r.rowid <= z.rowid
        /\ c.root = MerkleRoot(LeafHashes(S))
        /\ n = Len(checkpoints) /\ n + 1 = Len(checkpoints')
        /\ DOMAIN checkpoints = 1 .. n /\ DOMAIN checkpoints' = 1 .. (n + 1)
        /\ checkpoints'[n + 1] = c
        /\ \A b \in 1 .. n : checkpoints'[b] = checkpoints[b]
        /\ sealed' = sealed \union {r.id : r \in S}
  BY SealAdds
<1>1. PICK c :
        /\ S = Batch(Pending) /\ S # {}
        /\ \E a \in S : c.from = a.rowid /\ \A r \in S : a.rowid <= r.rowid
        /\ \E z \in S : c.to = z.rowid /\ \A r \in S : r.rowid <= z.rowid
        /\ c.root = MerkleRoot(LeafHashes(S))
        /\ n = Len(checkpoints) /\ n + 1 = Len(checkpoints')
        /\ DOMAIN checkpoints = 1 .. n /\ DOMAIN checkpoints' = 1 .. (n + 1)
        /\ checkpoints'[n + 1] = c
        /\ \A b \in 1 .. n : checkpoints'[b] = checkpoints[b]
        /\ sealed' = sealed \union {r.id : r \in S}
  BY <1>0
<1>2. PICK a \in S, z \in S : /\ c.from = a.rowid /\ \A r \in S : a.rowid <= r.rowid
                              /\ c.to = z.rowid /\ \A r \in S : r.rowid <= z.rowid
  BY <1>1
<1>3. /\ IsFiniteSet(S) /\ Cardinality(S) \in 1 .. BatchSize
      /\ RangeRows(c) = S
      /\ checkpoints # <<>> => checkpoints[Len(checkpoints)].to < c.from
      /\ \A r \in log : r.rowid > SealedUpTo /\ r.rowid <= z.rowid => r \in S
  BY <1>1, <1>2, SealedRange
<1>4. UNCHANGED <<built, thread, log, gone, late, queue, prover>>
  BY DEF Seal
<1>5. \A b \in 1 .. (n + 1) : b \in 1 .. n \/ b = n + 1
  OBVIOUS
<1>6. \A r \in log : r.rowid \in Nat
  BY DEF IndInv, IInv, TypeOK, Row
<1>7. \A b \in 1 .. n : checkpoints[b].from \in Nat /\ checkpoints[b].to \in Nat
  BY <1>1 DEF IndInv, IInv, TypeOK
<1>8. OnePlace'
  BY <1>4 DEF SealInv, OnePlace, InThread, InQueue
<1>9. WrittenOnce'
  <2>1. \A j \in Ids : (InFlight(j)' <=> InFlight(j)) /\ (InLog(j)' <=> InLog(j))
    BY <1>4 DEF InFlight, InThread, InQueue, InLog
  <2>2. \A j \in Ids : ~ InLog(j) /\ j \notin sealed => j \notin sealed'
    BY <1>1 DEF InLog
  <2>3. QED BY <1>4, <2>1, <2>2 DEF SealInv, WrittenOnce
<1>10. \A m : Covering(m) \subseteq Covering(m)'
  BY <1>1 DEF Covering
<1>11. RangesOK'
  <2>1. c.from <= c.to
    BY <1>2
  <2>2. \A b \in 1 .. (n + 1) : checkpoints'[b].from <= checkpoints'[b].to
    <3>1. \A b \in 1 .. n : checkpoints[b].from <= checkpoints[b].to
      BY <1>1 DEF SealInv, RangesOK
    <3>2. QED BY <1>1, <1>5, <2>1, <3>1
  <2>3. \A b \in 1 .. n : checkpoints[b].to < c.from
    <3>1. SUFFICES ASSUME NEW b \in 1 .. n PROVE checkpoints[b].to < c.from
      OBVIOUS
    <3>2. n \in 1 .. n /\ checkpoints[n].to < c.from
      <4>1. n \in 1 .. n
        BY <3>1
      <4>2. checkpoints # <<>>
        BY <1>1, <3>1
      <4>3. QED BY <1>1, <1>3, <4>1, <4>2
    <3>3. CASE b = n
      BY <3>2, <3>3
    <3>4. CASE b # n
      <4>1. b < n
        BY <3>4
      <4>2. checkpoints[b].to < checkpoints[n].from /\ checkpoints[n].from <= checkpoints[n].to
        BY <1>1, <3>2, <4>1 DEF SealInv, RangesOK
      <4>3. c.from \in Nat
        BY <1>2, <1>6
      <4>4. QED BY <1>7, <3>2, <4>2, <4>3
    <3>5. QED BY <3>3, <3>4
  <2>4. \A b, d \in 1 .. (n + 1) : b < d => checkpoints'[b].to < checkpoints'[d].from
    <3>1. \A b, d \in 1 .. n : b < d => checkpoints[b].to < checkpoints[d].from
      BY <1>1 DEF SealInv, RangesOK
    <3>2. \A b \in 1 .. (n + 1) : ~ (n + 1 < b)
      OBVIOUS
    <3>3. QED BY <1>1, <1>5, <2>3, <3>1, <3>2
  <2>5. \A r \in log' : r.id \in sealed' => Covering(r.rowid)' # {}
    <3>1. SUFFICES ASSUME NEW r \in log, r.id \in sealed'
                   PROVE  Covering(r.rowid)' # {}
      BY <1>4
    <3>2. CASE r.id \in sealed
      BY <1>10, <3>2 DEF SealInv, RangesOK
    <3>3. CASE r.id \notin sealed
      <4>1. PICK s \in S : s.id = r.id
        BY <1>1, <3>1, <3>3
      <4>2. r = s
        BY <4>1 DEF SealInv, WrittenOnce
      <4>3. n + 1 \in 1 .. (n + 1)
        OBVIOUS
      <4>4. n + 1 \in Covering(r.rowid)'
        BY <1>1, <1>2, <4>2, <4>3 DEF Covering
      <4>5. QED BY <4>4
    <3>4. QED BY <3>2, <3>3
  <2>6. QED BY <1>1, <2>2, <2>4, <2>5 DEF RangesOK
<1>12. RootsOK'
  <2>1. \A root : SealedRoot(root, sealed) => SealedRoot(root, sealed')
    <3>1. SUFFICES ASSUME NEW root, SealedRoot(root, sealed)
                   PROVE  SealedRoot(root, sealed')
      OBVIOUS
    <3>2. PICK m \in 1 .. BatchSize : \E s \in [1 .. m -> sealed] :
            root = MerkleRoot([k \in 1 .. m |-> LeafHash(s[k])])
      BY <3>1 DEF SealedRoot
    <3>3. PICK s \in [1 .. m -> sealed] : root = MerkleRoot([k \in 1 .. m |-> LeafHash(s[k])])
      BY <3>2
    <3>4. s \in [1 .. m -> sealed']
      BY <1>1
    <3>5. QED BY <3>3, <3>4 DEF SealedRoot
  <2>2. SealedRoot(c.root, sealed')
    <3>1. PICK m \in 1 .. BatchSize : m = Cardinality(S)
      BY <1>3
    <3>2. PICK q \in [1 .. m -> S] : q = InRowidOrder(S)
      BY <1>3, <3>1, LogApart, InOrder
    <3>3. PICK s : s = [k \in 1 .. m |-> q[k].id]
      OBVIOUS
    <3>4. s \in [1 .. m -> sealed']
      BY <1>1, <3>3
    <3>5. LeafHashes(S) = [k \in 1 .. m |-> LeafHash(s[k])]
      BY <3>1, <3>2, <3>3 DEF LeafHashes
    <3>6. c.root = MerkleRoot([k \in 1 .. m |-> LeafHash(s[k])])
      BY <1>1, <3>5
    <3>7. QED BY <3>4, <3>6 DEF SealedRoot
  <2>3. \A b \in 1 .. n : SealedRoot(checkpoints'[b].root, sealed')
    <3>1. \A b \in 1 .. n : SealedRoot(checkpoints[b].root, sealed)
      BY <1>1 DEF SealInv, RootsOK
    <3>2. QED BY <1>1, <2>1, <3>1
  <2>4. QED BY <1>1, <1>5, <2>2, <2>3 DEF RootsOK
<1>13. RangesIntact'
  <2>1. SUFFICES ASSUME gone = {}, NEW b \in 1 .. (n + 1)
                 PROVE  /\ checkpoints'[b].root = MerkleRoot(LeafHashes(RangeRows(checkpoints'[b])))
                        /\ \E r \in log : r.rowid = checkpoints'[b].to
    BY <1>1, <1>4 DEF RangesIntact, RangeRows
  <2>2. CASE b = n + 1
    BY <1>1, <1>2, <1>3, <2>2
  <2>3. CASE b # n + 1
    <3>1. b \in 1 .. n /\ checkpoints'[b] = checkpoints[b]
      BY <1>1, <2>3
    <3>2. QED BY <1>1, <2>1, <3>1 DEF SealInv, RangesIntact
  <2>4. QED BY <2>2, <2>3
<1>14. ProverOK' /\ ProofsSpeakTrue'
  BY <1>1, <1>4, <1>10 DEF SealInv, ProverOK, ProofsSpeakTrue
<1>15. NoneSkipped'
  <2>1. SealedUpTo' = z.rowid
    BY <1>1, <1>2 DEF SealedUpTo
  <2>2. SUFFICES ASSUME NEW r \in log, r.id \notin sealed', r.id \notin late
                 PROVE  r.rowid > z.rowid
    BY <1>4, <2>1 DEF NoneSkipped
  <2>3. r \notin S /\ r.rowid > SealedUpTo
    BY <1>1, <2>2 DEF SealInv, NoneSkipped
  <2>4. QED BY <1>3, <1>6, <2>3
<1>16. QED BY <1>4, <1>8, <1>9, <1>11, <1>12, <1>13, <1>14, <1>15 DEF SealInv

-------------------------------------------------------------------------------
(* A request for a proof.                                                  *)

\* The proof computed from a range of rows, and the leaves it is computed from.
LEMMA LeavesOf ==
  ASSUME IndInv, SealInv, NEW T \in SUBSET log, NEW r \in T, NEW rowid, r.rowid = rowid,
         NEW at, NEW leaves, NEW entries,
         entries = InRowidOrder(T),
         at = {k \in DOMAIN entries : entries[k].rowid = rowid},
         leaves = [k \in DOMAIN entries |-> LeafHash(entries[k].id)]
  PROVE  /\ at # {} /\ leaves = LeafHashes(T)
         /\ IsList(leaves) /\ Len(leaves) > 0 /\ Len(leaves) \in Nat
         /\ at \in SUBSET (1 .. Len(leaves))
         /\ \A k \in at : leaves[k] = LeafHash(r.id)
<1>1. RowsApart(log) /\ IsFiniteSet(T) /\ T # {}
  BY LogApart, FS_Subset DEF SealInv
<1>2. PICK n \in Nat : /\ n = Cardinality(T)
                       /\ entries \in [1 .. n -> T]
                       /\ \E k \in 1 .. n : entries[k] = r
  BY <1>1, InOrder
<1>3. leaves = [k \in 1 .. n |-> LeafHash(entries[k].id)]
  BY <1>2
<1>4. leaves = LeafHashes(T)
  BY <1>2, <1>3 DEF LeafHashes
<1>5. IsList(leaves) /\ Len(leaves) > 0 /\ Len(leaves) = n
  BY <1>1, <1>2, <1>4, LeafHashesOf
<1>6. \A k \in at : k \in 1 .. n /\ entries[k] = r
  BY <1>2 DEF IndInv, IInv, OneHistory
<1>7. at # {}
  BY <1>2
<1>8. QED BY <1>3, <1>4, <1>5, <1>6, <1>7

\* A proof that verifies against a root is of a sealed entry.
LEMMA ValidIsSealed ==
  ASSUME SealInv, NEW b \in DOMAIN checkpoints, NEW i, NEW leaves, NEW k,
         IsList(leaves), Len(leaves) > 0,
         VerifyProof(LeafHash(i), MerkleProof(leaves, k), checkpoints[b].root)
  PROVE  i \in sealed
<1>1. PICK n \in 1 .. BatchSize : \E s \in [1 .. n -> sealed] :
        checkpoints[b].root = MerkleRoot([j \in 1 .. n |-> LeafHash(s[j])])
  BY DEF SealInv, RootsOK, SealedRoot
<1>2. PICK s \in [1 .. n -> sealed] :
        checkpoints[b].root = MerkleRoot([j \in 1 .. n |-> LeafHash(s[j])])
  BY <1>1
<1>3. PICK h : h = [j \in 1 .. n |-> LeafHash(s[j])]
  OBVIOUS
<1>4. IsList(h) /\ Len(h) = n
  <2>1. n \in Nat /\ h = [j \in 1 .. n |-> h[j]]
    BY <1>3, SizeAssumption
  <2>2. QED BY <2>1, ListOf
<1>5. Len(h) > 0
  BY <1>4, SizeAssumption
<1>6. \A j \in 1 .. Len(h) : h[j] = LeafHash(s[j])
  BY <1>3, <1>4
<1>7. PICK proof : proof = MerkleProof(leaves, k)
  OBVIOUS
<1>8. Len(proof) \in Nat
  <2>1. PICK R \in Nat : R = Rounds(leaves)
    BY RoundsEnd
  <2>2. proof = [j \in 1 .. R |-> proof[j]]
    BY <1>7, <2>1 DEF MerkleProof
  <2>3. QED BY <2>2, ListOf
<1>9. PICK j \in 1 .. Len(h) : h[j] = LeafHash(i)
  <2>1. \A j \in 1 .. Len(h) : \E e : h[j] = LeafHash(e)
    BY <1>6
  <2>2. VerifyProof(LeafHash(i), proof, MerkleRoot(h))
    BY <1>2, <1>3, <1>7
  <2>3. QED BY <1>4, <1>5, <1>8, <2>1, <2>2, MerkleProofSound
<1>10. s[j] = i /\ s[j] \in sealed
  BY <1>4, <1>6, <1>9, HashesDiffer
<1>11. QED BY <1>10

LEMMA AnswersSeal ==
  ASSUME IndInv, SealInv, ProofAnswers
  PROVE  ProverOK' /\ ProofsSpeakTrue'
<1> DEFINE c       == checkpoints[prover.batch]
           entries == InRowidOrder(RangeRows(c))
           at      == {k \in DOMAIN entries : entries[k].rowid = prover.rowid}
           leaves  == [k \in DOMAIN entries |-> LeafHash(entries[k].id)]
           k0      == CHOOSE k \in at : TRUE
           good    == VerifyProof(LeafHash(prover.id), MerkleProof(leaves, k0), c.root)
<1>1. PICK x : /\ prover' = [prover EXCEPT !.pc = "done", !.result = x]
               /\ x = IF at = {} THEN "error" ELSE IF good THEN "valid" ELSE "invalid"
  BY DEF ProofAnswers
<1>2. prover.pc = "batched" /\ UNCHANGED <<log, gone, checkpoints, sealed, late>>
  BY DEF ProofAnswers, Tables
<1>3. prover'.pc = "done" /\ prover'.result = x /\ prover'.id = prover.id
  BY <1>1 DEF IndInv, IInv, TypeOK, Proving
<1>4. PICK T \in SUBSET log :
        /\ T = RangeRows(c)
        /\ entries = InRowidOrder(T)
        /\ at = {k \in DOMAIN entries : entries[k].rowid = prover.rowid}
        /\ leaves = [k \in DOMAIN entries |-> LeafHash(entries[k].id)]
  BY DEF RangeRows
<1>5. prover.batch \in Covering(prover.rowid) /\ prover.batch \in DOMAIN checkpoints
  BY <1>2 DEF SealInv, ProverOK, Covering, IndInv, CheckpointsTyped
<1>6. ASSUME at # {}, good
      PROVE  prover.id \in sealed
  <2>1. PICK k \in DOMAIN entries : entries[k].rowid = prover.rowid
    BY <1>6
  <2>2. IsFiniteSet(T) /\ RowsApart(log)
    BY FS_Subset, LogApart DEF SealInv
  <2>3. entries \in [1 .. Cardinality(T) -> T]
    BY <1>4, <2>2, InOrder
  <2>4. PICK r \in T : r.rowid = prover.rowid
    BY <2>1, <2>3
  <2>5. IsList(leaves) /\ Len(leaves) > 0
    <3> HIDE DEF entries, at, leaves
    <3>1. QED BY <1>4, <2>4, LeavesOf
  <2>6. QED BY <1>5, <1>6, <2>5, ValidIsSealed
<1>7. ASSUME gone = {}
      PROVE  at # {} /\ good
  <2>1. PICK r \in log : r.rowid = prover.rowid /\ r.id = prover.id
    BY <1>2, <1>7 DEF SealInv, ProverOK
  <2>2. r \in T
    BY <1>4, <1>5, <2>1 DEF Covering, RangeRows
  <2>3. /\ at # {} /\ leaves = LeafHashes(T)
        /\ IsList(leaves) /\ Len(leaves) > 0 /\ Len(leaves) \in Nat
        /\ at \in SUBSET (1 .. Len(leaves))
        /\ \A k \in at : leaves[k] = LeafHash(r.id)
    <3> HIDE DEF entries, at, leaves
    <3>1. QED BY <1>4, <2>1, <2>2, LeavesOf
  <2>4. k0 \in at
    BY <2>3
  <2>5. k0 \in 1 .. Len(leaves) /\ leaves[k0] = LeafHash(prover.id)
    BY <2>1, <2>3, <2>4
  <2>6. c.root = MerkleRoot(leaves)
    BY <1>4, <1>5, <1>7, <2>3 DEF SealInv, RangesIntact
  <2>7. VerifyProof(leaves[k0], MerkleProof(leaves, k0), MerkleRoot(leaves))
    <3> HIDE DEF leaves, k0
    <3>1. QED BY <2>3, <2>5, MerkleProofComplete
  <2>8. QED BY <2>3, <2>5, <2>6, <2>7
<1>8. QED
  <2> HIDE DEF at, good
  <2>1. x = "valid" => at # {} /\ good
    BY <1>1
  <2>2. x \in {"invalid", "error"} => at = {} \/ ~ good
    BY <1>1
  <2>3. ProofsSpeakTrue'
    BY <1>2, <1>3, <1>6, <1>7, <2>1, <2>2 DEF ProofsSpeakTrue
  <2>4. ProverOK'
    BY <1>3 DEF ProverOK
  <2>5. QED BY <2>3, <2>4

LEMMA FindsSeal ==
  ASSUME IndInv, SealInv, (\E i \in Ids : ProofFindsEntry(i)) \/ ProofFindsBatch
  PROVE  ProverOK' /\ ProofsSpeakTrue'
<1>1. UNCHANGED <<log, gone, checkpoints, sealed, late>>
  BY DEF ProofFindsEntry, ProofFindsBatch, Tables
<1>2. \A n : Covering(n)' = Covering(n)
  BY <1>1 DEF Covering
<1>3. prover \in Proving
  BY DEF IndInv, IInv, TypeOK
<1>4. CASE \E i \in Ids : ProofFindsEntry(i)
  <2>1. PICK i \in Ids, r \in log :
          r.id = i /\ prover' = [NoProof EXCEPT !.pc = "found", !.id = i, !.rowid = r.rowid]
    BY <1>4 DEF ProofFindsEntry
  <2>2. prover'.pc = "found" /\ prover'.result = "none" /\ prover'.id = i /\ prover'.rowid = r.rowid
    BY <2>1 DEF NoProof
  <2>3. QED BY <1>1, <2>1, <2>2 DEF ProverOK, ProofsSpeakTrue
<1>5. CASE ProofFindsBatch
  <2>1. prover.pc = "found" /\ prover.result = "none"
    BY <1>5 DEF ProofFindsBatch, SealInv, ProverOK
  <2>2. CASE prover' = [prover EXCEPT !.pc = "done"]
    <3>1. prover'.pc = "done" /\ prover'.result = "none"
      BY <1>3, <2>1, <2>2 DEF Proving
    <3>2. QED BY <3>1 DEF ProverOK, ProofsSpeakTrue
  <2>3. CASE \E b \in Covering(prover.rowid) :
               prover' = [prover EXCEPT !.pc = "batched", !.batch = b]
    <3>1. PICK b \in Covering(prover.rowid) :
            prover' = [prover EXCEPT !.pc = "batched", !.batch = b]
      BY <2>3
    <3>2. /\ prover'.pc = "batched" /\ prover'.result = "none" /\ prover'.batch = b
          /\ prover'.id = prover.id /\ prover'.rowid = prover.rowid
      BY <1>3, <2>1, <3>1 DEF Proving
    <3>3. QED BY <1>1, <1>2, <2>1, <3>2 DEF SealInv, ProverOK, ProofsSpeakTrue
  <2>4. QED BY <1>5, <2>2, <2>3 DEF ProofFindsBatch
<1>6. QED BY <1>4, <1>5

-------------------------------------------------------------------------------
(* Every step.                                                             *)

LEMMA NextSeal ==
  ASSUME IndInv, SealInv, [Next]_vars
  PROVE  SealInv'
<1>1. OnePlace /\ WrittenOnce
  BY DEF SealInv
<1>2. ASSUME UNCHANGED <<log, gone, checkpoints, sealed, late>>,
             UNCHANGED prover \/ prover' = NoProof, OnePlace' /\ WrittenOnce'
      PROVE  SealInv'
  BY <1>2, QuietCheckpoints, QuietProver DEF SealInv
<1>3. ASSUME NEW t \in Threads, NEW i \in Ids, Decide(t, i) \/ LogQueued(t, i)
      PROVE  SealInv'
  <2>1. CASE Decide(t, i)
    <3>1. OnePlace' /\ WrittenOnce'
      BY <1>1, <2>1, DecidePlaces DEF Decide, Tables
    <3>2. QED BY <1>2, <2>1, <3>1 DEF Decide, Tables
  <2>2. CASE LogQueued(t, i)
    <3>1. OnePlace' /\ WrittenOnce'
      BY <1>1, <2>2, LogQueuedPlaces
    <3>2. QED BY <1>2, <2>2, <3>1 DEF LogQueued, Tables
  <2>3. QED BY <1>3, <2>1, <2>2
<1>4. CASE WriterTakes
  <2>1. OnePlace' /\ WrittenOnce'
    BY <1>1, <1>4, WriterTakesPlaces
  <2>2. QED BY <1>2, <1>4, <2>1 DEF WriterTakes, Tables
<1>5. ASSUME NEW t \in Writers, Log(t)
      PROVE  SealInv'
  <2>1. CASE BeginLog(t)
    <3>1. thread \in [Writers -> Writing]
      BY DEF IndInv, IInv, TypeOK
    <3>2. \A u \in Writers, j \in Ids : InThread(u, j)' <=> InThread(u, j)
      BY <2>1, <3>1 DEF BeginLog, InThread, Writing
    <3>3. UNCHANGED <<built, queue, log, sealed>>
      BY <2>1 DEF BeginLog, Tables
    <3>4. \A j \in Ids : /\ InQueue(j)' <=> InQueue(j)
                         /\ InFlight(j)' <=> InFlight(j)
                         /\ InLog(j)' <=> InLog(j)
      BY <3>2, <3>3 DEF InQueue, InFlight, InLog
    <3>5. OnePlace'
      BY <1>1, <3>2, <3>3, <3>4 DEF OnePlace
    <3>6. WrittenOnce'
      BY <1>1, <3>3, <3>4 DEF WrittenOnce
    <3>7. QED BY <1>2, <2>1, <3>5, <3>6 DEF BeginLog, Tables
  <2>2. CASE CommitLog(t)
    BY <2>2, CommitSeals
  <2>3. CASE LockTimeout(t)
    <3>1. UNCHANGED <<built, queue, log, sealed>>
      BY <2>3 DEF LockTimeout, Tables
    <3>2. OnePlace' /\ \A j \in Ids : InFlight(j)' => InFlight(j)
      BY <1>1, <2>3, ThreadStops DEF LockTimeout
    <3>3. \A j \in Ids : InLog(j)' <=> InLog(j)
      BY <3>1 DEF InLog
    <3>4. WrittenOnce'
      BY <1>1, <3>1, <3>2, <3>3 DEF WrittenOnce
    <3>5. QED BY <1>2, <2>3, <3>2, <3>4 DEF LockTimeout, Tables
  <2>4. QED BY <1>5, <2>1, <2>2, <2>3 DEF Log
<1>6. CASE Prune
  BY <1>6, PruneSeals
<1>7. ASSUME NEW force \in BOOLEAN, Seal(force)
      PROVE  SealInv'
  BY <1>7, SealSeals
<1>8. CASE (\E i \in Ids : ProofFindsEntry(i)) \/ ProofFindsBatch \/ ProofAnswers
  <2>1. UNCHANGED <<built, thread, queue, log, gone, checkpoints, sealed, late>>
    BY <1>8 DEF ProofFindsEntry, ProofFindsBatch, ProofAnswers, Tables
  <2>2. ProverOK' /\ ProofsSpeakTrue'
    BY <1>8, FindsSeal, AnswersSeal
  <2>3. QED BY <1>1, <2>1, <2>2, QuietEntries, QuietCheckpoints DEF SealInv
<1>9. CASE Crash
  <2>1. UNCHANGED <<built, log, sealed>> /\ queue' = <<>>
    BY <1>9 DEF Crash, Tables
  <2>2. \A t \in Writers : thread'[t].pc = "idle"
    BY <1>9 DEF Crash, Idle
  <2>3. \A j \in Ids, t \in Writers : ~ InThread(t, j)'
    BY <2>2 DEF InThread
  <2>4. \A j \in Ids : ~ InQueue(j)'
    BY <2>1 DEF InQueue
  <2>5. OnePlace'
    BY <2>1, <2>3, <2>4 DEF OnePlace
  <2>6. \A j \in Ids : ~ InFlight(j)' /\ (InLog(j)' <=> InLog(j))
    BY <2>1, <2>3, <2>4 DEF InFlight, InLog
  <2>7. WrittenOnce'
    BY <1>1, <2>1, <2>6 DEF WrittenOnce
  <2>8. QED BY <1>2, <1>9, <2>5, <2>7 DEF Crash, Tables
<1>10. CASE Tick \/ UNCHANGED vars
  <2>1. UNCHANGED <<built, thread, queue, log, gone, checkpoints, sealed, late, prover>>
    BY <1>10 DEF Tick, vars, Tables
  <2>2. QED BY <1>1, <1>2, <2>1, QuietEntries
<1>11. QED
  BY <1>3, <1>4, <1>5, <1>6, <1>7, <1>8, <1>9, <1>10 DEF Next

LEMMA SealInvariant == Spec => []SealInv
<1>1. IndInv /\ SealInv /\ [Next]_vars => SealInv'
  BY NextSeal
<1>2. QED BY InitSeal, Invariant, <1>1, PTL DEF Spec

-------------------------------------------------------------------------------
(* The theorems.                                                           *)

\* Every variable keeps its type: the queue of core/platform/audit.py never
\* exceeds AGENTGATE_AUDIT_QUEUE_SIZE and only real entries are written.
THEOREM TypeCorrect == Spec => []TypeOK
<1>1. IndInv => TypeOK
  BY DEF IndInv, IInv
<1>2. QED BY <1>1, Invariant, PTL

\* The log is one history for any number of writers: BEGIN IMMEDIATE before the
\* read of the last hash leaves no two rows with one predecessor.
THEOREM HistoryIsOne == Spec => []OneHistory
<1>1. IndInv => OneHistory
  BY DEF IndInv, IInv
<1>2. QED BY <1>1, Invariant, PTL

\* verify_chain accepts every log retention has not touched, whatever crashes,
\* lock timeouts and mixtures of queued and direct writes produced it.
THEOREM IntactLogVerifies == Spec => []IntactVerifies
<1>1. IndInv => IntactVerifies
  BY DEF IndInv, IInv
<1>2. QED BY <1>1, Invariant, PTL

\* No decision /authorize returned is missing from the log unless retention
\* deleted it.
THEOREM AnswersRecorded == Spec => []AnsweredIsRecorded
<1>1. IndInv => AnsweredIsRecorded
  BY DEF IndInv, IInv
<1>2. QED BY <1>1, Invariant, PTL

\* The checkpoints partition the log: no two seals of seal_merkle_batch overlap,
\* and every row is in one range, or above all of them, or was written at a rowid
\* that retention had freed below the last sealed one.
THEOREM BatchesArePartition == Spec => []BatchesPartition
<1>1. IndInv /\ SealInv => BatchesPartition
  <2>1. SUFFICES ASSUME IndInv, SealInv
                 PROVE  \A r \in log : r.id \in sealed => Cardinality(Covering(r.rowid)) = 1
    BY DEF BatchesPartition, SealInv
  <2> SUFFICES ASSUME NEW r \in log, r.id \in sealed
               PROVE  Cardinality(Covering(r.rowid)) = 1
    OBVIOUS
  <2>2. PICK b \in Covering(r.rowid) : TRUE
    BY <2>1 DEF SealInv, RangesOK
  <2>3. PICK n \in Nat : n = Len(checkpoints) /\ DOMAIN checkpoints = 1 .. n
    BY <2>1 DEF IndInv, CheckpointsTyped
  <2>4. r.rowid \in Nat /\ \A d \in 1 .. n : checkpoints[d].from \in Nat /\ checkpoints[d].to \in Nat
    BY <2>1, <2>3 DEF IndInv, IInv, TypeOK, Row
  <2>9. ASSUME NEW x \in 1 .. n, NEW y \in 1 .. n, x < y
        PROVE  checkpoints[x].to < checkpoints[y].from
    BY <2>1, <2>3, <2>9 DEF SealInv, RangesOK
  <2>5. ASSUME NEW d \in Covering(r.rowid)
        PROVE  d = b
    <3>1. /\ b \in 1 .. n /\ checkpoints[b].from <= r.rowid /\ r.rowid <= checkpoints[b].to
          /\ d \in 1 .. n /\ checkpoints[d].from <= r.rowid /\ r.rowid <= checkpoints[d].to
      BY <2>2, <2>3 DEF Covering
    <3>2. ~ (b < d)
      BY <2>4, <2>9, <3>1
    <3>3. ~ (d < b)
      BY <2>4, <2>9, <3>1
    <3>4. QED BY <3>1, <3>2, <3>3
  <2>6. Covering(r.rowid) = {b}
    BY <2>2, <2>5
  <2>7. QED BY <2>6, FS_Singleton
<1>2. QED BY <1>1, Invariant, SealInvariant, PTL

\* The answers of GET /audit/merkle/verify are true for batches of every size: a
\* valid proof is of an entry that was sealed, and none fails before retention
\* has deleted something, whatever is written or sealed between its reads.
THEOREM ProofsTrue == Spec => []ProofsSpeakTrue
<1>1. SealInv => ProofsSpeakTrue
  BY DEF SealInv
<1>2. QED BY <1>1, SealInvariant, PTL
===============================================================================
