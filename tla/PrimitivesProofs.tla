--------------------------- MODULE PrimitivesProofs ---------------------------
(***************************************************************************)
(* Lemmas about the operators of Primitives that the proofs of the gadget  *)
(* modules share: bounded input sequences, the group operations, and what  *)
(* the recursive functions AggregateOf and ProductOfPairings compute.      *)
(*                                                                         *)
(* A recursive function definition f[k \in 0..n] == e is the CHOOSE of a   *)
(* function equal to [k \in 0..n |-> e]; that one exists is proved by      *)
(* induction on n.  The induction is done with the least-element principle *)
(* for Nat (WFMin on the well-founded <), over a set of numbers, so no     *)
(* operator has to be instantiated.                                        *)
(***************************************************************************)
EXTENDS Primitives, WellFoundedInduction, SequenceTheorems, TLAPS

\* The group order is at least 2.
LEMMA QPositive == Q \in Nat /\ Q >= 2
BY QAssumption DEF IsPrime

\* A bounded input sequence is a sequence of at most n elements.
LEMMA SeqsUpToLen ==
  ASSUME NEW S, NEW n \in Nat, NEW s \in SeqsUpTo(S, n)
  PROVE  s \in Seq(S) /\ Len(s) <= n
<1>1. PICK k \in 0..n : s \in [1..k -> S]
  BY DEF SeqsUpTo
<1>2. s \in Seq(S) /\ Len(s) = k
  BY <1>1, LenProperties, IsASeq
<1>. QED  BY <1>2

\* ... and every such sequence is a bounded input sequence.
LEMMA SeqsUpToIntro ==
  ASSUME NEW S, NEW n \in Nat, NEW s \in Seq(S), Len(s) <= n
  PROVE  s \in SeqsUpTo(S, n)
<1>1. Len(s) \in 0..n /\ s \in [1..Len(s) -> S]
  BY LenProperties
<1>. QED  BY <1>1 DEF SeqsUpTo

\* Group operations stay in the group.
LEMMA GroupClosed ==
  ASSUME NEW a \in G, NEW b \in G
  PROVE  /\ GAdd(a, b) \in G /\ GNeg(a) \in G /\ Pair(a, b) \in G
         /\ Zero \in G /\ G2Generator \in G /\ GTOne \in G
BY QPositive DEF GAdd, GNeg, Pair, G, Zero, G2Generator, GTOne

-----------------------------------------------------------------------------
(* Induction over Nat.                                                     *)

\* < on Nat as a set of pairs.
NatLess == {ss \in Nat \X Nat : ss[1] < ss[2]}

\* Every non-empty set of naturals has a least element.
LEMMA LeastNat ==
  ASSUME NEW T \in SUBSET Nat, T # {}
  PROVE  \E m \in T : \A y \in T : m <= y
<1>1. IsWellFoundedOn(NatLess, Nat)
  <2>1. OpToRel(<, Nat) = NatLess
    BY Zenon DEF OpToRel, NatLess
  <2>. QED  BY <2>1, NatLessThanWellFounded, Zenon
<1>2. PICK x \in T : \A y \in T : ~(<<y, x>> \in NatLess)
  BY <1>1, WFMin, Zenon
<1>3. ASSUME NEW y \in T PROVE x <= y
  <2>1. y < x => <<y, x>> \in NatLess
    BY DEF NatLess
  <2>. QED  BY <1>2, <2>1
<1>. QED  BY <1>3

\* A set holding 0 and closed under successor up to n holds n.
LEMMA UpInduction ==
  ASSUME NEW n \in Nat, NEW T, 0 \in T,
         \A k \in 0..(n - 1) : k \in T => k + 1 \in T
  PROVE  n \in T
<1>. DEFINE Bad == {k \in 0..n : k \notin T}
<1> SUFFICES ASSUME Bad # {} PROVE FALSE
  OBVIOUS
<1>1. Bad \in SUBSET Nat
  OBVIOUS
<1>2. PICK m \in Bad : \A y \in Bad : m <= y
  BY <1>1, LeastNat
<1>3. m # 0 /\ m - 1 \in 0..(n - 1)
  BY <1>2
<1>4. m - 1 \notin Bad
  BY <1>2, <1>3
<1>. QED  BY <1>2, <1>3, <1>4
-----------------------------------------------------------------------------
(* AggregateOf: the select/add loop over the keys.                        *)

\* The body of AggregateOf's recursive function sum.
AggBody(pks, bm, g, k) ==
  IF k = 0 THEN Zero ELSE GAdd(g[k - 1], IF bm[k] THEN pks[k] ELSE Zero)

\* g satisfies sum's definition on 0..m.
AggDefined(pks, bm, g, m) == g = [k \in 0..m |-> AggBody(pks, bm, g, k)]

\* The function sum of AggregateOf(pks, bm): sum[k] aggregates the first k.
AggFn(pks, bm) == CHOOSE g : AggDefined(pks, bm, g, Len(pks))

LEMMA AggExists ==
  ASSUME NEW pks, NEW bm, NEW n \in Nat
  PROVE  \E g : AggDefined(pks, bm, g, n)
<1> DEFINE T == {m \in Nat : \E g : AggDefined(pks, bm, g, m)}
<1>1. 0 \in T
  <2> DEFINE g0 == [k \in 0..0 |-> Zero]
  <2>1. AggDefined(pks, bm, g0, 0)
    BY DEF AggDefined, AggBody
  <2>. QED  BY <2>1
<1>2. ASSUME NEW m \in 0..(n - 1), m \in T PROVE m + 1 \in T
  <2>1. PICK g : AggDefined(pks, bm, g, m)
    BY <1>2
  <2> DEFINE h == [k \in 0..(m + 1) |->
                     IF k <= m THEN g[k] ELSE AggBody(pks, bm, g, k)]
  <2>2. ASSUME NEW k \in 0..(m + 1) PROVE h[k] = AggBody(pks, bm, h, k)
    <3>1. CASE k = 0
      BY <3>1, <2>1 DEF AggDefined, AggBody
    <3>2. CASE k # 0
      <4>1. h[k - 1] = g[k - 1]
        BY <3>2
      <4>2. h[k] = AggBody(pks, bm, g, k)
        BY <2>1 DEF AggDefined
      <4>. QED  BY <3>2, <4>1, <4>2 DEF AggBody
    <3>. QED  BY <3>1, <3>2
  <2>3. AggDefined(pks, bm, h, m + 1)
    BY <2>2 DEF AggDefined
  <2>. QED  BY <2>3
<1>. QED  BY <1>1, <1>2, UpInduction

\* What AggregateOf computes, one key at a time.
LEMMA AggFnDef ==
  ASSUME NEW pks, NEW bm, Len(pks) \in Nat
  PROVE  /\ AggFn(pks, bm)[0] = Zero
         /\ \A k \in 1..Len(pks) :
              AggFn(pks, bm)[k]
                = GAdd(AggFn(pks, bm)[k - 1], IF bm[k] THEN pks[k] ELSE Zero)
         /\ AggregateOf(pks, bm) = AggFn(pks, bm)[Len(pks)]
<1>1. AggDefined(pks, bm, AggFn(pks, bm), Len(pks))
  <2>1. \E g : AggDefined(pks, bm, g, Len(pks))
    BY AggExists
  <2>. QED  BY <2>1 DEF AggFn
<1>2. AggregateOf(pks, bm)
        = (CHOOSE g : g = [k \in 0..Len(pks) |-> AggBody(pks, bm, g, k)])
            [Len(pks)]
  BY DEF AggregateOf, AggBody
<1>3. AggFn(pks, bm)[0] = Zero
  BY <1>1 DEF AggDefined, AggBody
<1>4. \A k \in 1..Len(pks) :
        AggFn(pks, bm)[k]
          = GAdd(AggFn(pks, bm)[k - 1], IF bm[k] THEN pks[k] ELSE Zero)
  BY <1>1 DEF AggDefined, AggBody
<1>5. AggregateOf(pks, bm) = AggFn(pks, bm)[Len(pks)]
  BY <1>2 DEF AggFn, AggDefined
<1>. QED  BY <1>3, <1>4, <1>5

\* Every partial aggregate of keys in G is in G.
LEMMA AggFnType ==
  ASSUME NEW pks \in Seq(G), NEW bm
  PROVE  \A k \in 0..Len(pks) : AggFn(pks, bm)[k] \in G
<1>0. Len(pks) \in Nat
  BY LenProperties
<1> DEFINE T == {k \in Nat : k <= Len(pks) => AggFn(pks, bm)[k] \in G}
<1>1. 0 \in T
  BY <1>0, AggFnDef, QPositive DEF Zero, G
<1>2. ASSUME NEW m \in 0..(Len(pks) - 1), m \in T PROVE m + 1 \in T
  <2>1. AggFn(pks, bm)[m] \in G /\ pks[m + 1] \in G
    BY <1>0, <1>2, ElementOfSeq
  <2>2. (IF bm[m + 1] THEN pks[m + 1] ELSE Zero) \in G
    BY <2>1, GroupClosed
  <2>3. AggFn(pks, bm)[m + 1]
          = GAdd(AggFn(pks, bm)[m], IF bm[m + 1] THEN pks[m + 1] ELSE Zero)
    BY <1>0, AggFnDef
  <2>4. GAdd(AggFn(pks, bm)[m], IF bm[m + 1] THEN pks[m + 1] ELSE Zero) \in G
    BY <2>1, <2>2, GroupClosed
  <2>. QED  BY <2>3, <2>4
<1>3. ASSUME NEW k \in 0..Len(pks) PROVE k \in T
  <2>1. \A j \in 0..(k - 1) : j \in T => j + 1 \in T
    BY <1>2
  <2>2. k \in Nat
    BY <1>0
  <2>. QED  BY <1>1, <2>1, <2>2, UpInduction
<1>. QED  BY <1>3 DEF T

\* The aggregate of keys in G is in G.
LEMMA AggregateType ==
  ASSUME NEW pks \in Seq(G), NEW bm
  PROVE  AggregateOf(pks, bm) \in G
BY AggFnType, AggFnDef, LenProperties
-----------------------------------------------------------------------------
(* ProductOfPairings: the Miller loop over the zipped slices.             *)

\* The body of ProductOfPairings' recursive function prod.
ProdBody(g1s, g2s, p, k) ==
  IF k = 0 THEN GTOne ELSE (p[k - 1] + Pair(g1s[k], g2s[k])) % Q

\* p satisfies prod's definition on 0..m.
ProdDefined(g1s, g2s, p, m) == p = [k \in 0..m |-> ProdBody(g1s, g2s, p, k)]

\* The function prod of ProductOfPairings(g1s, g2s).
ProdFn(g1s, g2s) == CHOOSE p : ProdDefined(g1s, g2s, p, PairedLen(g1s, g2s))

LEMMA ProdExists ==
  ASSUME NEW g1s, NEW g2s, NEW n \in Nat
  PROVE  \E p : ProdDefined(g1s, g2s, p, n)
<1> DEFINE T == {m \in Nat : \E p : ProdDefined(g1s, g2s, p, m)}
<1>1. 0 \in T
  <2> DEFINE p0 == [k \in 0..0 |-> GTOne]
  <2>1. ProdDefined(g1s, g2s, p0, 0)
    BY DEF ProdDefined, ProdBody
  <2>. QED  BY <2>1
<1>2. ASSUME NEW m \in 0..(n - 1), m \in T PROVE m + 1 \in T
  <2>1. PICK p : ProdDefined(g1s, g2s, p, m)
    BY <1>2
  <2> DEFINE h == [k \in 0..(m + 1) |->
                     IF k <= m THEN p[k] ELSE ProdBody(g1s, g2s, p, k)]
  <2>2. ASSUME NEW k \in 0..(m + 1) PROVE h[k] = ProdBody(g1s, g2s, h, k)
    <3>1. CASE k = 0
      BY <3>1, <2>1 DEF ProdDefined, ProdBody
    <3>2. CASE k # 0
      <4>1. h[k - 1] = p[k - 1]
        BY <3>2
      <4>2. h[k] = ProdBody(g1s, g2s, p, k)
        BY <2>1 DEF ProdDefined
      <4>. QED  BY <3>2, <4>1, <4>2 DEF ProdBody
    <3>. QED  BY <3>1, <3>2
  <2>3. ProdDefined(g1s, g2s, h, m + 1)
    BY <2>2 DEF ProdDefined
  <2>. QED  BY <2>3
<1>. QED  BY <1>1, <1>2, UpInduction

\* What ProductOfPairings computes, one pair at a time.
LEMMA ProdFnDef ==
  ASSUME NEW g1s, NEW g2s, PairedLen(g1s, g2s) \in Nat
  PROVE  /\ ProdFn(g1s, g2s)[0] = GTOne
         /\ \A k \in 1..PairedLen(g1s, g2s) :
              ProdFn(g1s, g2s)[k]
                = (ProdFn(g1s, g2s)[k - 1] + Pair(g1s[k], g2s[k])) % Q
         /\ ProductOfPairings(g1s, g2s) = ProdFn(g1s, g2s)[PairedLen(g1s, g2s)]
<1>1. ProdDefined(g1s, g2s, ProdFn(g1s, g2s), PairedLen(g1s, g2s))
  <2>1. \E p : ProdDefined(g1s, g2s, p, PairedLen(g1s, g2s))
    BY ProdExists
  <2>. QED  BY <2>1 DEF ProdFn
<1>2. ProductOfPairings(g1s, g2s)
        = (CHOOSE p : p = [k \in 0..PairedLen(g1s, g2s) |->
                             ProdBody(g1s, g2s, p, k)])[PairedLen(g1s, g2s)]
  BY DEF ProductOfPairings, ProdBody
<1>3. ProdFn(g1s, g2s)[0] = GTOne
  BY <1>1 DEF ProdDefined, ProdBody
<1>4. \A k \in 1..PairedLen(g1s, g2s) :
        ProdFn(g1s, g2s)[k]
          = (ProdFn(g1s, g2s)[k - 1] + Pair(g1s[k], g2s[k])) % Q
  BY <1>1 DEF ProdDefined, ProdBody
<1>5. ProductOfPairings(g1s, g2s) = ProdFn(g1s, g2s)[PairedLen(g1s, g2s)]
  BY <1>2 DEF ProdFn, ProdDefined
<1>. QED  BY <1>3, <1>4, <1>5

\* Reduction modulo q of a number below q, of q itself, and of q plus one.
LEMMA ModFacts ==
  ASSUME NEW q \in Nat, q >= 1, NEW v \in 0..(q - 1)
  PROVE  /\ v % q = v
         /\ q % q = 0
         /\ (v + q) % q = v
<1>1. v % q = v
  BY SMT
<1>2. q % q = 0
  BY SMT
<1>3. (v + q) % q = v
  BY SMT
<1>. QED  BY <1>1, <1>2, <1>3

(***************************************************************************)
(* The equation verify records, e(sig, -g2) * e(H(m), apk) = 1, holds      *)
(* exactly when e(sig, g2) = e(H(m), apk).                                 *)
(***************************************************************************)
LEMMA BlsEquation ==
  ASSUME NEW s \in G, NEW h \in G, NEW apk \in G
  PROVE  (ProductOfPairings(<<s, h>>, <<GNeg(G2Generator), apk>>) = GTOne)
           <=> (Pair(s, G2Generator) = Pair(h, apk))
<1> DEFINE g1s == <<s, h>>
           g2s == <<GNeg(G2Generator), apk>>
           p == ProdFn(g1s, g2s)
<1>0. Q \in Nat /\ Q >= 2
  BY QPositive
<1>1. PairedLen(g1s, g2s) = 2
  BY DEF PairedLen
<1>2. GNeg(G2Generator) = Q - 1
  BY <1>0 DEF GNeg, G2Generator
<1>3. /\ p[0] = GTOne
      /\ p[1] = (p[0] + Pair(s, Q - 1)) % Q
      /\ p[2] = (p[1] + Pair(h, apk)) % Q
      /\ ProductOfPairings(g1s, g2s) = p[2]
  BY <1>1, <1>2, ProdFnDef
<1>4. Pair(s, Q - 1) = (Q - s) % Q
  <2>1. s * (Q - 1) = (Q - s) + (s - 1) * Q
    BY <1>0 DEF G
  <2>. QED  BY <1>0, <2>1 DEF Pair, G
<1>5. Pair(h, apk) \in 0..(Q - 1) /\ Pair(s, G2Generator) = s
  BY <1>0 DEF Pair, G, G2Generator
<1>6. CASE s = 0
  <2>1. p[1] = 0
    BY <1>0, <1>3, <1>4, <1>6 DEF GTOne
  <2>2. p[2] = Pair(h, apk)
    BY <1>0, <1>3, <1>5, <2>1
  <2>. QED  BY <1>3, <1>5, <1>6, <2>2 DEF g1s, g2s, p, GTOne
<1>7. CASE s # 0
  <2> DEFINE x == Pair(h, apk)
  <2>1. p[1] = Q - s
    BY <1>0, <1>3, <1>4, <1>7 DEF G, GTOne, Pair
  <2>2. p[2] = (Q - s + x) % Q
    BY <1>3, <2>1
  <2>3. s \in 1..(Q - 1) /\ x \in 0..(Q - 1)
    BY <1>5, <1>7 DEF G
  <2>4. ((Q - s + x) % Q = 0) <=> (x = s)
    <3>1. CASE x = s
      <4>1. Q - s + x = Q
        BY <1>0, <2>3, <3>1
      <4>. QED  BY <1>0, <4>1, <3>1, ModFacts
    <3>2. CASE x < s
      <4>1. Q - s + x \in 1..(Q - 1)
        BY <1>0, <2>3, <3>2
      <4>2. (Q - s + x) % Q = Q - s + x
        BY <1>0, <4>1, ModFacts
      <4>. QED  BY <1>0, <2>3, <4>1, <4>2, <3>2
    <3>3. CASE x > s
      <4>1. Q - s + x = (x - s) + Q /\ x - s \in 1..(Q - 1)
        BY <1>0, <2>3, <3>3
      <4>2. (Q - s + x) % Q = x - s
        BY <1>0, <4>1, ModFacts
      <4>. QED  BY <1>0, <2>3, <4>1, <4>2, <3>3
    <3>. QED  BY <2>3, <3>1, <3>2, <3>3
  <2>. QED  BY <1>3, <1>5, <2>2, <2>4 DEF g1s, g2s, p, x, GTOne
<1>. QED  BY <1>6, <1>7

\* The remainder modulo Q is the r of any y = Q * d + r with 0 <= r < Q.
LEMMA ModUnique ==
  ASSUME NEW y \in Int, NEW d \in Int,
         NEW r \in 0..(Q - 1), y = Q * d + r
  PROVE  y % Q = r
BY QPositive

\* Reduction of a number below 2q.
LEMMA ModSmall ==
  ASSUME NEW y \in 0..(2 * Q - 1)
  PROVE  y % Q = IF y < Q THEN y ELSE y - Q
<1> USE QPositive
<1>0. y \in Int /\ 0 \in Int /\ 1 \in Int
  OBVIOUS
<1>1. CASE y < Q
  <2>1. y = Q * 0 + y /\ y \in 0..(Q - 1)
    BY <1>1
  <2>2. y % Q = y
    BY <1>0, <2>1, ModUnique
  <2>. QED  BY <1>1, <2>2
<1>2. CASE y >= Q
  <2>1. y = Q * 1 + (y - Q) /\ y - Q \in 0..(Q - 1)
    BY <1>2
  <2>2. y % Q = y - Q
    BY <1>0, <2>1, ModUnique
  <2>. QED  BY <1>2, <2>2
<1>. QED  BY <1>1, <1>2

\* A sum of two points reduced modulo Q is a point.
LEMMA ModRange ==
  ASSUME NEW u \in G, NEW v \in G
  PROVE  (u + v) % Q \in G
<1> USE QPositive DEF G
<1>0. u + v \in Int /\ 0 \in Int /\ 1 \in Int
  OBVIOUS
<1>1. CASE u + v < Q
  <2>1. u + v = Q * 0 + (u + v) /\ u + v \in 0..(Q - 1)
    BY <1>1
  <2>. QED  BY <1>0, <2>1, ModUnique
<1>2. CASE u + v >= Q
  <2>1. u + v = Q * 1 + (u + v - Q) /\ u + v - Q \in 0..(Q - 1)
    BY <1>2
  <2>2. (u + v) % Q = u + v - Q
    BY <1>0, <2>1, ModUnique
  <2>. QED  BY <2>1, <2>2
<1>. QED  BY <1>1, <1>2

\* Reducing after each addition or once at the end gives the same sum.
LEMMA ModAdd ==
  ASSUME NEW a \in 0..(Q - 1), NEW b \in 0..(Q - 1),
         NEW x \in 0..(Q - 1)
  PROVE  (((a + b) % Q) + x) % Q = (a + ((b + x) % Q)) % Q
<1> USE QPositive
<1> DEFINE lhs == (((a + b) % Q) + x) % Q
           rhs == (a + ((b + x) % Q)) % Q
<1>0. a + b \in 0..(2 * Q - 1) /\ b + x \in 0..(2 * Q - 1)
      /\ a + b + x \in Int
  OBVIOUS
<1>1. (a + b) % Q = IF a + b < Q THEN a + b ELSE a + b - Q
  BY <1>0, ModSmall
<1>2. (b + x) % Q = IF b + x < Q THEN b + x ELSE b + x - Q
  BY <1>0, ModSmall
<1>3. lhs = IF ((a + b) % Q) + x < Q THEN ((a + b) % Q) + x
            ELSE ((a + b) % Q) + x - Q
  <2>1. ((a + b) % Q) + x \in 0..(2 * Q - 1)
    BY <1>1
  <2>. QED  BY <2>1, ModSmall DEF lhs
<1>4. rhs = IF a + ((b + x) % Q) < Q THEN a + ((b + x) % Q)
            ELSE a + ((b + x) % Q) - Q
  <2>1. a + ((b + x) % Q) \in 0..(2 * Q - 1)
    BY <1>2
  <2>. QED  BY <2>1, ModSmall DEF rhs
<1>5. PICK d1 \in 0..2 : a + b + x = Q * d1 + lhs
  <2>1. CASE a + b < Q /\ a + b + x < Q
    <3>1. a + b + x = Q * 0 + lhs
      BY <1>1, <1>3, <2>1
    <3>. QED  BY <3>1
  <2>2. CASE a + b < Q /\ a + b + x >= Q
    <3>1. a + b + x = Q * 1 + lhs
      BY <1>1, <1>3, <2>2
    <3>. QED  BY <3>1
  <2>3. CASE a + b >= Q /\ a + b - Q + x < Q
    <3>1. a + b + x = Q * 1 + lhs
      BY <1>1, <1>3, <2>3
    <3>. QED  BY <3>1
  <2>4. CASE a + b >= Q /\ a + b - Q + x >= Q
    <3>1. a + b + x = Q * 2 + lhs
      BY <1>1, <1>3, <2>4
    <3>. QED  BY <3>1
  <2>. QED  BY <2>1, <2>2, <2>3, <2>4
<1>6. PICK d2 \in 0..2 : a + b + x = Q * d2 + rhs
  <2>1. CASE b + x < Q /\ a + b + x < Q
    <3>0. a + ((b + x) % Q) = a + b + x
      BY <1>2, <2>1
    <3>1. rhs = a + b + x
      BY <1>4, <2>1, <3>0
    <3>2. a + b + x = Q * 0 + rhs
      BY <3>1
    <3>. QED  BY <3>2
  <2>2. CASE b + x < Q /\ a + b + x >= Q
    <3>1. a + b + x = Q * 1 + rhs
      BY <1>2, <1>4, <2>2
    <3>. QED  BY <3>1
  <2>3. CASE b + x >= Q /\ a + b + x - Q < Q
    <3>1. a + b + x = Q * 1 + rhs
      BY <1>2, <1>4, <2>3
    <3>. QED  BY <3>1
  <2>4. CASE b + x >= Q /\ a + b + x - Q >= Q
    <3>1. a + b + x = Q * 2 + rhs
      BY <1>2, <1>4, <2>4
    <3>. QED  BY <3>1
  <2>. QED  BY <2>1, <2>2, <2>3, <2>4
<1>7. lhs \in 0..(Q - 1) /\ rhs \in 0..(Q - 1)
  BY <1>1, <1>2, <1>3, <1>4
<1>8. (a + b + x) % Q = lhs
  BY <1>0, <1>5, <1>7, ModUnique
<1>9. (a + b + x) % Q = rhs
  BY <1>0, <1>6, <1>7, ModUnique
<1>. QED  BY <1>8, <1>9

\* Adding e(s, -g2) cancels e(s, g2): the sum is the identity exactly
\* when the other term is s.
LEMMA NegCancel ==
  ASSUME NEW s \in G, NEW x \in G
  PROVE  ((Pair(s, GNeg(G2Generator)) + x) % Q = GTOne) <=> (x = s)
<1>0. Q \in Nat /\ Q >= 2
  BY QPositive
<1>1. GNeg(G2Generator) = Q - 1
  BY <1>0 DEF GNeg, G2Generator
<1>3. x \in 0..(Q - 1)
  BY DEF G
<1>4. CASE s = 0
  <2>1. Pair(s, GNeg(G2Generator)) = 0
    BY <1>0, <1>1, <1>4, ModFacts DEF Pair
  <2>2. (0 + x) % Q = x
    BY <1>0, <1>3, ModFacts
  <2>. QED  BY <1>4, <2>1, <2>2 DEF GTOne
<1>5. CASE s # 0
  <2>0. s \in 1..(Q - 1) /\ Q - s \in 0..(Q - 1)
    BY <1>0, <1>5 DEF G
  <2>1. Pair(s, GNeg(G2Generator)) = Q - s /\ s \in 1..(Q - 1)
    <3>1. s * (Q - 1) = Q * (s - 1) + (Q - s) /\ s * (Q - 1) \in Int
          /\ s - 1 \in Int
      BY <1>0, <2>0
    <3>2. (s * (Q - 1)) % Q = Q - s
      BY <2>0, <3>1, ModUnique
    <3>. QED  BY <1>1, <2>0, <3>2 DEF Pair
  <2>2. ((Q - s + x) % Q = 0) <=> (x = s)
    <3>1. CASE x = s
      <4>1. Q - s + x = Q
        BY <1>0, <2>1, <3>1
      <4>. QED  BY <1>0, <4>1, <3>1, <1>3, ModFacts
    <3>2. CASE x < s
      <4>1. Q - s + x \in 1..(Q - 1)
        BY <1>0, <1>3, <2>1, <3>2
      <4>2. (Q - s + x) % Q = Q - s + x
        BY <1>0, <4>1, ModFacts
      <4>. QED  BY <1>0, <2>1, <4>1, <4>2, <3>2
    <3>3. CASE x > s
      <4>1. Q - s + x = (x - s) + Q /\ x - s \in 1..(Q - 1)
        BY <1>0, <1>3, <2>1, <3>3
      <4>2. (Q - s + x) % Q = x - s
        BY <1>0, <4>1, ModFacts
      <4>. QED  BY <1>0, <2>1, <4>1, <4>2, <3>3
    <3>. QED  BY <1>0, <1>3, <2>1, <3>1, <3>2, <3>3
  <2>. QED  BY <2>1, <2>2 DEF GTOne
<1>. QED  BY <1>4, <1>5

\* e(s, g2) is s.
LEMMA PairGenerator ==
  ASSUME NEW s \in G
  PROVE  Pair(s, G2Generator) = s
BY QPositive, ModFacts DEF Pair, G2Generator, G

(***************************************************************************)
(* The equation batch_verify_prepared records,                             *)
(*   e(sig, -g2) * prod_k e(H(m_k), apk_k) = 1,                            *)
(* holds exactly when prod_k e(H(m_k), apk_k) is e(sig, g2) = sig: the     *)
(* product over the prefixed slices is the pair of the prefixes times the  *)
(* product over the slices, which the loop shows one pair at a time.       *)
(***************************************************************************)
LEMMA BatchProduct ==
  ASSUME NEW s \in G, NEW a \in Seq(G), NEW b \in Seq(G), Len(a) = Len(b)
  PROVE  (ProductOfPairings(<<s>> \o a, <<GNeg(G2Generator)>> \o b) = GTOne)
           <=> (ProductOfPairings(a, b) = s)
<1> DEFINE n  == GNeg(G2Generator)
           A  == <<s>> \o a
           B  == <<n>> \o b
           L  == Len(a)
           P  == ProdFn(a, b)
           P2 == ProdFn(A, B)
           c  == Pair(s, n)
<1>0. /\ Q \in Nat /\ Q >= 2 /\ L \in Nat /\ n \in G /\ c \in G
  BY QPositive, LenProperties, GroupClosed
<1>1. /\ A \in Seq(G) /\ Len(A) = L + 1 /\ A[1] = s
      /\ \A k \in 1..L : A[k + 1] = a[k]
      /\ B \in Seq(G) /\ Len(B) = L + 1 /\ B[1] = n
      /\ \A k \in 1..L : B[k + 1] = b[k]
  <2>1. <<s>> \in Seq(G) /\ <<n>> \in Seq(G) /\ Len(<<s>>) = 1
        /\ Len(<<n>>) = 1
    BY <1>0
  <2>. QED  BY <1>0, <2>1, ConcatProperties
<1>2. PairedLen(a, b) = L /\ PairedLen(A, B) = L + 1
  BY <1>0, <1>1 DEF PairedLen
<1>3. /\ P[0] = GTOne
      /\ \A k \in 1..L : P[k] = (P[k - 1] + Pair(a[k], b[k])) % Q
      /\ ProductOfPairings(a, b) = P[L]
  BY <1>0, <1>2, ProdFnDef
<1>4. /\ P2[0] = GTOne
      /\ \A k \in 1..(L + 1) : P2[k] = (P2[k - 1] + Pair(A[k], B[k])) % Q
      /\ ProductOfPairings(A, B) = P2[L + 1]
  <2>1. PairedLen(A, B) \in Nat
    BY <1>0, <1>2
  <2>2. /\ P2[0] = GTOne
        /\ \A k \in 1..PairedLen(A, B) :
             P2[k] = (P2[k - 1] + Pair(A[k], B[k])) % Q
        /\ ProductOfPairings(A, B) = P2[PairedLen(A, B)]
    BY <2>1, ProdFnDef
  <2>. QED  BY <1>2, <2>2
<1> DEFINE T == {k \in Nat : k <= L => /\ P[k] \in G
                                        /\ P2[k + 1] = (c + P[k]) % Q}
<1>5. 0 \in T
  <2>1. P2[1] = (GTOne + c) % Q
    BY <1>0, <1>1, <1>4
  <2>. QED  BY <1>3, <2>1, <1>0 DEF GTOne, G
<1>6. ASSUME NEW m \in 0..(L - 1), m \in T PROVE m + 1 \in T
  <2> DEFINE x == Pair(a[m + 1], b[m + 1])
  <2>1. P[m] \in G /\ P2[m + 1] = (c + P[m]) % Q
    BY <1>6
  <2>2. x \in G
    <3>1. m + 1 \in 1..Len(a) /\ m + 1 \in 1..Len(b)
      BY <1>0
    <3>2. a[m + 1] \in G /\ b[m + 1] \in G
      BY <3>1, ElementOfSeq
    <3>. QED  BY <3>2, GroupClosed
  <2>3. P[m + 1] = (P[m] + x) % Q
    BY <1>0, <1>3
  <2>4. P[m + 1] \in G
    <3>1. (P[m] + x) % Q \in G
      BY <2>1, <2>2, ModRange, Zenon
    <3>. QED  BY <2>3, <3>1
  <2>5. P2[m + 2] = (P2[m + 1] + x) % Q
    <3>1. A[m + 2] = a[m + 1] /\ B[m + 2] = b[m + 1]
      BY <1>0, <1>1
    <3>2. m + 2 \in 1..(L + 1) /\ (m + 2) - 1 = m + 1
      BY <1>0
    <3>. QED  BY <1>4, <3>1, <3>2
  <2>6. (((c + P[m]) % Q) + x) % Q = (c + ((P[m] + x) % Q)) % Q
    BY <1>0, <2>1, <2>2, ModAdd DEF G
  <2>7. P2[(m + 1) + 1] = (c + P[m + 1]) % Q
    BY <2>1, <2>3, <2>5, <2>6
  <2>. QED  BY <2>4, <2>7
<1>7. L \in T
  <2>1. \A k \in 0..(L - 1) : k \in T => k + 1 \in T
    BY <1>6
  <2>. QED  BY <1>0, <1>5, <2>1, UpInduction
<1>8. ProductOfPairings(A, B) = (c + P[L]) % Q /\ P[L] \in G
  BY <1>0, <1>4, <1>7
<1>. QED  BY <1>3, <1>8, NegCancel
=============================================================================
