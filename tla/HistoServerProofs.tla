--------------------------- MODULE HistoServerProofs ---------------------------
(***************************************************************************)
(* What the histogram server shows, counts and saves.                      *)
(*                                                                         *)
(* The handlers of the server fold an operator over the histograms of a    *)
(* message, and what a device still holds is a sum.  The first part proves *)
(* that a fold has its intermediate values (FoldedBy...) and what a sum    *)
(* does when one term changes, by induction over the natural numbers.      *)
(*                                                                         *)
(* Then, each by an inductive invariant: TypeOK; Counted, the sums of one  *)
(* name in devices, messages and server; ServedInv with ConfigFirst, that  *)
(* a device's first message has its configuration; Serving, who may hold   *)
(* the mutex while the HTTP thread serves.                                 *)
(***************************************************************************)
EXTENDS HistoServer, TLAPS, FiniteSetTheorems, WellFoundedInduction

-----------------------------------------------------------------------------
(* Induction and folds.                                                    *)

\* Induction over the natural numbers, for a set of them.
LEMMA SetOfAllNat ==
  ASSUME NEW A, 0 \in A, \A n \in Nat : n \in A => n + 1 \in A
  PROVE  \A n \in Nat : n \in A
<1> DEFINE R == OpToRel(<, Nat)
           B == Nat \ A
<1>1. IsWellFoundedOn(R, Nat)
  BY NatLessThanWellFounded
<1>2. SUFFICES ASSUME B # {} PROVE FALSE
  OBVIOUS
<1>3. PICK b \in B : \A y \in B : ~(<<y, b>> \in R)
  <2>1. B \subseteq Nat
    OBVIOUS
  <2> HIDE DEF B, R
  <2> QED
    BY <1>1, <1>2, <2>1, WFMin
<1>4. b # 0 /\ b - 1 \in Nat /\ (b - 1) + 1 = b
  OBVIOUS
<1>5. b - 1 \in B
  BY <1>4
<1>6. <<b - 1, b>> \in R
  BY <1>4 DEF OpToRel
<1> QED
  BY <1>3, <1>5, <1>6

\* What a fold takes: the operation F on values of T, which starts at base, and
\* pick[s], the element of s that is taken next.
FoldInput(S, T, base, F, pick) ==
  /\ IsFiniteSet(S)
  /\ base \in T
  /\ F \in [S -> [T -> T]]
  /\ \A s \in SUBSET S : s # {} => pick[s] \in s

\* g is the fold of F over every part of S.
IsFold(g, S, base, F, pick) ==
  \A s \in SUBSET S :
    g[s] = IF s = {} THEN base ELSE F[pick[s]][g[s \ {pick[s]}]]

\* A recursion that takes one element after the other from a finite set has a
\* solution: F is the operation, pick[s] the element taken from s.
LEMMA FoldExists ==
  ASSUME NEW S, NEW T, NEW base, NEW F, NEW pick, FoldInput(S, T, base, F, pick)
  PROVE  \E g \in [SUBSET S -> T] : IsFold(g, S, base, F, pick)
<1> USE DEF FoldInput
<1> DEFINE Small(n) == {s \in SUBSET S : Cardinality(s) <= n}
           Good(n, g) == \A s \in Small(n) :
             g[s] = IF s = {} THEN base ELSE F[pick[s]][g[s \ {pick[s]}]]
           A == {n \in Nat : \E g \in [Small(n) -> T] : Good(n, g)}
<1>1. \A s \in SUBSET S : IsFiniteSet(s) /\ Cardinality(s) \in Nat
                          /\ (Cardinality(s) = 0 <=> s = {})
  BY FS_Subset, FS_CardinalityType, FS_EmptySet
<1>2. \A s \in SUBSET S : s # {} =>
        /\ s \ {pick[s]} \in SUBSET S
        /\ Cardinality(s \ {pick[s]}) = Cardinality(s) - 1
  BY <1>1, FS_RemoveElement
<1>3. 0 \in A
  <2> DEFINE g == [s \in Small(0) |-> base]
  <2>1. g \in [Small(0) -> T]
    OBVIOUS
  <2>2. \A s \in Small(0) : s = {}
    BY <1>1
  <2>3. Good(0, g)
    BY <2>2
  <2> QED
    BY <2>1, <2>3
<1>4. \A n \in Nat : n \in A => n + 1 \in A
  <2> SUFFICES ASSUME NEW n \in Nat, n \in A PROVE n + 1 \in A
    OBVIOUS
  <2>1. PICK h \in [Small(n) -> T] : Good(n, h)
    OBVIOUS
  <2> DEFINE g == [s \in Small(n + 1) |->
                     IF s \in Small(n) THEN h[s] ELSE F[pick[s]][h[s \ {pick[s]}]]]
  <2>2. \A s \in Small(n + 1) : s # {} => s \ {pick[s]} \in Small(n)
    <3> SUFFICES ASSUME NEW s \in Small(n + 1), s # {}
                 PROVE  s \ {pick[s]} \in Small(n)
      OBVIOUS
    <3>1. Cardinality(s) \in Nat /\ Cardinality(s) <= n + 1
      BY <1>1
    <3> QED
      BY <3>1, <1>2
  <2>3. Small(n) \subseteq Small(n + 1)
    BY <1>1
  <2>4. \A s \in Small(n + 1) : s \notin Small(n) => s # {}
    BY <1>1
  <2>5. g \in [Small(n + 1) -> T]
    <3> SUFFICES ASSUME NEW s \in Small(n + 1), s \notin Small(n)
                 PROVE  F[pick[s]][h[s \ {pick[s]}]] \in T
      OBVIOUS
    <3>1. h[s \ {pick[s]}] \in T
      BY <2>2, <2>4
    <3>2. pick[s] \in S
      BY <2>4
    <3>3. F[pick[s]] \in [T -> T]
      BY <3>2
    <3> HIDE DEF Small
    <3> QED
      BY <3>1, <3>3
  <2>6. Good(n + 1, g)
    <3> SUFFICES ASSUME NEW s \in Small(n + 1)
                 PROVE  g[s] = IF s = {} THEN base ELSE F[pick[s]][g[s \ {pick[s]}]]
      OBVIOUS
    <3>1. CASE s \in Small(n)
      <4>1. s # {} => s \ {pick[s]} \in Small(n)
        BY <2>2, <2>3
      <4>2. s # {} => g[s \ {pick[s]}] = h[s \ {pick[s]}]
        <5> HIDE DEF Small
        <5> QED BY <4>1, <2>3
      <4>3. g[s] = h[s]
        BY <3>1
      <4> HIDE DEF Small, g
      <4> QED
        BY <2>1, <3>1, <4>2, <4>3
    <3>2. CASE s \notin Small(n)
      <4>1. s # {} /\ s \ {pick[s]} \in Small(n)
        BY <2>2, <2>4, <3>2
      <4>2. g[s \ {pick[s]}] = h[s \ {pick[s]}]
        <5> HIDE DEF Small
        <5> QED BY <4>1, <2>3
      <4>3. g[s] = F[pick[s]][h[s \ {pick[s]}]]
        BY <3>2
      <4> QED
        BY <4>1, <4>2, <4>3
    <3> QED
      BY <3>1, <3>2
  <2>7. \E k \in [Small(n + 1) -> T] : Good(n + 1, k)
    <3> HIDE DEF Small, Good, g
    <3> QED
      BY <2>5, <2>6
  <2> HIDE DEF Small, Good
  <2> QED
    BY <2>7
<1>5. Cardinality(S) \in Nat /\ Cardinality(S) \in A
  <2>1. Cardinality(S) \in Nat
    BY FS_CardinalityType
  <2> HIDE DEF A
  <2> QED
    BY <1>3, <1>4, <2>1, SetOfAllNat
<1>6. PICK g \in [Small(Cardinality(S)) -> T] : Good(Cardinality(S), g)
  BY <1>5
<1>7. Small(Cardinality(S)) = SUBSET S
  BY <1>5, FS_Subset
<1> QED
  BY <1>6, <1>7 DEF IsFold

\* Induction over the parts of a finite set, one element after the other.
ByParts(S, pick, P) ==
  /\ IsFiniteSet(S)
  /\ \A s \in SUBSET S : s # {} => pick[s] \in s
  /\ {} \in P
  /\ \A s \in SUBSET S : s # {} /\ s \ {pick[s]} \in P => s \in P

LEMMA PartInduction ==
  ASSUME NEW S, NEW pick, NEW P, ByParts(S, pick, P)
  PROVE  \A s \in SUBSET S : s \in P
<1> USE DEF ByParts
<1> DEFINE A == {n \in Nat : \A s \in SUBSET S : Cardinality(s) = n => s \in P}
<1>1. \A s \in SUBSET S : Cardinality(s) \in Nat /\ (Cardinality(s) = 0 <=> s = {})
  BY FS_Subset, FS_CardinalityType, FS_EmptySet
<1>2. \A s \in SUBSET S : s # {} =>
        /\ s \ {pick[s]} \in SUBSET S
        /\ Cardinality(s \ {pick[s]}) = Cardinality(s) - 1
  BY FS_Subset, FS_RemoveElement
<1>3. 0 \in A
  BY <1>1
<1>4. \A n \in Nat : n \in A => n + 1 \in A
  <2> SUFFICES ASSUME NEW n \in Nat, n \in A,
                      NEW s \in SUBSET S, Cardinality(s) = n + 1
               PROVE  s \in P
    OBVIOUS
  <2>1. s # {}
    BY <1>1
  <2>2. s \ {pick[s]} \in SUBSET S /\ Cardinality(s \ {pick[s]}) = n
    BY <1>2, <2>1
  <2> QED
    BY <2>1, <2>2
<1>5. \A n \in Nat : n \in A
  <2> HIDE DEF A
  <2> QED
    BY <1>3, <1>4, SetOfAllNat
<1> QED
  BY <1>1, <1>5

-----------------------------------------------------------------------------
(* Sums.                                                                   *)

\* The element that a fold over a set takes next.
Pick(s) == CHOOSE x \in s : TRUE

\* What the definition of a sum says, for all parts of the set at once.
SumParts(f, S, g) ==
  \A s \in SUBSET S : g[s] = IF s = {} THEN 0 ELSE f[Pick(s)] + g[s \ {Pick(s)}]

\* The sums over the parts of a finite set.
LEMMA SumPartsExist ==
  ASSUME NEW S, IsFiniteSet(S), NEW f, \A x \in S : f[x] \in Nat
  PROVE  \E g \in [SUBSET S -> Nat] : SumParts(f, S, g) /\ Sum(f, S) = g[S]
<1> DEFINE F == [x \in S |-> [n \in Nat |-> f[x] + n]]
           pick == [s \in SUBSET S |-> Pick(s)]
           Body(g) == [s \in SUBSET S |->
                         IF s = {} THEN 0 ELSE f[Pick(s)] + g[s \ {Pick(s)}]]
<1>1. \A s \in SUBSET S : s # {} => Pick(s) \in s
  BY DEF Pick
<1>2. \E g \in [SUBSET S -> Nat] : g = Body(g)
  <2>1. F \in [S -> [Nat -> Nat]]
    OBVIOUS
  <2>2. \A s \in SUBSET S : s # {} => pick[s] \in s
    BY <1>1
  <2> HIDE DEF F, pick
  <2>3. PICK g \in [SUBSET S -> Nat] :
          \A s \in SUBSET S : g[s] = IF s = {} THEN 0 ELSE F[pick[s]][g[s \ {pick[s]}]]
    <3>1. FoldInput(S, Nat, 0, F, pick)
      BY <2>1, <2>2 DEF FoldInput
    <3>2. \E g \in [SUBSET S -> Nat] : IsFold(g, S, 0, F, pick)
      BY <3>1, FoldExists
    <3> QED
      BY <3>2 DEF IsFold
  <2>4. ASSUME NEW s \in SUBSET S, s # {}
        PROVE  F[pick[s]][g[s \ {pick[s]}]] = f[Pick(s)] + g[s \ {Pick(s)}]
    <3>1. pick[s] = Pick(s) /\ Pick(s) \in S
      BY <1>1, <2>4 DEF pick
    <3>2. g[s \ {Pick(s)}] \in Nat
      OBVIOUS
    <3> QED
      BY <3>1, <3>2 DEF F
  <2>5. g = Body(g)
    BY <2>3, <2>4
  <2> QED
    BY <2>5
<1>3. PICK k \in [SUBSET S -> Nat] : k = Body(k)
  BY <1>2
<1>4. Sum(f, S) = (CHOOSE g : g = Body(g))[S]
  BY DEF Sum, FoldFunctionOnSet, MapThenFoldSet, Pick
<1> DEFINE c == CHOOSE g : g = Body(g)
<1>5. c = Body(c)
  <2> HIDE DEF Body
  <2> QED
    BY <1>3
<1>6. ASSUME NEW s \in SUBSET S PROVE c[s] = IF s = {} THEN 0 ELSE f[Pick(s)] + c[s \ {Pick(s)}]
  <2>1. c[s] = Body(c)[s]
    BY <1>5
  <2> HIDE DEF c
  <2> QED
    BY <2>1
<1>7. c \in [SUBSET S -> Nat]
  <2> DEFINE P == {s \in SUBSET S : c[s] \in Nat}
  <2>1. {} \in P
    <3>1. c[{}] = 0
      <4> HIDE DEF c
      <4> QED BY <1>6
    <3> HIDE DEF c
    <3> QED
      BY <3>1
  <2>2. \A s \in SUBSET S : s # {} /\ s \ {pick[s]} \in P => s \in P
    <3> SUFFICES ASSUME NEW s \in SUBSET S, s # {}, s \ {pick[s]} \in P
                 PROVE  c[s] \in Nat
      OBVIOUS
    <3>1. pick[s] = Pick(s) /\ Pick(s) \in S
      BY <1>1
    <3>2. c[s] = f[Pick(s)] + c[s \ {Pick(s)}]
      <4> HIDE DEF c
      <4> QED BY <1>6
    <3>3. f[Pick(s)] \in Nat /\ c[s \ {Pick(s)}] \in Nat
      BY <3>1
    <3> HIDE DEF c
    <3> QED
      BY <3>2, <3>3
  <2>3. \A s \in SUBSET S : s # {} => pick[s] \in s
    BY <1>1
  <2>4. \A s \in SUBSET S : s \in P
    <3> HIDE DEF P, pick
    <3>1. ByParts(S, pick, P)
      BY <2>1, <2>2, <2>3 DEF ByParts
    <3> QED
      BY <3>1, PartInduction
  <2>5. \A s \in SUBSET S : c[s] \in Nat
    BY <2>4
  <2>6. c = [s \in SUBSET S |-> c[s]]
    <3> HIDE DEF c
    <3> QED
      BY <1>5
  <2> HIDE DEF c
  <2> QED
    BY <2>5, <2>6
<1>8. SumParts(f, S, c)
  <2> HIDE DEF c
  <2> QED
    BY <1>6 DEF SumParts
<1>9. Sum(f, S) = c[S]
  BY <1>4 DEF c
<1> HIDE DEF c
<1> QED
  BY <1>7, <1>8, <1>9

\* The sums over the parts of a set do not depend on what else is summed up.
LEMMA SumPartsAgree ==
  ASSUME NEW S, NEW U \in SUBSET S, IsFiniteSet(U), NEW f, NEW e,
         \A x \in U : f[x] = e[x],
         NEW g, NEW k, SumParts(f, S, g), SumParts(e, U, k)
  PROVE  k[U] = g[U]
<1> DEFINE P == {s \in SUBSET U : k[s] = g[s]}
           pick == [s \in SUBSET U |-> Pick(s)]
<1>1. {} \in P
  BY DEF SumParts
<1>2. \A s \in SUBSET U : s # {} => pick[s] \in s
  BY DEF Pick
<1>3. \A s \in SUBSET U : s # {} /\ s \ {pick[s]} \in P => s \in P
  <2> SUFFICES ASSUME NEW s \in SUBSET U, s # {}, s \ {pick[s]} \in P
               PROVE  k[s] = g[s]
    OBVIOUS
  <2>1. pick[s] = Pick(s) /\ Pick(s) \in U
    BY <1>2
  <2>2. k[s] = e[Pick(s)] + k[s \ {Pick(s)}]
    BY DEF SumParts
  <2>3. g[s] = f[Pick(s)] + g[s \ {Pick(s)}]
    BY DEF SumParts
  <2>4. k[s \ {Pick(s)}] = g[s \ {Pick(s)}]
    BY <2>1
  <2> QED
    BY <2>1, <2>2, <2>3, <2>4
<1>4. \A s \in SUBSET U : s \in P
  <2> HIDE DEF P, pick
  <2>1. ByParts(U, pick, P)
    BY <1>1, <1>2, <1>3 DEF ByParts
  <2> QED
    BY <2>1, PartInduction
<1> QED
  BY <1>4

\* It does not matter which element is taken first.
LEMMA SumPartsAnyOrder ==
  ASSUME NEW S, IsFiniteSet(S), NEW f, \A x \in S : f[x] \in Nat,
         NEW g, \A s \in SUBSET S : g[s] \in Nat, SumParts(f, S, g)
  PROVE  \A x \in S : g[S] = f[x] + g[S \ {x}]
<1> DEFINE AnyFirst(s) == \A x \in s : g[s] = f[x] + g[s \ {x}]
           A == {n \in Nat : \A s \in SUBSET S : Cardinality(s) = n => AnyFirst(s)}
<1>1. \A s \in SUBSET S : IsFiniteSet(s) /\ Cardinality(s) \in Nat
  BY FS_Subset, FS_CardinalityType
<1>2. \A s \in SUBSET S : \A x \in s :
        s \ {x} \in SUBSET S /\ Cardinality(s \ {x}) = Cardinality(s) - 1
  BY <1>1, FS_RemoveElement
<1>3. 0 \in A
  BY <1>1, FS_EmptySet
<1>4. \A n \in Nat : n \in A => n + 1 \in A
  <2> SUFFICES ASSUME NEW n \in Nat, n \in A,
                      NEW s \in SUBSET S, Cardinality(s) = n + 1
               PROVE  AnyFirst(s)
    <3> HIDE DEF AnyFirst
    <3> QED OBVIOUS
  <2> SUFFICES ASSUME NEW x \in s PROVE g[s] = f[x] + g[s \ {x}]
    OBVIOUS
  <2> DEFINE c == Pick(s)
  <2>1. c \in s /\ s # {}
    BY DEF Pick
  <2> HIDE DEF c
  <2>2. g[s] = f[c] + g[s \ {c}]
    BY <2>1 DEF SumParts, c
  <2>3. CASE x = c
    BY <2>2, <2>3
  <2>4. CASE x # c
    <3>1. s \ {c} \in SUBSET S /\ Cardinality(s \ {c}) = n
      BY <1>2, <2>1
    <3>2. s \ {x} \in SUBSET S /\ Cardinality(s \ {x}) = n
      BY <1>2
    <3>3. g[s \ {c}] = f[x] + g[(s \ {c}) \ {x}]
      BY <2>4, <3>1
    <3>4. g[s \ {x}] = f[c] + g[(s \ {x}) \ {c}]
      BY <2>1, <2>4, <3>2
    <3>5. (s \ {c}) \ {x} = (s \ {x}) \ {c}
      OBVIOUS
    <3>6. f[x] \in Nat /\ f[c] \in Nat /\ g[(s \ {x}) \ {c}] \in Nat
      BY <2>1
    <3>7. g[s \ {c}] = f[x] + g[(s \ {x}) \ {c}]
      BY <3>3, <3>5
    <3> HIDE DEF A
    <3> QED
      BY <2>2, <3>4, <3>6, <3>7
  <2> QED
    BY <2>3, <2>4
<1>5. \A n \in Nat : n \in A
  <2> HIDE DEF A
  <2> QED
    BY <1>3, <1>4, SetOfAllNat
<1> QED
  BY <1>1, <1>5

\* A sum is a number; the sum over nothing is zero.
LEMMA SumType ==
  ASSUME NEW S, IsFiniteSet(S), NEW f, \A x \in S : f[x] \in Nat
  PROVE  Sum(f, S) \in Nat /\ (S = {} => Sum(f, S) = 0)
<1>1. PICK g \in [SUBSET S -> Nat] : SumParts(f, S, g) /\ Sum(f, S) = g[S]
  BY SumPartsExist
<1> QED
  BY <1>1 DEF SumParts

\* A sum depends on its terms only.
LEMMA SumOfTerms ==
  ASSUME NEW S, IsFiniteSet(S), NEW f, NEW e, \A x \in S : f[x] \in Nat /\ e[x] = f[x]
  PROVE  Sum(f, S) = Sum(e, S)
<1>1. PICK g \in [SUBSET S -> Nat] : SumParts(f, S, g) /\ Sum(f, S) = g[S]
  BY SumPartsExist
<1>2. PICK k \in [SUBSET S -> Nat] : SumParts(e, S, k) /\ Sum(e, S) = k[S]
  BY SumPartsExist
<1> QED
  BY <1>1, <1>2, SumPartsAgree

\* One term taken out of a sum.
LEMMA SumRest ==
  ASSUME NEW S, IsFiniteSet(S), NEW f, \A x \in S : f[x] \in Nat, NEW x \in S
  PROVE  Sum(f, S) = f[x] + Sum(f, S \ {x})
<1> DEFINE U == S \ {x}
<1>1. IsFiniteSet(U) /\ U \in SUBSET S /\ \A y \in U : f[y] \in Nat
  BY FS_Subset
<1> HIDE DEF U
<1>2. PICK g \in [SUBSET S -> Nat] : SumParts(f, S, g) /\ Sum(f, S) = g[S]
  BY SumPartsExist
<1>3. PICK k \in [SUBSET U -> Nat] : SumParts(f, U, k) /\ Sum(f, U) = k[U]
  BY <1>1, SumPartsExist
<1>4. k[U] = g[U]
  BY <1>1, <1>2, <1>3, SumPartsAgree
<1>5. g[S] = f[x] + g[S \ {x}]
  BY <1>2, SumPartsAnyOrder
<1> QED
  BY <1>2, <1>3, <1>4, <1>5 DEF U

\* What a sum does when one term changes.
LEMMA SumUpdate ==
  ASSUME NEW S, IsFiniteSet(S), NEW f, NEW e,
         \A y \in S : f[y] \in Nat /\ e[y] \in Nat,
         NEW x \in S, \A y \in S \ {x} : e[y] = f[y]
  PROVE  Sum(e, S) + f[x] = Sum(f, S) + e[x]
<1>1. IsFiniteSet(S \ {x})
  BY FS_Subset
<1>2. Sum(f, S) = f[x] + Sum(f, S \ {x})
  BY SumRest
<1>3. Sum(e, S) = e[x] + Sum(e, S \ {x})
  BY SumRest
<1>4. Sum(f, S \ {x}) = Sum(e, S \ {x}) /\ Sum(f, S \ {x}) \in Nat
  BY <1>1, SumOfTerms, SumType
<1> QED
  BY <1>2, <1>3, <1>4

\* Sums over the first indices.
LEMMA SumPrefix ==
  ASSUME NEW n \in Nat, NEW f, \A i \in 1 .. n + 1 : f[i] \in Nat
  PROVE  /\ Sum(f, 1 .. 0) = 0
         /\ Sum(f, 1 .. n) \in Nat
         /\ Sum(f, 1 .. n + 1) = f[n + 1] + Sum(f, 1 .. n)
<1>1. \A k \in Nat : IsFiniteSet(1 .. k)
  BY FS_Interval
<1>2. IsFiniteSet(1 .. n) /\ IsFiniteSet(1 .. n + 1) /\ IsFiniteSet(1 .. 0)
  BY <1>1
<1>3. Sum(f, 1 .. n) \in Nat
  BY <1>2, SumType
<1>4. Sum(f, 1 .. 0) = 0
  <2>1. 1 .. 0 = {}
    OBVIOUS
  <2>2. \A x \in {} : f[x] \in Nat
    OBVIOUS
  <2> QED
    BY <1>2, <2>1, <2>2, SumType
<1>5. Sum(f, 1 .. n + 1) = f[n + 1] + Sum(f, 1 .. n)
  <2> DEFINE S == 1 .. n + 1
  <2>1. n + 1 \in S /\ S \ {n + 1} = 1 .. n /\ \A x \in S : f[x] \in Nat
    OBVIOUS
  <2>2. IsFiniteSet(S)
    BY <1>2
  <2> HIDE DEF S
  <2>3. Sum(f, S) = f[n + 1] + Sum(f, S \ {n + 1})
    BY <2>1, <2>2, SumRest
  <2> QED
    BY <2>1, <2>3 DEF S
<1> QED
  BY <1>3, <1>4, <1>5

\* The sum over a sequence, without its first element.
LEMMA SumTail ==
  ASSUME NEW k \in Nat, NEW f, NEW e,
         \A i \in 1 .. k + 1 : f[i] \in Nat, \A i \in 1 .. k : e[i] = f[i + 1]
  PROVE  Sum(f, 1 .. k + 1) = f[1] + Sum(e, 1 .. k)
<1> DEFINE A == {n \in Nat : n <= k => Sum(f, 1 .. n + 1) = f[1] + Sum(e, 1 .. n)}
<1>1. \A i \in 1 .. k : e[i] \in Nat
  OBVIOUS
<1>2. 0 \in A
  <2>1. \A i \in 1 .. 0 + 1 : f[i] \in Nat
    OBVIOUS
  <2>2. Sum(f, 1 .. 0) = 0 /\ Sum(f, 1 .. 0 + 1) = f[0 + 1] + Sum(f, 1 .. 0)
    BY <2>1, SumPrefix
  <2>3. Sum(e, 1 .. 0) = 0
    <3>1. 1 .. 0 = {} /\ IsFiniteSet({})
      BY FS_EmptySet
    <3> QED
      BY <3>1, SumType
  <2>4. f[1] \in Nat
    OBVIOUS
  <2> QED
    BY <2>2, <2>3, <2>4
<1>3. \A n \in Nat : n \in A => n + 1 \in A
  <2> SUFFICES ASSUME NEW n \in Nat, n \in A, n + 1 <= k
               PROVE  Sum(f, 1 .. (n + 1) + 1) = f[1] + Sum(e, 1 .. n + 1)
    OBVIOUS
  <2>1. Sum(f, 1 .. n + 1) = f[1] + Sum(e, 1 .. n)
    OBVIOUS
  <2>2. n + 1 \in Nat /\ (\A i \in 1 .. (n + 1) + 1 : f[i] \in Nat)
        /\ \A i \in 1 .. n + 1 : e[i] \in Nat
    BY <1>1
  <2> HIDE DEF A
  <2>3. Sum(f, 1 .. (n + 1) + 1) = f[(n + 1) + 1] + Sum(f, 1 .. n + 1)
    BY <2>2, SumPrefix
  <2>4. Sum(e, 1 .. n + 1) = e[n + 1] + Sum(e, 1 .. n) /\ Sum(e, 1 .. n) \in Nat
    BY <2>2, SumPrefix
  <2>5. e[n + 1] = f[(n + 1) + 1] /\ f[1] \in Nat /\ f[(n + 1) + 1] \in Nat
    OBVIOUS
  <2> QED
    BY <2>1, <2>3, <2>4, <2>5
<1>4. \A n \in Nat : n \in A
  <2> HIDE DEF A
  <2> QED
    BY <1>2, <1>3, SetOfAllNat
<1> QED
  BY <1>4

\* A set of indices has a greatest one.
LEMMA GreatestIndex ==
  ASSUME NEW n \in Nat
  PROVE  \A s \in SUBSET (1 .. n) : s # {} => Max(s) \in s /\ \A i \in s : i <= Max(s)
<1> DEFINE HasMax(s) == \E x \in s : \A y \in s : x >= y
           A == {k \in Nat : \A s \in SUBSET (1 .. k) : s # {} => HasMax(s)}
<1>1. 0 \in A
  <2>1. 1 .. 0 = {}
    OBVIOUS
  <2> QED
    BY <2>1
<1>2. \A k \in Nat : k \in A => k + 1 \in A
  <2> SUFFICES ASSUME NEW k \in Nat, k \in A, NEW s \in SUBSET (1 .. k + 1), s # {}
               PROVE  HasMax(s)
    <3> HIDE DEF HasMax
    <3> QED OBVIOUS
  <2>1. CASE k + 1 \in s
    BY <2>1
  <2>2. CASE k + 1 \notin s
    <3>1. s \in SUBSET (1 .. k)
      BY <2>2
    <3> QED
      BY <3>1
  <2> QED
    BY <2>1, <2>2
<1>3. \A k \in Nat : k \in A
  <2> HIDE DEF A
  <2> QED
    BY <1>1, <1>2, SetOfAllNat
<1> SUFFICES ASSUME NEW s \in SUBSET (1 .. n), s # {}
             PROVE  Max(s) \in s /\ \A i \in s : i <= Max(s)
  OBVIOUS
<1>4. HasMax(s)
  BY <1>3
<1>5. Max(s) \in s /\ \A y \in s : Max(s) >= y
  BY <1>4 DEF Max
<1> QED
  BY <1>5

-----------------------------------------------------------------------------
(* The handlers of the server, one histogram or name at a time.            *)

Contents == [type : HistoClasses, fills : Nat]
Histos == [name : Names, type : HistoClasses, fills : Nat]
CanvasConfigs == [name : CanvasNames, objs : SUBSET Names]
Folders == [name : Names, registered : BOOLEAN]
PreparedCanvases == [name : CanvasNames, objs : SUBSET Names, ready : BOOLEAN]
MergedValues == [array : [Names -> Contents \cup {NoHisto}], folders : Seq(Folders),
                 allReg : BOOLEAN, canvases : Seq(PreparedCanvases),
                 ok : BOOLEAN, refused : [Names -> Nat]]

RunsAddHistoConfig(r, m, q) ==
  /\ r \in [0 .. Len(q) -> MergedValues]
  /\ r[0] = m
  /\ \A i \in 1 .. Len(q) : r[i] = AddHistoConfig(r[i - 1], q[i])
  /\ FoldLeft(AddHistoConfig, m, q) = r[Len(q)]

RunsAddCanvasConfig(r, m, q) ==
  /\ r \in [0 .. Len(q) -> MergedValues]
  /\ r[0] = m
  /\ \A i \in 1 .. Len(q) : r[i] = AddCanvasConfig(r[i - 1], q[i])
  /\ FoldLeft(AddCanvasConfig, m, q) = r[Len(q)]

RunsReadHistogram(r, m, q) ==
  /\ r \in [0 .. Len(q) -> MergedValues]
  /\ r[0] = m
  /\ \A i \in 1 .. Len(q) : r[i] = ReadHistogram(r[i - 1], q[i])
  /\ FoldLeft(ReadHistogram, m, q) = r[Len(q)]

\* Every histogram is registered if the server believes so.
RegisteredIfSaid(m) == m.allReg => \A u \in DOMAIN m.folders : m.folders[u].registered

\* The fields of the values that the handlers change.
LEMMA MergedFields ==
  ASSUME NEW m \in MergedValues
  PROVE  /\ m.array \in [Names -> Contents \cup {NoHisto}]
         /\ m.folders \in Seq(Folders)
         /\ m.allReg \in BOOLEAN
         /\ m.canvases \in Seq(PreparedCanvases)
         /\ m.ok \in BOOLEAN
         /\ m.refused \in [Names -> Nat]
BY DEF MergedValues

LEMMA AddHistoConfigEffect ==
  ASSUME NEW m \in MergedValues, NEW n \in Names,
         ~\E u \in DOMAIN m.folders : m.folders[u].name = n
  PROVE  LET p == AddHistoConfig(m, n)
         IN  /\ p.array = m.array /\ p.canvases = m.canvases
             /\ p.ok = m.ok /\ p.refused = m.refused
             /\ p.folders = Append(m.folders, [name |-> n, registered |-> FALSE])
             /\ p.allReg = FALSE
             /\ p \in MergedValues
<1> DEFINE e == [name |-> n, registered |-> FALSE]
           p == [m EXCEPT !.folders = Append(@, e), !.allReg = FALSE]
<1>1. e \in Folders
  BY DEF Folders
<1> HIDE DEF e
<1>2. Append(m.folders, e) \in Seq(Folders)
  BY <1>1, MergedFields
<1>3. p.array = m.array /\ p.canvases = m.canvases /\ p.ok = m.ok /\ p.refused = m.refused
      /\ p.folders = Append(m.folders, e) /\ p.allReg = FALSE
  BY DEF MergedValues
<1>4. p \in MergedValues
  BY <1>2 DEF MergedValues
<1>5. p = AddHistoConfig(m, n)
  BY DEF AddHistoConfig, e
<1> HIDE DEF p
<1> QED
  BY <1>3, <1>4, <1>5 DEF e

LEMMA TypeAddHistoConfig ==
  ASSUME NEW m \in MergedValues, NEW n \in Names
  PROVE  AddHistoConfig(m, n) \in MergedValues
<1>1. CASE \E u \in DOMAIN m.folders : m.folders[u].name = n
  BY <1>1 DEF AddHistoConfig
<1>2. CASE ~\E u \in DOMAIN m.folders : m.folders[u].name = n
  BY <1>2, AddHistoConfigEffect
<1> QED
  BY <1>1, <1>2

LEMMA AddCanvasConfigEffect ==
  ASSUME NEW m \in MergedValues, NEW c \in CanvasConfigs,
         ~\E u \in DOMAIN m.canvases : m.canvases[u].name = c.name
  PROVE  LET p == AddCanvasConfig(m, c)
         IN  /\ p.array = m.array /\ p.folders = m.folders /\ p.allReg = m.allReg
             /\ p.ok = m.ok /\ p.refused = m.refused
             /\ p.canvases = Append(m.canvases,
                                    [name |-> c.name, objs |-> c.objs, ready |-> FALSE])
             /\ p \in MergedValues
<1> DEFINE e == [name |-> c.name, objs |-> c.objs, ready |-> FALSE]
           p == [m EXCEPT !.canvases = Append(@, e)]
<1>1. e \in PreparedCanvases
  BY DEF PreparedCanvases, CanvasConfigs
<1> HIDE DEF e
<1>2. Append(m.canvases, e) \in Seq(PreparedCanvases)
  BY <1>1, MergedFields
<1>3. p.array = m.array /\ p.folders = m.folders /\ p.allReg = m.allReg
      /\ p.ok = m.ok /\ p.refused = m.refused /\ p.canvases = Append(m.canvases, e)
  BY DEF MergedValues
<1>4. p \in MergedValues
  BY <1>2 DEF MergedValues
<1>5. p = AddCanvasConfig(m, c)
  BY DEF AddCanvasConfig, e
<1> HIDE DEF p
<1> QED
  BY <1>3, <1>4, <1>5 DEF e

LEMMA TypeAddCanvasConfig ==
  ASSUME NEW m \in MergedValues, NEW c \in CanvasConfigs
  PROVE  AddCanvasConfig(m, c) \in MergedValues
<1>1. CASE \E u \in DOMAIN m.canvases : m.canvases[u].name = c.name
  BY <1>1 DEF AddCanvasConfig
<1>2. CASE ~\E u \in DOMAIN m.canvases : m.canvases[u].name = c.name
  BY <1>2, AddCanvasConfigEffect
<1> QED
  BY <1>1, <1>2

\* Two sequences of folders with the same names, of which the second may be
\* registered where the first is not.
LaterFolders(f, g) ==
  /\ g \in Seq(Folders) /\ DOMAIN g = DOMAIN f
  /\ \A u \in DOMAIN f : g[u].name = f[u].name /\ (f[u].registered => g[u].registered)

\* Registering marks the folders of the name and says whether all are marked.
LEMMA RegisterEffect ==
  ASSUME NEW m \in MergedValues, NEW n
  PROVE  LET p == Register(m, n)
         IN  /\ p \in MergedValues
             /\ p.array = m.array /\ p.canvases = m.canvases
             /\ p.ok = m.ok /\ p.refused = m.refused
             /\ LaterFolders(m.folders, p.folders)
             /\ RegisteredIfSaid(m) =>
                  /\ RegisteredIfSaid(p)
                  /\ \A u \in DOMAIN p.folders :
                       p.folders[u].name = n => p.folders[u].registered
<1> DEFINE q == Register(m, n)
           g == [u \in DOMAIN m.folders |->
                   IF m.folders[u].name = n
                   THEN [m.folders[u] EXCEPT !.registered = TRUE]
                   ELSE m.folders[u]]
           all == \A u \in DOMAIN g : g[u].registered
           Known == \E u \in DOMAIN m.folders : m.folders[u].name = n
<1>1. m.folders \in Seq(Folders) /\ m.allReg \in BOOLEAN
  BY MergedFields
<1>2. \A u \in DOMAIN m.folders :
        /\ g[u] \in Folders /\ g[u].name = m.folders[u].name
        /\ m.folders[u].registered => g[u].registered
        /\ g[u].name = n => g[u].registered
  <2> SUFFICES ASSUME NEW u \in DOMAIN m.folders
               PROVE  /\ g[u] \in Folders /\ g[u].name = m.folders[u].name
                      /\ m.folders[u].registered => g[u].registered
                      /\ g[u].name = n => g[u].registered
    OBVIOUS
  <2>1. m.folders[u] \in Folders
    BY <1>1
  <2>2. CASE m.folders[u].name = n
    <3>1. g[u] = [m.folders[u] EXCEPT !.registered = TRUE]
      BY <2>2
    <3> HIDE DEF g
    <3> QED
      BY <2>1, <3>1 DEF Folders
  <2>3. CASE m.folders[u].name # n
    <3>1. g[u] = m.folders[u]
      BY <2>3
    <3> HIDE DEF g
    <3> QED
      BY <2>1, <2>3, <3>1
  <2> QED
    BY <2>2, <2>3
<1>3. g \in Seq(Folders) /\ DOMAIN g = DOMAIN m.folders
  <2>1. DOMAIN m.folders = 1 .. Len(m.folders) /\ Len(m.folders) \in Nat
    BY <1>1
  <2>2. DOMAIN g = DOMAIN m.folders
    OBVIOUS
  <2>3. g \in [1 .. Len(m.folders) -> Folders]
    BY <1>2, <2>1
  <2> HIDE DEF g
  <2> QED
    BY <2>1, <2>2, <2>3
<1>4. CASE m.allReg \/ ~Known
  <2>1. q = m
    BY <1>4 DEF Register
  <2>2. LaterFolders(m.folders, m.folders)
    BY <1>1 DEF LaterFolders
  <2>3. RegisteredIfSaid(m) => \A u \in DOMAIN m.folders :
                                 m.folders[u].name = n => m.folders[u].registered
    BY <1>4 DEF RegisteredIfSaid
  <2> QED
    BY <2>1, <2>2, <2>3
<1>5. CASE ~m.allReg /\ Known
  <2>1. all \in BOOLEAN
    OBVIOUS
  <2>2. q = [m EXCEPT !.folders = g, !.allReg = all]
    BY <1>5 DEF Register
  <2>3. all => \A u \in DOMAIN g : g[u].registered
    OBVIOUS
  <2> HIDE DEF q, g, all
  <2>4. /\ q \in MergedValues
        /\ q.array = m.array /\ q.canvases = m.canvases
        /\ q.ok = m.ok /\ q.refused = m.refused
        /\ q.folders = g
    BY <1>3, <2>1, <2>2 DEF MergedValues
  <2>5. q.allReg = all
    BY <2>2 DEF MergedValues
  <2>6. LaterFolders(m.folders, q.folders)
    BY <1>2, <1>3, <2>4 DEF LaterFolders
  <2>7. RegisteredIfSaid(q)
    BY <2>3, <2>4, <2>5 DEF RegisteredIfSaid
  <2>8. \A u \in DOMAIN q.folders : q.folders[u].name = n => q.folders[u].registered
    BY <1>2, <1>3, <2>4
  <2> QED
    BY <2>4, <2>6, <2>7, <2>8 DEF q
<1> QED
  BY <1>4, <1>5

\* The fills that the server holds under a name.
Value(a) == IF a = NoHisto THEN 0 ELSE a.fills

\* What is promised of a histogram h that is read: only its name is concerned, its
\* fills are added or refused, and it is there if nothing was refused for good.
ReadPromise(m, h, p) ==
  /\ p \in MergedValues
  /\ p.canvases = m.canvases
  /\ LaterFolders(m.folders, p.folders)
  /\ p.ok => m.ok
  /\ \A n \in Names \ {h.name} : p.array[n] = m.array[n] /\ p.refused[n] = m.refused[n]
  /\ m.array[h.name] # NoHisto \/ p.ok => p.array[h.name] # NoHisto
  /\ Value(p.array[h.name]) + p.refused[h.name]
       = Value(m.array[h.name]) + m.refused[h.name] + h.fills
  /\ RegisteredIfSaid(m) =>
       /\ RegisteredIfSaid(p)
       /\ m.array[h.name] = NoHisto /\ p.array[h.name] # NoHisto =>
            \A u \in DOMAIN p.folders : p.folders[u].name = h.name => p.folders[u].registered

LEMMA ReadHistogramEffect ==
  ASSUME NEW m \in MergedValues, NEW h \in Histos
  PROVE  ReadPromise(m, h, ReadHistogram(m, h))
<1> DEFINE p == ReadHistogram(m, h)
           old == m.array[h.name]
           refuse == [m EXCEPT !.refused[h.name] = @ + h.fills]
<1> USE MergedFields
<1>1. /\ h.name \in Names /\ h.type \in HistoClasses /\ h.fills \in Nat
      /\ old \in Contents \cup {NoHisto} /\ m.refused[h.name] \in Nat
      /\ m.ok \in BOOLEAN
  BY DEF Histos
<1>2. old # NoHisto => old.fills \in Nat /\ old.type \in HistoClasses
  BY <1>1 DEF Contents
<1>3. LaterFolders(m.folders, m.folders)
  BY DEF LaterFolders
<1>4. /\ refuse \in MergedValues
      /\ refuse.array = m.array /\ refuse.folders = m.folders /\ refuse.allReg = m.allReg
      /\ refuse.canvases = m.canvases /\ refuse.ok = m.ok
      /\ \A n \in Names \ {h.name} : refuse.refused[n] = m.refused[n]
      /\ refuse.refused[h.name] = m.refused[h.name] + h.fills
  <2> DEFINE f == [m.refused EXCEPT ![h.name] = @ + h.fills]
  <2>1. /\ f \in [Names -> Nat]
        /\ \A n \in Names \ {h.name} : f[n] = m.refused[n]
        /\ f[h.name] = m.refused[h.name] + h.fills
    BY <1>1
  <2>2. refuse = [m EXCEPT !.refused = f]
    OBVIOUS
  <2> HIDE DEF f, refuse
  <2> QED
    BY <2>1, <2>2 DEF MergedValues
<1>5. Value(old) \in Nat
  BY <1>1, <1>2 DEF Value
<1> HIDE DEF refuse
<1>6. CASE ~m.ok
  <2>1. p = refuse
    BY <1>6 DEF ReadHistogram, refuse
  <2> HIDE DEF p
  <2>2. Value(old) + (m.refused[h.name] + h.fills) = Value(old) + m.refused[h.name] + h.fills
    BY <1>1, <1>5
  <2> QED
    BY <1>3, <1>4, <1>6, <2>1, <2>2 DEF ReadPromise, RegisteredIfSaid, p
<1>7. CASE m.ok /\ old = NoHisto
  <2> DEFINE e == [type |-> h.type, fills |-> h.fills]
             a == [m.array EXCEPT ![h.name] = e]
             k == [m EXCEPT !.array = a]
  <2>1. p = Register(k, h.name)
    BY <1>7 DEF ReadHistogram
  <2>2. e \in Contents /\ e.fills = h.fills
    BY <1>1 DEF Contents
  <2>3. e # NoHisto
    BY <2>2, HistoServerAssumption DEF Contents
  <2> HIDE DEF e, p
  <2>4. /\ a \in [Names -> Contents \cup {NoHisto}]
        /\ a[h.name] = e /\ \A n \in Names \ {h.name} : a[n] = m.array[n]
    BY <1>1, <2>2
  <2> HIDE DEF a
  <2>5. /\ k \in MergedValues /\ k.array = a
        /\ k.folders = m.folders /\ k.allReg = m.allReg /\ k.canvases = m.canvases
        /\ k.ok = m.ok /\ k.refused = m.refused
    BY <2>4 DEF MergedValues
  <2> HIDE DEF k
  <2>6. /\ p \in MergedValues
        /\ p.array = a /\ p.canvases = m.canvases /\ p.ok = m.ok /\ p.refused = m.refused
        /\ LaterFolders(m.folders, p.folders)
        /\ RegisteredIfSaid(m) =>
             /\ RegisteredIfSaid(p)
             /\ \A u \in DOMAIN p.folders :
                  p.folders[u].name = h.name => p.folders[u].registered
    <3>1. RegisteredIfSaid(m) => RegisteredIfSaid(k)
      BY <2>5 DEF RegisteredIfSaid
    <3> QED
      BY <2>1, <2>5, <3>1, RegisterEffect
  <2>7. Value(a[h.name]) = h.fills /\ Value(old) = 0
    BY <1>7, <2>2, <2>3, <2>4 DEF Value
  <2>8. h.fills + m.refused[h.name] = 0 + m.refused[h.name] + h.fills
    BY <1>1
  <2> QED
    BY <1>1, <1>7, <2>3, <2>4, <2>6, <2>7, <2>8 DEF ReadPromise, p
<1>8. CASE m.ok /\ old # NoHisto /\ ~IsA(old.type, h.type)
  <2>1. p = [refuse EXCEPT !.ok = FALSE]
    BY <1>8 DEF ReadHistogram, refuse
  <2>2. /\ p \in MergedValues
        /\ p.array = m.array /\ p.folders = m.folders /\ p.allReg = m.allReg
        /\ p.canvases = m.canvases /\ p.ok = FALSE /\ p.refused = refuse.refused
    <3> HIDE DEF p
    <3> QED
      BY <1>4, <2>1 DEF MergedValues
  <2> HIDE DEF p
  <2>3. Value(old) + (m.refused[h.name] + h.fills) = Value(old) + m.refused[h.name] + h.fills
    BY <1>1, <1>5
  <2> QED
    BY <1>3, <1>4, <1>8, <2>2, <2>3 DEF ReadPromise, RegisteredIfSaid, p
<1>9. CASE m.ok /\ old # NoHisto /\ IsA(old.type, h.type) /\ old.type # h.type
  <2>1. p = refuse
    BY <1>9 DEF ReadHistogram, refuse
  <2> HIDE DEF p
  <2>2. Value(old) + (m.refused[h.name] + h.fills) = Value(old) + m.refused[h.name] + h.fills
    BY <1>1, <1>5
  <2> QED
    BY <1>3, <1>4, <1>9, <2>1, <2>2 DEF ReadPromise, RegisteredIfSaid, p
<1>10. CASE m.ok /\ old # NoHisto /\ old.type = h.type
  <2> DEFINE e == [old EXCEPT !.fills = @ + h.fills]
             a == [m.array EXCEPT ![h.name] = e]
  <2>1. p = [m EXCEPT !.array = a]
    BY <1>10 DEF ReadHistogram, IsA
  <2>2. e \in Contents /\ e.fills = old.fills + h.fills
    BY <1>1, <1>10 DEF Contents
  <2>3. e # NoHisto
    BY <2>2, HistoServerAssumption DEF Contents
  <2> HIDE DEF e, p
  <2>4. /\ a \in [Names -> Contents \cup {NoHisto}]
        /\ a[h.name] = e /\ \A n \in Names \ {h.name} : a[n] = m.array[n]
    BY <1>1, <2>2
  <2> HIDE DEF a
  <2>5. /\ p \in MergedValues /\ p.array = a
        /\ p.folders = m.folders /\ p.allReg = m.allReg /\ p.canvases = m.canvases
        /\ p.ok = m.ok /\ p.refused = m.refused
    BY <2>1, <2>4 DEF MergedValues
  <2>6. Value(a[h.name]) = old.fills + h.fills /\ Value(old) = old.fills
    BY <1>10, <2>2, <2>3, <2>4 DEF Value
  <2>7. old.fills + h.fills + m.refused[h.name] = old.fills + m.refused[h.name] + h.fills
    BY <1>1, <1>2, <1>10
  <2> QED
    BY <1>1, <1>3, <1>10, <2>3, <2>4, <2>5, <2>6, <2>7 DEF ReadPromise, RegisteredIfSaid, p
<1> QED
  BY <1>1, <1>6, <1>7, <1>8, <1>9, <1>10

LEMMA TypeReadHistogram ==
  ASSUME NEW m \in MergedValues, NEW h \in Histos
  PROVE  ReadHistogram(m, h) \in MergedValues
BY ReadHistogramEffect DEF ReadPromise

-----------------------------------------------------------------------------
(* The handlers of the server, all histograms or names of a message.       *)

\* The values that FoldLeft(AddHistoConfig, m, q) goes through.
LEMMA StepsAddHistoConfig ==
  ASSUME NEW m \in MergedValues, NEW q \in Seq(Names)
  PROVE  \E r : RunsAddHistoConfig(r, m, q)
<1> DEFINE n == Len(q)
           S == 1 .. n
           T == MergedValues
           pick == [s \in SUBSET S |-> Max(s)]
           F == [i \in S |-> [x \in T |-> AddHistoConfig(x, q[i])]]
           Body(g) == [s \in SUBSET DOMAIN q |->
                         IF s = {} THEN m ELSE AddHistoConfig(g[s \ {Max(s)}], q[Max(s)])]
<1>1. n \in Nat /\ DOMAIN q = S /\ \A i \in S : q[i] \in Names
  OBVIOUS
<1>2. IsFiniteSet(S)
  BY FS_Interval
<1>3. \A s \in SUBSET S : s # {} => Max(s) \in s /\ pick[s] = Max(s) /\ pick[s] \in s
  BY <1>1, GreatestIndex
<1>4. F \in [S -> [T -> T]]
  BY <1>1, TypeAddHistoConfig
<1>5. FoldInput(S, T, m, F, pick)
  BY <1>2, <1>3, <1>4 DEF FoldInput
<1>6. PICK k \in [SUBSET S -> T] : IsFold(k, S, m, F, pick)
  <2> HIDE DEF S, T, F, pick
  <2> QED
    BY <1>5, FoldExists
<1>7. k = Body(k)
  <2>1. ASSUME NEW s \in SUBSET S
        PROVE  k[s] = IF s = {} THEN m ELSE AddHistoConfig(k[s \ {Max(s)}], q[Max(s)])
    <3>1. CASE s = {}
      BY <1>6, <3>1 DEF IsFold
    <3>2. CASE s # {}
      <4>1. k[s] = F[pick[s]][k[s \ {pick[s]}]]
        <5> HIDE DEF F, pick
        <5> QED
          BY <1>6, <3>2 DEF IsFold
      <4>2. pick[s] = Max(s) /\ Max(s) \in S /\ k[s \ {Max(s)}] \in T
        BY <1>3, <3>2
      <4>3. F[Max(s)][k[s \ {Max(s)}]] = AddHistoConfig(k[s \ {Max(s)}], q[Max(s)])
        <5> HIDE DEF T
        <5> QED
          BY <4>2
      <4> QED
        BY <3>2, <4>1, <4>2, <4>3
    <3> QED
      BY <3>1, <3>2
  <2> QED
    BY <1>1, <2>1
<1> DEFINE c == CHOOSE g : g = Body(g)
<1>8. FoldLeft(AddHistoConfig, m, q) = c[S]
  BY <1>1 DEF FoldLeft, MapThenFoldSet
<1>9. c = Body(c)
  <2> HIDE DEF Body
  <2> QED
    BY <1>7
<1> HIDE DEF c
<1>10. \A s \in SUBSET S :
         c[s] = IF s = {} THEN m ELSE AddHistoConfig(c[s \ {Max(s)}], q[Max(s)])
  BY <1>1, <1>9
<1>11. \A s \in SUBSET S : c[s] = k[s]
  <2> DEFINE P == {s \in SUBSET S : c[s] = k[s]}
  <2>1. {} \in P
    BY <1>6, <1>10 DEF IsFold
  <2>2. \A s \in SUBSET S : s # {} /\ s \ {pick[s]} \in P => s \in P
    <3> SUFFICES ASSUME NEW s \in SUBSET S, s # {}, s \ {pick[s]} \in P
                 PROVE  c[s] = k[s]
      OBVIOUS
    <3>1. c[s \ {Max(s)}] = k[s \ {Max(s)}]
      BY <1>3
    <3>2. k[s] = AddHistoConfig(k[s \ {Max(s)}], q[Max(s)])
      BY <1>1, <1>7
    <3> QED
      BY <1>10, <3>1, <3>2
  <2>3. \A s \in SUBSET S : s # {} => pick[s] \in s
    BY <1>3
  <2>4. \A s \in SUBSET S : s \in P
    <3> HIDE DEF P, pick, S
    <3>1. ByParts(S, pick, P)
      BY <1>2, <2>1, <2>2, <2>3 DEF ByParts
    <3> QED
      BY <3>1, PartInduction
  <2> QED
    BY <2>4
<1> DEFINE r == [i \in 0 .. n |-> k[1 .. i]]
<1>12. r \in [0 .. n -> MergedValues] /\ r[0] = m
  <2>1. \A i \in 0 .. n : 1 .. i \in SUBSET S
    BY <1>1
  <2>2. 1 .. 0 = {} /\ 0 \in 0 .. n
    BY <1>1
  <2>3. k[{}] = m
    BY <1>6 DEF IsFold
  <2> QED
    BY <2>1, <2>2, <2>3
<1>13. ASSUME NEW i \in 1 .. n PROVE r[i] = AddHistoConfig(r[i - 1], q[i])
  <2>1. 1 .. i \in SUBSET S /\ 1 .. i # {} /\ i \in 1 .. i
    BY <1>1
  <2>2. Max(1 .. i) = i
    <3>1. Max(1 .. i) \in 1 .. i /\ i <= Max(1 .. i)
      BY <1>1, <2>1, GreatestIndex
    <3> QED
      BY <3>1
  <2>3. (1 .. i) \ {i} = 1 .. (i - 1)
    OBVIOUS
  <2>4. k[1 .. i] = AddHistoConfig(k[1 .. (i - 1)], q[i])
    BY <1>10, <1>11, <2>1, <2>2, <2>3
  <2>5. i \in 0 .. n /\ i - 1 \in 0 .. n
    BY <1>1
  <2> QED
    BY <2>4, <2>5
<1>14. FoldLeft(AddHistoConfig, m, q) = r[n]
  <2>1. n \in 0 .. n
    BY <1>1
  <2> QED
    BY <1>8, <1>11, <2>1
<1> HIDE DEF r
<1> QED
  BY <1>12, <1>13, <1>14 DEF RunsAddHistoConfig

\* The values that FoldLeft(AddCanvasConfig, m, q) goes through.
LEMMA StepsAddCanvasConfig ==
  ASSUME NEW m \in MergedValues, NEW q \in Seq(CanvasConfigs)
  PROVE  \E r : RunsAddCanvasConfig(r, m, q)
<1> DEFINE n == Len(q)
           S == 1 .. n
           T == MergedValues
           pick == [s \in SUBSET S |-> Max(s)]
           F == [i \in S |-> [x \in T |-> AddCanvasConfig(x, q[i])]]
           Body(g) == [s \in SUBSET DOMAIN q |->
                         IF s = {} THEN m ELSE AddCanvasConfig(g[s \ {Max(s)}], q[Max(s)])]
<1>1. n \in Nat /\ DOMAIN q = S /\ \A i \in S : q[i] \in CanvasConfigs
  OBVIOUS
<1>2. IsFiniteSet(S)
  BY FS_Interval
<1>3. \A s \in SUBSET S : s # {} => Max(s) \in s /\ pick[s] = Max(s) /\ pick[s] \in s
  BY <1>1, GreatestIndex
<1>4. F \in [S -> [T -> T]]
  BY <1>1, TypeAddCanvasConfig
<1>5. FoldInput(S, T, m, F, pick)
  BY <1>2, <1>3, <1>4 DEF FoldInput
<1>6. PICK k \in [SUBSET S -> T] : IsFold(k, S, m, F, pick)
  <2> HIDE DEF S, T, F, pick
  <2> QED
    BY <1>5, FoldExists
<1>7. k = Body(k)
  <2>1. ASSUME NEW s \in SUBSET S
        PROVE  k[s] = IF s = {} THEN m ELSE AddCanvasConfig(k[s \ {Max(s)}], q[Max(s)])
    <3>1. CASE s = {}
      BY <1>6, <3>1 DEF IsFold
    <3>2. CASE s # {}
      <4>1. k[s] = F[pick[s]][k[s \ {pick[s]}]]
        <5> HIDE DEF F, pick
        <5> QED
          BY <1>6, <3>2 DEF IsFold
      <4>2. pick[s] = Max(s) /\ Max(s) \in S /\ k[s \ {Max(s)}] \in T
        BY <1>3, <3>2
      <4>3. F[Max(s)][k[s \ {Max(s)}]] = AddCanvasConfig(k[s \ {Max(s)}], q[Max(s)])
        <5> HIDE DEF T
        <5> QED
          BY <4>2
      <4> QED
        BY <3>2, <4>1, <4>2, <4>3
    <3> QED
      BY <3>1, <3>2
  <2> QED
    BY <1>1, <2>1
<1> DEFINE c == CHOOSE g : g = Body(g)
<1>8. FoldLeft(AddCanvasConfig, m, q) = c[S]
  BY <1>1 DEF FoldLeft, MapThenFoldSet
<1>9. c = Body(c)
  <2> HIDE DEF Body
  <2> QED
    BY <1>7
<1> HIDE DEF c
<1>10. \A s \in SUBSET S :
         c[s] = IF s = {} THEN m ELSE AddCanvasConfig(c[s \ {Max(s)}], q[Max(s)])
  BY <1>1, <1>9
<1>11. \A s \in SUBSET S : c[s] = k[s]
  <2> DEFINE P == {s \in SUBSET S : c[s] = k[s]}
  <2>1. {} \in P
    BY <1>6, <1>10 DEF IsFold
  <2>2. \A s \in SUBSET S : s # {} /\ s \ {pick[s]} \in P => s \in P
    <3> SUFFICES ASSUME NEW s \in SUBSET S, s # {}, s \ {pick[s]} \in P
                 PROVE  c[s] = k[s]
      OBVIOUS
    <3>1. c[s \ {Max(s)}] = k[s \ {Max(s)}]
      BY <1>3
    <3>2. k[s] = AddCanvasConfig(k[s \ {Max(s)}], q[Max(s)])
      BY <1>1, <1>7
    <3> QED
      BY <1>10, <3>1, <3>2
  <2>3. \A s \in SUBSET S : s # {} => pick[s] \in s
    BY <1>3
  <2>4. \A s \in SUBSET S : s \in P
    <3> HIDE DEF P, pick, S
    <3>1. ByParts(S, pick, P)
      BY <1>2, <2>1, <2>2, <2>3 DEF ByParts
    <3> QED
      BY <3>1, PartInduction
  <2> QED
    BY <2>4
<1> DEFINE r == [i \in 0 .. n |-> k[1 .. i]]
<1>12. r \in [0 .. n -> MergedValues] /\ r[0] = m
  <2>1. \A i \in 0 .. n : 1 .. i \in SUBSET S
    BY <1>1
  <2>2. 1 .. 0 = {} /\ 0 \in 0 .. n
    BY <1>1
  <2>3. k[{}] = m
    BY <1>6 DEF IsFold
  <2> QED
    BY <2>1, <2>2, <2>3
<1>13. ASSUME NEW i \in 1 .. n PROVE r[i] = AddCanvasConfig(r[i - 1], q[i])
  <2>1. 1 .. i \in SUBSET S /\ 1 .. i # {} /\ i \in 1 .. i
    BY <1>1
  <2>2. Max(1 .. i) = i
    <3>1. Max(1 .. i) \in 1 .. i /\ i <= Max(1 .. i)
      BY <1>1, <2>1, GreatestIndex
    <3> QED
      BY <3>1
  <2>3. (1 .. i) \ {i} = 1 .. (i - 1)
    OBVIOUS
  <2>4. k[1 .. i] = AddCanvasConfig(k[1 .. (i - 1)], q[i])
    BY <1>10, <1>11, <2>1, <2>2, <2>3
  <2>5. i \in 0 .. n /\ i - 1 \in 0 .. n
    BY <1>1
  <2> QED
    BY <2>4, <2>5
<1>14. FoldLeft(AddCanvasConfig, m, q) = r[n]
  <2>1. n \in 0 .. n
    BY <1>1
  <2> QED
    BY <1>8, <1>11, <2>1
<1> HIDE DEF r
<1> QED
  BY <1>12, <1>13, <1>14 DEF RunsAddCanvasConfig

\* The values that FoldLeft(ReadHistogram, m, q) goes through.
LEMMA StepsReadHistogram ==
  ASSUME NEW m \in MergedValues, NEW q \in Seq(Histos)
  PROVE  \E r : RunsReadHistogram(r, m, q)
<1> DEFINE n == Len(q)
           S == 1 .. n
           T == MergedValues
           pick == [s \in SUBSET S |-> Max(s)]
           F == [i \in S |-> [x \in T |-> ReadHistogram(x, q[i])]]
           Body(g) == [s \in SUBSET DOMAIN q |->
                         IF s = {} THEN m ELSE ReadHistogram(g[s \ {Max(s)}], q[Max(s)])]
<1>1. n \in Nat /\ DOMAIN q = S /\ \A i \in S : q[i] \in Histos
  OBVIOUS
<1>2. IsFiniteSet(S)
  BY FS_Interval
<1>3. \A s \in SUBSET S : s # {} => Max(s) \in s /\ pick[s] = Max(s) /\ pick[s] \in s
  BY <1>1, GreatestIndex
<1>4. F \in [S -> [T -> T]]
  BY <1>1, TypeReadHistogram
<1>5. FoldInput(S, T, m, F, pick)
  BY <1>2, <1>3, <1>4 DEF FoldInput
<1>6. PICK k \in [SUBSET S -> T] : IsFold(k, S, m, F, pick)
  <2> HIDE DEF S, T, F, pick
  <2> QED
    BY <1>5, FoldExists
<1>7. k = Body(k)
  <2>1. ASSUME NEW s \in SUBSET S
        PROVE  k[s] = IF s = {} THEN m ELSE ReadHistogram(k[s \ {Max(s)}], q[Max(s)])
    <3>1. CASE s = {}
      BY <1>6, <3>1 DEF IsFold
    <3>2. CASE s # {}
      <4>1. k[s] = F[pick[s]][k[s \ {pick[s]}]]
        <5> HIDE DEF F, pick
        <5> QED
          BY <1>6, <3>2 DEF IsFold
      <4>2. pick[s] = Max(s) /\ Max(s) \in S /\ k[s \ {Max(s)}] \in T
        BY <1>3, <3>2
      <4>3. F[Max(s)][k[s \ {Max(s)}]] = ReadHistogram(k[s \ {Max(s)}], q[Max(s)])
        <5> HIDE DEF T
        <5> QED
          BY <4>2
      <4> QED
        BY <3>2, <4>1, <4>2, <4>3
    <3> QED
      BY <3>1, <3>2
  <2> QED
    BY <1>1, <2>1
<1> DEFINE c == CHOOSE g : g = Body(g)
<1>8. FoldLeft(ReadHistogram, m, q) = c[S]
  BY <1>1 DEF FoldLeft, MapThenFoldSet
<1>9. c = Body(c)
  <2> HIDE DEF Body
  <2> QED
    BY <1>7
<1> HIDE DEF c
<1>10. \A s \in SUBSET S :
         c[s] = IF s = {} THEN m ELSE ReadHistogram(c[s \ {Max(s)}], q[Max(s)])
  BY <1>1, <1>9
<1>11. \A s \in SUBSET S : c[s] = k[s]
  <2> DEFINE P == {s \in SUBSET S : c[s] = k[s]}
  <2>1. {} \in P
    BY <1>6, <1>10 DEF IsFold
  <2>2. \A s \in SUBSET S : s # {} /\ s \ {pick[s]} \in P => s \in P
    <3> SUFFICES ASSUME NEW s \in SUBSET S, s # {}, s \ {pick[s]} \in P
                 PROVE  c[s] = k[s]
      OBVIOUS
    <3>1. c[s \ {Max(s)}] = k[s \ {Max(s)}]
      BY <1>3
    <3>2. k[s] = ReadHistogram(k[s \ {Max(s)}], q[Max(s)])
      BY <1>1, <1>7
    <3> QED
      BY <1>10, <3>1, <3>2
  <2>3. \A s \in SUBSET S : s # {} => pick[s] \in s
    BY <1>3
  <2>4. \A s \in SUBSET S : s \in P
    <3> HIDE DEF P, pick, S
    <3>1. ByParts(S, pick, P)
      BY <1>2, <2>1, <2>2, <2>3 DEF ByParts
    <3> QED
      BY <3>1, PartInduction
  <2> QED
    BY <2>4
<1> DEFINE r == [i \in 0 .. n |-> k[1 .. i]]
<1>12. r \in [0 .. n -> MergedValues] /\ r[0] = m
  <2>1. \A i \in 0 .. n : 1 .. i \in SUBSET S
    BY <1>1
  <2>2. 1 .. 0 = {} /\ 0 \in 0 .. n
    BY <1>1
  <2>3. k[{}] = m
    BY <1>6 DEF IsFold
  <2> QED
    BY <2>1, <2>2, <2>3
<1>13. ASSUME NEW i \in 1 .. n PROVE r[i] = ReadHistogram(r[i - 1], q[i])
  <2>1. 1 .. i \in SUBSET S /\ 1 .. i # {} /\ i \in 1 .. i
    BY <1>1
  <2>2. Max(1 .. i) = i
    <3>1. Max(1 .. i) \in 1 .. i /\ i <= Max(1 .. i)
      BY <1>1, <2>1, GreatestIndex
    <3> QED
      BY <3>1
  <2>3. (1 .. i) \ {i} = 1 .. (i - 1)
    OBVIOUS
  <2>4. k[1 .. i] = ReadHistogram(k[1 .. (i - 1)], q[i])
    BY <1>10, <1>11, <2>1, <2>2, <2>3
  <2>5. i \in 0 .. n /\ i - 1 \in 0 .. n
    BY <1>1
  <2> QED
    BY <2>4, <2>5
<1>14. FoldLeft(ReadHistogram, m, q) = r[n]
  <2>1. n \in 0 .. n
    BY <1>1
  <2> QED
    BY <1>8, <1>11, <2>1
<1> HIDE DEF r
<1> QED
  BY <1>12, <1>13, <1>14 DEF RunsReadHistogram


FolderNames(m) == {m.folders[u].name : u \in DOMAIN m.folders}

\* What the server has it can show: each histogram has its configuration, and is
\* registered.
Served(m) ==
  /\ RegisteredIfSaid(m)
  /\ \A n \in Names : m.array[n] # NoHisto => n \in FolderNames(m)
  /\ \A u \in DOMAIN m.folders : m.array[m.folders[u].name] # NoHisto => m.folders[u].registered

\* A new name is that of a histogram that is not there yet.
LEMMA ServedWithName ==
  ASSUME NEW m \in MergedValues, NEW n \in Names
  PROVE  LET p == AddHistoConfig(m, n)
         IN  /\ p \in MergedValues
             /\ p.array = m.array /\ p.canvases = m.canvases
             /\ p.ok = m.ok /\ p.refused = m.refused
             /\ FolderNames(p) = FolderNames(m) \cup {n}
             /\ Served(m) => Served(p)
<1> DEFINE p == AddHistoConfig(m, n)
<1>1. CASE \E u \in DOMAIN m.folders : m.folders[u].name = n
  BY <1>1 DEF AddHistoConfig, FolderNames
<1>2. CASE ~\E u \in DOMAIN m.folders : m.folders[u].name = n
  <2> DEFINE e == [name |-> n, registered |-> FALSE]
             l == Len(m.folders)
  <2>1. /\ p.array = m.array /\ p.canvases = m.canvases
        /\ p.ok = m.ok /\ p.refused = m.refused
        /\ p.folders = Append(m.folders, e) /\ p.allReg = FALSE
        /\ p \in MergedValues
    BY <1>2, AddHistoConfigEffect
  <2>2. e.name = n
    OBVIOUS
  <2> HIDE DEF p, e
  <2>3. l \in Nat /\ DOMAIN m.folders = 1 .. l
    BY MergedFields
  <2>4. DOMAIN p.folders = 1 .. (l + 1) /\ p.folders[l + 1] = e
        /\ \A u \in 1 .. l : p.folders[u] = m.folders[u]
    BY <2>1, MergedFields
  <2>5. FolderNames(p) = FolderNames(m) \cup {n}
    <3>1. \A u \in 1 .. (l + 1) : u = l + 1 \/ u \in 1 .. l
      BY <2>3
    <3>2. l + 1 \in 1 .. (l + 1) /\ \A u \in 1 .. l : u \in 1 .. (l + 1)
      BY <2>3
    <3> QED
      BY <2>2, <2>3, <2>4, <3>1, <3>2 DEF FolderNames
  <2>6. ASSUME Served(m) PROVE Served(p)
    <3>1. m.array[n] = NoHisto
      BY <1>2, <2>6 DEF Served, FolderNames
    <3>2. RegisteredIfSaid(p)
      BY <2>1 DEF RegisteredIfSaid
    <3>3. \A k \in Names : p.array[k] # NoHisto => k \in FolderNames(p)
      BY <2>1, <2>5, <2>6 DEF Served
    <3>4. ASSUME NEW u \in DOMAIN p.folders, p.array[p.folders[u].name] # NoHisto
          PROVE  p.folders[u].registered
      <4>1. u # l + 1
        BY <2>1, <2>2, <2>4, <3>1, <3>4
      <4>2. u \in 1 .. l
        BY <2>3, <2>4, <4>1
      <4> QED
        BY <2>1, <2>3, <2>4, <2>6, <3>4, <4>2 DEF Served
    <3> QED
      BY <3>2, <3>3, <3>4 DEF Served
  <2> QED
    BY <2>1, <2>5, <2>6 DEF p
<1> QED
  BY <1>1, <1>2

\* All names of a configuration.
LEMMA ServedWithNames ==
  ASSUME NEW m \in MergedValues, NEW q \in Seq(Names)
  PROVE  LET p == FoldLeft(AddHistoConfig, m, q)
         IN  /\ p \in MergedValues
             /\ p.array = m.array /\ p.canvases = m.canvases
             /\ p.ok = m.ok /\ p.refused = m.refused
             /\ FolderNames(p) = FolderNames(m) \cup {q[i] : i \in DOMAIN q}
             /\ Served(m) => Served(p)
<1>1. PICK r : RunsAddHistoConfig(r, m, q)
  BY StepsAddHistoConfig
<1>2. Len(q) \in Nat /\ DOMAIN q = 1 .. Len(q)
  OBVIOUS
<1> DEFINE Good(i) ==
             /\ r[i].array = m.array /\ r[i].canvases = m.canvases
             /\ r[i].ok = m.ok /\ r[i].refused = m.refused
             /\ FolderNames(r[i]) = FolderNames(m) \cup {q[j] : j \in 1 .. i}
             /\ Served(m) => Served(r[i])
           A == {i \in Nat : i <= Len(q) => Good(i)}
<1>3. 0 \in A
  <2>1. r[0] = m /\ 1 .. 0 = {}
    BY <1>1 DEF RunsAddHistoConfig
  <2> QED
    BY <2>1
<1>4. \A i \in Nat : i \in A => i + 1 \in A
  <2> SUFFICES ASSUME NEW i \in Nat, i \in A, i + 1 <= Len(q) PROVE Good(i + 1)
    <3> HIDE DEF Good
    <3> QED OBVIOUS
  <2>1. Good(i)
    <3> HIDE DEF Good
    <3> QED BY <1>2
  <2>2. i + 1 \in 1 .. Len(q) /\ (i + 1) - 1 = i /\ i \in 0 .. Len(q)
    BY <1>2
  <2>3. r[i + 1] = AddHistoConfig(r[i], q[i + 1]) /\ r[i] \in MergedValues
    BY <1>1, <2>2 DEF RunsAddHistoConfig
  <2>4. q[i + 1] \in Names
    BY <1>2, <2>2
  <2>5. {q[j] : j \in 1 .. i} \cup {q[i + 1]} = {q[j] : j \in 1 .. i + 1}
    <3>1. \A j \in 1 .. i + 1 : j \in 1 .. i \/ j = i + 1
      OBVIOUS
    <3>2. i + 1 \in 1 .. i + 1 /\ \A j \in 1 .. i : j \in 1 .. i + 1
      OBVIOUS
    <3> QED
      BY <3>1, <3>2
  <2>6. /\ r[i + 1].array = r[i].array /\ r[i + 1].canvases = r[i].canvases
        /\ r[i + 1].ok = r[i].ok /\ r[i + 1].refused = r[i].refused
        /\ FolderNames(r[i + 1]) = FolderNames(r[i]) \cup {q[i + 1]}
        /\ Served(r[i]) => Served(r[i + 1])
    BY <2>3, <2>4, ServedWithName
  <2> QED
    BY <2>1, <2>5, <2>6
<1>5. Good(Len(q))
  <2>1. Len(q) \in A
    <3> HIDE DEF A
    <3> QED BY <1>2, <1>3, <1>4, SetOfAllNat
  <2> HIDE DEF Good
  <2> QED
    BY <1>2, <2>1
<1>6. FoldLeft(AddHistoConfig, m, q) = r[Len(q)] /\ r[Len(q)] \in MergedValues
  BY <1>1, <1>2 DEF RunsAddHistoConfig
<1> QED
  BY <1>2, <1>5, <1>6

\* The canvases that are not ready draw histograms of N only.
Drawable(m, N) == \A v \in DOMAIN m.canvases : m.canvases[v].ready \/ m.canvases[v].objs \subseteq N

LEMMA DrawableWithCanvas ==
  ASSUME NEW m \in MergedValues, NEW c \in CanvasConfigs, NEW N
  PROVE  LET p == AddCanvasConfig(m, c)
         IN  /\ p \in MergedValues
             /\ p.array = m.array /\ p.folders = m.folders /\ p.allReg = m.allReg
             /\ p.ok = m.ok /\ p.refused = m.refused
             /\ c.objs \subseteq N /\ Drawable(m, N) => Drawable(p, N)
<1> DEFINE p == AddCanvasConfig(m, c)
<1>1. CASE \E u \in DOMAIN m.canvases : m.canvases[u].name = c.name
  BY <1>1 DEF AddCanvasConfig
<1>2. CASE ~\E u \in DOMAIN m.canvases : m.canvases[u].name = c.name
  <2> DEFINE e == [name |-> c.name, objs |-> c.objs, ready |-> FALSE]
             l == Len(m.canvases)
  <2>1. /\ p.array = m.array /\ p.folders = m.folders /\ p.allReg = m.allReg
        /\ p.ok = m.ok /\ p.refused = m.refused
        /\ p.canvases = Append(m.canvases, e)
        /\ p \in MergedValues
    BY <1>2, AddCanvasConfigEffect
  <2>2. e.objs = c.objs
    OBVIOUS
  <2> HIDE DEF p, e
  <2>3. l \in Nat /\ DOMAIN m.canvases = 1 .. l
    BY MergedFields
  <2>4. DOMAIN p.canvases = 1 .. (l + 1) /\ p.canvases[l + 1] = e
        /\ \A v \in 1 .. l : p.canvases[v] = m.canvases[v]
    BY <2>1, MergedFields
  <2>5. \A v \in 1 .. (l + 1) : v = l + 1 \/ v \in 1 .. l
    BY <2>3
  <2>6. c.objs \subseteq N /\ Drawable(m, N) => Drawable(p, N)
    BY <2>2, <2>3, <2>4, <2>5 DEF Drawable
  <2> QED
    BY <2>1, <2>6 DEF p
<1> QED
  BY <1>1, <1>2

\* All canvases of a configuration.
LEMMA DrawableWithCanvases ==
  ASSUME NEW m \in MergedValues, NEW q \in Seq(CanvasConfigs),
         NEW N, \A i \in DOMAIN q : q[i].objs \subseteq N
  PROVE  LET p == FoldLeft(AddCanvasConfig, m, q)
         IN  /\ p \in MergedValues
             /\ p.array = m.array /\ p.folders = m.folders /\ p.allReg = m.allReg
             /\ p.ok = m.ok /\ p.refused = m.refused
             /\ Drawable(m, N) => Drawable(p, N)
<1>1. PICK r : RunsAddCanvasConfig(r, m, q)
  BY StepsAddCanvasConfig
<1>2. Len(q) \in Nat /\ DOMAIN q = 1 .. Len(q)
  OBVIOUS
<1> DEFINE Good(i) ==
             /\ r[i].array = m.array /\ r[i].folders = m.folders /\ r[i].allReg = m.allReg
             /\ r[i].ok = m.ok /\ r[i].refused = m.refused
             /\ Drawable(m, N) => Drawable(r[i], N)
           A == {i \in Nat : i <= Len(q) => Good(i)}
<1>3. 0 \in A
  BY <1>1 DEF RunsAddCanvasConfig
<1>4. \A i \in Nat : i \in A => i + 1 \in A
  <2> SUFFICES ASSUME NEW i \in Nat, i \in A, i + 1 <= Len(q) PROVE Good(i + 1)
    <3> HIDE DEF Good
    <3> QED OBVIOUS
  <2>1. Good(i)
    <3> HIDE DEF Good
    <3> QED BY <1>2
  <2>2. i + 1 \in 1 .. Len(q) /\ (i + 1) - 1 = i /\ i \in 0 .. Len(q)
    BY <1>2
  <2>3. r[i + 1] = AddCanvasConfig(r[i], q[i + 1]) /\ r[i] \in MergedValues
    BY <1>1, <2>2 DEF RunsAddCanvasConfig
  <2>4. q[i + 1] \in CanvasConfigs /\ q[i + 1].objs \subseteq N
    BY <1>2, <2>2
  <2>5. /\ r[i + 1].array = r[i].array /\ r[i + 1].folders = r[i].folders
        /\ r[i + 1].allReg = r[i].allReg
        /\ r[i + 1].ok = r[i].ok /\ r[i + 1].refused = r[i].refused
        /\ Drawable(r[i], N) => Drawable(r[i + 1], N)
    BY <2>3, <2>4, DrawableWithCanvas
  <2> QED
    BY <2>1, <2>5
<1>5. Good(Len(q))
  <2>1. Len(q) \in A
    <3> HIDE DEF A
    <3> QED BY <1>2, <1>3, <1>4, SetOfAllNat
  <2> HIDE DEF Good
  <2> QED
    BY <1>2, <2>1
<1>6. FoldLeft(AddCanvasConfig, m, q) = r[Len(q)] /\ r[Len(q)] \in MergedValues
  BY <1>1, <1>2 DEF RunsAddCanvasConfig
<1> QED
  BY <1>5, <1>6

QNames(q) == {q[i].name : i \in DOMAIN q}

\* What is promised of a sequence q of histograms, of different names, that is read.
ReadAllPromise(m, q, p) ==
  /\ p.canvases = m.canvases
  /\ FolderNames(p) = FolderNames(m)
  /\ p.ok => m.ok
  /\ \A n \in Names \ QNames(q) : p.array[n] = m.array[n] /\ p.refused[n] = m.refused[n]
  /\ \A n \in Names : m.array[n] # NoHisto => p.array[n] # NoHisto
  /\ p.ok => \A n \in QNames(q) : p.array[n] # NoHisto
  /\ \A i \in DOMAIN q :
       Value(p.array[q[i].name]) + p.refused[q[i].name]
         = Value(m.array[q[i].name]) + m.refused[q[i].name] + q[i].fills
  /\ Served(m) /\ QNames(q) \subseteq FolderNames(m) => Served(p)

\* One histogram more.
LEMMA ServedWithHistogram ==
  ASSUME NEW m \in MergedValues, NEW h \in Histos, NEW p, ReadPromise(m, h, p)
  PROVE  /\ FolderNames(p) = FolderNames(m)
         /\ Served(m) /\ h.name \in FolderNames(m) => Served(p)
<1>1. LaterFolders(m.folders, p.folders)
  BY DEF ReadPromise
<1>2. FolderNames(p) = FolderNames(m)
  BY <1>1 DEF FolderNames, LaterFolders
<1>3. ASSUME Served(m), h.name \in FolderNames(m) PROVE Served(p)
  <2>1. RegisteredIfSaid(m)
    BY <1>3 DEF Served
  <2>2. RegisteredIfSaid(p)
    BY <2>1 DEF ReadPromise
  <2>3. \A n \in Names : n # h.name => p.array[n] = m.array[n]
    BY DEF ReadPromise
  <2>4. \A n \in Names : p.array[n] # NoHisto => n \in FolderNames(p)
    BY <1>2, <1>3, <2>3 DEF Served
  <2>5. ASSUME NEW u \in DOMAIN p.folders, p.array[p.folders[u].name] # NoHisto
        PROVE  p.folders[u].registered
    <3>1. u \in DOMAIN m.folders /\ p.folders[u].name = m.folders[u].name
          /\ (m.folders[u].registered => p.folders[u].registered)
      BY <1>1 DEF LaterFolders
    <3>2. p.folders[u].name \in Names
      <4>1. p.folders[u] \in Folders
        BY <1>1 DEF LaterFolders
      <4> QED
        BY <4>1 DEF Folders
    <3>3. CASE p.folders[u].name = h.name /\ m.array[h.name] = NoHisto
      BY <2>1, <2>5, <3>3 DEF ReadPromise
    <3>4. CASE p.folders[u].name # h.name \/ m.array[h.name] # NoHisto
      <4>1. m.array[m.folders[u].name] # NoHisto
        BY <2>3, <2>5, <3>1, <3>2, <3>4
      <4>2. m.folders[u].registered
        BY <1>3, <3>1, <4>1 DEF Served
      <4> QED
        BY <3>1, <4>2
    <3> QED
      BY <3>3, <3>4
  <2> QED
    BY <2>2, <2>4, <2>5 DEF Served
<1> QED
  BY <1>2, <1>3

\* All histograms of a message.
LEMMA ReadHistogramsEffect ==
  ASSUME NEW m \in MergedValues, NEW q \in Seq(Histos),
         \A i, j \in DOMAIN q : q[i].name = q[j].name => i = j
  PROVE  LET p == FoldLeft(ReadHistogram, m, q)
         IN  p \in MergedValues /\ ReadAllPromise(m, q, p)
<1>1. PICK r : RunsReadHistogram(r, m, q)
  BY StepsReadHistogram
<1>2. Len(q) \in Nat /\ DOMAIN q = 1 .. Len(q)
  OBVIOUS
<1> DEFINE Read(i) == {q[j].name : j \in 1 .. i}
           Counts(i) == \A j \in 1 .. i :
             Value(r[i].array[q[j].name]) + r[i].refused[q[j].name]
               = Value(m.array[q[j].name]) + m.refused[q[j].name] + q[j].fills
           Keeps(i) == \A n \in Names \ Read(i) :
             r[i].array[n] = m.array[n] /\ r[i].refused[n] = m.refused[n]
           Shows(i) == Served(m) /\ QNames(q) \subseteq FolderNames(m) => Served(r[i])
           Holds(i) == /\ \A n \in Names : m.array[n] # NoHisto => r[i].array[n] # NoHisto
                       /\ r[i].ok => \A n \in Read(i) : r[i].array[n] # NoHisto
           Good(i) == /\ r[i].canvases = m.canvases /\ FolderNames(r[i]) = FolderNames(m)
                      /\ r[i].ok => m.ok
                      /\ Counts(i) /\ Keeps(i) /\ Holds(i) /\ Shows(i)
           A == {i \in Nat : i <= Len(q) => Good(i)}
<1>3. 0 \in A
  <2>1. r[0] = m
    BY <1>1 DEF RunsReadHistogram
  <2>2. 1 .. 0 = {}
    OBVIOUS
  <2>3. Counts(0)
    BY <2>2
  <2>4. Keeps(0)
    BY <2>1
  <2>5. Holds(0)
    BY <2>1, <2>2
  <2>6. Good(0)
    <3> HIDE DEF Counts, Keeps, Holds
    <3> QED
      BY <2>1, <2>3, <2>4, <2>5
  <2> HIDE DEF Good
  <2> QED
    BY <2>6
<1>4. \A i \in Nat : i \in A => i + 1 \in A
  <2> SUFFICES ASSUME NEW i \in Nat, i \in A, i + 1 <= Len(q) PROVE Good(i + 1)
    <3> HIDE DEF Good
    <3> QED OBVIOUS
  <2>1. Good(i)
    <3> HIDE DEF Good
    <3> QED BY <1>2
  <2> DEFINE h == q[i + 1]
  <2>2. i + 1 \in 1 .. Len(q) /\ (i + 1) - 1 = i /\ i \in 0 .. Len(q)
    BY <1>2
  <2>3. h \in Histos /\ r[i] \in MergedValues
    BY <1>1, <1>2, <2>2 DEF RunsReadHistogram
  <2>4. r[i + 1] = ReadHistogram(r[i], h)
    BY <1>1, <2>2 DEF RunsReadHistogram
  <2>5. ReadPromise(r[i], h, r[i + 1])
    BY <2>3, <2>4, ReadHistogramEffect
  <2>6. /\ FolderNames(r[i + 1]) = FolderNames(r[i])
        /\ Served(r[i]) /\ h.name \in FolderNames(r[i]) => Served(r[i + 1])
    BY <2>3, <2>5, ServedWithHistogram
  <2>7. \A j \in 1 .. i + 1 : j \in 1 .. i \/ j = i + 1
    OBVIOUS
  <2>8. \A j \in 1 .. i : j \in DOMAIN q /\ q[j] \in Histos /\ q[j].name \in Names
                          /\ q[j].name # h.name
    <3> SUFFICES ASSUME NEW j \in 1 .. i
                 PROVE  j \in DOMAIN q /\ q[j] \in Histos /\ q[j].name \in Names
                        /\ q[j].name # h.name
      OBVIOUS
    <3>1. j \in DOMAIN q /\ j # i + 1 /\ i + 1 \in DOMAIN q
      BY <1>2, <2>2
    <3>2. q[j] \in Histos
      BY <3>1
    <3> QED
      BY <3>1, <3>2 DEF Histos
  <2>9. h.name \in Names /\ h.name \in QNames(q)
    BY <1>2, <2>2, <2>3 DEF Histos, QNames
  <2>10. Read(i + 1) = Read(i) \cup {h.name}
    <3>1. i + 1 \in 1 .. i + 1 /\ \A j \in 1 .. i : j \in 1 .. i + 1
      OBVIOUS
    <3> QED
      BY <2>7, <3>1
  <2>11. h.name \notin Read(i) /\ Read(i) \subseteq Names
    BY <2>8
  <2> HIDE DEF A
  <2>12. Counts(i + 1)
    <3> SUFFICES ASSUME NEW j \in 1 .. i + 1
                 PROVE  Value(r[i + 1].array[q[j].name]) + r[i + 1].refused[q[j].name]
                          = Value(m.array[q[j].name]) + m.refused[q[j].name] + q[j].fills
      OBVIOUS
    <3>1. CASE j \in 1 .. i
      <4>1. Value(r[i].array[q[j].name]) + r[i].refused[q[j].name]
              = Value(m.array[q[j].name]) + m.refused[q[j].name] + q[j].fills
        BY <2>1, <3>1
      <4>2. r[i + 1].array[q[j].name] = r[i].array[q[j].name]
            /\ r[i + 1].refused[q[j].name] = r[i].refused[q[j].name]
        BY <2>5, <2>8, <3>1 DEF ReadPromise
      <4> QED
        BY <4>1, <4>2
    <3>2. CASE j = i + 1
      <4>1. r[i].array[h.name] = m.array[h.name] /\ r[i].refused[h.name] = m.refused[h.name]
        <5> HIDE DEF Read, h
        <5> QED
          BY <2>1, <2>9, <2>11
      <4>2. Value(r[i + 1].array[h.name]) + r[i + 1].refused[h.name]
              = Value(r[i].array[h.name]) + r[i].refused[h.name] + h.fills
        BY <2>5 DEF ReadPromise
      <4> QED
        BY <3>2, <4>1, <4>2
    <3> QED
      BY <2>7, <3>1, <3>2
  <2> HIDE DEF Counts, h
  <2>13. \A n \in Names : n # h.name => r[i + 1].array[n] = r[i].array[n]
                                        /\ r[i + 1].refused[n] = r[i].refused[n]
    BY <2>5 DEF ReadPromise
  <2>14. /\ r[i].array[h.name] # NoHisto \/ r[i + 1].ok => r[i + 1].array[h.name] # NoHisto
         /\ r[i + 1].ok => r[i].ok
         /\ r[i + 1].canvases = r[i].canvases
    BY <2>5 DEF ReadPromise
  <2> HIDE DEF Read
  <2>15. Keeps(i + 1)
    BY <2>1, <2>10, <2>13
  <2>16. Holds(i + 1)
    BY <2>1, <2>10, <2>11, <2>13, <2>14
  <2>17. Shows(i + 1)
    BY <2>1, <2>6, <2>9
  <2> HIDE DEF Keeps, Holds, Shows
  <2> QED
    BY <2>1, <2>6, <2>12, <2>14, <2>15, <2>16, <2>17
<1>5. Good(Len(q))
  <2>1. Len(q) \in A
    <3> HIDE DEF A
    <3> QED BY <1>2, <1>3, <1>4, SetOfAllNat
  <2> HIDE DEF Good
  <2> QED
    BY <1>2, <2>1
<1>6. FoldLeft(ReadHistogram, m, q) = r[Len(q)] /\ r[Len(q)] \in MergedValues
  BY <1>1, <1>2 DEF RunsReadHistogram
<1>7. Read(Len(q)) = QNames(q)
  BY <1>2 DEF QNames
<1>8. ReadAllPromise(m, q, r[Len(q)])
  <2>1. \A n \in Names \ QNames(q) :
          r[Len(q)].array[n] = m.array[n] /\ r[Len(q)].refused[n] = m.refused[n]
    BY <1>5, <1>7
  <2>2. /\ \A n \in Names : m.array[n] # NoHisto => r[Len(q)].array[n] # NoHisto
        /\ r[Len(q)].ok => \A n \in QNames(q) : r[Len(q)].array[n] # NoHisto
    BY <1>5, <1>7
  <2> QED
    BY <1>2, <1>5, <2>1, <2>2 DEF ReadAllPromise
<1> QED
  BY <1>6, <1>8

AllReady(m) == \A v \in DOMAIN m.canvases : m.canvases[v].ready

\* A canvas stays prepared, and is prepared once all that it draws is there.
LEMMA PrepareCanvasesEffect ==
  ASSUME NEW m \in MergedValues
  PROVE  LET p == PrepareCanvases(m)
         IN  /\ p \in MergedValues
             /\ p.array = m.array /\ p.folders = m.folders /\ p.allReg = m.allReg
             /\ p.ok = m.ok /\ p.refused = m.refused
             /\ \A N : m.ok /\ Drawable(m, N) /\ (\A n \in N : m.array[n] # NoHisto)
                         => AllReady(p)
<1> DEFINE p == PrepareCanvases(m)
<1>1. CASE ~m.ok
  BY <1>1 DEF PrepareCanvases
<1>2. CASE m.ok
  <2> DEFINE There(v) == \A n \in m.canvases[v].objs : m.array[n] # NoHisto
             e(v) == [m.canvases[v] EXCEPT !.ready = m.canvases[v].ready \/ There(v)]
             g == [v \in DOMAIN m.canvases |-> e(v)]
  <2>1. p = [m EXCEPT !.canvases = g]
    BY <1>2 DEF PrepareCanvases
  <2>2. ASSUME NEW v \in DOMAIN m.canvases
        PROVE  /\ e(v) \in PreparedCanvases
               /\ e(v).ready = (m.canvases[v].ready \/ There(v))
    <3>1. m.canvases[v] \in PreparedCanvases
      BY MergedFields
    <3>2. There(v) \in BOOLEAN
      OBVIOUS
    <3> HIDE DEF There
    <3>3. (m.canvases[v].ready \/ There(v)) \in BOOLEAN
      OBVIOUS
    <3> QED
      BY <3>1, <3>3 DEF PreparedCanvases
  <2>3. g \in Seq(PreparedCanvases) /\ DOMAIN g = DOMAIN m.canvases
    <3>1. DOMAIN m.canvases = 1 .. Len(m.canvases) /\ Len(m.canvases) \in Nat
      BY MergedFields
    <3>2. DOMAIN g = DOMAIN m.canvases
      OBVIOUS
    <3> HIDE DEF e
    <3>3. g \in [1 .. Len(m.canvases) -> PreparedCanvases]
      BY <2>2, <3>1
    <3> HIDE DEF g
    <3> QED
      BY <3>1, <3>2, <3>3
  <2>4. \A v \in DOMAIN m.canvases : g[v].ready = (m.canvases[v].ready \/ There(v))
    <3> HIDE DEF e, There
    <3> QED
      BY <2>2
  <2> HIDE DEF p, g, There
  <2>5. /\ p \in MergedValues /\ p.canvases = g
        /\ p.array = m.array /\ p.folders = m.folders /\ p.allReg = m.allReg
        /\ p.ok = m.ok /\ p.refused = m.refused
    BY <2>1, <2>3 DEF MergedValues
  <2>6. ASSUME NEW N, Drawable(m, N), \A n \in N : m.array[n] # NoHisto,
               NEW v \in DOMAIN p.canvases
        PROVE  p.canvases[v].ready
    <3>1. m.canvases[v].ready \/ m.canvases[v].objs \subseteq N
      BY <2>3, <2>5, <2>6 DEF Drawable
    <3>2. m.canvases[v].ready \/ There(v)
      BY <2>6, <3>1 DEF There
    <3> QED
      BY <2>3, <2>4, <2>5, <3>2
  <2> QED
    BY <2>5, <2>6 DEF AllReady, p
<1> QED
  BY <1>1, <1>2, MergedFields

FillsOf(s) == [NamesOf(s) -> Nat]

\* What is promised of the data of a device that are received, with fills[n] for
\* the histogram n.
DataPromise(m, s, fills, p) ==
  /\ p.ok => m.ok
  /\ FolderNames(p) = FolderNames(m)
  /\ \A n \in Names :
       Value(p.array[n]) + p.refused[n]
         = Value(m.array[n]) + m.refused[n] + IF n \in NamesOf(s) THEN fills[n] ELSE 0
  /\ \A n \in Names : m.array[n] # NoHisto => p.array[n] # NoHisto
  /\ p.ok => \A n \in NamesOf(s) : p.array[n] # NoHisto
  /\ Served(m) /\ NamesOf(s) \subseteq FolderNames(m) => Served(p)
  /\ p.ok /\ Drawable(m, NamesOf(s)) => AllReady(p)

LEMMA NamesOfType ==
  ASSUME NEW s \in Senders
  PROVE  /\ HistoNames[s] \in Seq(Names)
         /\ NamesOf(s) \subseteq Names
         /\ {HistoNames[s][i] : i \in DOMAIN HistoNames[s]} = NamesOf(s)
         /\ Canvases[s] \in Seq(CanvasConfigs)
         /\ \A i \in DOMAIN Canvases[s] : Canvases[s][i].objs \subseteq NamesOf(s)
<1>1. HistoNames[s] \in Seq(Names)
  BY HistoServerAssumption
<1>2. Canvases[s] \in Seq(CanvasConfigs)
  BY HistoServerAssumption DEF CanvasConfigs
<1> QED
  BY <1>1, <1>2, HistoServerAssumption DEF NamesOf

LEMMA ReceiveDataEffect ==
  ASSUME NEW m \in MergedValues, NEW s \in Senders, NEW fills \in FillsOf(s)
  PROVE  LET p == ReceiveData(m, s, fills)
         IN  p \in MergedValues /\ DataPromise(m, s, fills, p)
<1> DEFINE l == Len(HistoNames[s])
           h(i) == [name |-> HistoNames[s][i], type |-> HistType[s][HistoNames[s][i]],
                    fills |-> fills[HistoNames[s][i]]]
           q == [i \in DOMAIN HistoNames[s] |-> h(i)]
           k == FoldLeft(ReadHistogram, m, q)
           p == ReceiveData(m, s, fills)
<1>1. DOMAIN HistoNames[s] = 1 .. l /\ l \in Nat
  BY NamesOfType
<1>2. \A i \in DOMAIN HistoNames[s] :
        h(i) \in Histos /\ h(i).name = HistoNames[s][i] /\ h(i).fills = fills[HistoNames[s][i]]
  <2> SUFFICES ASSUME NEW i \in DOMAIN HistoNames[s] PROVE h(i) \in Histos
    OBVIOUS
  <2>1. HistoNames[s][i] \in NamesOf(s) /\ HistoNames[s][i] \in Names
    BY NamesOfType
  <2>2. HistType[s][HistoNames[s][i]] \in HistoClasses
    BY <2>1, HistoServerAssumption
  <2>3. fills[HistoNames[s][i]] \in Nat
    BY <2>1 DEF FillsOf
  <2> QED
    BY <2>1, <2>2, <2>3 DEF Histos
<1> HIDE DEF h
<1>3. /\ q \in Seq(Histos) /\ DOMAIN q = DOMAIN HistoNames[s]
      /\ \A i \in DOMAIN q : q[i].name = HistoNames[s][i] /\ q[i].fills = fills[HistoNames[s][i]]
  <2>1. q \in [1 .. l -> Histos] /\ DOMAIN q = DOMAIN HistoNames[s]
    BY <1>1, <1>2
  <2>2. \A i \in DOMAIN q : q[i].name = HistoNames[s][i] /\ q[i].fills = fills[HistoNames[s][i]]
    BY <1>2
  <2> HIDE DEF q
  <2> QED
    BY <1>1, <2>1, <2>2
<1>4. p = PrepareCanvases(k)
  BY DEF ReceiveData, h
<1> HIDE DEF q, k, p
<1>5. \A i, j \in DOMAIN q : q[i].name = q[j].name => i = j
  BY <1>3, HistoServerAssumption
<1>6. QNames(q) = NamesOf(s)
  BY <1>3 DEF QNames, NamesOf
<1>7. k \in MergedValues /\ ReadAllPromise(m, q, k)
  BY <1>3, <1>5, ReadHistogramsEffect DEF k
<1>8. /\ p \in MergedValues
      /\ p.array = k.array /\ p.folders = k.folders /\ p.allReg = k.allReg
      /\ p.ok = k.ok /\ p.refused = k.refused
      /\ \A N : k.ok /\ Drawable(k, N) /\ (\A n \in N : k.array[n] # NoHisto) => AllReady(p)
  BY <1>4, <1>7, PrepareCanvasesEffect
<1>9. FolderNames(p) = FolderNames(k) /\ (Served(k) => Served(p))
  BY <1>8 DEF FolderNames, Served, RegisteredIfSaid
<1>10. \A n \in Names :
         Value(p.array[n]) + p.refused[n]
           = Value(m.array[n]) + m.refused[n] + IF n \in NamesOf(s) THEN fills[n] ELSE 0
  <2> SUFFICES ASSUME NEW n \in Names
               PROVE  Value(k.array[n]) + k.refused[n]
                        = Value(m.array[n]) + m.refused[n]
                            + IF n \in NamesOf(s) THEN fills[n] ELSE 0
    BY <1>8
  <2>1. CASE n \in NamesOf(s)
    <3>1. PICK i \in DOMAIN q : q[i].name = n
      BY <1>6, <2>1 DEF QNames
    <3>2. q[i].fills = fills[n]
      BY <1>3, <3>1
    <3> QED
      BY <1>7, <2>1, <3>1, <3>2 DEF ReadAllPromise
  <2>2. CASE n \notin NamesOf(s)
    <3>1. k.array[n] = m.array[n] /\ k.refused[n] = m.refused[n]
      BY <1>6, <1>7, <2>2 DEF ReadAllPromise
    <3>2. Value(m.array[n]) \in Nat /\ m.refused[n] \in Nat
      BY MergedFields DEF Value, Contents
    <3> QED
      BY <2>2, <3>1, <3>2
  <2> QED
    BY <2>1, <2>2
<1>11. ASSUME p.ok, Drawable(m, NamesOf(s)) PROVE AllReady(p)
  <2>1. Drawable(k, NamesOf(s))
    BY <1>7, <1>11 DEF ReadAllPromise, Drawable
  <2>2. \A n \in NamesOf(s) : k.array[n] # NoHisto
    BY <1>6, <1>7, <1>8, <1>11 DEF ReadAllPromise
  <2> QED
    BY <1>8, <1>11, <2>1, <2>2
<1>12. /\ k.ok => m.ok
       /\ FolderNames(k) = FolderNames(m)
       /\ \A n \in Names : m.array[n] # NoHisto => k.array[n] # NoHisto
       /\ k.ok => \A n \in NamesOf(s) : k.array[n] # NoHisto
       /\ Served(m) /\ NamesOf(s) \subseteq FolderNames(m) => Served(k)
  BY <1>6, <1>7 DEF ReadAllPromise
<1>13. DataPromise(m, s, fills, p)
  BY <1>8, <1>9, <1>10, <1>11, <1>12 DEF DataPromise
<1> QED
  BY <1>8, <1>13 DEF p

\* What is promised of a message that brings the configuration in front of its data.
ConfigPromise(m, s, fills, p) ==
  /\ p.ok => m.ok
  /\ FolderNames(p) = FolderNames(m) \cup NamesOf(s)
  /\ \A n \in Names :
       Value(p.array[n]) + p.refused[n]
         = Value(m.array[n]) + m.refused[n] + IF n \in NamesOf(s) THEN fills[n] ELSE 0
  /\ \A n \in Names : m.array[n] # NoHisto => p.array[n] # NoHisto
  /\ p.ok => \A n \in NamesOf(s) : p.array[n] # NoHisto
  /\ Served(m) => Served(p)
  /\ p.ok /\ AllReady(m) => AllReady(p)

LEMMA ConfigThenDataEffect ==
  ASSUME NEW m \in MergedValues, NEW s \in Senders, NEW fills \in FillsOf(s)
  PROVE  LET p == ConfigThenData(m, s, fills)
         IN  p \in MergedValues /\ ConfigPromise(m, s, fills, p)
<1> DEFINE k == FoldLeft(AddHistoConfig, m, HistoNames[s])
           j == FoldLeft(AddCanvasConfig, k, Canvases[s])
           p == ConfigThenData(m, s, fills)
<1>1. p = ReceiveData(j, s, fills)
  BY DEF ConfigThenData
<1> HIDE DEF p
<1>2. /\ k \in MergedValues
      /\ k.array = m.array /\ k.canvases = m.canvases
      /\ k.ok = m.ok /\ k.refused = m.refused
      /\ FolderNames(k) = FolderNames(m) \cup NamesOf(s)
      /\ Served(m) => Served(k)
  BY NamesOfType, ServedWithNames
<1> HIDE DEF k
<1>3. /\ j \in MergedValues
      /\ j.array = k.array /\ j.folders = k.folders /\ j.allReg = k.allReg
      /\ j.ok = k.ok /\ j.refused = k.refused
      /\ Drawable(k, NamesOf(s)) => Drawable(j, NamesOf(s))
  BY <1>2, NamesOfType, DrawableWithCanvases
<1> HIDE DEF j
<1>4. p \in MergedValues /\ DataPromise(j, s, fills, p)
  BY <1>1, <1>3, ReceiveDataEffect
<1>5. FolderNames(j) = FolderNames(m) \cup NamesOf(s) /\ (Served(m) => Served(j))
  BY <1>2, <1>3 DEF FolderNames, Served, RegisteredIfSaid
<1>6. AllReady(m) => Drawable(j, NamesOf(s))
  BY <1>2, <1>3 DEF AllReady, Drawable
<1>7. ConfigPromise(m, s, fills, p)
  BY <1>2, <1>3, <1>4, <1>5, <1>6 DEF DataPromise, ConfigPromise
<1> QED
  BY <1>4, <1>7 DEF p

-----------------------------------------------------------------------------
(* What the devices hold and what is on its way.                           *)

Messages(s) == [conf : BOOLEAN, fills : FillsOf(s)]
AreContents(c) == DOMAIN c = Senders /\ \A s \in Senders : c[s] \in FillsOf(s)
AreChannels(h) == DOMAIN h = Senders /\ \A s \in Senders : h[s] \in Seq(Messages(s))

Terms(q, n) == [i \in DOMAIN q |-> q[i].fills[n]]
InQueue(q, n) == Sum([i \in DOMAIN q |-> q[i].fills[n]], DOMAIN q)
HeldBy(c, n) == [s \in Senders |-> IF n \in NamesOf(s) THEN c[s][n] ELSE 0]
SentBy(h, n) == [s \in Senders |-> IF n \in NamesOf(s) THEN InQueue(h[s], n) ELSE 0]

LEMMA TermsType ==
  ASSUME NEW s \in Senders, NEW q \in Seq(Messages(s)), NEW n \in NamesOf(s)
  PROVE  /\ DOMAIN q = 1 .. Len(q) /\ Len(q) \in Nat
         /\ \A i \in 1 .. Len(q) : Terms(q, n)[i] = q[i].fills[n] /\ q[i].fills[n] \in Nat
         /\ InQueue(q, n) = Sum(Terms(q, n), 1 .. Len(q))
         /\ InQueue(q, n) \in Nat
<1>1. DOMAIN q = 1 .. Len(q) /\ Len(q) \in Nat
  OBVIOUS
<1>2. \A i \in 1 .. Len(q) : Terms(q, n)[i] = q[i].fills[n] /\ q[i].fills[n] \in Nat
  <2> SUFFICES ASSUME NEW i \in 1 .. Len(q)
               PROVE  Terms(q, n)[i] = q[i].fills[n] /\ q[i].fills[n] \in Nat
    OBVIOUS
  <2>1. q[i] \in Messages(s)
    BY <1>1
  <2>2. q[i].fills \in [NamesOf(s) -> Nat]
    BY <2>1 DEF Messages, FillsOf
  <2>3. q[i].fills[n] \in Nat
    BY <2>2
  <2> QED
    BY <1>1, <2>3 DEF Terms
<1>3. InQueue(q, n) = Sum(Terms(q, n), 1 .. Len(q))
  BY <1>1 DEF InQueue, Terms
<1>4. InQueue(q, n) \in Nat
  <2> DEFINE S == 1 .. Len(q)
  <2>1. IsFiniteSet(S)
    BY <1>1, FS_Interval
  <2>2. \A i \in S : Terms(q, n)[i] \in Nat
    BY <1>2
  <2> HIDE DEF S
  <2>3. Sum(Terms(q, n), S) \in Nat
    BY <2>1, <2>2, SumType
  <2> QED
    BY <1>3, <2>3 DEF S
<1> QED
  BY <1>1, <1>2, <1>3, <1>4

\* A message more, at the end.
LEMMA QueueAppend ==
  ASSUME NEW s \in Senders, NEW q \in Seq(Messages(s)), NEW e \in Messages(s),
         NEW n \in NamesOf(s)
  PROVE  InQueue(Append(q, e), n) = InQueue(q, n) + e.fills[n]
<1> DEFINE p == Append(q, e)
           l == Len(q)
           S == 1 .. l
<1>1. p \in Seq(Messages(s)) /\ Len(p) = l + 1 /\ p[l + 1] = e
      /\ \A i \in 1 .. l : p[i] = q[i]
  OBVIOUS
<1> HIDE DEF p
<1>2. /\ \A i \in 1 .. l : Terms(q, n)[i] = q[i].fills[n] /\ q[i].fills[n] \in Nat
      /\ InQueue(q, n) = Sum(Terms(q, n), 1 .. l) /\ l \in Nat /\ InQueue(q, n) \in Nat
  BY TermsType
<1>3. /\ \A i \in 1 .. l + 1 : Terms(p, n)[i] = p[i].fills[n] /\ p[i].fills[n] \in Nat
      /\ InQueue(p, n) = Sum(Terms(p, n), 1 .. l + 1)
  BY <1>1, TermsType
<1>4. Sum(Terms(p, n), 1 .. l + 1) = Terms(p, n)[l + 1] + Sum(Terms(p, n), 1 .. l)
  BY <1>2, <1>3, SumPrefix
<1>5. Sum(Terms(p, n), 1 .. l) = Sum(Terms(q, n), 1 .. l)
  <2>1. IsFiniteSet(S)
    BY <1>2, FS_Interval
  <2>2. \A i \in S : i \in 1 .. l + 1
    BY <1>2
  <2>3. \A i \in S : Terms(q, n)[i] \in Nat /\ Terms(p, n)[i] = Terms(q, n)[i]
    BY <1>1, <1>2, <1>3, <2>2
  <2> HIDE DEF S
  <2>4. Sum(Terms(q, n), S) = Sum(Terms(p, n), S)
    BY <2>1, <2>3, SumOfTerms
  <2> QED
    BY <2>4 DEF S
<1>6. l + 1 \in 1 .. l + 1
  BY <1>2
<1>7. Terms(p, n)[l + 1] = e.fills[n] /\ e.fills[n] \in Nat
  BY <1>1, <1>3, <1>6
<1>8. InQueue(p, n) = e.fills[n] + InQueue(q, n)
  BY <1>2, <1>3, <1>4, <1>5, <1>7
<1> QED
  BY <1>2, <1>7, <1>8 DEF p

\* A message less, at the front.
LEMMA QueueTail ==
  ASSUME NEW s \in Senders, NEW q \in Seq(Messages(s)), q # <<>>, NEW n \in NamesOf(s)
  PROVE  InQueue(Tail(q), n) + Head(q).fills[n] = InQueue(q, n)
<1> DEFINE p == Tail(q)
           k == Len(q) - 1
<1>1. /\ p \in Seq(Messages(s)) /\ Len(p) = k /\ k \in Nat /\ Len(q) = k + 1
      /\ \A i \in 1 .. k : p[i] = q[i + 1]
      /\ Head(q) = q[1]
  OBVIOUS
<1> HIDE DEF p, k
<1>2. /\ \A i \in 1 .. k + 1 : Terms(q, n)[i] = q[i].fills[n] /\ q[i].fills[n] \in Nat
      /\ InQueue(q, n) = Sum(Terms(q, n), 1 .. k + 1)
  BY <1>1, TermsType
<1>3. /\ \A i \in 1 .. k : Terms(p, n)[i] = p[i].fills[n] /\ p[i].fills[n] \in Nat
      /\ InQueue(p, n) = Sum(Terms(p, n), 1 .. k) /\ InQueue(p, n) \in Nat
  BY <1>1, TermsType
<1>4. \A i \in 1 .. k + 1 : Terms(q, n)[i] \in Nat
  BY <1>2
<1>5. \A i \in 1 .. k : Terms(p, n)[i] = Terms(q, n)[i + 1]
  <2> SUFFICES ASSUME NEW i \in 1 .. k PROVE Terms(p, n)[i] = Terms(q, n)[i + 1]
    OBVIOUS
  <2>1. i + 1 \in 1 .. k + 1
    BY <1>1
  <2> QED
    BY <1>1, <1>2, <1>3, <2>1
<1>6. Sum(Terms(q, n), 1 .. k + 1) = Terms(q, n)[1] + Sum(Terms(p, n), 1 .. k)
  BY <1>1, <1>4, <1>5, SumTail
<1>7. 1 \in 1 .. k + 1
  BY <1>1
<1>8. Terms(q, n)[1] = Head(q).fills[n] /\ Head(q).fills[n] \in Nat
  BY <1>1, <1>2, <1>7
<1>9. InQueue(q, n) = Head(q).fills[n] + InQueue(p, n)
  BY <1>2, <1>3, <1>6, <1>8
<1> QED
  BY <1>3, <1>8, <1>9 DEF p

\* Only the device s has another value.
DifferAt(c, d, s) == \A t \in Senders \ {s} : d[t] = c[t]

\* One device holds something else than before.
LEMMA HeldUpdate ==
  ASSUME NEW c, NEW d, NEW s \in Senders, NEW n,
         AreContents(c), AreContents(d), DifferAt(c, d, s)
  PROVE  /\ Sum(HeldBy(d, n), Senders) + HeldBy(c, n)[s]
              = Sum(HeldBy(c, n), Senders) + HeldBy(d, n)[s]
         /\ Sum(HeldBy(d, n), Senders) \in Nat /\ Sum(HeldBy(c, n), Senders) \in Nat
<1>1. \A e : AreContents(e) => \A t \in Senders : HeldBy(e, n)[t] \in Nat
  <2> SUFFICES ASSUME NEW e, AreContents(e), NEW t \in Senders PROVE HeldBy(e, n)[t] \in Nat
    OBVIOUS
  <2>1. e[t] \in [NamesOf(t) -> Nat]
    BY DEF AreContents, FillsOf
  <2> QED
    BY <2>1 DEF HeldBy
<1>2. \A t \in Senders \ {s} : HeldBy(d, n)[t] = HeldBy(c, n)[t]
  BY DEF HeldBy, DifferAt
<1>3. IsFiniteSet(Senders)
  BY HistoServerAssumption
<1>4. \A t \in Senders : HeldBy(c, n)[t] \in Nat /\ HeldBy(d, n)[t] \in Nat
  BY <1>1
<1>5. Sum(HeldBy(d, n), Senders) \in Nat /\ Sum(HeldBy(c, n), Senders) \in Nat
  BY <1>3, <1>4, SumType
<1>6. Sum(HeldBy(d, n), Senders) + HeldBy(c, n)[s] = Sum(HeldBy(c, n), Senders) + HeldBy(d, n)[s]
  BY <1>2, <1>3, <1>4, SumUpdate
<1> QED
  BY <1>5, <1>6

\* The channel of one device is another than before.
LEMMA SentUpdate ==
  ASSUME NEW c, NEW d, NEW s \in Senders, NEW n,
         AreChannels(c), AreChannels(d), DifferAt(c, d, s)
  PROVE  /\ Sum(SentBy(d, n), Senders) + SentBy(c, n)[s]
              = Sum(SentBy(c, n), Senders) + SentBy(d, n)[s]
         /\ Sum(SentBy(d, n), Senders) \in Nat /\ Sum(SentBy(c, n), Senders) \in Nat
<1>1. \A e : AreChannels(e) => \A t \in Senders : SentBy(e, n)[t] \in Nat
  <2> SUFFICES ASSUME NEW e, AreChannels(e), NEW t \in Senders PROVE SentBy(e, n)[t] \in Nat
    OBVIOUS
  <2>1. e[t] \in Seq(Messages(t))
    BY DEF AreChannels
  <2>2. n \in NamesOf(t) => InQueue(e[t], n) \in Nat
    BY <2>1, TermsType
  <2> QED
    BY <2>2 DEF SentBy
<1>2. \A t \in Senders \ {s} : SentBy(d, n)[t] = SentBy(c, n)[t]
  BY DEF SentBy, DifferAt
<1>3. IsFiniteSet(Senders)
  BY HistoServerAssumption
<1>4. \A t \in Senders : SentBy(c, n)[t] \in Nat /\ SentBy(d, n)[t] \in Nat
  BY <1>1
<1>5. Sum(SentBy(d, n), Senders) \in Nat /\ Sum(SentBy(c, n), Senders) \in Nat
  BY <1>3, <1>4, SumType
<1>6. Sum(SentBy(d, n), Senders) + SentBy(c, n)[s] = Sum(SentBy(c, n), Senders) + SentBy(d, n)[s]
  BY <1>2, <1>3, <1>4, SumUpdate
<1> QED
  BY <1>5, <1>6

-----------------------------------------------------------------------------
(* Types.                                                                  *)

TypeOK ==
  /\ style \in [Senders -> {"combined", "separate"}]
  /\ fbConfigSent \in [Senders -> BOOLEAN]
  /\ AreContents(content)
  /\ AreChannels(histoIn)
  /\ histoConf \in [Senders -> Seq(Names)]
  /\ canvasConf \in [Senders -> Seq(CanvasConfigs)]
  /\ Merged \in MergedValues
  /\ owed \in [Names -> Int]
  /\ clash \in BOOLEAN

\* A handler that changes m leaves no refusal behind.
LEMMA MergedNext ==
  ASSUME NEW m \in MergedValues, SetMerged(m)
  PROVE  /\ Merged' \in MergedValues
         /\ Merged'.array = m.array /\ Merged'.folders = m.folders
         /\ Merged'.allReg = m.allReg /\ Merged'.canvases = m.canvases
<1>1. Merged' = [array |-> m.array, folders |-> m.folders, allReg |-> m.allReg,
                 canvases |-> m.canvases, ok |-> TRUE, refused |-> [n \in Names |-> 0]]
  BY DEF SetMerged, Merged
<1>2. [n \in Names |-> 0] \in [Names -> Nat]
  OBVIOUS
<1> QED
  BY <1>1, <1>2, MergedFields DEF MergedValues

LEMMA MergedIs ==
  /\ Merged.array = fArrayHisto /\ Merged.folders = fvpsHistosFolder
  /\ Merged.allReg = fbAllHistosRegistered /\ Merged.canvases = fvpsCanvasConfig
  /\ Merged.ok = TRUE /\ \A n \in Names : Merged.refused[n] = 0
BY DEF Merged

\* What Fill, Publish and Restart do to the device and to its channel.
LEMMA FillEffect ==
  ASSUME TypeOK, NEW s \in Senders, NEW k \in Names, Fill(s, k)
  PROVE  /\ AreContents(content')
         /\ \A t \in Senders \ {s} : content'[t] = content[t]
         /\ \A n \in NamesOf(s) : content'[s][n] = content[s][n] + IF n = k THEN 1 ELSE 0
         /\ k \in NamesOf(s)
         /\ owed' \in [Names -> Int]
         /\ \A n \in Names : owed'[n] = owed[n] + IF n = k THEN 1 ELSE 0
         /\ UNCHANGED <<histoIn, fArrayHisto>>
<1>1. /\ k \in NamesOf(s)
      /\ content' = [content EXCEPT ![s][k] = @ + 1]
      /\ owed' = [owed EXCEPT ![k] = @ + 1]
      /\ UNCHANGED <<histoIn, fArrayHisto>>
  BY DEF Fill, channels, mergedVars
<1>2. /\ DOMAIN content = Senders /\ \A t \in Senders : content[t] \in [NamesOf(t) -> Nat]
      /\ owed \in [Names -> Int]
  BY DEF TypeOK, AreContents, FillsOf
<1>3. content' = [content EXCEPT ![s] = [content[s] EXCEPT ![k] = content[s][k] + 1]]
  BY <1>1
<1> DEFINE f == [content[s] EXCEPT ![k] = content[s][k] + 1]
<1>4. /\ f \in [NamesOf(s) -> Nat]
      /\ \A n \in NamesOf(s) : f[n] = content[s][n] + IF n = k THEN 1 ELSE 0
  <2>1. content[s] \in [NamesOf(s) -> Nat] /\ content[s][k] + 1 \in Nat
    BY <1>1, <1>2
  <2>2. f \in [NamesOf(s) -> Nat]
    BY <2>1
  <2>3. \A n \in NamesOf(s) : content[s][n] \in Nat
    BY <2>1
  <2> QED
    BY <1>1, <2>1, <2>2, <2>3
<1> HIDE DEF f
<1>5. DOMAIN content' = Senders /\ content'[s] = f
      /\ \A t \in Senders \ {s} : content'[t] = content[t]
  BY <1>2, <1>3 DEF f
<1>6. AreContents(content')
  BY <1>2, <1>4, <1>5 DEF AreContents, FillsOf
<1>7. /\ owed' \in [Names -> Int]
      /\ \A n \in Names : owed'[n] = owed[n] + IF n = k THEN 1 ELSE 0
  BY <1>1, <1>2
<1> QED
  BY <1>1, <1>4, <1>5, <1>6, <1>7

LEMMA ResetContents ==
  ASSUME TypeOK, NEW s \in Senders,
         content' = [content EXCEPT ![s] = [n \in NamesOf(s) |-> 0]]
  PROVE  /\ AreContents(content')
         /\ \A t \in Senders \ {s} : content'[t] = content[t]
         /\ \A n \in NamesOf(s) : content'[s][n] = 0
BY DEF TypeOK, AreContents, FillsOf

LEMMA SendEffect ==
  ASSUME TypeOK, NEW s \in Senders, NEW e \in Messages(s),
         histoIn' = [histoIn EXCEPT ![s] = Append(@, e)]
  PROVE  /\ AreChannels(histoIn')
         /\ histoIn'[s] = Append(histoIn[s], e)
         /\ \A t \in Senders \ {s} : histoIn'[t] = histoIn[t]
<1>1. DOMAIN histoIn = Senders /\ \A t \in Senders : histoIn[t] \in Seq(Messages(t))
  BY DEF TypeOK, AreChannels
<1>2. Append(histoIn[s], e) \in Seq(Messages(s))
  BY <1>1
<1>3. DOMAIN histoIn' = Senders /\ histoIn'[s] = Append(histoIn[s], e)
      /\ \A t \in Senders \ {s} : histoIn'[t] = histoIn[t]
  BY <1>1
<1> QED
  BY <1>1, <1>2, <1>3 DEF AreChannels

\* A message received.
LEMMA ReceiveEffect ==
  ASSUME TypeOK, NEW s \in Senders, ReceiveConfigAndData(s)
  PROVE  LET msg == Head(histoIn[s])
         IN  /\ histoIn[s] \in Seq(Messages(s)) /\ histoIn[s] # <<>>
             /\ msg \in Messages(s)
             /\ AreChannels(histoIn')
             /\ histoIn'[s] = Tail(histoIn[s])
             /\ \A t \in Senders \ {s} : histoIn'[t] = histoIn[t]
             /\ \E m \in MergedValues :
                  /\ SetMerged(m)
                  /\ msg.conf => ConfigPromise(Merged, s, msg.fills, m)
                  /\ ~msg.conf => DataPromise(Merged, s, msg.fills, m)
                  /\ main' = IF m.ok \/ msg.conf THEN main ELSE "leaving"
                  /\ owed' = [n \in Names |-> owed[n] - m.refused[n]]
                  /\ clash' = (clash \/ ~m.ok \/ \E n \in Names : m.refused[n] # 0)
<1> DEFINE msg == Head(histoIn[s])
           m == IF msg.conf THEN ConfigThenData(Merged, s, msg.fills)
                            ELSE ReceiveData(Merged, s, msg.fills)
<1>1. /\ SetMerged(m)
      /\ main' = IF m.ok \/ msg.conf THEN main ELSE "leaving"
      /\ owed' = [n \in Names |-> owed[n] - m.refused[n]]
      /\ clash' = (clash \/ ~m.ok \/ \E n \in Names : m.refused[n] # 0)
      /\ histoIn' = [histoIn EXCEPT ![s] = Tail(@)]
      /\ histoIn[s] # <<>>
  BY DEF ReceiveConfigAndData
<1>2. DOMAIN histoIn = Senders /\ \A t \in Senders : histoIn[t] \in Seq(Messages(t))
  BY DEF TypeOK, AreChannels
<1>3. msg \in Messages(s) /\ Tail(histoIn[s]) \in Seq(Messages(s))
  <2>1. histoIn[s] \in Seq(Messages(s)) /\ histoIn[s] # <<>>
    BY <1>1, <1>2
  <2> QED
    BY <2>1
<1> HIDE DEF msg
<1>4. msg.fills \in FillsOf(s) /\ msg.conf \in BOOLEAN
  BY <1>3 DEF Messages
<1>5. Merged \in MergedValues
  BY DEF TypeOK
<1>6. /\ m \in MergedValues
      /\ msg.conf => ConfigPromise(Merged, s, msg.fills, m)
      /\ ~msg.conf => DataPromise(Merged, s, msg.fills, m)
  BY <1>4, <1>5, ConfigThenDataEffect, ReceiveDataEffect
<1> HIDE DEF m
<1>7. DOMAIN histoIn' = Senders /\ histoIn'[s] = Tail(histoIn[s])
      /\ \A t \in Senders \ {s} : histoIn'[t] = histoIn[t]
  BY <1>1, <1>2
<1>8. AreChannels(histoIn')
  BY <1>2, <1>3, <1>7 DEF AreChannels
<1> QED
  BY <1>1, <1>2, <1>3, <1>6, <1>7, <1>8 DEF msg

LEMMA InitTypeOK == Init => TypeOK
<1> SUFFICES ASSUME Init PROVE TypeOK
  OBVIOUS
<1>1. style \in [Senders -> {"combined", "separate"}]
  BY HistoServerAssumption DEF Init
<1>2. fbConfigSent \in [Senders -> BOOLEAN] /\ owed \in [Names -> Int] /\ clash \in BOOLEAN
  <2>1. fbConfigSent = [s \in Senders |-> FALSE] /\ owed = [n \in Names |-> 0] /\ clash = FALSE
    BY DEF Init
  <2>2. owed \in [Names -> Int]
    BY <2>1
  <2>3. fbConfigSent \in [Senders -> BOOLEAN]
    BY <2>1, Zenon
  <2> QED
    BY <2>1, <2>2, <2>3
<1>3. AreContents(content) /\ AreChannels(histoIn)
  BY DEF Init, AreContents, AreChannels, FillsOf
<1>4. histoConf \in [Senders -> Seq(Names)]
  <2>1. \A s \in Senders : HistoNames[s] \in Seq(Names) /\ <<>> \in Seq(Names)
    BY NamesOfType
  <2> QED
    BY <2>1 DEF Init
<1>5. canvasConf \in [Senders -> Seq(CanvasConfigs)]
  <2>1. \A s \in Senders : Canvases[s] \in Seq(CanvasConfigs) /\ <<>> \in Seq(CanvasConfigs)
    BY NamesOfType
  <2> QED
    BY <2>1 DEF Init
<1>6. Merged \in MergedValues
  <2>1. Merged = [array |-> [n \in Names |-> NoHisto], folders |-> <<>>, allReg |-> FALSE,
                  canvases |-> <<>>, ok |-> TRUE, refused |-> [n \in Names |-> 0]]
    BY DEF Init, Merged
  <2>2. [n \in Names |-> NoHisto] \in [Names -> Contents \cup {NoHisto}]
        /\ [n \in Names |-> 0] \in [Names -> Nat]
        /\ <<>> \in Seq(Folders) /\ <<>> \in Seq(PreparedCanvases)
    OBVIOUS
  <2> QED
    BY <2>1, <2>2 DEF MergedValues
<1> QED
  BY <1>1, <1>2, <1>3, <1>4, <1>5, <1>6 DEF TypeOK

LEMMA SameMerged ==
  ASSUME UNCHANGED mergedVars
  PROVE  Merged' = Merged
BY DEF mergedVars, Merged

\* A step that is none of those of Fill, Publish, Restart and of the handlers.
Elsewhere == PreRun \/ PostRun \/ UpdateHttpServer \/ UNCHANGED vars

LEMMA ElsewhereKeeps ==
  ASSUME Elsewhere
  PROVE  UNCHANGED <<deviceVars, channels, mergedVars, owed, clash>>
<1>1. CASE PreRun
  BY <1>1 DEF PreRun
<1>2. CASE PostRun
  BY <1>2 DEF PostRun, PostRunSave, PostRunStop, PostRunJoin
<1>3. CASE UpdateHttpServer
  BY <1>3 DEF UpdateHttpServer, HttpCheckStop, HttpLock, HttpServed, httpUnchanged
<1>4. CASE UNCHANGED vars
  BY <1>4 DEF vars
<1> QED
  BY <1>1, <1>2, <1>3, <1>4 DEF Elsewhere

\* The steps of Next, one by one.
LEMMA StepCases ==
  ASSUME [Next]_vars
  PROVE  \/ \E s \in Senders : \/ \E n \in Names : Fill(s, n)
                               \/ Publish(s) \/ Restart(s)
                               \/ ReceiveConfigAndData(s)
                               \/ ReceiveHistoConfig(s) \/ ReceiveCanvasConfig(s)
         \/ Elsewhere
BY DEF Next, Elsewhere

LEMMA StepTypeOK ==
  ASSUME TypeOK, [Next]_vars
  PROVE  TypeOK'
<1>1. ASSUME NEW s \in Senders, NEW n \in Names, Fill(s, n) PROVE TypeOK'
  <2>1. AreContents(content') /\ owed' \in [Names -> Int]
    BY <1>1, FillEffect
  <2>2. UNCHANGED <<style, fbConfigSent, channels, mergedVars, clash>>
    BY <1>1 DEF Fill
  <2> QED
    BY <2>1, <2>2, SameMerged DEF TypeOK, channels
<1>2. ASSUME NEW s \in Senders, Publish(s) PROVE TypeOK'
  <2>1. PICK sent \in BOOLEAN :
          LET first == style[s] = "combined" /\ ~fbConfigSent[s]
          IN  /\ histoIn' = IF sent
                            THEN [histoIn EXCEPT ![s] = Append(@, [conf |-> first,
                                                                   fills |-> content[s]])]
                            ELSE histoIn
              /\ fbConfigSent' = [fbConfigSent EXCEPT ![s] = @ \/ (first /\ sent)]
              /\ ResetHistograms(s, sent)
    BY <1>2 DEF Publish
  <2>2. UNCHANGED <<style, histoConf, canvasConf, mergedVars, owed, clash>>
    BY <1>2 DEF Publish
  <2> DEFINE first == style[s] = "combined" /\ ~fbConfigSent[s]
             e == [conf |-> first, fills |-> content[s]]
             b == fbConfigSent[s] \/ (first /\ sent)
  <2>3. first \in BOOLEAN /\ b \in BOOLEAN
    BY DEF TypeOK
  <2>4. e \in Messages(s)
    <3> HIDE DEF first
    <3> QED
      BY <2>3 DEF TypeOK, AreContents, Messages
  <2>5. AreContents(content')
    BY <2>1, ResetContents DEF TypeOK, ResetHistograms
  <2>6. AreChannels(histoIn')
    <3>1. histoIn' = IF sent THEN [histoIn EXCEPT ![s] = Append(@, e)] ELSE histoIn
      BY <2>1
    <3> HIDE DEF e
    <3> QED
      BY <2>4, <3>1, SendEffect DEF TypeOK
  <2>7. fbConfigSent' \in [Senders -> BOOLEAN]
    <3>1. fbConfigSent' = [fbConfigSent EXCEPT ![s] = b]
      BY <2>1
    <3> HIDE DEF b
    <3> QED
      BY <2>3, <3>1, Zenon DEF TypeOK
  <2> QED
    BY <2>2, <2>5, <2>6, <2>7, SameMerged DEF TypeOK
<1>3. ASSUME NEW s \in Senders, Restart(s) PROVE TypeOK'
  <2>1. /\ content' = [content EXCEPT ![s] = [n \in NamesOf(s) |-> 0]]
        /\ fbConfigSent' = [fbConfigSent EXCEPT ![s] = FALSE]
        /\ owed' = [n \in Names |-> IF n \in NamesOf(s) THEN owed[n] - content[s][n] ELSE owed[n]]
        /\ UNCHANGED <<style, channels, mergedVars, clash>>
    BY <1>3 DEF Restart
  <2>2. AreContents(content')
    BY <2>1, ResetContents
  <2>3. fbConfigSent' \in [Senders -> BOOLEAN]
    BY <2>1, Zenon DEF TypeOK
  <2>4. owed' \in [Names -> Int]
    <3>1. content[s] \in [NamesOf(s) -> Nat] /\ owed \in [Names -> Int]
      BY DEF TypeOK, AreContents, FillsOf
    <3> QED
      BY <2>1, <3>1
  <2> QED
    BY <2>1, <2>2, <2>3, <2>4, SameMerged DEF TypeOK, channels
<1>4. ASSUME NEW s \in Senders, ReceiveConfigAndData(s) PROVE TypeOK'
  <2>1. AreChannels(histoIn')
    BY <1>4, ReceiveEffect
  <2>2. PICK m \in MergedValues :
          /\ SetMerged(m)
          /\ owed' = [n \in Names |-> owed[n] - m.refused[n]]
          /\ clash' = (clash \/ ~m.ok \/ \E n \in Names : m.refused[n] # 0)
    BY <1>4, ReceiveEffect
  <2>3. Merged' \in MergedValues
    BY <2>2, MergedNext
  <2>4. owed' \in [Names -> Int]
    <3>1. m.refused \in [Names -> Nat] /\ owed \in [Names -> Int]
      BY MergedFields DEF TypeOK
    <3> QED
      BY <2>2, <3>1
  <2>5. clash' \in BOOLEAN
    BY <2>2
  <2>6. UNCHANGED <<style, fbConfigSent, content, histoConf, canvasConf>>
    BY <1>4 DEF ReceiveConfigAndData, deviceVars
  <2> QED
    BY <2>1, <2>3, <2>4, <2>5, <2>6 DEF TypeOK
<1>5. ASSUME NEW s \in Senders, ReceiveHistoConfig(s) PROVE TypeOK'
  <2>1. /\ histoConf[s] # <<>>
        /\ SetMerged(AddHistoConfig(Merged, Head(histoConf[s])))
        /\ histoConf' = [histoConf EXCEPT ![s] = Tail(@)]
        /\ UNCHANGED <<deviceVars, histoIn, canvasConf, owed, clash>>
    BY <1>5 DEF ReceiveHistoConfig
  <2>2. histoConf[s] \in Seq(Names)
    BY DEF TypeOK
  <2>3. Head(histoConf[s]) \in Names /\ Tail(histoConf[s]) \in Seq(Names)
    BY <2>1, <2>2
  <2>4. Merged' \in MergedValues
    BY <2>1, <2>3, TypeAddHistoConfig, MergedNext DEF TypeOK
  <2>5. histoConf' \in [Senders -> Seq(Names)]
    BY <2>1, <2>3 DEF TypeOK
  <2> QED
    BY <2>1, <2>4, <2>5 DEF TypeOK, deviceVars
<1>6. ASSUME NEW s \in Senders, ReceiveCanvasConfig(s) PROVE TypeOK'
  <2>1. /\ canvasConf[s] # <<>>
        /\ SetMerged(AddCanvasConfig(Merged, Head(canvasConf[s])))
        /\ canvasConf' = [canvasConf EXCEPT ![s] = Tail(@)]
        /\ UNCHANGED <<deviceVars, histoIn, histoConf, owed, clash>>
    BY <1>6 DEF ReceiveCanvasConfig
  <2>2. canvasConf[s] \in Seq(CanvasConfigs)
    BY DEF TypeOK
  <2>3. Head(canvasConf[s]) \in CanvasConfigs /\ Tail(canvasConf[s]) \in Seq(CanvasConfigs)
    BY <2>1, <2>2
  <2>4. Merged' \in MergedValues
    BY <2>1, <2>3, TypeAddCanvasConfig, MergedNext DEF TypeOK
  <2>5. canvasConf' \in [Senders -> Seq(CanvasConfigs)]
    BY <2>1, <2>3 DEF TypeOK
  <2> QED
    BY <2>1, <2>4, <2>5 DEF TypeOK, deviceVars
<1>7. ASSUME Elsewhere PROVE TypeOK'
  BY <1>7, ElsewhereKeeps, SameMerged DEF TypeOK, deviceVars, channels
<1> QED
  BY <1>1, <1>2, <1>3, <1>4, <1>5, <1>6, <1>7, StepCases

\* The variables of devices, channels and server have their types.
THEOREM HistoTypes == Spec => []TypeOK
<1>1. TypeOK /\ [Next]_vars => TypeOK'
  BY StepTypeOK
<1> QED
  BY <1>1, InitTypeOK, PTL DEF Spec

-----------------------------------------------------------------------------
(* Every fill is counted once.                                             *)

Held(n) == Sum(HeldBy(content, n), Senders)
Sent(n) == Sum(SentBy(histoIn, n), Senders)
Counted(n) == owed[n] = Held(n) + Sent(n) + Value(fArrayHisto[n])

LEMMA HeldStep ==
  ASSUME TypeOK, NEW s \in Senders, NEW n, AreContents(content'),
         \A t \in Senders \ {s} : content'[t] = content[t]
  PROVE  /\ Held(n)' + HeldBy(content, n)[s] = Held(n) + HeldBy(content', n)[s]
         /\ Held(n)' \in Nat
<1>1. DifferAt(content, content', s) /\ AreContents(content)
  BY DEF DifferAt, TypeOK
<1>2. /\ Sum(HeldBy(content', n), Senders) + HeldBy(content, n)[s]
           = Sum(HeldBy(content, n), Senders) + HeldBy(content', n)[s]
      /\ Sum(HeldBy(content', n), Senders) \in Nat
  BY <1>1, HeldUpdate
<1>3. Held(n)' = Sum(HeldBy(content', n), Senders)
  BY DEF Held, HeldBy, Sum, FoldFunctionOnSet, MapThenFoldSet
<1> QED
  BY <1>2, <1>3 DEF Held

LEMMA SentStep ==
  ASSUME TypeOK, NEW s \in Senders, NEW n, AreChannels(histoIn'),
         \A t \in Senders \ {s} : histoIn'[t] = histoIn[t]
  PROVE  /\ Sent(n)' + SentBy(histoIn, n)[s] = Sent(n) + SentBy(histoIn', n)[s]
         /\ Sent(n)' \in Nat
<1>1. DifferAt(histoIn, histoIn', s) /\ AreChannels(histoIn)
  BY DEF DifferAt, TypeOK
<1>2. /\ Sum(SentBy(histoIn', n), Senders) + SentBy(histoIn, n)[s]
           = Sum(SentBy(histoIn, n), Senders) + SentBy(histoIn', n)[s]
      /\ Sum(SentBy(histoIn', n), Senders) \in Nat
  BY <1>1, SentUpdate
<1>3. Sent(n)' = Sum(SentBy(histoIn', n), Senders)
  BY DEF Sent, SentBy, InQueue, Sum, FoldFunctionOnSet, MapThenFoldSet
<1> QED
  BY <1>2, <1>3 DEF Sent

LEMMA CountedIsProperty ==
  EveryFillCountedOnce <=> \A n \in Names : Counted(n)
BY DEF EveryFillCountedOnce, Counted, Held, Sent, HeldBy, SentBy, InQueue, Value

LEMMA SumsAreNat ==
  ASSUME TypeOK, NEW n \in Names
  PROVE  /\ Held(n) \in Nat /\ Sent(n) \in Nat
         /\ \A s \in Senders : HeldBy(content, n)[s] \in Nat /\ SentBy(histoIn, n)[s] \in Nat
         /\ owed[n] \in Int /\ Value(fArrayHisto[n]) \in Nat
<1>1. \A s \in Senders : HeldBy(content, n)[s] \in Nat
  BY DEF TypeOK, AreContents, FillsOf, HeldBy
<1>2. \A s \in Senders : SentBy(histoIn, n)[s] \in Nat
  <2> SUFFICES ASSUME NEW s \in Senders PROVE SentBy(histoIn, n)[s] \in Nat
    OBVIOUS
  <2>1. histoIn[s] \in Seq(Messages(s))
    BY DEF TypeOK, AreChannels
  <2>2. n \in NamesOf(s) => InQueue(histoIn[s], n) \in Nat
    BY <2>1, TermsType
  <2> QED
    BY <2>2 DEF SentBy
<1>3. IsFiniteSet(Senders)
  BY HistoServerAssumption
<1>4. Held(n) \in Nat /\ Sent(n) \in Nat
  BY <1>1, <1>2, <1>3, SumType DEF Held, Sent
<1>5. owed[n] \in Int
  BY DEF TypeOK
<1>6. Value(fArrayHisto[n]) \in Nat
  <2>1. fArrayHisto[n] \in Contents \cup {NoHisto}
    BY MergedFields, MergedIs DEF TypeOK
  <2> QED
    BY <2>1 DEF Value, Contents
<1> QED
  BY <1>1, <1>2, <1>4, <1>5, <1>6

LEMMA FillCounted ==
  ASSUME TypeOK, NEW s \in Senders, NEW k \in Names, Fill(s, k), NEW n \in Names, Counted(n)
  PROVE  Counted(n)'
<1>1. /\ AreContents(content')
      /\ \A t \in Senders \ {s} : content'[t] = content[t]
      /\ \A i \in NamesOf(s) : content'[s][i] = content[s][i] + IF i = k THEN 1 ELSE 0
      /\ k \in NamesOf(s)
      /\ owed'[n] = owed[n] + IF n = k THEN 1 ELSE 0
      /\ UNCHANGED <<histoIn, fArrayHisto>>
  BY FillEffect
<1>2. /\ Held(n)' + HeldBy(content, n)[s] = Held(n) + HeldBy(content', n)[s]
      /\ Held(n)' \in Nat
  BY <1>1, HeldStep
<1>3. HeldBy(content', n)[s] = HeldBy(content, n)[s] + IF n = k THEN 1 ELSE 0
  BY <1>1, SumsAreNat DEF HeldBy
<1>4. Sent(n)' = Sent(n) /\ Value(fArrayHisto[n])' = Value(fArrayHisto[n])
  BY <1>1 DEF Sent
<1>5. /\ Held(n) \in Nat /\ Sent(n) \in Nat /\ HeldBy(content, n)[s] \in Nat
      /\ Value(fArrayHisto[n]) \in Nat
  BY SumsAreNat
<1> QED
  BY <1>1, <1>2, <1>3, <1>4, <1>5 DEF Counted

LEMMA PublishCounted ==
  ASSUME TypeOK, NEW s \in Senders, Publish(s), NEW n \in Names, Counted(n)
  PROVE  Counted(n)'
<1> DEFINE first == style[s] = "combined" /\ ~fbConfigSent[s]
           e == [conf |-> first, fills |-> content[s]]
<1>1. PICK sent \in BOOLEAN :
        /\ histoIn' = IF sent THEN [histoIn EXCEPT ![s] = Append(@, e)] ELSE histoIn
        /\ content' = IF sent THEN [content EXCEPT ![s] = [i \in NamesOf(s) |-> 0]] ELSE content
  BY DEF Publish, ResetHistograms
<1>2. owed' = owed /\ fArrayHisto' = fArrayHisto
  BY DEF Publish, mergedVars
<1>3. CASE ~sent
  BY <1>1, <1>2, <1>3 DEF Counted, Held, Sent
<1>4. CASE sent
  <2>1. first \in BOOLEAN
    OBVIOUS
  <2>2. content[s] \in FillsOf(s)
    BY DEF TypeOK, AreContents
  <2>3. e \in Messages(s) /\ e.fills = content[s]
    <3> HIDE DEF first
    <3> QED
      BY <2>1, <2>2 DEF Messages
  <2> HIDE DEF e
  <2>4. /\ AreContents(content')
        /\ \A t \in Senders \ {s} : content'[t] = content[t]
        /\ \A i \in NamesOf(s) : content'[s][i] = 0
    BY <1>1, <1>4, ResetContents
  <2>5. /\ AreChannels(histoIn')
        /\ histoIn'[s] = Append(histoIn[s], e)
        /\ \A t \in Senders \ {s} : histoIn'[t] = histoIn[t]
    BY <1>1, <1>4, <2>3, SendEffect
  <2>6. /\ Held(n)' + HeldBy(content, n)[s] = Held(n) + HeldBy(content', n)[s]
        /\ Held(n)' \in Nat
    BY <2>4, HeldStep
  <2>7. /\ Sent(n)' + SentBy(histoIn, n)[s] = Sent(n) + SentBy(histoIn', n)[s]
        /\ Sent(n)' \in Nat
    BY <2>5, SentStep
  <2>8. HeldBy(content', n)[s] = 0
    BY <2>4 DEF HeldBy
  <2>9. SentBy(histoIn', n)[s] = SentBy(histoIn, n)[s] + HeldBy(content, n)[s]
    <3>1. CASE n \in NamesOf(s)
      <4>1. histoIn[s] \in Seq(Messages(s))
        BY DEF TypeOK, AreChannels
      <4>2. InQueue(histoIn'[s], n) = InQueue(histoIn[s], n) + e.fills[n]
        BY <2>3, <2>5, <3>1, <4>1, QueueAppend
      <4> QED
        BY <2>3, <3>1, <4>2 DEF SentBy, HeldBy
    <3>2. CASE n \notin NamesOf(s)
      BY <3>2 DEF SentBy, HeldBy
    <3> QED
      BY <3>1, <3>2
  <2>10. /\ Held(n) \in Nat /\ Sent(n) \in Nat
         /\ HeldBy(content, n)[s] \in Nat /\ SentBy(histoIn, n)[s] \in Nat
    BY SumsAreNat
  <2>11. Held(n)' + Sent(n)' = Held(n) + Sent(n)
    BY <2>6, <2>7, <2>8, <2>9, <2>10
  <2> QED
    BY <1>2, <2>11 DEF Counted
<1> QED
  BY <1>3, <1>4

LEMMA RestartCounted ==
  ASSUME TypeOK, NEW s \in Senders, Restart(s), NEW n \in Names, Counted(n)
  PROVE  Counted(n)'
<1>1. /\ content' = [content EXCEPT ![s] = [i \in NamesOf(s) |-> 0]]
      /\ owed' = [i \in Names |-> IF i \in NamesOf(s) THEN owed[i] - content[s][i] ELSE owed[i]]
      /\ UNCHANGED <<histoIn, fArrayHisto>>
  BY DEF Restart, channels, mergedVars
<1>2. /\ AreContents(content')
      /\ \A t \in Senders \ {s} : content'[t] = content[t]
      /\ \A i \in NamesOf(s) : content'[s][i] = 0
  BY <1>1, ResetContents
<1>3. /\ Held(n)' + HeldBy(content, n)[s] = Held(n) + HeldBy(content', n)[s]
      /\ Held(n)' \in Nat
  BY <1>2, HeldStep
<1>4. HeldBy(content', n)[s] = 0
  BY <1>2 DEF HeldBy
<1>5. owed[n] \in Int
  BY SumsAreNat
<1>6. owed'[n] = owed[n] - HeldBy(content, n)[s]
  BY <1>1, <1>5 DEF HeldBy
<1>7. Sent(n)' = Sent(n) /\ Value(fArrayHisto[n])' = Value(fArrayHisto[n])
  BY <1>1 DEF Sent
<1>8. /\ Held(n) \in Nat /\ Sent(n) \in Nat /\ HeldBy(content, n)[s] \in Nat
      /\ Value(fArrayHisto[n]) \in Nat
  BY SumsAreNat
<1> QED
  BY <1>3, <1>4, <1>5, <1>6, <1>7, <1>8 DEF Counted

LEMMA ReceiveCounted ==
  ASSUME TypeOK, NEW s \in Senders, ReceiveConfigAndData(s), NEW n \in Names, Counted(n)
  PROVE  Counted(n)'
<1> DEFINE msg == Head(histoIn[s])
<1>1. /\ histoIn[s] \in Seq(Messages(s)) /\ histoIn[s] # <<>>
      /\ msg \in Messages(s)
      /\ AreChannels(histoIn')
      /\ histoIn'[s] = Tail(histoIn[s])
      /\ \A t \in Senders \ {s} : histoIn'[t] = histoIn[t]
  BY ReceiveEffect
<1>2. PICK m \in MergedValues :
        /\ SetMerged(m)
        /\ msg.conf => ConfigPromise(Merged, s, msg.fills, m)
        /\ ~msg.conf => DataPromise(Merged, s, msg.fills, m)
        /\ owed' = [i \in Names |-> owed[i] - m.refused[i]]
  BY ReceiveEffect
<1>3. content' = content
  BY DEF ReceiveConfigAndData, deviceVars
<1> DEFINE d == IF n \in NamesOf(s) THEN msg.fills[n] ELSE 0
<1>4. Value(m.array[n]) + m.refused[n] = Value(fArrayHisto[n]) + 0 + d
  <2>1. Value(m.array[n]) + m.refused[n] = Value(Merged.array[n]) + Merged.refused[n] + d
    BY <1>2 DEF ConfigPromise, DataPromise
  <2> HIDE DEF d
  <2> QED
    BY <2>1, MergedIs
<1>5. fArrayHisto' = m.array
  BY <1>2 DEF SetMerged
<1>6. /\ Sent(n)' + SentBy(histoIn, n)[s] = Sent(n) + SentBy(histoIn', n)[s]
      /\ Sent(n)' \in Nat
  BY <1>1, SentStep
<1>7. d \in Nat
  <2>1. msg.fills \in [NamesOf(s) -> Nat]
    BY <1>1 DEF Messages, FillsOf
  <2> HIDE DEF msg
  <2> QED
    BY <2>1
<1>8. SentBy(histoIn', n)[s] + d = SentBy(histoIn, n)[s]
  <2>1. CASE n \in NamesOf(s)
    <3>1. InQueue(histoIn'[s], n) + msg.fills[n] = InQueue(histoIn[s], n)
      BY <1>1, <2>1, QueueTail
    <3> QED
      BY <2>1, <3>1 DEF SentBy
  <2>2. CASE n \notin NamesOf(s)
    BY <2>2 DEF SentBy
  <2> QED
    BY <2>1, <2>2
<1>9. SentBy(histoIn', n)[s] \in Nat
  <2>1. histoIn'[s] \in Seq(Messages(s))
    BY <1>1 DEF AreChannels
  <2>2. n \in NamesOf(s) => InQueue(histoIn'[s], n) \in Nat
    BY <2>1, TermsType
  <2> QED
    BY <2>2 DEF SentBy
<1>10. /\ Held(n) \in Nat /\ Sent(n) \in Nat /\ SentBy(histoIn, n)[s] \in Nat
       /\ Value(fArrayHisto[n]) \in Nat /\ owed[n] \in Int
  BY SumsAreNat
<1>11. m.refused[n] \in Nat /\ Value(m.array[n]) \in Nat
  BY MergedFields DEF Value, Contents
<1>12. owed'[n] = owed[n] - m.refused[n]
  BY <1>2
<1>13. Held(n)' = Held(n)
  BY <1>3 DEF Held
<1>14. Value(fArrayHisto[n])' = Value(m.array[n])
  BY <1>5
<1> HIDE DEF d
<1>15. Sent(n)' + d = Sent(n)
  BY <1>6, <1>7, <1>8, <1>9, <1>10
<1> QED
  BY <1>4, <1>6, <1>7, <1>10, <1>11, <1>12, <1>13, <1>14, <1>15 DEF Counted

LEMMA ConfigCounted ==
  ASSUME TypeOK, NEW s \in Senders, ReceiveHistoConfig(s) \/ ReceiveCanvasConfig(s)
  PROVE  UNCHANGED <<content, histoIn, fArrayHisto, owed>>
<1>1. CASE ReceiveHistoConfig(s)
  <2>1. /\ histoConf[s] # <<>>
        /\ SetMerged(AddHistoConfig(Merged, Head(histoConf[s])))
        /\ UNCHANGED <<content, histoIn, owed>>
    BY <1>1 DEF ReceiveHistoConfig, deviceVars
  <2>2. histoConf[s] \in Seq(Names)
    BY DEF TypeOK
  <2>3. Head(histoConf[s]) \in Names
    BY <2>1, <2>2
  <2>4. AddHistoConfig(Merged, Head(histoConf[s])).array = fArrayHisto
    BY <2>3, ServedWithName, MergedIs DEF TypeOK
  <2> QED
    BY <2>1, <2>4 DEF SetMerged
<1>2. CASE ReceiveCanvasConfig(s)
  <2>1. /\ canvasConf[s] # <<>>
        /\ SetMerged(AddCanvasConfig(Merged, Head(canvasConf[s])))
        /\ UNCHANGED <<content, histoIn, owed>>
    BY <1>2 DEF ReceiveCanvasConfig, deviceVars
  <2>2. canvasConf[s] \in Seq(CanvasConfigs)
    BY DEF TypeOK
  <2>3. Head(canvasConf[s]) \in CanvasConfigs
    BY <2>1, <2>2
  <2>4. AddCanvasConfig(Merged, Head(canvasConf[s])).array = fArrayHisto
    BY <2>3, DrawableWithCanvas, MergedIs DEF TypeOK
  <2> QED
    BY <2>1, <2>4 DEF SetMerged
<1> QED
  BY <1>1, <1>2

LEMMA InitCounted ==
  ASSUME Init, NEW n \in Names
  PROVE  Counted(n)
<1>1. \A s \in Senders : HeldBy(content, n)[s] = 0
  BY DEF Init, HeldBy
<1>2. \A s \in Senders : SentBy(histoIn, n)[s] = 0
  <2> SUFFICES ASSUME NEW s \in Senders, n \in NamesOf(s) PROVE InQueue(<<>>, n) = 0
    BY DEF Init, SentBy
  <2>1. DOMAIN <<>> = {} /\ IsFiniteSet({})
    BY FS_EmptySet
  <2> DEFINE f == [i \in DOMAIN <<>> |-> <<>>[i].fills[n]]
  <2>2. \A i \in {} : f[i] \in Nat
    OBVIOUS
  <2> HIDE DEF f
  <2>3. Sum(f, {}) = 0
    BY <2>1, <2>2, SumType
  <2> QED
    BY <2>1, <2>3 DEF InQueue, f
<1>3. IsFiniteSet(Senders)
  BY HistoServerAssumption
<1> DEFINE none == [s \in Senders |-> 0]
<1>4. Sum(none, Senders) = 0
  <2> DEFINE A == {U \in SUBSET Senders : Sum(none, U) = 0}
             pick == [U \in SUBSET Senders |-> Pick(U)]
  <2>1. {} \in A
    <3>1. Sum(none, {}) = 0
      BY FS_EmptySet, SumType
    <3> QED
      BY <3>1
  <2>2. \A U \in SUBSET Senders : U # {} => pick[U] \in U
    BY DEF Pick
  <2>3. \A U \in SUBSET Senders : U # {} /\ U \ {pick[U]} \in A => U \in A
    <3> SUFFICES ASSUME NEW U \in SUBSET Senders, U # {}, Sum(none, U \ {pick[U]}) = 0
                 PROVE  Sum(none, U) = 0
      OBVIOUS
    <3>1. IsFiniteSet(U) /\ pick[U] \in U /\ \A x \in U : none[x] = 0
      BY <1>3, <2>2, FS_Subset
    <3>2. \A x \in U : none[x] \in Nat
      BY <3>1
    <3> HIDE DEF none, pick
    <3>3. Sum(none, U) = none[pick[U]] + Sum(none, U \ {pick[U]})
      BY <3>1, <3>2, SumRest
    <3> QED
      BY <3>1, <3>3
  <2>4. \A U \in SUBSET Senders : U \in A
    <3> HIDE DEF A, pick
    <3>1. ByParts(Senders, pick, A)
      BY <1>3, <2>1, <2>2, <2>3 DEF ByParts
    <3> QED
      BY <3>1, PartInduction
  <2> QED
    BY <2>4
<1>5. Held(n) = 0 /\ Sent(n) = 0
  <2>1. \A s \in Senders : none[s] \in Nat
    OBVIOUS
  <2>2. \A s \in Senders : HeldBy(content, n)[s] = none[s] /\ SentBy(histoIn, n)[s] = none[s]
    BY <1>1, <1>2
  <2> HIDE DEF none
  <2>3. Sum(none, Senders) = Held(n) /\ Sum(none, Senders) = Sent(n)
    BY <1>3, <2>1, <2>2, SumOfTerms DEF Held, Sent
  <2> QED
    BY <1>4, <2>3
<1>6. owed[n] = 0 /\ Value(fArrayHisto[n]) = 0
  BY DEF Init, Value
<1> QED
  BY <1>5, <1>6 DEF Counted

\* What was filled is in the device, on its way or in the server, once, for any number
\* of devices and histograms, of fills, of restarts, and any length of the channels.
THEOREM FillsCountedOnce == Spec => []EveryFillCountedOnce
<1> DEFINE Count == \A n \in Names : Counted(n)
<1>1. Init => Count
  BY InitCounted
<1>2. TypeOK /\ Count /\ [Next]_vars => Count'
  <2> SUFFICES ASSUME TypeOK, Count, [Next]_vars, NEW n \in Names PROVE Counted(n)'
    OBVIOUS
  <2>1. Counted(n)
    OBVIOUS
  <2> HIDE DEF Count
  <2>2. ASSUME UNCHANGED <<content, histoIn, fArrayHisto, owed>> PROVE Counted(n)'
    BY <2>1, <2>2 DEF Counted, Held, Sent
  <2>3. ASSUME Elsewhere PROVE UNCHANGED <<content, histoIn, fArrayHisto, owed>>
    BY <2>3, ElsewhereKeeps DEF deviceVars, channels, mergedVars
  <2> QED
    BY <2>1, <2>2, <2>3, StepCases, FillCounted, PublishCounted, RestartCounted,
       ReceiveCounted, ConfigCounted
<1>3. Count => EveryFillCountedOnce
  BY CountedIsProperty
<1> HIDE DEF Count
<1> QED
  BY <1>1, <1>2, <1>3, HistoTypes, PTL DEF Spec

-----------------------------------------------------------------------------
(* What was received can be shown and saved.                               *)

Filled(m) == \A n \in FolderNames(m) : m.array[n] # NoHisto
Announced(s) == NamesOf(s) \subseteq FolderNames(Merged)

\* The data of a device come after its configuration.
ConfigFirst(s) ==
  style[s] = "combined" =>
    /\ histoConf[s] = <<>> /\ canvasConf[s] = <<>>
    /\ fbConfigSent[s] => \/ Announced(s)
                          \/ \E k \in DOMAIN histoIn[s] : histoIn[s][k].conf
    /\ \A k \in DOMAIN histoIn[s] : \/ histoIn[s][k].conf
                                    \/ Announced(s)
                                    \/ \E j \in 1 .. k - 1 : histoIn[s][j].conf

Quiet == AllCombined /\ ~clash
ServedInv ==
  Quiet => Served(Merged) /\ Filled(Merged) /\ AllReady(Merged) /\ main # "crashed"

\* The handlers of single names do not find anything in the channels of devices that
\* send their configuration with the data.
LEMMA HistoConfigEffect ==
  ASSUME TypeOK, NEW s \in Senders, ReceiveHistoConfig(s)
  PROVE  LET n == Head(histoConf[s])
             m == AddHistoConfig(Merged, n)
         IN  /\ histoConf[s] # <<>> /\ n \in Names /\ Merged \in MergedValues
             /\ m \in MergedValues /\ SetMerged(m)
             /\ m.array = Merged.array /\ m.canvases = Merged.canvases
             /\ FolderNames(m) = FolderNames(Merged) \cup {n}
             /\ \A t \in Senders : histoConf[t] = <<>> => histoConf'[t] = <<>>
             /\ UNCHANGED <<deviceVars, histoIn, canvasConf, controlVars, clash>>
<1>1. /\ histoConf[s] # <<>>
      /\ SetMerged(AddHistoConfig(Merged, Head(histoConf[s])))
      /\ histoConf' = [histoConf EXCEPT ![s] = Tail(@)]
      /\ UNCHANGED <<deviceVars, histoIn, canvasConf, controlVars, clash>>
  BY DEF ReceiveHistoConfig
<1>2. histoConf \in [Senders -> Seq(Names)] /\ Merged \in MergedValues
  BY DEF TypeOK
<1>3. Head(histoConf[s]) \in Names
  <2>1. histoConf[s] \in Seq(Names)
    BY <1>2
  <2> QED
    BY <1>1, <2>1
<1>4. \A t \in Senders : histoConf[t] = <<>> => histoConf'[t] = <<>>
  BY <1>1, <1>2
<1> QED
  BY <1>1, <1>2, <1>3, <1>4, ServedWithName

LEMMA CanvasConfigEffect ==
  ASSUME TypeOK, NEW s \in Senders, ReceiveCanvasConfig(s)
  PROVE  LET c == Head(canvasConf[s])
             m == AddCanvasConfig(Merged, c)
         IN  /\ canvasConf[s] # <<>> /\ c \in CanvasConfigs /\ Merged \in MergedValues
             /\ m \in MergedValues /\ SetMerged(m)
             /\ m.array = Merged.array /\ m.folders = Merged.folders
             /\ \A t \in Senders : canvasConf[t] = <<>> => canvasConf'[t] = <<>>
             /\ UNCHANGED <<deviceVars, histoIn, histoConf, controlVars, clash>>
<1>1. /\ canvasConf[s] # <<>>
      /\ SetMerged(AddCanvasConfig(Merged, Head(canvasConf[s])))
      /\ canvasConf' = [canvasConf EXCEPT ![s] = Tail(@)]
      /\ UNCHANGED <<deviceVars, histoIn, histoConf, controlVars, clash>>
  BY DEF ReceiveCanvasConfig
<1>2. canvasConf \in [Senders -> Seq(CanvasConfigs)] /\ Merged \in MergedValues
  BY DEF TypeOK
<1>3. Head(canvasConf[s]) \in CanvasConfigs
  <2>1. canvasConf[s] \in Seq(CanvasConfigs)
    BY <1>2
  <2> QED
    BY <1>1, <2>1
<1>4. \A t \in Senders : canvasConf[t] = <<>> => canvasConf'[t] = <<>>
  BY <1>1, <1>2
<1> QED
  BY <1>1, <1>2, <1>3, <1>4, DrawableWithCanvas

\* The server never forgets a name.
LEMMA NamesStay ==
  ASSUME TypeOK, [Next]_vars
  PROVE  FolderNames(Merged) \subseteq FolderNames(Merged')
<1>1. ASSUME NEW s \in Senders, NEW n \in Names, Fill(s, n) \/ Publish(s) \/ Restart(s)
      PROVE  Merged' = Merged
  BY <1>1, SameMerged DEF Fill, Publish, Restart
<1>2. ASSUME NEW s \in Senders, Publish(s) \/ Restart(s)
      PROVE  Merged' = Merged
  BY <1>2, SameMerged DEF Publish, Restart
<1>3. ASSUME NEW s \in Senders, ReceiveConfigAndData(s)
      PROVE  FolderNames(Merged) \subseteq FolderNames(Merged')
  <2>1. PICK m \in MergedValues :
          /\ SetMerged(m)
          /\ Head(histoIn[s]).conf => ConfigPromise(Merged, s, Head(histoIn[s]).fills, m)
          /\ ~Head(histoIn[s]).conf => DataPromise(Merged, s, Head(histoIn[s]).fills, m)
    BY <1>3, ReceiveEffect
  <2>2. FolderNames(Merged) \subseteq FolderNames(m)
    BY <2>1 DEF ConfigPromise, DataPromise
  <2>3. FolderNames(Merged') = FolderNames(m)
    BY <2>1, MergedNext DEF FolderNames
  <2> QED
    BY <2>2, <2>3
<1>4. ASSUME NEW s \in Senders, ReceiveHistoConfig(s)
      PROVE  FolderNames(Merged) \subseteq FolderNames(Merged')
  <2> DEFINE m == AddHistoConfig(Merged, Head(histoConf[s]))
  <2>1. m \in MergedValues /\ SetMerged(m) /\ FolderNames(Merged) \subseteq FolderNames(m)
    BY <1>4, HistoConfigEffect
  <2> HIDE DEF m
  <2>2. FolderNames(Merged') = FolderNames(m)
    BY <2>1, MergedNext DEF FolderNames
  <2> QED
    BY <2>1, <2>2
<1>5. ASSUME NEW s \in Senders, ReceiveCanvasConfig(s)
      PROVE  FolderNames(Merged) \subseteq FolderNames(Merged')
  <2> DEFINE m == AddCanvasConfig(Merged, Head(canvasConf[s]))
  <2>1. m \in MergedValues /\ SetMerged(m) /\ m.folders = Merged.folders
    BY <1>5, CanvasConfigEffect
  <2> HIDE DEF m
  <2>2. FolderNames(Merged') = FolderNames(Merged)
    BY <2>1, MergedNext DEF FolderNames
  <2> QED
    BY <2>2
<1>6. ASSUME Elsewhere PROVE Merged' = Merged
  BY <1>6, ElsewhereKeeps, SameMerged
<1> QED
  BY <1>1, <1>2, <1>3, <1>4, <1>5, <1>6, StepCases

LEMMA ConfigFirstInit ==
  ASSUME Init, NEW s \in Senders
  PROVE  ConfigFirst(s)
BY DEF Init, ConfigFirst

\* What a device still has to announce may change only with its own steps.
LEMMA ConfigFirstKept ==
  ASSUME TypeOK, [Next]_vars, NEW s \in Senders, ConfigFirst(s),
         style' = style, fbConfigSent'[s] => fbConfigSent[s], histoIn'[s] = histoIn[s],
         histoConf[s] = <<>> => histoConf'[s] = <<>>,
         canvasConf[s] = <<>> => canvasConf'[s] = <<>>
  PROVE  ConfigFirst(s)'
<1>1. Announced(s) => Announced(s)'
  BY NamesStay DEF Announced
<1> QED
  BY <1>1 DEF ConfigFirst

LEMMA ConfigFirstPublish ==
  ASSUME TypeOK, [Next]_vars, NEW s \in Senders, ConfigFirst(s), Publish(s)
  PROVE  ConfigFirst(s)'
<1> DEFINE first == style[s] = "combined" /\ ~fbConfigSent[s]
           e == [conf |-> first, fills |-> content[s]]
<1>1. PICK sent \in BOOLEAN :
        /\ histoIn' = IF sent THEN [histoIn EXCEPT ![s] = Append(@, e)] ELSE histoIn
        /\ fbConfigSent' = [fbConfigSent EXCEPT ![s] = @ \/ (first /\ sent)]
  BY DEF Publish
<1>2. UNCHANGED <<style, histoConf, canvasConf>>
  BY DEF Publish
<1>3. fbConfigSent'[s] = (fbConfigSent[s] \/ (first /\ sent))
  BY <1>1 DEF TypeOK
<1>4. CASE ~sent
  BY <1>1, <1>2, <1>3, <1>4, ConfigFirstKept
<1>5. CASE sent
  <2>1. first \in BOOLEAN
    OBVIOUS
  <2>2. e.conf = first
    OBVIOUS
  <2>3. e \in Messages(s)
    <3> HIDE DEF first
    <3> QED
      BY <2>1 DEF Messages, TypeOK, AreContents
  <2> HIDE DEF e
  <2>4. histoIn'[s] = Append(histoIn[s], e)
    BY <1>1, <1>5, <2>3, SendEffect
  <2>5. histoIn[s] \in Seq(Messages(s))
    BY DEF TypeOK, AreChannels
  <2> DEFINE l == Len(histoIn[s])
  <2>6. /\ l \in Nat /\ DOMAIN histoIn[s] = 1 .. l
        /\ DOMAIN histoIn'[s] = 1 .. (l + 1)
        /\ histoIn'[s][l + 1] = e
        /\ \A k \in 1 .. l : histoIn'[s][k] = histoIn[s][k]
    BY <2>3, <2>4, <2>5
  <2> SUFFICES ASSUME style[s] = "combined" PROVE ConfigFirst(s)'
    BY <1>2 DEF ConfigFirst
  <2>7. Announced(s) => Announced(s)'
    BY NamesStay DEF Announced
  <2>8. first = ~fbConfigSent[s]
    BY DEF TypeOK
  <2> HIDE DEF first, l
  <2>9. histoConf'[s] = <<>> /\ canvasConf'[s] = <<>>
    BY <1>2 DEF ConfigFirst
  <2>10. \/ Announced(s)'
         \/ \E k \in DOMAIN histoIn'[s] : histoIn'[s][k].conf
    <3>1. CASE ~fbConfigSent[s]
      <4>1. l + 1 \in 1 .. (l + 1)
        BY <2>6
      <4> QED
        BY <2>2, <2>6, <2>8, <3>1, <4>1
    <3>2. CASE fbConfigSent[s]
      <4>1. Announced(s) \/ \E k \in 1 .. l : histoIn[s][k].conf
        BY <2>6, <3>2 DEF ConfigFirst
      <4>2. \A k \in 1 .. l : k \in 1 .. (l + 1)
        BY <2>6
      <4> QED
        BY <2>6, <2>7, <4>1, <4>2
    <3> QED
      BY <3>1, <3>2
  <2>11. ASSUME NEW k \in DOMAIN histoIn'[s]
         PROVE  \/ histoIn'[s][k].conf
                \/ Announced(s)'
                \/ \E j \in 1 .. k - 1 : histoIn'[s][j].conf
    <3>1. CASE k = l + 1
      <4>1. (l + 1) - 1 = l
        BY <2>6
      <4>2. CASE ~fbConfigSent[s]
        BY <2>2, <2>6, <2>8, <3>1, <4>2
      <4>3. CASE fbConfigSent[s]
        <5>1. Announced(s) \/ \E j \in 1 .. l : histoIn[s][j].conf
          BY <2>6, <4>3 DEF ConfigFirst
        <5> QED
          BY <2>6, <2>7, <3>1, <4>1, <5>1
      <4> QED
        BY <4>2, <4>3
    <3>2. CASE k \in 1 .. l
      <4>1. \/ histoIn[s][k].conf \/ Announced(s)
            \/ \E j \in 1 .. k - 1 : histoIn[s][j].conf
        BY <2>6, <3>2 DEF ConfigFirst
      <4>2. \A j \in 1 .. k - 1 : j \in 1 .. l
        BY <2>6, <3>2
      <4> QED
        BY <2>6, <2>7, <3>2, <4>1, <4>2
    <3>3. k = l + 1 \/ k \in 1 .. l
      BY <2>6
    <3> QED
      BY <3>1, <3>2, <3>3
  <2> QED
    BY <2>9, <2>10, <2>11 DEF ConfigFirst
<1> QED
  BY <1>4, <1>5

\* After the data of a device are received its configuration is known.
LEMMA AnnouncedBefore ==
  ASSUME TypeOK, NEW s \in Senders, ConfigFirst(s), style[s] = "combined",
         histoIn[s] # <<>>, ~Head(histoIn[s]).conf
  PROVE  Announced(s)
<1>1. histoIn[s] \in Seq(Messages(s))
  BY DEF TypeOK, AreChannels
<1>2. 1 \in DOMAIN histoIn[s] /\ Head(histoIn[s]) = histoIn[s][1] /\ 1 .. 1 - 1 = {}
  BY <1>1
<1> QED
  BY <1>2 DEF ConfigFirst

LEMMA AnnouncedAfter ==
  ASSUME TypeOK, [Next]_vars, NEW s \in Senders, ConfigFirst(s), style[s] = "combined",
         ReceiveConfigAndData(s)
  PROVE  Announced(s)'
<1>1. histoIn[s] # <<>>
  BY ReceiveEffect
<1>2. CASE ~Head(histoIn[s]).conf
  BY <1>1, <1>2, AnnouncedBefore, NamesStay DEF Announced
<1>3. CASE Head(histoIn[s]).conf
  <2>1. PICK m \in MergedValues :
          SetMerged(m) /\ ConfigPromise(Merged, s, Head(histoIn[s]).fills, m)
    BY <1>3, ReceiveEffect
  <2>2. NamesOf(s) \subseteq FolderNames(m)
    BY <2>1 DEF ConfigPromise
  <2>3. FolderNames(Merged') = FolderNames(m)
    BY <2>1, MergedNext DEF FolderNames
  <2> QED
    BY <2>2, <2>3 DEF Announced
<1> QED
  BY <1>2, <1>3

LEMMA ConfigFirstStep ==
  ASSUME TypeOK, [Next]_vars, NEW s \in Senders, ConfigFirst(s)
  PROVE  ConfigFirst(s)'
<1>1. ASSUME NEW t \in Senders, NEW n \in Names, Fill(t, n) PROVE ConfigFirst(s)'
  <2>1. UNCHANGED <<style, fbConfigSent, channels>>
    BY <1>1 DEF Fill
  <2> QED
    BY <2>1, ConfigFirstKept DEF channels
<1>2. ASSUME NEW t \in Senders, Publish(t) PROVE ConfigFirst(s)'
  <2>1. CASE t = s
    BY <1>2, <2>1, ConfigFirstPublish
  <2>2. CASE t # s
    <3>1. UNCHANGED <<style, histoConf, canvasConf>>
      BY <1>2 DEF Publish
    <3>2. \E a, b : /\ histoIn' = histoIn \/ histoIn' = [histoIn EXCEPT ![t] = a]
                    /\ fbConfigSent' = [fbConfigSent EXCEPT ![t] = b]
      BY <1>2 DEF Publish
    <3>3. histoIn'[s] = histoIn[s] /\ fbConfigSent'[s] = fbConfigSent[s]
      BY <2>2, <3>2 DEF TypeOK, AreChannels
    <3> QED
      BY <3>1, <3>3, ConfigFirstKept
  <2> QED
    BY <2>1, <2>2
<1>3. ASSUME NEW t \in Senders, Restart(t) PROVE ConfigFirst(s)'
  <2>1. /\ fbConfigSent' = [fbConfigSent EXCEPT ![t] = FALSE]
        /\ UNCHANGED <<style, channels>>
    BY <1>3 DEF Restart
  <2>2. fbConfigSent'[s] => fbConfigSent[s]
    BY <2>1 DEF TypeOK
  <2> QED
    BY <2>1, <2>2, ConfigFirstKept DEF channels
<1>4. ASSUME NEW t \in Senders, ReceiveConfigAndData(t) PROVE ConfigFirst(s)'
  <2>1. UNCHANGED <<style, fbConfigSent, histoConf, canvasConf>>
    BY <1>4 DEF ReceiveConfigAndData, deviceVars
  <2>2. CASE t = s
    <3>1. style[s] = "combined" => Announced(s)'
      BY <1>4, <2>2, AnnouncedAfter
    <3> QED
      BY <2>1, <3>1 DEF ConfigFirst
  <2>3. CASE t # s
    <3>1. histoIn'[s] = histoIn[s]
      BY <1>4, <2>3, ReceiveEffect
    <3> QED
      BY <2>1, <3>1, ConfigFirstKept
  <2> QED
    BY <2>2, <2>3
<1>5. ASSUME NEW t \in Senders, ReceiveHistoConfig(t) PROVE ConfigFirst(s)'
  <2>1. /\ histoConf[s] = <<>> => histoConf'[s] = <<>>
        /\ UNCHANGED <<style, fbConfigSent, histoIn, canvasConf>>
    BY <1>5, HistoConfigEffect DEF deviceVars
  <2> QED
    BY <2>1, ConfigFirstKept
<1>6. ASSUME NEW t \in Senders, ReceiveCanvasConfig(t) PROVE ConfigFirst(s)'
  <2>1. /\ canvasConf[s] = <<>> => canvasConf'[s] = <<>>
        /\ UNCHANGED <<style, fbConfigSent, histoIn, histoConf>>
    BY <1>6, CanvasConfigEffect DEF deviceVars
  <2> QED
    BY <2>1, ConfigFirstKept
<1>7. ASSUME Elsewhere PROVE ConfigFirst(s)'
  <2>1. UNCHANGED <<style, fbConfigSent, histoIn, histoConf, canvasConf>>
    BY <1>7, ElsewhereKeeps DEF deviceVars, channels
  <2> QED
    BY <2>1, ConfigFirstKept
<1> QED
  BY <1>1, <1>2, <1>3, <1>4, <1>5, <1>6, <1>7, StepCases

\* Nothing is saved that is not there.
LEMMA SavesWhatIsThere ==
  ASSUME TypeOK, Served(Merged), Filled(Merged), AllReady(Merged), NEW next,
         SaveHistograms(next)
  PROVE  main' = next
<1>1. \A u \in DOMAIN fvpsHistosFolder : fvpsHistosFolder[u].registered
  <2> SUFFICES ASSUME NEW u \in DOMAIN Merged.folders PROVE Merged.folders[u].registered
    BY MergedIs
  <2>1. Merged.folders[u].name \in FolderNames(Merged)
    BY DEF FolderNames
  <2>2. Merged.array[Merged.folders[u].name] # NoHisto
    BY <2>1 DEF Filled
  <2> QED
    BY <2>2 DEF Served
<1>2. \A v \in DOMAIN fvpsCanvasConfig : fvpsCanvasConfig[v].ready
  BY MergedIs DEF AllReady
<1> QED
  BY <1>1, <1>2 DEF SaveHistograms

LEMMA ServedReceive ==
  ASSUME TypeOK, NEW s \in Senders, ConfigFirst(s), ReceiveConfigAndData(s), ServedInv
  PROVE  ServedInv'
<1> DEFINE msg == Head(histoIn[s])
<1>1. /\ histoIn[s] # <<>> /\ msg \in Messages(s)
  BY ReceiveEffect
<1>2. PICK m \in MergedValues :
        /\ SetMerged(m)
        /\ msg.conf => ConfigPromise(Merged, s, msg.fills, m)
        /\ ~msg.conf => DataPromise(Merged, s, msg.fills, m)
        /\ main' = IF m.ok \/ msg.conf THEN main ELSE "leaving"
        /\ clash' = (clash \/ ~m.ok \/ \E n \in Names : m.refused[n] # 0)
  BY ReceiveEffect
<1>3. style' = style
  BY DEF ReceiveConfigAndData, deviceVars
<1> SUFFICES ASSUME Quiet'
             PROVE  /\ Served(Merged') /\ Filled(Merged') /\ AllReady(Merged')
                    /\ main' # "crashed"
  BY DEF ServedInv
<1>4. AllCombined /\ ~clash /\ m.ok
  BY <1>2, <1>3, MergedFields DEF Quiet, AllCombined
<1>5. Served(Merged) /\ Filled(Merged) /\ AllReady(Merged) /\ main # "crashed"
  BY <1>4 DEF ServedInv, Quiet
<1>6. msg.conf \in BOOLEAN
  BY <1>1 DEF Messages
<1> HIDE DEF msg
<1>7. /\ Served(m) /\ AllReady(m)
      /\ FolderNames(m) \subseteq FolderNames(Merged) \cup NamesOf(s)
      /\ \A n \in Names : Merged.array[n] # NoHisto => m.array[n] # NoHisto
      /\ \A n \in NamesOf(s) : m.array[n] # NoHisto
  <2>1. CASE msg.conf
    BY <1>2, <1>4, <1>5, <2>1 DEF ConfigPromise
  <2>2. CASE ~msg.conf
    <3>1. NamesOf(s) \subseteq FolderNames(Merged)
      BY <1>1, <1>4, <2>2, AnnouncedBefore DEF Announced, AllCombined, msg
    <3>2. Drawable(Merged, NamesOf(s))
      BY <1>5 DEF AllReady, Drawable
    <3> QED
      BY <1>2, <1>4, <1>5, <2>2, <3>1, <3>2 DEF DataPromise
  <2> QED
    BY <1>6, <2>1, <2>2
<1>8. FolderNames(Merged) \subseteq Names
  <2>1. Merged.folders \in Seq(Folders)
    BY MergedFields DEF TypeOK
  <2>2. \A u \in DOMAIN Merged.folders : Merged.folders[u] \in Folders
    BY <2>1
  <2> QED
    BY <2>2 DEF FolderNames, Folders
<1>9. Filled(m)
  BY <1>5, <1>7, <1>8 DEF Filled
<1>10. /\ Merged'.array = m.array /\ Merged'.folders = m.folders
       /\ Merged'.allReg = m.allReg /\ Merged'.canvases = m.canvases
  BY <1>2, MergedNext
<1>11. FolderNames(Merged') = FolderNames(m)
  BY <1>10 DEF FolderNames
<1>12. Served(Merged')
  BY <1>7, <1>10, <1>11 DEF Served, RegisteredIfSaid
<1>13. Filled(Merged')
  BY <1>9, <1>10, <1>11 DEF Filled
<1>14. AllReady(Merged')
  BY <1>7, <1>10 DEF AllReady
<1>15. main' # "crashed"
  BY <1>2, <1>4, <1>5
<1> QED
  BY <1>12, <1>13, <1>14, <1>15

LEMMA ServedElsewhere ==
  ASSUME TypeOK, Elsewhere, ServedInv
  PROVE  ServedInv'
<1>1. UNCHANGED <<style, clash>> /\ Merged' = Merged
  BY ElsewhereKeeps, SameMerged DEF deviceVars
<1> SUFFICES ASSUME Quiet PROVE main' # "crashed"
  BY <1>1 DEF ServedInv, Quiet, AllCombined
<1>2. Served(Merged) /\ Filled(Merged) /\ AllReady(Merged) /\ main # "crashed"
  BY DEF ServedInv
<1>3. CASE PreRun
  BY <1>3 DEF PreRun
<1>4. CASE PostRunSave
  <2>1. SaveHistograms("saved")
    BY <1>4 DEF PostRunSave
  <2>2. main' = "saved"
    BY <1>2, <2>1, SavesWhatIsThere
  <2> QED
    BY <2>2
<1>5. CASE PostRunStop
  BY <1>5 DEF PostRunStop
<1>6. CASE PostRunJoin
  <2>1. SaveHistograms("idle")
    BY <1>6 DEF PostRunJoin
  <2>2. main' = "idle"
    BY <1>2, <2>1, SavesWhatIsThere
  <2> QED
    BY <2>2
<1>7. CASE UpdateHttpServer
  BY <1>2, <1>7 DEF UpdateHttpServer, HttpCheckStop, HttpLock, HttpServed, httpUnchanged
<1>8. CASE UNCHANGED vars
  BY <1>2, <1>8 DEF vars, controlVars
<1> QED
  BY <1>3, <1>4, <1>5, <1>6, <1>7, <1>8 DEF Elsewhere, PostRun

LEMMA ServedStep ==
  ASSUME TypeOK, [Next]_vars, \A s \in Senders : ConfigFirst(s), ServedInv
  PROVE  ServedInv'
<1>1. ASSUME NEW s \in Senders, NEW n \in Names, Fill(s, n) PROVE ServedInv'
  <2>1. UNCHANGED <<style, mergedVars, controlVars, clash>>
    BY <1>1 DEF Fill
  <2> QED
    BY <2>1, SameMerged DEF ServedInv, Quiet, AllCombined, controlVars
<1>2. ASSUME NEW s \in Senders, Publish(s) PROVE ServedInv'
  <2>1. UNCHANGED <<style, mergedVars, controlVars, clash>>
    BY <1>2 DEF Publish
  <2> QED
    BY <2>1, SameMerged DEF ServedInv, Quiet, AllCombined, controlVars
<1>3. ASSUME NEW s \in Senders, Restart(s) PROVE ServedInv'
  <2>1. UNCHANGED <<style, mergedVars, controlVars, clash>>
    BY <1>3 DEF Restart
  <2> QED
    BY <2>1, SameMerged DEF ServedInv, Quiet, AllCombined, controlVars
<1>4. ASSUME NEW s \in Senders, ReceiveConfigAndData(s) PROVE ServedInv'
  BY <1>4, ServedReceive
<1>5. ASSUME NEW s \in Senders, ReceiveHistoConfig(s) PROVE ServedInv'
  <2>1. histoConf[s] # <<>> /\ UNCHANGED style
    BY <1>5, HistoConfigEffect DEF deviceVars
  <2> QED
    BY <2>1 DEF ConfigFirst, ServedInv, Quiet, AllCombined
<1>6. ASSUME NEW s \in Senders, ReceiveCanvasConfig(s) PROVE ServedInv'
  <2>1. canvasConf[s] # <<>> /\ UNCHANGED style
    BY <1>6, CanvasConfigEffect DEF deviceVars
  <2> QED
    BY <2>1 DEF ConfigFirst, ServedInv, Quiet, AllCombined
<1>7. ASSUME Elsewhere PROVE ServedInv'
  BY <1>7, ServedElsewhere
<1> QED
  BY <1>1, <1>2, <1>3, <1>4, <1>5, <1>6, <1>7, StepCases

LEMMA ServedIsProperty ==
  ASSUME TypeOK, ServedInv
  PROVE  ReceivedIsServed
<1> SUFFICES ASSUME AllCombined, ~clash
             PROVE  /\ \A n \in Names : fArrayHisto[n] # NoHisto =>
                         \E u \in DOMAIN fvpsHistosFolder :
                           fvpsHistosFolder[u].name = n /\ fvpsHistosFolder[u].registered
                    /\ \A v \in DOMAIN fvpsCanvasConfig : fvpsCanvasConfig[v].ready
                    /\ main # "crashed"
  BY DEF ReceivedIsServed
<1>1. Served(Merged) /\ AllReady(Merged) /\ main # "crashed"
  BY DEF ServedInv, Quiet
<1>2. ASSUME NEW n \in Names, Merged.array[n] # NoHisto
      PROVE  \E u \in DOMAIN Merged.folders :
               Merged.folders[u].name = n /\ Merged.folders[u].registered
  <2>1. n \in FolderNames(Merged)
    BY <1>1, <1>2 DEF Served
  <2>2. PICK u \in DOMAIN Merged.folders : Merged.folders[u].name = n
    BY <2>1 DEF FolderNames
  <2> QED
    BY <1>1, <1>2, <2>2 DEF Served
<1> QED
  BY <1>1, <1>2, MergedIs DEF AllReady

\* With configurations in front of the data and classes that agree, every histogram
\* that was received is registered, every canvas prepared, and nothing is saved that
\* is not there.
THEOREM ReceivedCanBeShown == Spec => []ReceivedIsServed
<1> DEFINE First == \A s \in Senders : ConfigFirst(s)
<1>1. Init => First /\ ServedInv
  <2> SUFFICES ASSUME Init PROVE First /\ ServedInv
    OBVIOUS
  <2>1. First
    BY ConfigFirstInit
  <2>2. /\ Merged.folders = <<>> /\ Merged.canvases = <<>> /\ Merged.allReg = FALSE
        /\ \A n \in Names : Merged.array[n] = NoHisto
        /\ main = "idle"
    BY MergedIs DEF Init
  <2>3. FolderNames(Merged) = {}
    BY <2>2 DEF FolderNames
  <2> QED
    BY <2>1, <2>2, <2>3 DEF ServedInv, Served, RegisteredIfSaid, Filled, AllReady
<1>2. TypeOK /\ First /\ ServedInv /\ [Next]_vars => First' /\ ServedInv'
  BY ConfigFirstStep, ServedStep
<1>3. TypeOK /\ ServedInv => ReceivedIsServed
  BY ServedIsProperty
<1> HIDE DEF First
<1> QED
  BY <1>1, <1>2, <1>3, HistoTypes, PTL DEF Spec

-----------------------------------------------------------------------------
(* The HTTP thread and the handlers.                                       *)

Serving == http = "serving" => mtx = "http"

LEMMA ShownKeptByHistoConfig ==
  ASSUME TypeOK, NEW s \in Senders, ReceiveHistoConfig(s)
  PROVE  Shown' = Shown
<1> DEFINE n == Head(histoConf[s])
           m == AddHistoConfig(Merged, n)
<1>1. /\ n \in Names /\ Merged \in MergedValues /\ m \in MergedValues /\ SetMerged(m)
      /\ m.array = Merged.array /\ m.canvases = Merged.canvases
  BY HistoConfigEffect
<1>2. CASE \E u \in DOMAIN Merged.folders : Merged.folders[u].name = n
  <2>1. m = Merged
    BY <1>2 DEF AddHistoConfig
  <2> QED
    BY <1>1, <2>1, MergedIs DEF SetMerged, Shown
<1>3. CASE ~\E u \in DOMAIN Merged.folders : Merged.folders[u].name = n
  <2> DEFINE e == [name |-> n, registered |-> FALSE]
             f == Merged.folders
             g == m.folders
             l == Len(f)
  <2>1. g = Append(f, e)
    BY <1>1, <1>3, AddHistoConfigEffect
  <2>2. e.registered = FALSE
    OBVIOUS
  <2>3. f \in Seq(Folders)
    BY <1>1, MergedFields
  <2> HIDE DEF e, f, g, m
  <2>4. /\ l \in Nat /\ DOMAIN f = 1 .. l /\ DOMAIN g = 1 .. (l + 1) /\ g[l + 1] = e
        /\ \A u \in 1 .. l : g[u] = f[u]
    BY <2>1, <2>3
  <2>5. \A u : u \in 1 .. (l + 1) <=> (u \in 1 .. l \/ u = l + 1)
    BY <2>4
  <2>6. {u \in DOMAIN g : g[u].registered} = {u \in DOMAIN f : f[u].registered}
    BY <2>2, <2>4, <2>5
  <2> QED
    BY <1>1, <2>6, MergedIs DEF SetMerged, Shown, f, g
<1> QED
  BY <1>2, <1>3

LEMMA ShownKeptByCanvasConfig ==
  ASSUME TypeOK, NEW s \in Senders, ReceiveCanvasConfig(s)
  PROVE  Shown' = Shown
<1> DEFINE c == Head(canvasConf[s])
           m == AddCanvasConfig(Merged, c)
<1>1. /\ c \in CanvasConfigs /\ Merged \in MergedValues /\ m \in MergedValues /\ SetMerged(m)
      /\ m.array = Merged.array /\ m.folders = Merged.folders
  BY CanvasConfigEffect
<1>2. CASE \E u \in DOMAIN Merged.canvases : Merged.canvases[u].name = c.name
  <2>1. m = Merged
    BY <1>2 DEF AddCanvasConfig
  <2> QED
    BY <1>1, <2>1, MergedIs DEF SetMerged, Shown
<1>3. CASE ~\E u \in DOMAIN Merged.canvases : Merged.canvases[u].name = c.name
  <2> DEFINE e == [name |-> c.name, objs |-> c.objs, ready |-> FALSE]
             f == Merged.canvases
             g == m.canvases
             l == Len(f)
  <2>1. g = Append(f, e)
    BY <1>1, <1>3, AddCanvasConfigEffect
  <2>2. e.ready = FALSE
    OBVIOUS
  <2>3. f \in Seq(PreparedCanvases)
    BY <1>1, MergedFields
  <2> HIDE DEF e, f, g, m
  <2>4. /\ l \in Nat /\ DOMAIN f = 1 .. l /\ DOMAIN g = 1 .. (l + 1) /\ g[l + 1] = e
        /\ \A u \in 1 .. l : g[u] = f[u]
    BY <2>1, <2>3
  <2>5. \A u : u \in 1 .. (l + 1) <=> (u \in 1 .. l \/ u = l + 1)
    BY <2>4
  <2>6. {u \in DOMAIN g : g[u].ready} = {u \in DOMAIN f : f[u].ready}
    BY <2>2, <2>4, <2>5
  <2> QED
    BY <1>1, <2>6, MergedIs DEF SetMerged, Shown, f, g
<1> QED
  BY <1>2, <1>3

\* While the HTTP thread answers requests, what it shows stays as it is: the handlers
\* of data wait for the mutex, those of configurations only add what is not shown.
THEOREM ShownStays == Spec => ShownIsStable
<1>1. Init => Serving
  BY DEF Init, Serving
<1>2. Serving /\ [Next]_vars => Serving'
  <2> SUFFICES ASSUME Serving, [Next]_vars PROVE Serving'
    OBVIOUS
  <2> USE DEF Serving
  <2>1. ASSUME NEW s \in Senders, NEW n \in Names, Fill(s, n) PROVE Serving'
    BY <2>1 DEF Fill, controlVars
  <2>2. ASSUME NEW s \in Senders, Publish(s) \/ Restart(s) PROVE Serving'
    BY <2>2 DEF Publish, Restart, controlVars
  <2>3. ASSUME NEW s \in Senders,
               ReceiveConfigAndData(s) \/ ReceiveHistoConfig(s) \/ ReceiveCanvasConfig(s)
        PROVE  Serving'
    BY <2>3 DEF ReceiveConfigAndData, ReceiveHistoConfig, ReceiveCanvasConfig, controlVars
  <2>4. CASE PreRun
    BY <2>4 DEF PreRun
  <2>5. CASE PostRun
    BY <2>5 DEF PostRun, PostRunSave, PostRunStop, PostRunJoin
  <2>6. CASE UpdateHttpServer
    BY <2>6 DEF UpdateHttpServer, HttpCheckStop, HttpLock, HttpServed, httpUnchanged
  <2>7. CASE UNCHANGED vars
    BY <2>7 DEF vars, controlVars
  <2> QED
    BY <2>1, <2>2, <2>3, <2>4, <2>5, <2>6, <2>7, StepCases DEF Elsewhere
<1>3. TypeOK /\ Serving /\ [Next]_vars => [http = "serving" => Shown' = Shown]_vars
  <2> SUFFICES ASSUME TypeOK, Serving, [Next]_vars, http = "serving" PROVE Shown' = Shown
    OBVIOUS
  <2>1. ASSUME UNCHANGED mergedVars PROVE Shown' = Shown
    BY <2>1 DEF mergedVars, Shown
  <2>2. ASSUME NEW s \in Senders, NEW n \in Names, Fill(s, n) PROVE UNCHANGED mergedVars
    BY <2>2 DEF Fill
  <2>3. ASSUME NEW s \in Senders, Publish(s) \/ Restart(s) PROVE UNCHANGED mergedVars
    BY <2>3 DEF Publish, Restart
  <2>4. ASSUME NEW s \in Senders, ReceiveConfigAndData(s) PROVE FALSE
    BY <2>4 DEF Serving, ReceiveConfigAndData, CanLock
  <2>5. ASSUME Elsewhere PROVE UNCHANGED mergedVars
    BY <2>5, ElsewhereKeeps
  <2> QED
    BY <2>1, <2>2, <2>3, <2>4, <2>5, StepCases, ShownKeptByHistoConfig, ShownKeptByCanvasConfig
<1> QED
  BY <1>1, <1>2, <1>3, HistoTypes, PTL DEF Spec, ShownIsStable
=============================================================================
