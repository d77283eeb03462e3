--------------------------- MODULE PrizePoolProofs ---------------------------
(***************************************************************************)
(* What the contract guarantees for any strategies, accounts, horizon and  *)
(* amounts: its types, that an unsettled pool is its own contributions     *)
(* plus what it inherited (so `_rest' never underflows), that money is     *)
(* carried once, that a settled week is final, that the balance is what    *)
(* the books say and covers every claim, and that the contract implements  *)
(* what the indexer shows of it.                                           *)
(***************************************************************************)
EXTENDS PrizePool, FiniteSetTheorems, WellFoundedInduction, TLAPS

-----------------------------------------------------------------------------
(* Sums over finite sets.  The fold behind Total is a function defined by  *)
(* recursion over the parts of its domain; that it exists, and that the    *)
(* order of its terms does not matter, is by induction over their number.  *)

(* The element a fold takes out of s first.                                *)
Chosen(s) == CHOOSE x \in s : TRUE

(* g sums f over every part of the set D, as the fold of Total does.       *)
Sums(f, D, g) ==
    g = [s \in SUBSET D |-> IF s = {} THEN 0 ELSE f[Chosen(s)] + g[s \ {Chosen(s)}]]

(* What Total unfolds to.                                                  *)
LEMMA TotalIsSums == ASSUME NEW f PROVE Total(f) = (CHOOSE g : Sums(f, DOMAIN f, g))[DOMAIN f]
BY DEF Total, MapThenSumSet, MapThenFoldSet, Sums, Chosen

(* Something is taken out as long as there is something.                   *)
LEMMA ChosenIsIn == ASSUME NEW s, s # {} PROVE Chosen(s) \in s
BY DEF Chosen

(* Induction over the natural numbers, for a set instead of a predicate. *)
LEMMA Induct ==
    ASSUME NEW N, 0 \in N, \A n \in Nat : n \in N => n + 1 \in N
    PROVE  \A n \in Nat : n \in N
<1> SUFFICES ASSUME Nat \ N # {} PROVE FALSE
  OBVIOUS
<1>1. IsWellFoundedOn(OpToRel(<, Nat), Nat)
  BY NatLessThanWellFounded
<1>2. PICK m \in Nat \ N : \A y \in Nat \ N : ~ (<<y, m>> \in OpToRel(<, Nat))
  BY <1>1, WFMin
<1>3. \A y \in Nat \ N : ~ (y < m)
  BY <1>2 DEF OpToRel
<1>4. m - 1 \in Nat
  OBVIOUS
<1>5. m - 1 \in N
  BY <1>3, <1>4
<1>6. (m - 1) + 1 = m
  OBVIOUS
<1>7. m \in N
  BY <1>4, <1>5, <1>6
<1> QED BY <1>7

(* The parts of D with no more than n elements. *)
UpTo(D, n) == {s \in SUBSET D : Cardinality(s) <= n}

(* A part of D without one of its elements is a smaller part.              *)
LEMMA OneFewer ==
    ASSUME NEW D, IsFiniteSet(D), NEW s \in SUBSET D, NEW x \in s
    PROVE  /\ s \ {x} \in SUBSET D
           /\ Cardinality(s) \in Nat
           /\ Cardinality(s \ {x}) \in Nat
           /\ Cardinality(s \ {x}) = Cardinality(s) - 1
<1>1. IsFiniteSet(s)
  BY FS_Subset
<1>2. Cardinality(s) \in Nat
  BY <1>1, FS_CardinalityType
<1>3. IsFiniteSet(s \ {x}) /\ Cardinality(s \ {x}) = Cardinality(s) - 1
  BY <1>1, FS_RemoveElement
<1>4. Cardinality(s \ {x}) \in Nat
  BY <1>3, FS_CardinalityType
<1> QED BY <1>2, <1>3, <1>4

(* g sums f over the parts of D with no more than n elements.              *)
SumsUpTo(f, D, n, g) ==
    g = [s \in UpTo(D, n) |-> IF s = {} THEN 0 ELSE f[Chosen(s)] + g[s \ {Chosen(s)}]]

(* Such a function exists: from the parts of n elements to those of n + 1, *)
(* by the same formula.                                                    *)
LEMMA SumsExist ==
    ASSUME NEW f, NEW D, IsFiniteSet(D)
    PROVE  \E g : Sums(f, D, g)
<1> DEFINE N == {n \in Nat : \E g : SumsUpTo(f, D, n, g)}
<1>0. \A s \in SUBSET D : IsFiniteSet(s) /\ Cardinality(s) \in Nat /\ Cardinality(s) <= Cardinality(D)
  BY FS_Subset, FS_CardinalityType
<1>1. 0 \in N
  <2> DEFINE g == [s \in UpTo(D, 0) |-> 0]
  <2>1. \A s \in UpTo(D, 0) : s = {}
    BY <1>0, FS_EmptySet DEF UpTo
  <2>2. SumsUpTo(f, D, 0, g)
    BY <2>1 DEF SumsUpTo
  <2> QED BY <2>2
<1>2. \A n \in Nat : n \in N => n + 1 \in N
  <2> SUFFICES ASSUME NEW n \in Nat, n \in N PROVE n + 1 \in N
    OBVIOUS
  <2>1. PICK g : SumsUpTo(f, D, n, g)
    OBVIOUS
  <2> DEFINE h == [s \in UpTo(D, n + 1) |-> IF s = {} THEN 0 ELSE f[Chosen(s)] + g[s \ {Chosen(s)}]]
  <2>2. ASSUME NEW s \in UpTo(D, n + 1), s # {}
        PROVE  s \ {Chosen(s)} \in UpTo(D, n)
    <3>1. Chosen(s) \in s
      BY <2>2, ChosenIsIn
    <3>2. s \in SUBSET D /\ Cardinality(s) <= n + 1
      BY DEF UpTo
    <3>3. Cardinality(s \ {Chosen(s)}) <= n /\ s \ {Chosen(s)} \in SUBSET D
      BY <3>1, <3>2, OneFewer
    <3> QED BY <3>3 DEF UpTo
  <2>3. ASSUME NEW s \in UpTo(D, n) PROVE h[s] = g[s]
    <3>1. s \in UpTo(D, n + 1)
      BY <1>0 DEF UpTo
    <3>2. g[s] = IF s = {} THEN 0 ELSE f[Chosen(s)] + g[s \ {Chosen(s)}]
      BY <2>1 DEF SumsUpTo
    <3>3. h[s] = IF s = {} THEN 0 ELSE f[Chosen(s)] + g[s \ {Chosen(s)}]
      BY <3>1
    <3> QED BY <3>2, <3>3
  <2>4. \A s \in UpTo(D, n + 1) : s # {} => h[s \ {Chosen(s)}] = g[s \ {Chosen(s)}]
    BY <2>2, <2>3
  <2>5. h = [s \in UpTo(D, n + 1) |-> IF s = {} THEN 0 ELSE f[Chosen(s)] + h[s \ {Chosen(s)}]]
    <3> HIDE DEF h
    <3> SUFFICES [s \in UpTo(D, n + 1) |-> IF s = {} THEN 0 ELSE f[Chosen(s)] + g[s \ {Chosen(s)}]]
            = [s \in UpTo(D, n + 1) |-> IF s = {} THEN 0 ELSE f[Chosen(s)] + h[s \ {Chosen(s)}]]
      BY DEF h
    <3> QED BY <2>4
  <2>6. SumsUpTo(f, D, n + 1, h)
    <3> HIDE DEF h
    <3> QED BY <2>5 DEF SumsUpTo
  <2> QED BY <2>6
<1>3. \A n \in Nat : n \in N
  <2> HIDE DEF N
  <2> QED BY <1>1, <1>2, Induct
<1>4. Cardinality(D) \in Nat
  BY FS_CardinalityType
<1>5. PICK g : SumsUpTo(f, D, Cardinality(D), g)
  BY <1>3, <1>4
<1>6. UpTo(D, Cardinality(D)) = SUBSET D
  BY <1>0 DEF UpTo
<1> QED BY <1>5, <1>6 DEF Sums, SumsUpTo

(* A total is what one such function says of the whole domain.             *)
LEMMA TotalSums ==
    ASSUME NEW f, IsFiniteSet(DOMAIN f)
    PROVE  \E g : Sums(f, DOMAIN f, g) /\ Total(f) = g[DOMAIN f]
<1>1. Sums(f, DOMAIN f, CHOOSE g : Sums(f, DOMAIN f, g))
  BY SumsExist
<1> QED BY <1>1, TotalIsSums
(* A part of D is found one element at a time. *)
LEMMA PartByPart ==
    ASSUME NEW D, IsFiniteSet(D), NEW P,
           {} \in P,
           \A s \in SUBSET D : s # {} /\ (\A x \in s : s \ {x} \in P) => s \in P
    PROVE  \A s \in SUBSET D : s \in P
<1> DEFINE N == {n \in Nat : UpTo(D, n) \subseteq P}
<1>0. \A s \in SUBSET D : IsFiniteSet(s) /\ Cardinality(s) \in Nat
  BY FS_Subset, FS_CardinalityType
<1>1. 0 \in N
  <2>1. \A s \in UpTo(D, 0) : s = {}
    BY <1>0, FS_EmptySet DEF UpTo
  <2> QED BY <2>1
<1>2. \A n \in Nat : n \in N => n + 1 \in N
  <2> SUFFICES ASSUME NEW n \in Nat, n \in N, NEW s \in UpTo(D, n + 1) PROVE s \in P
    OBVIOUS
  <2>1. s \in SUBSET D /\ Cardinality(s) <= n + 1
    BY DEF UpTo
  <2>2. ASSUME NEW x \in s PROVE s \ {x} \in P
    <3>1. Cardinality(s \ {x}) <= n /\ s \ {x} \in SUBSET D
      BY <2>1, OneFewer
    <3>2. s \ {x} \in UpTo(D, n)
      BY <3>1 DEF UpTo
    <3> QED BY <3>2
  <2> QED BY <2>1, <2>2
<1>3. \A n \in Nat : n \in N
  <2> HIDE DEF N
  <2> QED BY <1>1, <1>2, Induct
<1> SUFFICES ASSUME NEW s \in SUBSET D PROVE s \in P
  OBVIOUS
<1>4. s \in UpTo(D, Cardinality(s))
  BY <1>0 DEF UpTo
<1> QED BY <1>0, <1>3, <1>4

(* Sums of the same terms are the same. *)
LEMMA SumsAgree ==
    ASSUME NEW f, NEW D, NEW g, NEW e, NEW C, NEW h, IsFiniteSet(D), C \subseteq D,
           Sums(f, D, g), Sums(e, C, h), \A x \in C : e[x] = f[x]
    PROVE  g[C] = h[C]
<1> DEFINE P == {s \in SUBSET C : g[s] = h[s]}
<1>0. IsFiniteSet(C)
  BY FS_Subset
<1>1. {} \in P
  BY DEF Sums
<1>2. ASSUME NEW s \in SUBSET C, s # {}, \A x \in s : s \ {x} \in P
      PROVE  s \in P
  <2>1. Chosen(s) \in s
    BY <1>2, ChosenIsIn
  <2>2. g[s] = f[Chosen(s)] + g[s \ {Chosen(s)}]
    BY <1>2 DEF Sums
  <2>3. h[s] = e[Chosen(s)] + h[s \ {Chosen(s)}]
    BY <1>2 DEF Sums
  <2>4. g[s \ {Chosen(s)}] = h[s \ {Chosen(s)}]
    BY <1>2, <2>1
  <2>5. f[Chosen(s)] = e[Chosen(s)]
    BY <2>1
  <2>6. g[s] = h[s]
    BY <2>2, <2>3, <2>4, <2>5
  <2> QED BY <2>6
<1>3. \A s \in SUBSET C : s \in P
  <2> HIDE DEF P
  <2> QED BY <1>0, <1>1, <1>2, PartByPart
<1> QED BY <1>3

(* A sum of integers is an integer. *)
LEMMA SumsType ==
    ASSUME NEW f, NEW D, NEW g, IsFiniteSet(D), Sums(f, D, g), \A x \in D : f[x] \in Int
    PROVE  \A s \in SUBSET D : g[s] \in Int
<1> DEFINE P == {s \in SUBSET D : g[s] \in Int}
<1>1. {} \in P
  BY DEF Sums
<1>2. ASSUME NEW s \in SUBSET D, s # {}, \A x \in s : s \ {x} \in P
      PROVE  s \in P
  <2>1. Chosen(s) \in s
    BY <1>2, ChosenIsIn
  <2>2. g[s] = f[Chosen(s)] + g[s \ {Chosen(s)}]
    BY <1>2 DEF Sums
  <2>3. g[s \ {Chosen(s)}] \in Int /\ f[Chosen(s)] \in Int
    BY <1>2, <2>1
  <2> QED BY <2>2, <2>3
<1>3. \A s \in SUBSET D : s \in P
  <2> HIDE DEF P
  <2> QED BY <1>1, <1>2, PartByPart
<1> QED BY <1>3

(* The order of the terms does not matter. *)
LEMMA SumsRemove ==
    ASSUME NEW f, NEW D, NEW g, IsFiniteSet(D), Sums(f, D, g), \A x \in D : f[x] \in Int
    PROVE  \A s \in SUBSET D : \A x \in s : g[s] = f[x] + g[s \ {x}]
<1> DEFINE P == {s \in SUBSET D : \A x \in s : g[s] = f[x] + g[s \ {x}]}
<1>1. {} \in P
  OBVIOUS
<1>2. ASSUME NEW s \in SUBSET D, s # {}, \A x \in s : s \ {x} \in P
      PROVE  s \in P
  <2> DEFINE c == Chosen(s)
  <2>1. c \in s
    BY <1>2, ChosenIsIn
  <2>2. g[s] = f[c] + g[s \ {c}]
    BY <1>2 DEF Sums
  <2> HIDE DEF c
  <2>3. ASSUME NEW x \in s, x # c PROVE g[s] = f[x] + g[s \ {x}]
    <3> DEFINE r == (s \ {c}) \ {x}
    <3>1. g[s \ {c}] = f[x] + g[r]
      BY <1>2, <2>1, <2>3
    <3>2. (s \ {x}) \ {c} = r
      OBVIOUS
    <3>3. g[s \ {x}] = f[c] + g[(s \ {x}) \ {c}]
      BY <1>2, <2>1, <2>3
    <3>4. g[r] \in Int /\ f[x] \in Int /\ f[c] \in Int
      BY <2>1, SumsType
    <3> HIDE DEF r
    <3>5. g[s \ {x}] = f[c] + g[r]
      BY <3>2, <3>3
    <3>6. g[s] = f[c] + (f[x] + g[r])
      BY <2>2, <3>1
    <3>7. f[c] + (f[x] + g[r]) = f[x] + (f[c] + g[r])
      BY <3>4
    <3> QED BY <3>5, <3>6, <3>7
  <2> QED BY <2>2, <2>3
<1>3. \A s \in SUBSET D : s \in P
  <2> HIDE DEF P
  <2> QED BY <1>1, <1>2, PartByPart
<1> QED BY <1>3

(* A function without one of its arguments. *)
Without(f, x) == [y \in DOMAIN f \ {x} |-> f[y]]

(* Any term may be taken out of a total. *)
LEMMA TotalRemove ==
    ASSUME NEW D, IsFiniteSet(D), NEW f \in [D -> Int], NEW x \in D
    PROVE  Total(f) \in Int /\ Total(f) = f[x] + Total(Without(f, x))
<1>1. PICK g : Sums(f, D, g) /\ Total(f) = g[D]
  BY TotalSums
<1>2. DOMAIN Without(f, x) = D \ {x} /\ \A y \in D \ {x} : Without(f, x)[y] = f[y]
  BY DEF Without
<1>3. IsFiniteSet(D \ {x})
  BY FS_RemoveElement
<1>4. PICK h : Sums(Without(f, x), D \ {x}, h) /\ Total(Without(f, x)) = h[D \ {x}]
  BY <1>2, <1>3, TotalSums
<1>5. g[D \ {x}] = h[D \ {x}]
  BY <1>1, <1>2, <1>4, SumsAgree
<1>6. D \in SUBSET D /\ \A y \in D : f[y] \in Int
  OBVIOUS
<1>7. g[D] \in Int
  BY <1>1, <1>6, SumsType
<1>8. g[D] = f[x] + g[D \ {x}]
  BY <1>1, <1>6, SumsRemove
<1> QED BY <1>1, <1>4, <1>5, <1>7, <1>8

(* The total of nothing. *)
LEMMA TotalEmpty == ASSUME NEW f, DOMAIN f = {} PROVE Total(f) = 0
<1>1. PICK g : Sums(f, DOMAIN f, g) /\ Total(f) = g[DOMAIN f]
  BY TotalSums, FS_EmptySet
<1> QED BY <1>1 DEF Sums

(* A total of integers is an integer. *)
LEMMA TotalType ==
    ASSUME NEW D, IsFiniteSet(D), NEW f \in [D -> Int] PROVE Total(f) \in Int
BY TotalRemove, TotalEmpty

(* A total follows a change of one of its terms.                           *)
LEMMA TotalBump ==
    ASSUME NEW D, IsFiniteSet(D), NEW f \in [D -> Int], NEW e \in [D -> Int], NEW x \in D,
           \A y \in D : y # x => e[y] = f[y]
    PROVE  Total(e) = Total(f) - f[x] + e[x]
<1>1. Without(e, x) = Without(f, x)
  BY DEF Without
<1>2. Total(e) = e[x] + Total(Without(e, x)) /\ Total(f) = f[x] + Total(Without(f, x))
  BY TotalRemove
<1>3. Without(f, x) \in [D \ {x} -> Int]
  BY DEF Without
<1>4. Total(Without(f, x)) \in Int
  BY <1>3, TotalType, FS_RemoveElement
<1>5. f[x] \in Int /\ e[x] \in Int
  OBVIOUS
<1> QED BY <1>1, <1>2, <1>4, <1>5

(* Totals of the same terms add up. *)
LEMMA TotalAdd ==
    ASSUME NEW D, IsFiniteSet(D), NEW f \in [D -> Int], NEW g \in [D -> Int]
    PROVE  Total([x \in D |-> f[x] + g[x]]) = Total(f) + Total(g)
<1> DEFINE On(e, s) == [x \in s |-> e[x]]
           h == [x \in D |-> f[x] + g[x]]
           P == {s \in SUBSET D : Total(On(h, s)) = Total(On(f, s)) + Total(On(g, s))}
<1>1. {} \in P
  <2>1. \A e : DOMAIN On(e, {}) = {}
    OBVIOUS
  <2> HIDE DEF On
  <2>2. \A e : Total(On(e, {})) = 0
    BY <2>1, TotalEmpty
  <2> QED BY <2>2
<1>2. ASSUME NEW s \in SUBSET D, s # {}, \A x \in s : s \ {x} \in P
      PROVE  s \in P
  <2>1. PICK x \in s : TRUE
    BY <1>2
  <2>2. IsFiniteSet(s) /\ IsFiniteSet(s \ {x})
    BY FS_Subset, FS_RemoveElement
  <2>3. ASSUME NEW e \in [D -> Int]
        PROVE  /\ Total(On(e, s)) = e[x] + Total(On(e, s \ {x}))
               /\ Total(On(e, s \ {x})) \in Int
    <3>1. On(e, s) \in [s -> Int] /\ On(e, s \ {x}) \in [s \ {x} -> Int]
      OBVIOUS
    <3>2. Without(On(e, s), x) = On(e, s \ {x}) /\ On(e, s)[x] = e[x]
      BY DEF Without
    <3> HIDE DEF On
    <3> QED BY <2>2, <3>1, <3>2, TotalRemove, TotalType, ZenonT(30)
  <2>4. Total(On(h, s \ {x})) = Total(On(f, s \ {x})) + Total(On(g, s \ {x}))
    BY <1>2, <2>1
  <2>5. h \in [D -> Int] /\ h[x] = f[x] + g[x]
    BY <2>1
  <2>6. f[x] \in Int /\ g[x] \in Int
    BY <2>1
  <2> HIDE DEF On, h
  <2>7. Total(On(h, s)) = Total(On(f, s)) + Total(On(g, s))
    BY <2>3, <2>4, <2>5, <2>6
  <2> QED BY <2>7
<1>3. \A s \in SUBSET D : s \in P
  <2> HIDE DEF P
  <2> QED BY <1>1, <1>2, PartByPart
<1>4. On(h, D) = h /\ On(f, D) = f /\ On(g, D) = g
  OBVIOUS
<1>5. Total(On(h, D)) = Total(On(f, D)) + Total(On(g, D))
  BY <1>3
<1> QED
  <2> HIDE DEF On, P
  <2> QED BY <1>4, <1>5

(* A total of natural numbers is one, and no less than any of its terms. *)
LEMMA TotalNat ==
    ASSUME NEW D, IsFiniteSet(D), NEW f \in [D -> Nat]
    PROVE  Total(f) \in Nat /\ \A x \in D : f[x] <= Total(f)
<1> DEFINE On(s) == [x \in s |-> f[x]]
           P == {s \in SUBSET D : Total(On(s)) \in Nat}
<1>1. {} \in P
  BY TotalEmpty
<1>2. ASSUME NEW s \in SUBSET D, s # {}, \A x \in s : s \ {x} \in P
      PROVE  s \in P
  <2>1. PICK x \in s : TRUE
    BY <1>2
  <2>2. IsFiniteSet(s)
    BY FS_Subset
  <2>3. On(s) \in [s -> Int] /\ Without(On(s), x) = On(s \ {x}) /\ On(s)[x] \in Nat
    BY <2>1 DEF Without
  <2>4. Total(On(s \ {x})) \in Nat
    BY <1>2, <2>1
  <2> HIDE DEF On
  <2>5. Total(On(s)) \in Nat
    BY <2>1, <2>2, <2>3, <2>4, TotalRemove
  <2> QED BY <2>5
<1>3. \A s \in SUBSET D : s \in P
  <2> HIDE DEF P
  <2> QED BY <1>1, <1>2, PartByPart
<1>4. On(D) = f
  OBVIOUS
<1>5. ASSUME NEW x \in D PROVE f[x] <= Total(f)
  <2>1. Without(f, x) = On(D \ {x})
    BY DEF Without
  <2>2. Total(Without(f, x)) \in Nat
    BY <1>3, <2>1
  <2>3. f \in [D -> Int] /\ f[x] \in Nat
    OBVIOUS
  <2> HIDE DEF On, P
  <2> QED BY <2>2, <2>3, TotalRemove
<1>6. Total(f) \in Nat
  BY <1>3, <1>4
<1> QED BY <1>5, <1>6

(* The total of zeros. *)
LEMMA TotalZero ==
    ASSUME NEW D, IsFiniteSet(D) PROVE Total([x \in D |-> 0]) = 0
<1> DEFINE z == [x \in D |-> 0]
<1>1. z \in [D -> Int] /\ [x \in D |-> z[x] + z[x]] = z
  OBVIOUS
<1> HIDE DEF z
<1>2. Total(z) = Total(z) + Total(z) /\ Total(z) \in Int
  BY <1>1, TotalAdd, TotalType
<1>3. Total(z) = 0
  BY <1>2, SMTT(30)
<1> QED BY <1>3 DEF z

(* Larger terms make no smaller total. *)
LEMMA TotalMono ==
    ASSUME NEW D, IsFiniteSet(D), NEW f \in [D -> Int], NEW g \in [D -> Int],
           \A x \in D : f[x] <= g[x]
    PROVE  Total(f) <= Total(g)
<1> DEFINE d == [x \in D |-> g[x] - f[x]]
<1>1. d \in [D -> Nat]
  OBVIOUS
<1>2. d \in [D -> Int] /\ [x \in D |-> f[x] + d[x]] = g
  OBVIOUS
<1> HIDE DEF d
<1>3. Total(g) = Total(f) + Total(d)
  BY <1>2, TotalAdd
<1>4. Total(d) \in Nat /\ Total(f) \in Int
  BY <1>1, TotalNat, TotalType
<1> QED BY <1>3, <1>4

(* Terms in a proportion keep it in their totals. *)
LEMMA TotalScale ==
    ASSUME NEW D, IsFiniteSet(D), NEW f \in [D -> Nat], NEW g \in [D -> Nat],
           NEW c \in Nat, NEW d \in Nat, \A x \in D : c * f[x] <= d * g[x]
    PROVE  c * Total(f) <= d * Total(g)
<1> DEFINE On(e, s) == [x \in s |-> e[x]]
           P == {s \in SUBSET D : c * Total(On(f, s)) <= d * Total(On(g, s))}
<1>1. {} \in P
  <2>1. Total(On(f, {})) = 0 /\ Total(On(g, {})) = 0
    BY TotalEmpty
  <2>2. c * 0 = 0 /\ d * 0 = 0
    OBVIOUS
  <2> HIDE DEF On
  <2> QED BY <2>1, <2>2
<1>2. ASSUME NEW s \in SUBSET D, s # {}, \A x \in s : s \ {x} \in P
      PROVE  s \in P
  <2>1. PICK x \in s : TRUE
    BY <1>2
  <2>2. IsFiniteSet(s) /\ IsFiniteSet(s \ {x})
    BY FS_Subset, FS_RemoveElement
  <2>3. ASSUME NEW e \in [D -> Nat]
        PROVE  /\ Total(On(e, s)) = e[x] + Total(On(e, s \ {x}))
               /\ Total(On(e, s \ {x})) \in Nat /\ e[x] \in Nat
    <3>1. /\ On(e, s) \in [s -> Int] /\ On(e, s \ {x}) \in [s \ {x} -> Nat]
          /\ e[x] \in Nat
      OBVIOUS
    <3>2. Without(On(e, s), x) = On(e, s \ {x}) /\ On(e, s)[x] = e[x]
      BY DEF Without
    <3> HIDE DEF On
    <3> QED BY <2>2, <3>1, <3>2, TotalRemove, TotalNat, ZenonT(30)
  <2>4. c * Total(On(f, s \ {x})) <= d * Total(On(g, s \ {x}))
    BY <1>2, <2>1
  <2>5. c * f[x] <= d * g[x]
    BY <2>1
  <2> HIDE DEF On
  <2>6. \A m, n, a, b \in Nat : c * m <= d * n /\ c * a <= d * b => c * (a + m) <= d * (b + n)
    OBVIOUS
  <2>7. c * Total(On(f, s)) <= d * Total(On(g, s))
    BY <2>3, <2>4, <2>5, <2>6
  <2> QED BY <2>7
<1>3. \A s \in SUBSET D : s \in P
  <2> HIDE DEF P
  <2> QED BY <1>1, <1>2, PartByPart
<1>4. On(f, D) = f /\ On(g, D) = g
  OBVIOUS
<1>5. c * Total(On(f, D)) <= d * Total(On(g, D))
  BY <1>3
<1> QED
  <2> HIDE DEF On, P
  <2> QED BY <1>4, <1>5

-----------------------------------------------------------------------------
(* The inductive invariant of the pools *)

(***************************************************************************)
(* The inductive invariant.  UnsettledPoolIsOwnPlusCarried needs to know   *)
(* nothing of CarriedOnce, but CarriedOnce needs it: what a settlement     *)
(* carries is at most pool - carriedIn, which is what was contributed.     *)
(***************************************************************************)
IInv == TypeOK /\ UnsettledPoolIsOwnPlusCarried /\ CarriedOnce

(* A key is the pair of its parts, and its successor is another key with   *)
(* the same strategy, one week later.                                      *)
LEMMA FollowingKey ==
    ASSUME PoolAssumption, NEW k \in Keys, k[1] < LastWeek
    PROVE  Following(k) \in Keys /\ Following(k) # k
<1>1. LastWeek \in Nat
  BY DEF PoolAssumption
<1>2. PICK w \in Weeks, s \in Strategies : k = <<w, s>>
  BY DEF Keys
<1>3. w \in Nat /\ w + 1 \in Weeks /\ w + 1 # w
  BY <1>1, <1>2 DEF Weeks
<1>. QED
  BY <1>2, <1>3 DEF Following, Keys

(* Two weeks of a strategy do not share a successor: a pool inherits from  *)
(* one settlement only.                                                    *)
LEMMA FollowingInjective ==
    ASSUME PoolAssumption, NEW j \in Keys, NEW k \in Keys, Following(j) = Following(k)
    PROVE  j = k
<1>1. PICK w \in Weeks, s \in Strategies : j = <<w, s>>
  BY DEF Keys
<1>2. PICK v \in Weeks, t \in Strategies : k = <<v, t>>
  BY DEF Keys
<1>3. w \in Nat /\ v \in Nat
  BY DEF Weeks, PoolAssumption
<1>4. w + 1 = v + 1 /\ s = t
  BY <1>1, <1>2 DEF Following
<1>. QED
  BY <1>1, <1>2, <1>3, <1>4

(* What a settlement carries is a natural number no greater than what was  *)
(* paid in for that week, and the three parts add up to the pool.          *)
LEMMA RestSplitsThePool ==
    ASSUME TypeOK, NEW k \in Keys, pool[k] >= carriedIn[k],
           NEW paid \in Nat, paid <= pool[k]
    PROVE  /\ Carried(k, paid) \in Nat
           /\ Stale(k, paid) \in Nat
           /\ Carried(k, paid) <= pool[k] - carriedIn[k]
           /\ paid + Carried(k, paid) + Stale(k, paid) = pool[k]
<1>1. pool[k] \in Nat /\ carriedIn[k] \in Nat
  BY DEF TypeOK
<1>. QED
  BY <1>1 DEF Carried, Stale, Left, Fresh

(* The constructor establishes the invariant: every pool is empty.         *)
LEMMA InitIInv == ASSUME PoolAssumption, Init PROVE IInv
<1>1. 0 \in Weeks
  BY DEF PoolAssumption, Weeks
<1>2. TypeOK
  BY <1>1 DEF PoolAssumption, Init, TypeOK, NoPrizes
<1>3. UnsettledPoolIsOwnPlusCarried
  BY DEF Init, UnsettledPoolIsOwnPlusCarried
<1>4. CarriedOnce
  BY DEF Init, CarriedOnce
<1>. QED
  BY <1>2, <1>3, <1>4 DEF IInv

(* fund: the pool and its contributions grow together; a settled week is   *)
(* refused, so nothing changes under winners already published.            *)
LEMMA FundIInv ==
    ASSUME PoolAssumption, IInv, NEW k \in Keys, NEW amount \in Nat, Fund(k, amount)
    PROVE  IInv'
<1>. USE DEF IInv
<1>1. TypeOK'
  BY DEF TypeOK, Fund, roleVars
<1>2. UnsettledPoolIsOwnPlusCarried'
  BY DEF TypeOK, Fund, UnsettledPoolIsOwnPlusCarried
<1>3. CarriedOnce'
  BY DEF TypeOK, Fund, CarriedOnce
<1>. QED
  BY <1>1, <1>2, <1>3

(* settle, with `_rest' and `_carry' inside it: the only action that moves *)
(* money between pools.                                                    *)
LEMMA SettleIInv ==
    ASSUME PoolAssumption, IInv, NEW caller \in Accounts, NEW k \in Keys,
           NEW paid \in Nat, NEW won \in [Accounts -> Nat],
           Settle(caller, k, won, paid)
    PROVE  IInv'
<1>. DEFINE n == Following(k)
            c == Carried(k, paid)
<1>1. k[1] < LastWeek /\ ~settled[k] /\ pool[k] >= carriedIn[k] /\ paid <= pool[k]
  <2>1. k[1] \in Nat /\ now \in Nat /\ now <= LastWeek
    BY DEF IInv, TypeOK, Keys, Weeks, PoolAssumption
  <2>. QED
    BY <2>1 DEF Settle, CanSettle, PoolAssumption
<1>2. n \in Keys /\ n # k
  BY <1>1, FollowingKey
<1>3. /\ c \in Nat
      /\ Stale(k, paid) \in Nat
      /\ c <= pool[k] - carriedIn[k]
  BY <1>1, RestSplitsThePool DEF IInv
<1>4. pool' = [pool EXCEPT ![k] = paid, ![n] = @ + c]
  BY DEF Settle
<1>5. carriedIn' = [carriedIn EXCEPT ![n] = @ + c]
  BY DEF Settle
<1>6. /\ settled' = [settled EXCEPT ![k] = TRUE]
      /\ prizes' = [prizes EXCEPT ![k] = [a \in Accounts |-> @[a] + won[a]]]
      /\ retained' = retained + Stale(k, paid)
      /\ UNCHANGED <<now, owner, settlers, claimed, held, contributed>>
  BY DEF Settle, roleVars
<1>. HIDE DEF n, c
<1>7. TypeOK'
  <2>1. pool' \in [Keys -> Nat] /\ carriedIn' \in [Keys -> Nat]
    BY <1>2, <1>3, <1>4, <1>5 DEF IInv, TypeOK
  <2>2. prizes' \in [Keys -> [Accounts -> Nat]]
    BY <1>6 DEF IInv, TypeOK
  <2>. QED
    BY <1>3, <1>6, <2>1, <2>2 DEF IInv, TypeOK
<1>8. UnsettledPoolIsOwnPlusCarried'
  <2>. SUFFICES ASSUME NEW j \in Keys, ~settled'[j]
                PROVE  /\ pool'[j] = contributed'[j] + carriedIn'[j]
                       /\ prizes'[j] = NoPrizes
                       /\ claimed'[j] = {}
    BY DEF UnsettledPoolIsOwnPlusCarried
  <2>1. j # k /\ ~settled[j]
    BY <1>6 DEF IInv, TypeOK
  <2>2. /\ pool[j] = contributed[j] + carriedIn[j]
        /\ prizes[j] = NoPrizes
        /\ claimed[j] = {}
    BY <2>1 DEF IInv, UnsettledPoolIsOwnPlusCarried
  <2>3. prizes'[j] = NoPrizes /\ claimed'[j] = {}
    BY <1>6, <2>1, <2>2 DEF IInv, TypeOK
  <2>4. CASE j = n
    BY <1>2, <1>3, <1>4, <1>5, <1>6, <2>2, <2>3, <2>4 DEF IInv, TypeOK
  <2>5. CASE j # n
    BY <1>4, <1>5, <1>6, <2>1, <2>2, <2>3, <2>5 DEF IInv, TypeOK
  <2>. QED
    BY <2>4, <2>5
<1>9. CarriedOnce'
  <2>. SUFFICES ASSUME NEW j \in Keys, Following(j) \in Keys
                PROVE  carriedIn'[Following(j)]
                         <= IF settled'[j] THEN contributed'[j] ELSE 0
    BY DEF CarriedOnce
  <2>1. CASE j = k
    <3>1. carriedIn[n] = 0
      BY <1>1, <1>2 DEF IInv, TypeOK, CarriedOnce, n
    <3>2. c <= contributed[k]
      BY <1>1, <1>3 DEF IInv, TypeOK, UnsettledPoolIsOwnPlusCarried
    <3>3. carriedIn'[n] = c /\ settled'[k] /\ contributed'[k] = contributed[k]
      BY <1>2, <1>3, <1>5, <1>6, <3>1 DEF IInv, TypeOK
    <3>. QED
      BY <2>1, <3>2, <3>3 DEF n
  <2>2. CASE j # k
    <3>1. Following(j) # n
      BY <2>2, FollowingInjective DEF n
    <3>2. carriedIn'[Following(j)] = carriedIn[Following(j)]
      BY <1>5, <3>1 DEF IInv, TypeOK
    <3>3. settled'[j] = settled[j] /\ contributed'[j] = contributed[j]
      BY <1>6, <2>2 DEF IInv, TypeOK
    <3>. QED
      BY <3>2, <3>3 DEF IInv, CarriedOnce
  <2>. QED
    BY <2>1, <2>2
<1>. QED
  BY <1>7, <1>8, <1>9 DEF IInv

(* claim: only the balance and the list of who took a prize change, and    *)
(* only under a settled week.                                              *)
LEMMA ClaimIInv ==
    ASSUME IInv, NEW caller \in Accounts, NEW k \in Keys, Claim(caller, k)
    PROVE  IInv'
<1>. USE DEF IInv
<1>1. TypeOK'
  BY DEF TypeOK, Claim, roleVars
<1>2. UnsettledPoolIsOwnPlusCarried'
  BY DEF TypeOK, Claim, UnsettledPoolIsOwnPlusCarried
<1>3. CarriedOnce'
  BY DEF Claim, CarriedOnce
<1>. QED
  BY <1>1, <1>2, <1>3

(* The clock, the roles and sweep do not touch a pool.                     *)
LEMMA PoolsUntouchedIInv ==
    ASSUME IInv, TypeOK',
           UNCHANGED <<pool, settled, prizes, claimed, carriedIn, contributed>>
    PROVE  IInv'
  BY DEF IInv, UnsettledPoolIsOwnPlusCarried, CarriedOnce

(* Every call preserves the invariant.                                     *)
LEMMA NextIInv == ASSUME PoolAssumption, IInv, [Next]_vars PROVE IInv'
<1>1. CASE NextWeek
  <2>1. TypeOK'
    BY <1>1 DEF IInv, TypeOK, NextWeek, Weeks, roleVars, moneyVars, PoolAssumption
  <2>. QED
    BY <1>1, <2>1, PoolsUntouchedIInv DEF NextWeek, moneyVars
<1>2. CASE \E caller, a \in Accounts, allowed \in BOOLEAN : SetSettler(caller, a, allowed)
  <2>1. TypeOK'
    BY <1>2 DEF IInv, TypeOK, SetSettler, moneyVars
  <2>. QED
    BY <1>2, <2>1, PoolsUntouchedIInv DEF SetSettler, moneyVars
<1>3. CASE \E caller, next \in Accounts : SetOwner(caller, next)
  <2>1. TypeOK'
    BY <1>3 DEF IInv, TypeOK, SetOwner, moneyVars
  <2>. QED
    BY <1>3, <2>1, PoolsUntouchedIInv DEF SetOwner, moneyVars
<1>4. CASE \E k \in Keys, amount \in 0 .. MaxAmount :
              PaidIn + amount <= MaxAmount /\ Fund(k, amount)
  BY <1>4, FundIInv
<1>5. CASE \E caller \in Accounts, k \in Keys :
              \E paid \in 0 .. pool[k], won \in [Accounts -> 0 .. pool[k]] :
                 Total(won) = paid /\ Settle(caller, k, won, paid)
  <2>1. PICK caller \in Accounts, k \in Keys :
               \E paid \in 0 .. pool[k], won \in [Accounts -> 0 .. pool[k]] :
                  Settle(caller, k, won, paid)
    BY <1>5
  <2>2. PICK paid \in 0 .. pool[k], won \in [Accounts -> 0 .. pool[k]] :
               Settle(caller, k, won, paid)
    BY <2>1
  <2>3. paid \in Nat /\ won \in [Accounts -> Nat]
    BY DEF IInv, TypeOK
  <2>. QED
    BY <2>2, <2>3, SettleIInv
<1>6. CASE \E caller \in Accounts, k \in Keys : Claim(caller, k)
  BY <1>6, ClaimIInv
<1>7. CASE \E caller \in Accounts : Sweep(caller)
  <2>1. TypeOK'
    BY <1>7 DEF IInv, TypeOK, Sweep, roleVars
  <2>. QED
    BY <1>7, <2>1, PoolsUntouchedIInv DEF Sweep
<1>8. CASE UNCHANGED vars
  <2>1. TypeOK'
    BY <1>8 DEF IInv, TypeOK, vars
  <2>. QED
    BY <1>8, <2>1, PoolsUntouchedIInv DEF vars
<1>. QED
  BY <1>1, <1>2, <1>3, <1>4, <1>5, <1>6, <1>7, <1>8 DEF Next

(* Every reachable state of the contract satisfies the invariant.          *)
THEOREM AlwaysIInv == ASSUME PoolAssumption PROVE Spec => []IInv
<1>1. Init => IInv
  BY InitIInv
<1>2. IInv /\ [Next]_vars => IInv'
  BY NextIInv
<1>. QED
  BY <1>1, <1>2, PTL DEF Spec

(* The contract's state keeps its types: no amount ever goes below zero.   *)
THEOREM TypeCorrect == ASSUME PoolAssumption PROVE Spec => []TypeOK
<1>1. IInv => TypeOK
  BY DEF IInv
<1>. QED
  BY <1>1, AlwaysIInv, PTL

(* A settlement can always subtract what was carried from what is there:   *)
(* the pool of an unsettled week is its contributions plus its inheritance.*)
THEOREM UnsettledPools ==
    ASSUME PoolAssumption PROVE Spec => []UnsettledPoolIsOwnPlusCarried
<1>1. IInv => UnsettledPoolIsOwnPlusCarried
  BY DEF IInv
<1>. QED
  BY <1>1, AlwaysIInv, PTL

(* Money is carried once: what a week inherits was paid in for the week    *)
(* before, whatever that week had itself inherited.                        *)
THEOREM MoneyIsCarriedOnce == ASSUME PoolAssumption PROVE Spec => []CarriedOnce
<1>1. IInv => CarriedOnce
  BY DEF IInv
<1>. QED
  BY <1>1, AlwaysIInv, PTL

(* What SettledIsFinal forbids a step to do, as a formula of its own.      *)
KeepsSettled ==
    \A k \in Keys : settled[k] =>
        /\ settled'[k]
        /\ prizes'[k] = prizes[k]
        /\ pool'[k] >= pool[k]
        /\ claimed[k] \subseteq claimed'[k]

(* Settling another week may add to a settled pool, never take from it.    *)
LEMMA SettleKeepsSettled ==
    ASSUME PoolAssumption, IInv, NEW caller \in Accounts, NEW j \in Keys,
           NEW paid \in Nat, NEW won \in [Accounts -> Nat],
           Settle(caller, j, won, paid)
    PROVE  KeepsSettled
<1>. SUFFICES ASSUME NEW k \in Keys, settled[k]
              PROVE  /\ settled'[k]
                     /\ prizes'[k] = prizes[k]
                     /\ pool'[k] >= pool[k]
                     /\ claimed[k] \subseteq claimed'[k]
  BY DEF KeepsSettled
<1>1. j # k /\ pool[j] >= carriedIn[j] /\ paid <= pool[j]
  BY DEF Settle, CanSettle
<1>2. Carried(j, paid) \in Nat
  BY <1>1, RestSplitsThePool DEF IInv
<1>3. pool[k] \in Nat
  BY DEF IInv, TypeOK
<1>4. pool'[k] >= pool[k]
  BY <1>1, <1>2, <1>3 DEF IInv, TypeOK, Settle
<1>5. settled'[k] /\ prizes'[k] = prizes[k] /\ claimed'[k] = claimed[k]
  BY <1>1 DEF IInv, TypeOK, Settle
<1>. QED
  BY <1>4, <1>5

(* No step of the contract changes who won a settled week, or takes money  *)
(* out of its pool.                                                        *)
THEOREM SettledWeeksAreFinal == ASSUME PoolAssumption PROVE Spec => SettledIsFinal
<1>1. IInv /\ [Next]_vars => [KeepsSettled]_vars
  <2>. SUFFICES ASSUME IInv, Next PROVE KeepsSettled
    OBVIOUS
  <2>. USE DEF IInv, TypeOK, KeepsSettled
  <2>1. CASE UNCHANGED <<pool, settled, prizes, claimed>>
    BY <2>1
  <2>2. CASE \E k \in Keys, amount \in 0 .. MaxAmount : Fund(k, amount)
    BY <2>2 DEF Fund
  <2>3. CASE \E caller \in Accounts, k \in Keys : Claim(caller, k)
    BY <2>3 DEF Claim
  <2>4. CASE \E caller \in Accounts, k \in Keys :
                \E paid \in 0 .. pool[k], won \in [Accounts -> 0 .. pool[k]] :
                   Settle(caller, k, won, paid)
    <3>1. PICK caller \in Accounts, k \in Keys :
                 \E paid \in 0 .. pool[k], won \in [Accounts -> 0 .. pool[k]] :
                    Settle(caller, k, won, paid)
      BY <2>4
    <3>2. PICK paid \in 0 .. pool[k], won \in [Accounts -> 0 .. pool[k]] :
                 Settle(caller, k, won, paid)
      BY <3>1
    <3>3. paid \in Nat /\ won \in [Accounts -> Nat]
      OBVIOUS
    <3>. QED
      BY <3>2, <3>3, SettleKeepsSettled
  <2>. QED
    BY <2>1, <2>2, <2>3, <2>4
       DEF Next, NextWeek, SetSettler, SetOwner, Sweep, moneyVars
<1>2. Spec => [][KeepsSettled]_vars
  BY <1>1, AlwaysIInv, PTL DEF Spec
<1>. QED
  BY <1>2 DEF SettledIsFinal, KeepsSettled

-----------------------------------------------------------------------------
(* The books *)

Owing == [k \in Keys |-> OwedBy(k)]
Unpaid == [k \in Keys |-> Unclaimed(k)]

(* No pool promises more than it holds: an unsettled one nothing, a        *)
(* settled one what it paid, and what arrives later only adds to it.       *)
Backed == \A k \in Keys : Total(prizes[k]) <= pool[k]

Balance == held = retained + Total(Owing)

(* Conserved, with what its second part needs. *)
Books == Backed /\ Balance

(* There are finitely many weeks, so finitely many pools.                  *)
LEMMA KeysAreFinite == ASSUME PoolAssumption PROVE IsFiniteSet(Keys)
<1>1. \A m, n \in Int : IsFiniteSet(m .. n)
  BY FS_Interval
<1>2. IsFiniteSet(Weeks) /\ IsFiniteSet(Strategies)
  BY <1>1 DEF Weeks, PoolAssumption
<1> QED BY <1>2, FS_Product DEF Keys

(* The prizes of a pool and what is left of them are natural numbers.      *)
LEMMA PrizeTotals ==
    ASSUME PoolAssumption, TypeOK, NEW k \in Keys
    PROVE  /\ Total(prizes[k]) \in Nat
           /\ Unclaimed(k) \in Nat
           /\ OwedBy(k) \in Int
<1>1. prizes[k] \in [Accounts -> Nat] /\ pool[k] \in Nat
  BY DEF TypeOK
<1>2. IsFiniteSet(Accounts) /\ IsFiniteSet(Accounts \ claimed[k])
  BY FS_Difference DEF PoolAssumption
<1>3. [a \in Accounts \ claimed[k] |-> prizes[k][a]] \in [Accounts \ claimed[k] -> Nat]
  BY <1>1
<1>4. Total(prizes[k]) \in Nat /\ Unclaimed(k) \in Nat
  BY <1>1, <1>2, <1>3, TotalNat DEF Unclaimed
<1> QED BY <1>1, <1>4 DEF OwedBy

(* The same of all pools together.                                         *)
LEMMA OwingType ==
    ASSUME PoolAssumption, TypeOK
    PROVE  /\ Owing \in [Keys -> Int] /\ Total(Owing) \in Int
           /\ Unpaid \in [Keys -> Nat] /\ Total(Unpaid) \in Nat
<1>1. Owing \in [Keys -> Int] /\ Unpaid \in [Keys -> Nat]
  BY PrizeTotals DEF Owing, Unpaid
<1> QED BY <1>1, KeysAreFinite, TotalType, TotalNat

(* What a pool owes depends on its own money and its own winners.          *)
LEMMA OwedByItsOwn ==
    ASSUME NEW k \in Keys, pool'[k] = pool[k], prizes'[k] = prizes[k], claimed'[k] = claimed[k]
    PROVE  OwedBy(k)' = OwedBy(k)
BY DEF OwedBy, Unclaimed

(* An account that claims leaves the others with what they had.            *)
LEMMA ClaimTakesOne ==
    ASSUME PoolAssumption, TypeOK, NEW k \in Keys, NEW a \in Accounts, a \notin claimed[k],
           claimed'[k] = claimed[k] \cup {a}, prizes'[k] = prizes[k], pool'[k] = pool[k]
    PROVE  /\ Unclaimed(k)' = Unclaimed(k) - prizes[k][a]
           /\ OwedBy(k)' = OwedBy(k) - prizes[k][a]
<1> DEFINE S == Accounts \ claimed[k]
           f == [b \in S |-> prizes[k][b]]
<1>1. prizes[k] \in [Accounts -> Nat] /\ pool[k] \in Nat
  BY DEF TypeOK
<1>2. f \in [S -> Int] /\ a \in S /\ f[a] = prizes[k][a] /\ IsFiniteSet(S)
  <2>1. IsFiniteSet(S)
    BY FS_Difference DEF PoolAssumption
  <2>2. f \in [S -> Int] /\ a \in S /\ f[a] = prizes[k][a]
    BY <1>1
  <2> QED BY <2>1, <2>2
<1>3. Accounts \ claimed'[k] = S \ {a}
  OBVIOUS
<1>4. Unclaimed(k)' = Total([b \in S \ {a} |-> prizes[k][b]])
  BY <1>3 DEF Unclaimed
<1>5. Without(f, a) = [b \in S \ {a} |-> prizes[k][b]]
  BY DEF Without
<1>6. Unclaimed(k) = Total(f)
  BY DEF Unclaimed
<1> HIDE DEF S, f
<1>7. Total(f) = f[a] + Total(Without(f, a)) /\ Total(f) \in Int
  BY <1>2, TotalRemove
<1>8. Unclaimed(k) \in Nat /\ Total(prizes[k]) \in Nat
  BY PrizeTotals
<1>9. Unclaimed(k)' \in Int
  <2>1. IsFiniteSet(S \ {a}) /\ [b \in S \ {a} |-> prizes[k][b]] \in [S \ {a} -> Int]
    BY <1>1, <1>2, FS_RemoveElement DEF S
  <2> QED BY <1>4, <2>1, TotalType
<1>10. prizes[k][a] \in Nat
  BY <1>1
<1>11. Unclaimed(k)' = Unclaimed(k) - prizes[k][a]
  BY <1>2, <1>4, <1>5, <1>6, <1>7, <1>8, <1>9, <1>10
<1> QED BY <1>1, <1>8, <1>9, <1>10, <1>11 DEF OwedBy

(* An unsettled pool promises nothing: it owes what it holds.              *)
LEMMA UnsettledOwesItsPool ==
    ASSUME PoolAssumption, IInv, NEW k \in Keys, ~settled[k]
    PROVE  Total(prizes[k]) = 0 /\ Unclaimed(k) = 0 /\ OwedBy(k) = pool[k]
<1>1. prizes[k] = [a \in Accounts |-> 0] /\ claimed[k] = {} /\ pool[k] \in Nat
  BY DEF IInv, TypeOK, UnsettledPoolIsOwnPlusCarried, NoPrizes
<1>2. [a \in Accounts \ {} |-> prizes[k][a]] = [a \in Accounts |-> 0]
  BY <1>1
<1>3. Total([a \in Accounts |-> 0]) = 0
  BY TotalZero DEF PoolAssumption
<1>4. Unclaimed(k) = 0 /\ Total(prizes[k]) = 0
  BY <1>1, <1>2, <1>3 DEF Unclaimed
<1> QED BY <1>1, <1>4 DEF OwedBy

(* Nothing is held, promised or owed at first.                             *)
LEMMA InitBooks == ASSUME PoolAssumption, Init PROVE Books
<1>1. IInv
  BY InitIInv
<1>2. \A k \in Keys : Total(prizes[k]) = 0 /\ OwedBy(k) = 0 /\ pool[k] = 0
  BY <1>1, UnsettledOwesItsPool DEF Init
<1>3. Owing = [k \in Keys |-> 0]
  BY <1>2 DEF Owing
<1>4. Total(Owing) = 0
  BY <1>3, KeysAreFinite, TotalZero
<1>5. held = 0 /\ retained = 0
  BY DEF Init
<1> QED BY <1>2, <1>4, <1>5 DEF Books, Backed, Balance

(* fund: the balance and one pool grow by the same amount.                 *)
LEMMA FundBooks ==
    ASSUME PoolAssumption, IInv, Books, NEW k \in Keys, NEW amount \in Nat, Fund(k, amount)
    PROVE  Books'
<1>1. TypeOK /\ pool[k] \in Nat /\ held \in Nat /\ retained \in Nat
  BY DEF IInv, TypeOK
<1>2. /\ pool' = [pool EXCEPT ![k] = @ + amount] /\ held' = held + amount
      /\ prizes' = prizes /\ claimed' = claimed /\ retained' = retained
  BY DEF Fund
<1>3. pool'[k] = pool[k] + amount /\ \A j \in Keys : j # k => pool'[j] = pool[j]
  BY <1>1, <1>2 DEF TypeOK
<1>4. Backed'
  <2> SUFFICES ASSUME NEW j \in Keys PROVE Total(prizes'[j]) <= pool'[j]
    BY DEF Backed
  <2>1. Total(prizes[j]) \in Nat /\ pool[j] \in Nat /\ Total(prizes[j]) <= pool[j]
    BY <1>1, PrizeTotals DEF Books, Backed, TypeOK
  <2> QED BY <1>1, <1>2, <1>3, <2>1
<1>5. OwedBy(k)' = OwedBy(k) + amount
  <2>1. Total(prizes[k]) \in Nat /\ Unclaimed(k) \in Nat /\ Unclaimed(k)' = Unclaimed(k)
    BY <1>1, <1>2, PrizeTotals DEF Unclaimed
  <2> QED BY <1>1, <1>2, <1>3, <2>1 DEF OwedBy
<1>6. \A j \in Keys : j # k => OwedBy(j)' = OwedBy(j)
  BY <1>2, <1>3, OwedByItsOwn
<1>7. Owing' = [Owing EXCEPT ![k] = OwedBy(k) + amount]
  BY <1>5, <1>6 DEF Owing
<1>8. Owing \in [Keys -> Int] /\ Owing[k] = OwedBy(k) /\ OwedBy(k) \in Int /\ Total(Owing) \in Int
  BY <1>1, OwingType, PrizeTotals DEF Owing
<1>9. Total(Owing') = Total(Owing) - OwedBy(k) + (OwedBy(k) + amount)
  <2> DEFINE v == OwedBy(k) + amount
  <2>1. v \in Int
    BY <1>8
  <2> HIDE DEF v
  <2>2. /\ Owing' \in [Keys -> Int] /\ Owing'[k] = v
        /\ \A j \in Keys : j # k => Owing'[j] = Owing[j]
    BY <1>7, <1>8, <2>1 DEF v
  <2> QED BY <1>8, <2>2, KeysAreFinite, TotalBump DEF v
<1>10. held = retained + Total(Owing)
  BY DEF Books, Balance
<1>11. held' = retained' + Total(Owing')
  BY <1>1, <1>2, <1>8, <1>9, <1>10
<1> QED BY <1>4, <1>11 DEF Books, Balance

(* settle: what is paid, what is carried and what is retained make up what *)
(* the pool held.                                                          *)
LEMMA SettleBooks ==
    ASSUME PoolAssumption, IInv, Books, NEW caller \in Accounts, NEW k \in Keys,
           NEW paid \in Nat, NEW won \in [Accounts -> Nat], Total(won) = paid,
           Settle(caller, k, won, paid)
    PROVE  Books'
<1> DEFINE n == Following(k)
           c == Carried(k, paid)
           stale == Stale(k, paid)
<1>1. /\ TypeOK /\ pool[k] \in Nat /\ held \in Nat /\ retained \in Nat
      /\ ~settled[k] /\ pool[k] >= carriedIn[k] /\ paid <= pool[k]
  BY DEF IInv, TypeOK, Settle, CanSettle
<1>2. k[1] < LastWeek
  <2>1. k[1] \in Nat /\ now \in Nat /\ now <= LastWeek /\ k[1] < now
    BY DEF IInv, TypeOK, Keys, Weeks, PoolAssumption, Settle, CanSettle
  <2> QED BY <2>1 DEF PoolAssumption
<1>3. n \in Keys /\ n # k
  BY <1>2, FollowingKey
<1>4. c \in Nat /\ stale \in Nat /\ paid + c + stale = pool[k]
  BY <1>1, RestSplitsThePool
<1>5. /\ pool' = [pool EXCEPT ![k] = paid, ![n] = @ + c]
      /\ prizes' = [prizes EXCEPT ![k] = [a \in Accounts |-> @[a] + won[a]]]
      /\ claimed' = claimed /\ held' = held /\ retained' = retained + stale
  BY DEF Settle
<1> HIDE DEF n, c, stale
<1>6. /\ pool'[k] = paid /\ pool'[n] = pool[n] + c /\ pool[n] \in Nat
      /\ \A j \in Keys : j # k /\ j # n => pool'[j] = pool[j]
  BY <1>1, <1>3, <1>5 DEF TypeOK
<1>7. prizes'[k] = won
  <2>1. \A a \in Accounts : prizes[k][a] = 0
    BY <1>1 DEF IInv, UnsettledPoolIsOwnPlusCarried, NoPrizes
  <2>2. prizes'[k] = [a \in Accounts |-> prizes[k][a] + won[a]]
    BY <1>1, <1>5 DEF TypeOK
  <2>3. \A a \in Accounts : won[a] \in Nat
    OBVIOUS
  <2>4. \A a \in Accounts : prizes[k][a] + won[a] = won[a]
    BY <2>1, <2>3
  <2> QED BY <2>2, <2>4
<1>8. \A j \in Keys : j # k => prizes'[j] = prizes[j]
  BY <1>1, <1>5 DEF TypeOK
<1>9. Backed'
  <2> SUFFICES ASSUME NEW j \in Keys PROVE Total(prizes'[j]) <= pool'[j]
    BY DEF Backed
  <2>1. Total(prizes[j]) \in Nat /\ pool[j] \in Nat /\ Total(prizes[j]) <= pool[j]
    BY <1>1, PrizeTotals DEF Books, Backed, TypeOK
  <2>2. CASE j = k
    BY <1>6, <1>7, <2>2
  <2>3. CASE j # k
    <3>1. pool'[j] = pool[j] \/ pool'[j] = pool[j] + c
      BY <1>6, <2>3
    <3> QED BY <1>4, <1>8, <2>1, <2>3, <3>1
  <2> QED BY <2>2, <2>3
<1>10. OwedBy(k) = pool[k]
  BY <1>1, UnsettledOwesItsPool
<1>11. OwedBy(k)' = paid
  <2>1. claimed'[k] = {}
    BY <1>1, <1>5 DEF IInv, UnsettledPoolIsOwnPlusCarried
  <2>2. [a \in Accounts \ claimed'[k] |-> prizes'[k][a]] = won
    BY <1>7, <2>1
  <2>3. Unclaimed(k)' = Total(won)
    BY <2>2 DEF Unclaimed
  <2> QED BY <1>6, <1>7, <2>3 DEF OwedBy
<1>12. OwedBy(n)' = OwedBy(n) + c
  <2>1. Total(prizes[n]) \in Nat /\ Unclaimed(n) \in Nat
    BY <1>1, <1>3, PrizeTotals
  <2>2. prizes'[n] = prizes[n] /\ claimed'[n] = claimed[n]
    BY <1>3, <1>5, <1>8
  <2>3. n' = n
    BY DEF n, Following
  <2> QED BY <1>3, <1>4, <1>6, <2>1, <2>2, <2>3 DEF OwedBy, Unclaimed
<1>13. \A j \in Keys : j # k /\ j # n => OwedBy(j)' = OwedBy(j)
  BY <1>5, <1>6, <1>8, OwedByItsOwn
<1> DEFINE mid == [Owing EXCEPT ![k] = paid]
<1>14. Owing' = [mid EXCEPT ![n] = OwedBy(n) + c]
  BY <1>3, <1>11, <1>12, <1>13 DEF Owing
<1>15. /\ Owing \in [Keys -> Int] /\ Total(Owing) \in Int
       /\ Owing[k] = pool[k] /\ OwedBy(n) \in Int
  BY <1>1, <1>3, <1>10, OwingType, PrizeTotals DEF Owing
<1>16. mid[n] = OwedBy(n)
  BY <1>3 DEF Owing
<1>17. mid \in [Keys -> Int] /\ Total(mid) = Total(Owing) - pool[k] + paid
  <2>1. /\ mid \in [Keys -> Int] /\ mid[k] = paid
        /\ \A j \in Keys : j # k => mid[j] = Owing[j]
    BY <1>15
  <2> HIDE DEF mid
  <2> QED BY <1>15, <2>1, KeysAreFinite, TotalBump
<1> HIDE DEF mid
<1>18. Total(Owing') = Total(mid) - OwedBy(n) + (OwedBy(n) + c)
  <2> DEFINE v == OwedBy(n) + c
  <2>1. v \in Int
    BY <1>4, <1>15
  <2> HIDE DEF v
  <2>2. /\ Owing' \in [Keys -> Int] /\ Owing'[n] = v
        /\ \A j \in Keys : j # n => Owing'[j] = mid[j]
    BY <1>3, <1>14, <1>17, <2>1 DEF v
  <2> QED BY <1>3, <1>16, <1>17, <2>2, KeysAreFinite, TotalBump DEF v
<1>19. held = retained + Total(Owing)
  BY DEF Books, Balance
<1>20. held' = retained' + Total(Owing')
  BY <1>1, <1>4, <1>5, <1>15, <1>17, <1>18, <1>19
<1> QED BY <1>9, <1>20 DEF Books, Balance

(* claim: the balance and the pool's debt go down by the same prize.       *)
LEMMA ClaimBooks ==
    ASSUME PoolAssumption, IInv, Books, NEW caller \in Accounts, NEW k \in Keys,
           Claim(caller, k)
    PROVE  Books'
<1> DEFINE prize == prizes[k][caller]
<1>1. /\ TypeOK /\ held \in Nat /\ retained \in Nat /\ prize \in Nat
      /\ claimed \in [Keys -> SUBSET Accounts]
  BY DEF IInv, TypeOK
<1>2. /\ claimed' = [claimed EXCEPT ![k] = @ \cup {caller}] /\ caller \notin claimed[k]
      /\ held' = held - prize /\ retained' = retained
      /\ prizes' = prizes /\ pool' = pool
  BY DEF Claim
<1>3. Backed'
  BY <1>2 DEF Books, Backed
<1>4. claimed'[k] = claimed[k] \cup {caller} /\ \A j \in Keys : j # k => claimed'[j] = claimed[j]
  BY <1>1, <1>2
<1>5. OwedBy(k)' = OwedBy(k) - prize
  BY <1>1, <1>2, <1>4, ClaimTakesOne
<1>6. \A j \in Keys : j # k => OwedBy(j)' = OwedBy(j)
  BY <1>2, <1>4, OwedByItsOwn
<1>7. Owing' = [Owing EXCEPT ![k] = OwedBy(k) - prize]
  BY <1>5, <1>6 DEF Owing
<1>8. Owing \in [Keys -> Int] /\ Owing[k] = OwedBy(k) /\ OwedBy(k) \in Int /\ Total(Owing) \in Int
  BY <1>1, OwingType, PrizeTotals DEF Owing
<1> HIDE DEF prize
<1>9. Total(Owing') = Total(Owing) - OwedBy(k) + (OwedBy(k) - prize)
  <2> DEFINE v == OwedBy(k) - prize
  <2>1. v \in Int
    BY <1>1, <1>8
  <2> HIDE DEF v
  <2>2. /\ Owing' \in [Keys -> Int] /\ Owing'[k] = v
        /\ \A j \in Keys : j # k => Owing'[j] = Owing[j]
    BY <1>7, <1>8, <2>1 DEF v
  <2> QED BY <1>8, <2>2, KeysAreFinite, TotalBump DEF v
<1>10. held = retained + Total(Owing)
  BY DEF Books, Balance
<1>11. held' = retained' + Total(Owing')
  BY <1>1, <1>2, <1>8, <1>9, <1>10
<1> QED BY <1>3, <1>11 DEF Books, Balance

(* sweep takes what was retained, and the clock and the roles nothing.     *)
LEMMA NoPoolMovesBooks ==
    ASSUME PoolAssumption, IInv, Books,
           UNCHANGED <<pool, prizes, claimed>>,
           held' - retained' = held - retained, held' \in Nat, retained' \in Nat
    PROVE  Books'
<1>1. \A k \in Keys : OwedBy(k)' = OwedBy(k)
  BY OwedByItsOwn
<1>2. Owing' = Owing
  BY <1>1 DEF Owing
<1>3. held \in Nat /\ retained \in Nat /\ Total(Owing) \in Int
  BY OwingType DEF IInv, TypeOK
<1>4. held = retained + Total(Owing)
  BY DEF Books, Balance
<1>5. held' = retained' + Total(Owing')
  BY <1>2, <1>3, <1>4
<1> QED BY <1>5 DEF Books, Backed, Balance

(* Every call keeps the books.                                             *)
LEMMA NextBooks == ASSUME PoolAssumption, IInv, Books, [Next]_vars PROVE Books'
<1>1. held \in Nat /\ retained \in Nat
  BY DEF IInv, TypeOK
<1>2. CASE UNCHANGED moneyVars
  BY <1>1, <1>2, NoPoolMovesBooks DEF moneyVars
<1>3. CASE \E k \in Keys, amount \in 0 .. MaxAmount : Fund(k, amount)
  BY <1>3, FundBooks
<1>4. CASE \E caller \in Accounts, k \in Keys :
              \E paid \in 0 .. pool[k], won \in [Accounts -> 0 .. pool[k]] :
                 Total(won) = paid /\ Settle(caller, k, won, paid)
  <2>1. PICK caller \in Accounts, k \in Keys :
               \E paid \in 0 .. pool[k], won \in [Accounts -> 0 .. pool[k]] :
                  Total(won) = paid /\ Settle(caller, k, won, paid)
    BY <1>4
  <2>2. PICK paid \in 0 .. pool[k], won \in [Accounts -> 0 .. pool[k]] :
               Total(won) = paid /\ Settle(caller, k, won, paid)
    BY <2>1
  <2>3. paid \in Nat /\ won \in [Accounts -> Nat]
    OBVIOUS
  <2> QED BY <2>2, <2>3, SettleBooks
<1>5. CASE \E caller \in Accounts, k \in Keys : Claim(caller, k)
  BY <1>5, ClaimBooks
<1>6. CASE \E caller \in Accounts : Sweep(caller)
  <2>1. held >= retained /\ held' = held - retained /\ retained' = 0
    BY <1>6 DEF Sweep
  <2>2. UNCHANGED <<pool, prizes, claimed>>
    BY <1>6 DEF Sweep
  <2> QED BY <1>1, <2>1, <2>2, NoPoolMovesBooks
<1> QED
  BY <1>2, <1>3, <1>4, <1>5, <1>6 DEF Next, NextWeek, SetSettler, SetOwner, vars, moneyVars

(* The contract's books are kept in every reachable state.                 *)
THEOREM AlwaysBooks == ASSUME PoolAssumption PROVE Spec => [](IInv /\ Books)
<1>1. Init => IInv /\ Books
  BY InitIInv, InitBooks
<1>2. IInv /\ Books /\ [Next]_vars => (IInv /\ Books)'
  BY NextIInv, NextBooks
<1> QED BY <1>1, <1>2, PTL DEF Spec

(* What the balance holds beyond what is retained covers what winners have *)
(* not taken yet.                                                          *)
LEMMA BooksConserve == ASSUME PoolAssumption, IInv, Books PROVE Conserved
<1>1. TypeOK /\ held \in Nat /\ retained \in Nat
  BY DEF IInv, TypeOK
<1>2. /\ Owing \in [Keys -> Int] /\ Total(Owing) \in Int
      /\ Unpaid \in [Keys -> Int] /\ Total(Unpaid) \in Int
  BY <1>1, OwingType
<1>3. ASSUME NEW k \in Keys PROVE Unpaid[k] <= Owing[k]
  <2>1. /\ Total(prizes[k]) \in Nat /\ Unclaimed(k) \in Nat /\ pool[k] \in Nat
        /\ Total(prizes[k]) <= pool[k]
    BY <1>1, PrizeTotals DEF TypeOK, Books, Backed
  <2> QED BY <2>1 DEF Owing, Unpaid, OwedBy
<1>4. Total(Unpaid) <= Total(Owing)
  BY <1>2, <1>3, KeysAreFinite, TotalMono
<1>5. held = retained + Total(Owing)
  BY DEF Books, Balance
<1>6. held - retained >= Total(Unpaid)
  BY <1>1, <1>2, <1>4, <1>5
<1> QED BY <1>5, <1>6 DEF Conserved, Owing, Unpaid

(* No unit is lost or paid twice, whatever is funded, settled, claimed and *)
(* swept, in any order.                                                    *)
THEOREM BooksBalance == ASSUME PoolAssumption PROVE Spec => []Conserved
<1>1. IInv /\ Books => Conserved
  BY BooksConserve
<1> QED BY <1>1, AlwaysBooks, PTL

(* The token never reverts a transfer: the balance covers each prize that  *)
(* may be claimed, beside what the owner may sweep.                        *)
TransfersSucceed ==
    /\ held >= retained
    /\ \A k \in Keys : \A a \in Accounts \ claimed[k] : held - retained >= prizes[k][a]

(* A winner can always claim, and the owner can always sweep: the          *)
(* conditions of Claim and Sweep on the balance hold whenever the others   *)
(* do, and stay so whichever of them goes first.                           *)
THEOREM NoTransferReverts == ASSUME PoolAssumption PROVE Spec => []TransfersSucceed
<1>1. ASSUME IInv, Books PROVE TransfersSucceed
  <2>1. TypeOK /\ held \in Nat /\ retained \in Nat
    BY <1>1 DEF IInv, TypeOK
  <2>2. Unpaid \in [Keys -> Nat] /\ Total(Unpaid) \in Nat /\ held - retained >= Total(Unpaid)
    BY <1>1, <2>1, OwingType, BooksConserve DEF Conserved, Unpaid
  <2>3. held >= retained
    BY <2>1, <2>2
  <2>4. ASSUME NEW k \in Keys, NEW a \in Accounts \ claimed[k]
        PROVE  held - retained >= prizes[k][a]
    <3> DEFINE S == Accounts \ claimed[k]
               f == [b \in S |-> prizes[k][b]]
    <3>1. prizes[k] \in [Accounts -> Nat]
      BY <2>1 DEF TypeOK
    <3>2. f \in [S -> Nat] /\ IsFiniteSet(S) /\ f[a] = prizes[k][a] /\ Unclaimed(k) = Total(f)
      BY <3>1, FS_Difference DEF PoolAssumption, Unclaimed
    <3> HIDE DEF S, f
    <3>3. f[a] <= Total(f)
      BY <3>2, TotalNat DEF S
    <3>4. Unpaid[k] <= Total(Unpaid) /\ Unpaid[k] = Unclaimed(k)
      BY <2>2, KeysAreFinite, TotalNat DEF Unpaid
    <3>5. prizes[k][a] \in Nat /\ Unclaimed(k) \in Nat
      BY <2>1, <3>1, PrizeTotals
    <3> QED BY <2>1, <2>2, <3>2, <3>3, <3>4, <3>5
  <2> QED BY <2>3, <2>4 DEF TransfersSucceed
<1>2. IInv /\ Books => TransfersSucceed
  BY <1>1
<1> QED BY <1>2, AlwaysBooks, PTL

-----------------------------------------------------------------------------
(* The indexer's fold *)

Given == [k \in Keys |-> contributed[k] + carriedIn[k]]
PaidOut == [k \in Keys |-> Total(prizes[k])]
TakenOut == [k \in Keys |-> Taken(k)]
KnownPools == {k \in Keys : IsKnown(k)}
SettledPools == {k \in Keys : settled[k]}

(* Only a finished week is settled, so it has a following one.             *)
SettledIsPast == \A k \in Keys : settled[k] => k[1] < now

(* What the steps of the fold need of the contract's state.                *)
FoldInv == IInv /\ Books /\ SettledIsPast

(* The Totals row, term by term.                                           *)
LEMMA TotalsRow ==
    IndexTotals = [funded |-> Total(Given), paid |-> Total(PaidOut), claimed |-> Total(TakenOut),
                   pools |-> Cardinality(KnownPools), settled |-> Cardinality(SettledPools)]
BY DEF IndexTotals, Given, PaidOut, TakenOut, KnownPools, SettledPools

(* The sums and counts of the two modules are the same operators.          *)
LEMMA SameTotal == ASSUME NEW f PROVE Index!Total(f) = Total(f)
BY DEF Index!Total, Total, MapThenSumSet, MapThenFoldSet, Index!MapThenSumSet, Index!MapThenFoldSet

LEMMA SameCardinality == ASSUME NEW S PROVE Index!Cardinality(S) = Cardinality(S)
BY DEF Index!Cardinality, Cardinality

(* The rows, and what makes two of them equal: their fields.               *)
Rows == [known : BOOLEAN, funded : Int, settled : BOOLEAN, carried : Int, claimed : Int]
TotalsRows == [funded : Int, paid : Int, claimed : Int, pools : Int, settled : Int]
PrizeRows == [amount : Int, claimed : BOOLEAN]

LEMMA RowsAreTheirFields ==
    /\ \A r, q \in Rows :
          /\ r.known = q.known /\ r.funded = q.funded /\ r.settled = q.settled
          /\ r.carried = q.carried /\ r.claimed = q.claimed
          => r = q
    /\ \A t, q \in TotalsRows :
          /\ t.funded = q.funded /\ t.paid = q.paid /\ t.claimed = q.claimed
          /\ t.pools = q.pools /\ t.settled = q.settled
          => t = q
    /\ \A p, q \in PrizeRows : p.amount = q.amount /\ p.claimed = q.claimed => p = q
<1>1. \A r, q \in Rows :
         /\ r.known = q.known /\ r.funded = q.funded /\ r.settled = q.settled
         /\ r.carried = q.carried /\ r.claimed = q.claimed
         => r = q
  BY DEF Rows
<1>2. \A t, q \in TotalsRows :
         /\ t.funded = q.funded /\ t.paid = q.paid /\ t.claimed = q.claimed
         /\ t.pools = q.pools /\ t.settled = q.settled
         => t = q
  BY DEF TotalsRows
<1>3. \A p, q \in PrizeRows : p.amount = q.amount /\ p.claimed = q.claimed => p = q
  BY DEF PrizeRows
<1> QED BY <1>1, <1>2, <1>3

(* What a funding does to a row.                                           *)
LEMMA FundingRow ==
    ASSUME NEW row \in Rows, NEW q \in Rows, q.known = TRUE,
           q.settled = row.settled, q.carried = row.carried, q.claimed = row.claimed
    PROVE  q = Index!Funding(row, q.funded)
<1> DEFINE e == [row EXCEPT !.known = TRUE, !.funded = q.funded]
<1>1. \A b \in BOOLEAN :
         /\ [row EXCEPT !.known = b, !.funded = q.funded] \in Rows
         /\ [row EXCEPT !.known = b, !.funded = q.funded].known = b
  BY DEF Rows
<1>2. e \in Rows /\ e.known = TRUE
  BY <1>1
<1>3. /\ e.funded = q.funded /\ e.settled = row.settled
      /\ e.carried = row.carried /\ e.claimed = row.claimed
  BY DEF Rows
<1>4. e = Index!Funding(row, q.funded)
  BY DEF Index!Funding
<1> HIDE DEF e
<1> QED BY <1>2, <1>3, <1>4, RowsAreTheirFields, ZenonT(30)

(* What a settlement does to a row.                                        *)
LEMMA SettlingRow ==
    ASSUME NEW row \in Rows, NEW q \in Rows, q.known = TRUE, q.settled = TRUE,
           q.funded = row.funded, q.claimed = row.claimed
    PROVE  q = Index!Settling(row, q.carried)
<1> DEFINE e == [row EXCEPT !.known = TRUE, !.settled = TRUE, !.carried = q.carried]
<1>1. \A b, c \in BOOLEAN :
         /\ [row EXCEPT !.known = b, !.settled = c, !.carried = q.carried] \in Rows
         /\ [row EXCEPT !.known = b, !.settled = c, !.carried = q.carried].known = b
         /\ [row EXCEPT !.known = b, !.settled = c, !.carried = q.carried].settled = c
  BY DEF Rows
<1>2. e \in Rows /\ e.known = TRUE /\ e.settled = TRUE
  BY <1>1
<1>3. e.funded = row.funded /\ e.carried = q.carried /\ e.claimed = row.claimed
  BY DEF Rows
<1>4. e = Index!Settling(row, q.carried)
  BY DEF Index!Settling
<1> HIDE DEF e
<1> QED BY <1>2, <1>3, <1>4, RowsAreTheirFields

(* What a funding, a settlement and a claim do to the totals.              *)
OneFunding(t, a, n) == [t EXCEPT !.funded = @ + a, !.pools = @ + n]
OneSettling(t, b, n) == [t EXCEPT !.paid = @ + b, !.settled = @ + 1, !.pools = @ + n]
OneCarrying(t, a, b, n) ==
    [t EXCEPT !.funded = @ + a, !.paid = @ + b, !.settled = @ + 1, !.pools = @ + n]
OneClaiming(t, a) == [t EXCEPT !.claimed = @ + a]
OnePrize(a) == [Index!NoPrize EXCEPT !.amount = a]

(* A prize row as a settlement writes it.                                  *)
LEMMA FreshPrize ==
    ASSUME NEW q \in PrizeRows, q.claimed = FALSE
    PROVE  q = OnePrize(q.amount)
<1> DEFINE none == [amount |-> 0, claimed |-> FALSE]
           e == [none EXCEPT !.amount = q.amount]
<1>1. none \in PrizeRows /\ none.claimed = FALSE
  BY DEF PrizeRows
<1> HIDE DEF none
<1>2. q.amount \in Int
  BY DEF PrizeRows
<1>3. e \in PrizeRows /\ e.amount = q.amount /\ e.claimed = none.claimed
  BY <1>1, <1>2 DEF PrizeRows
<1>4. e = OnePrize(q.amount)
  BY DEF Index!NoPrize, OnePrize, none
<1> HIDE DEF e
<1> QED BY <1>1, <1>3, <1>4, RowsAreTheirFields

(* The totals after a funding.                                             *)
LEMMA TotalsOfFunding ==
    ASSUME NEW t \in TotalsRows, NEW q \in TotalsRows, NEW a \in Int, NEW n \in Int,
           q.funded = t.funded + a, q.pools = t.pools + n,
           q.paid = t.paid, q.claimed = t.claimed, q.settled = t.settled
    PROVE  q = OneFunding(t, a, n)
<1> DEFINE e == OneFunding(t, a, n)
<1>1. /\ e \in TotalsRows /\ e.funded = t.funded + a /\ e.pools = t.pools + n
      /\ e.paid = t.paid /\ e.claimed = t.claimed /\ e.settled = t.settled
  BY DEF TotalsRows, OneFunding
<1> HIDE DEF e
<1>2. q = e
  BY <1>1, RowsAreTheirFields
<1> QED BY <1>2 DEF e

(* After a settlement that carries nothing.                               *)
LEMMA TotalsOfSettling ==
    ASSUME NEW t \in TotalsRows, NEW q \in TotalsRows, NEW b \in Int, NEW n \in Int,
           q.funded = t.funded, q.paid = t.paid + b, q.pools = t.pools + n,
           q.claimed = t.claimed, q.settled = t.settled + 1
    PROVE  q = OneSettling(t, b, n)
<1> DEFINE e == OneSettling(t, b, n)
<1>1. /\ e \in TotalsRows /\ e.funded = t.funded /\ e.pools = t.pools + n
      /\ e.paid = t.paid + b /\ e.claimed = t.claimed /\ e.settled = t.settled + 1
  BY DEF TotalsRows, OneSettling
<1> HIDE DEF e
<1>2. q = e
  BY <1>1, RowsAreTheirFields
<1> QED BY <1>2 DEF e

(* After one that carries.                                                 *)
LEMMA TotalsOfCarrying ==
    ASSUME NEW t \in TotalsRows, NEW q \in TotalsRows,
           NEW a \in Int, NEW b \in Int, NEW n \in Int,
           q.funded = t.funded + a, q.paid = t.paid + b, q.pools = t.pools + n,
           q.claimed = t.claimed, q.settled = t.settled + 1
    PROVE  q = OneCarrying(t, a, b, n)
<1> DEFINE e == OneCarrying(t, a, b, n)
<1>1. /\ e \in TotalsRows /\ e.funded = t.funded + a /\ e.pools = t.pools + n
      /\ e.paid = t.paid + b /\ e.claimed = t.claimed /\ e.settled = t.settled + 1
  BY DEF TotalsRows, OneCarrying
<1> HIDE DEF e
<1>2. q = e
  BY <1>1, RowsAreTheirFields
<1> QED BY <1>2 DEF e

(* After a claim.                                                          *)
LEMMA TotalsOfClaiming ==
    ASSUME NEW t \in TotalsRows, NEW q \in TotalsRows, NEW a \in Int,
           q.funded = t.funded, q.paid = t.paid, q.pools = t.pools,
           q.claimed = t.claimed + a, q.settled = t.settled
    PROVE  q = OneClaiming(t, a)
<1> DEFINE e == OneClaiming(t, a)
<1>1. /\ e \in TotalsRows /\ e.funded = t.funded /\ e.pools = t.pools
      /\ e.paid = t.paid /\ e.claimed = t.claimed + a /\ e.settled = t.settled
  BY DEF TotalsRows, OneClaiming
<1> HIDE DEF e
<1>2. q = e
  BY <1>1, RowsAreTheirFields
<1> QED BY <1>2 DEF e

(* Types of the terms.                                                     *)
LEMMA GivenTypes ==
    ASSUME PoolAssumption
    PROVE  TypeOK => /\ Given \in [Keys -> Int] /\ PaidOut \in [Keys -> Int]
                     /\ TakenOut \in [Keys -> Int]
<1> SUFFICES ASSUME TypeOK
             PROVE  /\ Given \in [Keys -> Int] /\ PaidOut \in [Keys -> Int]
                    /\ TakenOut \in [Keys -> Int]
  OBVIOUS
<1>1. Given \in [Keys -> Int]
  BY DEF Given, TypeOK
<1>2. PaidOut \in [Keys -> Int] /\ TakenOut \in [Keys -> Int]
  BY PrizeTotals DEF PaidOut, TakenOut, Taken
<1> QED BY <1>1, <1>2

LEMMA TermTypes ==
    ASSUME PoolAssumption, TypeOK
    PROVE  /\ Given \in [Keys -> Int] /\ Total(Given) \in Int
           /\ PaidOut \in [Keys -> Int] /\ Total(PaidOut) \in Int
           /\ TakenOut \in [Keys -> Int] /\ Total(TakenOut) \in Int
           /\ IsFiniteSet(KnownPools) /\ IsFiniteSet(SettledPools)
           /\ Cardinality(KnownPools) \in Nat /\ Cardinality(SettledPools) \in Nat
<1>1. /\ Given \in [Keys -> Int] /\ PaidOut \in [Keys -> Int]
      /\ TakenOut \in [Keys -> Int]
  BY GivenTypes
<1>2. KnownPools \in SUBSET Keys /\ SettledPools \in SUBSET Keys
  BY DEF KnownPools, SettledPools
<1>3. IsFiniteSet(KnownPools) /\ IsFiniteSet(SettledPools)
  BY <1>2, KeysAreFinite, FS_Subset
<1> QED BY <1>1, <1>3, KeysAreFinite, TotalType, FS_CardinalityType

(* Pools heard of for the first time are counted, the others are not.      *)
LEMMA CountNew ==
    ASSUME PoolAssumption, TypeOK, NEW ks \in SUBSET Keys, KnownPools' = KnownPools \cup ks
    PROVE  Cardinality(KnownPools') = Cardinality(KnownPools) + Index!New(ks)
<1> DEFINE fresh == {k \in ks : ~IndexPools[k].known}
<1>1. fresh = ks \ KnownPools
  BY DEF IndexPools, KnownPools
<1>2. IsFiniteSet(KnownPools) /\ IsFiniteSet(fresh)
  <2>1. fresh \in SUBSET Keys
    OBVIOUS
  <2> QED BY <2>1, TermTypes, KeysAreFinite, FS_Subset
<1>3. KnownPools' = KnownPools \cup fresh /\ KnownPools \cap fresh = {}
  BY <1>1
<1>4. Cardinality({}) = 0
  BY FS_EmptySet
<1>5. Cardinality(fresh) \in Nat /\ Cardinality(KnownPools) \in Nat
  BY <1>2, FS_CardinalityType
<1> HIDE DEF fresh
<1>6. Cardinality(KnownPools \cup fresh)
         = Cardinality(KnownPools) + Cardinality(fresh) - Cardinality(KnownPools \cap fresh)
  BY <1>2, FS_Union, Zenon
<1>7. Cardinality(KnownPools \cup fresh) = Cardinality(KnownPools) + Cardinality(fresh)
  <2>1. Cardinality(KnownPools \cap fresh) = 0
    BY <1>3, <1>4
  <2> QED BY <1>5, <1>6, <2>1
<1>8. Cardinality(KnownPools') = Cardinality(KnownPools) + Cardinality(fresh)
  BY <1>3, <1>7
<1>9. Index!New(ks) = Cardinality(fresh)
  BY SameCardinality DEF Index!New, fresh
<1> QED BY <1>8, <1>9

(* And the count is a number.                                              *)
LEMMA NewIsANumber ==
    ASSUME PoolAssumption, TypeOK, NEW ks \in SUBSET Keys PROVE Index!New(ks) \in Int
<1>1. {k \in ks : ~IndexPools[k].known} \in SUBSET Keys
  OBVIOUS
<1>2. IsFiniteSet({k \in ks : ~IndexPools[k].known})
  BY <1>1, KeysAreFinite, FS_Subset
<1> QED BY <1>2, SameCardinality, FS_CardinalityType DEF Index!New

(* A row of a pool, and what a wallet reads there, follow from its storage.*)
LEMMA RowStays ==
    ASSUME NEW k \in Keys,
           pool'[k] = pool[k], settled'[k] = settled[k], prizes'[k] = prizes[k],
           claimed'[k] = claimed[k], contributed'[k] = contributed[k],
           carriedIn'[k] = carriedIn[k],
           settled[k] => carriedIn'[Following(k)] = carriedIn[Following(k)]
    PROVE  /\ IndexPools'[k] = IndexPools[k]
           /\ IndexPrizes'[k] = IndexPrizes[k]
           /\ PaidOut'[k] = PaidOut[k] /\ TakenOut'[k] = TakenOut[k]
           /\ Given'[k] = Given[k]
           /\ k \in KnownPools' <=> k \in KnownPools
           /\ k \in SettledPools' <=> k \in SettledPools
<1>1. IsKnown(k)' = IsKnown(k) /\ LastTotal(k)' = LastTotal(k) /\ CarriedTo(k)' = CarriedTo(k)
  BY DEF IsKnown, LastTotal, CarriedTo, Following
<1>2. Taken(k)' = Taken(k)
  BY DEF Taken, Unclaimed
<1> QED
  BY <1>1, <1>2 DEF IndexPools, IndexPrizes, PaidOut, TakenOut, Given, KnownPools, SettledPools

(* An unsettled pool's row: nothing carried, nothing claimed, and the      *)
(* total of its last funding is what it holds.                             *)
LEMMA UnsettledRow ==
    ASSUME PoolAssumption, IInv, NEW k \in Keys, ~settled[k]
    PROVE  /\ IndexPools[k] = [known |-> IsKnown(k), funded |-> pool[k], settled |-> FALSE,
                               carried |-> 0, claimed |-> 0]
           /\ TakenOut[k] = 0 /\ PaidOut[k] = 0
           /\ IsKnown(k) <=> pool[k] > 0
           /\ Given[k] = pool[k]
<1>1. Total(prizes[k]) = 0 /\ Unclaimed(k) = 0
  BY UnsettledOwesItsPool
<1>2. pool[k] = contributed[k] + carriedIn[k] /\ settled \in [Keys -> BOOLEAN]
  BY DEF IInv, UnsettledPoolIsOwnPlusCarried, TypeOK
<1>3. settled[k] = FALSE
  BY <1>2
<1>4. LastTotal(k) = pool[k] /\ CarriedTo(k) = 0 /\ Taken(k) = 0
  BY <1>1 DEF LastTotal, CarriedTo, Taken
<1>5. IsKnown(k) <=> pool[k] > 0
  BY <1>2 DEF IsKnown
<1> QED BY <1>1, <1>2, <1>3, <1>4, <1>5 DEF IndexPools, TakenOut, PaidOut, Given

(* Only weeks before this one are settled, and the clock goes forward.     *)
LEMMA SettledPast ==
    ASSUME PoolAssumption, IInv, SettledIsPast, [Next]_vars PROVE SettledIsPast'
<1>1. now' \in Nat /\ now \in Nat /\ now' >= now
  BY DEF IInv, TypeOK, Weeks, Next, NextWeek, SetSettler, SetOwner, Fund, Settle, Claim, Sweep,
         vars, PoolAssumption
<1>2. \A k \in Keys : k[1] \in Nat
  BY DEF Keys, Weeks
<1>3. ASSUME NEW k \in Keys, settled'[k], ~settled[k] PROVE k[1] < now
  <2>1. CASE \E caller \in Accounts, j \in Keys :
                \E paid \in 0 .. pool[j], won \in [Accounts -> 0 .. pool[j]] :
                   Total(won) = paid /\ Settle(caller, j, won, paid)
    <3>1. PICK caller \in Accounts, j \in Keys :
                 /\ j[1] < now /\ settled' = [settled EXCEPT ![j] = TRUE]
      BY <2>1 DEF Settle, CanSettle
    <3> QED BY <1>3, <3>1 DEF IInv, TypeOK
  <2> QED
    BY <1>3, <2>1 DEF Next, NextWeek, SetSettler, SetOwner, Fund, Claim, Sweep, vars, moneyVars
<1> QED BY <1>1, <1>2, <1>3 DEF SettledIsPast

(* At first the fold has heard of nothing.                                 *)
LEMMA InitIndex == ASSUME PoolAssumption, Init PROVE Index!Init
<1>1. IInv /\ \A k \in Keys : ~settled[k] /\ pool[k] = 0
  BY InitIInv DEF Init
<1>2. ASSUME NEW k \in Keys
      PROVE  /\ IndexPools[k] = Index!NoPool
             /\ TakenOut[k] = 0 /\ PaidOut[k] = 0 /\ Given[k] = 0 /\ ~IsKnown(k)
  <2>1. ~settled[k] /\ contributed[k] = 0 /\ carriedIn[k] = 0 /\ settled[k] = FALSE
    BY DEF Init
  <2>2. IsKnown(k) = FALSE
    BY <2>1 DEF IsKnown
  <2> QED BY <1>1, <2>2, UnsettledRow DEF Index!NoPool
<1>3. IndexPools = [k \in Keys |-> Index!NoPool]
  BY <1>2 DEF IndexPools
<1>4. /\ Given = [k \in Keys |-> 0] /\ PaidOut = [k \in Keys |-> 0]
      /\ TakenOut = [k \in Keys |-> 0]
  BY <1>2 DEF Given, PaidOut, TakenOut
<1>5. KnownPools = {} /\ SettledPools = {}
  BY <1>1, <1>2 DEF KnownPools, SettledPools
<1>6. Cardinality({}) = 0
  BY FS_EmptySet
<1>7. IndexTotals = [funded |-> 0, paid |-> 0, claimed |-> 0, pools |-> 0, settled |-> 0]
  BY <1>4, <1>5, <1>6, KeysAreFinite, TotalZero, TotalsRow
<1>8. IndexPrizes = [k \in Keys |-> [a \in Accounts |-> Index!NoPrize]]
  <2>1. ASSUME NEW k \in Keys, NEW a \in Accounts
        PROVE  [amount |-> prizes[k][a], claimed |-> a \in claimed[k]] = Index!NoPrize
    <3>1. prizes[k][a] = 0 /\ (a \in claimed[k]) = FALSE
      BY DEF Init, NoPrizes
    <3> QED BY <3>1 DEF Index!NoPrize
  <2> QED BY <2>1 DEF IndexPrizes
<1> QED BY <1>3, <1>7, <1>8 DEF Index!Init

(* A settled pool has a following one, within the weeks of the model.      *)
LEMMA SettledHasNext ==
    ASSUME PoolAssumption, IInv, SettledIsPast, NEW k \in Keys, settled[k]
    PROVE  Following(k) \in Keys /\ Following(k) # k
<1>1. k[1] \in Nat /\ now \in Nat /\ now <= LastWeek /\ k[1] < now
  BY DEF IInv, TypeOK, Keys, Weeks, PoolAssumption, SettledIsPast
<1>2. k[1] < LastWeek
  BY <1>1 DEF PoolAssumption
<1> QED BY <1>2, FollowingKey

(* Every row has its type.                                                 *)
LEMMA RowTypes ==
    ASSUME PoolAssumption
    PROVE  FoldInv => /\ IndexTotals \in TotalsRows
                      /\ IndexPools \in [Keys -> Rows]
                      /\ IndexPrizes \in [Keys -> [Accounts -> PrizeRows]]
<1> SUFFICES ASSUME FoldInv
             PROVE  /\ IndexTotals \in TotalsRows
                    /\ IndexPools \in [Keys -> Rows]
                    /\ IndexPrizes \in [Keys -> [Accounts -> PrizeRows]]
  OBVIOUS
<1>1. IInv /\ TypeOK /\ SettledIsPast
  BY DEF FoldInv, IInv
<1>2. IndexTotals \in TotalsRows
  BY <1>1, TermTypes, TotalsRow DEF TotalsRows
<1>3. ASSUME NEW k \in Keys
      PROVE  [known |-> IsKnown(k), funded |-> LastTotal(k), settled |-> settled[k],
              carried |-> CarriedTo(k), claimed |-> Taken(k)] \in Rows
  <2>1. /\ pool[k] \in Nat /\ contributed[k] \in Nat /\ carriedIn[k] \in Nat
        /\ settled[k] \in BOOLEAN /\ Total(prizes[k]) \in Nat /\ Unclaimed(k) \in Nat
    BY <1>1, PrizeTotals DEF TypeOK
  <2>2. IsKnown(k) \in BOOLEAN /\ LastTotal(k) \in Int /\ Taken(k) \in Int
    BY <2>1 DEF IsKnown, LastTotal, Taken
  <2>3. CarriedTo(k) \in Int
    BY <1>1, SettledHasNext DEF CarriedTo, TypeOK
  <2> QED BY <2>1, <2>2, <2>3 DEF Rows
<1>4. IndexPools \in [Keys -> Rows]
  BY <1>3 DEF IndexPools
<1>5. ASSUME NEW k \in Keys, NEW a \in Accounts
      PROVE  [amount |-> prizes[k][a], claimed |-> a \in claimed[k]] \in PrizeRows
  <2>1. prizes[k][a] \in Int /\ (a \in claimed[k]) \in BOOLEAN
    BY <1>1 DEF TypeOK
  <2> QED BY <2>1 DEF PrizeRows
<1>6. IndexPrizes \in [Keys -> [Accounts -> PrizeRows]]
  BY <1>5 DEF IndexPrizes
<1> QED BY <1>2, <1>4, <1>6

(* The types before and after a step.                                      *)
LEMMA StepTypes ==
    ASSUME PoolAssumption, FoldInv, FoldInv'
    PROVE  /\ IndexTotals \in TotalsRows /\ IndexTotals' \in TotalsRows
           /\ IndexPools \in [Keys -> Rows] /\ IndexPools' \in [Keys -> Rows]
           /\ IndexPrizes' \in [Keys -> [Accounts -> PrizeRows]]
           /\ Given \in [Keys -> Int] /\ Given' \in [Keys -> Int]
           /\ PaidOut \in [Keys -> Int] /\ PaidOut' \in [Keys -> Int]
           /\ TakenOut \in [Keys -> Int] /\ TakenOut' \in [Keys -> Int]
           /\ Total(Given) \in Int /\ Total(PaidOut) \in Int /\ Total(TakenOut) \in Int
<1> DEFINE Typed ==
             /\ IndexTotals \in TotalsRows /\ IndexPools \in [Keys -> Rows]
             /\ IndexPrizes \in [Keys -> [Accounts -> PrizeRows]]
             /\ Given \in [Keys -> Int] /\ PaidOut \in [Keys -> Int]
             /\ TakenOut \in [Keys -> Int]
<1>1. FoldInv => TypeOK
  BY DEF FoldInv, IInv
<1>2. (FoldInv => TypeOK)'
  BY DEF FoldInv, IInv
<1>3. Typed
  BY <1>1, RowTypes, TermTypes
<1>4. (TypeOK => /\ Given \in [Keys -> Int] /\ PaidOut \in [Keys -> Int]
                 /\ TakenOut \in [Keys -> Int])'
  BY GivenTypes, PTL
<1>5. (FoldInv => /\ IndexTotals \in TotalsRows
                  /\ IndexPools \in [Keys -> Rows]
                  /\ IndexPrizes \in [Keys -> [Accounts -> PrizeRows]])'
  BY RowTypes, PTL
<1> QED BY <1>1, <1>2, <1>3, <1>4, <1>5, TermTypes


(* The fields of a row, and of the totals, before and after a step.        *)
LEMMA Fields ==
    /\ \A k \in Keys :
          /\ IndexPools[k].known = IsKnown(k) /\ IndexPools[k].funded = LastTotal(k)
          /\ IndexPools[k].settled = settled[k] /\ IndexPools[k].carried = CarriedTo(k)
          /\ IndexPools[k].claimed = Taken(k)
          /\ k \in KnownPools <=> IsKnown(k)
    /\ IndexTotals.funded = Total(Given) /\ IndexTotals.paid = Total(PaidOut)
    /\ IndexTotals.claimed = Total(TakenOut)
    /\ IndexTotals.pools = Cardinality(KnownPools)
    /\ IndexTotals.settled = Cardinality(SettledPools)
BY TotalsRow DEF IndexPools, KnownPools

(* The same after it.                                                      *)
LEMMA FieldsAfter ==
    /\ \A k \in Keys :
          /\ IndexPools'[k].known = IsKnown(k)' /\ IndexPools'[k].funded = LastTotal(k)'
          /\ IndexPools'[k].settled = settled'[k] /\ IndexPools'[k].carried = CarriedTo(k)'
          /\ IndexPools'[k].claimed = Taken(k)'
          /\ k \in KnownPools' <=> IsKnown(k)'
    /\ IndexTotals'.funded = Total(Given') /\ IndexTotals'.paid = Total(PaidOut')
    /\ IndexTotals'.claimed = Total(TakenOut')
    /\ IndexTotals'.pools = Cardinality(KnownPools')
    /\ IndexTotals'.settled = Cardinality(SettledPools')
<1>1. IndexTotals' = [funded |-> Total(Given'), paid |-> Total(PaidOut'),
                      claimed |-> Total(TakenOut'), pools |-> Cardinality(KnownPools'),
                      settled |-> Cardinality(SettledPools')]
  BY DEF IndexTotals, Given, PaidOut, TakenOut, KnownPools, SettledPools
<1> QED BY <1>1 DEF IndexPools, KnownPools

(* PoolFunded is one funding of the fold.                                  *)
LEMMA FundIndex ==
    ASSUME PoolAssumption, FoldInv, FoldInv', NEW k \in Keys, NEW amount \in Nat,
           Fund(k, amount)
    PROVE  Index!Funded(k)
<1>1. /\ pool' = [pool EXCEPT ![k] = @ + amount]
      /\ contributed' = [contributed EXCEPT ![k] = @ + amount]
      /\ UNCHANGED <<settled, prizes, claimed, carriedIn>>
      /\ amount > 0 /\ ~settled[k]
  BY DEF Fund
<1>2. /\ TypeOK /\ pool[k] \in Nat /\ contributed[k] \in Nat /\ carriedIn[k] \in Nat
      /\ pool'[k] = pool[k] + amount /\ contributed'[k] = contributed[k] + amount
  BY <1>1 DEF FoldInv, IInv, TypeOK
<1>3. \A j \in Keys : j # k => pool'[j] = pool[j] /\ contributed'[j] = contributed[j]
  BY <1>1 DEF FoldInv, IInv, TypeOK
<1>4. ASSUME NEW j \in Keys, j # k
      PROVE  /\ IndexPools'[j] = IndexPools[j] /\ Given'[j] = Given[j]
             /\ j \in KnownPools' <=> j \in KnownPools
  BY <1>1, <1>3, <1>4, RowStays
<1>5. IsKnown(k)' = TRUE /\ k \in KnownPools'
  BY <1>1, <1>2 DEF IsKnown, KnownPools
<1>6. LastTotal(k)' = pool[k] + amount
  BY <1>1, <1>2 DEF LastTotal
<1>7. /\ settled'[k] = settled[k] /\ CarriedTo(k)' = CarriedTo(k) /\ Taken(k)' = Taken(k)
      /\ PaidOut' = PaidOut /\ TakenOut' = TakenOut /\ SettledPools' = SettledPools
  BY <1>1 DEF CarriedTo, Following, Taken, Unclaimed, PaidOut, TakenOut, SettledPools
<1>8. Given'[k] = Given[k] + amount
  BY <1>1, <1>2 DEF Given
<1>9. IndexPools'[k] = Index!Funding(IndexPools[k], IndexPools'[k].funded)
  <2>1. IndexPools[k] \in Rows /\ IndexPools'[k] \in Rows
    BY StepTypes
  <2>2. /\ IndexPools'[k].known = TRUE
        /\ IndexPools'[k].settled = IndexPools[k].settled
        /\ IndexPools'[k].carried = IndexPools[k].carried
        /\ IndexPools'[k].claimed = IndexPools[k].claimed
    BY <1>5, <1>7, Fields, FieldsAfter
  <2> QED BY <2>1, <2>2, FundingRow
<1>10. Index!PoolsBut({k})
  BY <1>4 DEF Index!PoolsBut
<1>11. IndexPrizes' = IndexPrizes
  BY <1>1 DEF IndexPrizes
<1>12. Total(Given') = Total(Given) + amount
  <2>1. Total(Given') = Total(Given) - Given[k] + Given'[k]
    <3>1. Given \in [Keys -> Int] /\ Given' \in [Keys -> Int] /\ IsFiniteSet(Keys)
      BY StepTypes, KeysAreFinite
    <3> QED BY <1>4, <3>1, TotalBump
  <2>2. Total(Given) \in Int /\ Given[k] \in Int
    BY StepTypes
  <2> QED BY <1>8, <2>1, <2>2
<1>13. Cardinality(KnownPools') = Cardinality(KnownPools) + Index!New({k})
  <2>1. KnownPools' = KnownPools \cup {k}
    BY <1>4, <1>5 DEF KnownPools
  <2> QED BY <1>2, <2>1, CountNew
<1>14. Index!New({k}) \in Int
  BY <1>2, NewIsANumber
<1>15. IndexTotals' = [IndexTotals EXCEPT !.funded = @ + amount, !.pools = @ + Index!New({k})]
  <2>1. IndexTotals \in TotalsRows /\ IndexTotals' \in TotalsRows
    BY StepTypes
  <2>2. /\ IndexTotals'.funded = IndexTotals.funded + amount
        /\ IndexTotals'.pools = IndexTotals.pools + Index!New({k})
        /\ IndexTotals'.paid = IndexTotals.paid /\ IndexTotals'.claimed = IndexTotals.claimed
        /\ IndexTotals'.settled = IndexTotals.settled
    BY <1>7, <1>12, <1>13, Fields, FieldsAfter
  <2>3. IndexTotals' = OneFunding(IndexTotals, amount, Index!New({k}))
    BY <1>14, <2>1, <2>2, TotalsOfFunding
  <2> QED BY <2>3 DEF OneFunding
<1>16. amount \in 1 .. IndexPools'[k].funded
  BY <1>1, <1>2, <1>6, FieldsAfter
<1> QED BY <1>9, <1>10, <1>11, <1>15, <1>16 DEF Index!Funded

(* What a settlement does to the storage, in the terms of the fold.        *)
SettleFacts(k, paid) ==
    LET n == Following(k)
        c == Carried(k, paid)
    IN  /\ n \in Keys /\ n # k /\ c \in Nat
        /\ ~settled[k] /\ settled'[k] /\ carriedIn'[n] = c /\ carriedIn[n] = 0
        /\ pool'[n] = pool[n] + c
        /\ Total(prizes'[k]) = paid /\ pool'[k] = paid /\ claimed'[k] = {}
        /\ carriedIn'[k] = carriedIn[k]
        /\ contributed' = contributed
        /\ \A j \in Keys : j # k =>
              /\ settled'[j] = settled[j] /\ prizes'[j] = prizes[j] /\ claimed'[j] = claimed[j]
              /\ j # n => pool'[j] = pool[j] /\ carriedIn'[j] = carriedIn[j]
              /\ settled[j] => carriedIn'[Following(j)] = carriedIn[Following(j)]

LEMMA SettleDoes ==
    ASSUME PoolAssumption, FoldInv, NEW caller \in Accounts, NEW k \in Keys,
           NEW paid \in Nat, NEW won \in [Accounts -> Nat], Total(won) = paid,
           Settle(caller, k, won, paid)
    PROVE  SettleFacts(k, paid)
<1> DEFINE n == Following(k)
           c == Carried(k, paid)
<1>1. /\ IInv /\ TypeOK /\ SettledIsPast
      /\ ~settled[k] /\ pool[k] >= carriedIn[k] /\ paid <= pool[k] /\ k[1] < now
  BY DEF FoldInv, IInv, Settle, CanSettle
<1>2. k[1] < LastWeek
  <2>1. k[1] \in Nat /\ now \in Nat /\ now <= LastWeek
    BY <1>1 DEF TypeOK, Keys, Weeks, PoolAssumption
  <2> QED BY <1>1, <2>1 DEF PoolAssumption
<1>3. n \in Keys /\ n # k
  BY <1>2, FollowingKey
<1>4. c \in Nat
  BY <1>1, RestSplitsThePool
<1>5. /\ pool' = [pool EXCEPT ![k] = paid, ![n] = @ + c]
      /\ carriedIn' = [carriedIn EXCEPT ![n] = @ + c]
      /\ settled' = [settled EXCEPT ![k] = TRUE]
      /\ prizes' = [prizes EXCEPT ![k] = [a \in Accounts |-> @[a] + won[a]]]
      /\ claimed' = claimed /\ contributed' = contributed
  BY DEF Settle
<1>6. carriedIn[n] = 0
  BY <1>1, <1>3 DEF IInv, CarriedOnce, TypeOK
<1> HIDE DEF n, c
<1>7. /\ pool'[k] = paid /\ pool'[n] = pool[n] + c /\ settled'[k]
      /\ carriedIn'[n] = c /\ carriedIn'[k] = carriedIn[k]
  BY <1>1, <1>3, <1>4, <1>5, <1>6 DEF TypeOK
<1>8. claimed'[k] = {}
  BY <1>1, <1>5 DEF IInv, UnsettledPoolIsOwnPlusCarried
<1>9. prizes'[k] = won
  <2>1. \A a \in Accounts : prizes[k][a] = 0 /\ won[a] \in Nat
    BY <1>1 DEF IInv, UnsettledPoolIsOwnPlusCarried, NoPrizes
  <2>2. prizes'[k] = [a \in Accounts |-> prizes[k][a] + won[a]]
    BY <1>1, <1>5 DEF TypeOK
  <2>3. \A a \in Accounts : prizes[k][a] + won[a] = won[a]
    BY <2>1
  <2> QED BY <2>2, <2>3
<1>10. ASSUME NEW j \in Keys, j # k
       PROVE  /\ settled'[j] = settled[j] /\ prizes'[j] = prizes[j] /\ claimed'[j] = claimed[j]
              /\ j # n => pool'[j] = pool[j] /\ carriedIn'[j] = carriedIn[j]
              /\ settled[j] => carriedIn'[Following(j)] = carriedIn[Following(j)]
  <2>1. settled'[j] = settled[j] /\ prizes'[j] = prizes[j] /\ claimed'[j] = claimed[j]
    BY <1>1, <1>5, <1>10 DEF TypeOK
  <2>2. j # n => pool'[j] = pool[j] /\ carriedIn'[j] = carriedIn[j]
    BY <1>1, <1>5, <1>10 DEF TypeOK
  <2>3. ASSUME settled[j] PROVE carriedIn'[Following(j)] = carriedIn[Following(j)]
    <3>1. Following(j) \in Keys
      BY <1>1, <2>3, SettledHasNext
    <3>2. Following(j) # n
      BY <1>10, FollowingInjective DEF n
    <3> QED BY <1>1, <1>5, <3>1, <3>2 DEF TypeOK
  <2> QED BY <2>1, <2>2, <2>3
<1>11. Total(prizes'[k]) = paid
  BY <1>9
<1> QED
  BY <1>1, <1>3, <1>4, <1>5, <1>6, <1>7, <1>8, <1>10, <1>11 DEF SettleFacts, n, c

(* What the fold sees of a settlement, whether or not it carries anything. *)
LEMMA SettleSeen ==
    ASSUME PoolAssumption, FoldInv, FoldInv', NEW k \in Keys, NEW paid \in Nat,
           SettleFacts(k, paid)
    PROVE  /\ IndexPools'[k] = Index!Settling(IndexPools[k], Carried(k, paid))
           /\ IndexPools'[k].carried = Carried(k, paid) /\ k \in KnownPools'
           /\ \A j \in Keys \ {k, Following(k)} :
                 /\ IndexPools'[j] = IndexPools[j] /\ Given'[j] = Given[j]
                 /\ j \in KnownPools' <=> j \in KnownPools
           /\ Given'[k] = Given[k]
           /\ Given'[Following(k)] = Given[Following(k)] + Carried(k, paid)
           /\ Index!Rewritten(k, Accounts) /\ Index!Paid(k, Accounts) = paid
           /\ Total(PaidOut') = Total(PaidOut) + paid /\ TakenOut' = TakenOut
           /\ Cardinality(SettledPools') = Cardinality(SettledPools) + 1
<1> DEFINE n == Following(k)
           c == Carried(k, paid)
<1>1. /\ n \in Keys /\ n # k /\ c \in Nat
      /\ ~settled[k] /\ settled'[k] /\ carriedIn'[n] = c /\ carriedIn[n] = 0
      /\ Total(prizes'[k]) = paid /\ pool'[k] = paid /\ claimed'[k] = {}
      /\ carriedIn'[k] = carriedIn[k] /\ contributed' = contributed
  BY DEF SettleFacts
<1>2. ASSUME NEW j \in Keys, j # k
      PROVE  /\ settled'[j] = settled[j] /\ prizes'[j] = prizes[j] /\ claimed'[j] = claimed[j]
             /\ j # n => pool'[j] = pool[j] /\ carriedIn'[j] = carriedIn[j]
             /\ settled[j] => carriedIn'[Following(j)] = carriedIn[Following(j)]
  BY <1>2 DEF SettleFacts
<1> HIDE DEF n, c
<1>3. IInv /\ TypeOK
  BY DEF FoldInv, IInv
<1>4. ASSUME NEW j \in Keys \ {k, n}
      PROVE  /\ IndexPools'[j] = IndexPools[j] /\ IndexPrizes'[j] = IndexPrizes[j]
             /\ Given'[j] = Given[j]
             /\ j \in KnownPools' <=> j \in KnownPools
  BY <1>1, <1>2, RowStays
<1>5. Unclaimed(k)' = paid
  <2>1. prizes'[k] \in [Accounts -> Nat]
    BY DEF FoldInv, IInv, TypeOK
  <2>2. [a \in Accounts \ claimed'[k] |-> prizes'[k][a]] = prizes'[k]
    BY <1>1, <2>1
  <2>3. Total([a \in Accounts \ claimed'[k] |-> prizes'[k][a]]) = paid
    BY <1>1, <2>2
  <2> QED BY <2>3 DEF Unclaimed
<1>6. Total(prizes[k]) = 0 /\ Unclaimed(k) = 0
  BY <1>1, <1>3, UnsettledOwesItsPool
<1>7. Taken(k)' = 0 /\ Taken(k) = 0
  BY <1>1, <1>5, <1>6 DEF Taken
<1>8. /\ LastTotal(k)' = LastTotal(k) /\ CarriedTo(k)' = c /\ IsKnown(k)' = TRUE
  <2>1. pool[k] = contributed[k] + carriedIn[k]
    BY <1>1, <1>3 DEF IInv, UnsettledPoolIsOwnPlusCarried
  <2>2. LastTotal(k) = pool[k]
    BY <1>1 DEF LastTotal
  <2>3. LastTotal(k)' = contributed[k] + carriedIn[k]
    BY <1>1 DEF LastTotal
  <2>4. CarriedTo(k)' = c
    BY <1>1 DEF CarriedTo, n, Following
  <2>5. IsKnown(k)' = TRUE
    BY <1>1 DEF IsKnown
  <2> QED BY <2>1, <2>2, <2>3, <2>4, <2>5
<1>9. IndexPools'[k].carried = c /\ k \in KnownPools'
  BY <1>8, FieldsAfter
<1>10. IndexPools'[k] = Index!Settling(IndexPools[k], c)
  <2>1. IndexPools[k] \in Rows /\ IndexPools'[k] \in Rows
    BY StepTypes
  <2>2. settled'[k] = TRUE
    BY <1>1 DEF FoldInv, IInv, TypeOK
  <2>3. /\ IndexPools'[k].known = TRUE /\ IndexPools'[k].settled = TRUE
        /\ IndexPools'[k].funded = IndexPools[k].funded
        /\ IndexPools'[k].claimed = IndexPools[k].claimed
    BY <1>7, <1>8, <2>2, Fields, FieldsAfter
  <2>4. IndexPools'[k] = Index!Settling(IndexPools[k], IndexPools'[k].carried)
    BY <2>1, <2>3, SettlingRow
  <2> QED BY <1>9, <2>4
<1>11. Given'[k] = Given[k] /\ Given'[n] = Given[n] + c
  BY <1>1, <1>3 DEF Given, TypeOK
<1>12. ASSUME NEW w \in Accounts
       PROVE  IndexPrizes'[k][w] = [Index!NoPrize EXCEPT !.amount = IndexPrizes'[k][w].amount]
  <2>1. IndexPrizes'[k][w] \in PrizeRows
    BY StepTypes
  <2>2. IndexPrizes'[k][w].claimed = FALSE
    <3>1. (w \in claimed'[k]) = FALSE
      BY <1>1
    <3>2. IndexPrizes'[k][w].claimed = (w \in claimed'[k])
      BY DEF IndexPrizes
    <3> QED BY <3>1, <3>2
  <2>3. IndexPrizes'[k][w] = OnePrize(IndexPrizes'[k][w].amount)
    BY <2>1, <2>2, FreshPrize
  <2> QED BY <2>3 DEF OnePrize
<1>13. ASSUME NEW j \in Keys \ {k} PROVE IndexPrizes'[j] = IndexPrizes[j]
  BY <1>2 DEF IndexPrizes
<1>14. Index!Rewritten(k, Accounts)
  BY <1>12, <1>13 DEF Index!Rewritten
<1>15. Index!Paid(k, Accounts) = paid
  <2>1. prizes'[k] \in [Accounts -> Nat]
    BY DEF FoldInv, IInv, TypeOK
  <2>2. \A w \in Accounts : IndexPrizes'[k][w].amount = prizes'[k][w]
    BY DEF IndexPrizes
  <2>3. [w \in Accounts |-> IndexPrizes'[k][w].amount] = prizes'[k]
    BY <2>1, <2>2
  <2> QED BY <1>1, <2>3, SameTotal DEF Index!Paid
<1>16. Total(PaidOut') = Total(PaidOut) + paid
  <2>1. PaidOut'[k] = paid /\ PaidOut[k] = 0
    BY <1>1, <1>6 DEF PaidOut
  <2>2. \A j \in Keys : j # k => PaidOut'[j] = PaidOut[j]
    BY <1>2 DEF PaidOut
  <2>3. PaidOut \in [Keys -> Int] /\ PaidOut' \in [Keys -> Int] /\ IsFiniteSet(Keys)
    BY StepTypes, KeysAreFinite
  <2>4. Total(PaidOut') = Total(PaidOut) - PaidOut[k] + PaidOut'[k]
    BY <2>2, <2>3, TotalBump
  <2>5. Total(PaidOut) \in Int
    BY StepTypes
  <2> QED BY <2>1, <2>4, <2>5
<1>17. TakenOut' = TakenOut
  <2>1. \A j \in Keys : Taken(j)' = Taken(j)
    BY <1>2, <1>7 DEF Taken, Unclaimed
  <2> QED BY <2>1 DEF TakenOut
<1>18. Cardinality(SettledPools') = Cardinality(SettledPools) + 1
  <2>1. SettledPools' = SettledPools \cup {k} /\ k \notin SettledPools
    BY <1>1, <1>2 DEF SettledPools
  <2> QED BY <1>3, <2>1, TermTypes, FS_AddElement
<1> QED
  BY <1>4, <1>9, <1>10, <1>11, <1>14, <1>15, <1>16, <1>17, <1>18 DEF n, c

(* WeekSettled alone, when all was paid or what is left stays.             *)
LEMMA SettleIndex ==
    ASSUME PoolAssumption, FoldInv, FoldInv', NEW k \in Keys, NEW paid \in Nat,
           SettleFacts(k, paid), Carried(k, paid) = 0
    PROVE  Index!Settled(k, Accounts)
<1> DEFINE n == Following(k)
<1>1. n \in Keys /\ n # k /\ pool'[n] = pool[n] + 0 /\ carriedIn'[n] = carriedIn[n]
  BY DEF SettleFacts
<1>2. /\ settled'[n] = settled[n] /\ prizes'[n] = prizes[n] /\ claimed'[n] = claimed[n]
      /\ contributed'[n] = contributed[n]
      /\ settled[n] => carriedIn'[Following(n)] = carriedIn[Following(n)]
  BY <1>1 DEF SettleFacts
<1> HIDE DEF n
<1>3. TypeOK /\ pool'[n] = pool[n]
  BY <1>1 DEF FoldInv, IInv, TypeOK
<1>4. /\ IndexPools'[n] = IndexPools[n] /\ Given'[n] = Given[n]
      /\ n \in KnownPools' <=> n \in KnownPools
  BY <1>1, <1>2, <1>3, RowStays
<1>5. /\ IndexPools'[k] = Index!Settling(IndexPools[k], 0) /\ k \in KnownPools'
      /\ \A j \in Keys \ {k, n} :
            /\ IndexPools'[j] = IndexPools[j] /\ Given'[j] = Given[j]
            /\ j \in KnownPools' <=> j \in KnownPools
      /\ Given'[k] = Given[k]
      /\ Index!Rewritten(k, Accounts) /\ Index!Paid(k, Accounts) = paid
      /\ Total(PaidOut') = Total(PaidOut) + paid /\ TakenOut' = TakenOut
      /\ Cardinality(SettledPools') = Cardinality(SettledPools) + 1
  BY SettleSeen DEF n
<1>6. Index!PoolsBut({k})
  BY <1>4, <1>5 DEF Index!PoolsBut
<1>7. Given' = Given
  BY <1>4, <1>5, StepTypes
<1>8. Cardinality(KnownPools') = Cardinality(KnownPools) + Index!New({k})
  <2>1. KnownPools' = KnownPools \cup {k}
    BY <1>4, <1>5 DEF KnownPools
  <2> QED BY <1>3, <2>1, CountNew
<1>9. Index!New({k}) \in Int
  BY <1>3, NewIsANumber
<1>10. IndexTotals' = OneSettling(IndexTotals, paid, Index!New({k}))
  <2>1. IndexTotals \in TotalsRows /\ IndexTotals' \in TotalsRows
    BY StepTypes
  <2>2. /\ IndexTotals'.funded = IndexTotals.funded
        /\ IndexTotals'.paid = IndexTotals.paid + paid
        /\ IndexTotals'.pools = IndexTotals.pools + Index!New({k})
        /\ IndexTotals'.claimed = IndexTotals.claimed
        /\ IndexTotals'.settled = IndexTotals.settled + 1
    BY <1>5, <1>7, <1>8, Fields, FieldsAfter
  <2>3. paid \in Int
    OBVIOUS
  <2> QED BY <1>9, <2>1, <2>2, <2>3, TotalsOfSettling
<1> QED BY <1>5, <1>6, <1>10 DEF Index!Settled, OneSettling

(* WeekCarried and WeekSettled: the following week is funded first.        *)
LEMMA CarryIndex ==
    ASSUME PoolAssumption, FoldInv, FoldInv', NEW k \in Keys, NEW paid \in Nat,
           SettleFacts(k, paid), Carried(k, paid) > 0
    PROVE  Index!SettledAndCarried(k, Following(k), Accounts)
<1> DEFINE n == Following(k)
           c == Carried(k, paid)
<1>1. /\ n \in Keys /\ n # k /\ c \in Nat /\ pool'[n] = pool[n] + c
      /\ carriedIn'[n] = c /\ carriedIn[n] = 0
  BY DEF SettleFacts
<1>2. /\ settled'[n] = settled[n] /\ prizes'[n] = prizes[n] /\ claimed'[n] = claimed[n]
      /\ contributed'[n] = contributed[n]
      /\ settled[n] => carriedIn'[Following(n)] = carriedIn[Following(n)]
  BY <1>1 DEF SettleFacts
<1>3. c > 0
  OBVIOUS
<1>4. /\ IndexPools'[k] = Index!Settling(IndexPools[k], c) /\ k \in KnownPools'
      /\ IndexPools'[k].carried = c
      /\ \A j \in Keys \ {k, n} :
            /\ IndexPools'[j] = IndexPools[j] /\ Given'[j] = Given[j]
            /\ j \in KnownPools' <=> j \in KnownPools
      /\ Given'[k] = Given[k] /\ Given'[n] = Given[n] + c
      /\ Index!Rewritten(k, Accounts) /\ Index!Paid(k, Accounts) = paid
      /\ Total(PaidOut') = Total(PaidOut) + paid /\ TakenOut' = TakenOut
      /\ Cardinality(SettledPools') = Cardinality(SettledPools) + 1
  BY SettleSeen
<1> HIDE DEF n, c
<1>5. TypeOK /\ contributed[n] \in Nat
  BY <1>1 DEF FoldInv, IInv, TypeOK
<1>6. IndexPools'[n] = Index!Funding(IndexPools[n], IndexPools'[n].funded) /\ n \in KnownPools'
  <2>1. IsKnown(n)' = TRUE
    BY <1>1, <1>2, <1>3, <1>5 DEF IsKnown
  <2>2. CarriedTo(n)' = CarriedTo(n) /\ Taken(n)' = Taken(n)
    BY <1>2 DEF CarriedTo, Taken, Unclaimed, Following
  <2>3. IndexPools[n] \in Rows /\ IndexPools'[n] \in Rows
    BY <1>1, StepTypes
  <2>4. /\ IndexPools'[n].known = TRUE
        /\ IndexPools'[n].settled = IndexPools[n].settled
        /\ IndexPools'[n].carried = IndexPools[n].carried
        /\ IndexPools'[n].claimed = IndexPools[n].claimed
    BY <1>1, <1>2, <2>1, <2>2, Fields, FieldsAfter
  <2>5. n \in KnownPools'
    BY <1>1, <2>1, FieldsAfter
  <2> QED BY <2>3, <2>4, <2>5, FundingRow
<1>7. Index!PoolsBut({k, n})
  BY <1>4 DEF Index!PoolsBut
<1>8. Total(Given') = Total(Given) + c
  <2>1. Given \in [Keys -> Int] /\ Given' \in [Keys -> Int] /\ IsFiniteSet(Keys)
    BY StepTypes, KeysAreFinite
  <2>2. \A j \in Keys : j # n => Given'[j] = Given[j]
    BY <1>4
  <2>3. Total(Given') = Total(Given) - Given[n] + Given'[n]
    BY <1>1, <2>1, <2>2, TotalBump
  <2>4. Total(Given) \in Int /\ Given[n] \in Int
    BY <1>1, StepTypes
  <2> QED BY <1>1, <1>4, <2>3, <2>4
<1>9. Cardinality(KnownPools') = Cardinality(KnownPools) + Index!New({k, n})
  <2>1. KnownPools' = KnownPools \cup {k, n}
    BY <1>1, <1>4, <1>6 DEF KnownPools
  <2> QED BY <1>1, <1>5, <2>1, CountNew
<1>10. Index!New({k, n}) \in Int
  BY <1>1, <1>5, NewIsANumber
<1>11. IndexTotals' = OneCarrying(IndexTotals, c, paid, Index!New({k, n}))
  <2>1. IndexTotals \in TotalsRows /\ IndexTotals' \in TotalsRows
    BY StepTypes
  <2>2. /\ IndexTotals'.funded = IndexTotals.funded + c
        /\ IndexTotals'.paid = IndexTotals.paid + paid
        /\ IndexTotals'.pools = IndexTotals.pools + Index!New({k, n})
        /\ IndexTotals'.claimed = IndexTotals.claimed
        /\ IndexTotals'.settled = IndexTotals.settled + 1
    BY <1>4, <1>8, <1>9, Fields, FieldsAfter
  <2>3. paid \in Int /\ c \in Int
    BY <1>1
  <2> QED BY <1>10, <2>1, <2>2, <2>3, TotalsOfCarrying
<1> QED
  BY <1>3, <1>4, <1>6, <1>7, <1>11 DEF Index!SettledAndCarried, OneCarrying, n

(* PrizeClaimed is one claim of the fold.                                  *)
LEMMA ClaimIndex ==
    ASSUME PoolAssumption, FoldInv, FoldInv', NEW caller \in Accounts, NEW k \in Keys,
           Claim(caller, k)
    PROVE  Index!Claimed(k, caller)
<1> DEFINE prize == prizes[k][caller]
<1>1. /\ TypeOK /\ prize \in Nat
      /\ claimed \in [Keys -> SUBSET Accounts]
  BY DEF FoldInv, IInv, TypeOK
<1>2. /\ claimed' = [claimed EXCEPT ![k] = @ \cup {caller}] /\ caller \notin claimed[k]
      /\ prize > 0
      /\ UNCHANGED <<pool, settled, prizes, carriedIn, contributed>>
  BY DEF Claim
<1>3. claimed'[k] = claimed[k] \cup {caller} /\ \A j \in Keys : j # k => claimed'[j] = claimed[j]
  BY <1>1, <1>2
<1>4. Taken(k)' = Taken(k) + prize
  <2>1. Unclaimed(k)' = Unclaimed(k) - prize
    BY <1>1, <1>2, <1>3, ClaimTakesOne
  <2>2. Total(prizes[k]) \in Nat /\ Unclaimed(k) \in Nat
    BY <1>1, PrizeTotals
  <2>3. Taken(k)' = Total(prizes[k]) - Unclaimed(k)'
    BY <1>2 DEF Taken
  <2>4. Taken(k) = Total(prizes[k]) - Unclaimed(k)
    BY DEF Taken
  <2> QED BY <1>1, <2>1, <2>2, <2>3, <2>4
<1>5. /\ IsKnown(k)' = IsKnown(k) /\ LastTotal(k)' = LastTotal(k) /\ CarriedTo(k)' = CarriedTo(k)
      /\ settled'[k] = settled[k]
  BY <1>2 DEF IsKnown, LastTotal, CarriedTo, Following
<1>6. ASSUME NEW j \in Keys, j # k
      PROVE  /\ IndexPools'[j] = IndexPools[j] /\ IndexPrizes'[j] = IndexPrizes[j]
             /\ TakenOut'[j] = TakenOut[j]
  BY <1>2, <1>3, <1>6, RowStays
<1>7. PaidOut' = PaidOut /\ Given' = Given /\ SettledPools' = SettledPools
  BY <1>2 DEF PaidOut, Given, SettledPools
<1>8. KnownPools' = KnownPools
  BY <1>2 DEF KnownPools, IsKnown
<1> HIDE DEF prize
<1>9. IndexPools' = [IndexPools EXCEPT ![k].claimed = @ + prize]
  <2> DEFINE e == [IndexPools[k] EXCEPT !.claimed = @ + prize]
  <2>1. IndexPools[k] \in Rows /\ IndexPools'[k] \in Rows
    BY StepTypes
  <2>2. /\ e \in Rows /\ e.known = IndexPools[k].known /\ e.funded = IndexPools[k].funded
        /\ e.settled = IndexPools[k].settled /\ e.carried = IndexPools[k].carried
        /\ e.claimed = IndexPools[k].claimed + prize
    BY <1>1, <2>1 DEF Rows
  <2> HIDE DEF e
  <2>3. /\ IndexPools'[k].known = e.known /\ IndexPools'[k].funded = e.funded
        /\ IndexPools'[k].settled = e.settled /\ IndexPools'[k].carried = e.carried
        /\ IndexPools'[k].claimed = e.claimed
    BY <1>4, <1>5, <2>2, Fields, FieldsAfter
  <2>4. IndexPools'[k] = e
    BY <2>1, <2>2, <2>3, RowsAreTheirFields
  <2>5. IndexPools \in [Keys -> Rows] /\ IndexPools' \in [Keys -> Rows]
    BY StepTypes
  <2>6. IndexPools' = [IndexPools EXCEPT ![k] = e]
    BY <1>6, <2>4, <2>5
  <2> QED BY <2>6 DEF e
<1>10. IndexPrizes' = [IndexPrizes EXCEPT ![k][caller].claimed = TRUE]
  <2> DEFINE e == [IndexPrizes[k][caller] EXCEPT !.claimed = TRUE]
  <2>1. IndexPrizes[k][caller] \in PrizeRows /\ IndexPrizes'[k][caller] \in PrizeRows
    BY StepTypes, RowTypes
  <2>2. \A b \in BOOLEAN :
           LET f == [IndexPrizes[k][caller] EXCEPT !.claimed = b]
           IN  f \in PrizeRows /\ f.amount = IndexPrizes[k][caller].amount /\ f.claimed = b
    BY <2>1 DEF PrizeRows
  <2>3. e \in PrizeRows /\ e.amount = IndexPrizes[k][caller].amount /\ e.claimed = TRUE
    BY <2>2
  <2> HIDE DEF e
  <2>4. /\ IndexPrizes'[k][caller].amount = IndexPrizes[k][caller].amount
        /\ IndexPrizes'[k][caller].claimed = TRUE
    BY <1>2, <1>3 DEF IndexPrizes
  <2>5. IndexPrizes'[k][caller] = e
    BY <2>1, <2>3, <2>4, RowsAreTheirFields
  <2>6. \A a \in Accounts : a # caller => IndexPrizes'[k][a] = IndexPrizes[k][a]
    BY <1>2, <1>3 DEF IndexPrizes
  <2>7. /\ IndexPrizes \in [Keys -> [Accounts -> PrizeRows]]
        /\ IndexPrizes' \in [Keys -> [Accounts -> PrizeRows]]
    BY StepTypes, RowTypes
  <2>8. IndexPrizes'[k] = [IndexPrizes[k] EXCEPT ![caller] = e]
    BY <2>5, <2>6, <2>7
  <2>9. IndexPrizes' = [IndexPrizes EXCEPT ![k] = [IndexPrizes[k] EXCEPT ![caller] = e]]
    BY <1>6, <2>7, <2>8
  <2> QED BY <2>9 DEF e
<1>11. Total(TakenOut') = Total(TakenOut) + prize
  <2>1. TakenOut'[k] = TakenOut[k] + prize
    BY <1>4 DEF TakenOut
  <2>2. TakenOut \in [Keys -> Int] /\ TakenOut' \in [Keys -> Int] /\ IsFiniteSet(Keys)
    BY StepTypes, KeysAreFinite
  <2>3. Total(TakenOut') = Total(TakenOut) - TakenOut[k] + TakenOut'[k]
    BY <1>6, <2>2, TotalBump
  <2>4. Total(TakenOut) \in Int /\ TakenOut[k] \in Int
    BY StepTypes
  <2> QED BY <1>1, <2>1, <2>3, <2>4
<1>12. IndexTotals' = OneClaiming(IndexTotals, prize)
  <2>1. IndexTotals \in TotalsRows /\ IndexTotals' \in TotalsRows
    BY StepTypes
  <2>2. /\ IndexTotals'.funded = IndexTotals.funded /\ IndexTotals'.paid = IndexTotals.paid
        /\ IndexTotals'.pools = IndexTotals.pools
        /\ IndexTotals'.claimed = IndexTotals.claimed + prize
        /\ IndexTotals'.settled = IndexTotals.settled
    BY <1>7, <1>8, <1>11, Fields, FieldsAfter
  <2> QED BY <1>1, <2>1, <2>2, TotalsOfClaiming
<1>13. prize \in 1 .. IndexPrizes[k][caller].amount
  <2>1. IndexPrizes[k][caller].amount = prize
    BY DEF IndexPrizes, prize
  <2> QED BY <1>1, <1>2, <2>1 DEF prize
<1> QED BY <1>9, <1>10, <1>12, <1>13 DEF Index!Claimed, OneClaiming

(* The clock, the roles and sweep emit nothing the fold reads.             *)
LEMMA NothingSeen ==
    ASSUME UNCHANGED <<pool, settled, prizes, claimed, carriedIn, contributed>>
    PROVE  UNCHANGED Index!vars
<1>1. \A k \in Keys :
         /\ IsKnown(k)' = IsKnown(k) /\ LastTotal(k)' = LastTotal(k)
         /\ CarriedTo(k)' = CarriedTo(k) /\ Taken(k)' = Taken(k)
  BY DEF IsKnown, LastTotal, CarriedTo, Following, Taken, Unclaimed
<1>2. IndexPools' = IndexPools /\ IndexPrizes' = IndexPrizes
  BY <1>1 DEF IndexPools, IndexPrizes
<1>3. /\ Given' = Given /\ PaidOut' = PaidOut /\ TakenOut' = TakenOut
      /\ KnownPools' = KnownPools /\ SettledPools' = SettledPools
  BY <1>1 DEF Given, PaidOut, TakenOut, KnownPools, SettledPools
<1>4. IndexTotals' = [funded |-> Total(Given'), paid |-> Total(PaidOut'),
                      claimed |-> Total(TakenOut'), pools |-> Cardinality(KnownPools'),
                      settled |-> Cardinality(SettledPools')]
  BY DEF IndexTotals, Given, PaidOut, TakenOut, KnownPools, SettledPools
<1>5. IndexTotals' = IndexTotals
  BY <1>3, <1>4, TotalsRow
<1> QED BY <1>2, <1>5 DEF Index!vars

(* Every call of the contract is a step of the fold, or none.              *)
LEMMA NextIndex ==
    ASSUME PoolAssumption, FoldInv, FoldInv', [Next]_vars PROVE [Index!Next]_(Index!vars)
<1>1. CASE UNCHANGED <<pool, settled, prizes, claimed, carriedIn, contributed>>
  BY <1>1, NothingSeen
<1>2. CASE \E k \in Keys, amount \in 0 .. MaxAmount : Fund(k, amount)
  <2>1. PICK k \in Keys, amount \in 0 .. MaxAmount : Fund(k, amount)
    BY <1>2
  <2>2. Index!Funded(k)
    BY <2>1, FundIndex
  <2> QED BY <2>2 DEF Index!Next
<1>3. CASE \E caller \in Accounts, k \in Keys :
              \E paid \in 0 .. pool[k], won \in [Accounts -> 0 .. pool[k]] :
                 Total(won) = paid /\ Settle(caller, k, won, paid)
  <2>1. PICK caller \in Accounts, k \in Keys :
               \E paid \in 0 .. pool[k], won \in [Accounts -> 0 .. pool[k]] :
                  Total(won) = paid /\ Settle(caller, k, won, paid)
    BY <1>3
  <2>2. PICK paid \in 0 .. pool[k], won \in [Accounts -> 0 .. pool[k]] :
               Total(won) = paid /\ Settle(caller, k, won, paid)
    BY <2>1
  <2>3. paid \in Nat /\ won \in [Accounts -> Nat]
    OBVIOUS
  <2>4. SettleFacts(k, paid)
    BY <2>2, <2>3, SettleDoes
  <2>5. Carried(k, paid) \in Nat /\ Following(k) \in Keys \ {k}
    BY <2>4 DEF SettleFacts
  <2>6. \/ Index!Settled(k, Accounts)
        \/ Index!SettledAndCarried(k, Following(k), Accounts)
    BY <2>3, <2>4, <2>5, SettleIndex, CarryIndex
  <2> QED BY <2>5, <2>6 DEF Index!Next
<1>4. CASE \E caller \in Accounts, k \in Keys : Claim(caller, k)
  <2>1. PICK caller \in Accounts, k \in Keys : Claim(caller, k)
    BY <1>4
  <2>2. Index!Claimed(k, caller)
    BY <2>1, ClaimIndex
  <2> QED BY <2>2 DEF Index!Next
<1> QED
  BY <1>1, <1>2, <1>3, <1>4
     DEF Next, NextWeek, SetSettler, SetOwner, Sweep, vars, moneyVars

(* The contract's storage and the fold over its events never disagree: the *)
(* contract implements the indexer, for any strategies, accounts, amounts  *)
(* and weeks settled in any order.                                         *)
THEOREM ContractImplementsIndex == ASSUME PoolAssumption PROVE Spec => IndexFollows
<1>1. Init => FoldInv
  <2>1. Init => SettledIsPast
    BY DEF Init, SettledIsPast
  <2> QED BY <2>1, InitIInv, InitBooks DEF FoldInv
<1>2. FoldInv /\ [Next]_vars => FoldInv'
  <2>1. ASSUME FoldInv, [Next]_vars PROVE FoldInv'
    <3>1. IInv' /\ Books' /\ SettledIsPast'
      BY <2>1, NextIInv, NextBooks, SettledPast DEF FoldInv
    <3> QED BY <3>1 DEF FoldInv
  <2> QED BY <2>1
<1>3. Init => Index!Init
  BY InitIndex
<1>4. FoldInv /\ FoldInv' /\ [Next]_vars => [Index!Next]_(Index!vars)
  BY NextIndex
<1>5. Spec => Index!Spec
  BY <1>1, <1>2, <1>3, <1>4, PTL DEF Spec, Index!Spec
<1> QED BY <1>5 DEF IndexFollows
=============================================================================
