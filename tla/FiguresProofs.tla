---------------------------- MODULE FiguresProofs ----------------------------
(***************************************************************************)
(* The screens agree whatever the owner entered: any number of rows of any *)
(* forms, amounts and dates, after any entries, edits and removals.        *)
(*                                                                         *)
(* A sum over a finite set (Total) is what its elements add up to in any   *)
(* order.  Every figure of some days is then the sum of some number of     *)
(* each row that is dated in them (Part), so it is the sum of the figures  *)
(* of the days, and two figures agree when those numbers agree row by row: *)
(* which they do for rows of the shapes that are stored (Shaped).          *)
(***************************************************************************)
EXTENDS ScreensAgree, FiniteSetTheorems, WellFoundedInduction, TLAPS

-----------------------------------------------------------------------------
(* Sums, and induction over the subsets of a finite set.                   *)
Total(f, S) == SumFunctionOnSet(f, S)

LEMMA Smallest ==
    ASSUME NEW Bad \in SUBSET Nat, Bad # {}
    PROVE  \E n \in Bad : \A m \in Bad : n <= m
<1>1. PICK R : R = {ss \in Nat \X Nat : ss[1] < ss[2]} /\ IsWellFoundedOn(R, Nat)
  BY NatLessThanWellFounded DEF OpToRel
<1>2. PICK n \in Bad : \A m \in Bad : <<m, n>> \notin R
  BY <1>1, WFMin
<1>3. \A x, y \in Nat : x < y => <<x, y>> \in R
  BY <1>1
<1>4. ASSUME NEW m \in Bad PROVE n <= m
  <2>1. m \in Nat /\ n \in Nat /\ ~(m < n)
    BY <1>2, <1>3
  <2> QED
    BY <2>1
<1> QED
  BY <1>4

LEMMA SetByElement ==
    ASSUME NEW S, IsFiniteSet(S), NEW Good, {} \in Good,
           \A T \in SUBSET S : \A x \in S \ T : T \in Good => T \cup {x} \in Good
    PROVE  S \in Good
<1> SUFFICES ASSUME S \notin Good PROVE FALSE
  OBVIOUS
<1> DEFINE Bad == {n \in Nat : \E T \in SUBSET S : T \notin Good /\ Cardinality(T) = n}
<1>1. \A T \in SUBSET S : IsFiniteSet(T) /\ Cardinality(T) \in Nat
  BY FS_Subset, FS_CardinalityType
<1>2. Cardinality(S) \in Bad
  BY <1>1
<1>3. PICK n \in Bad : \A m \in Bad : n <= m
  <2> HIDE DEF Bad
  <2> QED
    BY <1>2, Smallest DEF Bad
<1>4. PICK T \in SUBSET S : T \notin Good /\ Cardinality(T) = n
  OBVIOUS
<1>5. PICK x \in T : TRUE
  BY <1>4
<1>6. T \ {x} \in SUBSET S /\ x \in S \ (T \ {x}) /\ (T \ {x}) \cup {x} = T
  BY <1>5
<1>7. Cardinality(T \ {x}) = n - 1
  BY <1>1, <1>4, <1>5, FS_RemoveElement
<1>8. T \ {x} \notin Good
  BY <1>4, <1>6
<1>9. n - 1 \in Nat /\ n - 1 \in Bad
  BY <1>1, <1>6, <1>7, <1>8
<1> QED
  BY <1>3, <1>9

(* How a sum is computed: an element, and the rest.                        *)
Pick(T) == CHOOSE x \in T : TRUE
Sums(g, f, n, S) ==
    \A T \in SUBSET S : Cardinality(T) <= n => g[T] = IF T = {} THEN 0 ELSE f[Pick(T)] + g[T \ {Pick(T)}]

LEMMA SumsUpTo ==
    ASSUME NEW f, NEW S, IsFiniteSet(S), NEW n \in Nat
    PROVE  \E g : g = [T \in SUBSET S |-> g[T]] /\ Sums(g, f, n, S)
<1>1. \A T \in SUBSET S : IsFiniteSet(T) /\ Cardinality(T) \in Nat /\ (Cardinality(T) = 0 <=> T = {})
  BY FS_Subset, FS_CardinalityType, FS_EmptySet
<1> DEFINE Has(m) == \E g : g = [T \in SUBSET S |-> g[T]] /\ Sums(g, f, m, S)
           Bad == {m \in Nat : ~Has(m)}
<1>2. Has(0)
  <2>1. PICK g : g = [T \in SUBSET S |-> 0]
    OBVIOUS
  <2>2. g = [T \in SUBSET S |-> g[T]]
    BY <2>1
  <2>3. Sums(g, f, 0, S)
    BY <1>1, <2>1 DEF Sums
  <2> QED
    BY <2>2, <2>3
<1>3. ASSUME NEW m \in Nat, m # 0, Has(m - 1) PROVE Has(m)
  <2>1. PICK g : g = [T \in SUBSET S |-> g[T]] /\ Sums(g, f, m - 1, S)
    BY <1>3
  <2>2. PICK h : h = [T \in SUBSET S |-> IF T = {} THEN 0 ELSE f[Pick(T)] + g[T \ {Pick(T)}]]
    OBVIOUS
  <2>3. h = [T \in SUBSET S |-> h[T]]
    BY <2>2
  <2>4. ASSUME NEW T \in SUBSET S, Cardinality(T) <= m - 1 PROVE h[T] = g[T]
    BY <2>1, <2>2, <2>4 DEF Sums
  <2>5. ASSUME NEW T \in SUBSET S, Cardinality(T) <= m, T # {}
        PROVE  h[T] = f[Pick(T)] + h[T \ {Pick(T)}]
    <3>1. Pick(T) \in T
      BY <2>5 DEF Pick
    <3>2. PICK U : U = T \ {Pick(T)}
      OBVIOUS
    <3>3. U \in SUBSET S /\ Cardinality(U) = Cardinality(T) - 1
      BY <1>1, <3>1, <3>2, FS_RemoveElement
    <3>4. h[U] = g[U]
      BY <1>1, <2>4, <2>5, <3>3
    <3> QED
      BY <2>2, <2>5, <3>2, <3>4
  <2>6. h[{}] = 0
    BY <2>2
  <2>7. Sums(h, f, m, S)
    BY <2>5, <2>6 DEF Sums
  <2> QED
    BY <2>3, <2>7
<1>4. Bad = {}
  <2> SUFFICES ASSUME Bad # {} PROVE FALSE
    OBVIOUS
  <2>1. PICK m \in Bad : \A k \in Bad : m <= k
    <3> HIDE DEF Bad
    <3> QED
      BY Smallest DEF Bad
  <2>2. m \in Nat /\ ~Has(m)
    OBVIOUS
  <2> HIDE DEF Has
  <2>3. m # 0
    BY <1>2, <2>2
  <2>4. m - 1 \in Nat /\ m - 1 \notin Bad
    BY <2>1, <2>2, <2>3
  <2>5. Has(m - 1)
    BY <2>4
  <2> QED
    BY <1>3, <2>2, <2>3, <2>5
<1> HIDE DEF Has
<1>5. Has(n)
  BY <1>4
<1> QED
  BY <1>5 DEF Has

LEMMA TotalIs ==
    ASSUME NEW f, NEW S, IsFiniteSet(S)
    PROVE  \E g : Sums(g, f, Cardinality(S), S) /\ Total(f, S) = g[S]
<1> DEFINE F(g) == [T \in SUBSET S |-> IF T = {} THEN 0 ELSE f[Pick(T)] + g[T \ {Pick(T)}]]
<1>1. \A T \in SUBSET S : IsFiniteSet(T) /\ Cardinality(T) \in Nat /\ Cardinality(T) <= Cardinality(S)
  BY FS_Subset, FS_CardinalityType
<1>2. PICK g : g = [T \in SUBSET S |-> g[T]] /\ Sums(g, f, Cardinality(S), S)
  BY <1>1, SumsUpTo
<1>3. g = F(g)
  <2>1. ASSUME NEW T \in SUBSET S PROVE g[T] = F(g)[T]
    BY <1>1, <1>2 DEF Sums
  <2>2. F(g) = [T \in SUBSET S |-> F(g)[T]]
    OBVIOUS
  <2> HIDE DEF F
  <2> QED
    BY <1>2, <2>1, <2>2
<1>4. PICK h : h = CHOOSE e : e = F(e)
  OBVIOUS
<1>5. h = F(h)
  <2>1. \E e : e = F(e)
    BY <1>3
  <2> HIDE DEF F
  <2> QED
    BY <1>4, <2>1
<1>6. Total(f, S) = h[S]
  BY <1>4 DEF Total, SumFunctionOnSet, FoldFunctionOnSet, MapThenFoldSet, Pick
<1>7. ASSUME NEW T \in SUBSET S PROVE h[T] = IF T = {} THEN 0 ELSE f[Pick(T)] + h[T \ {Pick(T)}]
  <2>1. h[T] = F(h)[T]
    <3> HIDE DEF F
    <3> QED
      BY <1>5
  <2> QED
    BY <2>1
<1>8. Sums(h, f, Cardinality(S), S)
  BY <1>7 DEF Sums
<1> QED
  BY <1>6, <1>8

LEMMA SumsSame ==
    ASSUME NEW S, IsFiniteSet(S), NEW T \in SUBSET S, NEW f, NEW e, \A x \in T : f[x] = e[x],
           NEW g, Sums(g, f, Cardinality(S), S), NEW h, Sums(h, e, Cardinality(T), T)
    PROVE  g[T] = h[T]
<1>1. \A U \in SUBSET S : IsFiniteSet(U) /\ Cardinality(U) \in Nat /\ Cardinality(U) <= Cardinality(S)
  BY FS_Subset, FS_CardinalityType
<1>2. \A U \in SUBSET T : Cardinality(U) <= Cardinality(T)
  BY <1>1, FS_Subset
<1> DEFINE Bad == {n \in Nat : \E U \in SUBSET T : Cardinality(U) = n /\ g[U] # h[U]}
<1> SUFFICES ASSUME g[T] # h[T] PROVE FALSE
  OBVIOUS
<1>3. Cardinality(T) \in Bad
  BY <1>1
<1>4. PICK n \in Bad : \A m \in Bad : n <= m
  <2> HIDE DEF Bad
  <2> QED
    BY <1>3, Smallest DEF Bad
<1>5. PICK U \in SUBSET T : Cardinality(U) = n /\ g[U] # h[U]
  OBVIOUS
<1>6. /\ g[U] = IF U = {} THEN 0 ELSE f[Pick(U)] + g[U \ {Pick(U)}]
      /\ h[U] = IF U = {} THEN 0 ELSE e[Pick(U)] + h[U \ {Pick(U)}]
  BY <1>1, <1>2 DEF Sums
<1>7. U # {} /\ Pick(U) \in U
  BY <1>5, <1>6 DEF Pick
<1>8. PICK V : V = U \ {Pick(U)}
  OBVIOUS
<1>9. V \in SUBSET T /\ Cardinality(V) = n - 1
  BY <1>1, <1>5, <1>7, <1>8, FS_RemoveElement
<1>10. g[V] = h[V]
  <2>1. n - 1 \in Nat
    BY <1>1, <1>9
  <2>2. n - 1 \notin Bad
    <3>1. n \in Nat
      OBVIOUS
    <3> HIDE DEF Bad
    <3> QED
      BY <1>4, <2>1, <3>1
  <2> QED
    BY <1>9, <2>1, <2>2
<1> QED
  BY <1>5, <1>6, <1>7, <1>8, <1>10

(* The sum of equal numbers is the same.                                   *)
LEMMA TotalSame ==
    ASSUME NEW S, IsFiniteSet(S), NEW f, NEW g, \A x \in S : f[x] = g[x]
    PROVE  Total(f, S) = Total(g, S)
  BY TotalIs, SumsSame

LEMMA TotalEmpty ==
    ASSUME NEW f
    PROVE  Total(f, {}) = 0
<1>1. PICK g : Sums(g, f, Cardinality({}), {}) /\ Total(f, {}) = g[{}]
  BY TotalIs, FS_EmptySet
<1> QED
  BY <1>1, FS_EmptySet DEF Sums

(* An element may be taken out, whichever it is.                           *)
LEMMA TotalWithout ==
    ASSUME NEW S, IsFiniteSet(S), NEW f, \A x \in S : f[x] \in Int
    PROVE  Total(f, S) \in Int /\ \A x \in S : Total(f, S) = f[x] + Total(f, S \ {x})
<1>1. \A T \in SUBSET S : IsFiniteSet(T) /\ Cardinality(T) \in Nat /\ Cardinality(T) <= Cardinality(S)
  BY FS_Subset, FS_CardinalityType
<1>2. PICK g : Sums(g, f, Cardinality(S), S) /\ Total(f, S) = g[S]
  BY TotalIs
<1>3. ASSUME NEW T \in SUBSET S PROVE Total(f, T) = g[T]
  BY <1>1, <1>2, TotalIs, SumsSame
<1>4. g[{}] = 0 /\ \A T \in SUBSET S : T # {} => g[T] = f[Pick(T)] + g[T \ {Pick(T)}]
  BY <1>1, <1>2 DEF Sums
<1>5. \A T : T # {} => Pick(T) \in T
  BY DEF Pick
<1> DEFINE Fine(T) == g[T] \in Int /\ \A x \in T : g[T] = f[x] + g[T \ {x}]
           Bad == {n \in Nat : \E T \in SUBSET S : Cardinality(T) = n /\ ~Fine(T)}
<1>6. Bad = {}
  <2> SUFFICES ASSUME Bad # {} PROVE FALSE
    OBVIOUS
  <2>1. PICK n \in Bad : \A m \in Bad : n <= m
    <3> HIDE DEF Bad
    <3> QED
      BY Smallest DEF Bad
  <2>2. PICK T \in SUBSET S : Cardinality(T) = n /\ ~Fine(T)
    OBVIOUS
  <2>3. T # {}
    <3>1. Fine({})
      BY <1>4
    <3> HIDE DEF Fine
    <3> QED
      BY <2>2, <3>1
  <2>4. PICK y : y = Pick(T)
    OBVIOUS
  <2>5. y \in T /\ f[y] \in Int
    BY <1>5, <2>3, <2>4
  <2>6. ASSUME NEW x \in T PROVE Fine(T \ {x})
    <3>1. T \ {x} \in SUBSET S /\ Cardinality(T \ {x}) = n - 1
      BY <1>1, <2>2, FS_RemoveElement
    <3>2. n - 1 \in Nat
      BY <1>1, <3>1
    <3>3. n - 1 \notin Bad
      <4>1. n \in Nat
        OBVIOUS
      <4> HIDE DEF Bad
      <4> QED
        BY <2>1, <3>2, <4>1
    <3> HIDE DEF Fine
    <3> QED
      BY <3>1, <3>2, <3>3
  <2>7. g[T] = f[y] + g[T \ {y}]
    BY <1>4, <2>3, <2>4
  <2>8. g[T] \in Int
    <3>1. g[T \ {y}] \in Int
      BY <2>5, <2>6
    <3> HIDE DEF Fine, Bad
    <3> QED
      BY <2>5, <2>7, <3>1
  <2>9. ASSUME NEW x \in T PROVE g[T] = f[x] + g[T \ {x}]
    <3>1. CASE x = y
      BY <2>7, <3>1
    <3>2. CASE x # y
      <4>1. g[T \ {y}] = f[x] + g[(T \ {y}) \ {x}]
        BY <2>5, <2>6, <3>2
      <4>2. g[T \ {x}] = f[y] + g[(T \ {x}) \ {y}]
        BY <2>5, <2>6, <3>2
      <4>3. (T \ {y}) \ {x} = (T \ {x}) \ {y}
        OBVIOUS
      <4>4. g[T \ {y}] \in Int /\ g[T \ {x}] \in Int /\ f[x] \in Int /\ f[y] \in Int
        BY <2>5, <2>6
      <4>5. g[(T \ {x}) \ {y}] \in Int
        <5>1. Fine((T \ {x}) \ {y})
          <6>1. PICK U : U = T \ {x}
            OBVIOUS
          <6>2. U \in SUBSET S /\ y \in U /\ Cardinality(U) = n - 1
            BY <1>1, <2>2, <2>5, <3>2, <6>1, FS_RemoveElement
          <6>3. U \ {y} \in SUBSET S /\ Cardinality(U \ {y}) = n - 2
            BY <1>1, <6>2, FS_RemoveElement
          <6>4. n - 2 \in Nat
            BY <1>1, <6>3
          <6>5. n - 2 \notin Bad
            <7>1. n \in Nat
              OBVIOUS
            <7> HIDE DEF Bad
            <7> QED
              BY <2>1, <6>4, <7>1
          <6> HIDE DEF Fine
          <6> QED
            BY <6>1, <6>3, <6>4, <6>5
        <5> QED
          BY <5>1
      <4> HIDE DEF Fine, Bad
      <4>6. PICK a, b, c : a = g[T \ {y}] /\ b = g[T \ {x}] /\ c = g[(T \ {x}) \ {y}]
        OBVIOUS
      <4>7. a = f[x] + c
        BY <4>1, <4>3, <4>6
      <4>8. b = f[y] + c
        BY <4>2, <4>6
      <4>9. g[T] = f[y] + a
        BY <2>7, <4>6
      <4>10. g[T] = f[x] + b
        BY <4>4, <4>5, <4>6, <4>7, <4>8, <4>9
      <4> QED
        BY <4>6, <4>10
    <3> QED
      BY <3>1, <3>2
  <2> QED
    BY <2>2, <2>8, <2>9
<1>7. Fine(S)
  <2>1. Cardinality(S) \in Nat /\ Cardinality(S) \notin Bad
    BY <1>1, <1>6
  <2> HIDE DEF Fine
  <2> QED
    BY <2>1
<1> QED
  BY <1>3, <1>7

LEMMA TotalInsert ==
    ASSUME NEW S, IsFiniteSet(S), NEW f, \A x \in S : f[x] \in Int, NEW T \in SUBSET S, NEW x \in S \ T
    PROVE  Total(f, T \cup {x}) = f[x] + Total(f, T) /\ Total(f, T) \in Int
<1>1. IsFiniteSet(T) /\ IsFiniteSet(T \cup {x})
  BY FS_Subset
<1>2. (T \cup {x}) \ {x} = T
  OBVIOUS
<1>3. PICK U : U = T \cup {x}
  OBVIOUS
<1>4. IsFiniteSet(U) /\ x \in U /\ \A y \in U : f[y] \in Int
  BY <1>1, <1>3
<1>5. Total(f, U) = f[x] + Total(f, U \ {x})
  BY <1>4, TotalWithout
<1> QED
  BY <1>1, <1>2, <1>3, <1>5, TotalWithout

LEMMA TotalPlus ==
    ASSUME NEW S, IsFiniteSet(S), NEW f, NEW g, NEW h,
           \A x \in S : f[x] \in Int /\ g[x] \in Int /\ h[x] = f[x] + g[x]
    PROVE  Total(h, S) = Total(f, S) + Total(g, S)
<1> DEFINE Good == {T \in SUBSET S : Total(h, T) = Total(f, T) + Total(g, T)}
<1>1. {} \in Good
  BY TotalEmpty
<1>2. ASSUME NEW T \in SUBSET S, NEW x \in S \ T, T \in Good
      PROVE  T \cup {x} \in Good
  <2>1. h[x] \in Int
    OBVIOUS
  <2>2. PICK f0, g0, h0 : f0 = Total(f, T) /\ g0 = Total(g, T) /\ h0 = Total(h, T)
    OBVIOUS
  <2>3. Total(f, T \cup {x}) = f[x] + f0 /\ f0 \in Int
    BY <2>2, TotalInsert
  <2>4. Total(g, T \cup {x}) = g[x] + g0 /\ g0 \in Int
    BY <2>2, TotalInsert
  <2>5. Total(h, T \cup {x}) = h[x] + h0 /\ h0 \in Int
    BY <2>2, TotalInsert
  <2>6. h0 = f0 + g0
    BY <1>2, <2>2
  <2> QED
    BY <2>3, <2>4, <2>5, <2>6
<1> HIDE DEF Good
<1>3. S \in Good
  BY <1>1, <1>2, SetByElement
<1> QED
  BY <1>3 DEF Good

LEMMA TotalLess ==
    ASSUME NEW S, IsFiniteSet(S), NEW f, NEW g, \A x \in S : f[x] \in Int /\ g[x] \in Int /\ f[x] <= g[x]
    PROVE  Total(f, S) <= Total(g, S)
<1> DEFINE Good == {T \in SUBSET S : Total(f, T) <= Total(g, T)}
<1>1. {} \in Good
  BY TotalEmpty
<1>2. ASSUME NEW T \in SUBSET S, NEW x \in S \ T, T \in Good
      PROVE  T \cup {x} \in Good
  <2>1. PICK f0, g0 : f0 = Total(f, T) /\ g0 = Total(g, T)
    OBVIOUS
  <2>2. Total(f, T \cup {x}) = f[x] + f0 /\ f0 \in Int
    BY <2>1, TotalInsert
  <2>3. Total(g, T \cup {x}) = g[x] + g0 /\ g0 \in Int
    BY <2>1, TotalInsert
  <2>4. f0 <= g0
    BY <1>2, <2>1
  <2> QED
    BY <2>2, <2>3, <2>4
<1> HIDE DEF Good
<1>3. S \in Good
  BY <1>1, <1>2, SetByElement
<1> QED
  BY <1>3 DEF Good

LEMMA TotalZero ==
    ASSUME NEW S, IsFiniteSet(S), NEW f, \A x \in S : f[x] = 0
    PROVE  Total(f, S) = 0
<1>1. PICK t : t = Total(f, S)
  OBVIOUS
<1>2. t \in Int
  BY <1>1, TotalWithout
<1>3. t = t + t
  BY <1>1, TotalPlus
<1>4. \A n \in Int : n = n + n => n = 0
  OBVIOUS
<1> QED
  BY <1>1, <1>2, <1>3, <1>4

LEMMA TotalNat ==
    ASSUME NEW S, IsFiniteSet(S), NEW f, \A x \in S : f[x] \in Nat
    PROVE  Total(f, S) \in Nat
<1>1. PICK g : g = [x \in S |-> 0]
  OBVIOUS
<1>2. Total(g, S) = 0
  BY <1>1, TotalZero
<1>3. Total(g, S) <= Total(f, S)
  BY <1>1, TotalLess
<1>4. Total(f, S) \in Int
  BY TotalWithout
<1> QED
  BY <1>2, <1>3, <1>4

(* A sum over a part is a sum over the whole, of what is in the part.      *)
LEMMA TotalPart ==
    ASSUME NEW S, IsFiniteSet(S), NEW P \in SUBSET S, NEW f, \A x \in P : f[x] \in Int, NEW h,
           \A x \in S : h[x] = IF x \in P THEN f[x] ELSE 0
    PROVE  Total(f, P) = Total(h, S)
<1> DEFINE Good == {T \in SUBSET S : Total(f, P \cap T) = Total(h, T)}
<1>1. {} \in Good
  BY TotalEmpty
<1>2. ASSUME NEW T \in SUBSET S, NEW x \in S \ T, T \in Good
      PROVE  T \cup {x} \in Good
  <2>1. PICK f0, h0 : f0 = Total(f, P \cap T) /\ h0 = Total(h, T)
    OBVIOUS
  <2>2. Total(h, T \cup {x}) = h[x] + h0 /\ h0 \in Int
    BY <2>1, TotalInsert
  <2>3. f0 = h0
    BY <1>2, <2>1
  <2>4. CASE x \in P
    <3>1. P \cap (T \cup {x}) = (P \cap T) \cup {x}
      BY <2>4
    <3>2. IsFiniteSet(P) /\ P \cap T \in SUBSET P /\ x \in P \ (P \cap T)
      BY <2>4, FS_Subset
    <3>3. PICK Q : Q = P \cap T
      OBVIOUS
    <3>5. Total(f, Q \cup {x}) = f[x] + Total(f, Q)
      <4>1. Q \in SUBSET P /\ x \in P \ Q /\ IsFiniteSet(P)
        BY <3>2, <3>3
      <4> QED
        BY <4>1, TotalInsert
    <3>4. h[x] = f[x]
      BY <2>4
    <3> QED
      BY <2>1, <2>2, <2>3, <3>1, <3>3, <3>4, <3>5
  <2>5. CASE x \notin P
    <3>1. P \cap (T \cup {x}) = P \cap T /\ h[x] = 0
      BY <2>5
    <3>2. Total(f, P \cap (T \cup {x})) = f0
      BY <2>1, <3>1
    <3> QED
      BY <2>2, <2>3, <3>1, <3>2
  <2> QED
    BY <2>4, <2>5
<1> HIDE DEF Good
<1>3. S \in Good
  BY <1>1, <1>2, SetByElement
<1>4. P \cap S = P
  OBVIOUS
<1> QED
  BY <1>3, <1>4 DEF Good

LEMMA TotalOne ==
    ASSUME NEW S, IsFiniteSet(S), NEW x \in S, NEW f, f[x] \in Int, \A y \in S : y # x => f[y] = 0
    PROVE  Total(f, S) = f[x]
<1>1. \A y \in S : f[y] \in Int
  OBVIOUS
<1>2. Total(f, S) = f[x] + Total(f, S \ {x})
  BY <1>1, TotalWithout
<1>3. IsFiniteSet(S \ {x})
  BY FS_Subset
<1>4. Total(f, S \ {x}) = 0
  BY <1>3, TotalZero
<1> QED
  BY <1>2, <1>4

LEMMA TotalUnion ==
    ASSUME NEW S, IsFiniteSet(S), NEW A \in SUBSET S, NEW B \in SUBSET S, A \cap B = {}, NEW f,
           \A x \in A \cup B : f[x] \in Int
    PROVE  Total(f, A \cup B) = Total(f, A) + Total(f, B)
<1>1. PICK a, b, c : /\ a = [x \in S |-> IF x \in A THEN f[x] ELSE 0]
                     /\ b = [x \in S |-> IF x \in B THEN f[x] ELSE 0]
                     /\ c = [x \in S |-> IF x \in A \cup B THEN f[x] ELSE 0]
  OBVIOUS
<1>2. Total(f, A) = Total(a, S)
  BY <1>1, TotalPart
<1>3. Total(f, B) = Total(b, S)
  BY <1>1, TotalPart
<1>4. Total(f, A \cup B) = Total(c, S)
  <2>1. PICK C : C = A \cup B
    OBVIOUS
  <2>2. C \in SUBSET S /\ \A x \in C : f[x] \in Int
    BY <2>1
  <2>3. Total(f, C) = Total(c, S)
    BY <1>1, <2>1, <2>2, TotalPart
  <2> QED
    BY <2>1, <2>3
<1>5. \A x \in S : a[x] \in Int /\ b[x] \in Int /\ c[x] = a[x] + b[x]
  BY <1>1
<1>6. Total(c, S) = Total(a, S) + Total(b, S)
  BY <1>5, TotalPlus
<1> QED
  BY <1>2, <1>3, <1>4, <1>6

(* A sum over pairs, of which each id has one at most, is a sum over ids.  *)
LEMMA TotalPairs ==
    ASSUME NEW X, NEW f, NEW g, \A x \in X : x[1] \in Ids,
           \A i \in Ids : g[i] \in Int /\ \/ g[i] = 0 /\ \A x \in X : x[1] # i
                                          \/ \E x \in X : x[1] = i /\ f[x] = g[i] /\ \A y \in X : y[1] = i => y = x
    PROVE  Total(f, X) = Total(g, Ids)
<1> DEFINE On(J) == {x \in X : x[1] \in J}
           Good == {J \in SUBSET Ids : IsFiniteSet(On(J)) /\ Total(f, On(J)) = Total(g, J)}
<1>1. {} \in Good
  <2>1. On({}) = {}
    OBVIOUS
  <2> QED
    BY <2>1, FS_EmptySet, TotalEmpty
<1>2. ASSUME NEW J \in SUBSET Ids, NEW i \in Ids \ J, J \in Good
      PROVE  J \cup {i} \in Good
  <2>1. PICK A : A = On(J)
    OBVIOUS
  <2>2. IsFiniteSet(A) /\ Total(f, A) = Total(g, J)
    BY <1>2, <2>1
  <2>3. Total(g, J \cup {i}) = g[i] + Total(g, J) /\ Total(g, J) \in Int
    BY IdsAssumption, TotalInsert
  <2>4. CASE \A x \in X : x[1] # i
    <3>1. On(J \cup {i}) = A /\ g[i] = 0
      BY <2>1, <2>4
    <3> HIDE DEF On
    <3> QED
      BY <2>2, <2>3, <3>1
  <2>5. CASE \E x \in X : x[1] = i
    <3>1. PICK x \in X : x[1] = i /\ f[x] = g[i] /\ \A y \in X : y[1] = i => y = x
      BY <2>5
    <3>2. On(J \cup {i}) = A \cup {x} /\ x \notin A
      BY <2>1, <3>1
    <3>3. IsFiniteSet(A \cup {x})
      BY <2>2, FS_AddElement
    <3>4. \A y \in A \cup {x} : f[y] \in Int
      BY <2>1, <3>1
    <3>5. PICK B : B = A \cup {x}
      OBVIOUS
    <3>6. Total(f, B) = f[x] + Total(f, B \ {x})
      BY <3>3, <3>4, <3>5, TotalWithout
    <3>7. B \ {x} = A
      BY <3>2, <3>5
    <3> HIDE DEF On
    <3> QED
      BY <2>2, <2>3, <3>1, <3>2, <3>3, <3>5, <3>6, <3>7
  <2> QED
    BY <2>4, <2>5
<1> HIDE DEF Good
<1>3. Ids \in Good
  BY <1>1, <1>2, IdsAssumption, SetByElement
<1>4. On(Ids) = X
  OBVIOUS
<1> QED
  BY <1>3, <1>4 DEF Good

-----------------------------------------------------------------------------
(* What the rows dated in some days add up to, of some number of each row. *)
In(i, P) == rows[i] # NULL /\ rows[i].date \in P
Part(g, P) == Total([i \in Ids |-> IF In(i, P) THEN g[i] ELSE 0], Ids)
Numbers(g) == \A i \in Ids : g[i] \in Int

LEMMA PartInt ==
    ASSUME NEW g, Numbers(g), NEW P
    PROVE  Part(g, P) \in Int
<1>1. PICK a : a = [i \in Ids |-> IF In(i, P) THEN g[i] ELSE 0]
  OBVIOUS
<1>2. \A i \in Ids : a[i] \in Int
  BY <1>1 DEF Numbers
<1> QED
  BY <1>1, <1>2, IdsAssumption, TotalWithout DEF Part

LEMMA PartNat ==
    ASSUME NEW g, \A i \in Ids : g[i] \in Nat, NEW P
    PROVE  Part(g, P) \in Nat
<1>1. PICK a : a = [i \in Ids |-> IF In(i, P) THEN g[i] ELSE 0]
  OBVIOUS
<1>2. \A i \in Ids : a[i] \in Nat
  BY <1>1
<1> QED
  BY <1>1, <1>2, IdsAssumption, TotalNat DEF Part

LEMMA PartPlus ==
    ASSUME NEW f, NEW g, NEW h, NEW P, Numbers(f), Numbers(g), \A i \in Ids : In(i, P) => h[i] = f[i] + g[i]
    PROVE  Part(h, P) = Part(f, P) + Part(g, P)
<1>1. PICK a, b, c : /\ a = [i \in Ids |-> IF In(i, P) THEN f[i] ELSE 0]
                     /\ b = [i \in Ids |-> IF In(i, P) THEN g[i] ELSE 0]
                     /\ c = [i \in Ids |-> IF In(i, P) THEN h[i] ELSE 0]
  OBVIOUS
<1>2. \A i \in Ids : a[i] \in Int /\ b[i] \in Int /\ c[i] = a[i] + b[i]
  BY <1>1 DEF Numbers
<1>3. Total(c, Ids) = Total(a, Ids) + Total(b, Ids)
  BY <1>2, IdsAssumption, TotalPlus
<1> QED
  BY <1>1, <1>3 DEF Part

LEMMA PartSame ==
    ASSUME NEW f, NEW g, NEW P, \A i \in Ids : In(i, P) => f[i] = g[i]
    PROVE  Part(f, P) = Part(g, P)
<1>1. PICK a, b : /\ a = [i \in Ids |-> IF In(i, P) THEN f[i] ELSE 0]
                  /\ b = [i \in Ids |-> IF In(i, P) THEN g[i] ELSE 0]
  OBVIOUS
<1>2. \A i \in Ids : a[i] = b[i]
  BY <1>1
<1>3. Total(a, Ids) = Total(b, Ids)
  BY <1>2, IdsAssumption, TotalSame
<1> QED
  BY <1>1, <1>3 DEF Part

LEMMA PartLess ==
    ASSUME NEW f, NEW g, NEW P, Numbers(f), Numbers(g), \A i \in Ids : In(i, P) => f[i] <= g[i]
    PROVE  Part(f, P) <= Part(g, P)
<1>1. PICK a, b : /\ a = [i \in Ids |-> IF In(i, P) THEN f[i] ELSE 0]
                  /\ b = [i \in Ids |-> IF In(i, P) THEN g[i] ELSE 0]
  OBVIOUS
<1>2. \A i \in Ids : a[i] \in Int /\ b[i] \in Int /\ a[i] <= b[i]
  BY <1>1 DEF Numbers
<1>3. Total(a, Ids) <= Total(b, Ids)
  BY <1>2, IdsAssumption, TotalLess
<1> QED
  BY <1>1, <1>3 DEF Part

LEMMA PartNone ==
    ASSUME NEW g, NEW P, \A i \in Ids : In(i, P) => g[i] = 0
    PROVE  Part(g, P) = 0
<1>1. PICK a : a = [i \in Ids |-> IF In(i, P) THEN g[i] ELSE 0]
  OBVIOUS
<1>2. \A i \in Ids : a[i] = 0
  BY <1>1
<1> QED
  BY <1>1, <1>2, IdsAssumption, TotalZero DEF Part

LEMMA PartUnion ==
    ASSUME NEW g, Numbers(g), NEW P, NEW Q, P \cap Q = {}
    PROVE  Part(g, P \cup Q) = Part(g, P) + Part(g, Q)
<1>1. PICK a, b, c : /\ a = [i \in Ids |-> IF In(i, P) THEN g[i] ELSE 0]
                     /\ b = [i \in Ids |-> IF In(i, Q) THEN g[i] ELSE 0]
                     /\ c = [i \in Ids |-> IF In(i, P \cup Q) THEN g[i] ELSE 0]
  OBVIOUS
<1>2. \A i \in Ids : a[i] \in Int /\ b[i] \in Int /\ c[i] = a[i] + b[i]
  BY <1>1 DEF Numbers, In
<1>3. Total(c, Ids) = Total(a, Ids) + Total(b, Ids)
  BY <1>2, IdsAssumption, TotalPlus
<1> QED
  BY <1>1, <1>3 DEF Part

(* Day by day it adds up to the same.                                      *)
LEMMA PartDays ==
    ASSUME NEW g, Numbers(g), NEW D, IsFiniteSet(D), NEW f, \A d \in D : f[d] = Part(g, {d})
    PROVE  Total(f, D) = Part(g, D)
<1> DEFINE Good == {T \in SUBSET D : Total(f, T) = Part(g, T)}
<1>1. {} \in Good
  <2>1. Part(g, {}) = 0
    BY PartNone DEF In
  <2> QED
    BY <2>1, TotalEmpty
<1>2. ASSUME NEW T \in SUBSET D, NEW d \in D \ T, T \in Good
      PROVE  T \cup {d} \in Good
  <2>1. ASSUME NEW e \in D PROVE f[e] \in Int
    <3>1. Part(g, {e}) \in Int
      BY PartInt
    <3> QED
      BY <3>1
  <2>2. Total(f, T \cup {d}) = f[d] + Total(f, T) /\ Total(f, T) \in Int
    BY <2>1, TotalInsert
  <2>3. Part(g, T \cup {d}) = Part(g, T) + Part(g, {d})
    <3>1. PICK one : one = {d}
      OBVIOUS
    <3>2. T \cap one = {}
      BY <3>1
    <3>3. Part(g, T \cup one) = Part(g, T) + Part(g, one)
      BY <3>2, PartUnion
    <3> QED
      BY <3>1, <3>3
  <2>4. PICK a, b : a = Part(g, T) /\ b = Part(g, {d})
    OBVIOUS
  <2>5. Total(f, T) = a /\ f[d] = b /\ b \in Int
    BY <1>2, <2>1, <2>4
  <2>6. Total(f, T \cup {d}) = Part(g, T \cup {d})
    BY <2>2, <2>3, <2>4, <2>5
  <2> QED
    BY <2>6
<1> HIDE DEF Good
<1>3. D \in Good
  BY <1>1, <1>2, SetByElement
<1> QED
  BY <1>3 DEF Good

(* The rows of some kinds.                                                 *)
LEMMA PartOf ==
    ASSUME NEW kinds, NEW P, NEW f, NEW g,
           \A i \in Ids : In(i, P) => g[i] \in Int /\ (rows[i].kind \in kinds => f[i] = g[i])
                                      /\ (rows[i].kind \notin kinds => g[i] = 0)
    PROVE  Total(f, Of(kinds, P)) = Part(g, P)
<1>1. PICK a : a = [i \in Ids |-> IF In(i, P) THEN g[i] ELSE 0]
  OBVIOUS
<1>2. PICK S : S = Of(kinds, P)
  OBVIOUS
<1>3. S \in SUBSET Ids /\ \A i \in Ids : i \in S <=> In(i, P) /\ rows[i].kind \in kinds
  BY <1>2 DEF Of, In
<1>4. \A i \in S : f[i] \in Int
  BY <1>3
<1>5. \A i \in Ids : a[i] = IF i \in S THEN f[i] ELSE 0
  BY <1>1, <1>3
<1>6. Total(f, S) = Total(a, Ids)
  BY <1>3, <1>4, <1>5, IdsAssumption, TotalPart
<1> QED
  BY <1>1, <1>2, <1>6 DEF Part

-----------------------------------------------------------------------------
(* What is stored, and what of each row the figures add up.                *)
Shaped == \A i \in Ids : rows[i] # NULL => rows[i] \in Rows

LEMMA RowIs ==
    ASSUME NEW s \in Rows
    PROVE  /\ s.date \in Dates
           /\ s.kind \in {"document", "manual_entry", "deposit", "revenue_entry"} \cup ExpenseKinds
           /\ s.kind = "document" => /\ s.type \in DocumentTypes /\ s.status = "processed"
                                     /\ s.amount \in Nat /\ s.vat \in Nat
           /\ s.kind = "manual_entry" => /\ s.method \in {"method_1", "method_2"} /\ s.paid \in [AllPaidFields -> Nat]
                                         /\ s.opening \in Nat /\ s.closing \in Nat
                                         /\ s.lunch \in Nat /\ s.dinner \in Nat
           /\ s.kind \in ExpenseKinds => s.section \in {"cash", "bank"} /\ s.food \in BOOLEAN /\ s.amount \in Nat
           /\ s.kind = "deposit" => s.type \in {"bank_deposit", "cash_deposit"} /\ s.amount \in Nat
           /\ s.kind = "revenue_entry" => /\ s.type \in {"cash_in", "bank_deposit", "cash_deposit"}
                                          /\ s.amount \in Nat /\ s.lunch \in Nat /\ s.dinner \in Nat
<1>1. CASE s \in [kind: {"document"}, type: DocumentTypes, status: {"processed"}, date: Dates,
                  amount: Nat, total: Nat, vat: Nat, lines: SUBSET Lines]
  BY <1>1 DEF ExpenseKinds
<1>2. CASE s \in [kind: {"manual_entry"}, method: {"method_1", "method_2"}, date: Dates,
                  paid: [AllPaidFields -> Nat], opening: Nat, closing: Nat, lunch: Nat, dinner: Nat]
  BY <1>2 DEF ExpenseKinds
<1>3. CASE s \in [kind: ExpenseKinds, section: {"cash", "bank"}, food: BOOLEAN, date: Dates, amount: Nat]
  BY <1>3 DEF ExpenseKinds
<1>4. CASE s \in [kind: {"deposit"}, type: {"bank_deposit", "cash_deposit"}, date: Dates,
                  amount: Nat, lunch: Nat, dinner: Nat]
  BY <1>4 DEF ExpenseKinds
<1>5. CASE s \in [kind: {"revenue_entry"}, type: {"cash_in", "bank_deposit", "cash_deposit"}, date: Dates,
                  amount: Nat, lunch: Nat, dinner: Nat]
  BY <1>5 DEF ExpenseKinds
<1> QED
  BY <1>1, <1>2, <1>3, <1>4, <1>5 DEF Rows

LEMMA PaidIs ==
    ASSUME NEW paid \in [AllPaidFields -> Nat]
    PROVE  /\ paid["pos_payments"] \in Nat /\ paid["cash_withdrawals"] \in Nat /\ paid["expenses_in_cash"] \in Nat
           /\ paid["cash_payments"] \in Nat /\ paid["bank_transfer_payments"] \in Nat /\ paid["cash_out"] \in Nat
  BY DEF AllPaidFields, PaidFields

(* The transactions of a row: one at most but for a record, whose          *)
(* transactions no figure adds up.                                         *)
LEMMA DocumentMoves ==
    ASSUME NEW i \in Ids, NEW s \in Rows, rows[i] = s, s # NULL, s.kind = "document"
    PROVE  /\ s.amount = 0 => TransactionsOf(i) = {}
           /\ s.amount # 0 =>
                \E t : /\ TransactionsOf(i) = {t} /\ t.date = s.date /\ t.kind = "document" /\ t.amount = s.amount
                       /\ t.channel \in AnyChannel
                       /\ s.type = "expense" => t.type = "expense"
                       /\ s.type = "cash" => t.type = "cash_collection"
                       /\ s.type = "revenue" => t.type = "bank_collection"
                       /\ s.type \in {"profit", "unknown"} => t.type \in {"profit_adjustment", "document"}
<1>1. TransactionsOf(i) = DocumentTransactions(s)
  BY DEF TransactionsOf, IsDocument, IsRecord, IsDeposit, IsItem
<1>2. s.status = "processed" /\ s.date # NULL /\ s.type \in DocumentTypes
  BY RowIs, NullIsNoDate
<1>3. CASE s.amount = 0
  BY <1>1, <1>3 DEF DocumentTransactions
<1>4. CASE s.amount # 0
  <2>1. PICK type, channel :
          /\ type = CASE s.type = "expense" -> "expense"
                      [] s.type = "cash" -> "cash_collection"
                      [] s.type = "revenue" -> "bank_collection"
                      [] s.type = "profit" -> "profit_adjustment"
                      [] OTHER -> "document"
          /\ channel = CASE s.type = "cash" -> "cash"
                         [] s.type = "revenue" -> "bank_transfer"
                         [] OTHER -> "document"
    OBVIOUS
  <2>2. PICK t : t = [kind |-> "document", type |-> type, channel |-> channel, date |-> s.date, amount |-> s.amount]
    OBVIOUS
  <2>3. TransactionsOf(i) = {t}
    BY <1>1, <1>2, <1>4, <2>1, <2>2 DEF DocumentTransactions
  <2>4. channel \in AnyChannel
    BY <2>1 DEF AnyChannel
  <2> QED
    BY <1>2, <1>4, <2>1, <2>2, <2>3, <2>4
<1> QED
  BY <1>3, <1>4

LEMMA ExpenseMoves ==
    ASSUME NEW i \in Ids, NEW s \in Rows, rows[i] = s, s # NULL, s.kind \in ExpenseKinds
    PROVE  \E t : /\ TransactionsOf(i) = {t} /\ t.date = s.date /\ t.amount = s.amount /\ t.type = "expense"
                  /\ t.channel = s.section
                  /\ t.kind = IF s.kind = "inventory" THEN "expense" ELSE s.kind
<1>1. PICK kind : kind = IF s.kind = "inventory" THEN "expense" ELSE s.kind
  OBVIOUS
<1>2. PICK u : u = [kind |-> kind, type |-> "expense", channel |-> "section", date |-> s.date, amount |-> s.amount]
  OBVIOUS
<1>3. TransactionsOf(i) = {[t EXCEPT !.channel = s.section] : t \in {u}}
  BY <1>1, <1>2 DEF TransactionsOf, ExpenseTransactions, IsDocument, IsRecord, IsDeposit, IsItem, ExpenseKinds
<1>4. PICK t : t = [u EXCEPT !.channel = s.section]
  OBVIOUS
<1>5. TransactionsOf(i) = {t}
  BY <1>3, <1>4
<1> QED
  BY <1>1, <1>2, <1>4, <1>5

LEMMA DepositMoves ==
    ASSUME NEW i \in Ids, NEW s \in Rows, rows[i] = s, s # NULL, s.kind \in {"deposit", "revenue_entry"}
    PROVE  \E t : /\ TransactionsOf(i) = {t} /\ t.date = s.date /\ t.amount = s.amount /\ t.type = s.type
                  /\ t.channel = "cash" /\ t.kind = s.kind
<1>1. PICK t : t = [kind |-> s.kind, type |-> s.type, channel |-> "cash", date |-> s.date, amount |-> s.amount]
  OBVIOUS
<1>2. TransactionsOf(i) = {t}
  BY <1>1 DEF TransactionsOf, CashDepositTransactions, IsDocument, IsRecord, IsDeposit
<1> QED
  BY <1>1, <1>2

LEMMA RecordMoves ==
    ASSUME NEW i \in Ids, NEW s \in Rows, rows[i] = s, s # NULL, s.kind = "manual_entry"
    PROVE  \A t \in TransactionsOf(i) : /\ t.kind = "manual_entry" /\ t.date = s.date
                                        /\ t.type \notin {"bank_deposit", "cash_deposit"}
<1>1. TransactionsOf(i) = DailyRecordTransactions(s)
  BY DEF TransactionsOf, IsDocument, IsRecord, IsDeposit, IsItem
<1>2. \A f \in DOMAIN RecordTransactionType(s.method) :
         RecordTransactionType(s.method)[f] \notin {"bank_deposit", "cash_deposit"}
  BY DEF RecordTransactionType
<1> QED
  BY <1>1, <1>2 DEF DailyRecordTransactions

LEMMA MovesIn ==
    ASSUME Shaped, NEW P, NEW kinds, NEW types, NEW channels, NEW g, Numbers(g),
           \A i \in Ids : In(i, P) =>
              \/ g[i] = 0 /\ \A t \in TransactionsOf(i) : ~(t.kind \in kinds /\ t.type \in types /\ t.channel \in channels)
              \/ \E t : /\ TransactionsOf(i) = {t} /\ t.amount = g[i]
                        /\ t.kind \in kinds /\ t.type \in types /\ t.channel \in channels
    PROVE  TransactionTotal(P, kinds, types, channels) = Part(g, P)
<1>1. PICK X : X = {x \in UNION {{i} \X TransactionsOf(i) : i \in Ids} :
                      x[2].date \in P /\ x[2].kind \in kinds /\ x[2].type \in types /\ x[2].channel \in channels}
  OBVIOUS
<1>2. PICK f : f = [x \in X |-> x[2].amount]
  OBVIOUS
<1>3. PICK a : a = [i \in Ids |-> IF In(i, P) THEN g[i] ELSE 0]
  OBVIOUS
<1>4. TransactionTotal(P, kinds, types, channels) = Total(f, X)
  BY <1>1, <1>2 DEF TransactionTotal, Sum, Total
<1>5. \A x \in X : /\ x[1] \in Ids /\ x[2] \in TransactionsOf(x[1]) /\ x = <<x[1], x[2]>>
                   /\ x[2].date \in P /\ x[2].kind \in kinds /\ x[2].type \in types /\ x[2].channel \in channels
  BY <1>1
<1>6. \A i \in Ids : \A t \in TransactionsOf(i) :
         t.date \in P /\ t.kind \in kinds /\ t.type \in types /\ t.channel \in channels => <<i, t>> \in X
  BY <1>1
<1>7. ASSUME NEW i \in Ids
      PROVE  /\ \A t \in TransactionsOf(i) : rows[i] # NULL /\ t.date = rows[i].date
  <2>1. CASE rows[i] = NULL
    BY <2>1 DEF TransactionsOf, IsDocument, IsRecord, IsDeposit, IsItem
  <2>2. CASE rows[i] # NULL
    <3>1. rows[i] \in Rows
      BY <2>2 DEF Shaped
    <3>2. rows[i].kind \in {"document", "manual_entry", "deposit", "revenue_entry"} \cup ExpenseKinds
      BY <3>1, RowIs
    <3>3. CASE rows[i].kind = "document"
      BY <2>2, <3>1, <3>3, DocumentMoves
    <3>4. CASE rows[i].kind \in ExpenseKinds
      BY <2>2, <3>1, <3>4, ExpenseMoves
    <3>5. CASE rows[i].kind \in {"deposit", "revenue_entry"}
      BY <2>2, <3>1, <3>5, DepositMoves
    <3>6. CASE rows[i].kind = "manual_entry"
      BY <2>2, <3>1, <3>6, RecordMoves
    <3> QED
      BY <3>2, <3>3, <3>4, <3>5, <3>6
  <2> QED
    BY <2>1, <2>2
<1>8. ASSUME NEW i \in Ids
      PROVE  a[i] \in Int /\ \/ a[i] = 0 /\ \A x \in X : x[1] # i
                             \/ \E x \in X : x[1] = i /\ f[x] = a[i] /\ \A y \in X : y[1] = i => y = x
  <2>1. a[i] \in Int
    BY <1>3 DEF Numbers
  <2>2. CASE ~In(i, P)
    <3>1. a[i] = 0 /\ \A x \in X : x[1] # i
      BY <1>3, <1>5, <1>7, <2>2 DEF In
    <3> QED
      BY <2>1, <3>1
  <2>3. CASE In(i, P)
    <3>1. a[i] = g[i]
      BY <1>3, <2>3
    <3>2. CASE g[i] = 0 /\ \A t \in TransactionsOf(i) : ~(t.kind \in kinds /\ t.type \in types /\ t.channel \in channels)
      BY <1>5, <2>1, <3>1, <3>2
    <3>3. CASE \E t : /\ TransactionsOf(i) = {t} /\ t.amount = g[i]
                      /\ t.kind \in kinds /\ t.type \in types /\ t.channel \in channels
      <4>1. PICK t : /\ TransactionsOf(i) = {t} /\ t.amount = g[i]
                     /\ t.kind \in kinds /\ t.type \in types /\ t.channel \in channels
        BY <3>3
      <4>2. PICK x : x = <<i, t>>
        OBVIOUS
      <4>3. x \in X
        BY <1>6, <1>7, <2>3, <4>1, <4>2 DEF In
      <4>4. x[1] = i /\ f[x] = g[i]
        BY <1>2, <4>1, <4>2, <4>3
      <4>5. ASSUME NEW y \in X, y[1] = i PROVE y = x
        BY <1>5, <4>1, <4>2, <4>5
      <4> QED
        BY <2>1, <3>1, <4>3, <4>4, <4>5
    <3> QED
      BY <2>3, <3>2, <3>3
  <2> QED
    BY <2>2, <2>3
<1>9. Total(f, X) = Total(a, Ids)
  BY <1>5, <1>8, TotalPairs
<1> QED
  BY <1>3, <1>4, <1>9 DEF Part

-----------------------------------------------------------------------------
(* What of each row the figures add up: its sales, its revenue entry, its  *)
(* expenses (those of the snapshots, those entered as food cost by hand),  *)
(* its money at the bank, and the cash it keeps.                           *)
Counts(s, types) == s.kind = "document" /\ s.type \in types

GainOf(s) ==
    IF s.kind = "manual_entry" THEN TotalRevenue(s)
    ELSE IF s.kind = "revenue_entry" \/ Counts(s, {"cash", "revenue"}) THEN s.amount ELSE 0
EntryOf(s) == IF s.kind = "revenue_entry" THEN s.amount ELSE 0
CostOf(s) ==
    IF s.kind = "manual_entry" THEN s.paid["expenses_in_cash"]
    ELSE IF s.kind \in {"expense", "inventory"} \/ Counts(s, {"expense"}) THEN s.amount ELSE 0
HandOf(s) == IF s.kind = "food_cost_manual" THEN s.amount ELSE 0
BankedOf(s) ==
    IF s.kind = "manual_entry" THEN s.paid["bank_transfer_payments"]
    ELSE IF \/ Counts(s, {"revenue"})
            \/ s.kind \in {"deposit", "revenue_entry"} /\ s.type \in {"bank_deposit", "cash_deposit"}
         THEN s.amount ELSE 0
KeptOf(s) ==
    IF s.kind = "manual_entry" THEN CashAvailable(s)
    ELSE IF Counts(s, {"cash"}) THEN s.amount
    ELSE IF Counts(s, {"expense"}) \/ (s.kind \in {"expense", "inventory"} /\ s.section = "cash")
         THEN -s.amount ELSE 0

Gain == [i \in Ids |-> IF rows[i] = NULL THEN 0 ELSE GainOf(rows[i])]
Entry == [i \in Ids |-> IF rows[i] = NULL THEN 0 ELSE EntryOf(rows[i])]
Cost == [i \in Ids |-> IF rows[i] = NULL THEN 0 ELSE CostOf(rows[i])]
Hand == [i \in Ids |-> IF rows[i] = NULL THEN 0 ELSE HandOf(rows[i])]
Banked == [i \in Ids |-> IF rows[i] = NULL THEN 0 ELSE BankedOf(rows[i])]
Kept == [i \in Ids |-> IF rows[i] = NULL THEN 0 ELSE KeptOf(rows[i])]

LEMMA RecordNumbers ==
    ASSUME NEW s \in Rows, s.kind = "manual_entry"
    PROVE  TotalRevenue(s) \in Int /\ CashFlow(s) \in Int /\ CashAvailable(s) \in Nat
<1>1. s.paid \in [AllPaidFields -> Nat] /\ s.opening \in Nat /\ s.closing \in Nat
  BY RowIs
<1>2. PICK p : p = s.paid
  OBVIOUS
<1>3. /\ p["pos_payments"] \in Nat /\ p["cash_withdrawals"] \in Nat /\ p["expenses_in_cash"] \in Nat
      /\ p["cash_payments"] \in Nat /\ p["bank_transfer_payments"] \in Nat /\ p["cash_out"] \in Nat
  BY <1>1, <1>2, PaidIs
<1>4. CashFlow(s) \in Int
  BY <1>2, <1>3 DEF CashFlow
<1>5. CashAvailable(s) \in Nat
  BY <1>1, <1>4 DEF CashAvailable, Pos
<1> QED
  BY <1>1, <1>2, <1>3, <1>4, <1>5 DEF TotalRevenue

LEMMA NumbersOf ==
    ASSUME NEW s \in Rows
    PROVE  /\ GainOf(s) \in Int /\ EntryOf(s) \in Nat /\ CostOf(s) \in Nat /\ HandOf(s) \in Nat
           /\ BankedOf(s) \in Nat /\ KeptOf(s) \in Int
<1>1. CASE s.kind = "manual_entry"
  <2>1. s.paid["expenses_in_cash"] \in Nat /\ s.paid["bank_transfer_payments"] \in Nat
    BY <1>1, RowIs, PaidIs
  <2> QED
    BY <1>1, <2>1, RecordNumbers DEF GainOf, EntryOf, CostOf, HandOf, BankedOf, KeptOf
<1>2. CASE s.kind # "manual_entry"
  <2>1. s.amount \in Nat
    BY <1>2, RowIs DEF ExpenseKinds
  <2> QED
    BY <1>2, <2>1 DEF GainOf, EntryOf, CostOf, HandOf, BankedOf, KeptOf
<1> QED
  BY <1>1, <1>2

LEMMA AllNumbers ==
    ASSUME Shaped
    PROVE  /\ Numbers(Gain) /\ Numbers(Entry) /\ Numbers(Cost) /\ Numbers(Hand) /\ Numbers(Banked) /\ Numbers(Kept)
           /\ \A i \in Ids : Entry[i] \in Nat /\ Cost[i] \in Nat /\ Hand[i] \in Nat /\ Banked[i] \in Nat
<1> SUFFICES ASSUME NEW i \in Ids
             PROVE  /\ Gain[i] \in Int /\ Entry[i] \in Nat /\ Cost[i] \in Nat /\ Hand[i] \in Nat
                    /\ Banked[i] \in Nat /\ Kept[i] \in Int
  BY DEF Numbers
<1>1. CASE rows[i] = NULL
  BY <1>1 DEF Gain, Entry, Cost, Hand, Banked, Kept
<1>2. CASE rows[i] # NULL
  <2>1. rows[i] \in Rows
    BY <1>2 DEF Shaped
  <2> QED
    BY <1>2, <2>1, NumbersOf DEF Gain, Entry, Cost, Hand, Banked, Kept
<1> QED
  BY <1>1, <1>2

LEMMA EntriesIn ==
    ASSUME Shaped, NEW P
    PROVE  RevenueEntries(P) = Part(Entry, P)
<1>1. PICK f : f = [i \in Of({"revenue_entry"}, P) |-> rows[i].amount]
  OBVIOUS
<1>2. RevenueEntries(P) = Total(f, Of({"revenue_entry"}, P))
  BY <1>1 DEF RevenueEntries, Sum, Total
<1>3. ASSUME NEW i \in Ids, In(i, P)
      PROVE  /\ Entry[i] \in Int
             /\ rows[i].kind \in {"revenue_entry"} => f[i] = Entry[i]
             /\ rows[i].kind \notin {"revenue_entry"} => Entry[i] = 0
  <2>1. Entry[i] \in Int /\ Entry[i] = EntryOf(rows[i])
    BY <1>3, AllNumbers DEF Entry, In
  <2>2. rows[i].kind \in {"revenue_entry"} => i \in Of({"revenue_entry"}, P)
    BY <1>3 DEF Of, In
  <2> QED
    BY <1>1, <2>1, <2>2 DEF EntryOf
<1> QED
  BY <1>2, <1>3, PartOf

LEMMA RecordsIn ==
    ASSUME Shaped, NEW P, NEW f, NEW g,
           \A i \in Ids : In(i, P) => /\ rows[i].kind = "manual_entry" => f[i] = g[i] /\ g[i] \in Int
                                      /\ rows[i].kind # "manual_entry" => g[i] = 0
    PROVE  Total(f, Of({"manual_entry"}, P)) = Part(g, P)
<1>1. \A i \in Ids : In(i, P) => g[i] \in Int /\ (rows[i].kind \in {"manual_entry"} => f[i] = g[i])
                                 /\ (rows[i].kind \notin {"manual_entry"} => g[i] = 0)
  OBVIOUS
<1> QED
  BY <1>1, PartOf

LEMMA RowIn ==
    ASSUME Shaped, NEW i \in Ids, NEW P, In(i, P)
    PROVE  rows[i] \in Rows /\ rows[i] # NULL /\ rows[i].date \in P
  BY DEF Shaped, In

LEMMA SalesMoved ==
    ASSUME Shaped, NEW P, NEW g, Numbers(g),
           \A i \in Ids : In(i, P) => g[i] = IF Counts(rows[i], {"cash", "revenue"}) THEN rows[i].amount ELSE 0
    PROVE  /\ TransactionTotal(P, {"deposit", "document"}, SaleTypes, AnyChannel) = Part(g, P)
           /\ TransactionTotal(P, OtherSaleKinds, SaleTypes, AnyChannel) = 0
<1>1. ASSUME NEW i \in Ids, In(i, P)
      PROVE  LET Meets(t) == t.kind \in {"deposit", "document"} /\ t.type \in SaleTypes /\ t.channel \in AnyChannel
             IN  \/ g[i] = 0 /\ \A t \in TransactionsOf(i) : ~Meets(t)
                 \/ \E t : TransactionsOf(i) = {t} /\ t.amount = g[i] /\ Meets(t)
  <2>1. rows[i] \in Rows /\ rows[i] # NULL
    BY <1>1, RowIn
  <2>2. rows[i].kind \in {"document", "manual_entry", "deposit", "revenue_entry"} \cup ExpenseKinds
    BY <2>1, RowIs
  <2>3. CASE rows[i].kind = "document"
    <3>1. rows[i].type \in DocumentTypes
      BY <2>1, <2>3, RowIs
    <3>2. CASE rows[i].amount = 0
      BY <1>1, <2>1, <2>3, <3>2, DocumentMoves DEF Counts
    <3>3. CASE rows[i].amount # 0
      BY <1>1, <2>1, <2>3, <3>1, <3>3, DocumentMoves DEF Counts, SaleTypes, DocumentTypes
    <3> QED
      BY <3>2, <3>3
  <2>4. CASE rows[i].kind \in ExpenseKinds
    BY <1>1, <2>1, <2>4, ExpenseMoves DEF Counts, SaleTypes, ExpenseKinds
  <2>5. CASE rows[i].kind \in {"deposit", "revenue_entry"}
    <3>1. rows[i].type \notin SaleTypes
      BY <2>1, <2>5, RowIs DEF SaleTypes
    <3> QED
      BY <1>1, <2>1, <2>5, <3>1, DepositMoves DEF Counts
  <2>6. CASE rows[i].kind = "manual_entry"
    BY <1>1, <2>1, <2>6, RecordMoves DEF Counts
  <2> QED
    BY <2>2, <2>3, <2>4, <2>5, <2>6
<1>2. TransactionTotal(P, {"deposit", "document"}, SaleTypes, AnyChannel) = Part(g, P)
  BY <1>1, MovesIn
<1>3. PICK z : z = [i \in Ids |-> 0]
  OBVIOUS
<1>4. ASSUME NEW i \in Ids, In(i, P)
      PROVE  \A t \in TransactionsOf(i) : ~(t.kind \in OtherSaleKinds /\ t.type \in SaleTypes)
  <2>1. rows[i] \in Rows /\ rows[i] # NULL
    BY <1>4, RowIn
  <2>2. rows[i].kind \in {"document", "manual_entry", "deposit", "revenue_entry"} \cup ExpenseKinds
    BY <2>1, RowIs
  <2>3. CASE rows[i].kind = "document"
    BY <2>1, <2>3, DocumentMoves DEF OtherSaleKinds
  <2>4. CASE rows[i].kind \in ExpenseKinds
    BY <2>1, <2>4, ExpenseMoves DEF SaleTypes
  <2>5. CASE rows[i].kind \in {"deposit", "revenue_entry"}
    <3>1. rows[i].type \notin SaleTypes
      BY <2>1, <2>5, RowIs DEF SaleTypes
    <3> QED
      BY <2>1, <2>5, <3>1, DepositMoves
  <2>6. CASE rows[i].kind = "manual_entry"
    BY <2>1, <2>6, RecordMoves DEF OtherSaleKinds
  <2> QED
    BY <2>2, <2>3, <2>4, <2>5, <2>6
<1>5. Numbers(z) /\ \A i \in Ids : z[i] = 0
  BY <1>3 DEF Numbers
<1>6. TransactionTotal(P, OtherSaleKinds, SaleTypes, AnyChannel) = Part(z, P)
  BY <1>4, <1>5, MovesIn
<1>7. Part(z, P) = 0
  BY <1>5, PartNone
<1> QED
  BY <1>2, <1>6, <1>7

LEMMA RevenueIn ==
    ASSUME Shaped, NEW P
    PROVE  Revenue(P) = Part(Gain, P)
<1>1. PICK a, b, f : /\ a = [i \in Ids |-> IF rows[i] # NULL /\ rows[i].kind = "manual_entry"
                                           THEN TotalRevenue(rows[i]) ELSE 0]
                     /\ b = [i \in Ids |-> IF rows[i] # NULL /\ Counts(rows[i], {"cash", "revenue"})
                                           THEN rows[i].amount ELSE 0]
                     /\ f = [i \in Of({"manual_entry"}, P) |-> TotalRevenue(rows[i])]
  OBVIOUS
<1>2. ASSUME NEW i \in Ids
      PROVE  a[i] \in Int /\ b[i] \in Int
  <2>1. CASE rows[i] = NULL
    BY <1>1, <2>1
  <2>2. CASE rows[i] # NULL
    <3>1. rows[i] \in Rows
      BY <2>2 DEF Shaped
    <3> QED
      BY <1>1, <3>1, RowIs, RecordNumbers DEF Counts
  <2> QED
    BY <2>1, <2>2
<1>3. Numbers(a) /\ Numbers(b)
  BY <1>2 DEF Numbers
<1>4. Total(f, Of({"manual_entry"}, P)) = Part(a, P)
  <2>1. ASSUME NEW i \in Ids, In(i, P)
        PROVE  /\ rows[i].kind = "manual_entry" => f[i] = a[i] /\ a[i] \in Int
               /\ rows[i].kind # "manual_entry" => a[i] = 0
    <3>1. rows[i].kind = "manual_entry" => i \in Of({"manual_entry"}, P)
      BY <2>1 DEF Of, In
    <3> QED
      BY <1>1, <1>2, <2>1, <3>1 DEF In
  <2> QED
    BY <2>1, RecordsIn
<1>5. /\ TransactionTotal(P, {"deposit", "document"}, SaleTypes, AnyChannel) = Part(b, P)
      /\ TransactionTotal(P, OtherSaleKinds, SaleTypes, AnyChannel) = 0
  <2>1. \A i \in Ids : In(i, P) => b[i] = IF Counts(rows[i], {"cash", "revenue"}) THEN rows[i].amount ELSE 0
    BY <1>1 DEF In
  <2> QED
    BY <1>3, <2>1, SalesMoved
<1>6. Revenue(P) = Part(a, P) + Part(Entry, P) + Part(b, P) + 0
  BY <1>1, <1>4, <1>5, EntriesIn DEF Revenue, Sum, Total
<1>7. PICK c : c = [i \in Ids |-> a[i] + Entry[i]]
  OBVIOUS
<1>8. Numbers(c) /\ Part(c, P) = Part(a, P) + Part(Entry, P)
  <2>1. Numbers(c)
    BY <1>2, <1>7, AllNumbers DEF Numbers
  <2> QED
    BY <1>3, <1>7, <2>1, AllNumbers, PartPlus
<1>9. ASSUME NEW i \in Ids, In(i, P) PROVE Gain[i] = c[i] + b[i]
  <2>1. rows[i] \in Rows /\ rows[i] # NULL
    BY <1>9, RowIn
  <2>2. CASE rows[i].kind = "manual_entry"
    BY <1>1, <1>2, <1>7, <2>1, <2>2 DEF Gain, GainOf, Entry, EntryOf, Counts
  <2>3. CASE rows[i].kind # "manual_entry"
    <3>1. rows[i].amount \in Int
      BY <2>1, <2>3, RowIs DEF ExpenseKinds
    <3> QED
      BY <1>1, <1>7, <2>1, <2>3, <3>1 DEF Gain, GainOf, Entry, EntryOf, Counts
  <2> QED
    BY <2>2, <2>3
<1>10. Part(Gain, P) = Part(c, P) + Part(b, P)
  BY <1>3, <1>8, <1>9, PartPlus
<1>11. Part(a, P) \in Int /\ Part(b, P) \in Int /\ Part(Entry, P) \in Int
  BY <1>3, AllNumbers, PartInt
<1> QED
  BY <1>6, <1>8, <1>10, <1>11

LEMMA PartMinus ==
    ASSUME NEW f, NEW g, NEW h, NEW P, Numbers(f), Numbers(g), Numbers(h), \A i \in Ids : In(i, P) => h[i] = f[i] - g[i]
    PROVE  Part(h, P) = Part(f, P) - Part(g, P)
<1>1. ASSUME NEW i \in Ids, In(i, P) PROVE f[i] = h[i] + g[i]
  BY <1>1 DEF Numbers
<1>2. Part(f, P) = Part(h, P) + Part(g, P)
  BY <1>1, PartPlus
<1>3. Part(f, P) \in Int /\ Part(g, P) \in Int /\ Part(h, P) \in Int
  BY PartInt
<1> QED
  BY <1>2, <1>3

LEMMA PartPlus3 ==
    ASSUME NEW f, NEW g, NEW e, NEW h, NEW P, Numbers(f), Numbers(g), Numbers(e),
           \A i \in Ids : In(i, P) => h[i] = f[i] + g[i] + e[i]
    PROVE  Part(h, P) = Part(f, P) + Part(g, P) + Part(e, P)
<1>1. PICK c : c = [i \in Ids |-> f[i] + g[i]]
  OBVIOUS
<1>2. Numbers(c)
  BY <1>1 DEF Numbers
<1>3. Part(c, P) = Part(f, P) + Part(g, P)
  BY <1>1, PartPlus
<1>4. \A i \in Ids : In(i, P) => h[i] = c[i] + e[i]
  BY <1>1
<1>5. Part(h, P) = Part(c, P) + Part(e, P)
  BY <1>2, <1>4, PartPlus
<1> QED
  BY <1>3, <1>5

LEMMA PaidIn ==
    ASSUME Shaped, NEW P, NEW f \in AllPaidFields, NEW g, Numbers(g),
           \A i \in Ids : In(i, P) => g[i] = IF rows[i].kind = "manual_entry" THEN rows[i].paid[f] ELSE 0
    PROVE  Paid(P, f) = Part(g, P)
<1>1. PICK e : e = [i \in Of({"manual_entry"}, P) |-> rows[i].paid[f]]
  OBVIOUS
<1>2. Paid(P, f) = Total(e, Of({"manual_entry"}, P))
  BY <1>1 DEF Paid, Sum, Total
<1>3. ASSUME NEW i \in Ids, In(i, P)
      PROVE  /\ rows[i].kind = "manual_entry" => e[i] = g[i] /\ g[i] \in Int
             /\ rows[i].kind # "manual_entry" => g[i] = 0
  <2>1. rows[i].kind = "manual_entry" => i \in Of({"manual_entry"}, P)
    BY <1>3 DEF Of, In
  <2> QED
    BY <1>1, <1>3, <2>1 DEF Numbers
<1> QED
  BY <1>2, <1>3, RecordsIn

LEMMA DocumentsMoved ==
    ASSUME Shaped, NEW P, NEW type, NEW booked, NEW g, Numbers(g),
           <<type, booked>> \in {<<"expense", "expense">>, <<"cash", "cash_collection">>, <<"revenue", "bank_collection">>},
           \A i \in Ids : In(i, P) => g[i] = IF Counts(rows[i], {type}) THEN rows[i].amount ELSE 0
    PROVE  TransactionTotal(P, {"document"}, {booked}, AnyChannel) = Part(g, P)
<1>1. ASSUME NEW i \in Ids, In(i, P)
      PROVE  LET Meets(t) == t.kind \in {"document"} /\ t.type \in {booked} /\ t.channel \in AnyChannel
             IN  \/ g[i] = 0 /\ \A t \in TransactionsOf(i) : ~Meets(t)
                 \/ \E t : TransactionsOf(i) = {t} /\ t.amount = g[i] /\ Meets(t)
  <2>1. rows[i] \in Rows /\ rows[i] # NULL
    BY <1>1, RowIn
  <2>2. rows[i].kind \in {"document", "manual_entry", "deposit", "revenue_entry"} \cup ExpenseKinds
    BY <2>1, RowIs
  <2>3. CASE rows[i].kind = "document"
    <3>1. rows[i].type \in {"expense", "cash", "revenue", "profit", "unknown"}
      BY <2>1, <2>3, RowIs DEF DocumentTypes
    <3>2. CASE rows[i].amount = 0
      BY <1>1, <2>1, <2>3, <3>2, DocumentMoves DEF Counts
    <3>3. CASE rows[i].amount # 0
      <4>1. PICK t : /\ TransactionsOf(i) = {t} /\ t.kind = "document" /\ t.amount = rows[i].amount
                     /\ t.channel \in AnyChannel
                     /\ rows[i].type = "expense" => t.type = "expense"
                     /\ rows[i].type = "cash" => t.type = "cash_collection"
                     /\ rows[i].type = "revenue" => t.type = "bank_collection"
                     /\ rows[i].type \in {"profit", "unknown"} => t.type \in {"profit_adjustment", "document"}
        BY <2>1, <2>3, <3>3, DocumentMoves
      <4>2. rows[i].type = type <=> t.type = booked
        BY <3>1, <4>1
      <4>3. CASE rows[i].type = type
        BY <1>1, <2>3, <4>1, <4>2, <4>3 DEF Counts
      <4>4. CASE rows[i].type # type
        BY <1>1, <2>3, <4>1, <4>2, <4>4 DEF Counts
      <4> QED
        BY <4>3, <4>4
    <3> QED
      BY <3>2, <3>3
  <2>4. CASE rows[i].kind \in ExpenseKinds
    BY <1>1, <2>1, <2>4, ExpenseMoves DEF Counts, ExpenseKinds
  <2>5. CASE rows[i].kind \in {"deposit", "revenue_entry"}
    BY <1>1, <2>1, <2>5, DepositMoves DEF Counts
  <2>6. CASE rows[i].kind = "manual_entry"
    BY <1>1, <2>1, <2>6, RecordMoves DEF Counts
  <2> QED
    BY <2>2, <2>3, <2>4, <2>5, <2>6
<1> QED
  BY <1>1, MovesIn

LEMMA ExpensesMoved ==
    ASSUME Shaped, NEW P, NEW channels, NEW g, Numbers(g),
           \A i \in Ids : In(i, P) => g[i] = IF rows[i].kind \in {"expense", "inventory"} /\ rows[i].section \in channels
                                             THEN rows[i].amount ELSE 0
    PROVE  TransactionTotal(P, {"expense"}, {"expense"}, channels) = Part(g, P)
<1>1. ASSUME NEW i \in Ids, In(i, P)
      PROVE  LET Meets(t) == t.kind \in {"expense"} /\ t.type \in {"expense"} /\ t.channel \in channels
             IN  \/ g[i] = 0 /\ \A t \in TransactionsOf(i) : ~Meets(t)
                 \/ \E t : TransactionsOf(i) = {t} /\ t.amount = g[i] /\ Meets(t)
  <2>1. rows[i] \in Rows /\ rows[i] # NULL
    BY <1>1, RowIn
  <2>2. rows[i].kind \in {"document", "manual_entry", "deposit", "revenue_entry"} \cup ExpenseKinds
    BY <2>1, RowIs
  <2>3. CASE rows[i].kind = "document"
    BY <1>1, <2>1, <2>3, DocumentMoves
  <2>4. CASE rows[i].kind \in ExpenseKinds
    <3>1. PICK t : /\ TransactionsOf(i) = {t} /\ t.amount = rows[i].amount /\ t.type = "expense"
                   /\ t.channel = rows[i].section
                   /\ t.kind = IF rows[i].kind = "inventory" THEN "expense" ELSE rows[i].kind
      BY <2>1, <2>4, ExpenseMoves
    <3>2. CASE rows[i].kind \in {"expense", "inventory"} /\ rows[i].section \in channels
      BY <1>1, <3>1, <3>2
    <3>3. CASE ~(rows[i].kind \in {"expense", "inventory"} /\ rows[i].section \in channels)
      BY <1>1, <2>4, <3>1, <3>3 DEF ExpenseKinds
    <3> QED
      BY <3>2, <3>3
  <2>5. CASE rows[i].kind \in {"deposit", "revenue_entry"}
    BY <1>1, <2>1, <2>5, DepositMoves
  <2>6. CASE rows[i].kind = "manual_entry"
    BY <1>1, <2>1, <2>6, RecordMoves
  <2> QED
    BY <2>2, <2>3, <2>4, <2>5, <2>6
<1> QED
  BY <1>1, MovesIn

LEMMA DepositsMoved ==
    ASSUME Shaped, NEW P, NEW g, Numbers(g),
           \A i \in Ids : In(i, P) =>
              g[i] = IF rows[i].kind \in {"deposit", "revenue_entry"} /\ rows[i].type \in {"bank_deposit", "cash_deposit"}
                     THEN rows[i].amount ELSE 0
    PROVE  TransactionTotal(P, AnyKind, {"bank_deposit", "cash_deposit"}, AnyChannel) = Part(g, P)
<1>1. ASSUME NEW i \in Ids, In(i, P)
      PROVE  LET Meets(t) == t.kind \in AnyKind /\ t.type \in {"bank_deposit", "cash_deposit"} /\ t.channel \in AnyChannel
             IN  \/ g[i] = 0 /\ \A t \in TransactionsOf(i) : ~Meets(t)
                 \/ \E t : TransactionsOf(i) = {t} /\ t.amount = g[i] /\ Meets(t)
  <2>1. rows[i] \in Rows /\ rows[i] # NULL
    BY <1>1, RowIn
  <2>2. rows[i].kind \in {"document", "manual_entry", "deposit", "revenue_entry"} \cup ExpenseKinds
    BY <2>1, RowIs
  <2>3. CASE rows[i].kind = "document"
    <3>1. rows[i].type \in {"expense", "cash", "revenue", "profit", "unknown"}
      BY <2>1, <2>3, RowIs DEF DocumentTypes
    <3> QED
      BY <1>1, <2>1, <2>3, <3>1, DocumentMoves
  <2>4. CASE rows[i].kind \in ExpenseKinds
    BY <1>1, <2>1, <2>4, ExpenseMoves DEF ExpenseKinds
  <2>5. CASE rows[i].kind \in {"deposit", "revenue_entry"}
    <3>1. PICK t : /\ TransactionsOf(i) = {t} /\ t.amount = rows[i].amount /\ t.type = rows[i].type
                   /\ t.channel = "cash" /\ t.kind = rows[i].kind
      BY <2>1, <2>5, DepositMoves
    <3>2. t.kind \in AnyKind /\ t.channel \in AnyChannel
      BY <2>5, <3>1 DEF AnyKind, AnyChannel
    <3> QED
      BY <1>1, <2>5, <3>1, <3>2
  <2>6. CASE rows[i].kind = "manual_entry"
    BY <1>1, <2>1, <2>6, RecordMoves
  <2> QED
    BY <2>2, <2>3, <2>4, <2>5, <2>6
<1> QED
  BY <1>1, MovesIn

(* The numbers of the rows of one kind.                                    *)
LEMMA OneKind ==
    ASSUME Shaped, NEW i \in Ids, rows[i] # NULL
    PROVE  /\ rows[i] \in Rows
           /\ rows[i].kind = "manual_entry" => rows[i].paid \in [AllPaidFields -> Nat]
           /\ rows[i].kind # "manual_entry" => rows[i].amount \in Nat
<1>1. rows[i] \in Rows
  BY DEF Shaped
<1> QED
  BY <1>1, RowIs DEF ExpenseKinds

LEMMA ExpensesOf ==
    ASSUME Shaped, NEW P
    PROVE  ExpensesIn(P) = Part(Cost, P)
<1>1. PICK a, b, c :
         /\ a = [i \in Ids |-> IF rows[i] # NULL /\ rows[i].kind = "manual_entry"
                               THEN rows[i].paid["expenses_in_cash"] ELSE 0]
         /\ b = [i \in Ids |-> IF rows[i] # NULL /\ rows[i].kind \in {"expense", "inventory"} THEN rows[i].amount ELSE 0]
         /\ c = [i \in Ids |-> IF rows[i] # NULL /\ Counts(rows[i], {"expense"}) THEN rows[i].amount ELSE 0]
  OBVIOUS
<1>2. Numbers(a) /\ Numbers(b) /\ Numbers(c)
  <2> SUFFICES ASSUME NEW i \in Ids PROVE a[i] \in Int /\ b[i] \in Int /\ c[i] \in Int
    BY DEF Numbers
  <2> QED
    BY <1>1, OneKind, PaidIs DEF Counts
<1>3. Paid(P, "expenses_in_cash") = Part(a, P)
  <2>1. "expenses_in_cash" \in AllPaidFields
    BY DEF AllPaidFields, PaidFields
  <2>2. \A i \in Ids : In(i, P) => a[i] = IF rows[i].kind = "manual_entry" THEN rows[i].paid["expenses_in_cash"] ELSE 0
    BY <1>1 DEF In
  <2> QED
    BY <1>2, <2>1, <2>2, PaidIn
<1>4. ManualExpenses(P) = Part(b, P)
  <2>1. ASSUME NEW i \in Ids, In(i, P)
        PROVE  b[i] = IF rows[i].kind \in {"expense", "inventory"} /\ rows[i].section \in AnyChannel
                      THEN rows[i].amount ELSE 0
    <3>1. rows[i].kind \in {"expense", "inventory"} => rows[i].section \in AnyChannel
      BY <2>1, RowIn, RowIs DEF ExpenseKinds, AnyChannel
    <3> QED
      BY <1>1, <2>1, <3>1 DEF In
  <2> QED
    BY <1>2, <2>1, ExpensesMoved DEF ManualExpenses
<1>5. DocumentExpenses(P) = Part(c, P)
  <2>1. \A i \in Ids : In(i, P) => c[i] = IF Counts(rows[i], {"expense"}) THEN rows[i].amount ELSE 0
    BY <1>1 DEF In
  <2> QED
    BY <1>2, <2>1, DocumentsMoved DEF DocumentExpenses
<1>6. ASSUME NEW i \in Ids, In(i, P) PROVE Cost[i] = a[i] + b[i] + c[i]
  <2>1. rows[i] # NULL
    BY <1>6 DEF In
  <2>2. a[i] \in Int /\ b[i] \in Int /\ c[i] \in Int
    BY <1>2 DEF Numbers
  <2> QED
    BY <1>1, <2>1, <2>2 DEF Cost, CostOf, Counts
<1>7. Part(Cost, P) = Part(a, P) + Part(b, P) + Part(c, P)
  BY <1>2, <1>6, PartPlus3
<1> QED
  BY <1>3, <1>4, <1>5, <1>7 DEF ExpensesIn

LEMMA BankOf ==
    ASSUME Shaped, NEW P
    PROVE  BankDeposits(P) = Part(Banked, P)
<1>1. PICK a, b, c :
         /\ a = [i \in Ids |-> IF rows[i] # NULL /\ rows[i].kind = "manual_entry"
                               THEN rows[i].paid["bank_transfer_payments"] ELSE 0]
         /\ b = [i \in Ids |-> IF rows[i] # NULL /\ rows[i].kind \in {"deposit", "revenue_entry"}
                                  /\ rows[i].type \in {"bank_deposit", "cash_deposit"} THEN rows[i].amount ELSE 0]
         /\ c = [i \in Ids |-> IF rows[i] # NULL /\ Counts(rows[i], {"revenue"}) THEN rows[i].amount ELSE 0]
  OBVIOUS
<1>2. Numbers(a) /\ Numbers(b) /\ Numbers(c)
  <2> SUFFICES ASSUME NEW i \in Ids PROVE a[i] \in Int /\ b[i] \in Int /\ c[i] \in Int
    BY DEF Numbers
  <2> QED
    BY <1>1, OneKind, PaidIs DEF Counts
<1>3. Paid(P, "bank_transfer_payments") = Part(a, P)
  <2>1. "bank_transfer_payments" \in AllPaidFields
    BY DEF AllPaidFields, PaidFields
  <2>2. \A i \in Ids : In(i, P) =>
           a[i] = IF rows[i].kind = "manual_entry" THEN rows[i].paid["bank_transfer_payments"] ELSE 0
    BY <1>1 DEF In
  <2> QED
    BY <1>2, <2>1, <2>2, PaidIn
<1>4. TransactionTotal(P, AnyKind, {"bank_deposit", "cash_deposit"}, AnyChannel) = Part(b, P)
  <2>1. \A i \in Ids : In(i, P) =>
           b[i] = IF rows[i].kind \in {"deposit", "revenue_entry"} /\ rows[i].type \in {"bank_deposit", "cash_deposit"}
                  THEN rows[i].amount ELSE 0
    BY <1>1 DEF In
  <2> QED
    BY <1>2, <2>1, DepositsMoved
<1>5. TransactionTotal(P, {"document"}, {"bank_collection"}, AnyChannel) = Part(c, P)
  <2>1. \A i \in Ids : In(i, P) => c[i] = IF Counts(rows[i], {"revenue"}) THEN rows[i].amount ELSE 0
    BY <1>1 DEF In
  <2> QED
    BY <1>2, <2>1, DocumentsMoved
<1>6. ASSUME NEW i \in Ids, In(i, P) PROVE Banked[i] = a[i] + b[i] + c[i]
  <2>1. rows[i] # NULL
    BY <1>6 DEF In
  <2>2. a[i] \in Int /\ b[i] \in Int /\ c[i] \in Int
    BY <1>2 DEF Numbers
  <2> QED
    BY <1>1, <2>1, <2>2 DEF Banked, BankedOf, Counts
<1>7. Part(Banked, P) = Part(a, P) + Part(b, P) + Part(c, P)
  BY <1>2, <1>6, PartPlus3
<1> QED
  BY <1>3, <1>4, <1>5, <1>7 DEF BankDeposits

LEMMA AvailableOf ==
    ASSUME Shaped, NEW P
    PROVE  Available(P) = Pos(Part(Kept, P))
<1>1. PICK a, b, c, d, f :
         /\ a = [i \in Ids |-> IF rows[i] # NULL /\ rows[i].kind = "manual_entry" THEN CashAvailable(rows[i]) ELSE 0]
         /\ b = [i \in Ids |-> IF rows[i] # NULL /\ Counts(rows[i], {"cash"}) THEN rows[i].amount ELSE 0]
         /\ c = [i \in Ids |-> IF rows[i] # NULL /\ rows[i].kind \in {"expense", "inventory"}
                                  /\ rows[i].section \in {"cash"} THEN rows[i].amount ELSE 0]
         /\ d = [i \in Ids |-> IF rows[i] # NULL /\ Counts(rows[i], {"expense"}) THEN rows[i].amount ELSE 0]
         /\ f = [i \in Of({"manual_entry"}, P) |-> CashAvailable(rows[i])]
  OBVIOUS
<1>2. Numbers(a) /\ Numbers(b) /\ Numbers(c) /\ Numbers(d)
  <2> SUFFICES ASSUME NEW i \in Ids PROVE a[i] \in Int /\ b[i] \in Int /\ c[i] \in Int /\ d[i] \in Int
    BY DEF Numbers
  <2> QED
    BY <1>1, OneKind, RecordNumbers DEF Counts
<1>3. Total(f, Of({"manual_entry"}, P)) = Part(a, P)
  <2>1. ASSUME NEW i \in Ids, In(i, P)
        PROVE  /\ rows[i].kind = "manual_entry" => f[i] = a[i] /\ a[i] \in Int
               /\ rows[i].kind # "manual_entry" => a[i] = 0
    <3>1. rows[i].kind = "manual_entry" => i \in Of({"manual_entry"}, P)
      BY <2>1 DEF Of, In
    <3> QED
      BY <1>1, <1>2, <2>1, <3>1 DEF In, Numbers
  <2> QED
    BY <2>1, RecordsIn
<1>4. TransactionTotal(P, {"document"}, {"cash_collection"}, AnyChannel) = Part(b, P)
  <2>1. \A i \in Ids : In(i, P) => b[i] = IF Counts(rows[i], {"cash"}) THEN rows[i].amount ELSE 0
    BY <1>1 DEF In
  <2> QED
    BY <1>2, <2>1, DocumentsMoved
<1>5. TransactionTotal(P, {"expense"}, {"expense"}, {"cash"}) = Part(c, P)
  <2>1. \A i \in Ids : In(i, P) => c[i] = IF rows[i].kind \in {"expense", "inventory"} /\ rows[i].section \in {"cash"}
                                          THEN rows[i].amount ELSE 0
    BY <1>1 DEF In
  <2> QED
    BY <1>2, <2>1, ExpensesMoved
<1>6. DocumentExpenses(P) = Part(d, P)
  <2>1. \A i \in Ids : In(i, P) => d[i] = IF Counts(rows[i], {"expense"}) THEN rows[i].amount ELSE 0
    BY <1>1 DEF In
  <2> QED
    BY <1>2, <2>1, DocumentsMoved DEF DocumentExpenses
<1>7. Available(P) = Pos(Part(a, P) + Part(b, P) - Part(c, P) - Part(d, P))
  BY <1>1, <1>3, <1>4, <1>5, <1>6 DEF Available, Sum, Total
<1>8. PICK u, v : u = [i \in Ids |-> a[i] + b[i]] /\ v = [i \in Ids |-> u[i] - c[i]]
  OBVIOUS
<1>9. Numbers(u) /\ Numbers(v) /\ Numbers(Kept)
  BY <1>2, <1>8, AllNumbers DEF Numbers
<1>10. ASSUME NEW i \in Ids, In(i, P) PROVE Kept[i] = v[i] - d[i]
  <2>1. rows[i] # NULL
    BY <1>10 DEF In
  <2>2. a[i] \in Int /\ b[i] \in Int /\ c[i] \in Int /\ d[i] \in Int
    BY <1>2 DEF Numbers
  <2> QED
    BY <1>1, <1>8, <2>1, <2>2 DEF Kept, KeptOf, Counts
<1>11. /\ Part(u, P) = Part(a, P) + Part(b, P)
       /\ Part(v, P) = Part(u, P) - Part(c, P)
       /\ Part(Kept, P) = Part(v, P) - Part(d, P)
  BY <1>2, <1>8, <1>9, <1>10, PartPlus, PartMinus
<1>12. /\ Part(a, P) \in Int /\ Part(b, P) \in Int /\ Part(c, P) \in Int /\ Part(d, P) \in Int
       /\ Part(u, P) \in Int /\ Part(v, P) \in Int
  BY <1>2, <1>9, PartInt
<1>13. Part(Kept, P) = Part(a, P) + Part(b, P) - Part(c, P) - Part(d, P)
  BY <1>11, <1>12
<1> QED
  BY <1>7, <1>13

-----------------------------------------------------------------------------
(* The days anything is dated.                                             *)
LEMMA DepositRowsDated ==
    ASSUME Shaped, NEW i \in Ids, NEW t \in DepositRowsOf(i)
    PROVE  rows[i] # NULL /\ t.date = rows[i].date
<1>1. CASE rows[i] = NULL
  BY <1>1 DEF DepositRowsOf, IsDocument, IsRecord, IsDeposit
<1>2. CASE rows[i] # NULL
  <2>1. PICK s \in Rows : s = rows[i]
    BY <1>2 DEF Shaped
  <2>2. s.kind \in {"document", "manual_entry", "deposit", "revenue_entry"} \cup ExpenseKinds
    BY RowIs
  <2>3. CASE s.kind = "document"
    <3>1. DepositRowsOf(i) = DocumentLinkedDeposits({}, s)
      BY <1>2, <2>1, <2>3 DEF DepositRowsOf, IsDocument, IsRecord, IsDeposit
    <3> QED
      BY <1>2, <2>1, <3>1 DEF DocumentLinkedDeposits, UpsertLinkedDeposit
  <2>4. CASE s.kind = "manual_entry"
    <3>1. DepositRowsOf(i) = RecordLinkedDeposits({}, s)
      BY <1>2, <2>1, <2>4 DEF DepositRowsOf, IsDocument, IsRecord, IsDeposit
    <3>2. PICK f : t \in UpsertLinkedDeposit(f, DepositTypeOf[f], s.date, s.paid[f])
      BY <3>1 DEF RecordLinkedDeposits
    <3> QED
      BY <1>2, <2>1, <3>2 DEF UpsertLinkedDeposit
  <2>5. CASE s.kind \in {"deposit", "revenue_entry"}
    <3>1. DepositRowsOf(i) = {[subtype |-> "own", type |-> s.type, date |-> s.date, amount |-> s.amount]}
      BY <1>2, <2>1, <2>5 DEF DepositRowsOf, IsDocument, IsRecord, IsDeposit
    <3> QED
      BY <1>2, <2>1, <3>1
  <2>6. CASE s.kind \in ExpenseKinds
    <3>1. DepositRowsOf(i) = {}
      BY <1>2, <2>1, <2>6 DEF DepositRowsOf, IsDocument, IsRecord, IsDeposit, ExpenseKinds
    <3> QED
      BY <3>1
  <2> QED
    BY <2>2, <2>3, <2>4, <2>5, <2>6
<1> QED
  BY <1>1, <1>2

LEMMA RowOnDay ==
    ASSUME Shaped, NEW i \in Ids, rows[i] # NULL
    PROVE  rows[i].date \in Days
<1>1. PICK s \in Rows : s = rows[i]
  BY DEF Shaped
<1>2. PICK D : D = {s.date}
  OBVIOUS
<1>3. s.kind \in {"document", "manual_entry", "deposit", "revenue_entry"} \cup ExpenseKinds /\ s.date \in Dates
  BY RowIs
<1>4. CASE s.kind \notin {"deposit", "revenue_entry"}
  <2>1. i \in Of({"manual_entry", "document"} \cup ExpenseKinds, D)
    BY <1>1, <1>2, <1>3, <1>4 DEF Of
  <2> QED
    BY <1>1, <1>2, <1>3, <2>1 DEF Days, Summarized
<1>5. CASE s.kind \in {"deposit", "revenue_entry"}
  <2>1. PICK t : t = [subtype |-> "own", type |-> s.type, date |-> s.date, amount |-> s.amount]
    OBVIOUS
  <2>2. t \in DepositRowsOf(i)
    BY <1>1, <1>5, <2>1 DEF DepositRowsOf, IsDocument, IsRecord, IsDeposit
  <2>3. <<i, t>> \in DepositRows(D)
    BY <1>2, <2>1, <2>2 DEF DepositRows
  <2> QED
    BY <1>1, <1>2, <1>3, <2>3 DEF Days, Summarized
<1> QED
  BY <1>4, <1>5

LEMMA DayHasRow ==
    ASSUME Shaped, NEW d \in Days
    PROVE  \E i \in Ids : rows[i] # NULL /\ rows[i].date = d
<1>1. CASE Of({"manual_entry", "document"} \cup ExpenseKinds, {d}) # {}
  BY <1>1 DEF Of
<1>2. CASE DepositRows({d}) # {}
  <2>1. PICK x \in DepositRows({d}) : TRUE
    BY <1>2
  <2>2. x[1] \in Ids /\ x[2] \in DepositRowsOf(x[1]) /\ x[2].date = d
    BY <2>1 DEF DepositRows
  <2> QED
    BY <2>2, DepositRowsDated
<1> QED
  BY <1>1, <1>2 DEF Days, Summarized

LEMMA FiniteDays ==
    ASSUME Shaped
    PROVE  IsFiniteSet(Days) /\ Days \subseteq Dates
<1>1. PICK E : E = {i \in Ids : rows[i] # NULL}
  OBVIOUS
<1>2. IsFiniteSet(E)
  BY <1>1, IdsAssumption, FS_Subset
<1>3. PICK m : m = [i \in E |-> rows[i].date]
  OBVIOUS
<1>4. PICK T : T = {m[i] : i \in E}
  OBVIOUS
<1>5. m \in Surjection(E, T)
  BY <1>3, <1>4 DEF Surjection
<1>6. IsFiniteSet(T)
  BY <1>2, <1>5, FS_Surjection
<1>7. Days \in SUBSET T
  BY <1>1, <1>3, <1>4, DayHasRow
<1> QED
  BY <1>6, <1>7, FS_Subset DEF Days

LEMMA DaysTotal ==
    ASSUME Shaped, NEW g, Numbers(g), NEW P, NEW f, \A d \in P \cap Days : f[d] = Part(g, {d})
    PROVE  Total(f, P \cap Days) = Part(g, P)
<1>1. PICK D : D = P \cap Days
  OBVIOUS
<1>2. IsFiniteSet(D)
  BY <1>1, FiniteDays, FS_Subset
<1>3. Total(f, D) = Part(g, D)
  BY <1>1, <1>2, PartDays
<1>4. \A i \in Ids : In(i, D) <=> In(i, P)
  BY <1>1, RowOnDay DEF In
<1>5. [i \in Ids |-> IF In(i, D) THEN g[i] ELSE 0] = [i \in Ids |-> IF In(i, P) THEN g[i] ELSE 0]
  BY <1>4
<1> QED
  BY <1>1, <1>3, <1>5 DEF Part

LEMMA Analytics ==
    ASSUME Shaped, NEW P
    PROVE  AnalyticsRevenue(P) = Part(Gain, P)
<1>1. PICK f : f = [d \in P \cap Days |-> Revenue({d})]
  OBVIOUS
<1>2. \A d \in P \cap Days : f[d] = Part(Gain, {d})
  BY <1>1, RevenueIn
<1> QED
  BY <1>1, <1>2, AllNumbers, DaysTotal DEF AnalyticsRevenue, Sum, Total

-----------------------------------------------------------------------------
(* The shapes of the rows that are edited to rows of their own.            *)
LEMMA DocumentShape ==
    ASSUME NEW s \in Rows, s.kind = "document"
    PROVE  s \in [kind: {"document"}, type: DocumentTypes, status: {"processed"}, date: Dates,
                  amount: Nat, total: Nat, vat: Nat, lines: SUBSET Lines]
  BY DEF Rows, ExpenseKinds

LEMMA EntryShape ==
    ASSUME NEW s \in Rows, s.kind = "revenue_entry"
    PROVE  s \in [kind: {"revenue_entry"}, type: {"cash_in", "bank_deposit", "cash_deposit"}, date: Dates,
                  amount: Nat, lunch: Nat, dinner: Nat]
  BY DEF Rows, ExpenseKinds

LEMMA EditShape ==
    ASSUME NEW f \in Forms, NEW g \in EditForms(f)
    PROVE  EditedRow(f, g) \in Rows
<1>1. f \in Rows
  BY FormsAssumption
<1>2. CASE IsDocument(f)
  <2>1. f \in [kind: {"document"}, type: DocumentTypes, status: {"processed"}, date: Dates,
               amount: Nat, total: Nat, vat: Nat, lines: SUBSET Lines]
    BY <1>1, <1>2, DocumentShape DEF IsDocument
  <2>2. g \in Forms /\ g.kind = "document"
    BY <1>2 DEF EditForms, IsDocument
  <2>3. g \in [kind: {"document"}, type: DocumentTypes, status: {"processed"}, date: Dates,
               amount: Nat, total: Nat, vat: Nat, lines: SUBSET Lines]
    BY <2>2, FormsAssumption, DocumentShape
  <2>4. EditedRow(f, g) = [f EXCEPT !.date = g.date, !.total = g.total, !.vat = g.vat]
    BY <1>2 DEF EditedRow
  <2>5. EditedRow(f, g) \in [kind: {"document"}, type: DocumentTypes, status: {"processed"}, date: Dates,
                             amount: Nat, total: Nat, vat: Nat, lines: SUBSET Lines]
    BY <2>1, <2>3, <2>4
  <2> QED
    BY <2>5 DEF Rows
<1>3. CASE ~IsDocument(f) /\ f.kind = "revenue_entry"
  <2>1. PICK h \in Forms : h.kind = "deposit" /\ g = [f EXCEPT !.type = h.type, !.date = h.date, !.amount = h.amount]
    BY <1>3 DEF EditForms
  <2>2. h.type \in {"cash_in", "bank_deposit", "cash_deposit"} /\ h.date \in Dates /\ h.amount \in Nat
    BY <2>1, FormsAssumption, RowIs
  <2>3. g \in [kind: {"revenue_entry"}, type: {"cash_in", "bank_deposit", "cash_deposit"}, date: Dates,
               amount: Nat, lunch: Nat, dinner: Nat]
    BY <1>1, <1>3, <2>1, <2>2, EntryShape
  <2> QED
    BY <1>3, <2>3 DEF EditedRow, Rows
<1>4. CASE ~IsDocument(f) /\ f.kind # "revenue_entry"
  BY <1>4, FormsAssumption DEF EditForms, EditedRow
<1> QED
  BY <1>2, <1>3, <1>4

LEMMA FormsShaped == RowsOfForms \subseteq Rows
  BY FormsAssumption, EditShape DEF RowsOfForms

(* An edit of an edited row is an edit of the form it was entered as.      *)
LEMMA EditedTwice ==
    ASSUME NEW row \in RowsOfForms, row # NULL, NEW f \in EditForms(row)
    PROVE  EditedRow(row, f) \in RowsOfForms
<1>1. CASE row \in Forms
  BY <1>1 DEF RowsOfForms
<1>2. CASE row \notin Forms
  <2>e. PICK e \in Forms : \E g \in EditForms(e) : row = EditedRow(e, g)
    BY <1>2 DEF RowsOfForms
  <2>1. PICK g \in EditForms(e) : row = EditedRow(e, g)
    BY <2>e
  <2>2. e \in Rows
    BY FormsAssumption
  <2>3. CASE IsDocument(e)
    <3>1. e \in [kind: {"document"}, type: DocumentTypes, status: {"processed"}, date: Dates,
                 amount: Nat, total: Nat, vat: Nat, lines: SUBSET Lines]
      BY <2>2, <2>3, DocumentShape DEF IsDocument
    <3>2. row = [e EXCEPT !.date = g.date, !.total = g.total, !.vat = g.vat]
      BY <2>1, <2>3 DEF EditedRow
    <3>3. row.kind = "document" /\ e.kind = "document" /\ IsDocument(row)
      BY <3>1, <3>2 DEF IsDocument
    <3>4. f \in EditForms(e)
      BY <3>3 DEF EditForms
    <3>5. EditedRow(row, f) = [row EXCEPT !.date = f.date, !.total = f.total, !.vat = f.vat]
      BY <3>3 DEF EditedRow
    <3>6. EditedRow(e, f) = [e EXCEPT !.date = f.date, !.total = f.total, !.vat = f.vat]
      BY <2>3 DEF EditedRow
    <3>7. EditedRow(row, f) = EditedRow(e, f)
      BY <3>1, <3>2, <3>5, <3>6
    <3> QED
      BY <3>4, <3>7 DEF RowsOfForms
  <2>4. CASE ~IsDocument(e) /\ e.kind = "revenue_entry"
    <3>1. row = g
      BY <2>1, <2>4 DEF EditedRow
    <3>2. PICK h \in Forms : h.kind = "deposit" /\ g = [e EXCEPT !.type = h.type, !.date = h.date, !.amount = h.amount]
      BY <2>4 DEF EditForms
    <3>3. e \in [kind: {"revenue_entry"}, type: {"cash_in", "bank_deposit", "cash_deposit"}, date: Dates,
                 amount: Nat, lunch: Nat, dinner: Nat]
      BY <2>2, <2>4, EntryShape
    <3>4. row.kind = "revenue_entry" /\ ~IsDocument(row)
      BY <3>1, <3>2, <3>3 DEF IsDocument
    <3>5. PICK k \in Forms : k.kind = "deposit" /\ f = [row EXCEPT !.type = k.type, !.date = k.date, !.amount = k.amount]
      BY <3>4 DEF EditForms
    <3>6. f = [e EXCEPT !.type = k.type, !.date = k.date, !.amount = k.amount]
      BY <3>1, <3>2, <3>3, <3>5
    <3>7. f \in EditForms(e)
      BY <2>4, <3>5, <3>6 DEF EditForms
    <3>8. EditedRow(row, f) = f /\ EditedRow(e, f) = f
      BY <2>4, <3>4 DEF EditedRow
    <3> QED
      BY <3>7, <3>8 DEF RowsOfForms
  <2>5. CASE ~IsDocument(e) /\ e.kind # "revenue_entry"
    BY <1>2, <2>1, <2>5 DEF EditForms, EditedRow
  <2> QED
    BY <2>3, <2>4, <2>5
<1> QED
  BY <1>1, <1>2

(* A row has the shape of a form or of its edit, whichever edits it went   *)
(* through: the update handlers of documents, records, items and deposits. *)
THEOREM RowsKeepTheirShape == Spec => []TypeOK
<1>1. Init => TypeOK
  BY DEF Init, TypeOK
<1>2. TypeOK /\ [Next]_rows => TypeOK'
  <2> SUFFICES ASSUME TypeOK, [Next]_rows PROVE TypeOK'
    OBVIOUS
  <2>1. CASE UNCHANGED rows
    BY <2>1 DEF TypeOK
  <2>2. ASSUME NEW i \in Ids, Enter(i) PROVE TypeOK'
    BY <2>2 DEF Enter, TypeOK, RowsOfForms
  <2>3. ASSUME NEW i \in Ids, Edit(i) PROVE TypeOK'
    <3>1. PICK f \in EditForms(rows[i]) : rows' = [rows EXCEPT ![i] = EditedRow(rows[i], f)]
      BY <2>3 DEF Edit
    <3>2. EditedRow(rows[i], f) \in RowsOfForms
      BY <2>3, EditedTwice DEF Edit, TypeOK
    <3> QED
      BY <3>1, <3>2 DEF TypeOK
  <2>4. ASSUME NEW i \in Ids, Remove(i) PROVE TypeOK'
    BY <2>4 DEF Remove, TypeOK
  <2> QED
    BY <2>1, <2>2, <2>3, <2>4 DEF Next
<1> QED
  BY <1>1, <1>2, PTL DEF Spec

LEMMA TypedIsShaped ==
    ASSUME TypeOK
    PROVE  Shaped
  BY FormsShaped DEF TypeOK, Shaped

-----------------------------------------------------------------------------
(* Each sale once.                                                         *)
LEMMA TotalEntered ==
    ASSUME NEW P, NEW f, NEW g, \A i \in Ids : In(i, P) => f[i] = g[i] /\ g[i] \in Int
    PROVE  Total(f, Entered(P)) = Part(g, P)
<1>1. PICK a : a = [i \in Ids |-> IF In(i, P) THEN g[i] ELSE 0]
  OBVIOUS
<1>2. PICK S : S = Entered(P)
  OBVIOUS
<1>3. S \in SUBSET Ids /\ \A i \in Ids : i \in S <=> In(i, P)
  BY <1>2 DEF Entered, In
<1>4. \A i \in S : f[i] \in Int
  BY <1>3
<1>5. \A i \in Ids : a[i] = IF i \in S THEN f[i] ELSE 0
  BY <1>1, <1>3
<1>6. Total(f, S) = Total(a, Ids)
  BY <1>3, <1>4, <1>5, IdsAssumption, TotalPart
<1> QED
  BY <1>1, <1>2, <1>6 DEF Part

LEMMA SalesOfRows ==
    ASSUME Shaped, NEW P
    PROVE  Revenue(P) = Sum(Sale, Entered(P))
<1>1. PICK f : f = [i \in Entered(P) |-> Sale(i)]
  OBVIOUS
<1>2. ASSUME NEW i \in Ids, In(i, P) PROVE f[i] = Gain[i] /\ Gain[i] \in Int
  <2>1. i \in Entered(P) /\ rows[i] # NULL /\ rows[i] \in Rows
    BY <1>2, RowIn DEF Entered, In
  <2>2. f[i] = Sale(i) /\ Gain[i] = GainOf(rows[i])
    BY <1>1, <2>1 DEF Gain
  <2>3. Gain[i] \in Int
    BY AllNumbers DEF Numbers
  <2>4. Sale(i) = GainOf(rows[i])
    <3>1. CASE rows[i].kind = "manual_entry"
      BY <3>1 DEF Sale, GainOf
    <3>2. CASE rows[i].kind = "revenue_entry"
      BY <3>2 DEF Sale, GainOf
    <3>3. CASE rows[i].kind = "document"
      BY <3>3 DEF Sale, GainOf, DocumentSales, Counts
    <3>4. CASE rows[i].kind \notin {"manual_entry", "revenue_entry", "document"}
      BY <3>4 DEF Sale, GainOf, Counts
    <3> QED
      BY <3>1, <3>2, <3>3, <3>4
  <2> QED
    BY <2>2, <2>3, <2>4
<1>3. Total(f, Entered(P)) = Part(Gain, P)
  BY <1>2, TotalEntered
<1> QED
  BY <1>1, <1>3, RevenueIn DEF Sum, Total

(* The linked rows of a record, one for each amount that is not zero.      *)
LEMMA RecordRows ==
    ASSUME Shaped, NEW i \in Of({"manual_entry"}, Dates)
    PROVE  /\ rows[i] \in Rows /\ rows[i].kind = "manual_entry"
           /\ DepositRowsOf(i) = UNION {UpsertLinkedDeposit(f, DepositTypeOf[f], rows[i].date, rows[i].paid[f]) :
                                          f \in PaidFields(rows[i].method)}
<1>1. i \in Ids /\ rows[i] # NULL /\ rows[i].kind = "manual_entry" /\ rows[i] \in Rows
  BY DEF Of, Shaped
<1>2. DepositRowsOf(i) = RecordLinkedDeposits({}, rows[i])
  BY <1>1 DEF DepositRowsOf, IsDocument, IsRecord, IsDeposit
<1> QED
  BY <1>1, <1>2 DEF RecordLinkedDeposits

LEMMA NothingDerived ==
    ASSUME Shaped, NEW i \in Of({"manual_entry"}, Dates)
    PROVE  DerivedMovements(i) = {}
<1> SUFFICES ASSUME NEW f \in PaidFields(rows[i].method), rows[i].paid[f] > 0
             PROVE  \E d \in DepositRowsOf(i) : d.subtype = f
  BY DEF DerivedMovements
<1>1. PICK d : d = [subtype |-> f, type |-> DepositTypeOf[f], date |-> rows[i].date, amount |-> rows[i].paid[f]]
  OBVIOUS
<1>2. rows[i].paid[f] \in Nat
  <2>1. rows[i].paid \in [AllPaidFields -> Nat]
    BY RecordRows, RowIs
  <2>2. f \in AllPaidFields
    BY DEF AllPaidFields, PaidFields
  <2> QED
    BY <2>1, <2>2
<1>3. d \in UpsertLinkedDeposit(f, DepositTypeOf[f], rows[i].date, rows[i].paid[f])
  BY <1>1, <1>2 DEF UpsertLinkedDeposit
<1>4. d \in DepositRowsOf(i)
  BY <1>3, RecordRows
<1> QED
  BY <1>1, <1>4

LEMMA TotalUpsert ==
    ASSUME NEW f, NEW type, NEW date, NEW amount \in Nat, NEW h, NEW n \in Int,
           amount = 0 => n = 0,
           amount # 0 => h[[subtype |-> f, type |-> type, date |-> date, amount |-> amount]] = n
    PROVE  /\ IsFiniteSet(UpsertLinkedDeposit(f, type, date, amount))
           /\ Total(h, UpsertLinkedDeposit(f, type, date, amount)) = n
<1>1. CASE amount = 0
  <2>1. UpsertLinkedDeposit(f, type, date, amount) = {}
    BY <1>1 DEF UpsertLinkedDeposit
  <2> QED
    BY <1>1, <2>1, FS_EmptySet, TotalEmpty
<1>2. CASE amount # 0
  <2>1. PICK d : d = [subtype |-> f, type |-> type, date |-> date, amount |-> amount]
    OBVIOUS
  <2>2. UpsertLinkedDeposit(f, type, date, amount) = {d}
    BY <1>2, <2>1 DEF UpsertLinkedDeposit
  <2>3. PICK S : S = {d}
    OBVIOUS
  <2>4. IsFiniteSet(S) /\ d \in S /\ h[d] = n
    BY <1>2, <2>1, <2>3, FS_Singleton
  <2>5. Total(h, S) = h[d]
    BY <2>3, <2>4, TotalOne
  <2> QED
    BY <2>2, <2>3, <2>4, <2>5
<1> QED
  BY <1>1, <1>2

LEMMA RegisterKept ==
    ASSUME Shaped, NEW i \in Of({"manual_entry"}, Dates), rows[i].method = "method_2"
    PROVE  Sum(LAMBDA d : Listed(d.type, d.amount),
               {d \in DepositRowsOf(i) : d.type \notin {"pos_payment", "bank_transfer_payment"}})
             = CashFlow(rows[i])
<1>1. PICK s \in Rows : s = rows[i] /\ s.kind = "manual_entry"
  BY RecordRows
<1>2. PICK p : p = s.paid
  OBVIOUS
<1>3. /\ p["pos_payments"] \in Nat /\ p["cash_payments"] \in Nat /\ p["bank_transfer_payments"] \in Nat
      /\ p["cash_out"] \in Nat /\ p["expenses_in_cash"] \in Nat
  BY <1>1, <1>2, RowIs, PaidIs
<1> DEFINE Up(f, type) == UpsertLinkedDeposit(f, type, s.date, p[f])
<1>4. PICK X : X = {d \in DepositRowsOf(i) : d.type \notin {"pos_payment", "bank_transfer_payment"}}
  OBVIOUS
<1>5. PICK A, B, C : A = Up("cash_payments", "cash_in") /\ B = Up("cash_out", "cash_out")
                     /\ C = Up("expenses_in_cash", "cash_expense")
  OBVIOUS
<1>6. /\ \A d \in A : d.subtype = "cash_payments" /\ d.type = "cash_in"
      /\ \A d \in B : d.subtype = "cash_out" /\ d.type = "cash_out"
      /\ \A d \in C : d.subtype = "expenses_in_cash" /\ d.type = "cash_expense"
      /\ \A d \in A \cup B \cup C : d.amount \in Int
  BY <1>3, <1>5 DEF UpsertLinkedDeposit
<1>7. X = A \cup B \cup C
  <2>1. DepositRowsOf(i) = UNION {Up(f, DepositTypeOf[f]) : f \in PaidFields("method_2")}
    BY <1>1, <1>2, RecordRows
  <2>2. DepositRowsOf(i) = Up("pos_payments", "pos_payment") \cup Up("bank_transfer_payments", "bank_transfer_payment")
                             \cup A \cup B \cup C
    <3> HIDE DEF Up
    <3> QED
      BY <1>5, <2>1 DEF PaidFields, DepositTypeOf
  <2>3. /\ \A d \in Up("pos_payments", "pos_payment") : d.type = "pos_payment"
        /\ \A d \in Up("bank_transfer_payments", "bank_transfer_payment") : d.type = "bank_transfer_payment"
    BY DEF UpsertLinkedDeposit
  <2> HIDE DEF Up
  <2> QED
    BY <1>4, <1>6, <2>2, <2>3
<1>8. PICK h : h = [d \in X |-> Listed(d.type, d.amount)]
  OBVIOUS
<1>9. \A d \in X : h[d] = Listed(d.type, d.amount) /\ h[d] \in Int
  BY <1>6, <1>7, <1>8 DEF Listed
<1>10. IsFiniteSet(A) /\ Total(h, A) = p["cash_payments"]
  <2>1. ASSUME p["cash_payments"] # 0
        PROVE  h[[subtype |-> "cash_payments", type |-> "cash_in", date |-> s.date, amount |-> p["cash_payments"]]]
                 = p["cash_payments"]
    <3>1. PICK d : d = [subtype |-> "cash_payments", type |-> "cash_in", date |-> s.date, amount |-> p["cash_payments"]]
      OBVIOUS
    <3>2. d \in A
      BY <1>3, <1>5, <2>1, <3>1 DEF UpsertLinkedDeposit
    <3> QED
      BY <1>7, <1>9, <3>1, <3>2 DEF Listed, Outflows
  <2> QED
    BY <1>3, <1>5, <2>1, TotalUpsert
<1>11. IsFiniteSet(B) /\ Total(h, B) = -p["cash_out"]
  <2>1. ASSUME p["cash_out"] # 0
        PROVE  h[[subtype |-> "cash_out", type |-> "cash_out", date |-> s.date, amount |-> p["cash_out"]]]
                 = -p["cash_out"]
    <3>1. PICK d : d = [subtype |-> "cash_out", type |-> "cash_out", date |-> s.date, amount |-> p["cash_out"]]
      OBVIOUS
    <3>2. d \in B
      BY <1>3, <1>5, <2>1, <3>1 DEF UpsertLinkedDeposit
    <3> QED
      BY <1>7, <1>9, <3>1, <3>2 DEF Listed, Outflows
  <2>2. PICK n : n = -p["cash_out"]
    OBVIOUS
  <2>3. n \in Int /\ (p["cash_out"] = 0 => n = 0)
    BY <1>3, <2>2
  <2> QED
    BY <1>3, <1>5, <2>1, <2>2, <2>3, TotalUpsert
<1>12. IsFiniteSet(C) /\ Total(h, C) = -p["expenses_in_cash"]
  <2>1. ASSUME p["expenses_in_cash"] # 0
        PROVE  h[[subtype |-> "expenses_in_cash", type |-> "cash_expense", date |-> s.date,
                  amount |-> p["expenses_in_cash"]]] = -p["expenses_in_cash"]
    <3>1. PICK d : d = [subtype |-> "expenses_in_cash", type |-> "cash_expense", date |-> s.date,
                        amount |-> p["expenses_in_cash"]]
      OBVIOUS
    <3>2. d \in C
      BY <1>3, <1>5, <2>1, <3>1 DEF UpsertLinkedDeposit
    <3> QED
      BY <1>7, <1>9, <3>1, <3>2 DEF Listed, Outflows
  <2>2. PICK n : n = -p["expenses_in_cash"]
    OBVIOUS
  <2>3. n \in Int /\ (p["expenses_in_cash"] = 0 => n = 0)
    BY <1>3, <2>2
  <2> QED
    BY <1>3, <1>5, <2>1, <2>2, <2>3, TotalUpsert
<1>13. IsFiniteSet(X)
  BY <1>7, <1>10, <1>11, <1>12, FS_Union
<1>14. Total(h, A \cup B) = Total(h, A) + Total(h, B)
  BY <1>6, <1>7, <1>9, <1>13, TotalUnion
<1>15. Total(h, (A \cup B) \cup C) = Total(h, A \cup B) + Total(h, C)
  <2>1. PICK D : D = A \cup B
    OBVIOUS
  <2>2. D \in SUBSET X /\ C \in SUBSET X /\ D \cap C = {}
    BY <1>6, <1>7, <2>1
  <2>3. Total(h, D \cup C) = Total(h, D) + Total(h, C)
    BY <1>9, <1>13, <2>2, TotalUnion
  <2> QED
    BY <2>1, <2>3
<1>16. Total(h, X) = p["cash_payments"] - p["cash_out"] - p["expenses_in_cash"]
  BY <1>3, <1>7, <1>10, <1>11, <1>12, <1>14, <1>15
<1>17. CashFlow(rows[i]) = p["cash_payments"] - p["cash_out"] - p["expenses_in_cash"]
  BY <1>1, <1>2 DEF CashFlow
<1> QED
  BY <1>4, <1>8, <1>16, <1>17 DEF Sum, Total

(* A sale counts once: the revenue of a snapshot is that of the records,   *)
(* the documents and the revenue entries (build_aggregate_snapshot), and a *)
(* movement of cash is listed once, whatever the rows are.                 *)
THEOREM SalesOnce == Spec => []SalesCountOnce
<1>1. TypeOK => SalesCountOnce
  BY TypedIsShaped, SalesOfRows, NothingDerived, RegisterKept
     DEF SalesCountOnce, RevenueOfSales, MovementsListedOnce
<1> QED
  BY <1>1, RowsKeepTheirShape, PTL

-----------------------------------------------------------------------------
(* Largest and least, and the days of an interval.                         *)
LEMMA Largest ==
    ASSUME NEW S \in SUBSET Int, IsFiniteSet(S), S # {}
    PROVE  Max(S) \in S /\ \A y \in S : y <= Max(S)
<1> DEFINE Good == {T \in SUBSET S : T = {} \/ \E x \in T : \A y \in T : x >= y}
<1>1. {} \in Good
  OBVIOUS
<1>2. ASSUME NEW T \in SUBSET S, NEW x \in S \ T, T \in Good
      PROVE  T \cup {x} \in Good
  <2>1. CASE T = {}
    BY <2>1
  <2>2. CASE T # {}
    <3>1. PICK z \in T : \A y \in T : z >= y
      BY <1>2, <2>2
    <3>2. x \in Int /\ z \in Int /\ \A y \in T : y \in Int
      OBVIOUS
    <3>3. CASE x >= z
      <4>1. \A y \in T \cup {x} : x >= y
        BY <3>1, <3>2, <3>3
      <4> QED
        BY <4>1
    <3>4. CASE ~(x >= z)
      <4>1. \A y \in T \cup {x} : z >= y
        BY <3>1, <3>2, <3>4
      <4> QED
        BY <4>1
    <3> QED
      BY <3>3, <3>4
  <2> QED
    BY <2>1, <2>2
<1> HIDE DEF Good
<1>3. S \in Good
  BY <1>1, <1>2, SetByElement
<1>4. PICK x \in S : \A y \in S : x >= y
  BY <1>3 DEF Good
<1>5. Max(S) \in S /\ \A y \in S : Max(S) >= y
  BY <1>4 DEF Max
<1> QED
  BY <1>5

LEMMA Ends ==
    ASSUME NEW a \in Int, NEW b \in Int, a <= b
    PROVE  Min(a..b) = a /\ Max(a..b) = b
<1>1. Max(a..b) \in a..b /\ \A y \in a..b : Max(a..b) >= y
  <2>1. b \in a..b /\ \A y \in a..b : b >= y
    OBVIOUS
  <2> QED
    BY <2>1 DEF Max
<1>2. Min(a..b) \in a..b /\ \A y \in a..b : Min(a..b) <= y
  <2>1. a \in a..b /\ \A y \in a..b : a <= y
    OBVIOUS
  <2> QED
    BY <2>1 DEF Min
<1> QED
  BY <1>1, <1>2

LEMMA AnchorIs ==
    ASSUME Shaped
    PROVE  Anchor \in Int
<1>1. IsFiniteSet(Days) /\ \A d \in Days : d \in Int
  <2>1. \A d \in Dates : d \in Int
    BY DatesAssumption
  <2> QED
    BY <2>1, FiniteDays
<1>2. PICK S : S = Days
  OBVIOUS
<1>3. S \in SUBSET Int /\ IsFiniteSet(S)
  BY <1>1, <1>2
<1>4. CASE S = {}
  BY <1>2, <1>4 DEF Anchor
<1>5. CASE S # {}
  <2>1. Max(S) \in S
    BY <1>3, <1>5, Largest
  <2>2. Anchor = Max(S)
    BY <1>2, <1>5 DEF Anchor
  <2> QED
    BY <1>3, <2>1, <2>2
<1> QED
  BY <1>4, <1>5

(* Only days that are dates count.                                         *)
LEMMA PartDates ==
    ASSUME Shaped, NEW g, NEW P, NEW Q, P \cap Dates = Q \cap Dates
    PROVE  Part(g, P) = Part(g, Q)
<1>1. \A i \in Ids : rows[i] # NULL => rows[i].date \in Dates
  BY RowIs DEF Shaped
<1>2. \A i \in Ids : In(i, P) <=> In(i, Q)
  BY <1>1 DEF In
<1>3. [i \in Ids |-> IF In(i, P) THEN g[i] ELSE 0] = [i \in Ids |-> IF In(i, Q) THEN g[i] ELSE 0]
  BY <1>2
<1> QED
  BY <1>3 DEF Part

-----------------------------------------------------------------------------
(* The figures of a period are those of its days.                          *)
LEMMA DaysProfitIs ==
    ASSUME Shaped, NEW P
    PROVE  Profit(P) = DaysProfit(P) /\ DaysProfit(P) = Part(Gain, P) - Part(Cost, P)
<1>1. PICK n : n = [i \in Ids |-> Gain[i] - Cost[i]]
  OBVIOUS
<1>2. Numbers(n)
  BY <1>1, AllNumbers DEF Numbers
<1>3. ASSUME NEW Q PROVE Profit(Q) = Part(n, Q) /\ Part(n, Q) = Part(Gain, Q) - Part(Cost, Q)
  <2>1. \A i \in Ids : In(i, Q) => n[i] = Gain[i] - Cost[i]
    BY <1>1
  <2>2. Part(n, Q) = Part(Gain, Q) - Part(Cost, Q)
    BY <1>2, <2>1, AllNumbers, PartMinus
  <2> QED
    BY <2>2, RevenueIn, ExpensesOf DEF Profit
<1>4. PICK f : f = [d \in P \cap Days |-> Profit({d})]
  OBVIOUS
<1>5. \A d \in P \cap Days : f[d] = Part(n, {d})
  BY <1>3, <1>4
<1>6. Total(f, P \cap Days) = Part(n, P)
  BY <1>2, <1>5, DaysTotal
<1> QED
  BY <1>3, <1>4, <1>6 DEF DaysProfit, Sum, Total

LEMMA DaysExpensesIs ==
    ASSUME Shaped, NEW P
    PROVE  DaysExpenses(P) = Part(Cost, P)
<1>1. PICK f : f = [d \in P \cap Days |-> ExpensesIn({d})]
  OBVIOUS
<1>2. \A d \in P \cap Days : f[d] = Part(Cost, {d})
  BY <1>1, ExpensesOf
<1>3. Total(f, P \cap Days) = Part(Cost, P)
  BY <1>2, AllNumbers, DaysTotal
<1> QED
  BY <1>1, <1>3 DEF DaysExpenses, Sum, Total

LEMMA DaysBankIs ==
    ASSUME Shaped, NEW P
    PROVE  Sum(LAMBDA d : BankDeposits({d}), P \cap Days) = Part(Banked, P)
<1>1. PICK f : f = [d \in P \cap Days |-> BankDeposits({d})]
  OBVIOUS
<1>2. \A d \in P \cap Days : f[d] = Part(Banked, {d})
  BY <1>1, BankOf
<1>3. Total(f, P \cap Days) = Part(Banked, P)
  BY <1>2, AllNumbers, DaysTotal
<1> QED
  BY <1>1, <1>3 DEF Sum, Total

(* Cash is cut off at zero day by day.                                     *)
LEMMA LessIsShown ==
    ASSUME Shaped, NEW P
    PROVE  Available(P) <= HomeAvailable(P)
<1>1. PICK D : D = P \cap Days
  OBVIOUS
<1>2. PICK f, k : f = [d \in D |-> Available({d})] /\ k = [d \in D |-> Part(Kept, {d})]
  OBVIOUS
<1>3. ASSUME NEW d \in D PROVE k[d] \in Int /\ f[d] \in Nat /\ k[d] <= f[d]
  <2>1. k[d] \in Int
    BY <1>2, AllNumbers, PartInt
  <2>2. f[d] = Pos(k[d])
    BY <1>2, AvailableOf
  <2> QED
    BY <2>1, <2>2 DEF Pos
<1>4. IsFiniteSet(D)
  BY <1>1, FiniteDays, FS_Subset
<1>5. Total(k, D) = Part(Kept, P)
  <2>1. \A d \in P \cap Days : k[d] = Part(Kept, {d})
    BY <1>1, <1>2
  <2> QED
    BY <1>1, <2>1, AllNumbers, DaysTotal
<1>6. Total(k, D) <= Total(f, D) /\ Total(f, D) \in Nat /\ Total(k, D) \in Int
  BY <1>3, <1>4, TotalLess, TotalNat, TotalWithout
<1>7. Available(P) = Pos(Total(k, D)) /\ HomeAvailable(P) = Total(f, D)
  BY <1>1, <1>2, <1>5, AvailableOf DEF HomeAvailable, Sum, Total
<1> QED
  BY <1>6, <1>7 DEF Pos

(* Covers are those of the records and of the revenue entries.             *)
Lunched == [i \in Ids |-> IF rows[i] # NULL /\ rows[i].kind \in {"manual_entry", "revenue_entry"} THEN rows[i].lunch ELSE 0]
Dined == [i \in Ids |-> IF rows[i] # NULL /\ rows[i].kind \in {"manual_entry", "revenue_entry"} THEN rows[i].dinner ELSE 0]

LEMMA CoverNumbers ==
    ASSUME Shaped
    PROVE  /\ Numbers(Lunched) /\ Numbers(Dined)
           /\ \A i \in Ids : Lunched[i] \in Nat /\ Dined[i] \in Nat
<1>1. ASSUME NEW i \in Ids PROVE Lunched[i] \in Nat /\ Dined[i] \in Nat
  <2>1. CASE rows[i] = NULL
    BY <2>1 DEF Lunched, Dined
  <2>2. CASE rows[i] # NULL
    <3>1. rows[i] \in Rows
      BY <2>2 DEF Shaped
    <3> QED
      BY <2>2, <3>1, RowIs DEF Lunched, Dined
  <2> QED
    BY <2>1, <2>2
<1> QED
  BY <1>1 DEF Numbers

LEMMA CoversOf ==
    ASSUME Shaped, NEW P
    PROVE  /\ Lunches(P) = Part(Lunched, P) /\ Lunches(P) \in Nat
           /\ Dinners(P) = Part(Dined, P) /\ Dinners(P) \in Nat
<1>1. PICK S : S = Of({"manual_entry", "revenue_entry"}, P)
  OBVIOUS
<1>2. PICK f, e : f = [i \in S |-> rows[i].lunch] /\ e = [i \in S |-> rows[i].dinner]
  OBVIOUS
<1>3. ASSUME NEW i \in Ids, In(i, P), rows[i].kind \in {"manual_entry", "revenue_entry"}
      PROVE  f[i] = Lunched[i] /\ e[i] = Dined[i]
  <2>1. i \in S /\ rows[i] # NULL
    BY <1>1, <1>3 DEF Of, In
  <2> QED
    BY <1>2, <1>3, <2>1 DEF Lunched, Dined
<1>4. \A i \in Ids : rows[i].kind \notin {"manual_entry", "revenue_entry"} => Lunched[i] = 0 /\ Dined[i] = 0
  BY DEF Lunched, Dined
<1>5. Total(f, S) = Part(Lunched, P) /\ Total(e, S) = Part(Dined, P)
  BY <1>1, <1>3, <1>4, CoverNumbers, PartOf DEF Numbers
<1> QED
  BY <1>1, <1>2, <1>5, CoverNumbers, PartNat DEF Lunches, Dinners, Sum, Total

LEMMA DaysLunches ==
    ASSUME Shaped, NEW P
    PROVE  Lunches(P) = Sum(LAMBDA d : Lunches({d}), P \cap Days)
<1>1. PICK f : f = [d \in P \cap Days |-> Lunches({d})]
  OBVIOUS
<1>2. \A d \in P \cap Days : f[d] = Part(Lunched, {d})
  BY <1>1, CoversOf
<1>3. Total(f, P \cap Days) = Part(Lunched, P)
  BY <1>2, CoverNumbers, DaysTotal
<1> QED
  BY <1>1, <1>3, CoversOf DEF Sum, Total

LEMMA SomePeak ==
    ASSUME Shaped, NEW P, WithCovers # {}
    PROVE  PeakHour(P) # "N/A"
<1>1. PICK c : c = ShownCovers(P)
  OBVIOUS
<1>2. c.lunch \in Nat /\ c.dinner \in Nat /\ c.lunch + c.dinner # 0
  <2>1. CASE Lunches(P) + Dinners(P) > 0
    <3>1. c = [lunch |-> Lunches(P), dinner |-> Dinners(P)]
      BY <1>1, <2>1 DEF ShownCovers
    <3> QED
      BY <2>1, <3>1, CoversOf
  <2>2. CASE ~(Lunches(P) + Dinners(P) > 0)
    <3>1. PICK m : m = Max(WithCovers)
      OBVIOUS
    <3>2. m \in WithCovers
      <4>1. WithCovers \in SUBSET Int /\ IsFiniteSet(WithCovers)
        <5>1. WithCovers \in SUBSET Days
          BY DEF WithCovers
        <5>2. \A d \in Dates : d \in Int
          BY DatesAssumption
        <5>3. IsFiniteSet(WithCovers)
          BY <5>1, FiniteDays, FS_Subset
        <5>4. \A d \in WithCovers : d \in Int
          BY <5>1, <5>2, FiniteDays
        <5> QED
          BY <5>3, <5>4
      <4> QED
        BY <3>1, <4>1, Largest
    <3>3. Lunches({m}) + Dinners({m}) > 0
      BY <3>2 DEF WithCovers, Covers
    <3>4. c = [lunch |-> Lunches({m}), dinner |-> Dinners({m})]
      BY <1>1, <2>2, <3>1 DEF ShownCovers
    <3>5. Lunches({m}) \in Nat /\ Dinners({m}) \in Nat
      BY CoversOf
    <3> QED
      BY <3>3, <3>4, <3>5
  <2> QED
    BY <2>1, <2>2
<1>3. PeakHour(P) = CASE c.lunch + c.dinner = 0 -> "N/A"
                      [] c.dinner >= c.lunch -> "Dinner"
                      [] OTHER -> "Lunch"
  BY <1>1 DEF PeakHour
<1>4. CASE c.dinner >= c.lunch
  BY <1>2, <1>3, <1>4
<1>5. CASE ~(c.dinner >= c.lunch)
  BY <1>2, <1>3, <1>5
<1> QED
  BY <1>4, <1>5

LEMMA DaysAddUp ==
    ASSUME Shaped
    PROVE  FiguresOfDays
<1> SUFFICES ASSUME NEW P
             PROVE  /\ Revenue(P) = AnalyticsRevenue(P)
                    /\ Profit(P) = DaysProfit(P)
                    /\ BankDeposits(P) = Sum(LAMBDA d : BankDeposits({d}), P \cap Days)
                    /\ Available(P) <= HomeAvailable(P)
                    /\ Lunches(P) = Sum(LAMBDA d : Lunches({d}), P \cap Days)
                    /\ WithCovers # {} => PeakHour(P) # "N/A"
  BY DEF FiguresOfDays
<1>1. Revenue(P) = AnalyticsRevenue(P)
  BY RevenueIn, Analytics
<1>2. BankDeposits(P) = Sum(LAMBDA d : BankDeposits({d}), P \cap Days)
  BY BankOf, DaysBankIs
<1> QED
  BY <1>1, <1>2, DaysProfitIs, LessIsShown, DaysLunches, SomePeak

-----------------------------------------------------------------------------
(* The days home shows, taken apart.                                       *)
HomeOf(P) == Total([d \in Days |-> DayRevenue(d)], P \cap Days) + Part(Entry, P)

LEMMA DayRevenueInt ==
    ASSUME Shaped, NEW d
    PROVE  DayRevenue(d) \in Int /\ Revenue({d}) \in Int /\ BankDeposits({d}) \in Nat
<1>1. Revenue({d}) = Part(Gain, {d}) /\ BankDeposits({d}) = Part(Banked, {d})
  BY RevenueIn, BankOf
<1>2. Part(Gain, {d}) \in Int
  BY AllNumbers, PartInt
<1>3. Part(Banked, {d}) \in Nat
  BY AllNumbers, PartNat
<1> QED
  BY <1>1, <1>2, <1>3 DEF DayRevenue

LEMMA HomeIs ==
    ASSUME Shaped, NEW P
    PROVE  HomeRevenue(P) = HomeOf(P) /\ HomeOf(P) \in Int
<1>1. PICK D : D = P \cap Days
  OBVIOUS
<1>2. PICK f, v : f = [d \in D |-> DayRevenue(d)] /\ v = [d \in Days |-> DayRevenue(d)]
  OBVIOUS
<1>3. IsFiniteSet(D) /\ \A d \in D : f[d] = v[d] /\ v[d] \in Int
  BY <1>1, <1>2, FiniteDays, FS_Subset, DayRevenueInt
<1>4. Total(f, D) = Total(v, D) /\ Total(v, D) \in Int
  BY <1>3, TotalSame, TotalWithout
<1>5. RevenueEntries(P) = Part(Entry, P) /\ Part(Entry, P) \in Int
  BY EntriesIn, AllNumbers, PartInt
<1>6. HomeRevenue(P) = Total(f, D) + RevenueEntries(P)
  BY <1>1, <1>2 DEF HomeRevenue, Sum, Total
<1>7. HomeOf(P) = Total(v, D) + Part(Entry, P)
  BY <1>1, <1>2 DEF HomeOf
<1> QED
  BY <1>4, <1>5, <1>6, <1>7

LEMMA HomeApart ==
    ASSUME Shaped, NEW P, NEW Q, P \cap Q = {}
    PROVE  HomeOf(P \cup Q) = HomeOf(P) + HomeOf(Q)
<1>1. PICK v : v = [d \in Days |-> DayRevenue(d)]
  OBVIOUS
<1>2. PICK A, B : A = P \cap Days /\ B = Q \cap Days
  OBVIOUS
<1>3. A \in SUBSET Days /\ B \in SUBSET Days /\ A \cap B = {} /\ A \cup B = (P \cup Q) \cap Days
  BY <1>2
<1>4. \A d \in Days : v[d] \in Int
  BY <1>1, DayRevenueInt
<1>5. Total(v, A \cup B) = Total(v, A) + Total(v, B)
  BY <1>3, <1>4, FiniteDays, TotalUnion
<1>6. Part(Entry, P \cup Q) = Part(Entry, P) + Part(Entry, Q)
  BY AllNumbers, PartUnion
<1>7. /\ Total(v, A) \in Int /\ Total(v, B) \in Int
      /\ Part(Entry, P) \in Int /\ Part(Entry, Q) \in Int
  <2>1. IsFiniteSet(A) /\ IsFiniteSet(B)
    BY <1>3, FiniteDays, FS_Subset
  <2> QED
    BY <1>3, <1>4, <2>1, AllNumbers, PartInt, TotalWithout
<1>8. /\ HomeOf(P) = Total(v, A) + Part(Entry, P)
      /\ HomeOf(Q) = Total(v, B) + Part(Entry, Q)
      /\ HomeOf(P \cup Q) = Total(v, A \cup B) + Part(Entry, P \cup Q)
  BY <1>1, <1>2, <1>3 DEF HomeOf
<1> QED
  BY <1>5, <1>6, <1>7, <1>8

LEMMA HomeOfNone ==
    ASSUME Shaped
    PROVE  HomeOf({}) = 0
<1>1. Part(Entry, {}) = 0
  BY PartNone DEF In
<1>2. {} \cap Days = {}
  OBVIOUS
<1> QED
  BY <1>1, <1>2, TotalEmpty DEF HomeOf

(* Windows apart from each other add up to what they cover.                *)
LEMMA WindowsAddUp ==
    ASSUME Shaped, NEW S, IsFiniteSet(S), NEW W, \A k, l \in S : k # l => W[k] \cap W[l] = {},
           NEW f, \A k \in S : f[k] = HomeOf(W[k])
    PROVE  Total(f, S) = HomeOf(UNION {W[k] : k \in S})
<1> DEFINE Cover(T) == UNION {W[k] : k \in T}
           Good == {T \in SUBSET S : Total(f, T) = HomeOf(Cover(T))}
<1>1. {} \in Good
  <2>1. Cover({}) = {}
    OBVIOUS
  <2> HIDE DEF Cover
  <2> QED
    BY <2>1, TotalEmpty, HomeOfNone
<1>2. ASSUME NEW T \in SUBSET S, NEW k \in S \ T, T \in Good
      PROVE  T \cup {k} \in Good
  <2>1. \A l \in S : f[l] \in Int
    BY HomeIs
  <2>2. Total(f, T \cup {k}) = f[k] + Total(f, T) /\ Total(f, T) \in Int
    BY <2>1, TotalInsert
  <2>3. PICK A, B : A = Cover(T) /\ B = W[k]
    OBVIOUS
  <2>4. A \cap B = {} /\ Cover(T \cup {k}) = A \cup B
    BY <2>3
  <2>5. HomeOf(A \cup B) = HomeOf(A) + HomeOf(B)
    BY <2>4, HomeApart
  <2>6. Total(f, T) = HomeOf(A) /\ f[k] = HomeOf(B)
    BY <1>2, <2>3
  <2>7. HomeOf(A) \in Int /\ HomeOf(B) \in Int
    BY HomeIs
  <2>8. Total(f, T \cup {k}) = HomeOf(Cover(T \cup {k}))
    <3>1. Total(f, T \cup {k}) = HomeOf(A \cup B)
      BY <2>2, <2>5, <2>6, <2>7
    <3> HIDE DEF Cover
    <3> QED
      BY <2>4, <3>1
  <2> QED
    BY <2>8
<1> HIDE DEF Good
<1>3. S \in Good
  BY <1>1, <1>2, SetByElement
<1> QED
  BY <1>3 DEF Good

LEMMA WeekOfBars ==
    ASSUME Shaped
    PROVE  Sum(LAMBDA k : WeeklyBars(Anchor)[k], 1..7) = HomeRevenue(Window("weekly", NULL, NULL, Anchor))
<1>1. PICK a \in Int : a = Anchor
  BY AnchorIs
<1>2. PICK S : S = 1..7
  OBVIOUS
<1>3. PICK W : W = [k \in S |-> {a - 7 + k}]
  OBVIOUS
<1>4. PICK f : f = [k \in S |-> WeeklyBars(a)[k]]
  OBVIOUS
<1>5. \A k \in S : f[k] = HomeOf(W[k])
  BY <1>2, <1>3, <1>4, HomeIs DEF WeeklyBars
<1>6. ASSUME NEW k \in S, NEW l \in S, k # l PROVE W[k] \cap W[l] = {}
  <2>1. W[k] = {a - 7 + k} /\ W[l] = {a - 7 + l}
    BY <1>3
  <2>2. a - 7 + k # a - 7 + l
    BY <1>2, <1>6
  <2> QED
    BY <2>1, <2>2
<1>7. IsFiniteSet(S)
  <2>1. PICK one \in Int : one = 1
    OBVIOUS
  <2>2. PICK last \in Int : last = 7
    OBVIOUS
  <2>3. IsFiniteSet(one..last)
    BY FS_Interval
  <2> QED
    BY <1>2, <2>1, <2>2, <2>3
<1>8. Total(f, S) = HomeOf(UNION {W[k] : k \in S})
  BY <1>5, <1>6, <1>7, WindowsAddUp
<1>9. UNION {W[k] : k \in S} = (a - 6)..a
  <2>1. ASSUME NEW d \in (a - 6)..a PROVE d \in UNION {W[k] : k \in S}
    <3>1. d - a + 7 \in S
      BY <1>2
    <3>2. d \in W[d - a + 7]
      BY <1>3, <3>1
    <3> QED
      BY <3>1, <3>2
  <2>2. ASSUME NEW k \in S, NEW d \in W[k] PROVE d \in (a - 6)..a
    BY <1>2, <1>3
  <2> QED
    BY <2>1, <2>2
<1>10. Window("weekly", NULL, NULL, a) = (a - 6)..a
  BY DEF Window, PeriodDays
<1> QED
  BY <1>1, <1>2, <1>4, <1>8, <1>9, <1>10, HomeIs DEF Sum, Total

LEMMA MonthOfBars ==
    ASSUME Shaped
    PROVE  Sum(LAMBDA k : MonthlyBars(Anchor)[k], 1..4) + HomeRevenue({Anchor - 1, Anchor})
             = HomeRevenue(Window("monthly", NULL, NULL, Anchor))
<1>1. PICK a \in Int : a = Anchor
  BY AnchorIs
<1>2. PICK S : S = 1..4
  OBVIOUS
<1>3. PICK W : W = [k \in S |-> Segment(a, k)]
  OBVIOUS
<1>4. PICK f : f = [k \in S |-> MonthlyBars(a)[k]]
  OBVIOUS
<1>5. \A k \in S : f[k] = HomeOf(W[k])
  BY <1>2, <1>3, <1>4, HomeIs DEF MonthlyBars
<1>6. \A k \in S : W[k] = (a - 29 + 7 * (k - 1))..(a - 29 + 7 * k - 1)
  BY <1>3 DEF Segment
<1>7. ASSUME NEW k \in S, NEW l \in S, k # l PROVE W[k] \cap W[l] = {}
  <2>1. SUFFICES ASSUME NEW d \in W[k], d \in W[l] PROVE FALSE
    OBVIOUS
  <2>2. /\ d \in (a - 29 + 7 * (k - 1))..(a - 29 + 7 * k - 1)
        /\ d \in (a - 29 + 7 * (l - 1))..(a - 29 + 7 * l - 1)
    BY <1>6, <2>1
  <2>3. k \in 1..4 /\ l \in 1..4
    BY <1>2
  <2> QED
    BY <1>7, <2>2, <2>3
<1>8. IsFiniteSet(S)
  <2>1. PICK one \in Int : one = 1
    OBVIOUS
  <2>2. PICK last \in Int : last = 4
    OBVIOUS
  <2>3. IsFiniteSet(one..last)
    BY FS_Interval
  <2> QED
    BY <1>2, <2>1, <2>2, <2>3
<1>9. Total(f, S) = HomeOf(UNION {W[k] : k \in S})
  BY <1>5, <1>7, <1>8, WindowsAddUp
<1>10. UNION {W[k] : k \in S} = (a - 29)..(a - 2)
  <2>1. ASSUME NEW d \in (a - 29)..(a - 2) PROVE \E k \in S : d \in W[k]
    <3>1. W[1] = (a - 29)..(a - 23) /\ W[2] = (a - 22)..(a - 16) /\ W[3] = (a - 15)..(a - 9) /\ W[4] = (a - 8)..(a - 2)
      BY <1>2, <1>6
    <3> QED
      BY <1>2, <3>1
  <2>2. ASSUME NEW k \in S, NEW d \in W[k] PROVE d \in (a - 29)..(a - 2)
    BY <1>2, <1>6, <2>2
  <2> QED
    BY <2>1, <2>2
<1>11. PICK A, B : A = (a - 29)..(a - 2) /\ B = {a - 1, a}
  OBVIOUS
<1>12. A \cap B = {} /\ A \cup B = (a - 29)..a
  BY <1>11
<1>13. HomeOf(A \cup B) = HomeOf(A) + HomeOf(B)
  BY <1>12, HomeApart
<1>14. Window("monthly", NULL, NULL, a) = (a - 29)..a
  BY DEF Window, PeriodDays
<1>15. Sum(LAMBDA k : MonthlyBars(a)[k], 1..4) = Total(f, S)
  BY <1>2, <1>4 DEF Sum, Total
<1>16. Total(f, S) = HomeOf(A)
  BY <1>9, <1>10, <1>11
<1>17. HomeRevenue({a - 1, a}) = HomeOf(B)
  BY <1>11, HomeIs
<1>18. HomeRevenue(Window("monthly", NULL, NULL, a)) = HomeOf(A \cup B)
  BY <1>12, <1>14, HomeIs
<1> QED
  BY <1>1, <1>13, <1>15, <1>16, <1>17, <1>18

LEMMA ComparedDays ==
    ASSUME Shaped
    PROVE  ComparisonMatchesCard
<1> SUFFICES ASSUME NEW period \in DOMAIN PeriodDays, NEW from \in Dates \cup {NULL}, NEW to \in Dates \cup {NULL},
                    (from = NULL) = (to = NULL), from # NULL => from <= to
             PROVE  LET current == Current(period, from, to, Anchor)
                        previous == Previous(period, from, to, Anchor)
                    IN  /\ AnalyticsRevenue(current) = AnalyticsRevenue(Window(period, from, to, Anchor))
                        /\ AnalyticsRevenue(previous) + AnalyticsRevenue(current)
                             = AnalyticsRevenue(Min(previous)..Max(current))
  BY DEF ComparisonMatchesCard
<1>1. PICK a \in Int : a = Anchor
  BY AnchorIs
<1>2. PICK n : n = PeriodDays[period]
  OBVIOUS
<1>3. n \in {1, 7, 30}
  BY <1>2 DEF PeriodDays
<1>4. PICK b, e : b = First(period, from, to, a) /\ e = Last(from, to, a)
  OBVIOUS
<1>5. /\ b \in Int /\ e \in Int /\ b <= e
      /\ Window(period, from, to, a) \cap Dates = (b..e) \cap Dates
  <2>1. CASE from = NULL /\ to = NULL
    <3>1. b = a - n + 1 /\ e = a
      BY <1>2, <1>4, <2>1 DEF First, Last
    <3>2. Window(period, from, to, a) = b..e
      BY <1>2, <2>1, <3>1 DEF Window
    <3> QED
      BY <1>3, <3>1, <3>2
  <2>2. CASE from # NULL /\ to # NULL
    <3>1. b = from /\ e = to
      BY <1>4, <2>2 DEF First, Last
    <3>2. b \in Dates /\ e \in Dates /\ b <= e
      BY <2>2, <3>1
    <3>3. Window(period, from, to, a) = {d \in Dates : d >= b /\ d <= e}
      BY <2>2, <3>1 DEF Window
    <3>4. \A d \in Dates : d \in Int
      BY DatesAssumption
    <3> QED
      BY <3>2, <3>3, <3>4
  <2> QED
    BY <2>1, <2>2
<1>6. PICK k : k = IF e - b + 1 > 1 THEN e - b + 1 ELSE 1
  OBVIOUS
<1>7. k \in Int /\ k >= 1
  BY <1>5, <1>6
<1>8. PICK C, R : C = b..e /\ R = (b - k)..(b - 1)
  OBVIOUS
<1>9. Current(period, from, to, Anchor) = C /\ Previous(period, from, to, Anchor) = R
  BY <1>1, <1>4, <1>6, <1>8 DEF Current, Previous
<1>10. Min(R) = b - k /\ Max(C) = e
  <2>1. b - k \in Int /\ b - 1 \in Int /\ b - k <= b - 1
    BY <1>5, <1>7
  <2> QED
    BY <1>5, <1>8, <2>1, Ends
<1>11. R \cap C = {} /\ R \cup C = (b - k)..e
  BY <1>5, <1>7, <1>8
<1>12. Part(Gain, R \cup C) = Part(Gain, R) + Part(Gain, C)
  BY <1>11, AllNumbers, PartUnion
<1>13. Part(Gain, C) = Part(Gain, Window(period, from, to, a))
  BY <1>5, <1>8, PartDates
<1>14. AnalyticsRevenue(C) = AnalyticsRevenue(Window(period, from, to, Anchor))
  BY <1>1, <1>13, Analytics
<1>15. AnalyticsRevenue(R) + AnalyticsRevenue(C) = AnalyticsRevenue(Min(R)..Max(C))
  <2>1. AnalyticsRevenue(R) = Part(Gain, R) /\ AnalyticsRevenue(C) = Part(Gain, C)
    BY Analytics
  <2>2. Min(R)..Max(C) = R \cup C
    BY <1>10, <1>11
  <2>3. AnalyticsRevenue(R \cup C) = Part(Gain, R \cup C)
    BY Analytics
  <2> QED
    BY <1>12, <2>1, <2>2, <2>3
<1> QED
  BY <1>9, <1>14, <1>15

(* The figures of a week and of a month, the bars of the revenue chart and *)
(* the periods home compares (_resolve_comparison_date_ranges) add up to   *)
(* their days: no day counts twice, and only the two the bars leave out do *)
(* not count.                                                              *)
THEOREM PeriodsHold == Spec => []PeriodsAddUp
<1>1. TypeOK => PeriodsAddUp
  BY TypedIsShaped, DaysAddUp, WeekOfBars, MonthOfBars, ComparedDays DEF PeriodsAddUp, BarsAddUp
<1> QED
  BY <1>1, RowsKeepTheirShape, PTL

-----------------------------------------------------------------------------
(* What is added up from the rows.                                         *)
LEMMA TotalWhere ==
    ASSUME NEW P, NEW S \in SUBSET Ids, \A i \in S : In(i, P), NEW f, NEW g,
           \A i \in Ids : In(i, P) => g[i] \in Int /\ (i \in S => f[i] = g[i]) /\ (i \notin S => g[i] = 0)
    PROVE  Total(f, S) = Part(g, P)
<1>1. PICK a : a = [i \in Ids |-> IF In(i, P) THEN g[i] ELSE 0]
  OBVIOUS
<1>2. \A i \in S : f[i] \in Int
  OBVIOUS
<1>3. \A i \in Ids : a[i] = IF i \in S THEN f[i] ELSE 0
  BY <1>1
<1>4. Total(f, S) = Total(a, Ids)
  BY <1>2, <1>3, IdsAssumption, TotalPart
<1> QED
  BY <1>1, <1>4 DEF Part

(* A row of the expense list: its amount is what the row costs.            *)
Spent(i) == Cost[i] + Hand[i]

LEMMA ExpenseRowIs ==
    ASSUME Shaped, NEW i \in Ids
    PROVE  /\ Spent(i) \in Nat
           /\ rows[i] = NULL => ExpenseRow(i) = NULL
           /\ ExpenseRow(i) = NULL => Spent(i) = 0
           /\ ExpenseRow(i) # NULL => ExpenseRow(i).date = rows[i].date /\ ExpenseRow(i).amount = Spent(i)
<1>1. Spent(i) \in Nat
  BY AllNumbers DEF Spent
<1>2. CASE rows[i] = NULL
  <2>1. ExpenseRow(i) = NULL
    BY <1>2 DEF ExpenseRow, IsDocument, IsRecord, IsExpense, IsItem, ExpenseKinds
  <2>2. Spent(i) = 0
    BY <1>2 DEF Spent, Cost, Hand
  <2> QED
    BY <1>1, <1>2, <2>1, <2>2
<1>3. CASE rows[i] # NULL
  <2>1. PICK s \in Rows : s = rows[i] /\ s # NULL
    BY <1>3 DEF Shaped
  <2>2. s.kind \in {"document", "manual_entry", "deposit", "revenue_entry"} \cup ExpenseKinds /\ s.date \in Dates
    BY RowIs
  <2>3. Spent(i) = CostOf(s) + HandOf(s)
    BY <2>1 DEF Spent, Cost, Hand
  <2>4. CASE s.kind = "document"
    <3>1. s.status = "processed" /\ s.amount \in Nat /\ s.date # NULL
      BY <2>2, <2>4, RowIs, NullIsNoDate
    <3>2. ExpenseRow(i) = DocumentLinkedExpense(s)
      BY <2>1, <2>4 DEF ExpenseRow, IsDocument, IsRecord, IsExpense, IsItem, ExpenseKinds
    <3>3. Spent(i) = IF s.type = "expense" THEN s.amount ELSE 0
      BY <2>3, <2>4, <3>1 DEF CostOf, HandOf, Counts
    <3>4. CASE s.type = "expense" /\ s.amount # 0
      <4>1. PICK e : e = [kind |-> "document", date |-> s.date, amount |-> s.amount]
        OBVIOUS
      <4>2. ExpenseRow(i) = e
        BY <3>1, <3>2, <3>4, <4>1 DEF DocumentLinkedExpense, UpsertLinkedExpense
      <4>3. e \in LinkedExpenses
        BY <2>2, <3>1, <4>1 DEF LinkedExpenses
      <4>4. e # NULL
        BY <4>3, NullIsNoRow
      <4> QED
        BY <1>1, <2>1, <3>3, <3>4, <4>1, <4>2, <4>4
    <3>5. CASE ~(s.type = "expense" /\ s.amount # 0)
      <4>1. ExpenseRow(i) = NULL
        BY <3>1, <3>2, <3>5 DEF DocumentLinkedExpense, UpsertLinkedExpense
      <4> QED
        BY <1>1, <2>1, <3>3, <3>5, <4>1
    <3> QED
      BY <3>4, <3>5
  <2>5. CASE s.kind = "manual_entry"
    <3>1. PICK n : n = s.paid["expenses_in_cash"]
      OBVIOUS
    <3>2. n \in Nat
      BY <2>5, <3>1, RowIs, PaidIs
    <3>3. ExpenseRow(i) = UpsertLinkedExpense("manual_entry", s.date, n)
      BY <2>1, <2>5, <3>1 DEF ExpenseRow, IsDocument, IsRecord, IsExpense, IsItem, RecordLinkedExpense
    <3>4. Spent(i) = n
      BY <2>3, <2>5, <3>1, <3>2 DEF CostOf, HandOf
    <3>5. CASE n # 0
      <4>1. PICK e : e = [kind |-> "manual_entry", date |-> s.date, amount |-> n]
        OBVIOUS
      <4>2. ExpenseRow(i) = e
        BY <3>2, <3>3, <3>5, <4>1 DEF UpsertLinkedExpense
      <4>3. e \in LinkedExpenses
        BY <2>2, <3>2, <4>1 DEF LinkedExpenses
      <4>4. e # NULL
        BY <4>3, NullIsNoRow
      <4> QED
        BY <1>1, <2>1, <3>4, <3>5, <4>1, <4>2, <4>4
    <3>6. CASE n = 0
      <4>1. ExpenseRow(i) = NULL
        BY <3>3, <3>6 DEF UpsertLinkedExpense
      <4> QED
        BY <1>1, <2>1, <3>4, <3>6, <4>1
    <3> QED
      BY <3>5, <3>6
  <2>6. CASE s.kind \in ExpenseKinds
    <3>1. s.amount \in Nat
      BY <2>6, RowIs
    <3>2. PICK e : e = [kind |-> s.kind, date |-> s.date, amount |-> s.amount]
      OBVIOUS
    <3>3. ExpenseRow(i) = e
      BY <2>1, <2>6, <3>2 DEF ExpenseRow, IsDocument, IsRecord, IsExpense, IsItem, ExpenseKinds
    <3>4. e \in [kind: ExpenseKinds, date: Dates, amount: Nat]
      BY <2>2, <2>6, <3>1, <3>2
    <3>5. e # NULL
      BY <3>4, NullIsNoExpense
    <3>6. Spent(i) = s.amount
      BY <2>3, <2>6, <3>1 DEF CostOf, HandOf, Counts, ExpenseKinds
    <3> QED
      BY <1>1, <2>1, <3>2, <3>3, <3>5, <3>6
  <2>7. CASE s.kind \in {"deposit", "revenue_entry"}
    <3>1. ExpenseRow(i) = NULL
      BY <2>1, <2>7 DEF ExpenseRow, IsDocument, IsRecord, IsExpense, IsItem, ExpenseKinds
    <3>2. Spent(i) = 0
      BY <2>3, <2>7 DEF CostOf, HandOf, Counts
    <3> QED
      BY <1>1, <2>1, <3>1, <3>2
  <2> QED
    BY <2>2, <2>4, <2>5, <2>6, <2>7
<1> QED
  BY <1>2, <1>3

(* The rows of the expense list that are in Q.                             *)
LEMMA ListIn ==
    ASSUME Shaped, NEW P, NEW Q, NEW S, S = {i \in ExpenseRows(P) : i \in Q},
           NEW g, \A i \in Ids : g[i] = IF i \in Q THEN Spent(i) ELSE 0
    PROVE  Sum(LAMBDA i : ExpenseRow(i).amount, S) = Part(g, P) /\ Numbers(g)
<1>1. PICK f : f = [i \in S |-> ExpenseRow(i).amount]
  OBVIOUS
<1>2. \A i \in Ids : i \in S <=> i \in Q /\ ExpenseRow(i) # NULL /\ ExpenseRow(i).date \in P
  BY DEF ExpenseRows
<1>3. S \in SUBSET Ids
  BY DEF ExpenseRows
<1>4. ASSUME NEW i \in S PROVE In(i, P)
  BY <1>2, <1>3, ExpenseRowIs DEF In
<1>5. ASSUME NEW i \in Ids, In(i, P)
      PROVE  g[i] \in Int /\ (i \in S => f[i] = g[i]) /\ (i \notin S => g[i] = 0)
  <2>1. g[i] \in Int
    BY ExpenseRowIs
  <2>2. i \in S => f[i] = g[i]
    BY <1>1, <1>2, ExpenseRowIs
  <2>3. i \notin S => g[i] = 0
    BY <1>2, <1>5, ExpenseRowIs DEF In
  <2> QED
    BY <2>1, <2>2, <2>3
<1>6. Total(f, S) = Part(g, P)
  BY <1>3, <1>4, <1>5, TotalWhere
<1>7. Numbers(g)
  BY ExpenseRowIs DEF Numbers
<1> QED
  BY <1>1, <1>6, <1>7 DEF Sum, Total

LEMMA HandIn ==
    ASSUME Shaped, NEW P
    PROVE  HandEnteredFoodCost(P) = Part(Hand, P)
<1>1. PICK f : f = [i \in Of({"food_cost_manual"}, P) |-> rows[i].amount]
  OBVIOUS
<1>2. HandEnteredFoodCost(P) = Total(f, Of({"food_cost_manual"}, P))
  BY <1>1 DEF HandEnteredFoodCost, Sum, Total
<1>3. ASSUME NEW i \in Ids, In(i, P)
      PROVE  /\ Hand[i] \in Int
             /\ rows[i].kind \in {"food_cost_manual"} => f[i] = Hand[i]
             /\ rows[i].kind \notin {"food_cost_manual"} => Hand[i] = 0
  <2>1. Hand[i] \in Int /\ Hand[i] = HandOf(rows[i])
    BY <1>3, AllNumbers DEF Hand, In
  <2>2. rows[i].kind \in {"food_cost_manual"} => i \in Of({"food_cost_manual"}, P)
    BY <1>3 DEF Of, In
  <2> QED
    BY <1>1, <2>1, <2>2 DEF HandOf
<1> QED
  BY <1>2, <1>3, PartOf

LEMMA ListTotal ==
    ASSUME Shaped, NEW P
    PROVE  ExpenseTotal(P) = Part(Cost, P) + Part(Hand, P)
<1>1. PICK g : g = [i \in Ids |-> Spent(i)]
  OBVIOUS
<1>2. PICK S : S = {i \in ExpenseRows(P) : i \in Ids}
  OBVIOUS
<1>3. S = ExpenseRows(P)
  BY <1>2 DEF ExpenseRows
<1>4. \A i \in Ids : g[i] = IF i \in Ids THEN Spent(i) ELSE 0
  BY <1>1
<1>5. Sum(LAMBDA i : ExpenseRow(i).amount, S) = Part(g, P)
  BY <1>2, <1>4, ListIn
<1>6. \A i \in Ids : In(i, P) => g[i] = Cost[i] + Hand[i]
  BY <1>1 DEF Spent
<1>7. Part(g, P) = Part(Cost, P) + Part(Hand, P)
  BY <1>6, AllNumbers, PartPlus
<1> QED
  BY <1>3, <1>5, <1>7 DEF ExpenseTotal

LEMMA CardsSplitTheList ==
    ASSUME Shaped, NEW P
    PROVE  FoodCost(P) + OtherExpense(P) = ExpenseTotal(P) /\ HandEnteredFoodCost(P) <= FoodCost(P)
<1>1. PICK Q, R : Q = {i \in Ids : IsFoodCost(i)} /\ R = {i \in Ids : ~IsFoodCost(i)}
  OBVIOUS
<1>2. PICK S, T : S = {i \in ExpenseRows(P) : i \in Q} /\ T = {i \in ExpenseRows(P) : i \in R}
  OBVIOUS
<1>3. S = {i \in ExpenseRows(P) : IsFoodCost(i)} /\ T = {i \in ExpenseRows(P) : ~IsFoodCost(i)}
  BY <1>1, <1>2 DEF ExpenseRows
<1>4. PICK f, g, h : /\ f = [i \in Ids |-> IF i \in Q THEN Spent(i) ELSE 0]
                     /\ g = [i \in Ids |-> IF i \in R THEN Spent(i) ELSE 0]
                     /\ h = [i \in Ids |-> Spent(i)]
  OBVIOUS
<1>5. FoodCost(P) = Part(f, P) /\ Numbers(f)
  <2>1. \A i \in Ids : f[i] = IF i \in Q THEN Spent(i) ELSE 0
    BY <1>4
  <2>2. Sum(LAMBDA i : ExpenseRow(i).amount, S) = Part(f, P) /\ Numbers(f)
    BY <1>2, <2>1, ListIn
  <2> QED
    BY <1>3, <2>2 DEF FoodCost
<1>6. OtherExpense(P) = Part(g, P) /\ Numbers(g)
  <2>1. \A i \in Ids : g[i] = IF i \in R THEN Spent(i) ELSE 0
    BY <1>4
  <2>2. Sum(LAMBDA i : ExpenseRow(i).amount, T) = Part(g, P) /\ Numbers(g)
    BY <1>2, <2>1, ListIn
  <2> QED
    BY <1>3, <2>2 DEF OtherExpense
<1>7. ASSUME NEW i \in Ids, In(i, P) PROVE h[i] = f[i] + g[i] /\ h[i] = Cost[i] + Hand[i] /\ Hand[i] <= f[i]
  <2>1. Spent(i) \in Nat /\ Cost[i] \in Nat /\ Hand[i] \in Nat /\ Spent(i) = Cost[i] + Hand[i]
    BY AllNumbers, ExpenseRowIs DEF Spent
  <2>2. i \notin Q => Hand[i] = 0
    <3>1. rows[i].kind # "food_cost_manual" => Hand[i] = 0
      BY DEF Hand, HandOf
    <3>2. rows[i].kind = "food_cost_manual" => IsFoodCost(i)
      BY DEF IsFoodCost
    <3> QED
      BY <1>1, <3>1, <3>2
  <2>3. h[i] = f[i] + g[i]
    BY <1>1, <1>4, <2>1
  <2>4. Hand[i] <= f[i]
    BY <1>4, <2>1, <2>2
  <2>5. h[i] = Cost[i] + Hand[i]
    BY <1>4, <2>1
  <2> QED
    BY <2>3, <2>4, <2>5
<1>8. Part(h, P) = Part(f, P) + Part(g, P)
  BY <1>5, <1>6, <1>7, PartPlus
<1>9. Part(h, P) = Part(Cost, P) + Part(Hand, P)
  BY <1>7, AllNumbers, PartPlus
<1>10. Part(Hand, P) <= Part(f, P)
  BY <1>5, <1>7, AllNumbers, PartLess
<1> QED
  BY <1>5, <1>6, <1>8, <1>9, <1>10, ListTotal, HandIn

LEMMA OneStory ==
    ASSUME Shaped
    PROVE  ExpensesAgree
<1> SUFFICES ASSUME NEW P
             PROVE  /\ ExpenseTotal(P) = DaysExpenses(P) + HandEnteredFoodCost(P)
                    /\ FoodCost(P) + OtherExpense(P) = ExpenseTotal(P)
                    /\ HandEnteredFoodCost(P) <= FoodCost(P)
                    /\ DaysProfit(P) = AnalyticsRevenue(P) - (ExpenseTotal(P) - HandEnteredFoodCost(P))
  BY DEF ExpensesAgree
<1>1. Part(Cost, P) \in Int /\ Part(Hand, P) \in Int /\ Part(Gain, P) \in Int
  BY AllNumbers, PartInt
<1>2. /\ ExpenseTotal(P) = Part(Cost, P) + Part(Hand, P)
      /\ DaysExpenses(P) = Part(Cost, P)
      /\ HandEnteredFoodCost(P) = Part(Hand, P)
      /\ AnalyticsRevenue(P) = Part(Gain, P)
      /\ DaysProfit(P) = Part(Gain, P) - Part(Cost, P)
  BY ListTotal, DaysExpensesIs, HandIn, Analytics, DaysProfitIs
<1> QED
  BY <1>1, <1>2, CardsSplitTheList

(* What the detail adds up: the sales and the expenses of documents, what  *)
(* records paid, and the expenses entered.                                 *)
LEMMA DetailParts ==
    ASSUME Shaped
    PROVE  \E sold, booked, paid, spent, owed :
             /\ Numbers(sold) /\ Numbers(booked) /\ Numbers(paid) /\ Numbers(spent) /\ Numbers(owed)
             /\ \A i \in Ids : Gain[i] = sold[i] + Entry[i] + booked[i]
             /\ \A i \in Ids : Cost[i] + Hand[i] = paid[i] + spent[i] + owed[i]
             /\ \A P : /\ ListedRevenue(P) = Part(sold, P)
                       /\ Sum(DocumentSales, Of({"document"}, P)) = Part(booked, P)
                       /\ Paid(P, "expenses_in_cash") = Part(paid, P)
                       /\ Sum(LAMBDA i : rows[i].amount, Of(ExpenseKinds, P)) = Part(spent, P)
                       /\ Sum(LAMBDA i : ExpenseRow(i).amount,
                              {i \in ExpenseRows(P) : rows[i].kind \in ExpenseKinds}) = Part(spent, P)
                       /\ Sum(DocumentExpense, Of({"document"}, P)) = Part(owed, P)
             /\ \A i \in Ids : sold[i] = IF rows[i] # NULL /\ rows[i].kind = "manual_entry" THEN TotalRevenue(rows[i]) ELSE 0
<1> DEFINE Is(i, kinds) == rows[i] # NULL /\ rows[i].kind \in kinds
<1>1. PICK sold, booked, paid, spent, owed :
         /\ sold = [i \in Ids |-> IF Is(i, {"manual_entry"}) THEN TotalRevenue(rows[i]) ELSE 0]
         /\ booked = [i \in Ids |-> IF Is(i, {"document"}) THEN DocumentSales(i) ELSE 0]
         /\ paid = [i \in Ids |-> IF Is(i, {"manual_entry"}) THEN rows[i].paid["expenses_in_cash"] ELSE 0]
         /\ spent = [i \in Ids |-> IF Is(i, ExpenseKinds) THEN rows[i].amount ELSE 0]
         /\ owed = [i \in Ids |-> IF Is(i, {"document"}) THEN DocumentExpense(i) ELSE 0]
  OBVIOUS
<1>2. ASSUME NEW i \in Ids
      PROVE  /\ sold[i] \in Int /\ booked[i] \in Int /\ paid[i] \in Int /\ spent[i] \in Int /\ owed[i] \in Int
             /\ Gain[i] = sold[i] + Entry[i] + booked[i]
             /\ Cost[i] + Hand[i] = paid[i] + spent[i] + owed[i]
  <2>1. CASE rows[i] = NULL
    BY <1>1, <2>1 DEF Gain, Entry, Cost, Hand
  <2>2. CASE rows[i] # NULL
    <3>1. PICK s \in Rows : s = rows[i] /\ s # NULL
      BY <2>2 DEF Shaped
    <3>2. s.kind \in {"document", "manual_entry", "deposit", "revenue_entry"} \cup ExpenseKinds
      BY RowIs
    <3>3. Gain[i] = GainOf(s) /\ Entry[i] = EntryOf(s) /\ Cost[i] = CostOf(s) /\ Hand[i] = HandOf(s)
      BY <3>1 DEF Gain, Entry, Cost, Hand
    <3>4. CASE s.kind = "manual_entry"
      <4>1. TotalRevenue(s) \in Int /\ s.paid["expenses_in_cash"] \in Nat
        BY <3>4, RecordNumbers, RowIs, PaidIs
      <4> QED
        BY <1>1, <3>1, <3>3, <3>4, <4>1 DEF GainOf, EntryOf, CostOf, HandOf, ExpenseKinds
    <3>5. CASE s.kind = "document"
      <4>1. s.amount \in Nat
        BY <3>5, RowIs
      <4> QED
        BY <1>1, <3>1, <3>3, <3>5, <4>1
           DEF GainOf, EntryOf, CostOf, HandOf, Counts, DocumentSales, DocumentExpense, ExpenseKinds
    <3>6. CASE s.kind \in ExpenseKinds
      <4>1. s.amount \in Nat
        BY <3>6, RowIs
      <4> QED
        BY <1>1, <3>1, <3>3, <3>6, <4>1 DEF GainOf, EntryOf, CostOf, HandOf, Counts, ExpenseKinds
    <3>7. CASE s.kind \in {"deposit", "revenue_entry"}
      <4>1. s.amount \in Nat
        BY <3>7, RowIs
      <4> QED
        BY <1>1, <3>1, <3>3, <3>7, <4>1 DEF GainOf, EntryOf, CostOf, HandOf, Counts, ExpenseKinds
    <3> QED
      BY <3>2, <3>4, <3>5, <3>6, <3>7
  <2> QED
    BY <2>1, <2>2
<1>3. Numbers(sold) /\ Numbers(booked) /\ Numbers(paid) /\ Numbers(spent) /\ Numbers(owed)
  BY <1>2 DEF Numbers
<1>4. ASSUME NEW P
      PROVE  /\ ListedRevenue(P) = Part(sold, P)
             /\ Sum(DocumentSales, Of({"document"}, P)) = Part(booked, P)
             /\ Paid(P, "expenses_in_cash") = Part(paid, P)
             /\ Sum(LAMBDA i : rows[i].amount, Of(ExpenseKinds, P)) = Part(spent, P)
             /\ Sum(LAMBDA i : ExpenseRow(i).amount,
                    {i \in ExpenseRows(P) : rows[i].kind \in ExpenseKinds}) = Part(spent, P)
             /\ Sum(DocumentExpense, Of({"document"}, P)) = Part(owed, P)
  <2>1. PICK R, D, E : R = Of({"manual_entry"}, P) /\ D = Of({"document"}, P) /\ E = Of(ExpenseKinds, P)
    OBVIOUS
  <2>2. PICK a, b, c, d, e : /\ a = [i \in R |-> TotalRevenue(rows[i])] /\ b = [i \in D |-> DocumentSales(i)]
                             /\ c = [i \in R |-> rows[i].paid["expenses_in_cash"]]
                             /\ d = [i \in E |-> rows[i].amount] /\ e = [i \in D |-> DocumentExpense(i)]
    OBVIOUS
  <2>3. \A i \in Ids : In(i, P) =>
           /\ (rows[i].kind \in {"manual_entry"} => i \in R)
           /\ (rows[i].kind \in {"document"} => i \in D)
           /\ (rows[i].kind \in ExpenseKinds => i \in E)
    BY <2>1 DEF Of, In
  <2>4. ASSUME NEW i \in Ids, In(i, P)
        PROVE  /\ rows[i].kind \in {"manual_entry"} => a[i] = sold[i] /\ c[i] = paid[i]
               /\ rows[i].kind \notin {"manual_entry"} => sold[i] = 0 /\ paid[i] = 0
               /\ rows[i].kind \in {"document"} => b[i] = booked[i] /\ e[i] = owed[i]
               /\ rows[i].kind \notin {"document"} => booked[i] = 0 /\ owed[i] = 0
               /\ rows[i].kind \in ExpenseKinds => d[i] = spent[i]
               /\ rows[i].kind \notin ExpenseKinds => spent[i] = 0
    BY <1>1, <2>2, <2>3, <2>4 DEF In
  <2>5. /\ Total(a, R) = Part(sold, P) /\ Total(c, R) = Part(paid, P)
        /\ Total(b, D) = Part(booked, P) /\ Total(e, D) = Part(owed, P)
        /\ Total(d, E) = Part(spent, P)
    <3>1. Total(a, R) = Part(sold, P)
      BY <1>2, <2>1, <2>4, PartOf
    <3>2. Total(c, R) = Part(paid, P)
      BY <1>2, <2>1, <2>4, PartOf
    <3>3. Total(b, D) = Part(booked, P)
      BY <1>2, <2>1, <2>4, PartOf
    <3>4. Total(e, D) = Part(owed, P)
      BY <1>2, <2>1, <2>4, PartOf
    <3>5. Total(d, E) = Part(spent, P)
      BY <1>2, <2>1, <2>4, PartOf
    <3> QED
      BY <3>1, <3>2, <3>3, <3>4, <3>5
  <2>6. /\ ListedRevenue(P) = Total(a, R)
        /\ Sum(DocumentSales, Of({"document"}, P)) = Total(b, D)
        /\ Paid(P, "expenses_in_cash") = Total(c, R)
        /\ Sum(LAMBDA i : rows[i].amount, Of(ExpenseKinds, P)) = Total(d, E)
        /\ Sum(DocumentExpense, Of({"document"}, P)) = Total(e, D)
    BY <2>1, <2>2 DEF ListedRevenue, Paid, Sum, Total
  <2>7. Sum(LAMBDA i : ExpenseRow(i).amount, {i \in ExpenseRows(P) : rows[i].kind \in ExpenseKinds}) = Part(spent, P)
    <3>1. PICK Q : Q = {i \in Ids : Is(i, ExpenseKinds)}
      OBVIOUS
    <3>2. PICK S : S = {i \in ExpenseRows(P) : i \in Q}
      OBVIOUS
    <3>3. S = {i \in ExpenseRows(P) : rows[i].kind \in ExpenseKinds}
      BY <3>1, <3>2, ExpenseRowIs DEF ExpenseRows
    <3>4. ASSUME NEW i \in Ids PROVE spent[i] = IF i \in Q THEN Spent(i) ELSE 0
      <4>1. CASE i \in Q
        <5>1. rows[i] # NULL /\ rows[i].kind \in ExpenseKinds
          BY <3>1, <4>1
        <5>2. paid[i] = 0 /\ owed[i] = 0
          BY <1>1, <5>1 DEF ExpenseKinds
        <5>3. Spent(i) = spent[i]
          BY <1>2, <5>2 DEF Spent
        <5> QED
          BY <4>1, <5>3
      <4>2. CASE i \notin Q
        BY <1>1, <3>1, <4>2
      <4> QED
        BY <4>1, <4>2
    <3>5. Sum(LAMBDA i : ExpenseRow(i).amount, S) = Part(spent, P)
      BY <3>2, <3>4, ListIn
    <3> QED
      BY <3>3, <3>5
  <2> QED
    BY <2>5, <2>6, <2>7
<1>5. \A i \in Ids : sold[i] = IF rows[i] # NULL /\ rows[i].kind = "manual_entry" THEN TotalRevenue(rows[i]) ELSE 0
  BY <1>1
<1>6. /\ \A i \in Ids : Gain[i] = sold[i] + Entry[i] + booked[i]
      /\ \A i \in Ids : Cost[i] + Hand[i] = paid[i] + spent[i] + owed[i]
  BY <1>2
<1> HIDE <1>2
<1> QED
  BY <1>3, <1>4, <1>5, <1>6, Zenon

LEMMA SectionsIn ==
    ASSUME Shaped, NEW P, Of({"document"}, P) \cup RecordsOf(P, "method_1") = {}, NEW sold, Numbers(sold),
           \A i \in Ids : sold[i] = IF rows[i] # NULL /\ rows[i].kind = "manual_entry" THEN TotalRevenue(rows[i]) ELSE 0
    PROVE  SectionSales(P) = Part(sold, P)
<1> DEFINE Recorded(i) == rows[i] # NULL /\ rows[i].kind = "manual_entry"
<1>1. PICK pos, other :
         /\ pos = [i \in Ids |-> IF Recorded(i) THEN rows[i].paid["pos_payments"] ELSE 0]
         /\ other = [i \in Ids |-> IF Recorded(i) /\ rows[i].method = "method_2"
                                   THEN rows[i].paid["cash_payments"] + rows[i].paid["bank_transfer_payments"] ELSE 0]
  OBVIOUS
<1>2. ASSUME NEW i \in Ids PROVE pos[i] \in Int /\ other[i] \in Int
  BY <1>1, OneKind, PaidIs
<1>3. Numbers(pos) /\ Numbers(other)
  BY <1>2 DEF Numbers
<1>4. Paid(P, "pos_payments") = Part(pos, P)
  <2>1. "pos_payments" \in AllPaidFields
    BY DEF AllPaidFields, PaidFields
  <2>2. \A i \in Ids : In(i, P) => pos[i] = IF rows[i].kind = "manual_entry" THEN rows[i].paid["pos_payments"] ELSE 0
    BY <1>1 DEF In
  <2> QED
    BY <1>3, <2>1, <2>2, PaidIn
<1>5. PICK S : S = RecordsOf(P, "method_2")
  OBVIOUS
<1>6. PICK f : f = [i \in S |-> rows[i].paid["cash_payments"] + rows[i].paid["bank_transfer_payments"]]
  OBVIOUS
<1>7. \A i \in Ids : i \in S <=> In(i, P) /\ rows[i].kind = "manual_entry" /\ rows[i].method = "method_2"
  BY <1>5 DEF RecordsOf, Of, In
<1>8. S \in SUBSET Ids
  BY <1>5 DEF RecordsOf, Of
<1>9. ASSUME NEW i \in Ids, In(i, P) PROVE other[i] \in Int /\ (i \in S => f[i] = other[i]) /\ (i \notin S => other[i] = 0)
  <2>1. rows[i] # NULL
    BY <1>9 DEF In
  <2>2. i \in S => f[i] = other[i]
    BY <1>1, <1>6, <1>7, <2>1
  <2>3. i \notin S => other[i] = 0
    BY <1>1, <1>7, <1>9
  <2> QED
    BY <1>2, <2>2, <2>3
<1>10. Total(f, S) = Part(other, P)
  <2>1. \A i \in S : In(i, P)
    BY <1>7, <1>8
  <2> QED
    BY <1>8, <1>9, <2>1, TotalWhere
<1>11. ASSUME NEW i \in Ids, In(i, P) PROVE sold[i] = pos[i] + other[i]
  <2>1. rows[i] # NULL /\ rows[i] \in Rows
    BY <1>11, RowIn
  <2>2. CASE rows[i].kind = "manual_entry"
    <3>1. rows[i].method \in {"method_1", "method_2"} /\ rows[i].paid \in [AllPaidFields -> Nat]
      BY <2>1, <2>2, RowIs
    <3>2. rows[i].method # "method_1"
      BY <1>11, <2>2 DEF RecordsOf, Of, In
    <3>3. PICK p : p = rows[i].paid
      OBVIOUS
    <3>4. p["pos_payments"] \in Nat /\ p["cash_payments"] \in Nat /\ p["bank_transfer_payments"] \in Nat
      BY <3>1, <3>3, PaidIs
    <3>5. TotalRevenue(rows[i]) = p["pos_payments"] + p["cash_payments"] + p["bank_transfer_payments"]
      BY <3>2, <3>3 DEF TotalRevenue
    <3>6. pos[i] = p["pos_payments"] /\ other[i] = p["cash_payments"] + p["bank_transfer_payments"]
      BY <1>1, <2>1, <2>2, <3>1, <3>2, <3>3
    <3>7. sold[i] = TotalRevenue(rows[i])
      BY <2>1, <2>2
    <3> QED
      BY <3>4, <3>5, <3>6, <3>7
  <2>3. CASE rows[i].kind # "manual_entry"
    BY <1>1, <2>3
  <2> QED
    BY <2>2, <2>3
<1>12. Part(sold, P) = Part(pos, P) + Part(other, P)
  BY <1>3, <1>11, PartPlus
<1>13. SectionSales(P) = Paid(P, "pos_payments") + Total(f, S)
  BY <1>5, <1>6 DEF SectionSales, Sum, Total
<1> QED
  BY <1>4, <1>10, <1>12, <1>13

LEMMA DetailAgrees ==
    ASSUME Shaped
    PROVE  DetailMatchesSnapshot
<1> SUFFICES ASSUME NEW P
             PROVE  /\ DetailRevenue(P) + RevenueEntries(P) = Revenue(P)
                    /\ DetailExpenses(P) = ExpensesIn(P) + HandEnteredFoodCost(P)
                    /\ SectionExpenses(P) = DetailExpenses(P)
                    /\ Of({"document"}, P) \cup RecordsOf(P, "method_1") = {} => SectionSales(P) = DetailRevenue(P)
                    /\ Of({"document"}, P) = {} => ListedRevenue(P) = DetailRevenue(P)
  BY DEF DetailMatchesSnapshot
<1>1. PICK sold, booked, paid, spent, owed :
             /\ Numbers(sold) /\ Numbers(booked) /\ Numbers(paid) /\ Numbers(spent) /\ Numbers(owed)
             /\ \A i \in Ids : Gain[i] = sold[i] + Entry[i] + booked[i]
             /\ \A i \in Ids : Cost[i] + Hand[i] = paid[i] + spent[i] + owed[i]
             /\ \A Q : /\ ListedRevenue(Q) = Part(sold, Q)
                       /\ Sum(DocumentSales, Of({"document"}, Q)) = Part(booked, Q)
                       /\ Paid(Q, "expenses_in_cash") = Part(paid, Q)
                       /\ Sum(LAMBDA i : rows[i].amount, Of(ExpenseKinds, Q)) = Part(spent, Q)
                       /\ Sum(LAMBDA i : ExpenseRow(i).amount,
                              {i \in ExpenseRows(Q) : rows[i].kind \in ExpenseKinds}) = Part(spent, Q)
                       /\ Sum(DocumentExpense, Of({"document"}, Q)) = Part(owed, Q)
             /\ \A i \in Ids : sold[i] = IF rows[i] # NULL /\ rows[i].kind = "manual_entry" THEN TotalRevenue(rows[i]) ELSE 0
  BY DetailParts
<1>2. /\ Part(sold, P) \in Int /\ Part(booked, P) \in Int /\ Part(paid, P) \in Int
      /\ Part(spent, P) \in Int /\ Part(owed, P) \in Int /\ Part(Entry, P) \in Int
      /\ Part(Cost, P) \in Int /\ Part(Hand, P) \in Int
  BY <1>1, AllNumbers, PartInt
<1>3. Part(Gain, P) = Part(sold, P) + Part(Entry, P) + Part(booked, P)
  BY <1>1, AllNumbers, PartPlus3
<1>4. Part(Cost, P) + Part(Hand, P) = Part(paid, P) + Part(spent, P) + Part(owed, P)
  <2>1. PICK h : h = [i \in Ids |-> Cost[i] + Hand[i]]
    OBVIOUS
  <2>2. Part(h, P) = Part(Cost, P) + Part(Hand, P)
    BY <2>1, AllNumbers, PartPlus
  <2>3. \A i \in Ids : h[i] = paid[i] + spent[i] + owed[i]
    BY <1>1, <2>1
  <2>4. Part(h, P) = Part(paid, P) + Part(spent, P) + Part(owed, P)
    BY <1>1, <2>3, PartPlus3
  <2> QED
    BY <2>2, <2>4
<1>5. DetailRevenue(P) = Part(sold, P) + Part(booked, P)
  <2>1. DetailRevenue(P) = ListedRevenue(P) + Sum(DocumentSales, Of({"document"}, P))
    BY DEF DetailRevenue, ListedRevenue
  <2> QED
    BY <1>1, <2>1
<1>6. DetailExpenses(P) = Part(paid, P) + Part(spent, P) + Part(owed, P) /\ SectionExpenses(P) = DetailExpenses(P)
  BY <1>1 DEF DetailExpenses, SectionExpenses
<1>7. DetailRevenue(P) + RevenueEntries(P) = Revenue(P)
  BY <1>2, <1>3, <1>5, RevenueIn, EntriesIn
<1>8. DetailExpenses(P) = ExpensesIn(P) + HandEnteredFoodCost(P)
  BY <1>4, <1>6, ExpensesOf, HandIn
<1>9. Of({"document"}, P) = {} => Part(booked, P) = 0
  <2>1. SUFFICES ASSUME Of({"document"}, P) = {} PROVE Part(booked, P) = 0
    OBVIOUS
  <2>2. PICK f : f = [i \in {} |-> DocumentSales(i)]
    OBVIOUS
  <2>3. Sum(DocumentSales, Of({"document"}, P)) = Total(f, {})
    BY <2>1, <2>2 DEF Sum, Total
  <2> QED
    BY <1>1, <2>3, TotalEmpty
<1>10. ASSUME Of({"document"}, P) \cup RecordsOf(P, "method_1") = {} PROVE SectionSales(P) = DetailRevenue(P)
  <2>1. SectionSales(P) = Part(sold, P)
    BY <1>1, <1>10, SectionsIn
  <2>2. Part(booked, P) = 0
    BY <1>9, <1>10
  <2> QED
    BY <1>2, <1>5, <2>1, <2>2
<1>11. ASSUME Of({"document"}, P) = {} PROVE ListedRevenue(P) = DetailRevenue(P)
  <2>1. ListedRevenue(P) = Part(sold, P)
    BY <1>1
  <2>2. Part(booked, P) = 0
    BY <1>9, <1>11
  <2> QED
    BY <1>2, <1>5, <2>1, <2>2
<1> QED
  BY <1>6, <1>7, <1>8, <1>10, <1>11

-----------------------------------------------------------------------------
(* Home and the screens beside it.                                         *)
LEMMA PlainRevenue ==
    ASSUME Shaped, NEW P, PlainDays(P), \A d \in P \cap Days : Revenue({d}) >= 0
    PROVE  HomeRevenue(P) = AnalyticsRevenue(P)
<1>1. PICK D : D = P \cap Days
  OBVIOUS
<1>2. PICK f, g : f = [d \in D |-> DayRevenue(d)] /\ g = [d \in D |-> Revenue({d})]
  OBVIOUS
<1>3. ASSUME NEW d \in D PROVE f[d] = g[d]
  <2>1. Revenue({d}) \in Int /\ Revenue({d}) >= 0
    BY <1>1, DayRevenueInt
  <2>2. BankDeposits({d}) = 0 \/ Revenue({d}) > 0
    BY <1>1 DEF PlainDays
  <2> QED
    BY <1>2, <2>1, <2>2 DEF DayRevenue
<1>4. IsFiniteSet(D)
  BY <1>1, FiniteDays, FS_Subset
<1>5. Total(f, D) = Total(g, D)
  BY <1>3, <1>4, TotalSame
<1>6. RevenueEntries(P) = 0
  <2>1. Of({"revenue_entry"}, P) = {}
    BY DEF PlainDays
  <2>2. \A i \in Ids : In(i, P) => Entry[i] = 0
    BY <2>1 DEF Entry, EntryOf, Of, In
  <2> QED
    BY <2>2, EntriesIn, PartNone
<1>7. HomeRevenue(P) = Total(f, D) + RevenueEntries(P) /\ AnalyticsRevenue(P) = Total(g, D)
  BY <1>1, <1>2 DEF HomeRevenue, AnalyticsRevenue, Sum, Total
<1>8. AnalyticsRevenue(P) \in Int
  BY Analytics, AllNumbers, PartInt
<1> QED
  BY <1>5, <1>6, <1>7, <1>8

LEMMA LinesApart ==
    ASSUME Shaped, LineVat({"revenue", "cash", "expense"}) = 0
    PROVE  LineVat({"revenue", "cash"}) = 0 /\ LineVat({"expense"}) = 0
<1> DEFINE Carry(types) == {i \in Of({"document"}, Dates) : rows[i].type \in types}
<1>1. PICK v : v = [i \in Ids |-> IF i \in Carry({"revenue", "cash", "expense"}) THEN rows[i].vat ELSE 0]
  OBVIOUS
<1>2. PICK A, B, C : A = Carry({"revenue", "cash"}) /\ B = Carry({"expense"}) /\ C = Carry({"revenue", "cash", "expense"})
  OBVIOUS
<1>3. C = A \cup B /\ A \cap B = {} /\ A \in SUBSET Ids /\ B \in SUBSET Ids /\ C \in SUBSET Ids
  BY <1>2 DEF Of
<1>4. \A i \in C : v[i] = rows[i].vat /\ v[i] \in Nat
  BY <1>1, <1>2, RowIs DEF Of, Shaped
<1>5. IsFiniteSet(A) /\ IsFiniteSet(B)
  BY <1>3, IdsAssumption, FS_Subset
<1>6. ASSUME NEW S \in {A, B, C}, NEW f, f = [i \in S |-> rows[i].vat]
      PROVE  Total(f, S) = Total(v, S)
  <2>1. IsFiniteSet(S) /\ S \in SUBSET C
    BY <1>3, IdsAssumption, FS_Subset
  <2>2. \A i \in S : f[i] = v[i]
    BY <1>4, <1>6, <2>1
  <2> QED
    BY <2>1, <2>2, TotalSame
<1>7. /\ LineVat({"revenue", "cash"}) = Total(v, A)
      /\ LineVat({"expense"}) = Total(v, B)
      /\ LineVat({"revenue", "cash", "expense"}) = Total(v, C)
  <2>1. PICK a, b, c : a = [i \in A |-> rows[i].vat] /\ b = [i \in B |-> rows[i].vat] /\ c = [i \in C |-> rows[i].vat]
    OBVIOUS
  <2>2. /\ LineVat({"revenue", "cash"}) = Total(a, A)
        /\ LineVat({"expense"}) = Total(b, B)
        /\ LineVat({"revenue", "cash", "expense"}) = Total(c, C)
    BY <1>2, <2>1 DEF LineVat, Sum, Total
  <2>3. Total(a, A) = Total(v, A) /\ Total(b, B) = Total(v, B) /\ Total(c, C) = Total(v, C)
    BY <1>6, <2>1
  <2> QED
    BY <2>2, <2>3
<1>8. Total(v, A \cup B) = Total(v, A) + Total(v, B)
  <2>1. \A i \in A \cup B : v[i] \in Int
    BY <1>3, <1>4
  <2> QED
    BY <1>3, <2>1, IdsAssumption, TotalUnion
<1>9. Total(v, A) \in Nat /\ Total(v, B) \in Nat
  BY <1>3, <1>4, <1>5, TotalNat
<1> QED
  BY <1>3, <1>7, <1>8, <1>9

LEMMA VatIsOne ==
    ASSUME Shaped
    PROVE  VatAgrees
<1> SUFFICES ASSUME LineVat({"revenue", "cash", "expense"}) = 0, HomeRevenue(Dates) = AnalyticsRevenue(Dates)
             PROVE  VatOverview = HomeVat(Dates)
  BY DEF VatAgrees
<1>1. VatPayable = AnalyticsRevenue(Dates) * RevenueVat /\ VatReceivable = DaysExpenses(Dates) * ExpenseVat
  BY LinesApart DEF VatPayable, VatReceivable
<1> QED
  BY <1>1 DEF VatOverview, HomeVat

(* The days of P with nothing that takes cash away.                        *)
LEMMA NothingCutOff ==
    ASSUME Shaped, NEW P, \A i \in Ids : In(i, P) => Kept[i] >= 0
    PROVE  HomeAvailable(P) = Part(Kept, P)
<1>1. PICK f : f = [d \in P \cap Days |-> Available({d})]
  OBVIOUS
<1>2. ASSUME NEW d \in P \cap Days PROVE f[d] = Part(Kept, {d})
  <2>1. PICK z : z = [i \in Ids |-> 0]
    OBVIOUS
  <2>2. Numbers(z) /\ \A i \in Ids : z[i] = 0
    BY <2>1 DEF Numbers
  <2>3. \A i \in Ids : In(i, {d}) => z[i] <= Kept[i]
    BY <2>2, AllNumbers DEF In, Numbers
  <2>4. Part(z, {d}) <= Part(Kept, {d})
    BY <2>2, <2>3, AllNumbers, PartLess
  <2>5. Part(z, {d}) = 0
    BY <2>2, PartNone
  <2>6. Part(Kept, {d}) \in Int
    BY AllNumbers, PartInt
  <2>7. Pos(Part(Kept, {d})) = Part(Kept, {d})
    BY <2>4, <2>5, <2>6 DEF Pos
  <2> QED
    BY <1>1, <2>7, AvailableOf
<1>3. Total(f, P \cap Days) = Part(Kept, P)
  BY <1>2, AllNumbers, DaysTotal
<1> QED
  BY <1>1, <1>3 DEF HomeAvailable, Sum, Total

LEMMA RecordsAlone ==
    ASSUME Shaped, NEW P, Entered(P) = Of({"manual_entry"}, P),
           \A i \in RecordsOf(P, "method_2") : CashFlow(rows[i]) >= 0
    PROVE  HomeAvailable(P) = OverviewAvailable(P)
<1> DEFINE Keeps(i, method) == rows[i] # NULL /\ rows[i].kind = "manual_entry" /\ rows[i].method = method
<1>1. PICK one, two : /\ one = [i \in Ids |-> IF Keeps(i, "method_1") THEN rows[i].closing ELSE 0]
                      /\ two = [i \in Ids |-> IF Keeps(i, "method_2") THEN CashFlow(rows[i]) ELSE 0]
  OBVIOUS
<1>2. ASSUME NEW i \in Ids PROVE one[i] \in Int /\ two[i] \in Int
  <2>1. CASE rows[i] = NULL
    BY <1>1, <2>1
  <2>2. CASE rows[i] # NULL
    <3>1. rows[i] \in Rows
      BY <2>2 DEF Shaped
    <3> QED
      BY <1>1, <3>1, RowIs, RecordNumbers
  <2> QED
    BY <2>1, <2>2
<1>3. Numbers(one) /\ Numbers(two)
  BY <1>2 DEF Numbers
<1>4. ASSUME NEW i \in Ids, In(i, P)
      PROVE  Kept[i] = one[i] + two[i] /\ one[i] >= 0 /\ two[i] >= 0
  <2>1. rows[i] # NULL /\ rows[i] \in Rows
    BY <1>4, RowIn
  <2>2. rows[i].kind = "manual_entry"
    BY <1>4 DEF Entered, Of, In
  <2>3. rows[i].method \in {"method_1", "method_2"} /\ rows[i].closing \in Nat
    BY <2>1, <2>2, RowIs
  <2>4. CASE rows[i].method = "method_1"
    BY <1>1, <2>1, <2>2, <2>3, <2>4 DEF Kept, KeptOf, CashAvailable
  <2>5. CASE rows[i].method = "method_2"
    <3>1. CashFlow(rows[i]) >= 0 /\ CashFlow(rows[i]) \in Int
      BY <1>4, <2>1, <2>2, <2>5, RecordNumbers DEF RecordsOf, Of, In
    <3>2. CashAvailable(rows[i]) = CashFlow(rows[i])
      BY <2>5, <3>1 DEF CashAvailable, Pos
    <3> QED
      BY <1>1, <2>1, <2>2, <2>5, <3>1, <3>2 DEF Kept, KeptOf
  <2> QED
    BY <2>3, <2>4, <2>5
<1>5. Part(Kept, P) = Part(one, P) + Part(two, P)
  BY <1>3, <1>4, PartPlus
<1>6. HomeAvailable(P) = Part(Kept, P)
  <2>1. \A i \in Ids : In(i, P) => Kept[i] >= 0
    BY <1>2, <1>4
  <2> QED
    BY <2>1, NothingCutOff
<1>7. Part(two, P) >= 0 /\ Part(two, P) \in Int
  <2>1. PICK z : z = [i \in Ids |-> 0]
    OBVIOUS
  <2>2. Numbers(z) /\ \A i \in Ids : z[i] = 0
    BY <2>1 DEF Numbers
  <2>3. \A i \in Ids : In(i, P) => z[i] <= two[i]
    BY <1>2, <1>4, <2>2
  <2>4. Part(z, P) <= Part(two, P)
    BY <1>3, <2>2, <2>3, PartLess
  <2>5. Part(z, P) = 0
    BY <2>2, PartNone
  <2>6. Part(two, P) \in Int
    BY <1>3, PartInt
  <2> QED
    BY <2>4, <2>5, <2>6
<1>8. PICK S, T : S = RecordsOf(P, "method_1") /\ T = RecordsOf(P, "method_2")
  OBVIOUS
<1>9. PICK f, g : f = [i \in S |-> rows[i].closing] /\ g = [i \in T |-> CashFlow(rows[i])]
  OBVIOUS
<1>10. /\ S \in SUBSET Ids /\ T \in SUBSET Ids
       /\ \A i \in Ids : /\ i \in S <=> In(i, P) /\ Keeps(i, "method_1")
                         /\ i \in T <=> In(i, P) /\ Keeps(i, "method_2")
  BY <1>8 DEF RecordsOf, Of, In
<1>11. Total(f, S) = Part(one, P)
  <2>1. \A i \in Ids : In(i, P) => one[i] \in Int /\ (i \in S => f[i] = one[i]) /\ (i \notin S => one[i] = 0)
    BY <1>1, <1>2, <1>9, <1>10
  <2>2. \A i \in S : In(i, P)
    BY <1>10
  <2> QED
    BY <1>10, <2>1, <2>2, TotalWhere
<1>12. Total(g, T) = Part(two, P)
  <2>1. \A i \in Ids : In(i, P) => two[i] \in Int /\ (i \in T => g[i] = two[i]) /\ (i \notin T => two[i] = 0)
    BY <1>1, <1>2, <1>9, <1>10
  <2>2. \A i \in T : In(i, P)
    BY <1>10
  <2> QED
    BY <1>10, <2>1, <2>2, TotalWhere
<1>13. OverviewAvailable(P) = Total(f, S) + Pos(Total(g, T))
  BY <1>8, <1>9 DEF OverviewAvailable, Sum, Total
<1>14. Pos(Part(two, P)) = Part(two, P)
  BY <1>7 DEF Pos
<1> QED
  BY <1>5, <1>6, <1>11, <1>12, <1>13, <1>14

LEMMA DepositsAlone ==
    ASSUME Shaped, NEW P, Entered(P) = Of({"deposit"}, P)
    PROVE  HomeAvailable(P) + HomeBank(P) = OverviewCollected(P)
<1>1. ASSUME NEW i \in Ids, In(i, P)
      PROVE  /\ rows[i].kind = "deposit" /\ Kept[i] = 0
             /\ \E t : DepositRowsOf(i) = {t} /\ t.date = rows[i].date /\ t.amount = Banked[i]
  <2>1. rows[i] # NULL /\ rows[i] \in Rows /\ rows[i].kind = "deposit"
    BY <1>1, RowIn DEF Entered, Of, In
  <2>2. PICK s \in Rows : s = rows[i] /\ s # NULL /\ s.kind = "deposit"
    BY <2>1
  <2>3. s.type \in {"bank_deposit", "cash_deposit"}
    BY <2>2, RowIs
  <2>4. PICK t : t = [subtype |-> "own", type |-> s.type, date |-> s.date, amount |-> s.amount]
    OBVIOUS
  <2>5. DepositRowsOf(i) = {t}
    BY <2>2, <2>4 DEF DepositRowsOf, IsDocument, IsRecord, IsDeposit
  <2>6. Banked[i] = s.amount
    BY <2>2, <2>3 DEF Banked, BankedOf
  <2>7. Kept[i] = 0
    BY <2>2 DEF Kept, KeptOf, Counts, ExpenseKinds
  <2> QED
    BY <2>2, <2>4, <2>5, <2>6, <2>7
<1>2. HomeAvailable(P) = 0
  <2>1. \A i \in Ids : In(i, P) => Kept[i] >= 0
    BY <1>1
  <2>2. Part(Kept, P) = 0
    BY <1>1, PartNone
  <2> QED
    BY <2>1, <2>2, NothingCutOff
<1>3. OverviewAvailable(P) = 0
  <2>1. RecordsOf(P, "method_1") = {} /\ RecordsOf(P, "method_2") = {}
    BY <1>1 DEF RecordsOf, Of, In
  <2>2. PICK f, g : f = [i \in {} |-> rows[i].closing] /\ g = [i \in {} |-> CashFlow(rows[i])]
    OBVIOUS
  <2>3. OverviewAvailable(P) = Total(f, {}) + Pos(Total(g, {}))
    BY <2>1, <2>2 DEF OverviewAvailable, Sum, Total
  <2> QED
    BY <2>3, TotalEmpty DEF Pos
<1>4. AllDeposits(P) = Part(Banked, P)
  <2>1. PICK X : X = DepositRows(P)
    OBVIOUS
  <2>2. PICK f : f = [x \in X |-> x[2].amount]
    OBVIOUS
  <2>3. PICK a : a = [i \in Ids |-> IF In(i, P) THEN Banked[i] ELSE 0]
    OBVIOUS
  <2>4. \A x \in X : x[1] \in Ids /\ x[2] \in DepositRowsOf(x[1]) /\ x = <<x[1], x[2]>> /\ x[2].date \in P
    BY <2>1 DEF DepositRows
  <2>5. \A i \in Ids : \A t \in DepositRowsOf(i) : t.date \in P => <<i, t>> \in X
    BY <2>1 DEF DepositRows
  <2>6. ASSUME NEW i \in Ids
        PROVE  a[i] \in Int /\ \/ a[i] = 0 /\ \A x \in X : x[1] # i
                               \/ \E x \in X : x[1] = i /\ f[x] = a[i] /\ \A y \in X : y[1] = i => y = x
    <3>1. a[i] \in Int
      BY <2>3, AllNumbers DEF Numbers
    <3>2. CASE ~In(i, P)
      <4>1. \A x \in X : x[1] # i
        BY <2>4, <3>2, DepositRowsDated DEF In
      <4> QED
        BY <2>3, <3>1, <3>2, <4>1
    <3>3. CASE In(i, P)
      <4>1. PICK t : DepositRowsOf(i) = {t} /\ t.date = rows[i].date /\ t.amount = Banked[i]
        BY <1>1, <3>3
      <4>2. PICK x : x = <<i, t>>
        OBVIOUS
      <4>3. x \in X
        BY <2>5, <3>3, <4>1, <4>2 DEF In
      <4>4. x[1] = i /\ f[x] = a[i]
        BY <2>2, <2>3, <3>3, <4>1, <4>2, <4>3
      <4>5. ASSUME NEW y \in X, y[1] = i PROVE y = x
        BY <2>4, <4>1, <4>2, <4>5
      <4> QED
        BY <3>1, <4>3, <4>4, <4>5
    <3> QED
      BY <3>2, <3>3
  <2>7. Total(f, X) = Total(a, Ids)
    BY <2>4, <2>6, TotalPairs
  <2> QED
    BY <2>1, <2>2, <2>3, <2>7 DEF AllDeposits, Sum, Total, Part
<1>5. HomeBank(P) = Part(Banked, P)
  <2>1. PICK days : days = Sum(LAMBDA d : BankDeposits({d}), P \cap Days)
    OBVIOUS
  <2>2. HomeBank(P) = IF days = 0 THEN AllDeposits(P) ELSE days
    BY <2>1 DEF HomeBank
  <2>3. days = Part(Banked, P)
    BY <2>1, DaysBankIs
  <2> QED
    BY <1>4, <2>2, <2>3
<1> QED
  BY <1>2, <1>3, <1>4, <1>5 DEF OverviewCollected, OverviewBank

LEMMA OneHome ==
    ASSUME Shaped
    PROVE  HomeAgrees
<1>1. HomeMatchesAnalytics
  BY PlainRevenue DEF HomeMatchesAnalytics
<1>2. CashAgrees
  BY RecordsAlone, DepositsAlone DEF CashAgrees
<1> QED
  BY <1>1, <1>2, VatIsOne DEF HomeAgrees

(* The screens tell one story: daily data and expenses, added up from the  *)
(* rows by get_daily_data_by_date_detail and list_expenses, and the        *)
(* snapshots of the days differ by the revenue entries and the food costs  *)
(* entered by hand, and by nothing else; and home shows the revenue, VAT   *)
(* and cash of the analytics, the VAT screen and the cash overview         *)
(* (get_home_metrics, get_vat_overview, get_cash_management) wherever only *)
(* such rows were entered that each pair of them counts alike.             *)
THEOREM ScreensAreOne == Spec => []ScreensMatch
<1>1. TypeOK => RowsMatchSnapshots
  BY TypedIsShaped, OneStory, DetailAgrees DEF RowsMatchSnapshots
<1>2. TypeOK => HomeAgrees
  BY TypedIsShaped, OneHome
<1>3. TypeOK => ScreensMatch
  BY <1>1, <1>2 DEF ScreensMatch
<1> QED
  BY <1>3, RowsKeepTheirShape, PTL

=============================================================================
