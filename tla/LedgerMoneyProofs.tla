------------------------- MODULE LedgerMoneyProofs --------------------------
(***************************************************************************)
(* Theorems about where the money is: the running totals are the sums of   *)
(* the history, the pools back what is owed, and a hold that was admitted  *)
(* can always be settled.                                                  *)
(***************************************************************************)
EXTENDS LedgerControlProofs, NaturalsInduction

-----------------------------------------------------------------------------
(***************************************************************************)
(* Sums.  SumFunctionOnSet folds a recursive function over the subsets of  *)
(* a set; that this function exists, and what it returns, follows from the *)
(* smallest set for which it would not.                                    *)
(***************************************************************************)
Pick(s) == CHOOSE x \in s : TRUE

Unrolls(g, f, S) ==
  g = [s \in SUBSET S |-> IF s = {} THEN 0 ELSE f[Pick(s)] + g[s \ {Pick(s)}]]

\* A set of numbers that has a member has a least one.
LEMMA LeastNumber ==
  ASSUME NEW T \in SUBSET Nat, T # {}
  PROVE  \E n \in T : \A k \in T : n <= k
<1> DEFINE R == OpToRel(<, Nat)
<1>1. IsWellFoundedOn(R, Nat)  BY NatLessThanWellFounded
<1>2. \A k, n \in Nat : k < n => <<k, n>> \in R  BY DEF OpToRel
<1> HIDE DEF R
<1>3. \E n \in T : \A k \in T : ~ (<<k, n>> \in R)  BY <1>1, WFMin
<1>4. PICK n \in T : \A k \in T : <<k, n>> \notin R  BY <1>3
<1>5. \A k \in T : ~ (k < n)  BY <1>2, <1>4
<1>6. \A k \in T : n <= k  BY <1>5
<1> QED  BY <1>4, <1>6

\* Of the subsets of a finite set in some family, one has no subset less an element in it.
LEMMA SmallestSet ==
  ASSUME NEW S, IsFiniteSet(S), NEW Bad \in SUBSET SUBSET S, Bad # {}
  PROVE  \E X \in Bad : /\ IsFiniteSet(X)
                        /\ \A Y \in SUBSET X : Y # X => Y \notin Bad
<1> DEFINE T == {Cardinality(X) : X \in Bad}
<1>1. \A X \in SUBSET S : IsFiniteSet(X) /\ Cardinality(X) \in Nat
  BY FS_Subset, FS_CardinalityType
<1>2. T \in SUBSET Nat /\ T # {}  BY <1>1
<1>3. PICK n \in T : \A k \in T : n <= k
  <2> HIDE DEF T
  <2> QED  BY <1>2, LeastNumber
<1>4. PICK X \in Bad : n = Cardinality(X)  BY <1>3
<1>5. ASSUME NEW Y \in SUBSET X, Y # X, Y \in Bad PROVE FALSE
  <2>1. Cardinality(Y) < Cardinality(X)  BY <1>1, <1>5, FS_Subset
  <2>2. Cardinality(X) <= Cardinality(Y)  BY <1>3, <1>4, <1>5
  <2> QED  BY <2>1, <2>2, <1>1
<1> QED  BY <1>1, <1>4, <1>5

\* A member of a set, and the set without it.
LEMMA Picked ==
  ASSUME NEW s, s # {}
  PROVE  Pick(s) \in s /\ s \ {Pick(s)} \in SUBSET s /\ s \ {Pick(s)} # s
BY DEF Pick

\* The recursion determines its values.
LEMMA UnrollsAgree ==
  ASSUME NEW f, NEW S, NEW T, IsFiniteSet(S), NEW g, NEW h,
         Unrolls(g, f, S), Unrolls(h, f, T)
  PROVE  \A s \in SUBSET S : s \in SUBSET T => g[s] = h[s]
<1> DEFINE Bad == {s \in SUBSET S : s \in SUBSET T /\ g[s] # h[s]}
<1> SUFFICES ASSUME Bad # {} PROVE FALSE  OBVIOUS
<1>1. PICK X \in Bad : \A Y \in SUBSET X : Y # X => Y \notin Bad
  <2>1. Bad \in SUBSET SUBSET S  OBVIOUS
  <2> HIDE DEF Bad
  <2> QED  BY <2>1, SmallestSet
<1>2. X \in SUBSET S /\ X \in SUBSET T /\ g[X] # h[X]  BY <1>1
<1>3. g[X] = IF X = {} THEN 0 ELSE f[Pick(X)] + g[X \ {Pick(X)}]  BY <1>2 DEF Unrolls
<1>4. h[X] = IF X = {} THEN 0 ELSE f[Pick(X)] + h[X \ {Pick(X)}]  BY <1>2 DEF Unrolls
<1>5. X # {}  BY <1>2, <1>3, <1>4
<1>6. g[X \ {Pick(X)}] = h[X \ {Pick(X)}]
  <2>1. X \ {Pick(X)} \in SUBSET X /\ X \ {Pick(X)} # X  BY <1>5, Picked
  <2>2. X \ {Pick(X)} \notin Bad  BY <1>1, <2>1
  <2> QED  BY <2>1, <2>2, <1>2
<1> QED  BY <1>2, <1>3, <1>4, <1>6

\* The recursion has a solution on the subsets of every finite set.
LEMMA CanUnroll ==
  ASSUME NEW f, NEW S, IsFiniteSet(S)
  PROVE  \E g : Unrolls(g, f, S)
<1> DEFINE Bad == {s \in SUBSET S : ~ \E g : Unrolls(g, f, s)}
<1> SUFFICES ASSUME Bad # {} PROVE FALSE  OBVIOUS
<1>1. PICK X \in Bad : IsFiniteSet(X) /\ \A Y \in SUBSET X : Y # X => Y \notin Bad
  <2>1. Bad \in SUBSET SUBSET S  OBVIOUS
  <2> HIDE DEF Bad
  <2> QED  BY <2>1, SmallestSet
<1> DEFINE G(s) == CHOOSE g : Unrolls(g, f, s)
           v(s) == IF s = X THEN f[Pick(X)] + G(X \ {Pick(X)})[X \ {Pick(X)}] ELSE G(s)[s]
           g0 == [s \in SUBSET X |-> v(s)]
<1>2. \A Y \in SUBSET X : IsFiniteSet(Y) /\ (Y # X => Unrolls(G(Y), f, Y))
  <2>1. \A Y \in SUBSET X : Y # X => \E g : Unrolls(g, f, Y)  BY <1>1
  <2> HIDE DEF Bad
  <2> QED  BY <1>1, <2>1, FS_Subset
<1>3. X # {}
  <2>1. Unrolls([s \in SUBSET {} |-> 0], f, {})  BY DEF Unrolls
  <2> QED  BY <1>1, <2>1
<1>4. ~ Unrolls(g0, f, X)  BY <1>1
<1> HIDE DEF Bad, G
<1>5. ASSUME NEW s \in SUBSET X
      PROVE  g0[s] = IF s = {} THEN 0 ELSE f[Pick(s)] + g0[s \ {Pick(s)}]
  <2>1. CASE s = X
    <3>1. X \ {Pick(X)} \in SUBSET X /\ X \ {Pick(X)} # X  BY <1>3, Picked
    <3>2. g0[X \ {Pick(X)}] = G(X \ {Pick(X)})[X \ {Pick(X)}]  BY <3>1
    <3>3. g0[X] = f[Pick(X)] + G(X \ {Pick(X)})[X \ {Pick(X)}]  OBVIOUS
    <3> HIDE DEF g0
    <3> QED  BY <2>1, <1>3, <3>2, <3>3
  <2>2. CASE s # X /\ s = {}
    <3>1. g0[s] = G(s)[s]  BY <2>2
    <3>2. G(s)[s] = 0  BY <2>2, <1>2 DEF Unrolls
    <3> HIDE DEF g0
    <3> QED  BY <2>2, <3>1, <3>2
  <2>3. CASE s # X /\ s # {}
    <3> DEFINE t == s \ {Pick(s)}
    <3>1. t \in SUBSET s /\ t # s /\ t \in SUBSET X /\ t # X  BY <2>3, Picked
    <3>2. g0[s] = G(s)[s] /\ g0[t] = G(t)[t]  BY <2>3, <3>1
    <3>3. Unrolls(G(s), f, s) /\ Unrolls(G(t), f, t) /\ IsFiniteSet(s) /\ IsFiniteSet(t)
      BY <1>2, <2>3, <3>1
    <3>4. G(s)[s] = f[Pick(s)] + G(s)[t]  BY <2>3, <3>3 DEF Unrolls
    <3>5. G(s)[t] = G(t)[t]
      <4>1. t \in SUBSET t  OBVIOUS
      <4> HIDE DEF t
      <4> QED  BY <3>1, <3>3, <4>1, UnrollsAgree
    <3> HIDE DEF g0
    <3> QED  BY <2>3, <3>2, <3>4, <3>5
  <2> QED  BY <2>1, <2>2, <2>3
<1>6. DOMAIN g0 = SUBSET X /\ g0 = [s \in SUBSET X |-> g0[s]]  OBVIOUS
<1> HIDE DEF g0
<1>7. g0 = [s \in SUBSET X |-> IF s = {} THEN 0 ELSE f[Pick(s)] + g0[s \ {Pick(s)}]]
  BY <1>5, <1>6
<1> QED  BY <1>4, <1>7 DEF Unrolls

\* A sum adds a member's share to the sum over the others.
LEMMA SumChosen ==
  ASSUME NEW f, NEW S, IsFiniteSet(S)
  PROVE  SumFunctionOnSet(f, S) =
           IF S = {} THEN 0 ELSE f[Pick(S)] + SumFunctionOnSet(f, S \ {Pick(S)})
<1> DEFINE G(T) == CHOOSE g : Unrolls(g, f, T)
<1>1. \A T : SumFunctionOnSet(f, T) = G(T)[T]
  BY DEF SumFunctionOnSet, FoldFunctionOnSet, MapThenFoldSet, Unrolls, Pick
<1>2. \A T : IsFiniteSet(T) => Unrolls(G(T), f, T)  BY CanUnroll
<1> HIDE DEF G
<1>3. G(S)[S] = IF S = {} THEN 0 ELSE f[Pick(S)] + G(S)[S \ {Pick(S)}]  BY <1>2 DEF Unrolls
<1>4. CASE S = {}  BY <1>1, <1>3, <1>4
<1>5. CASE S # {}
  <2> DEFINE T == S \ {Pick(S)}
  <2>1. IsFiniteSet(T) /\ T \in SUBSET S /\ T \in SUBSET T  BY <1>5, FS_Subset
  <2>2. G(S)[T] = G(T)[T]
    <3> HIDE DEF T
    <3> QED  BY <2>1, <1>2, UnrollsAgree
  <2> QED  BY <1>1, <1>3, <1>5, <2>2
<1> QED  BY <1>4, <1>5

\* A sum of integers is an integer.
LEMMA SumInt ==
  ASSUME NEW f, NEW S, IsFiniteSet(S), \A x \in S : f[x] \in Int
  PROVE  SumFunctionOnSet(f, S) \in Int
<1> DEFINE Bad == {s \in SUBSET S : SumFunctionOnSet(f, s) \notin Int}
<1> SUFFICES ASSUME Bad # {} PROVE FALSE  OBVIOUS
<1>1. PICK X \in Bad : IsFiniteSet(X) /\ \A Y \in SUBSET X : Y # X => Y \notin Bad
  <2>1. Bad \in SUBSET SUBSET S  OBVIOUS
  <2> HIDE DEF Bad
  <2> QED  BY <2>1, SmallestSet
<1>2. X \in SUBSET S /\ SumFunctionOnSet(f, X) \notin Int  BY <1>1
<1>3. X # {} /\ SumFunctionOnSet(f, X) = f[Pick(X)] + SumFunctionOnSet(f, X \ {Pick(X)})
  BY <1>1, <1>2, SumChosen
<1>4. X \ {Pick(X)} \in SUBSET X /\ X \ {Pick(X)} # X /\ Pick(X) \in S  BY <1>2, <1>3, Picked
<1>5. SumFunctionOnSet(f, X \ {Pick(X)}) \in Int  BY <1>1, <1>2, <1>4
<1> QED  BY <1>2, <1>3, <1>4, <1>5

\* It does not matter which member is taken out.
LEMMA SumWithout ==
  ASSUME NEW f, NEW S, IsFiniteSet(S), \A x \in S : f[x] \in Int, NEW x \in S
  PROVE  SumFunctionOnSet(f, S) = f[x] + SumFunctionOnSet(f, S \ {x})
<1> DEFINE F(s) == SumFunctionOnSet(f, s)
           Bad == {s \in SUBSET S : \E y \in s : F(s) # f[y] + F(s \ {y})}
<1> HIDE DEF F
<1> SUFFICES ASSUME Bad # {} PROVE FALSE  BY DEF F
<1>1. PICK X \in Bad : IsFiniteSet(X) /\ \A Y \in SUBSET X : Y # X => Y \notin Bad
  <2>1. Bad \in SUBSET SUBSET S  OBVIOUS
  <2> HIDE DEF Bad
  <2> QED  BY <2>1, SmallestSet
<1>2. PICK y \in X : F(X) # f[y] + F(X \ {y})  BY <1>1
<1> DEFINE c == Pick(X)
<1>3. X \in SUBSET S /\ c \in X /\ X # {}  BY <1>1, <1>2, Picked
<1>4. F(X) = f[c] + F(X \ {c})  BY <1>1, <1>3, SumChosen DEF F
<1> HIDE DEF c
<1>5. c # y  BY <1>2, <1>4
<1>6. F(X \ {c}) = f[y] + F((X \ {c}) \ {y})
  <2>1. X \ {c} \in SUBSET X /\ X \ {c} # X /\ y \in X \ {c}  BY <1>2, <1>3, <1>5
  <2>2. X \ {c} \notin Bad  BY <1>1, <2>1
  <2> QED  BY <2>1, <2>2, <1>3
<1>7. F(X \ {y}) = f[c] + F((X \ {y}) \ {c})
  <2>1. X \ {y} \in SUBSET X /\ X \ {y} # X /\ c \in X \ {y}  BY <1>2, <1>3, <1>5
  <2>2. X \ {y} \notin Bad  BY <1>1, <2>1
  <2> QED  BY <2>1, <2>2, <1>3
<1>8. (X \ {c}) \ {y} = (X \ {y}) \ {c}  OBVIOUS
<1>9. F((X \ {c}) \ {y}) \in Int /\ f[c] \in Int /\ f[y] \in Int
  <2>1. IsFiniteSet((X \ {c}) \ {y}) /\ (X \ {c}) \ {y} \in SUBSET S  BY <1>1, <1>3, FS_Subset
  <2>2. F((X \ {c}) \ {y}) \in Int  BY <2>1, SumInt DEF F
  <2> QED  BY <2>2, <1>2, <1>3
<1>10. F((X \ {c}) \ {y}) = F((X \ {y}) \ {c})  BY <1>8
<1>11. F(X) = f[c] + (f[y] + F((X \ {c}) \ {y}))  BY <1>4, <1>6
<1>12. f[y] + F(X \ {y}) = f[y] + (f[c] + F((X \ {c}) \ {y}))  BY <1>7, <1>10
<1> HIDE DEF Bad
<1>13. F(X) = f[y] + F(X \ {y})  BY <1>9, <1>11, <1>12
<1> QED  BY <1>2, <1>13

\* Functions that agree on a set have the same sum over it.
LEMMA SumSame ==
  ASSUME NEW f, NEW g, NEW S, IsFiniteSet(S), \A x \in S : f[x] = g[x]
  PROVE  SumFunctionOnSet(f, S) = SumFunctionOnSet(g, S)
<1> DEFINE Bad == {s \in SUBSET S : SumFunctionOnSet(f, s) # SumFunctionOnSet(g, s)}
<1> SUFFICES ASSUME Bad # {} PROVE FALSE  OBVIOUS
<1>1. PICK X \in Bad : IsFiniteSet(X) /\ \A Y \in SUBSET X : Y # X => Y \notin Bad
  <2>1. Bad \in SUBSET SUBSET S  OBVIOUS
  <2> HIDE DEF Bad
  <2> QED  BY <2>1, SmallestSet
<1>2. X \in SUBSET S /\ SumFunctionOnSet(f, X) # SumFunctionOnSet(g, X)  BY <1>1
<1>3. X # {} /\ SumFunctionOnSet(f, X) = f[Pick(X)] + SumFunctionOnSet(f, X \ {Pick(X)})
             /\ SumFunctionOnSet(g, X) = g[Pick(X)] + SumFunctionOnSet(g, X \ {Pick(X)})
  BY <1>1, <1>2, SumChosen
<1>4. X \ {Pick(X)} \in SUBSET X /\ X \ {Pick(X)} # X /\ Pick(X) \in S  BY <1>2, <1>3, Picked
<1>5. SumFunctionOnSet(f, X \ {Pick(X)}) = SumFunctionOnSet(g, X \ {Pick(X)})
  BY <1>1, <1>2, <1>4
<1> QED  BY <1>2, <1>3, <1>4, <1>5

\* A sum of natural numbers is a natural number.
LEMMA SumNat ==
  ASSUME NEW f, NEW S, IsFiniteSet(S), \A x \in S : f[x] \in Nat
  PROVE  SumFunctionOnSet(f, S) \in Nat
<1> DEFINE Bad == {s \in SUBSET S : SumFunctionOnSet(f, s) \notin Nat}
<1> SUFFICES ASSUME Bad # {} PROVE FALSE  OBVIOUS
<1>1. PICK X \in Bad : IsFiniteSet(X) /\ \A Y \in SUBSET X : Y # X => Y \notin Bad
  <2>1. Bad \in SUBSET SUBSET S  OBVIOUS
  <2> HIDE DEF Bad
  <2> QED  BY <2>1, SmallestSet
<1>2. X \in SUBSET S /\ SumFunctionOnSet(f, X) \notin Nat  BY <1>1
<1> HIDE DEF Bad
<1>3. X # {} /\ SumFunctionOnSet(f, X) = f[Pick(X)] + SumFunctionOnSet(f, X \ {Pick(X)})
  <2>1. X = {} => SumFunctionOnSet(f, X) = 0  BY <1>1, SumChosen
  <2>2. X # {}  BY <1>2, <2>1
  <2> QED  BY <1>1, <2>2, SumChosen
<1>4. X \ {Pick(X)} \in SUBSET X /\ X \ {Pick(X)} # X /\ Pick(X) \in S  BY <1>2, <1>3, Picked
<1>5. SumFunctionOnSet(f, X \ {Pick(X)}) \in Nat  BY <1>1, <1>2, <1>4 DEF Bad
<1> QED  BY <1>2, <1>3, <1>4, <1>5

\* A sum of nothing is nothing.
LEMMA SumZero ==
  ASSUME NEW f, NEW S, IsFiniteSet(S), \A x \in S : f[x] = 0
  PROVE  SumFunctionOnSet(f, S) = 0
<1> DEFINE Bad == {s \in SUBSET S : SumFunctionOnSet(f, s) # 0}
<1> SUFFICES ASSUME Bad # {} PROVE FALSE  OBVIOUS
<1>1. PICK X \in Bad : IsFiniteSet(X) /\ \A Y \in SUBSET X : Y # X => Y \notin Bad
  <2>1. Bad \in SUBSET SUBSET S  OBVIOUS
  <2> HIDE DEF Bad
  <2> QED  BY <2>1, SmallestSet
<1>2. X \in SUBSET S /\ SumFunctionOnSet(f, X) # 0  BY <1>1
<1>3. X # {} /\ SumFunctionOnSet(f, X) = f[Pick(X)] + SumFunctionOnSet(f, X \ {Pick(X)})
  BY <1>1, <1>2, SumChosen
<1>4. X \ {Pick(X)} \in SUBSET X /\ X \ {Pick(X)} # X /\ Pick(X) \in S  BY <1>2, <1>3, Picked
<1>5. SumFunctionOnSet(f, X \ {Pick(X)}) = 0  BY <1>1, <1>2, <1>4
<1>6. f[Pick(X)] = 0  BY <1>4
<1> QED  BY <1>2, <1>3, <1>5, <1>6

-----------------------------------------------------------------------------
(***************************************************************************)
(* The sum of a function with one value changed, added or taken away.      *)
(***************************************************************************)
At(f, x) == IF x \in DOMAIN f THEN f[x] ELSE 0

\* Apart from one member, f and g are the same.
DifferAt(f, g, x) ==
  DOMAIN f \ {x} = DOMAIN g \ {x} /\ \A y \in DOMAIN f \ {x} : f[y] = g[y]

Summable(f) == IsFiniteSet(DOMAIN f) /\ \A x \in DOMAIN f : f[x] \in Int

\* The sum without one member, whether it is one or not.
LEMMA SumRest ==
  ASSUME NEW f, Summable(f), NEW x
  PROVE  /\ SumFunction(f) \in Int /\ SumFunctionOnSet(f, DOMAIN f \ {x}) \in Int
         /\ At(f, x) \in Int
         /\ SumFunction(f) = At(f, x) + SumFunctionOnSet(f, DOMAIN f \ {x})
<1>1. SumFunction(f) = SumFunctionOnSet(f, DOMAIN f)  BY DEF SumFunction
<1>2. IsFiniteSet(DOMAIN f \ {x})  BY FS_Subset DEF Summable
<1>3. SumFunctionOnSet(f, DOMAIN f) \in Int  BY SumInt DEF Summable
<1>4. SumFunctionOnSet(f, DOMAIN f \ {x}) \in Int  BY <1>2, SumInt DEF Summable
<1>5. CASE x \in DOMAIN f
  <2>1. SumFunctionOnSet(f, DOMAIN f) = f[x] + SumFunctionOnSet(f, DOMAIN f \ {x})
    BY <1>5, SumWithout DEF Summable
  <2> QED  BY <1>1, <1>3, <1>4, <1>5, <2>1 DEF At, Summable
<1>6. CASE x \notin DOMAIN f
  <2>1. DOMAIN f \ {x} = DOMAIN f  BY <1>6
  <2> QED  BY <1>1, <1>3, <1>6, <2>1 DEF At
<1> QED  BY <1>5, <1>6

\* What changes one value changes the sum by as much.
LEMMA SumChange ==
  ASSUME NEW f, NEW g, Summable(f), Summable(g), NEW x, DifferAt(f, g, x)
  PROVE  /\ SumFunction(f) \in Int /\ SumFunction(g) \in Int
         /\ SumFunction(g) = SumFunction(f) + At(g, x) - At(f, x)
<1>1. IsFiniteSet(DOMAIN f \ {x})  BY FS_Subset DEF Summable
<1>2. SumFunctionOnSet(f, DOMAIN f \ {x}) = SumFunctionOnSet(g, DOMAIN f \ {x})
  BY <1>1, SumSame DEF DifferAt
<1>3. DOMAIN f \ {x} = DOMAIN g \ {x}  BY DEF DifferAt
<1> DEFINE m == SumFunctionOnSet(f, DOMAIN f \ {x})
<1>4. SumFunction(f) \in Int /\ m \in Int /\ At(f, x) \in Int /\ SumFunction(f) = At(f, x) + m
  BY SumRest
<1>5. SumFunctionOnSet(g, DOMAIN g \ {x}) = m  BY <1>2, <1>3
<1>6. SumFunction(g) \in Int /\ At(g, x) \in Int /\ SumFunction(g) = At(g, x) + m
  BY <1>5, SumRest
<1> HIDE DEF m
<1> QED  BY <1>4, <1>6

\* The same function has the same sum.
LEMMA SumStays ==
  ASSUME NEW f, NEW g, Summable(f), DOMAIN f = DOMAIN g, \A x \in DOMAIN f : f[x] = g[x]
  PROVE  SumFunction(g) = SumFunction(f)
BY SumSame DEF SumFunction, Summable

\* The sum of no more than one value.
LEMMA SumOfOne ==
  ASSUME NEW f, Summable(f), NEW x, DOMAIN f \subseteq {x}
  PROVE  SumFunction(f) = At(f, x)
<1>1. DOMAIN f \ {x} = {}  OBVIOUS
<1>2. SumFunctionOnSet(f, {}) = 0  BY FS_EmptySet, SumChosen
<1> QED  BY <1>1, <1>2, SumRest

\* The sum of no more than two values.
LEMMA SumOfTwo ==
  ASSUME NEW f, Summable(f), NEW x, NEW y, x # y, DOMAIN f \subseteq {x, y}
  PROVE  SumFunction(f) = At(f, x) + At(f, y)
<1> DEFINE g == [z \in DOMAIN f \ {x} |-> f[z]]
<1>1. Summable(g) /\ DOMAIN g = DOMAIN f \ {x}  BY FS_Subset DEF Summable
<1>2. DifferAt(f, g, x) /\ At(g, x) = 0 /\ At(g, y) = At(f, y)  BY DEF DifferAt, At
<1>3. DOMAIN g \subseteq {y}  BY <1>1
<1> HIDE DEF g
<1>4. SumFunction(g) = At(f, y)  BY <1>1, <1>2, <1>3, SumOfOne
<1>5. SumFunction(g) = SumFunction(f) + At(g, x) - At(f, x) /\ SumFunction(f) \in Int
  BY <1>1, <1>2, SumChange
<1>6. At(f, x) \in Int /\ At(f, y) \in Int  BY SumRest
<1> QED  BY <1>2, <1>4, <1>5, <1>6

\* Where all but one value are zero.
LEMMA SumOnly ==
  ASSUME NEW f, Summable(f), NEW x, \A y \in DOMAIN f \ {x} : f[y] = 0
  PROVE  SumFunction(f) = At(f, x)
<1>1. IsFiniteSet(DOMAIN f \ {x})  BY FS_Subset DEF Summable
<1>2. SumFunctionOnSet(f, DOMAIN f \ {x}) = 0  BY <1>1, SumZero
<1> QED  BY <1>2, SumRest

\* What changes three values changes the sum by as much as the three.
LEMMA SumMoves ==
  ASSUME NEW f, NEW g, Summable(f), Summable(g), DOMAIN f = DOMAIN g,
         NEW x, NEW y, NEW z, x # y, x # z, y # z,
         \A w \in DOMAIN f \ {x, y, z} : f[w] = g[w]
  PROVE  /\ SumFunction(f) \in Int /\ SumFunction(g) \in Int
         /\ SumFunction(g) = SumFunction(f) + (At(g, x) - At(f, x)) + (At(g, y) - At(f, y))
                               + (At(g, z) - At(f, z))
<1> DEFINE h == [w \in DOMAIN f |-> IF w = x THEN g[w] ELSE f[w]]
           k == [w \in DOMAIN f |-> IF w \in {x, y} THEN g[w] ELSE f[w]]
<1>1. Summable(h) /\ Summable(k)  BY DEF Summable
<1>2. DifferAt(f, h, x) /\ DifferAt(h, k, y) /\ DifferAt(k, g, z)  BY DEF DifferAt
<1>3. /\ At(h, x) = At(g, x) /\ At(h, y) = At(f, y) /\ At(k, y) = At(g, y)
      /\ At(k, z) = At(f, z)
  BY DEF At
<1> HIDE DEF h, k
<1>4. SumFunction(f) \in Int /\ SumFunction(h) = SumFunction(f) + At(h, x) - At(f, x)
  BY <1>1, <1>2, SumChange
<1>5. SumFunction(h) \in Int /\ SumFunction(k) = SumFunction(h) + At(k, y) - At(h, y)
  BY <1>1, <1>2, SumChange
<1>6. SumFunction(k) \in Int /\ SumFunction(g) \in Int
      /\ SumFunction(g) = SumFunction(k) + At(g, z) - At(k, z)
  BY <1>1, <1>2, SumChange
<1>7. At(f, x) \in Int /\ At(f, y) \in Int /\ At(f, z) \in Int  BY SumRest
<1>8. At(g, x) \in Int /\ At(g, y) \in Int /\ At(g, z) \in Int  BY SumRest
<1> QED  BY <1>3, <1>4, <1>5, <1>6, <1>7, <1>8

\* Two members of a sum of natural numbers are together no more than it.
LEMMA SumCovers ==
  ASSUME NEW f, Summable(f), \A z \in DOMAIN f : f[z] >= 0, NEW x \in DOMAIN f, NEW y
  PROVE  /\ f[x] <= SumFunction(f)
         /\ y \in DOMAIN f /\ y # x => f[x] + f[y] <= SumFunction(f)
<1> DEFINE g == [z \in DOMAIN f \ {x} |-> f[z]]
<1>1. Summable(g) /\ DOMAIN g = DOMAIN f \ {x}  BY FS_Subset DEF Summable
<1>2. DifferAt(f, g, x) /\ At(g, x) = 0 /\ At(f, x) = f[x]  BY DEF DifferAt, At
<1>3. \A z \in DOMAIN g : g[z] = f[z] /\ g[z] \in Nat  BY <1>1 DEF Summable
<1>4. f[x] \in Int /\ \A z \in DOMAIN f : f[z] \in Int  BY DEF Summable
<1> HIDE DEF g
<1>5. SumFunction(g) = SumFunction(f) - f[x] /\ SumFunction(f) \in Int
  BY <1>1, <1>2, <1>4, SumChange
<1>6. SumFunctionOnSet(g, DOMAIN g \ {y}) \in Nat /\ SumFunction(g) \in Nat
  <2>1. IsFiniteSet(DOMAIN g \ {y}) /\ IsFiniteSet(DOMAIN g)  BY <1>1, FS_Subset DEF Summable
  <2> QED  BY <2>1, <1>3, SumNat DEF SumFunction
<1>7. SumFunction(g) = At(g, y) + SumFunctionOnSet(g, DOMAIN g \ {y})  BY <1>1, SumRest
<1>8. CASE y \in DOMAIN f /\ y # x
  <2>1. y \in DOMAIN g  BY <1>1, <1>8
  <2>2. At(g, y) = f[y]  BY <2>1, <1>3 DEF At
  <2> QED  BY <1>4, <1>5, <1>6, <1>7, <1>8, <2>2
<1>9. CASE ~(y \in DOMAIN f /\ y # x)  BY <1>4, <1>5, <1>6, <1>9
<1> QED  BY <1>8, <1>9

-----------------------------------------------------------------------------
(***************************************************************************)
(* What a committed command does to the money, in one of six shapes.       *)
(***************************************************************************)
\* One operation id is used up, and with it one receipt is written.
Writes(op) ==
  /\ op \in Ops /\ receipts[op].outcome = "NONE" /\ receipts'[op].outcome # "NONE"
  /\ \A x \in Ops \ {op} : receipts'[x] = receipts[x]

NoTransfer(op) == receipts'[op].outcome = "REJECTED" \/ receipts'[op].request \notin Transfers

\* A rejected command, or one about controls.
Idle(op) == NoTransfer(op) /\ UNCHANGED <<owner, balance, hold, usage, journal>>

\* A new account, which had nothing on it.
Opens(op, a) ==
  /\ NoTransfer(op) /\ a \in Accounts /\ ~Exists(a)
  /\ owner'[a] # NoOwner /\ \A x \in Accounts \ {a} : owner'[x] = owner[x]
  /\ balance' = [balance EXCEPT ![a] = NewBalance]
  /\ UNCHANGED <<hold, usage, journal>>

\* An applied transfer on day b.
Pays(op, r, b) ==
  /\ r \in Transfers /\ b \in Buckets
  /\ receipts'[op] = Receipt("APPLIED", NoReason, r, b)
  /\ journal' = [journal EXCEPT ![op] = TransferLines(r.terms)]
  /\ balance' = PostAll(balance, TransferLines(r.terms))
  /\ usage' = [usage EXCEPT ![<<owner[r.terms.source], b>>] =
                 AdmitUsage(@, r.terms.principal, FALSE)]
  /\ UNCHANGED <<owner, hold>>

\* An applied reservation on day b.
Encumbers(op, r, b) ==
  /\ r \in Reserves /\ b \in Buckets /\ NoTransfer(op)
  /\ balance' = [balance EXCEPT ![r.terms.source] = Touched(Reserve(@, Total(r.terms))),
                                ![r.pool] = Touched(Reserve(@, r.terms.principal))]
  /\ r.hold \in Holds /\ hold[r.hold].state = "ABSENT"
  /\ hold' = [hold EXCEPT ![r.hold] =
       [state |-> "RESERVED", version |-> 1, reserve |-> r, owner |-> owner[r.terms.source],
        bucket |-> b]]
  /\ usage' = [usage EXCEPT ![<<owner[r.terms.source], b>>] =
                 AdmitUsage(@, r.terms.principal, TRUE)]
  /\ UNCHANGED <<owner, journal>>

\* A hold moves on and keeps what was agreed.
Moves(op, h, state) ==
  /\ NoTransfer(op) /\ h \in Holds /\ Outstanding(h)
  /\ hold'[h].state = state /\ hold'[h].version = hold[h].version + 1
  /\ hold'[h].reserve = hold[h].reserve
  /\ hold'[h].owner = hold[h].owner /\ hold'[h].bucket = hold[h].bucket
  /\ \A i \in Holds \ {h} : hold'[i] = hold[i]
  /\ UNCHANGED owner

\* Exposed, captured, released.
Shows(op, h) ==
  /\ hold[h].state = "RESERVED" /\ Moves(op, h, "EXPOSED")
  /\ UNCHANGED <<balance, usage, journal>>
Settles(op, h) ==
  /\ hold[h].state = "EXPOSED" /\ Moves(op, h, "CAPTURED") /\ ~ResolveFaults(h, TRUE)
  /\ journal' = [journal EXCEPT ![op] = HoldLines(h)]
  /\ balance' = PostAll(Unencumbered(h), HoldLines(h))
  /\ SettleUsage(h, TRUE)
GivesBack(op, h) ==
  /\ Moves(op, h, "RELEASED") /\ ~ResolveFaults(h, FALSE)
  /\ balance' = [a \in Accounts |->
       IF a \in {hold[h].reserve.terms.source, hold[h].reserve.pool}
       THEN Touched(Unencumbered(h)[a]) ELSE balance[a]]
  /\ SettleUsage(h, FALSE)
  /\ UNCHANGED journal

Shape(op) ==
  \/ Idle(op)
  \/ \E a \in Accounts : Opens(op, a)
  \/ \E r \in Transfers, now \in Times :
       TransferVerdict(r, now) = "APPLIED" /\ Pays(op, r, Bucket(now))
  \/ \E r \in Reserves, now \in Times :
       ReserveVerdict(r, now) = "APPLIED" /\ Encumbers(op, r, Bucket(now))
  \/ \E h \in Holds : Shows(op, h)
  \/ \E h \in Holds : Settles(op, h)
  \/ \E h \in Holds : GivesBack(op, h)

\* An applied command uses up its operation id.
LEMMA RecordWrites ==
  ASSUME LedgerInv, NEW r \in Requests, receipts[r.op].outcome = "NONE", NEW b, Record(r, b)
  PROVE  /\ Writes(r.op) /\ receipts'[r.op] = Receipt("APPLIED", NoReason, r, b)
         /\ r \notin Transfers => NoTransfer(r.op)
<1>1. r.op \in Ops /\ r.op \in DOMAIN receipts  BY RequestOps DEF LedgerInv, TypeOK
<1>2. receipts'[r.op] = Receipt("APPLIED", NoReason, r, b)  BY <1>1 DEF Record
<1>3. receipts'[r.op].outcome = "APPLIED" /\ receipts'[r.op].request = r
  BY <1>2 DEF Receipt
<1>4. \A x \in Ops \ {r.op} : receipts'[x] = receipts[x]  BY RecordEffect
<1> QED  BY <1>1, <1>2, <1>3, <1>4 DEF Writes, NoTransfer

\* So does a rejected one.
LEMMA RejectShape ==
  ASSUME LedgerInv, NEW r \in Requests, receipts[r.op].outcome = "NONE", NEW v, Reject(r, v)
  PROVE  Writes(r.op) /\ Shape(r.op)
<1>1. /\ receipts'[r.op].outcome = "REJECTED"
      /\ \A x \in Ops \ {r.op} : receipts'[x] = receipts[x]
      /\ UNCHANGED <<owner, control, hold, balance, usage, journal>>
  BY RejectEffect
<1>2. r.op \in Ops  BY RequestOps
<1>3. Writes(r.op)  BY <1>1, <1>2 DEF Writes
<1>4. Idle(r.op)  BY <1>1 DEF Idle, NoTransfer
<1> QED  BY <1>3, <1>4 DEF Shape

\* A new account opens with nothing on it.
LEMMA CreateShape ==
  ASSUME LedgerInv, NEW r \in Creates, CreateAccount(r)
  PROVE  Writes(r.op) /\ Shape(r.op)
<1>1. r \in Requests /\ r \notin Transfers  BY KindsDiffer DEF Requests
<1>2. receipts[r.op].outcome = "NONE"  BY DEF CreateAccount, Fresh
<1>3. CASE Reject(r, CreateVerdict(r))  BY <1>1, <1>2, <1>3, RejectShape
<1>4. CASE CreateVerdict(r) = "APPLIED" /\ ~Reject(r, CreateVerdict(r))
  <2>1. /\ balance' = [balance EXCEPT ![r.account] = NewBalance]
        /\ Record(r, NoBucket) /\ UNCHANGED <<hold, usage, journal>>
    BY <1>4 DEF CreateAccount
  <2>2. ~Exists(r.account)  BY <1>4 DEF CreateVerdict
  <2>3. r.account \in Accounts  BY RequestAssumption DEF CreateRequest
  <2>4. Writes(r.op) /\ NoTransfer(r.op)  BY <1>1, <1>2, <2>1, RecordWrites
  <2>5. owner'[r.account] # NoOwner /\ \A x \in Accounts \ {r.account} : owner'[x] = owner[x]
    <3>1. owner' = [owner EXCEPT ![r.account] = r.owner]  BY <1>4 DEF CreateAccount
    <3>2. r.owner \in Owners  BY RequestAssumption DEF CreateRequest
    <3> QED  BY <2>3, <3>1, <3>2, IdAssumption DEF LedgerInv, TypeOK
  <2>6. Opens(r.op, r.account)  BY <2>1, <2>2, <2>3, <2>4, <2>5 DEF Opens
  <2> QED  BY <2>3, <2>4, <2>6 DEF Shape
<1> QED  BY <1>3, <1>4 DEF CreateAccount

\* A control update moves nothing.
LEMMA SetControlShape ==
  ASSUME LedgerInv, NEW r \in SetControls, SetAccountControl(r)
  PROVE  Writes(r.op) /\ Shape(r.op)
<1>1. r \in Requests /\ r \notin Transfers  BY KindsDiffer DEF Requests
<1>2. receipts[r.op].outcome = "NONE"  BY DEF SetAccountControl, Fresh
<1>3. CASE Reject(r, SetControlVerdict(r))  BY <1>1, <1>2, <1>3, RejectShape
<1>4. CASE ~Reject(r, SetControlVerdict(r))
  <2>1. Record(r, NoBucket) /\ UNCHANGED <<owner, hold, balance, usage, journal>>
    BY <1>4 DEF SetAccountControl, money
  <2>2. Writes(r.op) /\ NoTransfer(r.op)  BY <1>1, <1>2, <2>1, RecordWrites
  <2>3. Idle(r.op)  BY <2>1, <2>2 DEF Idle
  <2> QED  BY <2>2, <2>3 DEF Shape
<1> QED  BY <1>3, <1>4

\* A transfer posts under its own operation.
LEMMA TransferShape ==
  ASSUME LedgerInv, NEW r \in Transfers, NEW now \in Times, TransferInternal(r, now)
  PROVE  Writes(r.op) /\ Shape(r.op)
<1>1. r \in Requests  BY DEF Requests
<1>2. receipts[r.op].outcome = "NONE"  BY DEF TransferInternal, Fresh
<1>3. CASE RejectAdmission(r, TransferVerdict(r, now))
  BY <1>1, <1>2, <1>3, RejectShape DEF RejectAdmission
<1>4. CASE ~RejectAdmission(r, TransferVerdict(r, now))
  <2>1. /\ TransferVerdict(r, now) = "APPLIED"
        /\ journal' = [journal EXCEPT ![r.op] = TransferLines(r.terms)]
        /\ balance' = PostAll(balance, TransferLines(r.terms))
        /\ usage' = [usage EXCEPT ![<<owner[r.terms.source], Bucket(now)>>] =
                       AdmitUsage(@, r.terms.principal, FALSE)]
        /\ Record(r, Bucket(now)) /\ UNCHANGED <<owner, hold>>
    BY <1>4 DEF TransferInternal
  <2>2. Writes(r.op) /\ receipts'[r.op] = Receipt("APPLIED", NoReason, r, Bucket(now))
    BY <1>1, <1>2, <2>1, RecordWrites
  <2>3. Pays(r.op, r, Bucket(now))  BY <2>1, <2>2, BucketType DEF Pays
  <2> QED  BY <2>1, <2>2, <2>3 DEF Shape
<1> QED  BY <1>3, <1>4

\* A reservation takes a hold id nobody has.
LEMMA ReserveShape ==
  ASSUME LedgerInv, NEW r \in Reserves, NEW now \in Times, ReservePayout(r, now)
  PROVE  Writes(r.op) /\ Shape(r.op)
<1>1. r \in Requests /\ r \notin Transfers  BY KindsDiffer DEF Requests
<1>2. receipts[r.op].outcome = "NONE"  BY DEF ReservePayout, Fresh
<1>3. CASE RejectAdmission(r, ReserveVerdict(r, now))
  BY <1>1, <1>2, <1>3, RejectShape DEF RejectAdmission
<1>4. CASE ~RejectAdmission(r, ReserveVerdict(r, now))
  <2>1. /\ ReserveVerdict(r, now) = "APPLIED"
        /\ balance' = [balance EXCEPT
             ![r.terms.source] = Touched(Reserve(@, Total(r.terms))),
             ![r.pool] = Touched(Reserve(@, r.terms.principal))]
        /\ hold' = [hold EXCEPT ![r.hold] =
             [state |-> "RESERVED", version |-> 1, reserve |-> r, owner |-> owner[r.terms.source],
              bucket |-> Bucket(now)]]
        /\ usage' = [usage EXCEPT ![<<owner[r.terms.source], Bucket(now)>>] =
                       AdmitUsage(@, r.terms.principal, TRUE)]
        /\ Record(r, Bucket(now)) /\ UNCHANGED <<owner, journal>>
    BY <1>4 DEF ReservePayout
  <2>2. Writes(r.op) /\ NoTransfer(r.op)  BY <1>1, <1>2, <2>1, RecordWrites
  <2>3. ~HoldTaken(r)  BY <2>1 DEF ReserveVerdict
  <2>4. r.hold \in Holds  BY RequestAssumption DEF ReserveRequest
  <2>5. hold[r.hold].state = "ABSENT"  BY <2>3, <2>4 DEF HoldTaken
  <2>6. Encumbers(r.op, r, Bucket(now))  BY <2>1, <2>2, <2>4, <2>5, BucketType DEF Encumbers
  <2> QED  BY <2>1, <2>2, <2>6 DEF Shape
<1> QED  BY <1>3, <1>4

\* The commands on a hold keep what was agreed and use up their operation id.
LEMMA MoveHoldShape ==
  ASSUME LedgerInv, NEW r \in Exposes \cup Captures \cup Releases,
         NEW state \in {"EXPOSED", "CAPTURED", "RELEASED"}, receipts[r.op].outcome = "NONE",
         RefVerdict(r) = "APPLIED", MoveHold(r, state), hold[r.ref.hold].state \in {"RESERVED", "EXPOSED"},
         NEW b, Record(r, b), UNCHANGED owner
  PROVE  Writes(r.op) /\ Moves(r.op, r.ref.hold, state) /\ r.ref.hold \in Holds
<1>1. r \in Requests /\ r \notin Transfers  BY KindsDiffer DEF Requests
<1>2. Writes(r.op) /\ NoTransfer(r.op)  BY <1>1, RecordWrites
<1> DEFINE h == r.ref.hold
<1>3. /\ h \in Holds
      /\ hold'[h].state = state /\ hold'[h].reserve = hold[h].reserve
      /\ hold'[h].owner = hold[h].owner /\ hold'[h].bucket = hold[h].bucket
      /\ \A i \in Holds \ {h} : hold'[i] = hold[i]
  BY MoveHoldEffect
<1>4. hold'[h].version = hold[h].version + 1
  <2>1. hold \in [Holds -> Hold]  BY DEF LedgerInv, TypeOK
  <2>2. hold'[h] = MoveTo(hold[h], state)  BY <1>3, <2>1 DEF MoveHold
  <2>3. MoveTo(hold[h], state).version = hold[h].version + 1
    BY <1>3, <2>1, MoveToIs DEF HoldStates
  <2> QED  BY <2>2, <2>3
<1> QED  BY <1>2, <1>3, <1>4 DEF Moves, Outstanding

\* An exposure moves the hold and no money.
LEMMA ExposeShape ==
  ASSUME LedgerInv, NEW r \in Exposes, NEW now \in Times, NEW known \in BOOLEAN,
         MarkHoldExposed(r, now, known)
  PROVE  Writes(r.op) /\ Shape(r.op)
<1>1. r \in Requests  BY DEF Requests
<1>2. receipts[r.op].outcome = "NONE"  BY DEF MarkHoldExposed, Fresh
<1> DEFINE v == ExposeVerdict(r, now, known)
<1>3. CASE Reject(r, v)  BY <1>1, <1>2, <1>3, RejectShape
<1>4. CASE ~Reject(r, v)
  <2>1. /\ v = "APPLIED" /\ MoveHold(r, "EXPOSED") /\ Record(r, NoBucket)
        /\ UNCHANGED <<owner, balance, usage, journal>>
    BY <1>4 DEF MarkHoldExposed, money
  <2>2. RefVerdict(r) = "APPLIED" /\ hold[r.ref.hold].state = "RESERVED"
    BY <2>1 DEF ExposeVerdict
  <2>3. Writes(r.op) /\ Moves(r.op, r.ref.hold, "EXPOSED") /\ r.ref.hold \in Holds
    <3> HIDE DEF v
    <3> QED  BY <1>2, <2>1, <2>2, MoveHoldShape
  <2>4. Shows(r.op, r.ref.hold)  BY <2>1, <2>2, <2>3 DEF Shows
  <2> QED  BY <2>3, <2>4 DEF Shape
<1> QED  BY <1>3, <1>4

\* A capture is of a hold that ResolveFaults has nothing against.
LEMMA CaptureShape ==
  ASSUME LedgerInv, NEW r \in Captures, NEW now \in Times, CapturePayout(r, now)
  PROVE  Writes(r.op) /\ Shape(r.op)
<1>1. r \in Requests  BY DEF Requests
<1>2. receipts[r.op].outcome = "NONE"  BY DEF CapturePayout, Fresh
<1> DEFINE v == CaptureVerdict(r, now)
<1>3. CASE Reject(r, v)  BY <1>1, <1>2, <1>3, RejectShape
<1>4. CASE ~Reject(r, v)
  <2>1. /\ v = "APPLIED" /\ MoveHold(r, "CAPTURED") /\ Record(r, hold[r.ref.hold].bucket)
        /\ journal' = [journal EXCEPT ![r.op] = HoldLines(r.ref.hold)]
        /\ balance' = PostAll(Unencumbered(r.ref.hold), HoldLines(r.ref.hold))
        /\ SettleUsage(r.ref.hold, TRUE)
        /\ UNCHANGED owner
    BY <1>4 DEF CapturePayout
  <2>2. /\ RefVerdict(r) = "APPLIED" /\ hold[r.ref.hold].state = "EXPOSED"
        /\ ~ResolveFaults(r.ref.hold, TRUE)
    BY <2>1 DEF CaptureVerdict
  <2>3. Writes(r.op) /\ Moves(r.op, r.ref.hold, "CAPTURED") /\ r.ref.hold \in Holds
    <3> HIDE DEF v
    <3> QED  BY <1>2, <2>1, <2>2, MoveHoldShape
  <2>4. Settles(r.op, r.ref.hold)  BY <2>1, <2>2, <2>3 DEF Settles
  <2> QED  BY <2>3, <2>4 DEF Shape
<1> QED  BY <1>3, <1>4

\* So is a release.
LEMMA ReleaseShape ==
  ASSUME LedgerInv, NEW r \in Releases, NEW now \in Times, ReleasePayout(r, now)
  PROVE  Writes(r.op) /\ Shape(r.op)
<1>1. r \in Requests  BY DEF Requests
<1>2. receipts[r.op].outcome = "NONE"  BY DEF ReleasePayout, Fresh
<1> DEFINE v == ReleaseVerdict(r, now)
<1>3. CASE Reject(r, v)  BY <1>1, <1>2, <1>3, RejectShape
<1>4. CASE ~Reject(r, v)
  <2>1. /\ v = "APPLIED" /\ MoveHold(r, "RELEASED") /\ Record(r, hold[r.ref.hold].bucket)
        /\ balance' = [a \in Accounts |->
             IF a \in {hold[r.ref.hold].reserve.terms.source, hold[r.ref.hold].reserve.pool}
             THEN Touched(Unencumbered(r.ref.hold)[a]) ELSE balance[a]]
        /\ SettleUsage(r.ref.hold, FALSE)
        /\ UNCHANGED <<owner, journal>>
    BY <1>4 DEF ReleasePayout
  <2>2. /\ RefVerdict(r) = "APPLIED" /\ hold[r.ref.hold].state \in {"RESERVED", "EXPOSED"}
        /\ ~ResolveFaults(r.ref.hold, FALSE)
    BY <2>1 DEF ReleaseVerdict
  <2>3. Writes(r.op) /\ Moves(r.op, r.ref.hold, "RELEASED") /\ r.ref.hold \in Holds
    <3> HIDE DEF v
    <3> QED  BY <1>2, <2>1, <2>2, MoveHoldShape
  <2>4. GivesBack(r.op, r.ref.hold)  BY <2>1, <2>2, <2>3 DEF GivesBack
  <2> QED  BY <2>3, <2>4 DEF Shape
<1> QED  BY <1>3, <1>4

\* Every command has one of the shapes.
LEMMA NextShape ==
  ASSUME LedgerInv, Next
  PROVE  \E op \in Ops : Writes(op) /\ Shape(op)
<1>1. ASSUME NEW r, Writes(r.op), Shape(r.op) PROVE \E op \in Ops : Writes(op) /\ Shape(op)
  BY <1>1 DEF Writes
<1> HIDE DEF Writes, Shape
<1>2. CASE \E r \in Creates : CreateAccount(r)  BY <1>1, <1>2, CreateShape
<1>3. CASE \E r \in SetControls : SetAccountControl(r)  BY <1>1, <1>3, SetControlShape
<1>4. CASE \E r \in Transfers, now \in Times : TransferInternal(r, now)
  BY <1>1, <1>4, TransferShape
<1>5. CASE \E r \in Reserves, now \in Times : ReservePayout(r, now)
  BY <1>1, <1>5, ReserveShape
<1>6. CASE \E r \in Exposes, now \in Times, known \in BOOLEAN : MarkHoldExposed(r, now, known)
  BY <1>1, <1>6, ExposeShape
<1>7. CASE \E r \in Captures, now \in Times : CapturePayout(r, now)
  BY <1>1, <1>7, CaptureShape
<1>8. CASE \E r \in Releases, now \in Times : ReleasePayout(r, now)
  BY <1>1, <1>8, ReleaseShape
<1> QED  BY <1>2, <1>3, <1>4, <1>5, <1>6, <1>7, <1>8 DEF Next

-----------------------------------------------------------------------------
(***************************************************************************)
(* Balances and the journals and holds they sum.                           *)
(***************************************************************************)
\* A journal is written with its receipt, and has finitely many lines.
JournalsRecorded ==
  \A x \in Ops : IsFiniteSet(journal[x]) /\ (receipts[x].outcome = "NONE" => journal[x] = {})

\* The lines of a journal on one account.
LinesOf(lines, a) == {l \in lines : l.account = a}

\* A side of finitely many lines has a total.
LEMMA SideTotalNat ==
  ASSUME NEW lines \in SUBSET JournalLine, IsFiniteSet(lines), NEW side
  PROVE  SideTotal(lines, side) \in Nat
<1> DEFINE f == [l \in {m \in lines : m.side = side} |-> l.amount]
<1>1. IsFiniteSet(DOMAIN f)  BY FS_Subset
<1>2. \A l \in DOMAIN f : f[l] \in Nat  BY BoundsAssumption DEF JournalLine, Amounts
<1> HIDE DEF f
<1>3. SumFunctionOnSet(f, DOMAIN f) \in Nat  BY <1>1, <1>2, SumNat
<1> QED  BY <1>3 DEF SideTotal, SumFunction, f

\* What the lines of a spend say of an account, whatever the journal says of others.
LEMMA PostingsOf ==
  ASSUME NEW source \in Accounts, NEW payee \in Accounts, NEW feeAccount \in Accounts,
         source # payee, source # feeAccount, payee # feeAccount,
         NEW principal \in Nat, NEW fee \in Nat, NEW a \in Accounts
  PROVE  LET lines == LinesOf(Postings(source, payee, feeAccount, principal, fee), a)
         IN  /\ SideTotal(lines, "DEBIT") = IF a = source THEN principal + fee ELSE 0
             /\ SideTotal(lines, "CREDIT") = IF a = payee THEN principal
                                             ELSE IF a = feeAccount THEN fee ELSE 0
<1> DEFINE all == Postings(source, payee, feeAccount, principal, fee)
           lines == LinesOf(all, a)
           D == {m \in lines : m.side = "DEBIT"}
           C == {m \in lines : m.side = "CREDIT"}
           d == [l \in D |-> l.amount]
           c == [l \in C |-> l.amount]
           earned == IF a = payee THEN principal ELSE fee
           x == Line(a, "DEBIT", principal + fee)
           y == Line(a, "CREDIT", earned)
<1>1. \A l \in all : \/ l = Line(source, "DEBIT", principal + fee)
                     \/ l = Line(payee, "CREDIT", principal)
                     \/ l = Line(feeAccount, "CREDIT", fee)
  BY DEF Postings
<1>2. \A b, side, n : /\ Line(b, side, n).account = b /\ Line(b, side, n).side = side
                      /\ Line(b, side, n).amount = n
  BY DEF Line
<1>3. /\ Line(source, "DEBIT", principal + fee) \in all
      /\ Line(payee, "CREDIT", principal) \in all
      /\ fee # 0 => Line(feeAccount, "CREDIT", fee) \in all
      /\ fee = 0 => all = {Line(source, "DEBIT", principal + fee), Line(payee, "CREDIT", principal)}
  BY DEF Postings
<1> HIDE DEF all
<1>4. D \subseteq {x} /\ (x \in D <=> a = source)
  BY <1>1, <1>2, <1>3 DEF LinesOf
<1>5. C \subseteq {y} /\ (y \in C <=> a = payee \/ (a = feeAccount /\ fee # 0))
  BY <1>1, <1>2, <1>3 DEF LinesOf
<1>6. x.amount = principal + fee /\ y.amount = earned  BY <1>2
<1>7. earned \in Nat  OBVIOUS
<1> HIDE DEF x, y, D, C, earned
<1>8. Summable(d) /\ Summable(c)
  <2>1. IsFiniteSet(D) /\ IsFiniteSet(C)  BY <1>4, <1>5, FS_Singleton, FS_Subset
  <2> QED  BY <2>1, <1>4, <1>5, <1>6, <1>7 DEF Summable
<1>9. SumFunction(d) = IF a = source THEN principal + fee ELSE 0
  <2>1. DOMAIN d \subseteq {x} /\ At(d, x) = IF a = source THEN principal + fee ELSE 0
    BY <1>4, <1>6 DEF At
  <2> HIDE DEF d
  <2> QED  BY <2>1, <1>8, SumOfOne
<1>10. SumFunction(c) = IF a = payee THEN principal ELSE IF a = feeAccount THEN fee ELSE 0
  <2>1. DOMAIN c \subseteq {y} /\ At(c, y) = IF a = payee \/ (a = feeAccount /\ fee # 0)
                                             THEN earned ELSE 0
    BY <1>5, <1>6 DEF At
  <2> HIDE DEF c
  <2>2. SumFunction(c) = At(c, y)  BY <2>1, <1>8, SumOfOne
  <2> QED  BY <2>1, <2>2 DEF earned
<1> QED  BY <1>9, <1>10 DEF SideTotal, D, C, all

\* Journals are sets of lines, and so are the ones a spend adds.
LEMMA PostingsFinite ==
  ASSUME NEW source, NEW payee, NEW feeAccount, NEW principal, NEW fee
  PROVE  IsFiniteSet(Postings(source, payee, feeAccount, principal, fee))
<1> DEFINE S == {Line(source, "DEBIT", principal + fee), Line(payee, "CREDIT", principal),
                 Line(feeAccount, "CREDIT", fee)}
<1>1. S = ({Line(source, "DEBIT", principal + fee)} \cup {Line(payee, "CREDIT", principal)})
            \cup {Line(feeAccount, "CREDIT", fee)}
  OBVIOUS
<1>2. IsFiniteSet(S)
  <2>1. \A u, v, w : IsFiniteSet(({u} \cup {v}) \cup {w})
    <3>1. \A u, v : IsFiniteSet({u} \cup {v})  BY FS_Singleton, FS_Union
    <3> QED  BY <3>1, FS_Singleton, FS_Union
  <2> HIDE DEF S
  <2> QED  BY <1>1, <2>1
<1>3. Postings(source, payee, feeAccount, principal, fee) \subseteq S  BY DEF Postings
<1> HIDE DEF S
<1> QED  BY <1>2, <1>3, FS_Subset

\* A journal that is added counts on each account for what its lines say.
LEMMA JournalAdds ==
  ASSUME LedgerInv, LedgerInv', JournalsRecorded, NEW op \in Ops, journal[op] = {}, NEW lines,
         IsFiniteSet(lines), journal' = [journal EXCEPT ![op] = lines], NEW a \in Accounts, NEW side
  PROVE  /\ JournalTotal(a, side) \in Int
         /\ JournalTotal(a, side)' = JournalTotal(a, side) + SideTotal(LinesOf(lines, a), side)
         /\ SideTotal(LinesOf(lines, a), side) \in Nat
<1> DEFINE f == [x \in Ops |-> SideTotal(LinesOf(journal[x], a), side)]
           g == [x \in Ops |-> SideTotal(LinesOf(journal'[x], a), side)]
<1>1. journal \in [Ops -> SUBSET JournalLine] /\ journal' \in [Ops -> SUBSET JournalLine]
  BY DEF LedgerInv, TypeOK
<1>2. journal'[op] = lines /\ \A x \in Ops \ {op} : journal'[x] = journal[x]  BY <1>1
<1>3. \A x \in Ops : IsFiniteSet(journal[x]) /\ IsFiniteSet(journal'[x])
  BY <1>2 DEF JournalsRecorded
<1>4. ASSUME NEW j \in SUBSET JournalLine, IsFiniteSet(j)
      PROVE  SideTotal(LinesOf(j, a), side) \in Nat
  <2>1. LinesOf(j, a) \in SUBSET JournalLine /\ IsFiniteSet(LinesOf(j, a))
    BY <1>4, FS_Subset DEF LinesOf
  <2> QED  BY <2>1, SideTotalNat
<1>5. Summable(f) /\ Summable(g)
  <2>1. \A x \in Ops : f[x] \in Nat /\ g[x] \in Nat  BY <1>1, <1>3, <1>4
  <2> HIDE DEF f, g
  <2>2. DOMAIN f = Ops /\ DOMAIN g = Ops  BY DEF f, g
  <2> QED  BY <2>1, <2>2, FiniteAssumption DEF Summable
<1>6. DifferAt(f, g, op)  BY <1>2 DEF DifferAt
<1>7. At(f, op) = 0
  <2>1. At(f, op) = SideTotal({}, side)  BY DEF At, LinesOf
  <2> DEFINE e == [l \in {m \in {} : m.side = side} |-> l.amount]
  <2>2. DOMAIN e = {} /\ At(e, 0) = 0  BY DEF At
  <2>3. Summable(e)  BY <2>2, FS_EmptySet DEF Summable
  <2> HIDE DEF e
  <2>4. SumFunction(e) = 0  BY <2>2, <2>3, SumOfOne
  <2> QED  BY <2>1, <2>4 DEF SideTotal, e
<1>8. At(g, op) = SideTotal(LinesOf(lines, a), side)  BY <1>2 DEF At
<1>9. SideTotal(LinesOf(lines, a), side) \in Nat  BY <1>1, <1>2, <1>4
<1> HIDE DEF f, g
<1>10. SumFunction(f) \in Int /\ SumFunction(g) = SumFunction(f) + At(g, op) - At(f, op)
  BY <1>5, <1>6, SumChange
<1>11. JournalTotal(a, side) = SumFunction(f) /\ JournalTotal(a, side)' = SumFunction(g)
  BY DEF JournalTotal, LinesOf, f, g
<1> QED  BY <1>7, <1>8, <1>9, <1>10, <1>11

\* What a hold encumbers an account with, while it is outstanding.
Encumbrance(h, a) ==
  IF ~Outstanding(h) THEN 0
  ELSE IF hold[h].reserve.terms.source = a THEN HoldTotal(h)
  ELSE IF hold[h].reserve.pool = a THEN hold[h].reserve.terms.principal ELSE 0

\* The amounts of an outstanding hold are numbers.
LEMMA HoldAmounts ==
  ASSUME LedgerInv, NEW h \in Holds, hold[h].state # "ABSENT"
  PROVE  /\ hold[h].reserve.terms.principal \in Nat /\ hold[h].reserve.terms.fee \in Nat
         /\ HoldTotal(h) \in Nat
         /\ hold[h].reserve.terms.source # hold[h].reserve.pool
BY HoldFacts

\* What is held on an account has a sum, in which each hold counts for what it encumbers.
HeldParts(a) ==
  LET f == [h \in HoldsOn(a) |-> HoldTotal(h)]
      g == [h \in HoldsFrom(a) |-> hold[h].reserve.terms.principal]
  IN  /\ Summable(f) /\ Summable(g)
      /\ \A h \in HoldsOn(a) : HoldTotal(h) \in Nat
      /\ \A h \in HoldsFrom(a) : hold[h].reserve.terms.principal \in Nat
      /\ \A h \in Holds : At(f, h) + At(g, h) = Encumbrance(h, a)

\* Holds are finitely many, and source and pool are two accounts.
LEMMA HeldSums == LedgerInv => \A a \in Accounts : HeldParts(a)
<1> SUFFICES ASSUME LedgerInv, NEW a \in Accounts PROVE HeldParts(a)  OBVIOUS
<1>1. IsFiniteSet(HoldsOn(a)) /\ IsFiniteSet(HoldsFrom(a))
  <2>1. HoldsOn(a) \subseteq Holds /\ HoldsFrom(a) \subseteq Holds  BY DEF HoldsOn, HoldsFrom
  <2> QED  BY <2>1, FiniteAssumption, FS_Subset
<1>2. \A h \in Holds : Outstanding(h) => hold[h].state # "ABSENT"  BY DEF Outstanding
<1>3. \A h \in HoldsOn(a) : HoldTotal(h) \in Nat  BY <1>2, HoldAmounts DEF HoldsOn
<1>4. \A h \in HoldsFrom(a) : hold[h].reserve.terms.principal \in Nat
  BY <1>2, HoldAmounts DEF HoldsFrom
<1>5. ASSUME NEW h \in Holds
      PROVE  At([i \in HoldsOn(a) |-> HoldTotal(i)], h)
               + At([i \in HoldsFrom(a) |-> hold[i].reserve.terms.principal], h)
             = Encumbrance(h, a)
  <2> DEFINE f == [i \in HoldsOn(a) |-> HoldTotal(i)]
             g == [i \in HoldsFrom(a) |-> hold[i].reserve.terms.principal]
  <2>1. At(f, h) = IF h \in HoldsOn(a) THEN HoldTotal(h) ELSE 0  BY DEF At
  <2>2. At(g, h) = IF h \in HoldsFrom(a) THEN hold[h].reserve.terms.principal ELSE 0  BY DEF At
  <2> HIDE DEF f, g
  <2>3. CASE ~Outstanding(h)
    <3>1. h \notin HoldsOn(a) /\ h \notin HoldsFrom(a)  BY <2>3 DEF HoldsOn, HoldsFrom
    <3>2. Encumbrance(h, a) = 0  BY <2>3 DEF Encumbrance
    <3>3. At(f, h) + At(g, h) = Encumbrance(h, a)  BY <2>1, <2>2, <3>1, <3>2
    <3> QED  BY <3>3 DEF f, g
  <2>4. CASE Outstanding(h)
    <3>1. /\ hold[h].reserve.terms.principal \in Nat /\ HoldTotal(h) \in Nat
          /\ hold[h].reserve.terms.source # hold[h].reserve.pool
      BY <1>2, <2>4, HoldAmounts
    <3>2. /\ h \in HoldsOn(a) <=> hold[h].reserve.terms.source = a
          /\ h \in HoldsFrom(a) <=> hold[h].reserve.pool = a
      BY <2>4 DEF HoldsOn, HoldsFrom
    <3>3. At(f, h) + At(g, h) = Encumbrance(h, a)
      BY <2>1, <2>2, <2>4, <3>1, <3>2 DEF Encumbrance
    <3> QED  BY <3>3 DEF f, g
  <2> QED  BY <2>3, <2>4
<1> QED  BY <1>1, <1>3, <1>4, <1>5 DEF Summable, HeldParts

\* The same of the book after a step.
LEMMA HeldSumsNext == LedgerInv' => (\A a \in Accounts : HeldParts(a))'
BY HeldSums, PTL

\* A step that changes one hold changes what is held by what that hold encumbers.
LEMMA HeldChange ==
  ASSUME LedgerInv, LedgerInv', NEW h \in Holds, \A i \in Holds \ {h} : hold'[i] = hold[i],
         NEW a \in Accounts
  PROVE  /\ HeldOn(a) \in Int
         /\ HeldOn(a)' = HeldOn(a) + Encumbrance(h, a)' - Encumbrance(h, a)
<1> DEFINE f == [i \in HoldsOn(a) |-> HoldTotal(i)]
           g == [i \in HoldsFrom(a) |-> hold[i].reserve.terms.principal]
           F == f'
           G == g'
<1>1. Summable(f) /\ Summable(g) /\ At(f, h) + At(g, h) = Encumbrance(h, a)
  BY HeldSums DEF HeldParts
<1>2. Summable(F) /\ Summable(G) /\ At(F, h) + At(G, h) = Encumbrance(h, a)'
  <2>2. HeldParts(a)'  BY HeldSumsNext
  <2> QED  BY <2>2 DEF HeldParts, Summable, At
<1>3. \A i \in Holds \ {h} : /\ i \in HoldsOn(a)' <=> i \in HoldsOn(a)
                             /\ i \in HoldsFrom(a)' <=> i \in HoldsFrom(a)
                             /\ HoldTotal(i)' = HoldTotal(i)
  BY DEF HoldsOn, HoldsFrom, Outstanding, HoldTotal
<1>4. HoldsOn(a) \subseteq Holds /\ HoldsFrom(a) \subseteq Holds
      /\ HoldsOn(a)' \subseteq Holds /\ HoldsFrom(a)' \subseteq Holds
  BY DEF HoldsOn, HoldsFrom
<1>5. DifferAt(f, F, h)  BY <1>3, <1>4 DEF DifferAt
<1>6. DifferAt(g, G, h)  BY <1>3, <1>4 DEF DifferAt
<1>7. HeldOn(a) = SumFunction(f) + SumFunction(g) /\ HeldOn(a)' = SumFunction(F) + SumFunction(G)
  BY DEF HeldOn
<1> HIDE DEF f, g, F, G
<1>8. SumFunction(f) \in Int /\ SumFunction(F) = SumFunction(f) + At(F, h) - At(f, h)
  BY <1>1, <1>2, <1>5, SumChange
<1>9. SumFunction(g) \in Int /\ SumFunction(G) = SumFunction(g) + At(G, h) - At(g, h)
  BY <1>1, <1>2, <1>6, SumChange
<1>10. At(f, h) \in Int /\ At(g, h) \in Int  BY <1>1, SumRest
<1>11. At(F, h) \in Int /\ At(G, h) \in Int  BY <1>2, SumRest
<1> QED  BY <1>1, <1>2, <1>7, <1>8, <1>9, <1>10, <1>11

\* Rows nobody writes have the sums they had.
LEMMA SameSums ==
  ASSUME NEW a
  PROVE  /\ UNCHANGED hold => HeldOn(a)' = HeldOn(a)
         /\ UNCHANGED journal => \A side : JournalTotal(a, side)' = JournalTotal(a, side)
BY DEF HeldOn, HoldsOn, HoldsFrom, Outstanding, HoldTotal, JournalTotal

\* A balance that moves with its history goes on matching it.
LEMMA MovedMatches ==
  ASSUME LedgerInv, BalancesMatchHistory, NEW a \in Accounts,
         NEW debit \in Int, NEW credit \in Int, NEW held \in Int, Moved(a, debit, credit, held),
         JournalTotal(a, "DEBIT")' = JournalTotal(a, "DEBIT") + debit,
         JournalTotal(a, "CREDIT")' = JournalTotal(a, "CREDIT") + credit,
         HeldOn(a)' = HeldOn(a) + held
  PROVE  /\ balance'[a].debits = JournalTotal(a, "DEBIT")'
         /\ balance'[a].credits = JournalTotal(a, "CREDIT")'
         /\ balance'[a].held = HeldOn(a)'
BY DEF Moved, BalancesMatchHistory

\* The totals of a balance are numbers, and so are the sums they match.
LEMMA MatchedNumbers ==
  ASSUME LedgerInv, BalancesMatchHistory, NEW a \in Accounts
  PROVE  /\ JournalTotal(a, "DEBIT") \in Nat /\ JournalTotal(a, "CREDIT") \in Nat
         /\ HeldOn(a) \in Int
BY BalanceRows DEF BalancesMatchHistory

\* A rejected command and a control update move nothing.
LEMMA IdleBalances ==
  ASSUME BookInv, BalancesMatchHistory, NEW op, Idle(op)
  PROVE  BalancesMatchHistory'
<1>1. UNCHANGED <<balance, hold, journal>>  BY DEF Idle
<1> QED  BY <1>1, SameSums DEF BalancesMatchHistory

\* A new account has no history.
LEMMA OpensBalances ==
  ASSUME BookInv, BalancesMatchHistory, NEW op, NEW a \in Accounts, Opens(op, a)
  PROVE  BalancesMatchHistory'
<1>1. UNCHANGED <<hold, journal>> /\ balance' = [balance EXCEPT ![a] = NewBalance] /\ ~Exists(a)
  BY DEF Opens
<1>2. balance[a].debits = 0 /\ balance[a].credits = 0 /\ balance[a].held = 0
  BY <1>1 DEF BookInv, AccountsComplete
<1>3. balance \in [Accounts -> Balance]  BY DEF BookInv, LedgerInv, TypeOK
<1>4. \A x \in Accounts : /\ balance'[x].debits = balance[x].debits
                          /\ balance'[x].credits = balance[x].credits
                          /\ balance'[x].held = balance[x].held
  BY <1>1, <1>2, <1>3 DEF NewBalance
<1> QED  BY <1>1, <1>4, SameSums DEF BalancesMatchHistory

\* A transfer posts on its three accounts what its journal says.
LEMMA PaysBalances ==
  ASSUME BookInv, BookInv', JournalsRecorded, BalancesMatchHistory, NEW op \in Ops, Writes(op),
         NEW r \in Transfers, NEW now \in Times, TransferVerdict(r, now) = "APPLIED",
         Pays(op, r, Bucket(now))
  PROVE  BalancesMatchHistory'
<1> DEFINE t == r.terms
           fees == Policies[t.policy].feeAccount
<1> SUFFICES ASSUME NEW a \in Accounts
             PROVE  /\ balance'[a].debits = JournalTotal(a, "DEBIT")'
                    /\ balance'[a].credits = JournalTotal(a, "CREDIT")'
                    /\ balance'[a].held = HeldOn(a)'
  BY DEF BalancesMatchHistory
<1>1. LedgerInv /\ LedgerInv'  BY DEF BookInv
<1>2. /\ journal' = [journal EXCEPT ![op] = TransferLines(t)]
      /\ balance' = PostAll(balance, TransferLines(t)) /\ UNCHANGED hold
  BY DEF Pays
<1>3. /\ t.source \in Accounts \ (Pools \cup FeeAccounts)
      /\ t.beneficiary \in Accounts \ (Pools \cup FeeAccounts)
      /\ t.source # t.beneficiary /\ fees \in FeeAccounts /\ fees \in Accounts
      /\ t.principal \in Nat /\ t.fee \in Nat
      /\ Moved(a, IF a = t.source THEN Total(t) ELSE 0,
               IF a = t.beneficiary THEN t.principal ELSE IF a = fees THEN t.fee ELSE 0, 0)
  BY <1>1, <1>2, TransferEffect
<1>4. TransferLines(t) = Postings(t.source, t.beneficiary, fees, t.principal, t.fee)
  BY DEF TransferLines
<1>5. IsFiniteSet(TransferLines(t))  BY <1>4, PostingsFinite
<1>6. journal[op] = {}  BY DEF Writes, JournalsRecorded
<1> HIDE DEF t, fees
<1> DEFINE lines == LinesOf(TransferLines(t), a)
<1>7. /\ SideTotal(lines, "DEBIT") = IF a = t.source THEN t.principal + t.fee ELSE 0
      /\ SideTotal(lines, "CREDIT") = IF a = t.beneficiary THEN t.principal
                                      ELSE IF a = fees THEN t.fee ELSE 0
  BY <1>3, <1>4, PostingsOf
<1>8. /\ JournalTotal(a, "DEBIT")' = JournalTotal(a, "DEBIT") + SideTotal(lines, "DEBIT")
      /\ JournalTotal(a, "CREDIT")' = JournalTotal(a, "CREDIT") + SideTotal(lines, "CREDIT")
      /\ SideTotal(lines, "DEBIT") \in Nat /\ SideTotal(lines, "CREDIT") \in Nat
  BY <1>1, <1>2, <1>5, <1>6, JournalAdds
<1>9. HeldOn(a)' = HeldOn(a) /\ HeldOn(a) \in Int  BY <1>1, <1>2, SameSums, MatchedNumbers
<1> HIDE DEF lines
<1>10. Moved(a, SideTotal(lines, "DEBIT"), SideTotal(lines, "CREDIT"), 0)
  BY <1>3, <1>7 DEF Total
<1>11. HeldOn(a)' = HeldOn(a) + 0  BY <1>9
<1> QED  BY <1>1, <1>8, <1>10, <1>11, MovedMatches

\* A reservation holds on source and pool what its hold says.
LEMMA EncumbersBalances ==
  ASSUME BookInv, BookInv', BalancesMatchHistory, NEW op \in Ops,
         NEW r \in Reserves, NEW now \in Times, ReserveVerdict(r, now) = "APPLIED",
         Encumbers(op, r, Bucket(now))
  PROVE  BalancesMatchHistory'
<1> DEFINE t == r.terms
<1> SUFFICES ASSUME NEW a \in Accounts
             PROVE  /\ balance'[a].debits = JournalTotal(a, "DEBIT")'
                    /\ balance'[a].credits = JournalTotal(a, "CREDIT")'
                    /\ balance'[a].held = HeldOn(a)'
  BY DEF BalancesMatchHistory
<1>1. LedgerInv /\ LedgerInv'  BY DEF BookInv
<1> DEFINE k == IF a = t.source THEN Total(t) ELSE IF a = r.pool THEN t.principal ELSE 0
<1>2. /\ balance' = [balance EXCEPT ![t.source] = Touched(Reserve(@, Total(t))),
                                    ![r.pool] = Touched(Reserve(@, t.principal))]
      /\ r.hold \in Holds /\ hold[r.hold].state = "ABSENT" /\ UNCHANGED journal
      /\ hold' = [hold EXCEPT ![r.hold] =
           [state |-> "RESERVED", version |-> 1, reserve |-> r, owner |-> owner[t.source],
            bucket |-> Bucket(now)]]
  BY DEF Encumbers
<1>3. /\ t.principal \in Nat /\ t.fee \in Nat /\ r.pool # t.source /\ Moved(a, 0, 0, k)
  BY <1>1, <1>2, ReserveEffect
<1>4. hold \in [Holds -> Hold]  BY <1>1 DEF LedgerInv, TypeOK
<1>5. /\ hold'[r.hold].state = "RESERVED" /\ hold'[r.hold].reserve = r
      /\ \A i \in Holds \ {r.hold} : hold'[i] = hold[i]
  BY <1>2, <1>4
<1>6. Encumbrance(r.hold, a) = 0  BY <1>2 DEF Encumbrance, Outstanding
<1>7. Encumbrance(r.hold, a)' = k  BY <1>5 DEF Encumbrance, Outstanding, HoldTotal
<1>8. k \in Int  BY <1>3 DEF Total
<1> HIDE DEF k, t
<1>9. HeldOn(a) \in Int /\ HeldOn(a)' = HeldOn(a) + Encumbrance(r.hold, a)' - Encumbrance(r.hold, a)
  BY <1>1, <1>2, <1>5, HeldChange
<1>10. HeldOn(a)' = HeldOn(a) + k  BY <1>6, <1>7, <1>8, <1>9
<1>11. \A side : JournalTotal(a, side)' = JournalTotal(a, side)  BY <1>2, SameSums
<1>12. JournalTotal(a, "DEBIT") \in Nat /\ JournalTotal(a, "CREDIT") \in Nat
  BY <1>1, MatchedNumbers
<1>13. /\ JournalTotal(a, "DEBIT")' = JournalTotal(a, "DEBIT") + 0
       /\ JournalTotal(a, "CREDIT")' = JournalTotal(a, "CREDIT") + 0
  BY <1>11, <1>12
<1> QED  BY <1>1, <1>3, <1>8, <1>10, <1>13, MovedMatches

\* How moving a hold changes what it encumbers.
LEMMA MovesEncumbrance ==
  ASSUME LedgerInv, LedgerInv', NEW op, NEW h \in Holds, NEW a \in Accounts,
         NEW state \in {"EXPOSED", "CAPTURED", "RELEASED"}, Moves(op, h, state)
  PROVE  LET t == hold[h].reserve.terms
             k == IF a = t.source THEN Total(t)
                  ELSE IF a = hold[h].reserve.pool THEN t.principal ELSE 0
         IN  /\ k \in Nat /\ HeldOn(a) \in Int
             /\ HeldOn(a)' = HeldOn(a) - (IF state = "EXPOSED" THEN 0 ELSE k)
<1> DEFINE t == hold[h].reserve.terms
           k == IF a = t.source THEN Total(t)
                ELSE IF a = hold[h].reserve.pool THEN t.principal ELSE 0
<1>1. /\ Outstanding(h) /\ hold'[h].state = state /\ hold'[h].reserve = hold[h].reserve
      /\ \A i \in Holds \ {h} : hold'[i] = hold[i]
  BY DEF Moves
<1>2. hold[h].state # "ABSENT"  BY <1>1 DEF Outstanding
<1>3. t.principal \in Nat /\ t.fee \in Nat /\ Total(t) \in Nat
  BY <1>2, HoldAmounts DEF HoldTotal
<1>4. k \in Nat  BY <1>3
<1>5. Encumbrance(h, a) = k  BY <1>1 DEF Encumbrance, HoldTotal
<1>6. Encumbrance(h, a)' = IF state = "EXPOSED" THEN k ELSE 0
  BY <1>1 DEF Encumbrance, HoldTotal, Outstanding
<1>7. HeldOn(a) \in Int /\ HeldOn(a)' = HeldOn(a) + Encumbrance(h, a)' - Encumbrance(h, a)
  BY <1>1, HeldChange
<1> HIDE DEF k
<1>8. HeldOn(a)' = HeldOn(a) - (IF state = "EXPOSED" THEN 0 ELSE k)  BY <1>4, <1>5, <1>6, <1>7
<1> QED  BY <1>4, <1>7, <1>8 DEF k

\* An exposed hold encumbers what it did.
LEMMA ShowsBalances ==
  ASSUME BookInv, BookInv', BalancesMatchHistory, NEW op, NEW h \in Holds, Shows(op, h)
  PROVE  BalancesMatchHistory'
<1>1. LedgerInv /\ LedgerInv' /\ Moves(op, h, "EXPOSED") /\ UNCHANGED <<balance, journal>>
  BY DEF BookInv, Shows
<1>2. \A a \in Accounts : HeldOn(a)' = HeldOn(a)
  BY <1>1, MovesEncumbrance
<1> QED  BY <1>1, <1>2, SameSums DEF BalancesMatchHistory

\* A captured hold encumbers nothing; its journal says what it paid.
LEMMA SettlesBalances ==
  ASSUME BookInv, BookInv', JournalsRecorded, BalancesMatchHistory, NEW op \in Ops, Writes(op),
         NEW h \in Holds, Settles(op, h)
  PROVE  BalancesMatchHistory'
<1> DEFINE t == hold[h].reserve.terms
           pool == hold[h].reserve.pool
           fees == HoldFeeAccount(h)
<1> SUFFICES ASSUME NEW a \in Accounts
             PROVE  /\ balance'[a].debits = JournalTotal(a, "DEBIT")'
                    /\ balance'[a].credits = JournalTotal(a, "CREDIT")'
                    /\ balance'[a].held = HeldOn(a)'
  BY DEF BalancesMatchHistory
<1>1. LedgerInv /\ LedgerInv'  BY DEF BookInv
<1>2. /\ journal' = [journal EXCEPT ![op] = HoldLines(h)] /\ Moves(op, h, "CAPTURED")
      /\ balance' = PostAll(Unencumbered(h), HoldLines(h))
  BY DEF Settles
<1>3. hold[h].state # "ABSENT"  BY <1>2 DEF Moves, Outstanding
<1> DEFINE k == IF a = t.source THEN Total(t) ELSE IF a = pool THEN t.principal ELSE 0
<1>4. /\ t.source \in Accounts \ (Pools \cup FeeAccounts) /\ pool \in Accounts \ FeeAccounts
      /\ pool # t.source /\ fees \in Accounts /\ t.principal \in Nat /\ t.fee \in Nat
  BY <1>1, <1>3, HoldFacts
<1>5. fees \in FeeAccounts
  BY <1>1, <1>3, PolicyAssumption DEF LedgerInv, HoldsWellFormed, HoldFeeAccount
<1>6. Moved(a, IF a = t.source THEN Total(t) ELSE 0,
            IF a = pool THEN t.principal ELSE IF a = fees THEN t.fee ELSE 0, 0 - k)
  BY <1>1, <1>2, <1>3, CaptureEffect
<1>7. HoldLines(h) = Postings(t.source, pool, fees, t.principal, t.fee)  BY DEF HoldLines
<1>8. k \in Nat /\ HeldOn(a) \in Int /\ HeldOn(a)' = HeldOn(a) - k
  BY <1>1, <1>2, MovesEncumbrance
<1>9. IsFiniteSet(HoldLines(h))  BY <1>7, PostingsFinite
<1>10. journal[op] = {}  BY DEF Writes, JournalsRecorded
<1> HIDE DEF t, pool, fees, k
<1> DEFINE lines == LinesOf(HoldLines(h), a)
<1>11. /\ SideTotal(lines, "DEBIT") = IF a = t.source THEN t.principal + t.fee ELSE 0
       /\ SideTotal(lines, "CREDIT") = IF a = pool THEN t.principal
                                       ELSE IF a = fees THEN t.fee ELSE 0
  BY <1>4, <1>5, <1>7, PostingsOf
<1>12. /\ JournalTotal(a, "DEBIT")' = JournalTotal(a, "DEBIT") + SideTotal(lines, "DEBIT")
       /\ JournalTotal(a, "CREDIT")' = JournalTotal(a, "CREDIT") + SideTotal(lines, "CREDIT")
       /\ SideTotal(lines, "DEBIT") \in Nat /\ SideTotal(lines, "CREDIT") \in Nat
  BY <1>1, <1>2, <1>9, <1>10, JournalAdds
<1> HIDE DEF lines
<1>13. Moved(a, SideTotal(lines, "DEBIT"), SideTotal(lines, "CREDIT"), 0 - k)
  BY <1>6, <1>11 DEF Total
<1>14. HeldOn(a)' = HeldOn(a) + (0 - k) /\ 0 - k \in Int  BY <1>8
<1> QED  BY <1>1, <1>12, <1>13, <1>14, MovedMatches

\* A released hold encumbers nothing and posts nothing.
LEMMA GivesBackBalances ==
  ASSUME BookInv, BookInv', BalancesMatchHistory, NEW op, NEW h \in Holds, GivesBack(op, h)
  PROVE  BalancesMatchHistory'
<1> DEFINE t == hold[h].reserve.terms
           pool == hold[h].reserve.pool
<1> SUFFICES ASSUME NEW a \in Accounts
             PROVE  /\ balance'[a].debits = JournalTotal(a, "DEBIT")'
                    /\ balance'[a].credits = JournalTotal(a, "CREDIT")'
                    /\ balance'[a].held = HeldOn(a)'
  BY DEF BalancesMatchHistory
<1>1. LedgerInv /\ LedgerInv'  BY DEF BookInv
<1>2. /\ Moves(op, h, "RELEASED") /\ UNCHANGED journal
      /\ balance' = [x \in Accounts |->
           IF x \in {t.source, pool} THEN Touched(Unencumbered(h)[x]) ELSE balance[x]]
  BY DEF GivesBack
<1>3. hold[h].state # "ABSENT"  BY <1>2 DEF Moves, Outstanding
<1> DEFINE k == IF a = t.source THEN Total(t) ELSE IF a = pool THEN t.principal ELSE 0
<1>4. Moved(a, 0, 0, 0 - k)  BY <1>1, <1>2, <1>3, ReleaseEffect
<1>5. k \in Nat /\ HeldOn(a) \in Int /\ HeldOn(a)' = HeldOn(a) - k
  BY <1>1, <1>2, MovesEncumbrance
<1>6. \A side : JournalTotal(a, side)' = JournalTotal(a, side)  BY <1>2, SameSums
<1>7. JournalTotal(a, "DEBIT") \in Nat /\ JournalTotal(a, "CREDIT") \in Nat
  BY <1>1, MatchedNumbers
<1>8. /\ JournalTotal(a, "DEBIT")' = JournalTotal(a, "DEBIT") + 0
      /\ JournalTotal(a, "CREDIT")' = JournalTotal(a, "CREDIT") + 0
  BY <1>6, <1>7
<1> HIDE DEF k
<1>9. HeldOn(a)' = HeldOn(a) + (0 - k) /\ 0 - k \in Int  BY <1>5
<1> QED  BY <1>1, <1>4, <1>8, <1>9, MovedMatches

\* A journal is written under an unused operation id, with its receipt.
LEMMA JournalsStay ==
  ASSUME BookInv, BookInv', JournalsRecorded, NEW op \in Ops, Writes(op), Shape(op)
  PROVE  JournalsRecorded'
<1>1. LedgerInv /\ journal \in [Ops -> SUBSET JournalLine]  BY DEF BookInv, LedgerInv, TypeOK
<1>2. ASSUME UNCHANGED journal PROVE JournalsRecorded'
  BY <1>2 DEF Writes, JournalsRecorded
<1>3. ASSUME NEW lines, IsFiniteSet(lines), journal' = [journal EXCEPT ![op] = lines]
      PROVE  JournalsRecorded'
  <2>1. journal'[op] = lines /\ \A x \in Ops \ {op} : journal'[x] = journal[x]  BY <1>1, <1>3
  <2> QED  BY <1>3, <2>1 DEF Writes, JournalsRecorded
<1>4. CASE Idle(op)  BY <1>2, <1>4 DEF Idle
<1>5. CASE \E a \in Accounts : Opens(op, a)  BY <1>2, <1>5 DEF Opens
<1>6. CASE \E r \in Transfers, now \in Times :
             TransferVerdict(r, now) = "APPLIED" /\ Pays(op, r, Bucket(now))
  <2>1. PICK r : journal' = [journal EXCEPT ![op] = TransferLines(r.terms)]
    BY <1>6 DEF Pays
  <2>2. IsFiniteSet(TransferLines(r.terms))  BY PostingsFinite DEF TransferLines
  <2> QED  BY <1>3, <2>1, <2>2
<1>7. CASE \E r \in Reserves, now \in Times :
             ReserveVerdict(r, now) = "APPLIED" /\ Encumbers(op, r, Bucket(now))
  BY <1>2, <1>7 DEF Encumbers
<1>8. CASE \E h \in Holds : Shows(op, h)  BY <1>2, <1>8 DEF Shows
<1>9. CASE \E h \in Holds : Settles(op, h)
  <2>1. PICK h \in Holds : journal' = [journal EXCEPT ![op] = HoldLines(h)]
    BY <1>9 DEF Settles
  <2>2. IsFiniteSet(HoldLines(h))  BY PostingsFinite DEF HoldLines
  <2> QED  BY <1>3, <2>1, <2>2
<1>10. CASE \E h \in Holds : GivesBack(op, h)  BY <1>2, <1>10 DEF GivesBack
<1> QED  BY <1>4, <1>5, <1>6, <1>7, <1>8, <1>9, <1>10 DEF Shape

\* Whatever its shape, a command moves balances and history together.
LEMMA BalancesStay ==
  ASSUME BookInv, BookInv', JournalsRecorded, BalancesMatchHistory, NEW op \in Ops,
         Writes(op), Shape(op)
  PROVE  BalancesMatchHistory'
<1>1. CASE Idle(op)  BY <1>1, IdleBalances
<1>2. CASE \E a \in Accounts : Opens(op, a)  BY <1>2, OpensBalances
<1>3. CASE \E r \in Transfers, now \in Times :
             TransferVerdict(r, now) = "APPLIED" /\ Pays(op, r, Bucket(now))
  BY <1>3, PaysBalances
<1>4. CASE \E r \in Reserves, now \in Times :
             ReserveVerdict(r, now) = "APPLIED" /\ Encumbers(op, r, Bucket(now))
  BY <1>4, EncumbersBalances
<1>5. CASE \E h \in Holds : Shows(op, h)  BY <1>5, ShowsBalances
<1>6. CASE \E h \in Holds : Settles(op, h)  BY <1>6, SettlesBalances
<1>7. CASE \E h \in Holds : GivesBack(op, h)  BY <1>7, GivesBackBalances
<1> QED  BY <1>1, <1>2, <1>3, <1>4, <1>5, <1>6, <1>7 DEF Shape

\* The fixture funds one wallet from one pool and holds nothing.
LEMMA InitBalances == Init => JournalsRecorded /\ BalancesMatchHistory
<1> SUFFICES ASSUME Init PROVE JournalsRecorded /\ BalancesMatchHistory  OBVIOUS
<1> DEFINE d == Line(FundedPool, "DEBIT", Funding)
           c == Line(FundedWallet, "CREDIT", Funding)
<1>1. journal = [o \in Ops |-> IF o = FixtureOp THEN {d, c} ELSE {}]  BY DEF Init
<1>2. \A o \in Ops : receipts[o].outcome = IF o = FixtureOp THEN "APPLIED" ELSE "NONE"
  BY DEF Init, Receipt
<1>3. /\ d.account = FundedPool /\ d.side = "DEBIT" /\ d.amount = Funding
      /\ c.account = FundedWallet /\ c.side = "CREDIT" /\ c.amount = Funding
  BY DEF Line
<1>4. /\ FixtureOp \in Ops /\ FundedPool \in Accounts /\ FundedWallet \in Accounts
      /\ FundedPool # FundedWallet
  BY IdAssumption
<1>5. Funding \in Nat  BY BoundsAssumption DEF Amounts
<1> HIDE DEF d, c
<1>6. IsFiniteSet({d, c})
  <2>1. {d, c} = {d} \cup {c}  OBVIOUS
  <2>2. \A u, v : IsFiniteSet({u} \cup {v})  BY FS_Singleton, FS_Union
  <2> QED  BY <2>1, <2>2
<1>7. JournalsRecorded  BY <1>1, <1>2, <1>6, FS_EmptySet DEF JournalsRecorded
<1>8. ASSUME NEW a \in Accounts, NEW side, NEW l, {d, c} = {l} \cup {x \in {d, c} : x.side # side},
             l.side = side, l.amount = Funding
      PROVE  JournalTotal(a, side) = IF l.account = a THEN Funding ELSE 0
  <2> DEFINE total(j) == SideTotal(LinesOf(j, a), side)
             f == [x \in Ops |-> total(journal[x])]
  <2>1. ASSUME NEW j, j = {} \/ j = {d, c}
        PROVE  total(j) = IF j # {} /\ l.account = a THEN Funding ELSE 0
    <3> DEFINE T == {m \in LinesOf(j, a) : m.side = side}
               g == [m \in T |-> m.amount]
    <3>1. T \subseteq {l} /\ (l \in T <=> j # {} /\ l.account = a)
      BY <1>8, <2>1 DEF LinesOf
    <3> HIDE DEF T
    <3>2. Summable(g)
      <4>1. IsFiniteSet(T)  BY <3>1, FS_Singleton, FS_Subset
      <4> QED  BY <4>1, <3>1, <1>5, <1>8 DEF Summable
    <3>3. DOMAIN g \subseteq {l} /\ At(g, l) = IF j # {} /\ l.account = a THEN Funding ELSE 0
      BY <3>1, <1>8 DEF At
    <3> HIDE DEF g
    <3>4. SumFunction(g) = At(g, l)  BY <3>2, <3>3, SumOfOne
    <3> QED  BY <3>3, <3>4 DEF SideTotal, T, g
  <2>2. \A x \in Ops : journal[x] = IF x = FixtureOp THEN {d, c} ELSE {}  BY <1>1
  <2> HIDE DEF total
  <2>3. \A x \in Ops : f[x] = IF x = FixtureOp /\ l.account = a THEN Funding ELSE 0
    BY <2>1, <2>2
  <2>4. DOMAIN f = Ops  OBVIOUS
  <2> HIDE DEF f
  <2>5. Summable(f)  BY <2>3, <2>4, <1>5, FiniteAssumption DEF Summable
  <2>6. At(f, FixtureOp) = IF l.account = a THEN Funding ELSE 0  BY <1>4, <2>3, <2>4 DEF At
  <2>7. SumFunction(f) = At(f, FixtureOp)  BY <2>3, <2>4, <2>5, SumOnly
  <2>8. JournalTotal(a, side) = SumFunction(f)  BY DEF JournalTotal, LinesOf, f, total
  <2> QED  BY <2>6, <2>7, <2>8
<1>9. ASSUME NEW a \in Accounts
      PROVE  /\ balance[a].debits = JournalTotal(a, "DEBIT")
             /\ balance[a].credits = JournalTotal(a, "CREDIT")
             /\ balance[a].held = HeldOn(a)
  <2>1. /\ balance[a].debits = IF a = FundedPool THEN Funding ELSE 0
        /\ balance[a].credits = IF a = FundedWallet THEN Funding ELSE 0
        /\ balance[a].held = 0
    BY DEF Init
  <2>2. {d, c} = {d} \cup {x \in {d, c} : x.side # "DEBIT"}
        /\ {d, c} = {c} \cup {x \in {d, c} : x.side # "CREDIT"}
    BY <1>3
  <2>3. JournalTotal(a, "DEBIT") = IF d.account = a THEN Funding ELSE 0  BY <1>3, <1>8, <2>2
  <2>4. JournalTotal(a, "CREDIT") = IF c.account = a THEN Funding ELSE 0  BY <1>3, <1>8, <2>2
  <2>5. HeldOn(a) = 0
    <3>1. HoldsOn(a) = {} /\ HoldsFrom(a) = {}  BY DEF Init, HoldsOn, HoldsFrom, Outstanding
    <3> DEFINE f == [h \in HoldsOn(a) |-> HoldTotal(h)]
               g == [h \in HoldsFrom(a) |-> hold[h].reserve.terms.principal]
    <3>2. DOMAIN f = {} /\ DOMAIN g = {}  BY <3>1
    <3> HIDE DEF f, g
    <3>3. SumFunction(f) = 0  BY <3>2, FS_EmptySet, SumZero DEF SumFunction
    <3>4. SumFunction(g) = 0  BY <3>2, FS_EmptySet, SumZero DEF SumFunction
    <3> QED  BY <3>3, <3>4 DEF HeldOn, f, g
  <2> QED  BY <1>3, <2>1, <2>3, <2>4, <2>5
<1> QED  BY <1>7, <1>9 DEF BalancesMatchHistory

\* Every step keeps the balances the sums of the history.
LEMMA NextBalances ==
  ASSUME BookInv, BookInv', JournalsRecorded, BalancesMatchHistory, [Next]_vars
  PROVE  JournalsRecorded' /\ BalancesMatchHistory'
<1>1. CASE Next
  <2>1. PICK op \in Ops : Writes(op) /\ Shape(op)  BY <1>1, NextShape DEF BookInv
  <2> QED  BY <2>1, JournalsStay, BalancesStay
<1>2. CASE UNCHANGED vars
  <2>1. UNCHANGED <<balance, hold, journal, receipts>>  BY <1>2 DEF vars
  <2> QED  BY <2>1, SameSums DEF JournalsRecorded, BalancesMatchHistory
<1> QED  BY <1>1, <1>2

\* Whatever is committed, and in whatever order, the totals of account_balances are
\* what the journals and the outstanding holds add up to: Save never writes a balance
\* without the history that explains it, or history without the balance.
THEOREM BalancesAreHistory == Spec => []BalancesMatchHistory
<1>1. Init => JournalsRecorded /\ BalancesMatchHistory  BY InitBalances
<1>2. BookInv /\ BookInv' /\ JournalsRecorded /\ BalancesMatchHistory /\ [Next]_vars
        => JournalsRecorded' /\ BalancesMatchHistory'
  BY NextBalances
<1> QED  BY <1>1, <1>2, BookInvariant, PTL DEF Spec

-----------------------------------------------------------------------------
(***************************************************************************)
(* Limit rows and the admissions they sum.                                 *)
(***************************************************************************)
\* The source of an applied transfer exists, and so keeps its owner.
TransfersOwned ==
  \A x \in Ops : Applied(x, Transfers) => Exists(receipts[x].request.terms.source)

Live == {"RESERVED", "EXPOSED"}
Taken == {"CAPTURED"}

\* The principals a day sums are finitely many numbers.
DaySums ==
  \A o \in Owners, b \in Buckets :
    /\ \A states \in {Live, Taken} :
         Summable([h \in AdmittedOn(o, b, states) |-> hold[h].reserve.terms.principal])
    /\ Summable([x \in TransfersOn(o, b) |-> receipts[x].request.terms.principal])

\* They are: holds and operations are.
LEMMA DaysSum == LedgerInv => DaySums
<1> SUFFICES ASSUME LedgerInv, NEW o \in Owners, NEW b \in Buckets
             PROVE  /\ \A states \in {Live, Taken} :
                         Summable([h \in AdmittedOn(o, b, states) |-> hold[h].reserve.terms.principal])
                    /\ Summable([x \in TransfersOn(o, b) |-> receipts[x].request.terms.principal])
  BY DEF DaySums
<1>1. ASSUME NEW states \in {Live, Taken}
      PROVE  Summable([h \in AdmittedOn(o, b, states) |-> hold[h].reserve.terms.principal])
  <2>1. AdmittedOn(o, b, states) \subseteq Holds  BY DEF AdmittedOn
  <2>2. IsFiniteSet(AdmittedOn(o, b, states))  BY <2>1, FiniteAssumption, FS_Subset
  <2>3. \A h \in AdmittedOn(o, b, states) : hold[h].state # "ABSENT"
    BY DEF AdmittedOn, Live, Taken
  <2>4. \A h \in AdmittedOn(o, b, states) : hold[h].reserve.terms.principal \in Nat
    BY <2>1, <2>3, HoldAmounts
  <2> QED  BY <2>2, <2>4 DEF Summable
<1>2. TransfersOn(o, b) \subseteq Ops  BY DEF TransfersOn
<1>3. IsFiniteSet(TransfersOn(o, b))  BY <1>2, FiniteAssumption, FS_Subset
<1>4. \A r \in Transfers : r.terms.principal \in Nat
  BY TermsTypes, BoundsAssumption DEF Terms, Amounts
<1>5. \A x \in TransfersOn(o, b) : receipts[x].request.terms.principal \in Nat
  BY <1>4 DEF TransfersOn
<1> QED  BY <1>1, <1>3, <1>5 DEF Summable

\* The same of the book after a step.
LEMMA DaysSumNext == LedgerInv' => DaySums'
BY DaysSum, PTL

\* What a hold counts for on a day, among the holds in these states.
DayHold(h, o, b, states) ==
  IF h \in AdmittedOn(o, b, states) THEN hold[h].reserve.terms.principal ELSE 0

\* A step that changes one hold changes a day by what that hold counts for.
LEMMA DayHoldsChange ==
  ASSUME LedgerInv, LedgerInv', NEW h, \A i \in Holds \ {h} : hold'[i] = hold[i],
         NEW o \in Owners, NEW b \in Buckets, NEW states \in {Live, Taken}
  PROVE  /\ HoldPrincipals(AdmittedOn(o, b, states)) \in Int
         /\ DayHold(h, o, b, states) \in Int /\ DayHold(h, o, b, states)' \in Int
         /\ HoldPrincipals(AdmittedOn(o, b, states))'
              = HoldPrincipals(AdmittedOn(o, b, states)) + DayHold(h, o, b, states)'
                  - DayHold(h, o, b, states)
<1> DEFINE f == [i \in AdmittedOn(o, b, states) |-> hold[i].reserve.terms.principal]
           F == [i \in AdmittedOn(o, b, states)' |-> hold'[i].reserve.terms.principal]
<1>1. Summable(f)  BY DaysSum DEF DaySums
<1>2. Summable(F)  BY DaysSumNext DEF DaySums, Summable
<1>3. \A i \in Holds \ {h} : i \in AdmittedOn(o, b, states)' <=> i \in AdmittedOn(o, b, states)
  BY DEF AdmittedOn
<1>4. AdmittedOn(o, b, states) \subseteq Holds /\ AdmittedOn(o, b, states)' \subseteq Holds
  BY DEF AdmittedOn
<1>5. DifferAt(f, F, h)  BY <1>3, <1>4 DEF DifferAt
<1>6. At(f, h) = DayHold(h, o, b, states) /\ At(F, h) = DayHold(h, o, b, states)'
  BY DEF At, DayHold
<1>7. /\ HoldPrincipals(AdmittedOn(o, b, states)) = SumFunction(f)
      /\ HoldPrincipals(AdmittedOn(o, b, states))' = SumFunction(F)
  BY DEF HoldPrincipals
<1> HIDE DEF f, F
<1>8. SumFunction(f) \in Int /\ SumFunction(F) = SumFunction(f) + At(F, h) - At(f, h)
  BY <1>1, <1>2, <1>5, SumChange
<1>9. At(f, h) \in Int  BY <1>1, SumRest
<1>10. At(F, h) \in Int  BY <1>2, SumRest
<1> QED  BY <1>6, <1>7, <1>8, <1>9, <1>10

\* What an operation counts for on a day.
DayTransfer(x, o, b) ==
  IF x \in TransfersOn(o, b) THEN receipts[x].request.terms.principal ELSE 0

\* A step that writes one receipt changes a day by what that receipt counts for:
\* owners stay, so earlier transfers stay with their day.
LEMMA DayTransfersChange ==
  ASSUME LedgerInv, LedgerInv', TransfersOwned, OwnersStay, NEW op \in Ops, Writes(op),
         NEW o \in Owners, NEW b \in Buckets
  PROVE  /\ TransferPrincipals(TransfersOn(o, b)) \in Int /\ DayTransfer(op, o, b)' \in Int
         /\ TransferPrincipals(TransfersOn(o, b))'
              = TransferPrincipals(TransfersOn(o, b)) + DayTransfer(op, o, b)'
<1> DEFINE f == [x \in TransfersOn(o, b) |-> receipts[x].request.terms.principal]
           F == [x \in TransfersOn(o, b)' |-> receipts'[x].request.terms.principal]
<1>1. Summable(f)  BY DaysSum DEF DaySums
<1>2. Summable(F)  BY DaysSumNext DEF DaySums, Summable
<1>3. ASSUME NEW x \in Ops \ {op}
      PROVE  x \in TransfersOn(o, b)' <=> x \in TransfersOn(o, b)
  <2>1. receipts'[x] = receipts[x]  BY DEF Writes
  <2>2. CASE Applied(x, Transfers)
    <3>1. receipts[x].request.terms.source \in Accounts
      BY <2>2, TermsTypes DEF Applied, Terms
    <3>2. owner'[receipts[x].request.terms.source] = owner[receipts[x].request.terms.source]
      BY <2>2, <3>1 DEF TransfersOwned, OwnersStay
    <3> QED  BY <2>1, <3>2 DEF TransfersOn
  <2>3. CASE ~Applied(x, Transfers)  BY <2>1, <2>3 DEF TransfersOn, Applied
  <2> QED  BY <2>2, <2>3
<1>4. \A x \in Ops \ {op} : receipts'[x] = receipts[x]  BY DEF Writes
<1>5. TransfersOn(o, b) \subseteq Ops /\ TransfersOn(o, b)' \subseteq Ops  BY DEF TransfersOn
<1>6. DifferAt(f, F, op)  BY <1>3, <1>4, <1>5 DEF DifferAt
<1>7. op \notin TransfersOn(o, b)  BY DEF Writes, TransfersOn
<1>8. At(f, op) = 0 /\ At(F, op) = DayTransfer(op, o, b)'  BY <1>7 DEF At, DayTransfer
<1>9. /\ TransferPrincipals(TransfersOn(o, b)) = SumFunction(f)
      /\ TransferPrincipals(TransfersOn(o, b))' = SumFunction(F)
  BY DEF TransferPrincipals
<1> HIDE DEF f, F
<1>10. SumFunction(f) \in Int /\ SumFunction(F) = SumFunction(f) + At(F, op) - At(f, op)
  BY <1>1, <1>2, <1>6, SumChange
<1>11. At(F, op) \in Int  BY <1>2, SumRest
<1> QED  BY <1>8, <1>9, <1>10, <1>11

\* How much a step adds to a limit row.
DayMoved(o, b, reserved, consumed, version) ==
  /\ usage'[<<o, b>>].reserved = usage[<<o, b>>].reserved + reserved
  /\ usage'[<<o, b>>].consumed = usage[<<o, b>>].consumed + consumed
  /\ usage'[<<o, b>>].version = usage[<<o, b>>].version + version

\* One row of limit_usage written, the others left.
LEMMA DayWritten ==
  ASSUME NEW f \in [Owners \X Buckets -> Counter], NEW x \in Owners, NEW y \in Buckets, NEW v,
         NEW o \in Owners, NEW b \in Buckets
  PROVE  [f EXCEPT ![<<x, y>>] = v][<<o, b>>] = IF o = x /\ b = y THEN v ELSE f[<<o, b>>]
<1>1. <<x, y>> \in Owners \X Buckets /\ <<o, b>> \in Owners \X Buckets  OBVIOUS
<1>2. <<o, b>> = <<x, y>> <=> o = x /\ b = y  OBVIOUS
<1> QED  BY <1>1, <1>2

\* A row that matched its admissions and moves with them goes on matching.
LEMMA DayMatches ==
  ASSUME LedgerInv, LedgerInv', UsageMatchesHistory, TransfersOwned, OwnersStay,
         NEW op \in Ops, Writes(op), NEW h, \A i \in Holds \ {h} : hold'[i] = hold[i],
         NEW o \in Owners, NEW b \in Buckets, NEW version,
         DayMoved(o, b, DayHold(h, o, b, Live)' - DayHold(h, o, b, Live),
                  (DayHold(h, o, b, Taken)' - DayHold(h, o, b, Taken)) + DayTransfer(op, o, b)',
                  version)
  PROVE  /\ usage'[<<o, b>>].reserved = HoldPrincipals(AdmittedOn(o, b, Live))'
         /\ usage'[<<o, b>>].consumed = HoldPrincipals(AdmittedOn(o, b, Taken))'
                                        + TransferPrincipals(TransfersOn(o, b))'
<1>1. /\ usage[<<o, b>>].reserved = HoldPrincipals(AdmittedOn(o, b, Live))
      /\ usage[<<o, b>>].consumed = HoldPrincipals(AdmittedOn(o, b, Taken))
                                    + TransferPrincipals(TransfersOn(o, b))
  BY DEF UsageMatchesHistory, Live, Taken
<1>2. /\ HoldPrincipals(AdmittedOn(o, b, Live)) \in Int
      /\ DayHold(h, o, b, Live) \in Int /\ DayHold(h, o, b, Live)' \in Int
      /\ HoldPrincipals(AdmittedOn(o, b, Live))'
           = HoldPrincipals(AdmittedOn(o, b, Live)) + DayHold(h, o, b, Live)' - DayHold(h, o, b, Live)
  BY DayHoldsChange
<1>3. /\ HoldPrincipals(AdmittedOn(o, b, Taken)) \in Int
      /\ DayHold(h, o, b, Taken) \in Int /\ DayHold(h, o, b, Taken)' \in Int
      /\ HoldPrincipals(AdmittedOn(o, b, Taken))'
           = HoldPrincipals(AdmittedOn(o, b, Taken)) + DayHold(h, o, b, Taken)' - DayHold(h, o, b, Taken)
  BY DayHoldsChange
<1>4. /\ TransferPrincipals(TransfersOn(o, b)) \in Int /\ DayTransfer(op, o, b)' \in Int
      /\ TransferPrincipals(TransfersOn(o, b))'
           = TransferPrincipals(TransfersOn(o, b)) + DayTransfer(op, o, b)'
  BY DayTransfersChange
<1> QED  BY <1>1, <1>2, <1>3, <1>4 DEF DayMoved

\* A command that is no transfer counts for no transfer.
LEMMA NoTransferDay ==
  ASSUME NEW op, NoTransfer(op), NEW o, NEW b
  PROVE  DayTransfer(op, o, b)' = 0
BY DEF NoTransfer, DayTransfer, TransfersOn

\* What one row of the day says of the step, for each row.
DayGoal(o, b) ==
  /\ usage'[<<o, b>>].reserved = HoldPrincipals(AdmittedOn(o, b, Live))'
  /\ usage'[<<o, b>>].consumed = HoldPrincipals(AdmittedOn(o, b, Taken))'
                                 + TransferPrincipals(TransfersOn(o, b))'

\* Commands that leave limit rows and holds alone.
LEMMA QuietDays ==
  ASSUME BookInv, BookInv', UsageMatchesHistory, TransfersOwned, OwnersStay,
         NEW op \in Ops, Writes(op), NoTransfer(op), UNCHANGED <<usage, hold>>,
         NEW o \in Owners, NEW b \in Buckets
  PROVE  DayGoal(o, b)
<1>1. LedgerInv /\ LedgerInv'  BY DEF BookInv
<1>2. DayTransfer(op, o, b)' = 0  BY NoTransferDay
<1>3. \A s \in {Live, Taken} : DayHold(NoHold, o, b, s) = 0 /\ DayHold(NoHold, o, b, s)' = 0
  BY IdAssumption DEF DayHold, AdmittedOn
<1>4. /\ usage[<<o, b>>].reserved \in Nat /\ usage[<<o, b>>].consumed \in Nat
      /\ usage[<<o, b>>].version \in Nat
  <2>1. <<o, b>> \in Owners \X Buckets  OBVIOUS
  <2>2. usage[<<o, b>>] \in Counter  BY <1>1, <2>1, UsageCounts
  <2> QED  BY <2>2 DEF Counter
<1>5. DayMoved(o, b, DayHold(NoHold, o, b, Live)' - DayHold(NoHold, o, b, Live),
               (DayHold(NoHold, o, b, Taken)' - DayHold(NoHold, o, b, Taken))
                 + DayTransfer(op, o, b)', 0)
  BY <1>2, <1>3, <1>4 DEF DayMoved
<1>6. \A i \in Holds \ {NoHold} : hold'[i] = hold[i]  OBVIOUS
<1> QED  BY <1>1, <1>5, <1>6, DayMatches DEF DayGoal

\* A transfer counts as consumed on the day of its clock.
LEMMA PaysDays ==
  ASSUME BookInv, BookInv', UsageMatchesHistory, TransfersOwned, OwnersStay,
         NEW op \in Ops, Writes(op), NEW r \in Transfers, NEW now \in Times,
         TransferVerdict(r, now) = "APPLIED", Pays(op, r, Bucket(now)),
         NEW o \in Owners, NEW b \in Buckets
  PROVE  DayGoal(o, b)
<1> DEFINE day == Bucket(now)
           s == owner[r.terms.source]
           n == r.terms.principal
<1>1. LedgerInv /\ LedgerInv' /\ UNCHANGED <<owner, hold>>  BY DEF BookInv, Pays
<1>2. AdmitVerdict(r, now) = "APPLIED"  BY DEF TransferVerdict
<1>3. <<s, day>> \in Owners \X Buckets  BY <1>1, <1>2, AdmitUsageType DEF LedgerInv
<1>4. s \in Owners /\ day \in Buckets  BY <1>3
<1>5. n \in Nat  BY TermsTypes, BoundsAssumption DEF Terms, Amounts
<1>6. \A x \in {Live, Taken} : DayHold(NoHold, o, b, x) = 0 /\ DayHold(NoHold, o, b, x)' = 0
  BY IdAssumption DEF DayHold, AdmittedOn
<1>7. DayTransfer(op, o, b)' = IF o = s /\ b = day THEN n ELSE 0
  <2>1. receipts'[op] = Receipt("APPLIED", NoReason, r, day)  BY DEF Pays
  <2>2. /\ receipts'[op].outcome = "APPLIED" /\ receipts'[op].request = r
        /\ receipts'[op].bucket = day
    BY <2>1 DEF Receipt
  <2> QED  BY <1>1, <2>2 DEF DayTransfer, TransfersOn
<1>8. usage[<<o, b>>] \in Counter
  <2>1. <<o, b>> \in Owners \X Buckets  OBVIOUS
  <2> QED  BY <1>1, <2>1, UsageCounts
<1> DEFINE w == AdmitUsage(usage[<<s, day>>], n, FALSE)
<1>9. /\ usage' = [usage EXCEPT ![<<s, day>>] = w]
      /\ w.reserved = usage[<<s, day>>].reserved
      /\ w.consumed = usage[<<s, day>>].consumed + n
      /\ w.version = usage[<<s, day>>].version + 1
  <2>1. usage' = [usage EXCEPT ![<<s, day>>] = w]  BY DEF Pays
  <2>2. usage[<<s, day>>] \in Counter  BY <1>1, <1>3, UsageCounts
  <2> HIDE DEF s, day, n
  <2> QED  BY <1>5, <2>1, <2>2 DEF AdmitUsage, Touched, Counter
<1> HIDE DEF s, day, n, w
<1>10. usage'[<<o, b>>] = IF o = s /\ b = day THEN w ELSE usage[<<o, b>>]
  <2>1. usage \in [Owners \X Buckets -> Counter]  BY <1>1, UsageCounts
  <2>2. [usage EXCEPT ![<<s, day>>] = w][<<o, b>>]
          = IF o = s /\ b = day THEN w ELSE usage[<<o, b>>]
    BY <1>4, <2>1, DayWritten
  <2> QED  BY <1>9, <2>2
<1>11. \E v : DayMoved(o, b, 0, IF o = s /\ b = day THEN n ELSE 0, v)
  <2>1. CASE o = s /\ b = day
    <3>1. usage'[<<o, b>>] = w  BY <1>10, <2>1
    <3>2. DayMoved(o, b, 0, n, 1)
      BY <1>5, <1>9, <1>8, <2>1, <3>1 DEF DayMoved, Counter
    <3> QED  BY <2>1, <3>2
  <2>2. CASE ~(o = s /\ b = day)
    <3>1. usage'[<<o, b>>] = usage[<<o, b>>]  BY <1>10, <2>2
    <3>2. DayMoved(o, b, 0, 0, 0)  BY <1>8, <3>1 DEF DayMoved, Counter
    <3> QED  BY <2>2, <3>2
  <2> QED  BY <2>1, <2>2
<1>12. PICK v : DayMoved(o, b, 0, IF o = s /\ b = day THEN n ELSE 0, v)  BY <1>11
<1>13. /\ DayHold(NoHold, o, b, Live)' - DayHold(NoHold, o, b, Live) = 0
       /\ (DayHold(NoHold, o, b, Taken)' - DayHold(NoHold, o, b, Taken)) + DayTransfer(op, o, b)'
            = IF o = s /\ b = day THEN n ELSE 0
  BY <1>5, <1>6, <1>7
<1>14. DayMoved(o, b, DayHold(NoHold, o, b, Live)' - DayHold(NoHold, o, b, Live),
               (DayHold(NoHold, o, b, Taken)' - DayHold(NoHold, o, b, Taken))
                 + DayTransfer(op, o, b)', v)
  BY <1>12, <1>13
<1>15. \A i \in Holds \ {NoHold} : hold'[i] = hold[i]  BY <1>1
<1> QED  BY <1>1, <1>14, <1>15, DayMatches DEF DayGoal

\* A reservation counts as reserved on the day of its clock, which its hold keeps.
LEMMA EncumbersDays ==
  ASSUME BookInv, BookInv', UsageMatchesHistory, TransfersOwned, OwnersStay,
         NEW op \in Ops, Writes(op), NEW r \in Reserves, NEW now \in Times,
         ReserveVerdict(r, now) = "APPLIED", Encumbers(op, r, Bucket(now)),
         NEW o \in Owners, NEW b \in Buckets
  PROVE  DayGoal(o, b)
<1> DEFINE day == Bucket(now)
           s == owner[r.terms.source]
           n == r.terms.principal
           h == r.hold
<1>1. LedgerInv /\ LedgerInv' /\ NoTransfer(op)  BY DEF BookInv, Encumbers
<1>2. AdmitVerdict(r, now) = "APPLIED"  BY DEF ReserveVerdict
<1>3. <<s, day>> \in Owners \X Buckets  BY <1>1, <1>2, AdmitUsageType DEF LedgerInv
<1>4. s \in Owners /\ day \in Buckets  BY <1>3
<1>5. n \in Nat  BY TermsTypes, BoundsAssumption DEF Terms, Amounts
<1>6. /\ h \in Holds /\ hold[h].state = "ABSENT"
      /\ hold' = [hold EXCEPT ![h] =
           [state |-> "RESERVED", version |-> 1, reserve |-> r, owner |-> s, bucket |-> day]]
  BY DEF Encumbers
<1>7. hold \in [Holds -> Hold]  BY <1>1 DEF LedgerInv, TypeOK
<1>8. /\ hold'[h].state = "RESERVED" /\ hold'[h].reserve = r /\ hold'[h].owner = s
      /\ hold'[h].bucket = day /\ \A i \in Holds \ {h} : hold'[i] = hold[i]
  BY <1>6, <1>7
<1>9. /\ DayHold(h, o, b, Live) = 0 /\ DayHold(h, o, b, Taken) = 0
      /\ DayHold(h, o, b, Taken)' = 0
      /\ DayHold(h, o, b, Live)' = IF o = s /\ b = day THEN n ELSE 0
  BY <1>6, <1>8 DEF DayHold, AdmittedOn, Live, Taken
<1>10. DayTransfer(op, o, b)' = 0  BY <1>1, NoTransferDay
<1>11. usage[<<o, b>>] \in Counter
  <2>1. <<o, b>> \in Owners \X Buckets  OBVIOUS
  <2> QED  BY <1>1, <2>1, UsageCounts
<1> DEFINE w == AdmitUsage(usage[<<s, day>>], n, TRUE)
<1>12. /\ usage' = [usage EXCEPT ![<<s, day>>] = w]
      /\ w.reserved = usage[<<s, day>>].reserved + n
      /\ w.consumed = usage[<<s, day>>].consumed
      /\ w.version = usage[<<s, day>>].version + 1
  <2>1. usage' = [usage EXCEPT ![<<s, day>>] = w]  BY DEF Encumbers
  <2>2. usage[<<s, day>>] \in Counter  BY <1>1, <1>3, UsageCounts
  <2> HIDE DEF s, day, n
  <2> QED  BY <1>5, <2>1, <2>2 DEF AdmitUsage, Touched, Counter
<1> HIDE DEF s, day, n, h, w
<1>13. usage'[<<o, b>>] = IF o = s /\ b = day THEN w ELSE usage[<<o, b>>]
  <2>1. usage \in [Owners \X Buckets -> Counter]  BY <1>1, UsageCounts
  <2>2. [usage EXCEPT ![<<s, day>>] = w][<<o, b>>]
          = IF o = s /\ b = day THEN w ELSE usage[<<o, b>>]
    BY <1>4, <2>1, DayWritten
  <2> QED  BY <1>12, <2>2
<1>14. \E v : DayMoved(o, b, IF o = s /\ b = day THEN n ELSE 0, 0, v)
  <2>1. CASE o = s /\ b = day
    <3>1. usage'[<<o, b>>] = w  BY <1>13, <2>1
    <3>2. DayMoved(o, b, n, 0, 1)
      BY <1>5, <1>12, <1>11, <2>1, <3>1 DEF DayMoved, Counter
    <3> QED  BY <2>1, <3>2
  <2>2. CASE ~(o = s /\ b = day)
    <3>1. usage'[<<o, b>>] = usage[<<o, b>>]  BY <1>13, <2>2
    <3>2. DayMoved(o, b, 0, 0, 0)  BY <1>11, <3>1 DEF DayMoved, Counter
    <3> QED  BY <2>2, <3>2
  <2> QED  BY <2>1, <2>2
<1>15. PICK v : DayMoved(o, b, IF o = s /\ b = day THEN n ELSE 0, 0, v)  BY <1>14
<1>16. /\ DayHold(h, o, b, Live)' - DayHold(h, o, b, Live) = IF o = s /\ b = day THEN n ELSE 0
       /\ (DayHold(h, o, b, Taken)' - DayHold(h, o, b, Taken)) + DayTransfer(op, o, b)' = 0
  BY <1>5, <1>9, <1>10
<1>17. DayMoved(o, b, DayHold(h, o, b, Live)' - DayHold(h, o, b, Live),
               (DayHold(h, o, b, Taken)' - DayHold(h, o, b, Taken)) + DayTransfer(op, o, b)', v)
  BY <1>15, <1>16
<1> QED  BY <1>1, <1>8, <1>17, DayMatches DEF DayGoal

\* What a hold that moves counts for, before and after.
LEMMA MovesDay ==
  ASSUME LedgerInv, NEW op, NEW h \in Holds, NEW state \in {"EXPOSED", "CAPTURED", "RELEASED"},
         Moves(op, h, state), NEW o, NEW b
  PROVE  LET n == hold[h].reserve.terms.principal
             here == o = hold[h].owner /\ b = hold[h].bucket
         IN  /\ n \in Nat /\ hold[h].owner \in Owners /\ hold[h].bucket \in Buckets
             /\ DayHold(h, o, b, Live) = IF here THEN n ELSE 0
             /\ DayHold(h, o, b, Taken) = 0
             /\ DayHold(h, o, b, Live)' = IF here /\ state = "EXPOSED" THEN n ELSE 0
             /\ DayHold(h, o, b, Taken)' = IF here /\ state = "CAPTURED" THEN n ELSE 0
             /\ DayTransfer(op, o, b)' = 0
<1>1. /\ hold'[h].state = state /\ hold'[h].reserve = hold[h].reserve
      /\ hold'[h].owner = hold[h].owner /\ hold'[h].bucket = hold[h].bucket
      /\ hold[h].state \in {"RESERVED", "EXPOSED"} /\ NoTransfer(op)
  BY DEF Moves, Outstanding
<1>2. hold[h].reserve.terms.principal \in Nat  BY <1>1, HoldAmounts
<1>3. hold[h].owner \in Owners /\ hold[h].bucket \in Buckets
  BY <1>1 DEF LedgerInv, HoldsWellFormed
<1>4. DayTransfer(op, o, b)' = 0  BY <1>1, NoTransferDay
<1> QED  BY <1>1, <1>2, <1>3, <1>4 DEF DayHold, AdmittedOn, Live, Taken

\* An exposed hold stays reserved on its day.
LEMMA ShowsDays ==
  ASSUME BookInv, BookInv', UsageMatchesHistory, TransfersOwned, OwnersStay,
         NEW op \in Ops, Writes(op), NEW h \in Holds, Shows(op, h),
         NEW o \in Owners, NEW b \in Buckets
  PROVE  DayGoal(o, b)
<1>1. LedgerInv /\ LedgerInv' /\ Moves(op, h, "EXPOSED") /\ UNCHANGED usage
  BY DEF BookInv, Shows
<1>2. \A i \in Holds \ {h} : hold'[i] = hold[i]  BY <1>1 DEF Moves
<1>3. /\ DayHold(h, o, b, Live) = DayHold(h, o, b, Live)' /\ DayHold(h, o, b, Live) \in Int
      /\ DayHold(h, o, b, Taken) = 0 /\ DayHold(h, o, b, Taken)' = 0
      /\ DayTransfer(op, o, b)' = 0
  BY <1>1, MovesDay
<1>4. /\ usage[<<o, b>>].reserved \in Nat /\ usage[<<o, b>>].consumed \in Nat
      /\ usage[<<o, b>>].version \in Nat
  <2>1. <<o, b>> \in Owners \X Buckets  OBVIOUS
  <2>2. usage[<<o, b>>] \in Counter  BY <1>1, <2>1, UsageCounts
  <2> QED  BY <2>2 DEF Counter
<1>5. DayMoved(o, b, DayHold(h, o, b, Live)' - DayHold(h, o, b, Live),
               (DayHold(h, o, b, Taken)' - DayHold(h, o, b, Taken)) + DayTransfer(op, o, b)', 0)
  BY <1>1, <1>3, <1>4 DEF DayMoved
<1> QED  BY <1>1, <1>2, <1>5, DayMatches DEF DayGoal

\* How a settlement writes the limit row of the day its hold was admitted.
LEMMA SettlementDay ==
  ASSUME LedgerInv, NEW h \in Holds, hold[h].state # "ABSENT", NEW capture \in BOOLEAN,
         SettleUsage(h, capture), NEW o \in Owners, NEW b \in Buckets
  PROVE  LET n == hold[h].reserve.terms.principal
             here == o = hold[h].owner /\ b = hold[h].bucket
         IN  DayMoved(o, b, IF here THEN 0 - n ELSE 0, IF here /\ capture THEN n ELSE 0,
                      IF here THEN 1 ELSE 0)
<1> DEFINE s == hold[h].owner
           day == hold[h].bucket
           n == hold[h].reserve.terms.principal
           w == ResolveUsage(usage[<<s, day>>], n, capture)
<1>1. s \in Owners /\ day \in Buckets /\ <<s, day>> \in Owners \X Buckets /\ n \in Nat
  BY HoldFacts
<1>2. usage \in [Owners \X Buckets -> Counter]  BY UsageCounts
<1>3. usage[<<s, day>>] \in Counter  BY <1>1, <1>2
<1>4. usage' = [usage EXCEPT ![<<s, day>>] = w]  BY DEF SettleUsage
<1>5. usage[<<o, b>>] \in Counter
  <2>1. <<o, b>> \in Owners \X Buckets  OBVIOUS
  <2> QED  BY <1>2, <2>1
<1> HIDE DEF s, day, n
<1>6. /\ w.reserved = usage[<<s, day>>].reserved - n
      /\ w.consumed = usage[<<s, day>>].consumed + (IF capture THEN n ELSE 0)
      /\ w.version = usage[<<s, day>>].version + 1
  <2>1. CASE capture = TRUE  BY <1>1, <1>3, <2>1 DEF ResolveUsage, Touched, Counter
  <2>2. CASE capture = FALSE  BY <1>1, <1>3, <2>2 DEF ResolveUsage, Touched, Counter
  <2> QED  BY <2>1, <2>2
<1> HIDE DEF w
<1>7. [usage EXCEPT ![<<s, day>>] = w][<<o, b>>] = IF o = s /\ b = day THEN w ELSE usage[<<o, b>>]
  BY <1>1, <1>2, DayWritten
<1>8. usage'[<<o, b>>] = IF o = s /\ b = day THEN w ELSE usage[<<o, b>>]  BY <1>4, <1>7
<1>9. CASE o = s /\ b = day
  <2>1. /\ w.reserved = usage[<<o, b>>].reserved + (0 - n)
        /\ w.consumed = usage[<<o, b>>].consumed + (IF capture THEN n ELSE 0)
        /\ w.version = usage[<<o, b>>].version + 1
    BY <1>1, <1>3, <1>6, <1>9 DEF Counter
  <2> QED  BY <1>8, <1>9, <2>1 DEF DayMoved, s, day, n
<1>10. CASE ~(o = s /\ b = day)
  <2>1. usage'[<<o, b>>] = usage[<<o, b>>]  BY <1>8, <1>10
  <2>2. DayMoved(o, b, 0, 0, 0)  BY <1>5, <2>1 DEF DayMoved, Counter
  <2> QED  BY <1>10, <2>2 DEF s, day, n
<1> QED  BY <1>9, <1>10

\* A captured hold moves from reserved to consumed on its own day.
LEMMA SettlesDays ==
  ASSUME BookInv, BookInv', UsageMatchesHistory, TransfersOwned, OwnersStay,
         NEW op \in Ops, Writes(op), NEW h \in Holds, Settles(op, h),
         NEW o \in Owners, NEW b \in Buckets
  PROVE  DayGoal(o, b)
<1> DEFINE n == hold[h].reserve.terms.principal
           here == o = hold[h].owner /\ b = hold[h].bucket
           v == IF here THEN 1 ELSE 0
<1>1. LedgerInv /\ LedgerInv' /\ Moves(op, h, "CAPTURED") /\ SettleUsage(h, TRUE)
  BY DEF BookInv, Settles
<1>2. /\ \A i \in Holds \ {h} : hold'[i] = hold[i]
      /\ hold[h].state # "ABSENT"
  BY <1>1 DEF Moves, Outstanding
<1>3. /\ n \in Nat /\ DayHold(h, o, b, Live) = (IF here THEN n ELSE 0)
      /\ DayHold(h, o, b, Live)' = 0 /\ DayHold(h, o, b, Taken) = 0
      /\ DayHold(h, o, b, Taken)' = (IF here THEN n ELSE 0) /\ DayTransfer(op, o, b)' = 0
  BY <1>1, MovesDay
<1>4. DayMoved(o, b, IF here THEN 0 - n ELSE 0, IF here THEN n ELSE 0, v)
  BY <1>1, <1>2, SettlementDay
<1> HIDE DEF n, here, v
<1>5. /\ DayHold(h, o, b, Live)' - DayHold(h, o, b, Live) = IF here THEN 0 - n ELSE 0
      /\ (DayHold(h, o, b, Taken)' - DayHold(h, o, b, Taken)) + DayTransfer(op, o, b)'
           = IF here THEN n ELSE 0
  BY <1>3
<1>6. DayMoved(o, b, DayHold(h, o, b, Live)' - DayHold(h, o, b, Live),
               (DayHold(h, o, b, Taken)' - DayHold(h, o, b, Taken)) + DayTransfer(op, o, b)', v)
  BY <1>4, <1>5
<1> QED  BY <1>1, <1>2, <1>6, DayMatches DEF DayGoal

\* A released hold goes off its own day.
LEMMA GivesBackDays ==
  ASSUME BookInv, BookInv', UsageMatchesHistory, TransfersOwned, OwnersStay,
         NEW op \in Ops, Writes(op), NEW h \in Holds, GivesBack(op, h),
         NEW o \in Owners, NEW b \in Buckets
  PROVE  DayGoal(o, b)
<1> DEFINE n == hold[h].reserve.terms.principal
           here == o = hold[h].owner /\ b = hold[h].bucket
           v == IF here THEN 1 ELSE 0
<1>1. LedgerInv /\ LedgerInv' /\ Moves(op, h, "RELEASED") /\ SettleUsage(h, FALSE)
  BY DEF BookInv, GivesBack
<1>2. /\ \A i \in Holds \ {h} : hold'[i] = hold[i]
      /\ hold[h].state # "ABSENT"
  BY <1>1 DEF Moves, Outstanding
<1>3. /\ n \in Nat /\ DayHold(h, o, b, Live) = (IF here THEN n ELSE 0)
      /\ DayHold(h, o, b, Live)' = 0 /\ DayHold(h, o, b, Taken) = 0
      /\ DayHold(h, o, b, Taken)' = 0 /\ DayTransfer(op, o, b)' = 0
  BY <1>1, MovesDay
<1>4. DayMoved(o, b, IF here THEN 0 - n ELSE 0, 0, v)
  BY <1>1, <1>2, SettlementDay
<1> HIDE DEF n, here, v
<1>5. /\ DayHold(h, o, b, Live)' - DayHold(h, o, b, Live) = IF here THEN 0 - n ELSE 0
      /\ (DayHold(h, o, b, Taken)' - DayHold(h, o, b, Taken)) + DayTransfer(op, o, b)' = 0
  BY <1>3
<1>6. DayMoved(o, b, DayHold(h, o, b, Live)' - DayHold(h, o, b, Live),
               (DayHold(h, o, b, Taken)' - DayHold(h, o, b, Taken)) + DayTransfer(op, o, b)', v)
  BY <1>4, <1>5
<1> QED  BY <1>1, <1>2, <1>6, DayMatches DEF DayGoal

\* Applied transfers have a source that exists, and accounts never disappear.
LEMMA OwnedTransfersStay ==
  ASSUME BookInv, TransfersOwned, OwnersStay, NEW op \in Ops, Writes(op), Shape(op)
  PROVE  TransfersOwned'
<1> SUFFICES ASSUME NEW x \in Ops, Applied(x, Transfers)'
             PROVE  Exists(receipts[x].request.terms.source)'
  BY DEF TransfersOwned, Exists
<1>1. CASE x # op
  <2>1. receipts'[x] = receipts[x]  BY <1>1 DEF Writes
  <2>2. Applied(x, Transfers)  BY <2>1 DEF Applied
  <2>3. receipts[x].request.terms.source \in Accounts  BY <2>2, TermsTypes DEF Applied, Terms
  <2> QED  BY <2>1, <2>2, <2>3 DEF TransfersOwned, OwnersStay, Exists
<1>2. CASE x = op
  <2>1. ~NoTransfer(op)  BY <1>2 DEF NoTransfer, Applied
  <2>2. PICK r \in Transfers, now \in Times :
          TransferVerdict(r, now) = "APPLIED" /\ Pays(op, r, Bucket(now))
    BY <2>1 DEF Shape, Idle, Opens, Encumbers, Shows, Settles, GivesBack, Moves
  <2>3. Exists(r.terms.source)
    <3>1. AdmitVerdict(r, now) = "APPLIED"  BY <2>2 DEF TransferVerdict
    <3> QED  BY <3>1 DEF AdmitVerdict
  <2>4. receipts'[op].request = r /\ UNCHANGED owner  BY <2>2 DEF Pays, Receipt
  <2> QED  BY <1>2, <2>3, <2>4 DEF Exists
<1> QED  BY <1>1, <1>2

\* Whatever its shape, a command moves limit rows and admissions together.
LEMMA UsageStays ==
  ASSUME BookInv, BookInv', UsageMatchesHistory, TransfersOwned, OwnersStay,
         NEW op \in Ops, Writes(op), Shape(op)
  PROVE  UsageMatchesHistory'
<1> SUFFICES ASSUME NEW o \in Owners, NEW b \in Buckets PROVE DayGoal(o, b)
  BY DEF UsageMatchesHistory, DayGoal, Live, Taken
<1>1. CASE Idle(op)  BY <1>1, QuietDays DEF Idle
<1>2. CASE \E a \in Accounts : Opens(op, a)  BY <1>2, QuietDays DEF Opens
<1>3. CASE \E r \in Transfers, now \in Times :
             TransferVerdict(r, now) = "APPLIED" /\ Pays(op, r, Bucket(now))
  BY <1>3, PaysDays
<1>4. CASE \E r \in Reserves, now \in Times :
             ReserveVerdict(r, now) = "APPLIED" /\ Encumbers(op, r, Bucket(now))
  BY <1>4, EncumbersDays
<1>5. CASE \E h \in Holds : Shows(op, h)  BY <1>5, ShowsDays
<1>6. CASE \E h \in Holds : Settles(op, h)  BY <1>6, SettlesDays
<1>7. CASE \E h \in Holds : GivesBack(op, h)  BY <1>7, GivesBackDays
<1> QED  BY <1>1, <1>2, <1>3, <1>4, <1>5, <1>6, <1>7 DEF Shape

\* The fixture admits nothing.
LEMMA InitUsage == Init => TransfersOwned /\ UsageMatchesHistory
<1> SUFFICES ASSUME Init PROVE TransfersOwned /\ UsageMatchesHistory  OBVIOUS
<1>1. NoRequest \notin Transfers  BY IdAssumption DEF Requests
<1>2. \A x \in Ops : receipts[x].request = NoRequest  BY DEF Init, Receipt
<1>3. \A x \in Ops : ~Applied(x, Transfers)  BY <1>1, <1>2 DEF Applied
<1>4. ASSUME NEW o \in Owners, NEW b \in Buckets
      PROVE  /\ usage[<<o, b>>].reserved = HoldPrincipals(AdmittedOn(o, b, Live))
             /\ usage[<<o, b>>].consumed = HoldPrincipals(AdmittedOn(o, b, Taken))
                                           + TransferPrincipals(TransfersOn(o, b))
  <2>1. /\ AdmittedOn(o, b, Live) = {} /\ AdmittedOn(o, b, Taken) = {}
    BY DEF Init, AdmittedOn, Live, Taken
  <2>2. TransfersOn(o, b) = {}  BY <1>3 DEF TransfersOn, Applied
  <2>3. ASSUME NEW f, DOMAIN f = {} PROVE SumFunction(f) = 0
    BY <2>3, FS_EmptySet, SumZero DEF SumFunction
  <2>4. HoldPrincipals({}) = 0  BY <2>3 DEF HoldPrincipals
  <2>5. TransferPrincipals({}) = 0  BY <2>3 DEF TransferPrincipals
  <2>6. usage[<<o, b>>].reserved = 0 /\ usage[<<o, b>>].consumed = 0
    <3>1. <<o, b>> \in Owners \X Buckets  OBVIOUS
    <3> QED  BY <3>1 DEF Init
  <2> QED  BY <2>1, <2>2, <2>4, <2>5, <2>6
<1> QED  BY <1>3, <1>4 DEF TransfersOwned, UsageMatchesHistory, Live, Taken

\* Every step keeps the limit rows the sums of the admissions.
LEMMA NextUsage ==
  ASSUME BookInv, BookInv', TransfersOwned, UsageMatchesHistory, [Next]_vars
  PROVE  TransfersOwned' /\ UsageMatchesHistory'
<1>1. CASE Next
  <2>1. PICK op \in Ops : Writes(op) /\ Shape(op)  BY <1>1, NextShape DEF BookInv
  <2>2. OwnersStay  BY NextBook
  <2> QED  BY <2>1, <2>2, OwnedTransfersStay, UsageStays
<1>2. CASE UNCHANGED vars
  <2>1. UNCHANGED <<owner, usage, hold, receipts>>  BY <1>2 DEF vars
  <2>2. TransfersOwned'  BY <2>1 DEF TransfersOwned, Applied, Exists
  <2>3. ASSUME NEW o \in Owners, NEW b \in Buckets
        PROVE  /\ \A states : HoldPrincipals(AdmittedOn(o, b, states))'
                               = HoldPrincipals(AdmittedOn(o, b, states))
               /\ TransferPrincipals(TransfersOn(o, b))' = TransferPrincipals(TransfersOn(o, b))
    BY <2>1 DEF HoldPrincipals, AdmittedOn, TransferPrincipals, TransfersOn
  <2> QED  BY <2>1, <2>2, <2>3 DEF UsageMatchesHistory
<1> QED  BY <1>1, <1>2

\* Whenever a payout is resolved, on its own day or later, the limit row of the day it
\* was admitted still counts exactly the payouts and transfers of that day: Save never
\* settles a hold on the wrong row, twice, or not at all.
THEOREM UsageIsHistory == Spec => []UsageMatchesHistory
<1>1. Init => TransfersOwned /\ UsageMatchesHistory  BY InitUsage
<1>2. BookInv /\ BookInv' /\ TransfersOwned /\ UsageMatchesHistory /\ [Next]_vars
        => TransfersOwned' /\ UsageMatchesHistory'
  BY NextUsage
<1> QED  BY <1>1, <1>2, BookInvariant, PTL DEF Spec

-----------------------------------------------------------------------------
(***************************************************************************)
(* What the pools hold and what is owed.                                   *)
(***************************************************************************)
\* The fees that outstanding payouts will pay when they are captured.
FeesHeld == SumFunction([h \in {i \in Holds : Outstanding(i)} |-> hold[h].reserve.terms.fee])

\* Backed, with what makes it inductive: the fees of outstanding payouts are all that
\* the pools have to spare, and pools only ever pay out.
FullyBacked ==
  /\ PostedOn(Pools) = PostedOn(Accounts \ Pools)
  /\ AvailableOn(Pools) = AvailableOn(Accounts \ Pools) + FeesHeld
  /\ PostedOn(Pools) <= Funding
  /\ \A a \in FeeAccounts : balance[a].debits = 0

\* The sums of FullyBacked are sums of finitely many numbers.
BookSums ==
  /\ \A S \in SUBSET Accounts : /\ Summable([a \in S |-> Posted(a, balance[a])])
                                /\ Summable([a \in S |-> Available(a, balance[a])])
  /\ \A h \in Holds : Outstanding(h) => hold[h].reserve.terms.fee \in Nat
  /\ Summable([h \in {i \in Holds : Outstanding(i)} |-> hold[h].reserve.terms.fee])

\* What is posted and what is available on an account are numbers.
LEMMA PostedInt ==
  ASSUME NEW a, NEW t \in Row
  PROVE  /\ Posted(a, t) \in Int /\ Available(a, t) \in Int
         /\ a \in Pools => Posted(a, t) = t.debits - t.credits
         /\ a \notin Pools => Posted(a, t) = t.credits - t.debits
         /\ Available(a, t) = Posted(a, t) - t.held
<1>1. t.debits \in Nat /\ t.credits \in Nat /\ t.held \in Int  BY DEF Row
<1>2. Posted(a, t) = IF a \in Pools THEN t.debits - t.credits ELSE t.credits - t.debits
  BY DEF Posted, Purpose
<1> QED  BY <1>1, <1>2 DEF Available

\* Accounts, holds and their amounts are what the invariant says.
LEMMA BooksSum == LedgerInv => BookSums
<1> SUFFICES ASSUME LedgerInv PROVE BookSums  OBVIOUS
<1>1. ASSUME NEW S \in SUBSET Accounts
      PROVE  /\ Summable([a \in S |-> Posted(a, balance[a])])
             /\ Summable([a \in S |-> Available(a, balance[a])])
  <2>1. IsFiniteSet(S)  BY FiniteAssumption, FS_Subset
  <2>2. \A a \in S : Posted(a, balance[a]) \in Int /\ Available(a, balance[a]) \in Int
    BY BalanceRows, PostedInt
  <2> QED  BY <2>1, <2>2 DEF Summable
<1> DEFINE L == {i \in Holds : Outstanding(i)}
<1>2. \A h \in Holds : Outstanding(h) => hold[h].reserve.terms.fee \in Nat
  BY HoldAmounts DEF Outstanding
<1>3. IsFiniteSet(L)  BY FiniteAssumption, FS_Subset
<1>4. \A h \in L : hold[h].reserve.terms.fee \in Nat  BY <1>2
<1> HIDE DEF L
<1>5. Summable([h \in L |-> hold[h].reserve.terms.fee])  BY <1>3, <1>4 DEF Summable
<1> QED  BY <1>1, <1>2, <1>5 DEF BookSums, L

\* The same of the book after a step.
LEMMA BooksSumNext == LedgerInv' => BookSums'
BY BooksSum, PTL

\* The fee a hold stands for while it is outstanding.
FeeOf(h) == IF h \in Holds /\ Outstanding(h) THEN hold[h].reserve.terms.fee ELSE 0

\* A step that changes one hold changes the fees held by that hold's fee.
LEMMA FeesChange ==
  ASSUME LedgerInv, LedgerInv', NEW h, \A i \in Holds \ {h} : hold'[i] = hold[i]
  PROVE  /\ FeesHeld \in Int /\ FeeOf(h) \in Int /\ FeeOf(h)' \in Int
         /\ FeesHeld' = FeesHeld + FeeOf(h)' - FeeOf(h)
<1> DEFINE L == {i \in Holds : Outstanding(i)}
           M == {i \in Holds : Outstanding(i)'}
           f == [i \in L |-> hold[i].reserve.terms.fee]
           F == [i \in M |-> hold'[i].reserve.terms.fee]
<1>1. Summable(f)  BY BooksSum DEF BookSums
<1>2. Summable(F)  BY BooksSumNext DEF BookSums, Summable
<1>3. \A i \in Holds \ {h} : Outstanding(i)' <=> Outstanding(i)  BY DEF Outstanding
<1>4. DifferAt(f, F, h)  BY <1>3 DEF DifferAt
<1>5. At(f, h) = FeeOf(h) /\ At(F, h) = FeeOf(h)'  BY DEF At, FeeOf
<1>6. FeesHeld = SumFunction(f) /\ FeesHeld' = SumFunction(F)  BY DEF FeesHeld
<1> HIDE DEF f, F
<1>7. SumFunction(f) \in Int /\ SumFunction(F) = SumFunction(f) + At(F, h) - At(f, h)
  BY <1>1, <1>2, <1>4, SumChange
<1>8. At(f, h) \in Int  BY <1>1, SumRest
<1>9. At(F, h) \in Int  BY <1>2, SumRest
<1> QED  BY <1>5, <1>6, <1>7, <1>8, <1>9

\* How much a step adds to what is posted and available on every account.
Shifts(p, q) ==
  /\ p \in [Accounts -> Int] /\ q \in [Accounts -> Int]
  /\ \A a \in Accounts : /\ Posted(a, balance'[a]) = Posted(a, balance[a]) + p[a]
                         /\ Available(a, balance'[a]) = Available(a, balance[a]) + q[a]

\* What a step moves on an account, it moves on what is posted and available there.
LEMMA MovedShifts ==
  ASSUME LedgerInv, LedgerInv', NEW a \in Accounts, NEW debit \in Int, NEW credit \in Int,
         NEW held \in Int, Moved(a, debit, credit, held)
  PROVE  LET p == IF a \in Pools THEN debit - credit ELSE credit - debit
         IN  /\ Posted(a, balance'[a]) = Posted(a, balance[a]) + p
             /\ Available(a, balance'[a]) = Available(a, balance[a]) + (p - held)
<1>1. balance[a] \in Row  BY BalanceRows
<1>2. balance'[a] \in Row  BY BalanceIsRow DEF LedgerInv, TypeOK
<1>3. /\ balance[a].debits \in Nat /\ balance[a].credits \in Nat /\ balance[a].held \in Int
      /\ balance'[a].debits \in Nat /\ balance'[a].credits \in Nat /\ balance'[a].held \in Int
  BY <1>1, <1>2 DEF Row
<1>4. /\ Available(a, balance[a]) = Posted(a, balance[a]) - balance[a].held
      /\ Available(a, balance'[a]) = Posted(a, balance'[a]) - balance'[a].held
  BY <1>1, <1>2, PostedInt
<1>5. CASE a \in Pools
  <2>1. /\ Posted(a, balance[a]) = balance[a].debits - balance[a].credits
        /\ Posted(a, balance'[a]) = balance'[a].debits - balance'[a].credits
    BY <1>1, <1>2, <1>5, PostedInt
  <2> QED  BY <1>3, <1>4, <1>5, <2>1 DEF Moved
<1>6. CASE a \notin Pools
  <2>1. /\ Posted(a, balance[a]) = balance[a].credits - balance[a].debits
        /\ Posted(a, balance'[a]) = balance'[a].credits - balance'[a].debits
    BY <1>1, <1>2, <1>6, PostedInt
  <2>2. Posted(a, balance'[a]) = Posted(a, balance[a]) + (credit - debit)
    BY <1>3, <2>1 DEF Moved
  <2>3. Available(a, balance'[a]) = Available(a, balance[a]) + ((credit - debit) - held)
    <3>1. Posted(a, balance[a]) \in Int  BY <1>1, PostedInt
    <3>2. balance'[a].held = balance[a].held + held  BY DEF Moved
    <3> QED  BY <1>3, <1>4, <2>2, <3>1, <3>2
  <2> QED  BY <1>6, <2>2, <2>3
<1> QED  BY <1>5, <1>6

\* A shift of three accounts shifts a sum by those of the three it counts.
LEMMA SumsShift ==
  ASSUME LedgerInv, LedgerInv', NEW p, NEW q, Shifts(p, q), NEW S \in SUBSET Accounts,
         NEW x \in Accounts, NEW y \in Accounts, NEW z \in Accounts, x # y, x # z, y # z,
         \A a \in Accounts \ {x, y, z} : p[a] = 0 /\ q[a] = 0
  PROVE  /\ PostedOn(S) \in Int /\ AvailableOn(S) \in Int
         /\ PostedOn(S)' = PostedOn(S) + (IF x \in S THEN p[x] ELSE 0)
                             + (IF y \in S THEN p[y] ELSE 0) + (IF z \in S THEN p[z] ELSE 0)
         /\ AvailableOn(S)' = AvailableOn(S) + (IF x \in S THEN q[x] ELSE 0)
                                + (IF y \in S THEN q[y] ELSE 0) + (IF z \in S THEN q[z] ELSE 0)
<1> DEFINE f == [a \in S |-> Posted(a, balance[a])]
           F == [a \in S |-> Posted(a, balance'[a])]
           g == [a \in S |-> Available(a, balance[a])]
           G == [a \in S |-> Available(a, balance'[a])]
<1>1. Summable(f) /\ Summable(g)  BY BooksSum DEF BookSums
<1>2. Summable(F) /\ Summable(G)
  <2>1. \A a \in S : Posted(a, balance'[a]) \in Int /\ Available(a, balance'[a]) \in Int
    <3>1. \A a \in S : balance'[a] \in Row  BY BalanceIsRow DEF LedgerInv, TypeOK
    <3> QED  BY <3>1, PostedInt
  <2>2. IsFiniteSet(S)  BY FiniteAssumption, FS_Subset
  <2> QED  BY <2>1, <2>2 DEF Summable
<1>3. \A a \in Accounts : /\ p[a] \in Int /\ q[a] \in Int
                          /\ Posted(a, balance'[a]) = Posted(a, balance[a]) + p[a]
                          /\ Available(a, balance'[a]) = Available(a, balance[a]) + q[a]
  BY DEF Shifts
<1>4. \A a \in S : /\ f[a] \in Int /\ F[a] \in Int /\ g[a] \in Int /\ G[a] \in Int
                   /\ F[a] = f[a] + p[a] /\ G[a] = g[a] + q[a]
  BY <1>1, <1>2, <1>3 DEF Summable
<1>5. /\ DOMAIN f = S /\ DOMAIN F = S /\ DOMAIN g = S /\ DOMAIN G = S
      /\ PostedOn(S) = SumFunction(f) /\ PostedOn(S)' = SumFunction(F)
      /\ AvailableOn(S) = SumFunction(g) /\ AvailableOn(S)' = SumFunction(G)
  BY DEF PostedOn, AvailableOn
<1> HIDE DEF f, F, g, G
<1>6. \A a \in S \ {x, y, z} : f[a] = F[a] /\ g[a] = G[a]
  <2>1. \A a \in S \ {x, y, z} : p[a] = 0 /\ q[a] = 0  OBVIOUS
  <2> QED  BY <1>4, <2>1
<1>7. \A a \in {x, y, z} : /\ At(F, a) - At(f, a) = IF a \in S THEN p[a] ELSE 0
                           /\ At(G, a) - At(g, a) = IF a \in S THEN q[a] ELSE 0
  <2> TAKE a \in {x, y, z}
  <2>1. p[a] \in Int /\ q[a] \in Int  BY <1>3
  <2> QED  BY <1>4, <1>5, <2>1 DEF At
<1>8. /\ SumFunction(f) \in Int
      /\ SumFunction(F) = SumFunction(f) + (At(F, x) - At(f, x)) + (At(F, y) - At(f, y))
                            + (At(F, z) - At(f, z))
  BY <1>1, <1>2, <1>5, <1>6, SumMoves
<1>9. /\ SumFunction(g) \in Int
      /\ SumFunction(G) = SumFunction(g) + (At(G, x) - At(g, x)) + (At(G, y) - At(g, y))
                            + (At(G, z) - At(g, z))
  BY <1>1, <1>2, <1>5, <1>6, SumMoves
<1> QED  BY <1>5, <1>7, <1>8, <1>9

\* A step that shifts three accounts, of which the second may be a pool, keeps the book
\* backed when what it shifts adds up.
LEMMA ShiftsBack ==
  ASSUME LedgerInv, LedgerInv', FullyBacked, NEW p, NEW q, Shifts(p, q),
         NEW x \in Accounts \ Pools, NEW y \in Accounts, NEW z \in Accounts \ Pools,
         x # y, x # z, y # z, \A a \in Accounts \ {x, y, z} : p[a] = 0 /\ q[a] = 0,
         NEW fees \in Int, FeesHeld' = FeesHeld + fees,
         y \in Pools => p[y] = p[x] + p[z] /\ q[y] = q[x] + q[z] + fees /\ p[y] <= 0,
         y \notin Pools => p[x] + p[y] + p[z] = 0 /\ q[x] + q[y] + q[z] + fees = 0,
         \A a \in FeeAccounts : balance'[a].debits = 0
  PROVE  FullyBacked'
<1> DEFINE O == Accounts \ Pools
<1>1. p[x] \in Int /\ p[y] \in Int /\ p[z] \in Int /\ q[x] \in Int /\ q[y] \in Int /\ q[z] \in Int
  BY DEF Shifts
<1>2. Pools \in SUBSET Accounts /\ O \in SUBSET Accounts  BY IdAssumption
<1>3. x \notin Pools /\ z \notin Pools /\ x \in O /\ z \in O /\ (y \in O <=> y \notin Pools)
  OBVIOUS
<1> HIDE DEF O
<1>4. /\ PostedOn(Pools) \in Int /\ AvailableOn(Pools) \in Int
      /\ PostedOn(Pools)' = PostedOn(Pools) + (IF y \in Pools THEN p[y] ELSE 0)
      /\ AvailableOn(Pools)' = AvailableOn(Pools) + (IF y \in Pools THEN q[y] ELSE 0)
  <2>1. /\ PostedOn(Pools) \in Int /\ AvailableOn(Pools) \in Int
        /\ PostedOn(Pools)' = PostedOn(Pools) + (IF x \in Pools THEN p[x] ELSE 0)
             + (IF y \in Pools THEN p[y] ELSE 0) + (IF z \in Pools THEN p[z] ELSE 0)
        /\ AvailableOn(Pools)' = AvailableOn(Pools) + (IF x \in Pools THEN q[x] ELSE 0)
             + (IF y \in Pools THEN q[y] ELSE 0) + (IF z \in Pools THEN q[z] ELSE 0)
    BY <1>2, SumsShift
  <2> QED  BY <1>1, <1>3, <2>1
<1>5. /\ PostedOn(O) \in Int /\ AvailableOn(O) \in Int
      /\ PostedOn(O)' = PostedOn(O) + p[x] + (IF y \in Pools THEN 0 ELSE p[y]) + p[z]
      /\ AvailableOn(O)' = AvailableOn(O) + q[x] + (IF y \in Pools THEN 0 ELSE q[y]) + q[z]
  <2>1. /\ PostedOn(O) \in Int /\ AvailableOn(O) \in Int
        /\ PostedOn(O)' = PostedOn(O) + (IF x \in O THEN p[x] ELSE 0)
             + (IF y \in O THEN p[y] ELSE 0) + (IF z \in O THEN p[z] ELSE 0)
        /\ AvailableOn(O)' = AvailableOn(O) + (IF x \in O THEN q[x] ELSE 0)
             + (IF y \in O THEN q[y] ELSE 0) + (IF z \in O THEN q[z] ELSE 0)
    BY <1>2, SumsShift
  <2> QED  BY <1>1, <1>3, <2>1
<1>6. /\ PostedOn(Pools) = PostedOn(O) /\ AvailableOn(Pools) = AvailableOn(O) + FeesHeld
      /\ PostedOn(Pools) <= Funding
  BY DEF FullyBacked, O
<1>7. FeesHeld \in Int
  <2>1. Summable([h \in {i \in Holds : Outstanding(i)} |-> hold[h].reserve.terms.fee])
    BY BooksSum DEF BookSums
  <2> QED  BY <2>1, SumRest DEF FeesHeld
<1>8. Funding \in Int  BY BoundsAssumption DEF Amounts
<1>9. CASE y \in Pools
  <2>1. PostedOn(Pools)' = PostedOn(O)'  BY <1>1, <1>4, <1>5, <1>6, <1>9
  <2>2. AvailableOn(Pools)' = AvailableOn(O)' + FeesHeld'  BY <1>1, <1>4, <1>5, <1>6, <1>7, <1>9
  <2>3. PostedOn(Pools)' <= Funding  BY <1>1, <1>4, <1>6, <1>8, <1>9
  <2> QED  BY <2>1, <2>2, <2>3 DEF FullyBacked, O
<1>10. CASE y \notin Pools
  <2>1. PostedOn(Pools)' = PostedOn(O)'  BY <1>1, <1>4, <1>5, <1>6, <1>10
  <2>2. AvailableOn(Pools)' = AvailableOn(O)' + FeesHeld'  BY <1>1, <1>4, <1>5, <1>6, <1>7, <1>10
  <2>3. PostedOn(Pools)' <= Funding  BY <1>1, <1>4, <1>6, <1>8, <1>10
  <2> QED  BY <2>1, <2>2, <2>3 DEF FullyBacked, O
<1> QED  BY <1>9, <1>10

\* A step that leaves totals, holds and fees alone keeps the book backed.
LEMMA QuietBack ==
  ASSUME LedgerInv, LedgerInv', FullyBacked, FeesHeld' = FeesHeld,
         \A a \in Accounts : /\ balance'[a].debits = balance[a].debits
                             /\ balance'[a].credits = balance[a].credits
                             /\ balance'[a].held = balance[a].held
  PROVE  FullyBacked'
<1>1. \A a \in Accounts : /\ Posted(a, balance'[a]) = Posted(a, balance[a])
                          /\ Available(a, balance'[a]) = Available(a, balance[a])
  BY DEF Posted, Available
<1>2. ASSUME NEW S \in SUBSET Accounts
      PROVE  PostedOn(S)' = PostedOn(S) /\ AvailableOn(S)' = AvailableOn(S)
  <2> DEFINE f == [a \in S |-> Posted(a, balance[a])]
             F == [a \in S |-> Posted(a, balance'[a])]
             g == [a \in S |-> Available(a, balance[a])]
             G == [a \in S |-> Available(a, balance'[a])]
  <2>1. Summable(f) /\ Summable(g)  BY BooksSum DEF BookSums
  <2>2. /\ DOMAIN f = DOMAIN F /\ DOMAIN g = DOMAIN G
        /\ \A a \in DOMAIN f : f[a] = F[a]
        /\ \A a \in DOMAIN g : g[a] = G[a]
    BY <1>1
  <2>3. /\ PostedOn(S) = SumFunction(f) /\ PostedOn(S)' = SumFunction(F)
        /\ AvailableOn(S) = SumFunction(g) /\ AvailableOn(S)' = SumFunction(G)
    BY DEF PostedOn, AvailableOn
  <2> HIDE DEF f, F, g, G
  <2>4. SumFunction(F) = SumFunction(f)  BY <2>1, <2>2, SumStays
  <2>5. SumFunction(G) = SumFunction(g)  BY <2>1, <2>2, SumStays
  <2> QED  BY <2>3, <2>4, <2>5
<1>3. Pools \in SUBSET Accounts /\ Accounts \ Pools \in SUBSET Accounts
      /\ FeeAccounts \in SUBSET Accounts
  BY IdAssumption
<1> DEFINE O == Accounts \ Pools
<1>4. /\ PostedOn(Pools)' = PostedOn(Pools) /\ AvailableOn(Pools)' = AvailableOn(Pools)
      /\ PostedOn(O)' = PostedOn(O) /\ AvailableOn(O)' = AvailableOn(O)
  <2> HIDE DEF O
  <2> QED  BY <1>2, <1>3 DEF O
<1> QED  BY <1>3, <1>4 DEF FullyBacked

\* D leaves x for y (C of it) and z (E of it), while H more is held on x and K on y.
Deals(x, y, z, D, C, E, H, K) ==
  \A a \in Accounts :
    Moved(a, IF a = x THEN D ELSE 0, IF a = y THEN C ELSE IF a = z THEN E ELSE 0,
          IF a = x THEN H ELSE IF a = y THEN K ELSE 0)

\* A step that pays the second and third account out of the first, and holds on the first
\* and second what the second's pool and the fee will take, keeps the book backed.
LEMMA DealBack ==
  ASSUME LedgerInv, LedgerInv', FullyBacked,
         NEW x \in Accounts \ (Pools \cup FeeAccounts), NEW y \in Accounts \ FeeAccounts,
         NEW z \in FeeAccounts, x # y,
         NEW D \in Int, NEW C \in Nat, NEW E \in Int, D = C + E,
         NEW H \in Int, NEW K \in Int, NEW fees \in Int, FeesHeld' = FeesHeld + fees,
         y \in Pools => fees = H - K,
         y \notin Pools => H = 0 /\ K = 0 /\ fees = 0,
         Deals(x, y, z, D, C, E, H, K)
  PROVE  FullyBacked'
<1> DEFINE deb(a) == IF a = x THEN D ELSE 0
           cre(a) == IF a = y THEN C ELSE IF a = z THEN E ELSE 0
           hel(a) == IF a = x THEN H ELSE IF a = y THEN K ELSE 0
           post(a) == IF a \in Pools THEN deb(a) - cre(a) ELSE cre(a) - deb(a)
           p == [a \in Accounts |-> post(a)]
           q == [a \in Accounts |-> post(a) - hel(a)]
<1>1. z \in Accounts \ Pools /\ x # z /\ y # z /\ x \in Accounts \ Pools /\ y \in Accounts
  BY IdAssumption
<1>2. \A a \in Accounts : deb(a) \in Int /\ cre(a) \in Int /\ hel(a) \in Int
  OBVIOUS
<1>3. \A a \in Accounts : /\ Posted(a, balance'[a]) = Posted(a, balance[a]) + post(a)
                          /\ Available(a, balance'[a]) = Available(a, balance[a]) + (post(a) - hel(a))
  <2> TAKE a \in Accounts
  <2>1. Moved(a, deb(a), cre(a), hel(a))  BY DEF Deals
  <2> HIDE DEF deb, cre, hel
  <2> QED  BY <1>2, <2>1, MovedShifts
<1>4. /\ p \in [Accounts -> Int] /\ q \in [Accounts -> Int]
      /\ \A a \in Accounts : p[a] = post(a) /\ q[a] = post(a) - hel(a)
  <2> HIDE DEF deb, cre, hel
  <2> QED  BY <1>2
<1>5. post(x) = 0 - D /\ hel(x) = H /\ post(z) = E /\ hel(z) = 0 /\ hel(y) = K
      /\ post(y) = IF y \in Pools THEN 0 - C ELSE C
  BY <1>1
<1>6. \A a \in Accounts \ {x, y, z} : post(a) = 0 /\ hel(a) = 0  OBVIOUS
<1>7. \A a \in FeeAccounts : balance'[a].debits = 0
  <2> TAKE a \in FeeAccounts
  <2>1. a \in Accounts /\ deb(a) = 0  BY IdAssumption
  <2>2. balance'[a].debits = balance[a].debits + deb(a)  BY <2>1 DEF Moved, Deals
  <2>3. balance[a].debits = 0  BY DEF FullyBacked
  <2> QED  BY <2>1, <2>2, <2>3
<1> HIDE DEF post, hel, p, q
<1>8. Shifts(p, q)  BY <1>3, <1>4 DEF Shifts
<1>9. \A a \in Accounts \ {x, y, z} : p[a] = 0 /\ q[a] = 0  BY <1>4, <1>6
<1>10. /\ p[x] = 0 - D /\ q[x] = 0 - D - H /\ p[z] = E /\ q[z] = E
       /\ p[y] = (IF y \in Pools THEN 0 - C ELSE C)
       /\ q[y] = (IF y \in Pools THEN 0 - C ELSE C) - K
  BY <1>1, <1>4, <1>5
<1>11. y \in Pools => p[y] = p[x] + p[z] /\ q[y] = q[x] + q[z] + fees /\ p[y] <= 0
  BY <1>10
<1>12. y \notin Pools => p[x] + p[y] + p[z] = 0 /\ q[x] + q[y] + q[z] + fees = 0
  BY <1>10
<1> QED  BY <1>1, <1>7, <1>8, <1>9, <1>11, <1>12, ShiftsBack

\* A rejected command and a control update move nothing.
LEMMA IdleBack ==
  ASSUME BookInv, BookInv', FullyBacked, NEW op, Idle(op)
  PROVE  FullyBacked'
<1>1. UNCHANGED <<balance, hold>>  BY DEF Idle
<1>2. FeesHeld' = FeesHeld  BY <1>1 DEF FeesHeld, Outstanding
<1> QED  BY <1>1, <1>2, QuietBack DEF BookInv

\* A new account adds nothing to either side.
LEMMA OpensBack ==
  ASSUME BookInv, BookInv', FullyBacked, NEW op, NEW a \in Accounts, Opens(op, a)
  PROVE  FullyBacked'
<1>1. UNCHANGED hold /\ balance' = [balance EXCEPT ![a] = NewBalance] /\ ~Exists(a)
  BY DEF Opens
<1>2. balance[a].debits = 0 /\ balance[a].credits = 0 /\ balance[a].held = 0
  BY <1>1 DEF BookInv, AccountsComplete
<1>3. balance \in [Accounts -> Balance]  BY DEF BookInv, LedgerInv, TypeOK
<1>4. \A x \in Accounts : /\ balance'[x].debits = balance[x].debits
                          /\ balance'[x].credits = balance[x].credits
                          /\ balance'[x].held = balance[x].held
  BY <1>1, <1>2, <1>3 DEF NewBalance
<1>5. FeesHeld' = FeesHeld  BY <1>1 DEF FeesHeld, Outstanding
<1> QED  BY <1>4, <1>5, QuietBack DEF BookInv

\* A transfer moves money between wallets and to fee income.
LEMMA PaysBack ==
  ASSUME BookInv, BookInv', FullyBacked, NEW op, NEW r \in Transfers, NEW now \in Times,
         TransferVerdict(r, now) = "APPLIED", Pays(op, r, Bucket(now))
  PROVE  FullyBacked'
<1> DEFINE t == r.terms
           fees == Policies[t.policy].feeAccount
<1>1. LedgerInv /\ LedgerInv'  BY DEF BookInv
<1>2. balance' = PostAll(balance, TransferLines(t)) /\ UNCHANGED hold  BY DEF Pays
<1>3. /\ t.source \in Accounts \ (Pools \cup FeeAccounts)
      /\ t.beneficiary \in Accounts \ (Pools \cup FeeAccounts)
      /\ t.source # t.beneficiary /\ fees \in FeeAccounts
      /\ t.principal \in Nat /\ t.fee \in Nat
      /\ \A a \in Accounts :
           Moved(a, IF a = t.source THEN Total(t) ELSE 0,
                 IF a = t.beneficiary THEN t.principal ELSE IF a = fees THEN t.fee ELSE 0, 0)
  BY <1>1, <1>2, TransferEffect
<1>4. FeesHeld' = FeesHeld  BY <1>2 DEF FeesHeld, Outstanding
<1>5. FeesHeld \in Int
  <2>1. Summable([h \in {i \in Holds : Outstanding(i)} |-> hold[h].reserve.terms.fee])
    BY <1>1, BooksSum DEF BookSums
  <2> QED  BY <2>1, SumRest DEF FeesHeld
<1>6. FeesHeld' = FeesHeld + 0  BY <1>4, <1>5
<1> HIDE DEF t, fees
<1>7. Total(t) \in Int /\ Total(t) = t.principal + t.fee  BY <1>3 DEF Total
<1>8. \A a \in Accounts : (IF a = t.source THEN 0 ELSE IF a = t.beneficiary THEN 0 ELSE 0) = 0
  OBVIOUS
<1>9. Deals(t.source, t.beneficiary, fees, Total(t), t.principal, t.fee, 0, 0)
  BY <1>3, <1>8 DEF Deals
<1>10. /\ t.beneficiary \in Accounts \ FeeAccounts /\ t.beneficiary \notin Pools
       /\ t.fee \in Int
  BY <1>3
<1> QED  BY <1>1, <1>3, <1>6, <1>7, <1>9, <1>10, DealBack

\* A reservation sets aside on the wallet what it sets aside on the pool, and its fee.
LEMMA EncumbersBack ==
  ASSUME BookInv, BookInv', FullyBacked, NEW op, NEW r \in Reserves, NEW now \in Times,
         ReserveVerdict(r, now) = "APPLIED", Encumbers(op, r, Bucket(now))
  PROVE  FullyBacked'
<1> DEFINE t == r.terms
           fees == Policies[t.policy].feeAccount
<1>1. LedgerInv /\ LedgerInv'  BY DEF BookInv
<1>2. /\ balance' = [balance EXCEPT ![t.source] = Touched(Reserve(@, Total(t))),
                                    ![r.pool] = Touched(Reserve(@, t.principal))]
      /\ r.hold \in Holds /\ hold[r.hold].state = "ABSENT"
      /\ hold' = [hold EXCEPT ![r.hold] =
           [state |-> "RESERVED", version |-> 1, reserve |-> r, owner |-> owner[t.source],
            bucket |-> Bucket(now)]]
  BY DEF Encumbers
<1>3. /\ t.source \in Accounts \ (Pools \cup FeeAccounts)
      /\ r.pool \in Pools /\ r.pool \in Accounts /\ r.pool # t.source
      /\ t.principal \in Nat /\ t.fee \in Nat /\ t.policy \in DOMAIN Policies
      /\ \A a \in Accounts : Moved(a, 0, 0, IF a = t.source THEN Total(t)
                                            ELSE IF a = r.pool THEN t.principal ELSE 0)
  BY <1>1, <1>2, ReserveEffect
<1>4. fees \in FeeAccounts  BY <1>3, PolicyAssumption
<1>5. hold \in [Holds -> Hold]  BY <1>1 DEF LedgerInv, TypeOK
<1>6. /\ hold'[r.hold].state = "RESERVED" /\ hold'[r.hold].reserve = r
      /\ \A i \in Holds \ {r.hold} : hold'[i] = hold[i]
  BY <1>2, <1>5
<1>7. FeeOf(r.hold) = 0 /\ FeeOf(r.hold)' = t.fee  BY <1>2, <1>6 DEF FeeOf, Outstanding
<1>8. FeesHeld \in Int /\ FeesHeld' = FeesHeld + FeeOf(r.hold)' - FeeOf(r.hold)
  BY <1>1, <1>6, FeesChange
<1>9. FeesHeld' = FeesHeld + t.fee  BY <1>3, <1>7, <1>8
<1> HIDE DEF t, fees
<1>10. Total(t) \in Int /\ t.fee = Total(t) - t.principal  BY <1>3 DEF Total
<1>11. \A a \in Accounts : /\ (IF a = t.source THEN 0 ELSE 0) = 0
                           /\ (IF a = r.pool THEN 0 ELSE IF a = fees THEN 0 ELSE 0) = 0
  OBVIOUS
<1>12. Deals(t.source, r.pool, fees, 0, 0, 0, Total(t), t.principal)
  BY <1>3, <1>11 DEF Deals
<1>13. r.pool \in Accounts \ FeeAccounts  BY <1>3, IdAssumption
<1>14. t.principal \in Int /\ t.fee \in Int  BY <1>3
<1> QED  BY <1>1, <1>3, <1>4, <1>9, <1>10, <1>12, <1>13, <1>14, DealBack

\* A hold that moves stands for its fee until it is resolved.
LEMMA MovesFee ==
  ASSUME LedgerInv, LedgerInv', NEW op, NEW h \in Holds,
         NEW state \in {"EXPOSED", "CAPTURED", "RELEASED"}, Moves(op, h, state)
  PROVE  /\ FeesHeld \in Int /\ hold[h].reserve.terms.fee \in Nat
         /\ FeesHeld' = FeesHeld + (IF state = "EXPOSED" THEN 0
                                    ELSE 0 - hold[h].reserve.terms.fee)
<1>1. /\ Outstanding(h) /\ hold'[h].state = state /\ hold'[h].reserve = hold[h].reserve
      /\ \A i \in Holds \ {h} : hold'[i] = hold[i]
  BY DEF Moves
<1>2. hold[h].reserve.terms.fee \in Nat  BY <1>1, HoldAmounts DEF Outstanding
<1>3. FeeOf(h) = hold[h].reserve.terms.fee  BY <1>1 DEF FeeOf
<1>4. FeeOf(h)' = IF state = "EXPOSED" THEN hold[h].reserve.terms.fee ELSE 0
  BY <1>1 DEF FeeOf, Outstanding
<1>5. FeesHeld \in Int /\ FeesHeld' = FeesHeld + FeeOf(h)' - FeeOf(h)
  BY <1>1, FeesChange
<1> QED  BY <1>2, <1>3, <1>4, <1>5

\* An exposed hold holds what it did.
LEMMA ShowsBack ==
  ASSUME BookInv, BookInv', FullyBacked, NEW op, NEW h \in Holds, Shows(op, h)
  PROVE  FullyBacked'
<1>1. LedgerInv /\ LedgerInv' /\ Moves(op, h, "EXPOSED") /\ UNCHANGED balance
  BY DEF BookInv, Shows
<1>2. FeesHeld \in Int /\ FeesHeld' = FeesHeld + 0  BY <1>1, MovesFee
<1>3. FeesHeld' = FeesHeld  BY <1>2
<1> QED  BY <1>1, <1>3, QuietBack

\* The parties of a deal that is settled.
LEMMA DealParties ==
  ASSUME LedgerInv, NEW h \in Holds, hold[h].state # "ABSENT"
  PROVE  LET t == hold[h].reserve.terms
             pool == hold[h].reserve.pool
         IN  /\ t.source \in Accounts \ (Pools \cup FeeAccounts)
             /\ pool \in Accounts \ FeeAccounts /\ pool \in Pools /\ t.source # pool
             /\ HoldFeeAccount(h) \in FeeAccounts
             /\ t.principal \in Nat /\ t.fee \in Nat
             /\ Total(t) \in Int /\ Total(t) = t.principal + t.fee
<1>1. LET t == hold[h].reserve.terms
      IN  /\ t.source \in Accounts \ (Pools \cup FeeAccounts)
          /\ hold[h].reserve.pool \in Accounts \ FeeAccounts /\ hold[h].reserve.pool \in Pools
          /\ t.source # hold[h].reserve.pool /\ t.principal \in Nat /\ t.fee \in Nat
  BY HoldFacts
<1>2. HoldFeeAccount(h) \in FeeAccounts
  BY PolicyAssumption DEF LedgerInv, HoldsWellFormed, HoldFeeAccount
<1> QED  BY <1>1, <1>2 DEF Total

\* A capture pays out of pool and wallet what was set aside on both, and the fee.
LEMMA SettlesBack ==
  ASSUME BookInv, BookInv', FullyBacked, NEW op, NEW h \in Holds, Settles(op, h)
  PROVE  FullyBacked'
<1> DEFINE t == hold[h].reserve.terms
           pool == hold[h].reserve.pool
           fees == HoldFeeAccount(h)
<1>1. LedgerInv /\ LedgerInv'  BY DEF BookInv
<1>2. Moves(op, h, "CAPTURED") /\ balance' = PostAll(Unencumbered(h), HoldLines(h))
  BY DEF Settles
<1>3. hold[h].state # "ABSENT"  BY <1>2 DEF Moves, Outstanding
<1>4. /\ t.source \in Accounts \ (Pools \cup FeeAccounts) /\ pool \in Accounts \ FeeAccounts
      /\ pool \in Pools /\ t.source # pool /\ fees \in FeeAccounts
      /\ t.principal \in Nat /\ t.fee \in Nat
      /\ Total(t) \in Int /\ Total(t) = t.principal + t.fee
  BY <1>1, <1>3, DealParties
<1>5. \A a \in Accounts :
        Moved(a, IF a = t.source THEN Total(t) ELSE 0,
              IF a = pool THEN t.principal ELSE IF a = fees THEN t.fee ELSE 0,
              0 - (IF a = t.source THEN Total(t) ELSE IF a = pool THEN t.principal ELSE 0))
  BY <1>1, <1>2, <1>3, CaptureEffect
<1>6. FeesHeld' = FeesHeld + (0 - t.fee)  BY <1>1, <1>2, MovesFee
<1> HIDE DEF t, pool, fees
<1>7. \A a \in Accounts :
        0 - (IF a = t.source THEN Total(t) ELSE IF a = pool THEN t.principal ELSE 0)
        = IF a = t.source THEN 0 - Total(t) ELSE IF a = pool THEN 0 - t.principal ELSE 0
  BY <1>4
<1>8. Deals(t.source, pool, fees, Total(t), t.principal, t.fee, 0 - Total(t), 0 - t.principal)
  BY <1>5, <1>7 DEF Deals
<1>9. 0 - t.fee \in Int /\ 0 - Total(t) \in Int /\ 0 - t.principal \in Int /\ t.fee \in Int
      /\ 0 - t.fee = (0 - Total(t)) - (0 - t.principal)
  BY <1>4
<1> QED  BY <1>1, <1>4, <1>6, <1>8, <1>9, DealBack

\* A release returns to pool and wallet what was set aside on both.
LEMMA GivesBackBack ==
  ASSUME BookInv, BookInv', FullyBacked, NEW op, NEW h \in Holds, GivesBack(op, h)
  PROVE  FullyBacked'
<1> DEFINE t == hold[h].reserve.terms
           pool == hold[h].reserve.pool
           fees == HoldFeeAccount(h)
<1>1. LedgerInv /\ LedgerInv'  BY DEF BookInv
<1>2. /\ Moves(op, h, "RELEASED")
      /\ balance' = [x \in Accounts |->
           IF x \in {t.source, pool} THEN Touched(Unencumbered(h)[x]) ELSE balance[x]]
  BY DEF GivesBack
<1>3. hold[h].state # "ABSENT"  BY <1>2 DEF Moves, Outstanding
<1>4. /\ t.source \in Accounts \ (Pools \cup FeeAccounts) /\ pool \in Accounts \ FeeAccounts
      /\ pool \in Pools /\ t.source # pool /\ fees \in FeeAccounts
      /\ t.principal \in Nat /\ t.fee \in Nat
      /\ Total(t) \in Int /\ Total(t) = t.principal + t.fee
  BY <1>1, <1>3, DealParties
<1>5. \A a \in Accounts :
        Moved(a, 0, 0,
              0 - (IF a = t.source THEN Total(t) ELSE IF a = pool THEN t.principal ELSE 0))
  BY <1>1, <1>2, <1>3, ReleaseEffect
<1>6. FeesHeld' = FeesHeld + (0 - t.fee)  BY <1>1, <1>2, MovesFee
<1> HIDE DEF t, pool, fees
<1>7. \A a \in Accounts :
        /\ 0 - (IF a = t.source THEN Total(t) ELSE IF a = pool THEN t.principal ELSE 0)
           = IF a = t.source THEN 0 - Total(t) ELSE IF a = pool THEN 0 - t.principal ELSE 0
        /\ (IF a = t.source THEN 0 ELSE 0) = 0
        /\ (IF a = pool THEN 0 ELSE IF a = fees THEN 0 ELSE 0) = 0
  BY <1>4
<1>8. Deals(t.source, pool, fees, 0, 0, 0, 0 - Total(t), 0 - t.principal)
  BY <1>5, <1>7 DEF Deals
<1> DEFINE F == 0 - t.fee
           H == 0 - Total(t)
           K == 0 - t.principal
<1>9. F \in Int /\ H \in Int /\ K \in Int /\ F = H - K  BY <1>4
<1>10. Deals(t.source, pool, fees, 0, 0, 0, H, K) /\ FeesHeld' = FeesHeld + F  BY <1>6, <1>8
<1> HIDE DEF F, H, K
<1> QED  BY <1>1, <1>4, <1>9, <1>10, DealBack

\* Whatever its shape, a command keeps the book backed.
LEMMA BackStays ==
  ASSUME BookInv, BookInv', FullyBacked, NEW op \in Ops, Shape(op)
  PROVE  FullyBacked'
<1>1. CASE Idle(op)  BY <1>1, IdleBack
<1>2. CASE \E a \in Accounts : Opens(op, a)  BY <1>2, OpensBack
<1>3. CASE \E r \in Transfers, now \in Times :
             TransferVerdict(r, now) = "APPLIED" /\ Pays(op, r, Bucket(now))
  BY <1>3, PaysBack
<1>4. CASE \E r \in Reserves, now \in Times :
             ReserveVerdict(r, now) = "APPLIED" /\ Encumbers(op, r, Bucket(now))
  BY <1>4, EncumbersBack
<1>5. CASE \E h \in Holds : Shows(op, h)  BY <1>5, ShowsBack
<1>6. CASE \E h \in Holds : Settles(op, h)  BY <1>6, SettlesBack
<1>7. CASE \E h \in Holds : GivesBack(op, h)  BY <1>7, GivesBackBack
<1> QED  BY <1>1, <1>2, <1>3, <1>4, <1>5, <1>6, <1>7 DEF Shape

\* The fixture puts in the wallet what it puts in the pool.
LEMMA InitBack == Init => FullyBacked
<1> SUFFICES ASSUME Init PROVE FullyBacked  OBVIOUS
<1>1. Funding \in Nat  BY BoundsAssumption DEF Amounts
<1>2. /\ Pools \subseteq Accounts /\ FundedPool \in Pools /\ FeeAccounts \subseteq Accounts
      /\ FundedWallet \in Accounts \ Pools /\ FundedPool \notin FeeAccounts
  BY IdAssumption
<1> DEFINE money0(a) == IF a \in {FundedPool, FundedWallet} THEN Funding ELSE 0
<1>3. \A a \in Accounts :
        /\ balance[a].debits = IF a = FundedPool THEN Funding ELSE 0
        /\ balance[a].credits = IF a = FundedWallet THEN Funding ELSE 0
        /\ balance[a].held = 0
  BY DEF Init
<1>4. \A a \in Accounts : /\ Posted(a, balance[a]) = money0(a)
                          /\ Available(a, balance[a]) = money0(a)
  <2> TAKE a \in Accounts
  <2>1. Posted(a, balance[a]) = IF a \in Pools THEN balance[a].debits - balance[a].credits
                                               ELSE balance[a].credits - balance[a].debits
    BY DEF Posted, Purpose
  <2>2. Posted(a, balance[a]) = money0(a)  BY <1>1, <1>2, <1>3, <2>1
  <2>3. money0(a) \in Int  BY <1>1
  <2> HIDE DEF money0
  <2> QED  BY <1>3, <2>2, <2>3 DEF Available
<1>5. ASSUME NEW S \in SUBSET Accounts, NEW x \in S, x \in {FundedPool, FundedWallet},
             \A a \in S \ {x} : a \notin {FundedPool, FundedWallet}
      PROVE  PostedOn(S) = Funding /\ AvailableOn(S) = Funding
  <2> DEFINE f == [a \in S |-> Posted(a, balance[a])]
             g == [a \in S |-> Available(a, balance[a])]
  <2>1. IsFiniteSet(S)  BY FiniteAssumption, FS_Subset
  <2>2. \A a \in S : f[a] = money0(a) /\ g[a] = money0(a)  BY <1>4
  <2>3. DOMAIN f = S /\ DOMAIN g = S /\ PostedOn(S) = SumFunction(f)
        /\ AvailableOn(S) = SumFunction(g)
    BY DEF PostedOn, AvailableOn
  <2>4. \A a \in S : money0(a) \in Int /\ (a # x => money0(a) = 0) /\ money0(x) = Funding
    BY <1>1, <1>5
  <2> HIDE DEF f, g, money0
  <2>5. Summable(f) /\ Summable(g)  BY <2>1, <2>2, <2>3, <2>4 DEF Summable
  <2>6. SumFunction(f) = At(f, x)  BY <2>2, <2>3, <2>4, <2>5, SumOnly
  <2>7. SumFunction(g) = At(g, x)  BY <2>2, <2>3, <2>4, <2>5, SumOnly
  <2> QED  BY <2>2, <2>3, <2>4, <2>6, <2>7 DEF At
<1>6. PostedOn(Pools) = Funding /\ AvailableOn(Pools) = Funding  BY <1>2, <1>5
<1>7. PostedOn(Accounts \ Pools) = Funding /\ AvailableOn(Accounts \ Pools) = Funding
  BY <1>2, <1>5
<1>8. FeesHeld = 0
  <2> DEFINE f == [h \in {i \in Holds : Outstanding(i)} |-> hold[h].reserve.terms.fee]
  <2>1. DOMAIN f = {}  BY DEF Init, Outstanding
  <2>2. FeesHeld = SumFunction(f)  BY DEF FeesHeld
  <2> HIDE DEF f
  <2> QED  BY <2>1, <2>2, FS_EmptySet, SumZero DEF SumFunction
<1>9. \A a \in FeeAccounts : balance[a].debits = 0  BY <1>2, <1>3
<1> QED  BY <1>1, <1>6, <1>7, <1>8, <1>9 DEF FullyBacked

\* The fees held make the pools' surplus.
LEMMA FullyBackedIsBacked ==
  ASSUME LedgerInv, FullyBacked
  PROVE  Backed
<1> DEFINE L == {i \in Holds : Outstanding(i)}
           f == [h \in L |-> hold[h].reserve.terms.fee]
<1>1. IsFiniteSet(L)  BY FiniteAssumption, FS_Subset
<1>2. \A h \in L : hold[h].reserve.terms.fee \in Nat  BY BooksSum DEF BookSums
<1>3. DOMAIN f = L /\ FeesHeld = SumFunction(f) /\ \A h \in L : f[h] \in Nat
  BY <1>2 DEF FeesHeld
<1> HIDE DEF L, f
<1>4. FeesHeld \in Nat  BY <1>1, <1>3, SumNat DEF SumFunction
<1> DEFINE O == Accounts \ Pools
<1>5. AvailableOn(O) \in Int
  <2>1. Summable([a \in O |-> Available(a, balance[a])])  BY BooksSum DEF BookSums
  <2> QED  BY <2>1, SumRest DEF AvailableOn
<1> QED  BY <1>4, <1>5 DEF FullyBacked, Backed

\* Every reachable book is backed to the last shilling, and no pool was ever paid into.
THEOREM BookIsBacked == Spec => [](FullyBacked /\ Backed)
<1>1. Init => FullyBacked  BY InitBack
<1>2. BookInv /\ BookInv' /\ FullyBacked /\ [Next]_vars => FullyBacked'
  <2> SUFFICES ASSUME BookInv, BookInv', FullyBacked, [Next]_vars PROVE FullyBacked'  OBVIOUS
  <2>1. CASE Next
    <3>1. PICK op \in Ops : Writes(op) /\ Shape(op)  BY <2>1, NextShape DEF BookInv
    <3> QED  BY <3>1, BackStays
  <2>2. CASE UNCHANGED vars
    <3>1. UNCHANGED <<balance, hold>>  BY <2>2 DEF vars
    <3>2. FeesHeld' = FeesHeld  BY <3>1 DEF FeesHeld, Outstanding
    <3> QED  BY <3>1, <3>2, QuietBack DEF BookInv
  <2> QED  BY <2>1, <2>2
<1>3. BookInv /\ FullyBacked => Backed  BY FullyBackedIsBacked DEF BookInv
<1> QED  BY <1>1, <1>2, <1>3, BookInvariant, PTL DEF Spec

-----------------------------------------------------------------------------
(***************************************************************************)
(* Versions count commits.                                                 *)
(***************************************************************************)
OnRecord == {x \in Ops : receipts[x].outcome # "NONE"}

\* No row was written more often than there are operations on record.
VersionsCounted ==
  /\ \A a \in Accounts : balance[a].version <= Cardinality(OnRecord)
  /\ \A o \in Owners, b \in Buckets : usage[<<o, b>>].version <= Cardinality(OnRecord)

\* A command writes a row once or not at all; a new account's row starts at one.
RowsCreep ==
  \A a \in Accounts : balance'[a].version \in {balance[a].version, balance[a].version + 1, 1}
DaysCreep ==
  \A o \in Owners, b \in Buckets :
    usage'[<<o, b>>].version \in {usage[<<o, b>>].version, usage[<<o, b>>].version + 1}

\* Of the operations on a balance, NextVersion alone counts.
LEMMA RowVersions ==
  ASSUME NEW t \in Row
  PROVE  /\ Touched(t).version = t.version + 1
         /\ \A n \in Nat : /\ Reserve(t, n) \in Row /\ Reserve(t, n).version = t.version
                           /\ Unreserve(t, n) \in Row /\ Unreserve(t, n).version = t.version
         /\ \A side \in {"DEBIT", "CREDIT"}, n \in Nat :
              Post(t, side, n) \in Row /\ Post(t, side, n).version = t.version
<1>1. \A n \in Nat : [t EXCEPT !.debits = @ + n] \in Row
                     /\ [t EXCEPT !.debits = @ + n].version = t.version
  BY DEF Row
<1>2. \A n \in Nat : [t EXCEPT !.credits = @ + n] \in Row
                     /\ [t EXCEPT !.credits = @ + n].version = t.version
  BY DEF Row
<1>3. \A side \in {"DEBIT", "CREDIT"}, n \in Nat :
        Post(t, side, n) \in Row /\ Post(t, side, n).version = t.version
  <2> TAKE side \in {"DEBIT", "CREDIT"}, n \in Nat
  <2>1. CASE side = "DEBIT"
    <3>1. Post(t, side, n) = [t EXCEPT !.debits = @ + n]  BY <2>1 DEF Post
    <3> QED  BY <1>1, <3>1
  <2>2. CASE side = "CREDIT"
    <3>1. Post(t, side, n) = [t EXCEPT !.credits = @ + n]  BY <2>2 DEF Post
    <3> QED  BY <1>2, <3>1
  <2> QED  BY <2>1, <2>2
<1>4. Touched(t).version = t.version + 1  BY DEF Touched, Row
<1>5. \A n \in Nat : /\ Reserve(t, n) \in Row /\ Reserve(t, n).version = t.version
                     /\ Unreserve(t, n) \in Row /\ Unreserve(t, n).version = t.version
  BY DEF Reserve, Unreserve, Row
<1> QED  BY <1>3, <1>4, <1>5

\* A journal posts once on each account it names.
LEMMA PostAllVersions ==
  ASSUME NEW b \in [Accounts -> Row], NEW lines,
         \A l \in lines : l.side \in {"DEBIT", "CREDIT"} /\ l.amount \in Nat,
         NEW a \in Accounts
  PROVE  PostAll(b, lines)[a].version \in {b[a].version, b[a].version + 1}
<1>1. b[a] \in Row  OBVIOUS
<1>2. CASE \E l \in lines : l.account = a
  <2> DEFINE m == CHOOSE l \in lines : l.account = a
  <2>1. m \in lines  BY <1>2
  <2>2. PostAll(b, lines)[a] = Touched(Post(b[a], m.side, m.amount))  BY <1>2 DEF PostAll
  <2>3. m.side \in {"DEBIT", "CREDIT"} /\ m.amount \in Nat  BY <2>1
  <2> HIDE DEF m
  <2>4. Post(b[a], m.side, m.amount) \in Row
        /\ Post(b[a], m.side, m.amount).version = b[a].version
    BY <1>1, <2>3, RowVersions
  <2> QED  BY <2>2, <2>4, RowVersions
<1>3. CASE ~\E l \in lines : l.account = a
  <2>1. PostAll(b, lines)[a] = b[a]  BY <1>3 DEF PostAll
  <2> QED  BY <2>1
<1> QED  BY <1>2, <1>3

\* The lines of a spend are numbers on a side.
LEMMA PostingsSides ==
  ASSUME NEW source, NEW payee, NEW feeAccount, NEW principal \in Nat, NEW fee \in Nat
  PROVE  \A l \in Postings(source, payee, feeAccount, principal, fee) :
           l.side \in {"DEBIT", "CREDIT"} /\ l.amount \in Nat
BY DEF Postings, Line

\* Lifting a hold's encumbrance is not yet a write.
LEMMA UnencumberedVersions ==
  ASSUME LedgerInv, NEW h \in Holds, hold[h].state # "ABSENT", NEW a \in Accounts
  PROVE  /\ Unencumbered(h) \in [Accounts -> Row]
         /\ Unencumbered(h)[a].version = balance[a].version
<1> DEFINE r == hold[h].reserve
           t == r.terms
           b == Unencumbered(h)
<1>1. /\ t.source \in Accounts /\ r.pool \in Accounts /\ r.pool # t.source
      /\ t.principal \in Nat /\ Total(t) \in Nat
  BY HoldFacts DEF HoldTotal
<1>2. balance \in [Accounts -> Row] /\ balance[a] \in Row  BY BalanceRows
<1>3. b \in [Accounts -> Row]  BY UnencumberedEffect
<1>4. b = [balance EXCEPT ![t.source] = Unreserve(@, Total(t)),
                          ![r.pool] = Unreserve(@, t.principal)]
  BY DEF Unencumbered
<1> HIDE DEF r, t, b
<1>5. b[a] = IF a = t.source THEN Unreserve(balance[a], Total(t))
             ELSE IF a = r.pool THEN Unreserve(balance[a], t.principal) ELSE balance[a]
  BY <1>1, <1>2, <1>4
<1>6. \A n \in Nat : Unreserve(balance[a], n).version = balance[a].version
  BY <1>2, RowVersions
<1>7. b[a].version = balance[a].version  BY <1>1, <1>5, <1>6
<1> QED  BY <1>3, <1>7 DEF b

\* Whatever its shape, a command writes each balance at most once.
LEMMA ShapeRows ==
  ASSUME BookInv, NEW op, Shape(op)
  PROVE  RowsCreep
<1> SUFFICES ASSUME NEW a \in Accounts
             PROVE  balance'[a].version \in {balance[a].version, balance[a].version + 1, 1}
  BY DEF RowsCreep
<1>1. LedgerInv /\ balance \in [Accounts -> Row] /\ balance[a] \in Row
  BY BalanceRows DEF BookInv
<1>2. CASE Idle(op) \/ \E h \in Holds : Shows(op, h)  BY <1>2 DEF Idle, Shows
<1>3. CASE \E x \in Accounts : Opens(op, x)
  <2>1. PICK x \in Accounts : balance' = [balance EXCEPT ![x] = NewBalance]
    BY <1>3 DEF Opens
  <2> QED  BY <1>1, <2>1 DEF NewBalance
<1>4. CASE \E r \in Transfers, now \in Times :
             TransferVerdict(r, now) = "APPLIED" /\ Pays(op, r, Bucket(now))
  <2>1. PICK r \in Transfers : balance' = PostAll(balance, TransferLines(r.terms))
    BY <1>4 DEF Pays
  <2>2. r.terms.principal \in Nat /\ r.terms.fee \in Nat
    BY TermsTypes, BoundsAssumption DEF Terms, Amounts
  <2>3. \A l \in TransferLines(r.terms) : l.side \in {"DEBIT", "CREDIT"} /\ l.amount \in Nat
    BY <2>2, PostingsSides DEF TransferLines
  <2>4. balance'[a].version \in {balance[a].version, balance[a].version + 1}
    BY <1>1, <2>1, <2>3, PostAllVersions
  <2> QED  BY <2>4
<1>5. CASE \E r \in Reserves, now \in Times :
             ReserveVerdict(r, now) = "APPLIED" /\ Encumbers(op, r, Bucket(now))
  <2>1. PICK r \in Reserves, now \in Times :
          ReserveVerdict(r, now) = "APPLIED" /\ Encumbers(op, r, Bucket(now))
    BY <1>5
  <2> DEFINE t == r.terms
  <2>2. balance' = [balance EXCEPT ![t.source] = Touched(Reserve(@, Total(t))),
                                   ![r.pool] = Touched(Reserve(@, t.principal))]
    BY <2>1 DEF Encumbers
  <2>3. /\ t.source \in Accounts /\ r.pool \in Accounts /\ r.pool # t.source
        /\ t.principal \in Nat /\ t.fee \in Nat
    BY <1>1, <2>1, <2>2, ReserveEffect
  <2>4. Total(t) \in Nat  BY <2>3 DEF Total
  <2> HIDE DEF t
  <2>5. balance'[a] = IF a = t.source THEN Touched(Reserve(balance[a], Total(t)))
                      ELSE IF a = r.pool THEN Touched(Reserve(balance[a], t.principal))
                      ELSE balance[a]
    BY <1>1, <2>2, <2>3
  <2>6. \A n \in Nat : Touched(Reserve(balance[a], n)).version = balance[a].version + 1
    <3> TAKE n \in Nat
    <3>1. Reserve(balance[a], n) \in Row /\ Reserve(balance[a], n).version = balance[a].version
      BY <1>1, RowVersions
    <3> QED  BY <3>1, RowVersions
  <2> QED  BY <2>3, <2>4, <2>5, <2>6
<1>6. CASE \E h \in Holds : Settles(op, h)
  <2>1. PICK h \in Holds : Settles(op, h)  BY <1>6
  <2>2. hold[h].state # "ABSENT" /\ balance' = PostAll(Unencumbered(h), HoldLines(h))
    BY <2>1 DEF Settles, Moves, Outstanding
  <2>3. hold[h].reserve.terms.principal \in Nat /\ hold[h].reserve.terms.fee \in Nat
    BY <1>1, <2>2, HoldAmounts
  <2>4. \A l \in HoldLines(h) : l.side \in {"DEBIT", "CREDIT"} /\ l.amount \in Nat
    BY <2>3, PostingsSides DEF HoldLines
  <2>5. Unencumbered(h) \in [Accounts -> Row] /\ Unencumbered(h)[a].version = balance[a].version
    BY <1>1, <2>2, UnencumberedVersions
  <2>6. balance'[a].version \in {Unencumbered(h)[a].version, Unencumbered(h)[a].version + 1}
    BY <2>2, <2>4, <2>5, PostAllVersions
  <2> QED  BY <2>5, <2>6
<1>7. CASE \E h \in Holds : GivesBack(op, h)
  <2>1. PICK h \in Holds : GivesBack(op, h)  BY <1>7
  <2>2. /\ hold[h].state # "ABSENT"
        /\ balance'[a] = Touched(Unencumbered(h)[a]) \/ balance'[a] = balance[a]
    BY <2>1 DEF GivesBack, Moves, Outstanding
  <2>3. Unencumbered(h) \in [Accounts -> Row] /\ Unencumbered(h)[a].version = balance[a].version
    BY <1>1, <2>2, UnencumberedVersions
  <2>4. Touched(Unencumbered(h)[a]).version = balance[a].version + 1
    BY <2>3, RowVersions
  <2> QED  BY <2>2, <2>4
<1> QED  BY <1>2, <1>3, <1>4, <1>5, <1>6, <1>7 DEF Shape

\* So do Admit and Resolve the row of their day.
LEMMA CounterVersions ==
  ASSUME NEW u \in Counter, NEW n \in Nat, NEW flag \in BOOLEAN
  PROVE  /\ AdmitUsage(u, n, flag).version = u.version + 1
         /\ ResolveUsage(u, n, flag).version = u.version + 1
<1> DEFINE Wide == [reserved : Int, consumed : Nat, version : Nat]
<1>1. \A v \in Wide : Touched(v).version = v.version + 1  BY DEF Touched
<1>2. /\ [u EXCEPT !.reserved = @ + n] \in Wide
      /\ [u EXCEPT !.reserved = @ + n].version = u.version
      /\ [u EXCEPT !.consumed = @ + n] \in Wide
      /\ [u EXCEPT !.consumed = @ + n].version = u.version
      /\ [u EXCEPT !.reserved = @ - n] \in Wide
      /\ [u EXCEPT !.reserved = @ - n].version = u.version
  BY DEF Counter
<1>3. /\ [u EXCEPT !.reserved = @ - n, !.consumed = @ + n] \in Wide
      /\ [u EXCEPT !.reserved = @ - n, !.consumed = @ + n].version = u.version
  <2> DEFINE v == [u EXCEPT !.reserved = @ - n, !.consumed = @ + n]
             w == [reserved |-> u.reserved - n, consumed |-> u.consumed + n, version |-> u.version]
  <2>1. v = w
    <3>1. DOMAIN u = {"reserved", "consumed", "version"} /\ u = [f \in DOMAIN u |-> u[f]]
      BY DEF Counter
    <3>2. DOMAIN v = DOMAIN u /\ v = [f \in DOMAIN v |-> v[f]]  OBVIOUS
    <3>3. v["reserved"] = u.reserved - n /\ v["consumed"] = u.consumed + n
          /\ v["version"] = u.version
      BY <3>1
    <3>4. DOMAIN w = {"reserved", "consumed", "version"} /\ w = [f \in DOMAIN w |-> w[f]]
          /\ w["reserved"] = u.reserved - n /\ w["consumed"] = u.consumed + n
          /\ w["version"] = u.version
      OBVIOUS
    <3> HIDE DEF v, w
    <3>5. DOMAIN v = DOMAIN w /\ \A f \in DOMAIN w : v[f] = w[f]  BY <3>1, <3>2, <3>3, <3>4
    <3> QED  BY <3>2, <3>4, <3>5
  <2>2. u.reserved \in Nat /\ u.consumed \in Nat /\ u.version \in Nat  BY DEF Counter
  <2> HIDE DEF v
  <2>3. v \in Wide /\ v.version = u.version  BY <2>1, <2>2
  <2> QED  BY <2>3 DEF v
<1>4. CASE flag
  <2>1. /\ AdmitUsage(u, n, flag) = Touched([u EXCEPT !.reserved = @ + n])
        /\ ResolveUsage(u, n, flag) = Touched([u EXCEPT !.reserved = @ - n, !.consumed = @ + n])
    BY <1>4 DEF AdmitUsage, ResolveUsage
  <2> HIDE DEF Wide
  <2> QED  BY <1>1, <1>2, <1>3, <2>1
<1>5. CASE ~flag
  <2>1. /\ AdmitUsage(u, n, flag) = Touched([u EXCEPT !.consumed = @ + n])
        /\ ResolveUsage(u, n, flag) = Touched([u EXCEPT !.reserved = @ - n])
    BY <1>5 DEF AdmitUsage, ResolveUsage
  <2> HIDE DEF Wide
  <2> QED  BY <1>1, <1>2, <2>1
<1> QED  BY <1>4, <1>5

\* A write of one row of the day, by Admit or by Resolve.
LEMMA DayCreeps ==
  ASSUME LedgerInv, NEW x \in Owners, NEW y \in Buckets, NEW v,
         v.version = usage[<<x, y>>].version + 1, usage' = [usage EXCEPT ![<<x, y>>] = v]
  PROVE  DaysCreep /\ usage'[<<x, y>>].version = usage[<<x, y>>].version + 1
<1>1. usage \in [Owners \X Buckets -> Counter]  BY UsageCounts
<1>2. \A o \in Owners, b \in Buckets :
        usage'[<<o, b>>] = IF o = x /\ b = y THEN v ELSE usage[<<o, b>>]
  BY <1>1, DayWritten
<1> QED  BY <1>2 DEF DaysCreep

\* An admission writes the row of its owner and day.
LEMMA AdmissionCreeps ==
  ASSUME LedgerInv, NEW r \in Transfers \cup Reserves, NEW now \in Times,
         AdmitVerdict(r, now) = "APPLIED", NEW flag \in BOOLEAN,
         usage' = [usage EXCEPT ![<<owner[r.terms.source], Bucket(now)>>] =
                     AdmitUsage(@, r.terms.principal, flag)]
  PROVE  LET k == <<owner[r.terms.source], Bucket(now)>>
         IN  DaysCreep /\ usage'[k].version > 0
<1> DEFINE x == owner[r.terms.source]
           y == Bucket(now)
           n == r.terms.principal
           v == AdmitUsage(usage[<<x, y>>], n, flag)
<1>1. <<x, y>> \in Owners \X Buckets  BY AdmitUsageType DEF LedgerInv
<1>2. x \in Owners /\ y \in Buckets  BY <1>1
<1>3. usage \in [Owners \X Buckets -> Counter] /\ usage[<<x, y>>] \in Counter
  BY <1>1, UsageCounts
<1>4. n \in Nat  BY TermsTypes, BoundsAssumption DEF Terms, Amounts
<1>5. usage' = [usage EXCEPT ![<<x, y>>] = v]  BY <1>1, <1>3
<1>6. v.version = usage[<<x, y>>].version + 1  BY <1>3, <1>4, CounterVersions
<1> HIDE DEF x, y, n, v
<1>7. DaysCreep /\ usage'[<<x, y>>].version = usage[<<x, y>>].version + 1
  BY <1>2, <1>5, <1>6, DayCreeps
<1>8. usage[<<x, y>>].version \in Nat  BY <1>3 DEF Counter
<1>9. usage'[<<x, y>>].version > 0  BY <1>7, <1>8
<1> QED  BY <1>7, <1>9 DEF x, y

\* A resolution writes the row its hold was admitted on.
LEMMA ResolutionCreeps ==
  ASSUME LedgerInv, NEW h \in Holds, hold[h].state # "ABSENT", NEW flag \in BOOLEAN,
         SettleUsage(h, flag)
  PROVE  DaysCreep
<1> DEFINE x == hold[h].owner
           y == hold[h].bucket
           n == hold[h].reserve.terms.principal
           v == ResolveUsage(usage[<<x, y>>], n, flag)
<1>1. <<x, y>> \in Owners \X Buckets /\ n \in Nat  BY HoldFacts
<1>2. x \in Owners /\ y \in Buckets  BY <1>1
<1>3. usage \in [Owners \X Buckets -> Counter] /\ usage[<<x, y>>] \in Counter
  BY <1>1, UsageCounts
<1>4. usage' = [usage EXCEPT ![<<x, y>>] = v]  BY <1>1, <1>3 DEF SettleUsage
<1>5. v.version = usage[<<x, y>>].version + 1  BY <1>1, <1>3, CounterVersions
<1> HIDE DEF x, y, n, v
<1> QED  BY <1>2, <1>4, <1>5, DayCreeps

\* Whatever its shape, a command writes each limit row at most once, and a reservation
\* the row its hold names.
LEMMA ShapeDays ==
  ASSUME BookInv, NEW op, Shape(op)
  PROVE  /\ DaysCreep
         /\ \A h \in Holds : hold'[h].state # "ABSENT" =>
              \/ /\ hold[h].state # "ABSENT" /\ hold'[h].reserve = hold[h].reserve
                 /\ hold'[h].owner = hold[h].owner /\ hold'[h].bucket = hold[h].bucket
              \/ /\ Total(hold'[h].reserve.terms) <= MaxAmount
                 /\ usage'[<<hold'[h].owner, hold'[h].bucket>>].version > 0
<1> DEFINE Kept(h) == /\ hold[h].state # "ABSENT" /\ hold'[h].reserve = hold[h].reserve
                      /\ hold'[h].owner = hold[h].owner /\ hold'[h].bucket = hold[h].bucket
           New(h) == /\ Total(hold'[h].reserve.terms) <= MaxAmount
                     /\ usage'[<<hold'[h].owner, hold'[h].bucket>>].version > 0
           Goal == DaysCreep /\ \A h \in Holds : hold'[h].state # "ABSENT" => Kept(h) \/ New(h)
<1> SUFFICES Goal  OBVIOUS
<1>1. LedgerInv /\ hold \in [Holds -> Hold]  BY DEF BookInv, LedgerInv, TypeOK
<1>2. UNCHANGED usage => DaysCreep  BY DEF DaysCreep
<1>3. UNCHANGED hold => \A h \in Holds : hold'[h].state # "ABSENT" => Kept(h)  OBVIOUS
<1>4. ASSUME NEW h \in Holds, NEW state, Moves(op, h, state)
      PROVE  /\ hold[h].state # "ABSENT"
             /\ \A i \in Holds : hold'[i].state # "ABSENT" => Kept(i)
  BY <1>4 DEF Moves, Outstanding
<1>5. CASE Idle(op) \/ \E a \in Accounts : Opens(op, a)  BY <1>2, <1>3, <1>5 DEF Idle, Opens
<1>6. CASE \E r \in Transfers, now \in Times :
             TransferVerdict(r, now) = "APPLIED" /\ Pays(op, r, Bucket(now))
  <2>1. PICK r \in Transfers, now \in Times :
          TransferVerdict(r, now) = "APPLIED" /\ Pays(op, r, Bucket(now))
    BY <1>6
  <2>2. AdmitVerdict(r, now) = "APPLIED"  BY <2>1 DEF TransferVerdict
  <2>3. UNCHANGED hold /\ usage' = [usage EXCEPT ![<<owner[r.terms.source], Bucket(now)>>] =
                                      AdmitUsage(@, r.terms.principal, FALSE)]
    BY <2>1 DEF Pays
  <2>4. DaysCreep  BY <1>1, <2>2, <2>3, AdmissionCreeps
  <2> QED  BY <1>3, <2>3, <2>4
<1>7. CASE \E r \in Reserves, now \in Times :
             ReserveVerdict(r, now) = "APPLIED" /\ Encumbers(op, r, Bucket(now))
  <2>1. PICK r \in Reserves, now \in Times :
          ReserveVerdict(r, now) = "APPLIED" /\ Encumbers(op, r, Bucket(now))
    BY <1>7
  <2> DEFINE n == [state |-> "RESERVED", version |-> 1, reserve |-> r,
                   owner |-> owner[r.terms.source], bucket |-> Bucket(now)]
  <2>2. AdmitVerdict(r, now) = "APPLIED"  BY <2>1 DEF ReserveVerdict
  <2>3. /\ usage' = [usage EXCEPT ![<<owner[r.terms.source], Bucket(now)>>] =
                       AdmitUsage(@, r.terms.principal, TRUE)]
        /\ hold' = [hold EXCEPT ![r.hold] = n] /\ r.hold \in Holds
    BY <2>1 DEF Encumbers
  <2>4. DaysCreep /\ usage'[<<owner[r.terms.source], Bucket(now)>>].version > 0
    BY <1>1, <2>2, <2>3, AdmissionCreeps
  <2>5. ~(Total(r.terms) > MaxAmount)  BY <1>1, <2>2, AdmitFacts DEF LedgerInv
  <2>6. Total(r.terms) <= MaxAmount
    <3>1. Total(r.terms) \in Nat  BY TermsTypes, BoundsAssumption DEF Terms, Amounts, Total
    <3> QED  BY <2>5, <3>1, BoundsAssumption
  <2>7. n.reserve = r /\ n.owner = owner[r.terms.source] /\ n.bucket = Bucket(now)  OBVIOUS
  <2> HIDE DEF n
  <2>8. hold'[r.hold] = n /\ \A i \in Holds \ {r.hold} : hold'[i] = hold[i]  BY <1>1, <2>3
  <2>9. New(r.hold)  BY <2>4, <2>6, <2>7, <2>8
  <2>10. \A i \in Holds \ {r.hold} : hold'[i].state # "ABSENT" => Kept(i)  BY <2>8
  <2> HIDE DEF New, Kept
  <2> QED  BY <2>4, <2>9, <2>10
<1>8. CASE \E h \in Holds : Shows(op, h)
  <2>1. PICK h \in Holds : Moves(op, h, "EXPOSED") /\ UNCHANGED usage  BY <1>8 DEF Shows
  <2> QED  BY <1>2, <1>4, <2>1
<1>9. CASE \E h \in Holds : Settles(op, h)
  <2>1. PICK h \in Holds : Moves(op, h, "CAPTURED") /\ SettleUsage(h, TRUE)
    BY <1>9 DEF Settles
  <2>2. hold[h].state # "ABSENT" /\ \A i \in Holds : hold'[i].state # "ABSENT" => Kept(i)
    BY <1>4, <2>1
  <2>3. DaysCreep  BY <1>1, <2>1, <2>2, ResolutionCreeps
  <2> QED  BY <2>2, <2>3
<1>10. CASE \E h \in Holds : GivesBack(op, h)
  <2>1. PICK h \in Holds : Moves(op, h, "RELEASED") /\ SettleUsage(h, FALSE)
    BY <1>10 DEF GivesBack
  <2>2. hold[h].state # "ABSENT" /\ \A i \in Holds : hold'[i].state # "ABSENT" => Kept(i)
    BY <1>4, <2>1
  <2>3. DaysCreep  BY <1>1, <2>1, <2>2, ResolutionCreeps
  <2> QED  BY <2>2, <2>3
<1> HIDE DEF Goal
<1> QED  BY <1>5, <1>6, <1>7, <1>8, <1>9, <1>10 DEF Shape

\* A command adds one operation to the record.
LEMMA RecordGrows ==
  ASSUME NEW op \in Ops, Writes(op)
  PROVE  /\ Cardinality(OnRecord) \in Nat
         /\ Cardinality(OnRecord)' = Cardinality(OnRecord) + 1
<1>1. IsFiniteSet(OnRecord)  BY FiniteAssumption, FS_Subset DEF OnRecord
<1>2. op \notin OnRecord /\ OnRecord' = OnRecord \cup {op}  BY DEF Writes, OnRecord
<1>3. Cardinality(OnRecord \cup {op}) = Cardinality(OnRecord) + 1
  BY <1>1, <1>2, FS_AddElement
<1> QED  BY <1>1, <1>2, <1>3, FS_CardinalityType

\* Versions grow no faster than the record.
LEMMA VersionsStay ==
  ASSUME BookInv, VersionsCounted, NEW op \in Ops, Writes(op), Shape(op)
  PROVE  VersionsCounted'
<1> DEFINE c == Cardinality(OnRecord)
<1>1. c \in Nat /\ Cardinality(OnRecord)' = c + 1  BY RecordGrows
<1>2. RowsCreep /\ DaysCreep  BY ShapeRows, ShapeDays
<1>3. LedgerInv  BY DEF BookInv
<1>4. \A a \in Accounts : balance[a].version \in Nat /\ balance[a].version <= c
  BY <1>3, BalanceRows DEF Row, VersionsCounted
<1>5. \A o \in Owners, b \in Buckets :
        usage[<<o, b>>].version \in Nat /\ usage[<<o, b>>].version <= c
  BY <1>3, UsageCounts DEF Counter, VersionsCounted
<1> HIDE DEF c
<1>6. \A a \in Accounts : balance'[a].version <= c + 1
  BY <1>1, <1>2, <1>4 DEF RowsCreep
<1>7. ASSUME NEW o \in Owners, NEW b \in Buckets PROVE usage'[<<o, b>>].version <= c + 1
  <2> DEFINE v == usage[<<o, b>>].version
             w == usage'[<<o, b>>].version
  <2>1. v \in Nat /\ v <= c  BY <1>5
  <2>2. w = v \/ w = v + 1  BY <1>2 DEF DaysCreep
  <2> HIDE DEF v, w
  <2>3. w <= c + 1  BY <1>1, <2>1, <2>2
  <2> QED  BY <2>3 DEF w
<1> QED  BY <1>1, <1>6, <1>7 DEF VersionsCounted

\* What an admission checked stays true of its hold: the total is an amount, and the row
\* of its day exists.
HoldsCounted ==
  \A h \in Holds : hold[h].state # "ABSENT" =>
    HoldTotal(h) <= MaxAmount /\ usage[<<hold[h].owner, hold[h].bucket>>].version > 0

\* Holds keep their terms, and limit rows are never deleted.
LEMMA HoldsCountedStay ==
  ASSUME BookInv, HoldsCounted, NEW op \in Ops, Shape(op)
  PROVE  HoldsCounted'
<1> SUFFICES ASSUME NEW h \in Holds, hold'[h].state # "ABSENT"
             PROVE  /\ Total(hold'[h].reserve.terms) <= MaxAmount
                    /\ usage'[<<hold'[h].owner, hold'[h].bucket>>].version > 0
  BY DEF HoldsCounted, HoldTotal
<1>1. DaysCreep  BY ShapeDays
<1>2. \/ /\ hold[h].state # "ABSENT" /\ hold'[h].reserve = hold[h].reserve
         /\ hold'[h].owner = hold[h].owner /\ hold'[h].bucket = hold[h].bucket
      \/ /\ Total(hold'[h].reserve.terms) <= MaxAmount
         /\ usage'[<<hold'[h].owner, hold'[h].bucket>>].version > 0
  BY ShapeDays
<1>3. ASSUME hold[h].state # "ABSENT", hold'[h].reserve = hold[h].reserve,
             hold'[h].owner = hold[h].owner, hold'[h].bucket = hold[h].bucket
      PROVE  /\ Total(hold'[h].reserve.terms) <= MaxAmount
             /\ usage'[<<hold'[h].owner, hold'[h].bucket>>].version > 0
  <2> DEFINE x == hold[h].owner
             y == hold[h].bucket
  <2>1. LedgerInv  BY DEF BookInv
  <2>2. <<x, y>> \in Owners \X Buckets  BY <1>3, <2>1, HoldFacts
  <2>3. x \in Owners /\ y \in Buckets  BY <2>2
  <2>4. HoldTotal(h) <= MaxAmount /\ usage[<<x, y>>].version > 0  BY <1>3 DEF HoldsCounted
  <2>5. usage[<<x, y>>].version \in Nat  BY <2>1, <2>2, UsageCounts DEF Counter
  <2>6. usage'[<<x, y>>].version \in {usage[<<x, y>>].version, usage[<<x, y>>].version + 1}
    BY <1>1, <2>3 DEF DaysCreep
  <2>7. usage'[<<x, y>>].version > 0  BY <2>4, <2>5, <2>6
  <2> QED  BY <1>3, <2>4, <2>7 DEF HoldTotal
<1> QED  BY <1>2, <1>3

\* No day's total passes the width of its columns.
DaysBounded == \A o \in Owners, b \in Buckets : DayTotal(o, b) <= MaxWide

\* A cap is within the columns, and a day grows only to the cap.
LEMMA DaysStay ==
  ASSUME LedgerInv, LedgerInv', DaysBounded,
         [\A o \in Owners, b \in Buckets :
            DayTotal(o, b)' > DayTotal(o, b) =>
              /\ DayTotal(o, b)' <= control[<<"SUBJECT", o>>].dailyCap
              /\ \E p \in Payments : claim[p].state = "ABSENT" /\ claim'[p].state # "ABSENT"]_vars
  PROVE  DaysBounded'
<1> SUFFICES ASSUME NEW o \in Owners, NEW b \in Buckets PROVE DayTotal(o, b)' <= MaxWide
  BY DEF DaysBounded
<1>1. DayTotal(o, b) \in Nat /\ DayTotal(o, b) <= MaxWide  BY UsageCounts DEF DaysBounded
<1>2. DayTotal(o, b)' \in Int
  <2>1. usage'[<<o, b>>] \in Usage  BY DEF LedgerInv, TypeOK
  <2> QED  BY <2>1, BoundsAssumption DEF DayTotal, Usage, Wides
<1>3. control[<<"SUBJECT", o>>].dailyCap \in 0 .. MaxWide
  BY BoundsAssumption DEF LedgerInv, TypeOK, ControlKeys, Control, Wides
<1>4. CASE UNCHANGED vars
  <2>1. DayTotal(o, b)' = DayTotal(o, b)  BY <1>4 DEF vars, DayTotal
  <2> QED  BY <1>1, <2>1
<1>5. CASE ~UNCHANGED vars
  <2>1. DayTotal(o, b)' > DayTotal(o, b)
          => DayTotal(o, b)' <= control[<<"SUBJECT", o>>].dailyCap
    BY <1>5
  <2> QED  BY <1>1, <1>2, <1>3, <2>1, BoundsAssumption
<1> QED  BY <1>4, <1>5

\* What keeps commands from failing on the rows they find.
CountInv == VersionsCounted /\ HoldsCounted /\ DaysBounded

\* The fixture has one operation on record and no limit rows.
LEMMA InitCount == Init => CountInv
<1> SUFFICES ASSUME Init PROVE CountInv  OBVIOUS
<1>1. OnRecord = {FixtureOp}  BY IdAssumption DEF Init, Receipt, OnRecord
<1>2. Cardinality(OnRecord) = 1  BY <1>1, FS_Singleton
<1>3. \A a \in Accounts : balance[a].version <= 1
  <2>1. \A a \in Accounts : balance[a].version = 0 \/ balance[a].version = 1  BY DEF Init
  <2> QED  BY <2>1
<1>4. \A o \in Owners, b \in Buckets :
        usage[<<o, b>>] = [reserved |-> 0, consumed |-> 0, version |-> 0]
  <2>1. \A o \in Owners, b \in Buckets : <<o, b>> \in Owners \X Buckets  OBVIOUS
  <2> QED  BY <2>1 DEF Init
<1>5. VersionsCounted  BY <1>2, <1>3, <1>4 DEF VersionsCounted
<1>6. HoldsCounted  BY DEF Init, HoldsCounted
<1>7. DaysBounded
  <2>1. \A o \in Owners, b \in Buckets : DayTotal(o, b) = 0
    <3> TAKE o \in Owners, b \in Buckets
    <3>1. usage[<<o, b>>].reserved = 0 /\ usage[<<o, b>>].consumed = 0  BY <1>4
    <3> QED  BY <3>1 DEF DayTotal
  <2> QED  BY <2>1, BoundsAssumption DEF DaysBounded
<1> QED  BY <1>5, <1>6, <1>7 DEF CountInv

\* However long the book runs, no row's version passes the number of operations on
\* record, every hold has the limit row of its day, and no day passes its columns.
THEOREM CountsHold == Spec => []CountInv
<1>1. Init => CountInv  BY InitCount
<1> DEFINE Bound ==
  \A o \in Owners, b \in Buckets :
    DayTotal(o, b)' > DayTotal(o, b) =>
      /\ DayTotal(o, b)' <= control[<<"SUBJECT", o>>].dailyCap
      /\ \E p \in Payments : claim[p].state = "ABSENT" /\ claim'[p].state # "ABSENT"
<1>2. BookInv /\ BookInv' /\ CountInv /\ [Next]_vars /\ [Bound]_vars => CountInv'
  <2> SUFFICES ASSUME BookInv, BookInv', CountInv, [Next]_vars, [Bound]_vars PROVE CountInv'
    OBVIOUS
  <2>1. DaysBounded'  BY DaysStay DEF CountInv, BookInv
  <2>2. CASE Next
    <3>1. PICK op \in Ops : Writes(op) /\ Shape(op)  BY <2>2, NextShape DEF BookInv
    <3>2. VersionsCounted' /\ HoldsCounted'
      BY <3>1, VersionsStay, HoldsCountedStay DEF CountInv
    <3> QED  BY <2>1, <3>2 DEF CountInv
  <2>3. CASE UNCHANGED vars
    <3>1. UNCHANGED <<balance, usage, hold, receipts>>  BY <2>3 DEF vars
    <3>2. VersionsCounted' /\ HoldsCounted'
      BY <3>1 DEF CountInv, VersionsCounted, HoldsCounted, OnRecord, HoldTotal
    <3> QED  BY <2>1, <3>2 DEF CountInv
  <2> QED  BY <2>2, <2>3
<1>3. CapBindsAdmission => [][Bound]_vars  BY DEF CapBindsAdmission
<1> HIDE DEF Bound
<1> QED  BY <1>1, <1>2, <1>3, BookInvariant, CapHolds, PTL DEF Spec

-----------------------------------------------------------------------------
(***************************************************************************)
(* No command meets ErrIntegrity.                                          *)
(***************************************************************************)
\* The lines of a spend are on distinct accounts, positive and balanced.
LEMMA PostingsValid ==
  ASSUME NEW source \in Accounts, NEW payee \in Accounts, NEW feeAccount \in Accounts,
         source # payee, source # feeAccount, payee # feeAccount,
         NEW principal \in Nat, principal > 0, NEW fee \in Nat
  PROVE  ValidJournal(Postings(source, payee, feeAccount, principal, fee))
<1> DEFINE lines == Postings(source, payee, feeAccount, principal, fee)
           x == Line(source, "DEBIT", principal + fee)
           y == Line(payee, "CREDIT", principal)
           z == Line(feeAccount, "CREDIT", fee)
           D == {m \in lines : m.side = "DEBIT"}
           C == {m \in lines : m.side = "CREDIT"}
           d == [l \in D |-> l.amount]
           c == [l \in C |-> l.amount]
<1>1. /\ x.account = source /\ x.side = "DEBIT" /\ x.amount = principal + fee
      /\ y.account = payee /\ y.side = "CREDIT" /\ y.amount = principal
      /\ z.account = feeAccount /\ z.side = "CREDIT" /\ z.amount = fee
  BY DEF Line
<1>2. lines = {x, y} \cup (IF fee = 0 THEN {} ELSE {z})  BY DEF Postings
<1> HIDE DEF lines, x, y, z
<1>3. x # y /\ x # z /\ y # z  BY <1>1
<1>4. \A l, m \in lines : l.account = m.account => l = m  BY <1>1, <1>2
<1>5. \A l \in lines : l.amount > 0  BY <1>1, <1>2
<1>6. D = {x} /\ C = {y} \cup (IF fee = 0 THEN {} ELSE {z})  BY <1>1, <1>2
<1> HIDE DEF D, C
<1>7. IsFiniteSet(D) /\ IsFiniteSet(C)
  <2>1. \A u, v : IsFiniteSet({u} \cup {v})  BY FS_Singleton, FS_Union
  <2>2. C \subseteq {y} \cup {z}  BY <1>6
  <2> QED  BY <1>6, <2>1, <2>2, FS_Singleton, FS_Subset
<1>8. Summable(d) /\ Summable(c)  BY <1>1, <1>6, <1>7 DEF Summable
<1>9. /\ DOMAIN d \subseteq {x} /\ At(d, x) = principal + fee
      /\ DOMAIN c \subseteq {y, z} /\ At(c, y) = principal
  BY <1>1, <1>6 DEF At
<1>10. At(c, z) = fee  BY <1>1, <1>3, <1>6 DEF At
<1> HIDE DEF d, c
<1>11. SumFunction(d) = principal + fee  BY <1>8, <1>9, SumOfOne
<1>12. SumFunction(c) = principal + fee  BY <1>3, <1>8, <1>9, <1>10, SumOfTwo
<1>13. SideTotal(lines, "DEBIT") = SumFunction(d) /\ SideTotal(lines, "CREDIT") = SumFunction(c)
  BY DEF SideTotal, d, c, D, C
<1> QED  BY <1>4, <1>5, <1>11, <1>12, <1>13 DEF ValidJournal, lines

\* Source and pool carry what the hold encumbers.
LEMMA HoldIsHeld ==
  ASSUME LedgerInv, BalancesMatchHistory, NEW h \in Holds, Outstanding(h)
  PROVE  /\ balance[hold[h].reserve.terms.source].held >= HoldTotal(h)
         /\ balance[hold[h].reserve.pool].held >= hold[h].reserve.terms.principal
<1> DEFINE s == hold[h].reserve.terms.source
           p == hold[h].reserve.pool
           on(a) == [i \in HoldsOn(a) |-> HoldTotal(i)]
           from(a) == [i \in HoldsFrom(a) |-> hold[i].reserve.terms.principal]
<1>1. hold[h].state # "ABSENT"  BY DEF Outstanding
<1>2. s \in Accounts /\ p \in Accounts  BY <1>1, HoldFacts
<1>3. h \in HoldsOn(s) /\ h \in HoldsFrom(p)  BY DEF HoldsOn, HoldsFrom
<1>4. ASSUME NEW a \in Accounts
      PROVE  /\ Summable(on(a)) /\ Summable(from(a))
             /\ DOMAIN on(a) = HoldsOn(a) /\ DOMAIN from(a) = HoldsFrom(a)
             /\ \A i \in DOMAIN on(a) : on(a)[i] \in Nat
             /\ \A i \in DOMAIN from(a) : from(a)[i] \in Nat
             /\ balance[a].held = SumFunction(on(a)) + SumFunction(from(a))
  <2>1. HeldParts(a)  BY HeldSums
  <2>2. balance[a].held = HeldOn(a)  BY DEF BalancesMatchHistory
  <2> QED  BY <2>1, <2>2 DEF HeldParts, HeldOn
<1>5. on(s)[h] = HoldTotal(h) /\ from(p)[h] = hold[h].reserve.terms.principal  BY <1>3
<1> HIDE DEF s, p, on, from
<1>6. ASSUME NEW f, Summable(f), \A i \in DOMAIN f : f[i] \in Nat
      PROVE  SumFunction(f) \in Nat
  BY <1>6, SumNat DEF SumFunction, Summable
<1>7. ASSUME NEW f, Summable(f), \A i \in DOMAIN f : f[i] \in Nat, h \in DOMAIN f
      PROVE  f[h] <= SumFunction(f) /\ f[h] \in Nat
  <2>1. \A i \in DOMAIN f : f[i] >= 0  BY <1>7
  <2> QED  BY <1>7, <2>1, SumCovers
<1>8. /\ on(s)[h] <= SumFunction(on(s)) /\ SumFunction(on(s)) \in Nat
      /\ SumFunction(from(s)) \in Nat /\ on(s)[h] \in Nat
  BY <1>2, <1>3, <1>4, <1>6, <1>7
<1>9. /\ from(p)[h] <= SumFunction(from(p)) /\ SumFunction(from(p)) \in Nat
      /\ SumFunction(on(p)) \in Nat /\ from(p)[h] \in Nat
  BY <1>2, <1>3, <1>4, <1>6, <1>7
<1>10. balance[s].held >= on(s)[h]  BY <1>2, <1>4, <1>8
<1>11. balance[p].held >= from(p)[h]  BY <1>2, <1>4, <1>9
<1> QED  BY <1>5, <1>10, <1>11 DEF s, p

\* The row of its day still reserves the hold's principal.
LEMMA HoldIsReserved ==
  ASSUME LedgerInv, UsageMatchesHistory, NEW h \in Holds, Outstanding(h)
  PROVE  usage[<<hold[h].owner, hold[h].bucket>>].reserved >= hold[h].reserve.terms.principal
<1> DEFINE o == hold[h].owner
           b == hold[h].bucket
           f == [i \in AdmittedOn(o, b, Live) |-> hold[i].reserve.terms.principal]
<1>1. hold[h].state # "ABSENT"  BY DEF Outstanding
<1>2. <<o, b>> \in Owners \X Buckets  BY <1>1, HoldFacts
<1>3. o \in Owners /\ b \in Buckets  BY <1>2
<1>4. Summable(f)  BY <1>3, DaysSum DEF DaySums
<1>5. h \in DOMAIN f /\ f[h] = hold[h].reserve.terms.principal
  BY DEF AdmittedOn, Live, Outstanding
<1>6. \A i \in DOMAIN f : f[i] \in Nat
  <2>1. \A i \in AdmittedOn(o, b, Live) : i \in Holds /\ hold[i].state # "ABSENT"
    BY DEF AdmittedOn, Live
  <2> QED  BY <2>1, HoldAmounts
<1>7. usage[<<o, b>>].reserved = SumFunction(f)
  BY <1>3 DEF UsageMatchesHistory, HoldPrincipals, Live
<1> HIDE DEF f, o, b
<1>8. \A i \in DOMAIN f : f[i] >= 0  BY <1>6
<1>9. f[h] <= SumFunction(f) /\ SumFunction(f) \in Int  BY <1>4, <1>5, <1>8, SumCovers, SumRest
<1> QED  BY <1>5, <1>6, <1>7, <1>9 DEF o, b

\* A fee account has room for a fee that a wallet still holds.
LEMMA FeeHasRoom ==
  ASSUME LedgerInv, FullyBacked, NEW w \in Accounts \ (Pools \cup FeeAccounts),
         NEW a \in FeeAccounts, NEW fee \in Nat, fee <= balance[w].held
  PROVE  balance[a].credits + fee <= MaxWide
<1> DEFINE O == Accounts \ Pools
           f == [x \in O |-> Posted(x, balance[x])]
<1>1. a \in O /\ w \in O /\ a # w /\ a \notin Pools /\ O \in SUBSET Accounts
  BY IdAssumption
<1>2. Summable(f)  BY BooksSum DEF BookSums
<1>3. \A x \in Accounts : /\ balance[x].held <= Posted(x, balance[x])
                          /\ balance[x].held \in Nat /\ Posted(x, balance[x]) \in Int
  <2>1. \A x \in Accounts : balance[x] \in Balance  BY DEF LedgerInv, TypeOK
  <2>2. \A x \in Accounts : balance[x].held \in Nat  BY <2>1, BoundsAssumption DEF Balance, Wides
  <2>3. \A x \in Accounts : Posted(x, balance[x]) \in Int  BY BalanceRows, PostedInt
  <2> QED  BY <2>2, <2>3 DEF LedgerInv, NeverOverdrawn
<1>4. DOMAIN f = O /\ \A x \in O : f[x] = Posted(x, balance[x])  OBVIOUS
<1>5. PostedOn(O) = SumFunction(f)  BY DEF PostedOn
<1>6. PostedOn(O) <= Funding  BY DEF FullyBacked
<1> HIDE DEF f, O
<1>7. \A x \in DOMAIN f : f[x] >= 0  BY <1>1, <1>3, <1>4
<1>8. f[a] + f[w] <= SumFunction(f) /\ SumFunction(f) \in Int
  BY <1>1, <1>2, <1>4, <1>7, SumCovers, SumRest
<1>9. Posted(a, balance[a]) = balance[a].credits
  <2>1. balance[a] \in Row /\ balance[a].credits \in Nat  BY <1>1, BalanceRows
  <2>2. Posted(a, balance[a]) = balance[a].credits - balance[a].debits  BY <1>1, <2>1, PostedInt
  <2>3. balance[a].debits = 0  BY DEF FullyBacked
  <2> QED  BY <2>1, <2>2, <2>3
<1>10. Funding \in Nat /\ MaxWide \in Nat /\ Funding <= MaxWide  BY BoundsAssumption DEF Amounts, Wides
<1>11. f[a] = balance[a].credits /\ f[a] \in Int /\ f[w] \in Int /\ fee <= f[w]
  <2>1. f[w] = Posted(w, balance[w]) /\ f[a] = balance[a].credits  BY <1>1, <1>4, <1>9
  <2>2. f[w] \in Int /\ f[a] \in Int  BY <1>1, <1>2, <1>4 DEF Summable
  <2>3. balance[w].held <= Posted(w, balance[w]) /\ balance[w].held \in Nat  BY <1>1, <1>3
  <2> QED  BY <2>1, <2>2, <2>3
<1> QED  BY <1>5, <1>6, <1>8, <1>10, <1>11

\* Posting a line, in numbers.
LEMMA CanPostFacts ==
  ASSUME NEW a, NEW t \in Row, NEW side \in {"DEBIT", "CREDIT"}, NEW n \in Nat
  PROVE  LET q == IF (a \in Pools) <=> (side = "DEBIT") THEN n ELSE 0 - n
         IN  CanPost(a, t, side, n) <=>
               /\ (IF side = "DEBIT" THEN t.debits ELSE t.credits) + n <= MaxWide
               /\ Posted(a, t) + q >= 0
               /\ Posted(a, t) + q - t.held >= 0
<1> DEFINE u == Post(t, side, n)
           q == IF (a \in Pools) <=> (side = "DEBIT") THEN n ELSE 0 - n
<1>1. t.debits \in Nat /\ t.credits \in Nat /\ t.held \in Int  BY DEF Row
<1>2. u \in Row  BY RowVersions
<1>3. /\ u.debits = t.debits + (IF side = "DEBIT" THEN n ELSE 0)
      /\ u.credits = t.credits + (IF side = "CREDIT" THEN n ELSE 0)
      /\ u.held = t.held
  <2>1. CASE side = "DEBIT"  BY <2>1 DEF Post, Row
  <2>2. CASE side = "CREDIT"  BY <2>2 DEF Post, Row
  <2> QED  BY <2>1, <2>2
<1> HIDE DEF u
<1>4. Available(a, u) = Posted(a, u) - u.held /\ Posted(a, u) \in Int /\ Posted(a, t) \in Int
  BY <1>2, PostedInt
<1>5. Posted(a, u) = Posted(a, t) + q
  <2>1. CASE a \in Pools
    <3>1. Posted(a, u) = u.debits - u.credits /\ Posted(a, t) = t.debits - t.credits
      BY <1>2, <2>1, PostedInt
    <3> QED  BY <1>1, <1>3, <2>1, <3>1
  <2>2. CASE a \notin Pools
    <3>1. Posted(a, u) = u.credits - u.debits /\ Posted(a, t) = t.credits - t.debits
      BY <1>2, <2>2, PostedInt
    <3> QED  BY <1>1, <1>3, <2>2, <3>1
  <2> QED  BY <2>1, <2>2
<1>6. q \in Int  OBVIOUS
<1> HIDE DEF q
<1>7. Available(a, u) = Posted(a, t) + q - t.held  BY <1>6, <1>1, <1>3, <1>4, <1>5
<1>8. Solvent(a, u) <=> Posted(a, t) + q >= 0 /\ Posted(a, t) + q - t.held >= 0
  BY <1>5, <1>7 DEF Solvent
<1> QED  BY <1>8 DEF CanPost, u, q

\* What settling a hold relies on.
SoundBook ==
  BookInv /\ BalancesMatchHistory /\ UsageMatchesHistory /\ FullyBacked /\ CountInv

\* Every line of a capture can be posted once the encumbrance is lifted.
LEMMA HoldCanPost ==
  ASSUME SoundBook, NEW h \in Holds, Outstanding(h), NEW l \in HoldLines(h)
  PROVE  CanPost(l.account, Unencumbered(h)[l.account], l.side, l.amount)
<1> DEFINE t == hold[h].reserve.terms
           pool == hold[h].reserve.pool
           fees == HoldFeeAccount(h)
           b == Unencumbered(h)
<1>1. LedgerInv /\ hold[h].state # "ABSENT"  BY DEF SoundBook, BookInv, Outstanding
<1>2. /\ t.source \in Accounts \ (Pools \cup FeeAccounts) /\ pool \in Accounts \ FeeAccounts
      /\ pool \in Pools /\ t.source # pool /\ fees \in FeeAccounts
      /\ t.principal \in Nat /\ t.fee \in Nat
      /\ Total(t) \in Int /\ Total(t) = t.principal + t.fee
  BY <1>1, DealParties
<1>3. fees \in Accounts /\ fees \notin Pools /\ fees # t.source /\ fees # pool
  BY <1>2, IdAssumption
<1>4. \/ l = Line(t.source, "DEBIT", t.principal + t.fee)
      \/ l = Line(pool, "CREDIT", t.principal)
      \/ l = Line(fees, "CREDIT", t.fee)
  BY DEF HoldLines, Postings
<1>5. \A a, side, n : /\ Line(a, side, n).account = a /\ Line(a, side, n).side = side
                      /\ Line(a, side, n).amount = n
  BY DEF Line
<1>6. ASSUME NEW a \in Accounts
      PROVE  /\ b[a] \in Row /\ b[a].debits = balance[a].debits
             /\ b[a].credits = balance[a].credits
             /\ b[a].held = balance[a].held - (IF a = t.source THEN Total(t)
                                               ELSE IF a = pool THEN t.principal ELSE 0)
             /\ Posted(a, b[a]) = Posted(a, balance[a])
  <2>1. /\ b \in [Accounts -> Row] /\ b[a].debits = balance[a].debits
        /\ b[a].credits = balance[a].credits
        /\ b[a].held = balance[a].held - (IF a = t.source THEN Total(t)
                                          ELSE IF a = pool THEN t.principal ELSE 0)
    BY <1>1, UnencumberedEffect
  <2> QED  BY <2>1 DEF Posted
<1>7. balance[t.source].held >= Total(t) /\ balance[pool].held >= t.principal
  BY <1>1, HoldIsHeld DEF SoundBook, HoldTotal
<1>8. \A a \in Accounts :
        /\ balance[a].debits \in Nat /\ balance[a].credits \in Nat /\ balance[a].held \in Nat
        /\ balance[a].debits <= MaxWide /\ balance[a].credits <= MaxWide
        /\ balance[a].held <= Posted(a, balance[a]) /\ Posted(a, balance[a]) \in Int
        /\ a \in FeeAccounts => balance[a].held = 0
        /\ a \in Pools => Posted(a, balance[a]) = balance[a].debits - balance[a].credits
        /\ a \notin Pools => Posted(a, balance[a]) = balance[a].credits - balance[a].debits
  <2> TAKE a \in Accounts
  <2>1. balance[a] \in Balance /\ balance[a] \in Row  BY <1>1, BalanceRows DEF LedgerInv, TypeOK
  <2>2. /\ balance[a].debits \in Nat /\ balance[a].credits \in Nat /\ balance[a].held \in Nat
        /\ balance[a].debits <= MaxWide /\ balance[a].credits <= MaxWide
    BY <2>1, BoundsAssumption DEF Balance, Wides
  <2>3. /\ balance[a].held <= Posted(a, balance[a])
        /\ a \in FeeAccounts => balance[a].held = 0
    BY <1>1 DEF LedgerInv, NeverOverdrawn
  <2>4. /\ Posted(a, balance[a]) \in Int
        /\ a \in Pools => Posted(a, balance[a]) = balance[a].debits - balance[a].credits
        /\ a \notin Pools => Posted(a, balance[a]) = balance[a].credits - balance[a].debits
    BY <2>1, PostedInt
  <2> QED  BY <2>2, <2>3, <2>4
<1>9. balance[fees].credits + t.fee <= MaxWide
  <2>1. balance[t.source].held \in Nat /\ t.fee <= Total(t)  BY <1>2, <1>8
  <2>2. t.fee <= balance[t.source].held  BY <1>2, <1>7, <2>1
  <2>3. FullyBacked  BY DEF SoundBook
  <2> HIDE DEF t, fees
  <2> QED  BY <1>1, <1>2, <2>2, <2>3, FeeHasRoom
<1>10. MaxWide \in Nat  BY BoundsAssumption
<1> HIDE DEF t, pool, fees, b
<1>11. CASE l = Line(t.source, "DEBIT", t.principal + t.fee)
  <2> DEFINE a == t.source
             P == Posted(a, balance[a])
             H == balance[a].held
             n == Total(t)
  <2>1. /\ l.account = a /\ l.side = "DEBIT" /\ l.amount = n  BY <1>2, <1>5, <1>11
  <2>2. a \in Accounts /\ a \notin Pools /\ n \in Nat  BY <1>2
  <2>3. b[a] \in Row /\ b[a].debits = balance[a].debits /\ b[a].held = H - n
        /\ Posted(a, b[a]) = P
    BY <1>6, <2>2
  <2>4. /\ balance[a].debits \in Nat /\ balance[a].credits \in Nat /\ balance[a].credits <= MaxWide
        /\ H \in Nat /\ H <= P /\ n <= H /\ P \in Int
        /\ P = balance[a].credits - balance[a].debits
    BY <1>7, <1>8, <2>2
  <2> HIDE DEF a, P, H, n
  <2>5. balance[a].debits + n <= MaxWide  BY <1>10, <2>2, <2>4
  <2>6. P + (0 - n) >= 0 /\ P + (0 - n) - (H - n) >= 0  BY <2>2, <2>4
  <2>7. CanPost(a, b[a], "DEBIT", n) <=>
          /\ b[a].debits + n <= MaxWide
          /\ Posted(a, b[a]) + (0 - n) >= 0
          /\ Posted(a, b[a]) + (0 - n) - b[a].held >= 0
    BY <2>2, <2>3, CanPostFacts
  <2>8. CanPost(a, b[a], "DEBIT", n)  BY <2>3, <2>5, <2>6, <2>7
  <2>9. CanPost(l.account, b[l.account], l.side, l.amount)  BY <2>1, <2>8
  <2> QED  BY <2>9 DEF b
<1>12. CASE l = Line(pool, "CREDIT", t.principal)
  <2> DEFINE P == Posted(pool, balance[pool])
             H == balance[pool].held
             n == t.principal
  <2>1. /\ l.account = pool /\ l.side = "CREDIT" /\ l.amount = n  BY <1>5, <1>12
  <2>2. pool \in Accounts /\ pool \in Pools /\ n \in Nat  BY <1>2
  <2>3. b[pool] \in Row /\ b[pool].credits = balance[pool].credits /\ b[pool].held = H - n
        /\ Posted(pool, b[pool]) = P
    BY <1>2, <1>6, <2>2
  <2>4. /\ balance[pool].debits \in Nat /\ balance[pool].credits \in Nat
        /\ balance[pool].debits <= MaxWide /\ H \in Nat /\ H <= P /\ n <= H /\ P \in Int
        /\ P = balance[pool].debits - balance[pool].credits
    BY <1>7, <1>8, <2>2
  <2> HIDE DEF P, H, n
  <2>5. balance[pool].credits + n <= MaxWide  BY <1>10, <2>2, <2>4
  <2>6. P + (0 - n) >= 0 /\ P + (0 - n) - (H - n) >= 0  BY <2>2, <2>4
  <2>7. CanPost(pool, b[pool], "CREDIT", n) <=>
          /\ b[pool].credits + n <= MaxWide
          /\ Posted(pool, b[pool]) + (0 - n) >= 0
          /\ Posted(pool, b[pool]) + (0 - n) - b[pool].held >= 0
    BY <2>2, <2>3, CanPostFacts
  <2>8. CanPost(pool, b[pool], "CREDIT", n)  BY <2>3, <2>5, <2>6, <2>7
  <2>9. CanPost(l.account, b[l.account], l.side, l.amount)  BY <2>1, <2>8
  <2> QED  BY <2>9 DEF b
<1>13. CASE l = Line(fees, "CREDIT", t.fee)
  <2> DEFINE P == Posted(fees, balance[fees])
             H == balance[fees].held
             n == t.fee
  <2>1. /\ l.account = fees /\ l.side = "CREDIT" /\ l.amount = n  BY <1>5, <1>13
  <2>2. fees \in Accounts /\ fees \notin Pools /\ fees \in FeeAccounts /\ n \in Nat  BY <1>2, <1>3
  <2>3. H = 0 /\ H <= P /\ P \in Int  BY <1>8, <2>2
  <2>4. b[fees] \in Row /\ b[fees].credits = balance[fees].credits /\ b[fees].held = 0
        /\ Posted(fees, b[fees]) = P
    BY <1>2, <1>3, <1>6, <2>2, <2>3
  <2>5. balance[fees].credits + n <= MaxWide  BY <1>9
  <2> HIDE DEF P, H, n
  <2>6. P + n >= 0 /\ P + n - 0 >= 0  BY <2>2, <2>3
  <2>7. CanPost(fees, b[fees], "CREDIT", n) <=>
          /\ b[fees].credits + n <= MaxWide
          /\ Posted(fees, b[fees]) + n >= 0
          /\ Posted(fees, b[fees]) + n - b[fees].held >= 0
    BY <2>2, <2>4, CanPostFacts
  <2>8. CanPost(fees, b[fees], "CREDIT", n)  BY <2>4, <2>5, <2>6, <2>7 DEF n
  <2>9. CanPost(l.account, b[l.account], l.side, l.amount)  BY <2>1, <2>8
  <2> QED  BY <2>9 DEF b
<1> QED  BY <1>4, <1>11, <1>12, <1>13

\* An outstanding hold can be captured or released, while versions last.
LEMMA HoldResolves ==
  ASSUME SoundBook, Cardinality(OnRecord) < MaxVersion, NEW h \in Holds, Outstanding(h),
         NEW capture \in BOOLEAN
  PROVE  ~ResolveFaults(h, capture)
<1> DEFINE r == hold[h].reserve
           t == r.terms
           u == usage[<<hold[h].owner, hold[h].bucket>>]
           fees == HoldFeeAccount(h)
           c == Cardinality(OnRecord)
<1>1. LedgerInv /\ hold[h].state # "ABSENT"  BY DEF SoundBook, BookInv, Outstanding
<1>2. /\ t.source \in Accounts \ (Pools \cup FeeAccounts) /\ r.pool \in Accounts \ FeeAccounts
      /\ r.pool \in Pools /\ t.source # r.pool /\ fees \in FeeAccounts
      /\ t.principal \in Nat /\ t.fee \in Nat
      /\ Total(t) \in Int /\ Total(t) = t.principal + t.fee
  BY <1>1, DealParties
<1>3. fees \in Accounts /\ fees # t.source /\ fees # r.pool  BY <1>2, IdAssumption
<1>4. c \in Nat
  <2>1. IsFiniteSet(OnRecord)  BY FiniteAssumption, FS_Subset DEF OnRecord
  <2> QED  BY <2>1, FS_CardinalityType
<1>5. MaxVersion \in Nat /\ MaxWide \in Nat /\ MaxAmount \in Nat  BY BoundsAssumption
<1>6. \A a \in Accounts : HasNext(balance[a].version)
  <2>1. \A a \in Accounts : balance[a].version \in Nat  BY <1>1, BalanceRows DEF Row
  <2>2. \A a \in Accounts : balance[a].version <= c
    BY DEF SoundBook, CountInv, VersionsCounted
  <2> HIDE DEF c
  <2>3. c < MaxVersion  BY DEF c
  <2> QED  BY <1>4, <1>5, <2>1, <2>2, <2>3 DEF HasNext
<1>7. hold[h].owner \in Owners /\ hold[h].bucket \in Buckets
      /\ <<hold[h].owner, hold[h].bucket>> \in Owners \X Buckets
  BY <1>1, HoldFacts DEF LedgerInv, HoldsWellFormed
<1>8. u.reserved \in Nat /\ u.consumed \in Nat /\ u.version \in Nat
  BY <1>1, <1>7, UsageCounts DEF Counter
<1>9. u.version > 0 /\ HoldTotal(h) <= MaxAmount
  BY <1>1 DEF SoundBook, CountInv, HoldsCounted
<1>10. HasNext(u.version)
  <2>1. u.version <= c  BY <1>7 DEF SoundBook, CountInv, VersionsCounted
  <2> HIDE DEF c, u
  <2>2. c < MaxVersion  BY DEF c
  <2> QED  BY <1>4, <1>5, <1>8, <2>1, <2>2 DEF HasNext
<1>11. u.reserved >= t.principal  BY <1>1, HoldIsReserved DEF SoundBook
<1>12. u.reserved + u.consumed <= MaxWide
  BY <1>7 DEF SoundBook, CountInv, DaysBounded, DayTotal
<1>13. balance[t.source].held >= HoldTotal(h) /\ balance[r.pool].held >= t.principal
  BY <1>1, HoldIsHeld DEF SoundBook
<1>14. \A l \in HoldLines(h) :
         CanPost(l.account, Unencumbered(h)[l.account], l.side, l.amount)
  BY HoldCanPost
<1>15. ValidJournal(HoldLines(h))
  <2>1. t.principal > 0
    <3>1. t \in Terms  BY <1>1, HoldFacts
    <3> QED  BY <3>1, BoundsAssumption DEF Terms, Amounts
  <2>2. HoldLines(h) = Postings(t.source, r.pool, fees, t.principal, t.fee)  BY DEF HoldLines
  <2> HIDE DEF t, r, fees
  <2> QED  BY <1>2, <1>3, <2>1, <2>2, PostingsValid
<1>16. u.consumed + t.principal <= MaxWide
  <2> HIDE DEF u, t
  <2> QED  BY <1>2, <1>5, <1>8, <1>11, <1>12
<1> DEFINE touched == {t.source, r.pool} \cup
                        (IF capture /\ t.fee > 0 THEN {fees} ELSE {})
<1>17. \A a \in touched : HasNext(balance[a].version)
  <2>1. touched \subseteq Accounts  BY <1>2, <1>3
  <2> HIDE DEF touched
  <2> QED  BY <1>6, <2>1
<1>18. \A a \in Accounts : balance[a].held \in Int  BY <1>1, BalanceRows
<1>19. /\ ~(HoldTotal(h) > MaxAmount) /\ ~(balance[t.source].held < HoldTotal(h))
       /\ ~(balance[r.pool].held < t.principal)
  <2>1. HoldTotal(h) \in Nat  BY <1>1, HoldFacts
  <2>2. balance[t.source].held \in Int /\ balance[r.pool].held \in Int  BY <1>2, <1>18
  <2> HIDE DEF t, r
  <2> QED  BY <1>2, <1>5, <1>9, <1>13, <2>1, <2>2
<1>20. u.version # 0 /\ ~(u.reserved < t.principal) /\ ~(u.consumed + t.principal > MaxWide)
  <2> HIDE DEF u, t
  <2> QED  BY <1>2, <1>5, <1>8, <1>9, <1>11, <1>16
<1> SUFFICES ASSUME ResolveFaults(h, capture) PROVE FALSE  OBVIOUS
<1>21. \/ HoldTotal(h) > MaxAmount
       \/ balance[t.source].held < HoldTotal(h)
       \/ balance[r.pool].held < t.principal
       \/ \E a \in touched : ~HasNext(balance[a].version)
       \/ u.version = 0 \/ ~HasNext(u.version)
       \/ u.reserved < t.principal
       \/ u.consumed + t.principal > MaxWide
       \/ ~ValidJournal(HoldLines(h))
       \/ \E l \in HoldLines(h) :
            ~CanPost(l.account, Unencumbered(h)[l.account], l.side, l.amount)
  BY DEF ResolveFaults
<1> HIDE DEF touched, u, t, r
<1> QED  BY <1>10, <1>14, <1>15, <1>17, <1>19, <1>20, <1>21

\* The rows an admission reads exist: the wallet's controls, the policy's fee
\* account and a balance that covers what is held on it.
LEMMA AdmitSound ==
  ASSUME BookInv, NEW r \in Transfers \cup Reserves, NEW now \in Times
  PROVE  AdmitVerdict(r, now) # "ErrIntegrity"
<1> DEFINE t == r.terms
           a == t.source
<1>1. LedgerInv /\ AccountsComplete  BY DEF BookInv
<1>2. a \in Accounts  BY TermsTypes DEF Terms
<1>3. Exists(a) => HasControls(a)  BY <1>1, <1>2 DEF AccountsComplete
<1>4. t.policy \in DOMAIN Policies => Exists(Policies[t.policy].feeAccount)
  BY <1>1, PolicyAssumption DEF AccountsComplete
<1>5. Solvent(a, balance[a])
  <2>1. balance[a] \in Row /\ balance[a].held \in Nat
    BY <1>1, <1>2, BalanceRows, BoundsAssumption DEF LedgerInv, TypeOK, Balance, Wides
  <2>2. balance[a].held <= Posted(a, balance[a])  BY <1>1, <1>2 DEF LedgerInv, NeverOverdrawn
  <2>3. Posted(a, balance[a]) \in Int
        /\ Available(a, balance[a]) = Posted(a, balance[a]) - balance[a].held
    BY <2>1, PostedInt
  <2> HIDE DEF a
  <2>4. Posted(a, balance[a]) >= 0 /\ Available(a, balance[a]) >= 0  BY <2>1, <2>2, <2>3
  <2> QED  BY <2>4 DEF Solvent
<1> QED  BY <1>3, <1>4, <1>5 DEF AdmitVerdict

\* A transfer finds its beneficiary's controls, and its journal balances.
LEMMA TransferSound ==
  ASSUME BookInv, NEW r \in Transfers, NEW now \in Times
  PROVE  TransferVerdict(r, now) # "ErrIntegrity"
<1> DEFINE t == r.terms
           fees == Policies[t.policy].feeAccount
<1>1. LedgerInv /\ AccountsComplete /\ r \in Transfers \cup Reserves  BY DEF BookInv
<1>2. AdmitVerdict(r, now) # "ErrIntegrity"  BY <1>1, AdmitSound
<1>3. /\ t.source \in Accounts /\ t.beneficiary \in Accounts
      /\ t.principal \in Nat /\ t.principal > 0 /\ t.fee \in Nat
  <2>1. t \in Terms  BY <1>1, TermsTypes
  <2>2. t.principal \in Amounts \ {0} /\ t.fee \in Amounts  BY <2>1 DEF Terms
  <2>3. t.principal \in Nat /\ t.principal > 0 /\ t.fee \in Nat
    BY <2>2, BoundsAssumption DEF Amounts
  <2> QED  BY <2>1, <2>3 DEF Terms
<1>4. Exists(t.beneficiary) => HasControls(t.beneficiary)  BY <1>1, <1>3 DEF AccountsComplete
<1>5. ASSUME AdmitVerdict(r, now) = "APPLIED", t.source # t.beneficiary,
             Purpose(t.beneficiary) = "WALLET"
      PROVE  ValidJournal(TransferLines(t))
  <2>1. t.source \notin Pools \cup FeeAccounts /\ t.policy \in DOMAIN Policies
    BY <1>1, <1>5, AdmitFacts DEF LedgerInv
  <2>2. fees \in FeeAccounts  BY <2>1, PolicyAssumption
  <2>3. t.beneficiary \notin FeeAccounts  BY <1>5 DEF Purpose
  <2>4. fees \in Accounts /\ t.source # fees /\ t.beneficiary # fees
    BY <2>1, <2>2, <2>3, IdAssumption
  <2>5. TransferLines(t) = Postings(t.source, t.beneficiary, fees, t.principal, t.fee)
    BY DEF TransferLines
  <2> HIDE DEF t, fees
  <2> QED  BY <1>3, <1>5, <2>4, <2>5, PostingsValid
<1> QED  BY <1>2, <1>4, <1>5 DEF TransferVerdict

\* A reservation finds its policy's pool and the pool's controls.
LEMMA ReserveSound ==
  ASSUME BookInv, NEW r \in Reserves, NEW now \in Times
  PROVE  ReserveVerdict(r, now) # "ErrIntegrity"
<1> DEFINE p == Policies[r.terms.policy]
<1>1. LedgerInv /\ AccountsComplete /\ r \in Transfers \cup Reserves  BY DEF BookInv
<1>2. AdmitVerdict(r, now) # "ErrIntegrity"  BY <1>1, AdmitSound
<1>3. ASSUME AdmitVerdict(r, now) = "APPLIED", r.pool = p.pool
      PROVE  Exists(r.pool) /\ HasControls(r.pool)
  <2>1. r.terms.policy \in DOMAIN Policies  BY <1>1, <1>3, AdmitFacts DEF LedgerInv
  <2>2. p.pool \in Pools  BY <2>1, PolicyAssumption
  <2> QED  BY <1>1, <1>3, <2>2, IdAssumption DEF AccountsComplete
<1>4. \A a, amount : EncumberVerdict(a, amount) # "ErrIntegrity"  BY DEF EncumberVerdict
<1> QED  BY <1>2, <1>3, <1>4 DEF ReserveVerdict

\* A command on a hold finds the payment's claim, and the claim names the hold.
LEMMA RefSound ==
  ASSUME BookInv, NEW r \in Exposes \cup Captures \cup Releases
  PROVE  RefVerdict(r) # "ErrIntegrity"
<1> DEFINE h == r.ref.hold
<1>1. h \in Holds  BY RefTypes
<1>2. hold[h].state # "ABSENT" =>
        /\ claim[hold[h].reserve.terms.payment].hold = h
        /\ claim[hold[h].reserve.terms.payment].state = hold[h].state
  BY <1>1 DEF BookInv, LedgerInv, HoldClaimAgreement
<1> QED  BY <1>2 DEF RefVerdict

\* Exposing a hold finds its wallet, its pool and their controls.
LEMMA ExposeSound ==
  ASSUME BookInv, NEW r \in Exposes, NEW now \in Times
  PROVE  ExposeVerdict(r, now, TRUE) # "ErrIntegrity"
<1> DEFINE h == r.ref.hold
           source == hold[h].reserve.terms.source
           pool == hold[h].reserve.pool
<1>1. r \in Exposes \cup Captures \cup Releases /\ LedgerInv /\ AccountsComplete
  BY DEF BookInv
<1>2. RefVerdict(r) # "ErrIntegrity" /\ h \in Holds  BY <1>1, RefSound, RefTypes
<1>3. ASSUME RefVerdict(r) = "APPLIED"
      PROVE  Exists(source) /\ HasControls(source) /\ Exists(pool) /\ HasControls(pool)
  <2>1. hold[h].state # "ABSENT"  BY <1>3 DEF RefVerdict
  <2>2. Exists(source) /\ Exists(pool)  BY <1>2, <2>1, HoldAccountsExist
  <2>3. source \in Accounts /\ pool \in Accounts  BY <1>1, <1>2, <2>1, DealParties
  <2> QED  BY <1>1, <2>2, <2>3 DEF AccountsComplete
<1> QED  BY <1>2, <1>3 DEF ExposeVerdict

\* No command meets ErrIntegrity in a sound book.
LEMMA SoundNeverFaults ==
  SoundBook => (Cardinality(OnRecord) < MaxVersion => NoIntegrityFault)
<1> SUFFICES ASSUME SoundBook, Cardinality(OnRecord) < MaxVersion PROVE NoIntegrityFault
  OBVIOUS
<1>1. BookInv  BY DEF SoundBook
<1>2. \A r \in Transfers, now \in Times : TransferVerdict(r, now) # "ErrIntegrity"
  BY <1>1, TransferSound
<1>3. \A r \in Reserves, now \in Times : ReserveVerdict(r, now) # "ErrIntegrity"
  BY <1>1, ReserveSound
<1>4. \A r \in Exposes, now \in Times : ExposeVerdict(r, now, TRUE) # "ErrIntegrity"
  BY <1>1, ExposeSound
<1>5. \A r \in Captures \cup Releases : RefVerdict(r) # "ErrIntegrity"  BY <1>1, RefSound
<1>6. \A h \in Holds, capture \in BOOLEAN : Outstanding(h) => ~ResolveFaults(h, capture)
  BY HoldResolves
<1> QED  BY <1>2, <1>3, <1>4, <1>5, <1>6 DEF NoIntegrityFault

\* No command meets ErrIntegrity (evaluate.go, resolve.go): the rows it needs are
\* there and agree, and every outstanding hold can still be captured or released,
\* however close the totals are to their limits.  Versions are the one counter
\* that could run out under a hold: each row's version is at most the number of
\* operations on record, so the promise lasts while these are fewer than 2^63-1.
THEOREM CommandsNeverFault ==
  Spec => [](Cardinality(OnRecord) < MaxVersion => NoIntegrityFault)
<1>1. SoundBook <=> BookInv /\ BalancesMatchHistory /\ UsageMatchesHistory /\ FullyBacked /\ CountInv
  BY DEF SoundBook
<1> QED  BY <1>1, BookInvariant, BalancesAreHistory, UsageIsHistory, BookIsBacked, CountsHold,
            SoundNeverFaults, PTL

=============================================================================
