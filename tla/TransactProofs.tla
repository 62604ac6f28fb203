--------------------------- MODULE TransactProofs ---------------------------
(***************************************************************************)
(* Theorems about Transact, for every finite set of calls.                 *)
(***************************************************************************)
EXTENDS Transact, FiniteSetTheorems, FunctionTheorems, NaturalsInduction,
        WellFoundedInduction, TLAPS

-----------------------------------------------------------------------------
(***************************************************************************)
(* Finite sets in order.                                                   *)
(***************************************************************************)
\* A set of numbers has a least one: what sorting by id starts from.
LEMMA Least ==
  ASSUME NEW T \in SUBSET Nat, T # {}
  PROVE  \E n \in T : \A k \in T : n <= k
<1> DEFINE R == OpToRel(<, Nat)
<1>1. IsWellFoundedOn(R, Nat)  BY NatLessThanWellFounded
<1>2. \A k, n \in Nat : k < n => <<k, n>> \in R  BY DEF OpToRel
<1> HIDE DEF R
<1>3. \E n \in T : \A k \in T : ~ (<<k, n>> \in R)  BY <1>1, WFMin
<1>4. PICK n \in T : \A k \in T : <<k, n>> \notin R  BY <1>3
<1>5. \A k \in T : ~ (k < n)  BY <1>2, <1>4
<1>6. \A k \in T : n <= k  BY <1>5
<1> QED  BY <1>4, <1>6

Ascends(t, S) ==
  /\ t \in [1 .. Cardinality(S) -> S]
  /\ \A i, j \in 1 .. Cardinality(S) : i < j => t[i] < t[j]

\* Every finite set of ids can be sorted, as Load does with the keys it collects.
LEMMA CanBeSorted ==
  ASSUME NEW S \in SUBSET Nat, IsFiniteSet(S)
  PROVE  \E t : Ascends(t, S)
<1> DEFINE T == {Cardinality(X) : X \in {Y \in SUBSET S : ~ \E t : Ascends(t, Y)}}
<1> SUFFICES ASSUME ~ \E t : Ascends(t, S) PROVE FALSE  OBVIOUS
<1>1. \A X \in SUBSET S : IsFiniteSet(X) /\ Cardinality(X) \in Nat
  BY FS_Subset, FS_CardinalityType
<1>2. T \in SUBSET Nat /\ T # {}  BY <1>1
<1>3. PICK n \in T : \A k \in T : n <= k
  <2> HIDE DEF T
  <2> QED  BY <1>2, Least
<1>4. PICK X \in SUBSET S : n = Cardinality(X) /\ ~ \E t : Ascends(t, X)  BY <1>3
<1>5. CASE X = {}
  <2>1. Cardinality(X) = 0  BY <1>5, FS_EmptySet
  <2>2. Ascends([i \in 1 .. 0 |-> i], X)  BY <2>1 DEF Ascends
  <2> QED  BY <2>2, <1>4
<1>6. CASE X # {}
  <2>1. PICK x \in X : \A y \in X : x <= y  BY <1>6, Least
  <2> DEFINE Y == X \ {x}
             m == Cardinality(Y)
  <2>2. IsFiniteSet(Y) /\ Cardinality(X) = m + 1 /\ m \in Nat
    BY <1>1, FS_RemoveElement, FS_CardinalityType
  <2>3. \E t : Ascends(t, Y)
    <3>1. SUFFICES ASSUME ~ \E t : Ascends(t, Y) PROVE FALSE  OBVIOUS
    <3>2. m \in T  BY <3>1
    <3> QED  BY <3>2, <1>3, <1>4, <2>2
  <2>4. PICK t : Ascends(t, Y)  BY <2>3
  <2> DEFINE u == [i \in 1 .. m + 1 |-> IF i = 1 THEN x ELSE t[i - 1]]
  <2>5. \A i \in 1 .. m + 1 : i # 1 => i - 1 \in 1 .. m /\ t[i - 1] \in Y
    <3> HIDE DEF m, Y
    <3>1. \A i \in 1 .. m + 1 : i # 1 => i - 1 \in 1 .. m  BY <2>2
    <3>2. \A i \in 1 .. m : t[i] \in Y  BY <2>4 DEF Ascends, m
    <3> QED  BY <3>1, <3>2
  <2>6. u \in [1 .. m + 1 -> X]  BY <2>5
  <2>7. ASSUME NEW i \in 1 .. m + 1, NEW j \in 1 .. m + 1, i < j PROVE u[i] < u[j]
    <3>1. j # 1 /\ u[j] = t[j - 1] /\ u[j] \in Y  BY <2>7, <2>5, <2>2
    <3>2. CASE i = 1
      <4>1. u[i] = x /\ u[j] \in X /\ u[j] # x  BY <3>1, <3>2
      <4> HIDE DEF u
      <4>2. x \in Nat /\ u[j] \in Nat /\ x <= u[j]  BY <4>1, <2>1
      <4> QED  BY <4>1, <4>2
    <3>3. CASE i # 1
      <4>1. i - 1 \in 1 .. m /\ j - 1 \in 1 .. m /\ i - 1 < j - 1  BY <3>3, <3>1, <2>5, <2>7, <2>2
      <4>2. t[i - 1] < t[j - 1]  BY <4>1, <2>4 DEF Ascends
      <4> QED  BY <4>2, <3>1, <3>3
    <3> QED  BY <3>2, <3>3
  <2>8. Ascends(u, X)
    <3> HIDE DEF u
    <3> QED  BY <2>6, <2>7, <2>2 DEF Ascends
  <2> QED  BY <2>8, <1>4
<1> QED  BY <1>5, <1>6

\* Sorted lists the keys of a finite set, in ascending order of their ids.
LEMMA SortedIs ==
  ASSUME NEW class, NEW ids \in SUBSET Nat, IsFiniteSet(ids)
  PROVE  \E t : /\ Ascends(t, ids)
                /\ Sorted(class, ids) = [i \in 1 .. Cardinality(ids) |-> <<class, t[i]>>]
<1> DEFINE t == CHOOSE u \in [1 .. Cardinality(ids) -> ids] :
                  \A i, j \in 1 .. Cardinality(ids) : i < j => u[i] < u[j]
<1>1. Ascends(t, ids)  BY CanBeSorted DEF Ascends
<1>2. Sorted(class, ids) = [i \in 1 .. Cardinality(ids) |-> <<class, t[i]>>]  BY DEF Sorted, Key
<1> QED  BY <1>1, <1>2

\* Among finitely many there is one that comes last in any order.
LEMMA Last ==
  ASSUME NEW S, IsFiniteSet(S), S # {}, NEW R,
         \A x \in S : <<x, x>> \notin R,
         \A x, y, z \in S : <<x, y>> \in R /\ <<y, z>> \in R => <<x, z>> \in R
  PROVE  \E x \in S : \A y \in S : <<x, y>> \notin R
<1> DEFINE Endless(X) == X # {} /\ \A x \in X : \E y \in X : <<x, y>> \in R
           T == {Cardinality(X) : X \in {Y \in SUBSET S : Endless(Y)}}
<1> SUFFICES ASSUME Endless(S) PROVE FALSE  OBVIOUS
<1>1. \A X \in SUBSET S : IsFiniteSet(X) /\ Cardinality(X) \in Nat
  BY FS_Subset, FS_CardinalityType
<1>2. T \in SUBSET Nat /\ T # {}
  <2>1. ASSUME NEW k \in T PROVE k \in Nat
    <3>1. PICK X \in SUBSET S : k = Cardinality(X)  BY <2>1
    <3> QED  BY <1>1, <3>1
  <2>2. Cardinality(S) \in T
    <3> HIDE DEF Endless
    <3> QED  OBVIOUS
  <2> HIDE DEF T
  <2> QED  BY <2>1, <2>2
<1>3. PICK n \in T : \A k \in T : n <= k
  <2> HIDE DEF T
  <2> QED  BY <1>2, Least
<1>4. PICK X \in SUBSET S : n = Cardinality(X) /\ Endless(X)  BY <1>3
<1>5. PICK x \in X : TRUE  BY <1>4
<1> DEFINE Y == {y \in X : <<x, y>> \in R}
<1>6. Y \in SUBSET X /\ x \notin Y /\ Endless(Y)  BY <1>4, <1>5
<1>7. Cardinality(Y) < n
  <2>1. Cardinality(Y) <= Cardinality(X) /\ Cardinality(Y) # Cardinality(X)
    BY <1>1, <1>4, <1>5, <1>6, FS_Subset
  <2>2. Cardinality(Y) \in Nat /\ Cardinality(X) \in Nat  BY <1>1, <1>6
  <2> QED  BY <2>1, <2>2, <1>4
<1>8. Cardinality(Y) \in T  BY <1>6
<1> QED  BY <1>3, <1>7, <1>8, <1>1, <1>2, <1>6

-----------------------------------------------------------------------------
(***************************************************************************)
(* The order of the rows.                                                  *)
(***************************************************************************)
Classes == {"claim", "subject", "account", "accounts", "hold", "usage", "balance", "evidence",
            "op"}

\* The place of a kind of row among the rows a command locks.
Rank(class) ==
  CASE class = "claim" -> 0
    [] class = "subject" -> 1
    [] class = "account" -> 2
    [] class = "hold" -> 3
    [] class = "usage" -> 4
    [] class = "balance" -> 5
    [] OTHER -> 6
Below(k, l) ==
  \/ Rank(k[1]) < Rank(l[1])
  \/ Rank(k[1]) = Rank(l[1]) /\ k[2] < l[2]

Elems(q) == {q[i] : i \in DOMAIN q}

\* A list of keys in ascending order, of ranks from low to high.
Ordered(q, low, high) ==
  /\ q \in Seq(Keys)
  /\ \A i \in DOMAIN q : low <= Rank(q[i][1]) /\ Rank(q[i][1]) <= high
  /\ \A i, j \in DOMAIN q : i < j => Below(q[i], q[j])

\* Keys are pairs of a class and a number.
LEMMA KeyFacts ==
  /\ \A k \in Keys : k = <<k[1], k[2]>> /\ k[1] \in Classes /\ k[2] \in Nat /\ Rank(k[1]) \in 0 .. 6
  /\ \A class \in Classes, n \in Nat : Key(class, n) \in Keys
  /\ \A class, n : Key(class, n) = <<class, n>>
BY DEF Keys, Classes, Rank, Key

\* Below is an order, so that a chain of waits along it never closes.
LEMMA BelowOrders ==
  /\ \A k \in Keys : ~ Below(k, k)
  /\ \A k, l, m \in Keys : Below(k, l) /\ Below(l, m) => Below(k, m)
<1> SUFFICES ASSUME NEW k \in Keys, NEW l \in Keys, NEW m \in Keys
             PROVE  ~ Below(k, k) /\ (Below(k, l) /\ Below(l, m) => Below(k, m))
  OBVIOUS
<1>1. /\ Rank(k[1]) \in Int /\ Rank(l[1]) \in Int /\ Rank(m[1]) \in Int
      /\ k[2] \in Nat /\ l[2] \in Nat /\ m[2] \in Nat
  BY KeyFacts
<1> QED  BY <1>1 DEF Below

\* Two ordered lists, the second of higher ranks, make an ordered list: Load locks
\* one kind of row after the other.
LEMMA Joined ==
  ASSUME NEW p, NEW q, NEW a \in Int, NEW b \in Int, NEW c \in Int, NEW d \in Int,
         a <= b, b < c, c <= d, Ordered(p, a, b), Ordered(q, c, d)
  PROVE  Ordered(p \o q, a, d) /\ Elems(p \o q) = Elems(p) \cup Elems(q)
<1>1. p \in Seq(Keys) /\ q \in Seq(Keys) /\ p \o q \in Seq(Keys)  BY DEF Ordered
<1>2. /\ DOMAIN p = 1 .. Len(p) /\ DOMAIN q = 1 .. Len(q)
      /\ DOMAIN (p \o q) = 1 .. Len(p) + Len(q) /\ Len(p) \in Nat /\ Len(q) \in Nat
  BY <1>1
<1>3. /\ \A i \in DOMAIN p : i \in DOMAIN (p \o q) /\ (p \o q)[i] = p[i]
      /\ \A i \in DOMAIN q : i + Len(p) \in DOMAIN (p \o q) /\ (p \o q)[i + Len(p)] = q[i]
      /\ \A i \in DOMAIN (p \o q) : \/ i \in DOMAIN p
                                    \/ i - Len(p) \in DOMAIN q /\ (p \o q)[i] = q[i - Len(p)]
  BY <1>1, <1>2
<1> DEFINE r == p \o q
<1>5. /\ \A i \in DOMAIN r : i \in DOMAIN p \/ i - Len(p) \in DOMAIN q
      /\ \A i \in DOMAIN p : r[i] = p[i]
      /\ \A i \in DOMAIN r : i - Len(p) \in DOMAIN q => r[i] = q[i - Len(p)]
  BY <1>3, <1>1, <1>2
<1>4. Elems(r) = Elems(p) \cup Elems(q)
  <2>1. Elems(r) \subseteq Elems(p) \cup Elems(q)
    <3> HIDE DEF r
    <3> QED  BY <1>5 DEF Elems
  <2>2. Elems(p) \subseteq Elems(r) /\ Elems(q) \subseteq Elems(r)  BY <1>3 DEF Elems
  <2> QED  BY <2>1, <2>2
<1>6. \A i \in DOMAIN p : p[i] \in Keys /\ Rank(p[i][1]) \in Int
  <2>1. \A i \in DOMAIN p : p[i] \in Keys  BY <1>1
  <2>2. \A k \in Keys : Rank(k[1]) \in Int  BY KeyFacts
  <2> QED  BY <2>1, <2>2
<1>7. \A i \in DOMAIN q : q[i] \in Keys /\ Rank(q[i][1]) \in Int
  <2>1. \A i \in DOMAIN q : q[i] \in Keys  BY <1>1
  <2>2. \A k \in Keys : Rank(k[1]) \in Int  BY KeyFacts
  <2> QED  BY <2>1, <2>2
<1>8. \A i \in DOMAIN r : r[i] \in Keys /\ a <= Rank(r[i][1]) /\ Rank(r[i][1]) <= d
  <2> HIDE DEF r
  <2> QED  BY <1>5, <1>6, <1>7 DEF Ordered
<1>9. ASSUME NEW i \in DOMAIN r, NEW j \in DOMAIN r, i < j PROVE Below(r[i], r[j])
  <2>0. i \in Int /\ j \in Int /\ Len(p) \in Int  BY <1>2
  <2>1. CASE i \in DOMAIN p /\ j \in DOMAIN p
    <3>1. r[i] = p[i] /\ r[j] = p[j]  BY <1>5, <2>1
    <3> HIDE DEF r
    <3> QED  BY <3>1, <2>1, <1>9 DEF Ordered
  <2>2. CASE i \in DOMAIN p /\ j - Len(p) \in DOMAIN q
    <3>1. r[i] = p[i] /\ r[j] = q[j - Len(p)]  BY <1>5, <2>2
    <3>2. Rank(p[i][1]) <= b /\ c <= Rank(q[j - Len(p)][1])  BY <2>2 DEF Ordered
    <3>3. Rank(p[i][1]) < Rank(q[j - Len(p)][1])  BY <3>2, <1>6, <1>7, <2>2
    <3> HIDE DEF r
    <3> QED  BY <3>1, <3>3 DEF Below
  <2>3. CASE i - Len(p) \in DOMAIN q /\ j - Len(p) \in DOMAIN q
    <3>1. r[i] = q[i - Len(p)] /\ r[j] = q[j - Len(p)]  BY <1>5, <2>3
    <3>2. i - Len(p) < j - Len(p)  BY <2>0, <1>9
    <3> HIDE DEF r
    <3> QED  BY <3>1, <3>2, <2>3 DEF Ordered
  <2>4. CASE i - Len(p) \in DOMAIN q /\ j \in DOMAIN p
    BY <2>4, <2>0, <1>9, <1>2
  <2> QED  BY <2>1, <2>2, <2>3, <2>4, <1>5
<1> HIDE DEF r
<1>10. Ordered(r, a, d)  BY <1>1, <1>8, <1>9 DEF Ordered, r
<1> QED  BY <1>10, <1>4 DEF r

\* An empty list and a list of one row are ordered.
LEMMA Short ==
  /\ \A a, b \in Int : Ordered(<<>>, a, b) /\ Elems(<<>>) = {}
  /\ \A k \in Keys, a, b \in Int : a <= Rank(k[1]) /\ Rank(k[1]) <= b =>
       Ordered(<<k>>, a, b) /\ Elems(<<k>>) = {k}
<1>1. \A a, b \in Int : Ordered(<<>>, a, b) /\ Elems(<<>>) = {}  BY DEF Ordered, Elems
<1>2. ASSUME NEW k \in Keys, NEW a \in Int, NEW b \in Int, a <= Rank(k[1]), Rank(k[1]) <= b
      PROVE  Ordered(<<k>>, a, b) /\ Elems(<<k>>) = {k}
  <2>1. <<k>> \in Seq(Keys) /\ DOMAIN <<k>> = {1} /\ <<k>>[1] = k  OBVIOUS
  <2> QED  BY <2>1, <1>2 DEF Ordered, Elems
<1> QED  BY <1>1, <1>2

\* Sorted lists the rows of one kind, each of them, in order.
LEMMA SortedOrdered ==
  ASSUME NEW class \in Classes, NEW ids \in SUBSET Nat, IsFiniteSet(ids)
  PROVE  /\ Ordered(Sorted(class, ids), Rank(class), Rank(class))
         /\ Elems(Sorted(class, ids)) = {<<class, i>> : i \in ids}
<1> DEFINE n == Cardinality(ids)
<1>1. n \in Nat  BY FS_CardinalityType
<1>2. PICK t : Ascends(t, ids) /\ Sorted(class, ids) = [i \in 1 .. n |-> <<class, t[i]>>]
  BY SortedIs
<1> DEFINE q == [i \in 1 .. n |-> <<class, t[i]>>]
<1>3. t \in [1 .. n -> ids] /\ \A i, j \in 1 .. n : i < j => t[i] < t[j]  BY <1>2 DEF Ascends
<1> HIDE DEF n
<1>4. q \in Seq(Keys) /\ DOMAIN q = 1 .. n /\ \A i \in 1 .. n : q[i] = <<class, t[i]>>
  <2>1. \A i \in 1 .. n : <<class, t[i]>> \in Keys  BY <1>3 DEF Keys, Classes
  <2> QED  BY <2>1, <1>1
<1>5. Rank(class) \in Int  BY DEF Rank, Classes
<1>6. Ordered(q, Rank(class), Rank(class))
  <2> HIDE DEF q
  <2> QED  BY <1>3, <1>4, <1>5 DEF Ordered, Below
<1>7. \A y \in ids : \E i \in 1 .. n : t[i] = y
  <2>1. \A i \in 1 .. n : t[i] \in Nat  BY <1>3
  <2>2. ASSUME NEW i \in 1 .. n, NEW j \in 1 .. n, t[i] = t[j] PROVE i = j
    <3>1. t[i] \in Nat /\ t[j] \in Nat /\ i \in Int /\ j \in Int  BY <2>1, <1>1
    <3>2. (i < j => t[i] < t[j]) /\ (j < i => t[j] < t[i])  BY <1>3
    <3> QED  BY <3>1, <3>2, <2>2
  <2>3. t \in Injection(1 .. n, ids)  BY <1>3, <2>2 DEF Injection, IsInjective
  <2>4. IsFiniteSet(1 .. n) /\ Cardinality(1 .. n) = n  BY <1>1, FS_Interval
  <2>5. t \in Surjection(1 .. n, ids)  BY <2>3, <2>4, FS_Injection DEF n
  <2> QED  BY <2>5 DEF Surjection
<1>8. Elems(q) = {<<class, i>> : i \in ids}
  <2> HIDE DEF q
  <2>1. Elems(q) = {<<class, t[i]>> : i \in 1 .. n}  BY <1>4 DEF Elems
  <2>2. \A i \in 1 .. n : t[i] \in ids  BY <1>3
  <2> QED  BY <2>1, <2>2, <1>7
<1> QED  BY <1>2, <1>6, <1>8

-----------------------------------------------------------------------------
(***************************************************************************)
(* The rows of a command.                                                  *)
(***************************************************************************)
\* The fields of a command and the rows they name.
LEMMA CommandFacts ==
  ASSUME NEW m \in Commands
  PROVE  /\ m.op \in Nat /\ m.payment \in Nat /\ m.hold \in Nat /\ m.evidence \in Nat
         /\ m.kind \in Kinds /\ m.controls \in {"subject", "account"}
         /\ {m.account, m.beneficiary, Pool, Fee} \subseteq DOMAIN Owner
         /\ DOMAIN Owner \subseteq Nat
         /\ \A a \in DOMAIN Owner : Owner[a] \in Nat
BY TransactAssumption DEF Commands

\* The accounts Load reads are finitely many.
LEMMA AccountsFinite ==
  ASSUME NEW m \in Commands, NEW found \in BOOLEAN
  PROVE  IsFiniteSet(AccountsOf(m, found)) /\ AccountsOf(m, found) \subseteq DOMAIN Owner
<1> DEFINE all == {m.account} \cup {m.beneficiary} \cup {Pool} \cup {Fee}
<1>1. IsFiniteSet({m.account})  BY FS_Singleton
<1>2. IsFiniteSet({m.account} \cup {m.beneficiary})  BY <1>1, FS_AddElement
<1>3. IsFiniteSet(({m.account} \cup {m.beneficiary}) \cup {Pool})  BY <1>2, FS_AddElement
<1>4. IsFiniteSet(all)  BY <1>3, FS_AddElement
<1>5. AccountsOf(m, found) \in SUBSET all  BY DEF AccountsOf
<1>6. all \subseteq DOMAIN Owner  BY CommandFacts
<1> HIDE DEF all
<1> QED  BY <1>4, <1>5, <1>6, FS_Subset

\* The owners of finitely many accounts are finitely many.
LEMMA OwnersFinite ==
  ASSUME NEW X \in SUBSET DOMAIN Owner, IsFiniteSet(X)
  PROVE  IsFiniteSet({Owner[a] : a \in X})
<1> DEFINE f == [a \in X |-> Owner[a]]
<1>1. f \in Surjection(X, {Owner[a] : a \in X})  BY DEF Surjection
<1> QED  BY <1>1, FS_Surjection

\* The controls come in order, subjects before accounts, and those a command sets or
\* creates are among them.
LEMMA ControlsOrdered ==
  ASSUME NEW m \in Commands, NEW known \in SUBSET DOMAIN Owner, IsFiniteSet(known)
  PROVE  /\ Ordered(ControlOrder(m, known), 1, 2)
         /\ m.kind = "SET_ACCOUNT_CONTROL" => Controlled(m) \in Elems(ControlOrder(m, known))
<1>1. CASE m.kind = "SET_ACCOUNT_CONTROL"
  <2>1. ControlOrder(m, known) = <<Controlled(m)>>  BY <1>1 DEF ControlOrder
  <2>2. \E n \in Nat : Controlled(m) = <<m.controls, n>>
    BY CommandFacts DEF Controlled, Key
  <2>3. Controlled(m) \in Keys /\ 1 <= Rank(Controlled(m)[1]) /\ Rank(Controlled(m)[1]) <= 2
    BY <2>2, CommandFacts DEF Keys, Rank
  <2>4. Ordered(<<Controlled(m)>>, 1, 2) /\ Elems(<<Controlled(m)>>) = {Controlled(m)}
    BY <2>3, Short
  <2> QED  BY <2>1, <2>4
<1>2. CASE m.kind # "SET_ACCOUNT_CONTROL"
  <2> DEFINE created == IF m.kind = "CREATE_ACCOUNT" THEN {m.account} ELSE {}
             controlled == (known \cup created) \ {Fee}
             owners == {Owner[a] : a \in controlled}
  <2>1. ControlOrder(m, known) = Sorted("subject", owners) \o Sorted("account", controlled)
    BY <1>2 DEF ControlOrder
  <2>2. IsFiniteSet(created) /\ created \subseteq DOMAIN Owner
    BY FS_Singleton, FS_EmptySet, CommandFacts
  <2>3. IsFiniteSet(known \cup created) /\ known \cup created \subseteq DOMAIN Owner
    <3>1. CASE m.kind = "CREATE_ACCOUNT"
      BY <3>1, <2>2, FS_AddElement
    <3>2. CASE m.kind # "CREATE_ACCOUNT"
      <4>1. known \cup created = known  BY <3>2
      <4> HIDE DEF created
      <4> QED  BY <4>1
    <3> QED  BY <3>1, <3>2
  <2>4. IsFiniteSet(controlled) /\ controlled \in SUBSET DOMAIN Owner
    <3> HIDE DEF created
    <3> QED  BY <2>3, FS_RemoveElement
  <2> HIDE DEF controlled
  <2>5. IsFiniteSet(owners)  BY <2>4, OwnersFinite
  <2>6. controlled \in SUBSET Nat /\ owners \in SUBSET Nat  BY <2>4, CommandFacts
  <2> HIDE DEF owners
  <2>7. Ordered(Sorted("subject", owners), 1, 1)
    BY <2>5, <2>6, SortedOrdered DEF Classes, Rank
  <2>8. Ordered(Sorted("account", controlled), 2, 2)
    BY <2>4, <2>6, SortedOrdered DEF Classes, Rank
  <2>9. Ordered(Sorted("subject", owners) \o Sorted("account", controlled), 1, 2)
    BY <2>7, <2>8, Joined
  <2> QED  BY <2>1, <2>9, <1>2
<1> QED  BY <1>1, <1>2

\* Load locks its rows in order: the controls, the hold, the limit row, the balances.
LEMMA LocksOrdered ==
  ASSUME NEW m \in Commands, NEW found \in BOOLEAN,
         NEW accounts \in SUBSET DOMAIN Owner, IsFiniteSet(accounts),
         NEW known \in SUBSET accounts
  PROVE  LET order == LockOrder(m, accounts, known, found)
         IN  /\ Ordered(order, 1, 5)
             /\ m.kind = "SET_ACCOUNT_CONTROL" => Controlled(m) \in Elems(order)
             /\ m.kind \in OnHolds /\ found => Key("hold", m.hold) \in Elems(order)
             /\ m.kind \in Spends \cup Settling /\ m.account \in known =>
                  Key("usage", Owner[m.account]) \in Elems(order)
             /\ \A a \in accounts : Key("balance", a) \in Elems(order)
             /\ \A l \in Elems(order) : l[1] = "hold" =>
                  l = Key("hold", m.hold) /\ m.kind \in OnHolds /\ found
<1> DEFINE A == ControlOrder(m, known)
           B == When(m.kind \in OnHolds /\ found, <<Key("hold", m.hold)>>)
           C == When(m.kind \in Spends \cup Settling /\ m.account \in known,
                     <<Key("usage", Owner[m.account])>>)
           D == Sorted("balance", accounts)
<1>1. LockOrder(m, accounts, known, found) = ((A \o B) \o C) \o D  BY DEF LockOrder
<1>2. IsFiniteSet(known) /\ known \in SUBSET DOMAIN Owner  BY FS_Subset
<1>3. /\ Ordered(A, 1, 2)
      /\ m.kind = "SET_ACCOUNT_CONTROL" => Controlled(m) \in Elems(A)
  BY <1>2, ControlsOrdered
<1>4. /\ Key("hold", m.hold) \in Keys /\ Rank(Key("hold", m.hold)[1]) = 3
      /\ Key("usage", Owner[m.account]) \in Keys /\ Rank(Key("usage", Owner[m.account])[1]) = 4
  BY CommandFacts, KeyFacts DEF Key, Keys, Rank
<1>5. /\ Ordered(B, 3, 3)
      /\ m.kind \in OnHolds /\ found => Key("hold", m.hold) \in Elems(B)
      /\ \A l \in Elems(B) : l = Key("hold", m.hold) /\ m.kind \in OnHolds /\ found
  <2>1. CASE m.kind \in OnHolds /\ found
    <3>1. B = <<Key("hold", m.hold)>>  BY <2>1 DEF When
    <3> HIDE DEF B
    <3> QED  BY <2>1, <3>1, <1>4, Short
  <2>2. CASE ~ (m.kind \in OnHolds /\ found)
    <3>1. B = <<>>  BY <2>2 DEF When
    <3> HIDE DEF B
    <3> QED  BY <2>2, <3>1, Short
  <2> QED  BY <2>1, <2>2
<1>6. /\ Ordered(C, 4, 4)
      /\ m.kind \in Spends \cup Settling /\ m.account \in known =>
           Key("usage", Owner[m.account]) \in Elems(C)
  BY <1>4, Short DEF When
<1>7. Ordered(D, 5, 5) /\ \A a \in accounts : Key("balance", a) \in Elems(D)
  <2>1. accounts \in SUBSET Nat  BY CommandFacts
  <2>2. /\ Ordered(D, Rank("balance"), Rank("balance"))
        /\ Elems(D) = {<<"balance", i>> : i \in accounts}
    BY <2>1, SortedOrdered DEF Classes
  <2>3. Rank("balance") = 5  BY DEF Rank
  <2> HIDE DEF D
  <2> QED  BY <2>2, <2>3 DEF Key
<1> HIDE DEF A, B, C, D
<1>11. \A l \in Elems(A) \cup Elems(C) \cup Elems(D) : l[1] # "hold"
  <2>1. \A l \in Elems(A) : Rank(l[1]) <= 2  BY <1>3 DEF Ordered, Elems
  <2>2. \A l \in Elems(C) : 4 <= Rank(l[1])  BY <1>6 DEF Ordered, Elems
  <2>3. \A l \in Elems(D) : 5 <= Rank(l[1])  BY <1>7 DEF Ordered, Elems
  <2>4. Rank("hold") = 3  BY DEF Rank
  <2> QED  BY <2>1, <2>2, <2>3, <2>4
<1>8. Ordered(A \o B, 1, 3) /\ Elems(A \o B) = Elems(A) \cup Elems(B)
  <2>1. /\ 1 \in Int /\ 2 \in Int /\ 3 \in Int
        /\ 1 <= 2 /\ 2 < 3 /\ 3 <= 3
    OBVIOUS
  <2> QED  BY <2>1, <1>3, <1>5, Joined, Zenon
<1> DEFINE AB == A \o B
           ABC == AB \o C
<1> HIDE DEF AB
<1>9. Ordered(ABC, 1, 4) /\ Elems(ABC) = Elems(AB) \cup Elems(C)
  <2>1. Ordered(AB, 1, 3) /\ Ordered(C, 4, 4)  BY <1>8, <1>6 DEF AB
  <2>2. /\ 1 \in Int /\ 3 \in Int /\ 4 \in Int
        /\ 1 <= 3 /\ 3 < 4 /\ 4 <= 4
    OBVIOUS
  <2> QED  BY <2>1, <2>2, Joined, Zenon
<1> HIDE DEF ABC
<1>10. Ordered(ABC \o D, 1, 5) /\ Elems(ABC \o D) = Elems(ABC) \cup Elems(D)
  <2>1. Ordered(ABC, 1, 4) /\ Ordered(D, 5, 5)  BY <1>9, <1>7
  <2>2. 1 \in Int /\ 4 \in Int /\ 5 \in Int /\ 1 <= 4 /\ 4 < 5 /\ 5 <= 5  OBVIOUS
  <2> QED  BY <2>1, <2>2, Joined, Zenon
<1> QED  BY <1>1, <1>3, <1>5, <1>6, <1>7, <1>8, <1>9, <1>10, <1>11 DEF AB, ABC

-----------------------------------------------------------------------------
(***************************************************************************)
(* The inductive invariant.                                                *)
(***************************************************************************)
Outcomes == {"NONE", "APPLIED", "REJECTED"}
Receipts == [by : Calls \cup {NoCall}, outcome : Outcomes]
Txs == [locks : SUBSET Keys, written : SUBSET Keys, absent : SUBSET Keys, todo : Seq(Keys),
        outcome : Outcomes, replay : Receipts]
Attempts == 0 .. Retries - 1
Sessions == [phase : Phases, attempt : Attempts, tx : Txs,
             status : {"none", "OK", "Error", "ErrUnknown"}, receipt : Receipts]

Typed ==
  /\ rows \in SUBSET Keys
  /\ receipts \in [Ops -> Receipts]
  /\ session \in [Calls -> Sessions]

Reading == {"claim", "discover", "accounts", "load"}

\* What the statements of a transaction have established for its answer: s is the
\* session of c, rs the rows and rc the receipts there are.
AnswerFits(c, s, rs, rc) ==
  LET t == s.tx
      k == Key("op", Command[c].op)
      recorded == rc[Command[c].op]
      inserted == Inserted([by |-> c, outcome |-> t.outcome])
  IN  /\ s.phase \in {"idle", "begin", "answered"} => t = Open
      /\ s.phase \in Reading => t.written = {}
      /\ s.phase \in Reading \cup {"save"} => t.replay = NoReceipt /\ k \in t.absent
      /\ s.phase = "save" =>
           /\ t.todo # <<>> /\ t.todo[Len(t.todo)] = k /\ t.outcome # "NONE"
           /\ inserted \subseteq t.absent /\ inserted \subseteq t.written \cup Elems(t.todo)
           /\ \A l \in Elems(t.todo) : l[1] = "op" => l = k
      /\ s.phase \in {"commit", "doubt"} /\ t.replay = NoReceipt =>
           /\ t.outcome # "NONE"
           /\ {k} \cup inserted \subseteq t.absent /\ {k} \cup inserted \subseteq t.written
      /\ s.phase \in {"commit", "doubt"} /\ t.replay # NoReceipt =>
           t.written = {} /\ t.replay = recorded /\ Command[recorded.by] = Command[c]
      /\ \A l \in t.written : (l \in t.absent => l \notin rs) /\ (l[1] = "op" => l = k)
      /\ s.phase # "answered" => recorded.by # c /\ s.status \in {"none", "ErrUnknown"}
      /\ s.status = "OK" => /\ recorded = s.receipt /\ recorded # NoReceipt
                            /\ Command[recorded.by] = Command[c]
      /\ s.status = "Error" => recorded.by # c

Covered(t, k) == k \in t.locks \/ k \in t.absent \/ k \in Elems(t.todo)

\* The rows a transaction has locked, and what it knows of those it will write.
LocksFit(c, s, rs) ==
  LET t == s.tx
      m == Command[c]
      found == Key("hold", m.hold) \notin t.absent
      claimed == Key("claim", m.payment)
  IN  /\ t.locks \subseteq rs
      /\ \A k \in t.locks : Rank(k[1]) <= 5
      /\ s.phase = "claim" => t.locks = {}
      /\ s.phase \in {"discover", "accounts"} => t.locks \subseteq {claimed}
      /\ s.phase \in Reading \ {"claim"} /\ m.kind \in Spends \cup OnHolds =>
           claimed \in t.locks \/ claimed \in t.absent
      /\ s.phase = "accounts" =>
           /\ m.kind \in OnHolds /\ found => Key("hold", m.hold) \in rs
           /\ \A k \in Elems(t.todo) : k[1] = "accounts"
      /\ s.phase = "load" =>
           /\ Ordered(t.todo, 1, 5)
           /\ \A k \in t.locks, l \in Elems(t.todo) : Below(k, l)
           /\ \A l \in Elems(t.todo) : l[1] = "hold" => l \in rs
           /\ m.kind = "SET_ACCOUNT_CONTROL" => Covered(t, Controlled(m))
           /\ m.kind \in OnHolds /\ found => Covered(t, Key("hold", m.hold))
           /\ /\ m.kind \in Spends \cup Settling /\ m.account \in AccountsOf(m, found)
              /\ Key("accounts", m.account) \notin t.absent
              => Covered(t, Key("usage", Owner[m.account]))
           /\ \A a \in AccountsOf(m, found) : Covered(t, Key("balance", a))
      /\ s.phase = "save" =>
           /\ \A i \in DOMAIN t.todo : \/ t.todo[i] \in t.locks \/ t.todo[i] \in t.absent
                                       \/ t.todo[i][1] = "evidence" /\ i = Len(t.todo) - 1
           /\ \A i \in DOMAIN t.todo : t.todo[i][1] = "evidence" => i = Len(t.todo) - 1
           /\ (\E k \in t.written : k[1] = "evidence") => Len(t.todo) = 1

\* Between transactions, and between them and the rows: what one has written or
\* locked no other has, and a receipt is there with the rows its command inserted.
SharedFits ==
  /\ \A c, d \in Calls : c # d =>
       /\ \A k \in Tx(c).written : k \notin Tx(d).written
       /\ \A k \in Tx(c).locks : k \notin Tx(d).locks /\ k \notin Tx(d).written
  /\ \A o \in Ops : Key("op", o) \in rows <=> receipts[o] # NoReceipt
  /\ \A o \in Ops : receipts[o] # NoReceipt =>
       /\ receipts[o].by \in Calls /\ Command[receipts[o].by].op = o
       /\ Inserted(receipts[o]) \subseteq rows
  /\ InsertedOnce

TransactInv ==
  /\ Typed /\ SharedFits
  /\ \A c \in Calls : AnswerFits(c, session[c], rows, receipts) /\ LocksFit(c, session[c], rows)

\* A call's command and the rows it names.
LEMMA CallFacts ==
  ASSUME NEW c \in Calls
  PROVE  /\ Command[c] \in Commands /\ Command[c].op \in Ops /\ c # NoCall
         /\ Key("op", Command[c].op) \in Keys /\ Key("claim", Command[c].payment) \in Keys
         /\ Key("hold", Command[c].hold) \in Keys /\ Key("evidence", Command[c].evidence) \in Keys
<1>1. Command[c] \in Commands /\ Command[c].op \in Ops /\ c # NoCall
  BY TransactAssumption DEF Ops
<1> QED  BY <1>1, CommandFacts DEF Key, Keys

\* What a call starts and ends with is well typed.
LEMMA OpenFacts ==
  /\ NoReceipt \in Receipts /\ Open \in Txs /\ Idle \in Sessions
  /\ Open.locks = {} /\ Open.written = {} /\ Open.absent = {} /\ Open.todo = <<>>
  /\ NoReceipt.by = NoCall /\ NoReceipt.outcome = "NONE"
<1>1. NoReceipt \in Receipts  BY DEF NoReceipt, Receipts, Outcomes
<1>2. Open \in Txs  BY <1>1 DEF Open, Txs, Outcomes
<1>3. Idle \in Sessions  BY <1>1, <1>2, TransactAssumption DEF Idle, Sessions, Phases, Attempts
<1> QED  BY <1>1, <1>2, <1>3 DEF Open, NoReceipt

\* A step of one call that commits nothing: it is enough that the call fits what the
\* others have locked and written.
LEMMA OneMoves ==
  ASSUME TransactInv, NEW c \in Calls, NEW s \in Sessions,
         session' = [session EXCEPT ![c] = s], UNCHANGED <<rows, receipts>>,
         AnswerFits(c, s, rows, receipts), LocksFit(c, s, rows),
         \A d \in Calls \ {c} :
           /\ \A k \in s.tx.written : k \notin Tx(d).written /\ k \notin Tx(d).locks
           /\ \A k \in s.tx.locks : k \notin Tx(d).written /\ k \notin Tx(d).locks
  PROVE  TransactInv'
<1>1. Typed'  BY DEF TransactInv, Typed
<1>2. session'[c] = s /\ \A d \in Calls \ {c} : session'[d] = session[d]
  BY DEF TransactInv, Typed
<1>3. Tx(c)' = s.tx /\ \A d \in Calls \ {c} : Tx(d)' = Tx(d)  BY <1>2 DEF Tx
<1>4. ASSUME NEW a \in Calls, NEW d \in Calls, a # d
      PROVE  /\ \A k \in Tx(a)'.written : k \notin Tx(d)'.written
             /\ \A k \in Tx(a)'.locks : k \notin Tx(d)'.locks /\ k \notin Tx(d)'.written
  <2>1. /\ \A k \in Tx(a).written : k \notin Tx(d).written
        /\ \A k \in Tx(a).locks : k \notin Tx(d).locks /\ k \notin Tx(d).written
    BY <1>4 DEF TransactInv, SharedFits
  <2>2. CASE a = c  BY <2>2, <1>3, <1>4
  <2>3. CASE d = c  BY <2>3, <1>3, <1>4
  <2>4. CASE a # c /\ d # c  BY <2>4, <1>3, <2>1
  <2> QED  BY <2>2, <2>3, <2>4
<1>5. SharedFits'
  <2>1. InsertedOnce'  BY DEF TransactInv, SharedFits, InsertedOnce, Inserted
  <2>2. \A o \in Ops : (Key("op", o) \in rows <=> receipts[o] # NoReceipt)'
    BY DEF TransactInv, SharedFits
  <2>3. \A o \in Ops : (receipts[o] # NoReceipt =>
       /\ receipts[o].by \in Calls /\ Command[receipts[o].by].op = o
       /\ Inserted(receipts[o]) \subseteq rows)'
    BY DEF TransactInv, SharedFits, Inserted
  <2> QED  BY <1>4, <2>1, <2>2, <2>3 DEF SharedFits
<1>6. \A d \in Calls : AnswerFits(d, session'[d], rows, receipts) /\ LocksFit(d, session'[d], rows)
  BY <1>2 DEF TransactInv
<1> QED  BY <1>1, <1>5, <1>6 DEF TransactInv

\* A session that returned, or will try again, holds nothing.
LEMMA OverFits ==
  ASSUME TransactInv, NEW c \in Calls, NEW s \in Sessions, s.tx = Open,
         s.phase = "begin" \/ s.phase = "answered",
         s.status \in {"none", "Error", "ErrUnknown"}, s.phase = "begin" => s.status # "Error",
         receipts[Command[c].op].by # c
  PROVE  AnswerFits(c, s, rows, receipts) /\ LocksFit(c, s, rows)
<1>1. AnswerFits(c, s, rows, receipts)  BY OpenFacts DEF AnswerFits, Reading
<1>2. LocksFit(c, s, rows)  BY OpenFacts DEF LocksFit, Reading
<1> QED  BY <1>1, <1>2

\* Retry rolls back and tries again or gives up with an error.
LEMMA RetryKeeps ==
  ASSUME TransactInv, NEW c \in Calls, session[c].phase \notin {"idle", "answered"},
         session' = [session EXCEPT ![c] = Retry(@)], UNCHANGED <<rows, receipts>>
  PROVE  TransactInv'
<1> DEFINE s == Retry(session[c])
<1>1. session[c] \in Sessions  BY DEF TransactInv, Typed
<1>2. /\ s \in Sessions /\ s.tx = Open
      /\ \/ s.phase = "begin" /\ s.status = session[c].status
         \/ s.phase = "answered" /\ s.status = "Error"
  <2>1. CASE session[c].attempt + 1 < Retries
    <3> DEFINE n == session[c].attempt + 1
    <3>1. n \in Attempts  BY <1>1, <2>1, TransactAssumption DEF Sessions, Attempts
    <3>2. s = [session[c] EXCEPT !.phase = "begin", !.tx = Open, !.attempt = n]
      BY <2>1 DEF Retry
    <3> HIDE DEF n, s
    <3> QED  BY <3>1, <3>2, <1>1, OpenFacts DEF Sessions, Phases
  <2>2. CASE ~ (session[c].attempt + 1 < Retries)
    BY <2>2, <1>1, OpenFacts DEF Retry, Return, Sessions, Phases
  <2> QED  BY <2>1, <2>2
<1>3. receipts[Command[c].op].by # c /\ session[c].status \in {"none", "ErrUnknown"}
  BY DEF TransactInv, AnswerFits
<1> HIDE DEF s
<1>4. AnswerFits(c, s, rows, receipts) /\ LocksFit(c, s, rows)  BY <1>2, <1>3, OverFits
<1>5. session' = [session EXCEPT ![c] = s]  BY DEF s
<1>6. s.tx.written = {} /\ s.tx.locks = {}  BY <1>2, OpenFacts
<1> QED  BY <1>2, <1>4, <1>5, <1>6, OneMoves

\* An answer other than OK releases everything.
LEMMA AnswerKeeps ==
  ASSUME TransactInv, NEW c \in Calls, session[c].phase \notin {"idle", "answered"},
         NEW status \in {"Error", "ErrUnknown"}, Answer(c, status), UNCHANGED <<rows, receipts>>
  PROVE  TransactInv'
<1> DEFINE s == Return(session[c], status, NoReceipt)
<1>1. session[c] \in Sessions  BY DEF TransactInv, Typed
<1>2. s \in Sessions /\ s.tx = Open /\ s.phase = "answered" /\ s.status = status
  BY <1>1, OpenFacts DEF Return, Sessions, Phases
<1>3. receipts[Command[c].op].by # c  BY DEF TransactInv, AnswerFits
<1> HIDE DEF s
<1>4. AnswerFits(c, s, rows, receipts) /\ LocksFit(c, s, rows)  BY <1>2, <1>3, OverFits
<1>5. session' = [session EXCEPT ![c] = s]  BY DEF s, Answer
<1>6. s.tx.written = {} /\ s.tx.locks = {}  BY <1>2, OpenFacts
<1> QED  BY <1>2, <1>4, <1>5, <1>6, OneMoves

-----------------------------------------------------------------------------
(***************************************************************************)
(* Statements.                                                             *)
(***************************************************************************)
\* A move puts the call into a phase with a transaction and leaves the rest of its
\* session alone.
LEMMA MoveIs ==
  ASSUME Typed, NEW c \in Calls, NEW phase \in Phases, NEW t \in Txs, Move(c, phase, t)
  PROVE  \E s \in Sessions :
           /\ session' = [session EXCEPT ![c] = s]
           /\ s.phase = phase /\ s.tx = t /\ s.status = session[c].status
           /\ s.receipt = session[c].receipt
<1> DEFINE s == [session[c] EXCEPT !.phase = phase, !.tx = t]
<1>1. session[c] \in Sessions  BY DEF Typed
<1>2. s \in Sessions /\ s.phase = phase /\ s.tx = t /\ s.status = session[c].status
        /\ s.receipt = session[c].receipt
  BY <1>1 DEF Sessions
<1>3. session' = [session EXCEPT ![c] = s]  BY DEF Move, Typed
<1> QED  BY <1>2, <1>3

\* The parts of a session.
LEMMA SessionFacts ==
  ASSUME Typed, NEW c \in Calls
  PROVE  /\ session[c] \in Sessions /\ Tx(c) = session[c].tx /\ Tx(c) \in Txs
         /\ session[c].phase \in Phases
         /\ Tx(c).locks \in SUBSET Keys /\ Tx(c).written \in SUBSET Keys
         /\ Tx(c).absent \in SUBSET Keys /\ Tx(c).todo \in Seq(Keys)
         /\ Tx(c).outcome \in Outcomes /\ Tx(c).replay \in Receipts
<1>1. session[c] \in Sessions  BY DEF Typed
<1>2. Tx(c) = session[c].tx /\ Tx(c) \in Txs /\ session[c].phase \in Phases
  BY <1>1 DEF Sessions, Tx
<1> QED  BY <1>1, <1>2 DEF Txs

\* A statement is about a row, or about none.
LEMMA NextKeyTyped ==
  ASSUME Typed, NEW c \in Calls
  PROVE  NextKey(c) \in Keys \/ NextKey(c) = NoKey
<1>1. Tx(c).todo \in Seq(Keys)  BY SessionFacts
<1>2. Tx(c).todo # <<>> => Head(Tx(c).todo) \in Keys  BY <1>1
<1> QED  BY <1>2, CallFacts DEF NextKey

\* No row is the key of no statement.
LEMMA NoKeyIsNoKey == NoKey \notin Keys
BY DEF NoKey, Key, Keys

\* What a read adds: the row among the missing or, if it locks, among the locked.
LEMMA ReadFacts ==
  ASSUME Typed, NEW c \in Calls
  PROVE  /\ Read(c) \in Txs
         /\ Read(c).written = Tx(c).written /\ Read(c).todo = Tx(c).todo
         /\ Read(c).outcome = Tx(c).outcome /\ Read(c).replay = Tx(c).replay
         /\ NextKey(c) = NoKey => Read(c) = Tx(c)
         /\ NextKey(c) # NoKey =>
              /\ NextKey(c) \in rows => Read(c).absent = Tx(c).absent
              /\ NextKey(c) \notin rows => /\ Read(c).absent = Tx(c).absent \cup {NextKey(c)}
                                           /\ Read(c).locks = Tx(c).locks
              /\ ~ Exclusive(c) => Read(c).locks = Tx(c).locks
              /\ Exclusive(c) /\ NextKey(c) \in rows =>
                   Read(c).locks = Tx(c).locks \cup {NextKey(c)}
<1> DEFINE k == NextKey(c)
           a == IF k \in rows THEN Tx(c).absent ELSE Tx(c).absent \cup {k}
           l == IF Exclusive(c) /\ k \in rows THEN Tx(c).locks \cup {k} ELSE Tx(c).locks
<1>1. CASE k = NoKey
  <2>1. Read(c) = Tx(c)  BY <1>1 DEF Read
  <2> QED  BY <2>1, <1>1, SessionFacts
<1>2. CASE k # NoKey
  <2>1. Read(c) = [Tx(c) EXCEPT !.absent = a, !.locks = l]  BY <1>2 DEF Read
  <2>2. a \in SUBSET Keys /\ l \in SUBSET Keys  BY <1>2, NextKeyTyped, SessionFacts
  <2>3. Tx(c) \in Txs  BY SessionFacts
  <2>4. /\ Read(c) \in Txs
        /\ Read(c).written = Tx(c).written /\ Read(c).todo = Tx(c).todo
        /\ Read(c).outcome = Tx(c).outcome /\ Read(c).replay = Tx(c).replay
        /\ Read(c).absent = a /\ Read(c).locks = l
    <3> HIDE DEF a, l
    <3> QED  BY <2>1, <2>2, <2>3 DEF Txs
  <2> HIDE DEF k
  <2> QED  BY <2>4, <1>2 DEF k
<1> QED  BY <1>1, <1>2

\* The transaction that read keeps apart from the others: the row it locks no other
\* has written or locked, for it waits for those that have.
LEMMA ReadApart ==
  ASSUME TransactInv, NEW c \in Calls, WaitsFor(c) = {}, NEW d \in Calls \ {c}
  PROVE  /\ \A k \in Read(c).written : k \notin Tx(d).written /\ k \notin Tx(d).locks
         /\ \A k \in Read(c).locks : k \notin Tx(d).written /\ k \notin Tx(d).locks
<1>1. /\ \A k \in Tx(c).written : k \notin Tx(d).written /\ k \notin Tx(d).locks
      /\ \A k \in Tx(c).locks : k \notin Tx(d).locks /\ k \notin Tx(d).written
  BY DEF TransactInv, SharedFits
<1>2. NextKey(c) \notin Tx(d).written /\ (Exclusive(c) => NextKey(c) \notin Tx(d).locks)
  BY DEF WaitsFor
<1>3. Typed  BY DEF TransactInv
<1>4. Read(c).written = Tx(c).written  BY <1>3, ReadFacts
<1>5. \A k \in Read(c).locks : k \in Tx(c).locks \/ (Exclusive(c) /\ k = NextKey(c))
  BY <1>3, ReadFacts
<1> QED  BY <1>1, <1>2, <1>4, <1>5

\* What remains after the first of a list.
LEMMA TailFacts ==
  ASSUME NEW q \in Seq(Keys), q # <<>>
  PROVE  /\ Tail(q) \in Seq(Keys) /\ Len(q) \in Nat /\ Len(q) # 0 /\ Head(q) = q[1]
         /\ DOMAIN q = 1 .. Len(q) /\ Len(Tail(q)) = Len(q) - 1
         /\ DOMAIN Tail(q) = 1 .. Len(q) - 1
         /\ \A i \in DOMAIN Tail(q) : i + 1 \in DOMAIN q /\ Tail(q)[i] = q[i + 1]
         /\ Head(q) \in Keys /\ Elems(q) = {Head(q)} \cup Elems(Tail(q))
<1>1. /\ Tail(q) \in Seq(Keys) /\ Len(q) \in Nat /\ Len(q) # 0 /\ Head(q) = q[1]
      /\ DOMAIN q = 1 .. Len(q) /\ Len(Tail(q)) = Len(q) - 1
      /\ DOMAIN Tail(q) = 1 .. Len(q) - 1
      /\ \A i \in DOMAIN Tail(q) : i + 1 \in DOMAIN q /\ Tail(q)[i] = q[i + 1]
      /\ Head(q) \in Keys
  OBVIOUS
<1>2. \A i \in DOMAIN q : i = 1 \/ (i - 1 \in DOMAIN Tail(q) /\ q[i] = Tail(q)[i - 1])
  BY <1>1
<1>3. Elems(q) \subseteq {Head(q)} \cup Elems(Tail(q))
  <2>1. \A i \in DOMAIN q : q[i] = Head(q) \/ \E j \in DOMAIN Tail(q) : q[i] = Tail(q)[j]
    BY <1>1, <1>2
  <2> QED  BY <2>1 DEF Elems
<1>4. {Head(q)} \cup Elems(Tail(q)) \subseteq Elems(q)
  <2>1. 1 \in DOMAIN q  BY <1>1
  <2> QED  BY <2>1, <1>1 DEF Elems
<1> QED  BY <1>1, <1>3, <1>4

\* A call of Execute begins its first transaction.
LEMMA InvokeKeeps == ASSUME TransactInv, NEW c \in Calls, Invoke(c) PROVE TransactInv'
<1> DEFINE s == [session[c] EXCEPT !.phase = "begin"]
<1>1. session[c] \in Sessions /\ session[c].phase = "idle"
  BY DEF TransactInv, Typed, Invoke, InPhase
<1>2. s \in Sessions /\ s.phase = "begin" /\ s.tx = session[c].tx /\ s.status = session[c].status
  BY <1>1 DEF Sessions, Phases
<1>3. /\ session[c].tx = Open /\ receipts[Command[c].op].by # c
      /\ session[c].status \in {"none", "ErrUnknown"}
  BY <1>1 DEF TransactInv, AnswerFits
<1>4. session' = [session EXCEPT ![c] = s] /\ UNCHANGED <<rows, receipts>>
  BY DEF Invoke, TransactInv, Typed
<1> HIDE DEF s
<1>5. AnswerFits(c, s, rows, receipts) /\ LocksFit(c, s, rows)  BY <1>2, <1>3, OverFits
<1>6. s.tx.written = {} /\ s.tx.locks = {}  BY <1>2, <1>3, OpenFacts
<1> QED  BY <1>2, <1>4, <1>5, <1>6, OneMoves

\* The look for a receipt: a call that finds none remembers that it was missing; one
\* that finds it has nothing to write.
LEMMA OperationKeeps == ASSUME TransactInv, NEW c \in Calls, Operation(c) PROVE TransactInv'
<1> DEFINE k == Key("op", Command[c].op)
           old == receipts[Command[c].op]
<1>1. Typed /\ session[c].phase = "begin" /\ WaitsFor(c) = {} /\ UNCHANGED <<rows, receipts>>
  BY DEF Operation, InPhase, TransactInv
<1>2. Tx(c) = Open /\ old.by # c /\ session[c].status \in {"none", "ErrUnknown"}
  <2>1. AnswerFits(c, session[c], rows, receipts) /\ Tx(c) = session[c].tx
    BY <1>1, SessionFacts DEF TransactInv
  <2> QED  BY <1>1, <2>1 DEF AnswerFits
<1>3. k \in Keys /\ k # NoKey /\ Command[c].op \in Ops  BY CallFacts, NoKeyIsNoKey
<1>4. NextKey(c) = k /\ ~ Exclusive(c)  BY <1>1 DEF NextKey, InPhase, Exclusive
<1>5. k \in rows <=> old # NoReceipt  BY <1>3 DEF TransactInv, SharedFits
<1>6. /\ Read(c) \in Txs /\ Read(c).written = {} /\ Read(c).locks = {} /\ Read(c).todo = <<>>
      /\ Read(c).replay = NoReceipt
      /\ k \notin rows => Read(c).absent = {k}
      /\ k \in rows => Read(c).absent = {}
  <2>1. Read(c).replay = Open.replay  BY <1>1, <1>2, ReadFacts
  <2> QED  BY <2>1, <1>1, <1>2, <1>3, <1>4, ReadFacts, OpenFacts DEF Open
<1>7. CASE old = NoReceipt /\ Move(c, "claim", Read(c))
  <2>1. PICK s \in Sessions :
           /\ session' = [session EXCEPT ![c] = s]
           /\ s.phase = "claim" /\ s.tx = Read(c) /\ s.status = session[c].status
    BY <1>1, <1>6, <1>7, MoveIs DEF Phases
  <2>2. AnswerFits(c, s, rows, receipts)
    BY <2>1, <1>2, <1>5, <1>6, <1>7 DEF AnswerFits, Reading
  <2>3. LocksFit(c, s, rows)  BY <2>1, <1>6 DEF LocksFit, Reading
  <2> QED  BY <2>1, <2>2, <2>3, <1>1, <1>6, OneMoves
<1>8. CASE Answer(c, "Error")  BY <1>1, <1>8, AnswerKeeps
<1>9. CASE old # NoReceipt /\ SameMaterial(c, old.by)
             /\ Move(c, "commit", [Read(c) EXCEPT !.replay = old])
  <2> DEFINE t == [Read(c) EXCEPT !.replay = old]
  <2>1. old \in Receipts  BY <1>1, <1>3 DEF Typed
  <2>2. t \in Txs /\ t.written = {} /\ t.locks = {} /\ t.replay = old  BY <2>1, <1>6 DEF Txs
  <2> HIDE DEF t
  <2>3. Move(c, "commit", t)  BY <1>9 DEF t
  <2>4. PICK s \in Sessions :
           /\ session' = [session EXCEPT ![c] = s]
           /\ s.phase = "commit" /\ s.tx = t /\ s.status = session[c].status
    BY <1>1, <2>2, <2>3, MoveIs DEF Phases
  <2>5. AnswerFits(c, s, rows, receipts)
    BY <2>2, <2>4, <1>2, <1>9 DEF AnswerFits, Reading, SameMaterial
  <2>6. LocksFit(c, s, rows)  BY <2>2, <2>4 DEF LocksFit, Reading
  <2> QED  BY <2>2, <2>4, <2>5, <2>6, <1>1, OneMoves
<1> QED  BY <1>7, <1>8, <1>9 DEF Operation

\* The claim is locked, or known to be missing.
LEMMA LockClaimKeeps == ASSUME TransactInv, NEW c \in Calls, LockClaim(c) PROVE TransactInv'
<1> DEFINE k == Key("claim", Command[c].payment)
           has == Command[c].kind \in Spends \cup OnHolds
<1>1. Typed /\ session[c].phase = "claim" /\ WaitsFor(c) = {} /\ UNCHANGED <<rows, receipts>>
  BY DEF LockClaim, InPhase, TransactInv
<1>2. AnswerFits(c, session[c], rows, receipts) /\ Tx(c) = session[c].tx /\ Tx(c).locks = {}
  BY <1>1, SessionFacts DEF TransactInv, LocksFit
<1>3. k \in Keys /\ k # NoKey /\ k[1] = "claim"  BY CallFacts, NoKeyIsNoKey DEF Key
<1>4. NextKey(c) = IF has THEN k ELSE NoKey  BY <1>1 DEF NextKey, InPhase
<1>5. Exclusive(c)  BY <1>1 DEF Exclusive, InPhase
<1>6. /\ Read(c) \in Txs /\ Read(c).written = Tx(c).written /\ Read(c).todo = Tx(c).todo
      /\ Read(c).outcome = Tx(c).outcome /\ Read(c).replay = Tx(c).replay
      /\ Tx(c).absent \subseteq Read(c).absent
      /\ Read(c).locks \subseteq {k} /\ Read(c).locks \subseteq rows
      /\ has => k \in Read(c).locks \/ k \in Read(c).absent
  BY <1>1, <1>2, <1>3, <1>4, <1>5, ReadFacts
<1>7. PICK s \in Sessions :
           /\ session' = [session EXCEPT ![c] = s]
           /\ s.phase = "discover" /\ s.tx = Read(c) /\ s.status = session[c].status
  <2>1. Move(c, "discover", Read(c))  BY DEF LockClaim
  <2> QED  BY <2>1, <1>1, <1>6, MoveIs DEF Phases
<1>8. AnswerFits(c, s, rows, receipts)  BY <1>1, <1>2, <1>6, <1>7 DEF AnswerFits, Reading
<1>9. LocksFit(c, s, rows)  BY <1>3, <1>6, <1>7 DEF LocksFit, Reading, Rank
<1> QED  BY <1>1, <1>7, <1>8, <1>9, ReadApart, OneMoves

\* The hold is looked up without a lock; then its accounts are read.
LEMMA DiscoverHoldKeeps ==
  ASSUME TransactInv, NEW c \in Calls, DiscoverHold(c) PROVE TransactInv'
<1> DEFINE m == Command[c]
           h == Key("hold", m.hold)
           has == m.kind \in OnHolds \cup {"RESERVE_PAYOUT"}
           ids == AccountsOf(m, NextKey(c) \in rows)
           q == Sorted("accounts", ids)
           t == [Read(c) EXCEPT !.todo = q]
<1>1. Typed /\ session[c].phase = "discover" /\ WaitsFor(c) = {} /\ UNCHANGED <<rows, receipts>>
  BY DEF DiscoverHold, InPhase, TransactInv
<1>2. /\ AnswerFits(c, session[c], rows, receipts) /\ LocksFit(c, session[c], rows)
      /\ Tx(c) = session[c].tx
  BY <1>1, SessionFacts DEF TransactInv
<1>3. h \in Keys /\ h # NoKey  BY CallFacts, NoKeyIsNoKey
<1>4. NextKey(c) = IF has THEN h ELSE NoKey  BY <1>1 DEF NextKey, InPhase
<1>5. ~ Exclusive(c)  BY <1>1 DEF Exclusive, InPhase
<1>6. q \in Seq(Keys) /\ \A k \in Elems(q) : k[1] = "accounts"
  <2>1. m \in Commands  BY CallFacts
  <2>2. IsFiniteSet(ids) /\ ids \in SUBSET Nat
    <3> DEFINE found == NextKey(c) \in rows
    <3>1. found \in BOOLEAN  OBVIOUS
    <3> HIDE DEF found
    <3>2. IsFiniteSet(AccountsOf(m, found)) /\ AccountsOf(m, found) \subseteq DOMAIN Owner
      BY <2>1, <3>1, AccountsFinite
    <3> QED  BY <2>1, <3>2, CommandFacts DEF found
  <2> HIDE DEF ids
  <2>3. Ordered(q, Rank("accounts"), Rank("accounts")) /\ Elems(q) = {<<"accounts", i>> : i \in ids}
    BY <2>2, SortedOrdered DEF Classes
  <2> HIDE DEF q
  <2> QED  BY <2>3 DEF Ordered
<1> HIDE DEF q
<1>7. /\ t \in Txs /\ t.written = Tx(c).written /\ t.todo = q
      /\ t.outcome = Tx(c).outcome /\ t.replay = Tx(c).replay
      /\ t.absent = Read(c).absent /\ t.locks = Read(c).locks
  BY <1>1, <1>6, ReadFacts DEF Txs
<1>8. /\ Tx(c).absent \subseteq t.absent /\ t.locks = Tx(c).locks
      /\ has /\ h \notin t.absent => h \in rows
  BY <1>1, <1>3, <1>4, <1>5, <1>7, ReadFacts
<1>9. PICK s \in Sessions :
           /\ session' = [session EXCEPT ![c] = s]
           /\ s.phase = "accounts" /\ s.tx = t /\ s.status = session[c].status
  <2>1. Move(c, "accounts", t)  BY DEF DiscoverHold, q
  <2> HIDE DEF t
  <2> QED  BY <2>1, <1>1, <1>7, MoveIs DEF Phases
<1> HIDE DEF t
<1>10. AnswerFits(c, s, rows, receipts)  BY <1>1, <1>2, <1>7, <1>8, <1>9 DEF AnswerFits, Reading
<1>11. LocksFit(c, s, rows)  BY <1>1, <1>2, <1>6, <1>7, <1>8, <1>9 DEF LocksFit, Reading
<1>12. \A d \in Calls \ {c} :
           /\ \A k \in s.tx.written : k \notin Tx(d).written /\ k \notin Tx(d).locks
           /\ \A k \in s.tx.locks : k \notin Tx(d).written /\ k \notin Tx(d).locks
  BY <1>1, <1>2, <1>7, <1>8, <1>9 DEF TransactInv, SharedFits
<1> QED  BY <1>1, <1>9, <1>10, <1>11, <1>12, OneMoves

\* The accounts are read one by one; then the rows to lock are known.
LEMMA ReadAccountsKeeps ==
  ASSUME TransactInv, NEW c \in Calls, ReadAccounts(c) PROVE TransactInv'
<1> DEFINE m == Command[c]
           h == Key("hold", m.hold)
           found == h \notin Tx(c).absent
           accounts == AccountsOf(m, found)
           known == {a \in accounts : Key("accounts", a) \notin Tx(c).absent}
<1>1. Typed /\ session[c].phase = "accounts" /\ WaitsFor(c) = {} /\ UNCHANGED <<rows, receipts>>
  BY DEF ReadAccounts, InPhase, TransactInv
<1>2. /\ AnswerFits(c, session[c], rows, receipts) /\ LocksFit(c, session[c], rows)
      /\ Tx(c) = session[c].tx /\ Tx(c) \in Txs /\ Tx(c).todo \in Seq(Keys) /\ m \in Commands
  BY <1>1, SessionFacts, CallFacts DEF TransactInv
<1>3. /\ Tx(c).locks \subseteq {Key("claim", m.payment)}
      /\ m.kind \in OnHolds /\ found => h \in rows
      /\ \A k \in Elems(Tx(c).todo) : k[1] = "accounts"
  BY <1>1, <1>2 DEF LocksFit
<1>4. CASE Tx(c).todo # <<>>
  <2> DEFINE t == [Read(c) EXCEPT !.todo = Tail(@)]
  <2>1. NextKey(c) = Head(Tx(c).todo) /\ ~ Exclusive(c)
    BY <1>1, <1>4 DEF NextKey, InPhase, Exclusive
  <2>2. /\ Tail(Tx(c).todo) \in Seq(Keys) /\ NextKey(c) \in Keys
        /\ Elems(Tx(c).todo) = {NextKey(c)} \cup Elems(Tail(Tx(c).todo))
    BY <1>2, <1>4, <2>1, TailFacts
  <2>3. NextKey(c) # NoKey /\ NextKey(c)[1] = "accounts"  BY <1>3, <2>2, NoKeyIsNoKey
  <2>4. /\ t \in Txs /\ t.written = Tx(c).written /\ t.todo = Tail(Tx(c).todo)
        /\ t.outcome = Tx(c).outcome /\ t.replay = Tx(c).replay
        /\ t.absent = Read(c).absent /\ t.locks = Read(c).locks
    BY <1>1, <2>2, ReadFacts DEF Txs
  <2>5. /\ Tx(c).absent \subseteq t.absent /\ t.locks = Tx(c).locks
        /\ h \in t.absent <=> h \in Tx(c).absent
    <3>1. h # NextKey(c)  BY <2>3 DEF Key
    <3> QED  BY <3>1, <1>1, <2>1, <2>3, <2>4, ReadFacts
  <2>6. PICK s \in Sessions :
           /\ session' = [session EXCEPT ![c] = s]
           /\ s.phase = "accounts" /\ s.tx = t /\ s.status = session[c].status
    <3>1. Move(c, "accounts", t)  BY <1>4 DEF ReadAccounts
    <3> HIDE DEF t
    <3> QED  BY <3>1, <1>1, <2>4, MoveIs DEF Phases
  <2> HIDE DEF t
  <2>7. AnswerFits(c, s, rows, receipts)  BY <1>1, <1>2, <2>4, <2>5, <2>6 DEF AnswerFits, Reading
  <2>8. LocksFit(c, s, rows)
    BY <1>1, <1>2, <1>3, <2>2, <2>4, <2>5, <2>6 DEF LocksFit, Reading
  <2>9. \A d \in Calls \ {c} :
           /\ \A k \in s.tx.written : k \notin Tx(d).written /\ k \notin Tx(d).locks
           /\ \A k \in s.tx.locks : k \notin Tx(d).written /\ k \notin Tx(d).locks
    BY <2>4, <2>5, <2>6 DEF TransactInv, SharedFits
  <2> QED  BY <1>1, <2>6, <2>7, <2>8, <2>9, OneMoves
<1>5. CASE Tx(c).todo = <<>>
  <2> DEFINE q == LockOrder(m, accounts, known, found)
             t == [Tx(c) EXCEPT !.todo = q]
  <2>1. IsFiniteSet(accounts) /\ accounts \in SUBSET DOMAIN Owner /\ known \in SUBSET accounts
    BY <1>2, AccountsFinite
  <2>2. /\ Ordered(q, 1, 5)
        /\ m.kind = "SET_ACCOUNT_CONTROL" => Controlled(m) \in Elems(q)
        /\ m.kind \in OnHolds /\ found => Key("hold", m.hold) \in Elems(q)
        /\ m.kind \in Spends \cup Settling /\ m.account \in known =>
             Key("usage", Owner[m.account]) \in Elems(q)
        /\ \A a \in accounts : Key("balance", a) \in Elems(q)
        /\ \A l \in Elems(q) : l[1] = "hold" => l = Key("hold", m.hold) /\ m.kind \in OnHolds /\ found
    <3> HIDE DEF accounts, known
    <3>1. found \in BOOLEAN  OBVIOUS
    <3> HIDE DEF found
    <3> QED  BY <1>2, <2>1, <3>1, LocksOrdered
  <2>3. Move(c, "load", t)  BY <1>5 DEF ReadAccounts
  <2> HIDE DEF q
  <2>4. q \in Seq(Keys) /\ \A l \in Elems(q) : 1 <= Rank(l[1])  BY <2>2 DEF Ordered, Elems
  <2>5. /\ t \in Txs /\ t.written = Tx(c).written /\ t.todo = q
        /\ t.outcome = Tx(c).outcome /\ t.replay = Tx(c).replay
        /\ t.absent = Tx(c).absent /\ t.locks = Tx(c).locks
    BY <1>2, <2>4 DEF Txs
  <2> HIDE DEF t
  <2>6. PICK s \in Sessions :
           /\ session' = [session EXCEPT ![c] = s]
           /\ s.phase = "load" /\ s.tx = t /\ s.status = session[c].status
    BY <1>1, <2>3, <2>5, MoveIs DEF Phases
  <2>7. AnswerFits(c, s, rows, receipts)  BY <1>1, <1>2, <2>5, <2>6 DEF AnswerFits, Reading
  <2>8. \A k \in t.locks, l \in Elems(t.todo) : Below(k, l)
    <3>1. \A k \in t.locks : Rank(k[1]) = 0  BY <1>3, <2>5 DEF Key, Rank
    <3>2. \A l \in Elems(q) : Rank(l[1]) \in Int
      <4>1. \A l \in Elems(q) : l \in Keys  BY <2>4 DEF Elems
      <4>2. \A l \in Keys : Rank(l[1]) \in Int  BY KeyFacts
      <4> QED  BY <4>1, <4>2
    <3> QED  BY <3>1, <3>2, <2>4, <2>5 DEF Below
  <2>9. \A l \in Elems(t.todo) : l[1] = "hold" => l \in rows  BY <1>3, <2>2, <2>5
  <2>10. LocksFit(c, s, rows)
    BY <1>1, <1>2, <2>2, <2>5, <2>6, <2>8, <2>9 DEF LocksFit, Reading, Covered
  <2>11. \A d \in Calls \ {c} :
           /\ \A k \in s.tx.written : k \notin Tx(d).written /\ k \notin Tx(d).locks
           /\ \A k \in s.tx.locks : k \notin Tx(d).written /\ k \notin Tx(d).locks
    BY <2>5, <2>6 DEF TransactInv, SharedFits
  <2> QED  BY <1>1, <2>6, <2>7, <2>10, <2>11, OneMoves
<1> QED  BY <1>4, <1>5

\* Load locks the next row of its list, which comes after all it has locked.
LEMMA LoadKeeps == ASSUME TransactInv, NEW c \in Calls, Load(c) PROVE TransactInv'
<1> DEFINE m == Command[c]
           h == Key("hold", m.hold)
           k == NextKey(c)
           rest == Tail(Tx(c).todo)
           t == [Read(c) EXCEPT !.todo = Tail(@)]
<1>1. /\ Typed /\ session[c].phase = "load" /\ WaitsFor(c) = {} /\ UNCHANGED <<rows, receipts>>
      /\ Tx(c).todo # <<>>
  BY DEF Load, InPhase, TransactInv
<1>2. /\ AnswerFits(c, session[c], rows, receipts) /\ LocksFit(c, session[c], rows)
      /\ Tx(c) = session[c].tx /\ Tx(c) \in Txs /\ Tx(c).todo \in Seq(Keys)
      /\ Tx(c).locks \in SUBSET Keys
  BY <1>1, SessionFacts DEF TransactInv
<1>3. k = Head(Tx(c).todo) /\ Exclusive(c)
  BY <1>1 DEF NextKey, InPhase, Exclusive
<1>4. /\ rest \in Seq(Keys) /\ k \in Keys /\ k # NoKey
      /\ Elems(Tx(c).todo) = {k} \cup Elems(rest)
  BY <1>1, <1>2, <1>3, TailFacts, NoKeyIsNoKey
<1>5. /\ Ordered(Tx(c).todo, 1, 5)
      /\ \A a \in Tx(c).locks, l \in Elems(Tx(c).todo) : Below(a, l)
      /\ \A l \in Elems(Tx(c).todo) : l[1] = "hold" => l \in rows
      /\ \A l \in Tx(c).locks : Rank(l[1]) <= 5
      /\ Tx(c).locks \subseteq rows
  BY <1>1, <1>2 DEF LocksFit
<1>6. Ordered(rest, 1, 5) /\ \A l \in Elems(rest) : Below(k, l)
  <2> DEFINE q == Tx(c).todo
  <2>1. /\ DOMAIN rest = 1 .. Len(q) - 1 /\ Len(q) \in Nat /\ 1 \in DOMAIN q /\ k = q[1]
        /\ \A i \in DOMAIN rest : i + 1 \in DOMAIN q /\ rest[i] = q[i + 1]
    BY <1>1, <1>2, <1>3, TailFacts
  <2>2. \A i \in DOMAIN rest : i \in Nat /\ 1 < i + 1  BY <2>1
  <2> HIDE DEF q, rest, k
  <2>3. \A i, j \in DOMAIN rest : i < j => Below(rest[i], rest[j])
    <3> SUFFICES ASSUME NEW i \in DOMAIN rest, NEW j \in DOMAIN rest, i < j
                 PROVE  Below(rest[i], rest[j])
      OBVIOUS
    <3>1. i + 1 < j + 1  BY <2>2
    <3> QED  BY <3>1, <2>1, <1>5 DEF Ordered, q
  <2>4. \A l \in Elems(rest) : Below(k, l)  BY <2>1, <2>2, <1>5 DEF Ordered, Elems, q
  <2>5. \A i \in DOMAIN rest : 1 <= Rank(rest[i][1]) /\ Rank(rest[i][1]) <= 5
    BY <2>1, <1>5 DEF Ordered, q
  <2> QED  BY <1>4, <2>3, <2>4, <2>5 DEF Ordered
<1>7. Rank(k[1]) <= 5 /\ k[1] # "accounts"
  <2>1. \A l \in Elems(Tx(c).todo) : Rank(l[1]) <= 5  BY <1>5 DEF Ordered, Elems
  <2>2. Rank(k[1]) <= 5  BY <2>1, <1>4
  <2>3. Rank("accounts") = 6  BY DEF Rank
  <2> HIDE DEF k
  <2> QED  BY <2>2, <2>3
<1>8. /\ t \in Txs /\ t.written = Tx(c).written /\ t.todo = rest
      /\ t.outcome = Tx(c).outcome /\ t.replay = Tx(c).replay
      /\ t.absent = Read(c).absent /\ t.locks = Read(c).locks
  BY <1>1, <1>4, ReadFacts DEF Txs
<1>9. /\ \/ k \in rows /\ t.absent = Tx(c).absent /\ t.locks = Tx(c).locks \cup {k}
         \/ k \notin rows /\ t.absent = Tx(c).absent \cup {k} /\ t.locks = Tx(c).locks
  BY <1>1, <1>3, <1>4, <1>8, ReadFacts
<1>10. Move(c, "load", t)  BY DEF Load
<1> HIDE DEF t, k, rest
<1>11. PICK s \in Sessions :
           /\ session' = [session EXCEPT ![c] = s]
           /\ s.phase = "load" /\ s.tx = t /\ s.status = session[c].status
  BY <1>1, <1>8, <1>10, MoveIs DEF Phases
<1>12. AnswerFits(c, s, rows, receipts)  BY <1>1, <1>2, <1>8, <1>9, <1>11 DEF AnswerFits, Reading
<1>13. /\ h \in t.absent <=> h \in Tx(c).absent
       /\ \A a : Key("accounts", a) \in t.absent <=> Key("accounts", a) \in Tx(c).absent
  <2>1. h = k => k \in rows  BY <1>4, <1>5 DEF Key
  <2>2. \A a : Key("accounts", a) # k  BY <1>7 DEF Key
  <2> QED  BY <2>1, <2>2, <1>9
<1>14. \A l : Covered(Tx(c), l) => Covered(t, l)  BY <1>4, <1>8, <1>9 DEF Covered
<1>15. \A a \in t.locks, l \in Elems(t.todo) : Below(a, l)  BY <1>4, <1>5, <1>6, <1>8, <1>9
<1>16. /\ t.locks \subseteq rows /\ \A l \in t.locks : Rank(l[1]) <= 5
       /\ \A l \in Elems(t.todo) : l[1] = "hold" => l \in rows
  BY <1>4, <1>5, <1>7, <1>8, <1>9
<1>17. m.kind \in Spends \cup OnHolds =>
         Key("claim", m.payment) \in t.locks \/ Key("claim", m.payment) \in t.absent
  BY <1>1, <1>2, <1>9 DEF LocksFit, Reading
<1>18. LocksFit(c, s, rows)
  <2>1. /\ m.kind = "SET_ACCOUNT_CONTROL" => Covered(t, Controlled(m))
        /\ m.kind \in OnHolds /\ h \notin t.absent => Covered(t, h)
        /\ /\ m.kind \in Spends \cup Settling /\ m.account \in AccountsOf(m, h \notin t.absent)
           /\ Key("accounts", m.account) \notin t.absent
           => Covered(t, Key("usage", Owner[m.account]))
        /\ \A a \in AccountsOf(m, h \notin t.absent) : Covered(t, Key("balance", a))
    <3>1. AccountsOf(m, h \notin t.absent) = AccountsOf(m, h \notin Tx(c).absent)
      BY <1>13 DEF AccountsOf
    <3> QED  BY <1>1, <1>2, <1>13, <1>14, <3>1 DEF LocksFit
  <2> QED  BY <2>1, <1>6, <1>8, <1>11, <1>15, <1>16, <1>17 DEF LocksFit, Reading
<1>19. \A d \in Calls \ {c} :
           /\ \A l \in s.tx.written : l \notin Tx(d).written /\ l \notin Tx(d).locks
           /\ \A l \in s.tx.locks : l \notin Tx(d).written /\ l \notin Tx(d).locks
  <2>1. t.locks = Read(c).locks /\ t.written = Read(c).written  BY <1>1, <1>8, ReadFacts
  <2> QED  BY <2>1, <1>1, <1>11, ReadApart
<1> QED  BY <1>1, <1>11, <1>12, <1>18, <1>19, OneMoves

-----------------------------------------------------------------------------
(***************************************************************************)
(* The plan.                                                               *)
(***************************************************************************)
\* The rows of two lists written one after the other.
LEMMA Concat ==
  ASSUME NEW p \in Seq(Keys), NEW q \in Seq(Keys)
  PROVE  p \o q \in Seq(Keys) /\ Elems(p \o q) = Elems(p) \cup Elems(q)
<1> DEFINE r == p \o q
<1>1. /\ DOMAIN p = 1 .. Len(p) /\ DOMAIN q = 1 .. Len(q)
      /\ DOMAIN r = 1 .. Len(p) + Len(q) /\ Len(p) \in Nat /\ Len(q) \in Nat /\ r \in Seq(Keys)
  OBVIOUS
<1>2. /\ \A i \in DOMAIN p : i \in DOMAIN r /\ r[i] = p[i]
      /\ \A i \in DOMAIN q : i + Len(p) \in DOMAIN r /\ r[i + Len(p)] = q[i]
      /\ \A i \in DOMAIN r : i \in DOMAIN p \/ (i - Len(p) \in DOMAIN q /\ r[i] = q[i - Len(p)])
  BY <1>1
<1> HIDE DEF r
<1>3. Elems(r) \subseteq Elems(p) \cup Elems(q)  BY <1>2 DEF Elems
<1>4. Elems(p) \subseteq Elems(r) /\ Elems(q) \subseteq Elems(r)  BY <1>2 DEF Elems
<1> QED  BY <1>1, <1>3, <1>4 DEF r

\* The rows of a part of the plan that is written on a condition.
LEMMA WhenFacts ==
  ASSUME NEW b \in BOOLEAN, NEW p \in Seq(Keys)
  PROVE  /\ When(b, p) \in Seq(Keys)
         /\ Elems(When(b, p)) = IF b THEN Elems(p) ELSE {}
BY DEF When, Elems

\* One row.
LEMMA OneRow == ASSUME NEW k \in Keys PROVE <<k>> \in Seq(Keys) /\ Elems(<<k>>) = {k}
<1>1. <<k>> \in Seq(Keys) /\ DOMAIN <<k>> = {1} /\ <<k>>[1] = k  OBVIOUS
<1> QED  BY <1>1 DEF Elems

\* The balances an applied plan changes are balances of accounts it has read.
LEMMA BalancesFacts ==
  ASSUME NEW m \in Commands
  PROVE  LET b == BalancesOf(m)
             q == [i \in DOMAIN b |-> Key("balance", b[i])]
         IN  /\ q \in Seq(Keys)
             /\ \A k \in Elems(q) : \E a \in AccountsOf(m, TRUE) : k = Key("balance", a)
<1>1. m.kind \in Kinds /\ {m.account, m.beneficiary, Pool, Fee} \subseteq Nat  BY CommandFacts
<1>2. \A a \in Nat : Key("balance", a) \in Keys  BY DEF Key, Keys
<1> DEFINE b == BalancesOf(m)
           q == [i \in DOMAIN b |-> Key("balance", b[i])]
<1>3. b \in Seq(Nat) /\ \A i \in DOMAIN b : b[i] \in AccountsOf(m, TRUE)
  <2>1. CASE m.kind = "CREATE_ACCOUNT"
    <3>1. b = <<m.account>>  BY <2>1 DEF BalancesOf
    <3>2. AccountsOf(m, TRUE) = {m.account}  BY <2>1 DEF AccountsOf
    <3> HIDE DEF b
    <3>3. b \in Seq(Nat) /\ DOMAIN b = {1} /\ b[1] = m.account
      BY <3>1, <1>1
    <3> QED  BY <3>2, <3>3
  <2>2. CASE m.kind = "TRANSFER_INTERNAL"
    <3>1. b = <<m.account, m.beneficiary, Fee>>  BY <2>2 DEF BalancesOf
    <3>2. AccountsOf(m, TRUE) = {m.account, m.beneficiary, Fee}  BY <2>2 DEF AccountsOf
    <3> HIDE DEF b
    <3>3. b \in Seq(Nat) /\ DOMAIN b = {1, 2, 3} /\ b[1] = m.account /\ b[2] = m.beneficiary /\ b[3] = Fee
      BY <3>1, <1>1
    <3> QED  BY <3>2, <3>3
  <2>3. CASE m.kind \in {"RESERVE_PAYOUT", "RELEASE_PAYOUT"}
    <3>1. b = <<m.account, Pool>>  BY <2>3 DEF BalancesOf
    <3>2. AccountsOf(m, TRUE) = {m.account, Pool, Fee}  BY <2>3 DEF AccountsOf
    <3> HIDE DEF b
    <3>3. b \in Seq(Nat) /\ DOMAIN b = {1, 2} /\ b[1] = m.account /\ b[2] = Pool
      BY <3>1, <1>1
    <3> QED  BY <3>2, <3>3
  <2>4. CASE m.kind = "CAPTURE_PAYOUT"
    <3>1. b = <<m.account, Pool, Fee>>  BY <2>4 DEF BalancesOf
    <3>2. AccountsOf(m, TRUE) = {m.account, Pool, Fee}  BY <2>4 DEF AccountsOf
    <3> HIDE DEF b
    <3>3. b \in Seq(Nat) /\ DOMAIN b = {1, 2, 3} /\ b[1] = m.account /\ b[2] = Pool /\ b[3] = Fee
      BY <3>1, <1>1
    <3> QED  BY <3>2, <3>3
  <2>5. CASE m.kind \in {"MARK_HOLD_EXPOSED", "SET_ACCOUNT_CONTROL"}
    <3>1. b = <<>>  BY <2>5 DEF BalancesOf
    <3> QED  BY <3>1
  <2> QED  BY <1>1, <2>1, <2>2, <2>3, <2>4, <2>5 DEF Kinds, Spends, OnHolds
<1> HIDE DEF b
<1>4. DOMAIN b = 1 .. Len(b) /\ Len(b) \in Nat /\ \A i \in DOMAIN b : b[i] \in Nat  BY <1>3
<1>5. /\ DOMAIN q = 1 .. Len(b) /\ \A i \in DOMAIN q : q[i] = Key("balance", b[i])
      /\ q \in Seq(Keys)
  <2>1. \A i \in 1 .. Len(b) : Key("balance", b[i]) \in Keys  BY <1>2, <1>4
  <2> QED  BY <2>1, <1>4
<1>6. \A k \in Elems(q) : \E a \in AccountsOf(m, TRUE) : k = Key("balance", a)
  <2> HIDE DEF q
  <2> QED  BY <1>3, <1>4, <1>5 DEF Elems
<1> QED  BY <1>5, <1>6 DEF b

\* What Save writes before evidence and receipt.
Planned(m, outcome, absent, k) ==
  \/ k \in absent
  \/ outcome = "APPLIED" /\ m.kind = "CREATE_ACCOUNT" /\ k = Key("accounts", m.account)
  \/ outcome = "APPLIED" /\ m.kind = "SET_ACCOUNT_CONTROL" /\ k = Controlled(m)
  \/ outcome = "APPLIED" /\ \E a \in AccountsOf(m, TRUE) : k = Key("balance", a)
  \/ outcome = "APPLIED" /\ m.kind \in OnHolds \cup {"RESERVE_PAYOUT"} /\ k = Key("hold", m.hold)
  \/ outcome = "APPLIED" /\ m.kind \in Spends \cup Settling /\ k = Key("usage", Owner[m.account])
  \/ outcome = "APPLIED" /\ m.kind \in OnHolds /\ k = Key("claim", m.payment)

\* Save writes the plan, then evidence if there is any, and the receipt last.
LEMMA PlanFacts ==
  ASSUME NEW m \in Commands, NEW outcome, NEW proof \in BOOLEAN, NEW absent
  PROVE  \E P \in Seq(Keys) :
           /\ SaveOrder(m, outcome, proof, absent) =
                (P \o When(proof, <<Key("evidence", m.evidence)>>)) \o <<Key("op", m.op)>>
           /\ \A k \in Elems(P) : /\ Planned(m, outcome, absent, k)
                                  /\ k[1] \notin {"evidence", "op"}
           /\ outcome = "APPLIED" /\ m.kind = "CREATE_ACCOUNT" =>
                Key("accounts", m.account) \in Elems(P)
           /\ m.kind \in Spends /\ Key("claim", m.payment) \in absent =>
                Key("claim", m.payment) \in Elems(P)
<1> DEFINE applied == outcome = "APPLIED"
           b == BalancesOf(m)
           acct == Key("accounts", m.account)
           subj == Key("subject", Owner[m.account])
           ctrl == Key("account", m.account)
           set == Controlled(m)
           hold == Key("hold", m.hold)
           use == Key("usage", Owner[m.account])
           claim == Key("claim", m.payment)
           first == m.account # Fee /\ subj \in absent
           second == m.account # Fee /\ ctrl \in absent
           A1 == When(first, <<subj>>)
           A2 == When(second, <<ctrl>>)
           A3 == (<<acct>> \o A1) \o A2
           A == When(m.kind = "CREATE_ACCOUNT", A3)
           B == When(m.kind = "SET_ACCOUNT_CONTROL", <<set>>)
           C == [i \in DOMAIN b |-> Key("balance", b[i])]
           holds == m.kind \in OnHolds \cup {"RESERVE_PAYOUT"}
           uses == m.kind \in Spends \cup Settling
           D == When(holds, <<hold>>)
           E == When(uses, <<use>>)
           F == (((A \o B) \o C) \o D) \o E
           G == When(applied, F)
           cond == \/ m.kind \in Spends /\ claim \in absent
                   \/ m.kind \in OnHolds /\ applied
           H == When(cond, <<claim>>)
           P == G \o H
<1>1. SaveOrder(m, outcome, proof, absent) =
        (P \o When(proof, <<Key("evidence", m.evidence)>>)) \o <<Key("op", m.op)>>
  BY DEF SaveOrder
<1>2. /\ acct \in Keys /\ subj \in Keys /\ ctrl \in Keys /\ hold \in Keys /\ use \in Keys
      /\ claim \in Keys /\ set \in Keys
      /\ acct[1] \notin {"evidence", "op"} /\ subj[1] \notin {"evidence", "op"} /\ ctrl[1] \notin {"evidence", "op"}
      /\ hold[1] \notin {"evidence", "op"} /\ use[1] \notin {"evidence", "op"} /\ claim[1] \notin {"evidence", "op"}
      /\ set[1] \notin {"evidence", "op"} /\ \A a : Key("balance", a)[1] \notin {"evidence", "op"}
  <2>1. /\ acct \in Keys /\ subj \in Keys /\ ctrl \in Keys /\ hold \in Keys /\ use \in Keys
        /\ claim \in Keys
        /\ acct[1] \notin {"evidence", "op"} /\ subj[1] \notin {"evidence", "op"} /\ ctrl[1] \notin {"evidence", "op"}
        /\ hold[1] \notin {"evidence", "op"} /\ use[1] \notin {"evidence", "op"} /\ claim[1] \notin {"evidence", "op"}
        /\ \A a : Key("balance", a)[1] \notin {"evidence", "op"}
    BY CommandFacts DEF Key, Keys
  <2>2. set = subj \/ set = ctrl
    BY CommandFacts DEF Controlled
  <2> QED  BY <2>1, <2>2
<1> HIDE DEF acct, subj, ctrl, hold, use, claim, set
<1>3. A1 \in Seq(Keys) /\ Elems(A1) \subseteq {subj} \cap absent
  <2>1. first \in BOOLEAN /\ (first => subj \in absent)  OBVIOUS
  <2> HIDE DEF first
  <2>2. A1 \in Seq(Keys) /\ Elems(A1) = IF first THEN {subj} ELSE {}
    BY <2>1, <1>2, WhenFacts, OneRow
  <2> HIDE DEF A1
  <2> QED  BY <2>1, <2>2
<1>4. A2 \in Seq(Keys) /\ Elems(A2) \subseteq {ctrl} \cap absent
  <2>1. second \in BOOLEAN /\ (second => ctrl \in absent)  OBVIOUS
  <2> HIDE DEF second
  <2>2. A2 \in Seq(Keys) /\ Elems(A2) = IF second THEN {ctrl} ELSE {}
    BY <2>1, <1>2, WhenFacts, OneRow
  <2> HIDE DEF A2
  <2> QED  BY <2>1, <2>2
<1> HIDE DEF A1, A2
<1>5. <<acct>> \in Seq(Keys) /\ Elems(<<acct>>) = {acct}  BY <1>2, OneRow
<1>6. <<acct>> \o A1 \in Seq(Keys) /\ Elems(<<acct>> \o A1) = {acct} \cup Elems(A1)
  BY <1>3, <1>5, Concat
<1>7. A3 \in Seq(Keys) /\ Elems(A3) = {acct} \cup Elems(A1) \cup Elems(A2)
  BY <1>4, <1>6, Concat
<1> HIDE DEF A3
<1>8. A \in Seq(Keys) /\ Elems(A) = IF m.kind = "CREATE_ACCOUNT" THEN Elems(A3) ELSE {}
  BY <1>7, WhenFacts
<1>9. B \in Seq(Keys) /\ Elems(B) = IF m.kind = "SET_ACCOUNT_CONTROL" THEN {set} ELSE {}
  BY <1>2, WhenFacts, OneRow
<1>10. C \in Seq(Keys) /\ \A k \in Elems(C) : \E a \in AccountsOf(m, TRUE) : k = Key("balance", a)
  BY BalancesFacts
<1>11. D \in Seq(Keys) /\ Elems(D) = IF holds THEN {hold} ELSE {}
  <2>1. holds \in BOOLEAN  OBVIOUS
  <2> HIDE DEF holds
  <2> QED  BY <2>1, <1>2, WhenFacts, OneRow
<1>12. E \in Seq(Keys) /\ Elems(E) = IF uses THEN {use} ELSE {}
  <2>1. uses \in BOOLEAN  OBVIOUS
  <2> HIDE DEF uses
  <2> QED  BY <2>1, <1>2, WhenFacts, OneRow
<1> HIDE DEF A, B, C, D, E
<1>13. A \o B \in Seq(Keys) /\ Elems(A \o B) = Elems(A) \cup Elems(B)  BY <1>8, <1>9, Concat
<1>14. (A \o B) \o C \in Seq(Keys) /\ Elems((A \o B) \o C) = Elems(A \o B) \cup Elems(C)
  BY <1>13, <1>10, Concat
<1>15. /\ ((A \o B) \o C) \o D \in Seq(Keys)
       /\ Elems(((A \o B) \o C) \o D) = Elems((A \o B) \o C) \cup Elems(D)
  BY <1>14, <1>11, Concat
<1>16. F \in Seq(Keys) /\ Elems(F) = Elems(((A \o B) \o C) \o D) \cup Elems(E)
  BY <1>15, <1>12, Concat
<1> HIDE DEF F
<1>17. Elems(F) = Elems(A) \cup Elems(B) \cup Elems(C) \cup Elems(D) \cup Elems(E)
  BY <1>13, <1>14, <1>15, <1>16
<1>18. G \in Seq(Keys) /\ Elems(G) = IF applied THEN Elems(F) ELSE {}  BY <1>16, WhenFacts
<1>19. H \in Seq(Keys) /\ Elems(H) = IF cond THEN {claim} ELSE {}
  <2>1. cond \in BOOLEAN  OBVIOUS
  <2> HIDE DEF cond
  <2> QED  BY <2>1, <1>2, WhenFacts, OneRow
<1> HIDE DEF G, H
<1>20. P \in Seq(Keys) /\ Elems(P) = Elems(G) \cup Elems(H)  BY <1>18, <1>19, Concat
<1> HIDE DEF P
<1>21. \A k \in Elems(P) : Planned(m, outcome, absent, k) /\ k[1] \notin {"evidence", "op"}
  <2> SUFFICES ASSUME NEW k \in Elems(P) PROVE Planned(m, outcome, absent, k) /\ k[1] \notin {"evidence", "op"}
    OBVIOUS
  <2>1. CASE k \in Elems(H)
    BY <2>1, <1>2, <1>19 DEF Planned, claim
  <2>2. CASE k \in Elems(G)
    <3>1. applied /\ k \in Elems(F)  BY <2>2, <1>18
    <3>2. CASE k \in Elems(A)
      <4>1. m.kind = "CREATE_ACCOUNT" /\ (k = acct \/ k \in {subj, ctrl} \cap absent)
        BY <3>2, <1>3, <1>4, <1>7, <1>8
      <4> QED  BY <4>1, <3>1, <1>2 DEF Planned, acct
    <3>3. CASE k \in Elems(B)  BY <3>3, <3>1, <1>2, <1>9 DEF Planned, set
    <3>4. CASE k \in Elems(C)
      <4>1. \E a \in AccountsOf(m, TRUE) : k = Key("balance", a)  BY <3>4, <1>10
      <4> QED  BY <4>1, <3>1, <1>2 DEF Planned
    <3>5. CASE k \in Elems(D)  BY <3>5, <3>1, <1>2, <1>11 DEF Planned, hold
    <3>6. CASE k \in Elems(E)  BY <3>6, <3>1, <1>2, <1>12 DEF Planned, use
    <3> QED  BY <3>1, <3>2, <3>3, <3>4, <3>5, <3>6, <1>17
  <2> QED  BY <2>1, <2>2, <1>20
<1>22. applied /\ m.kind = "CREATE_ACCOUNT" => acct \in Elems(P)
  BY <1>7, <1>8, <1>17, <1>18, <1>20
<1>23. m.kind \in Spends /\ claim \in absent => claim \in Elems(P)  BY <1>19, <1>20
<1> QED  BY <1>1, <1>20, <1>21, <1>22, <1>23 DEF acct, claim

\* The rows of the plan and their places: evidence next to last, the receipt last.
LEMMA SaveFacts ==
  ASSUME NEW m \in Commands, NEW outcome, NEW proof \in BOOLEAN, NEW absent
  PROVE  LET q == SaveOrder(m, outcome, proof, absent)
         IN  /\ q \in Seq(Keys) /\ q # <<>> /\ q[Len(q)] = Key("op", m.op)
             /\ \A i \in DOMAIN q :
                  \/ Planned(m, outcome, absent, q[i]) /\ q[i][1] \notin {"evidence", "op"}
                  \/ q[i] = Key("evidence", m.evidence) /\ i = Len(q) - 1
                  \/ q[i] = Key("op", m.op)
             /\ outcome = "APPLIED" /\ m.kind = "CREATE_ACCOUNT" =>
                  Key("accounts", m.account) \in Elems(q)
             /\ m.kind \in Spends /\ Key("claim", m.payment) \in absent =>
                  Key("claim", m.payment) \in Elems(q)
<1> DEFINE ev == Key("evidence", m.evidence)
           op == Key("op", m.op)
           E == When(proof, <<ev>>)
           q == SaveOrder(m, outcome, proof, absent)
<1>1. ev \in Keys /\ op \in Keys  BY CommandFacts DEF Key, Keys
<1>2. PICK P \in Seq(Keys) :
           /\ q = (P \o E) \o <<op>>
           /\ \A k \in Elems(P) : /\ Planned(m, outcome, absent, k)
                                  /\ k[1] \notin {"evidence", "op"}
           /\ outcome = "APPLIED" /\ m.kind = "CREATE_ACCOUNT" =>
                Key("accounts", m.account) \in Elems(P)
           /\ m.kind \in Spends /\ Key("claim", m.payment) \in absent =>
                Key("claim", m.payment) \in Elems(P)
  BY PlanFacts
<1> HIDE DEF ev, op, q
<1>3. E \in Seq(Keys) /\ Len(E) \in 0 .. 1 /\ (Len(E) = 1 => E[1] = ev)
  BY <1>1 DEF When
<1> HIDE DEF E
<1> DEFINE r == P \o E
<1>4. /\ r \in Seq(Keys) /\ Elems(r) = Elems(P) \cup Elems(E) /\ Len(r) = Len(P) + Len(E)
      /\ Len(P) \in Nat /\ Len(E) \in Nat /\ DOMAIN P = 1 .. Len(P) /\ DOMAIN r = 1 .. Len(r)
  BY <1>3, Concat
<1>5. \A i \in DOMAIN r : \/ i \in DOMAIN P /\ r[i] = P[i]
                          \/ i = Len(r) /\ r[i] = ev
  <2>1. /\ \A i \in DOMAIN P : r[i] = P[i]
        /\ Len(E) = 1 => r[Len(P) + 1] = E[1]
    BY <1>3, <1>4
  <2>2. \A i \in DOMAIN r : i \in DOMAIN P \/ (Len(E) = 1 /\ i = Len(P) + 1 /\ i = Len(r))
    <3> DEFINE x == Len(P)
               y == Len(E)
               z == Len(r)
    <3>1. x \in Nat /\ y \in 0 .. 1 /\ z = x + y /\ DOMAIN P = 1 .. x /\ DOMAIN r = 1 .. z
      BY <1>3, <1>4
    <3> HIDE DEF x, y, z, r
    <3>2. \A i \in DOMAIN r : i \in DOMAIN P \/ (y = 1 /\ i = x + 1 /\ i = z)  BY <3>1
    <3> QED  BY <3>2 DEF x, y, z
  <2> HIDE DEF r
  <2> QED  BY <1>3, <2>1, <2>2
<1> HIDE DEF r
<1>6. <<op>> \in Seq(Keys) /\ Len(<<op>>) = 1 /\ <<op>>[1] = op /\ q = r \o <<op>>
  BY <1>1, <1>2 DEF r
<1>7. /\ q \in Seq(Keys) /\ Elems(q) = Elems(r) \cup Elems(<<op>>)  BY <1>4, <1>6, Concat
<1>8. /\ Len(q) = Len(r) + 1 /\ DOMAIN q = 1 .. Len(q) /\ q[Len(q)] = op /\ q # <<>>
      /\ \A i \in DOMAIN q : i = Len(q) \/ (i \in DOMAIN r /\ q[i] = r[i])
  BY <1>4, <1>6
<1>9. \A i \in DOMAIN q : \/ i \in DOMAIN P /\ q[i] = P[i]
                          \/ q[i] = ev /\ i = Len(q) - 1
                          \/ q[i] = op
  BY <1>4, <1>5, <1>8
<1>10. \A i \in DOMAIN P : P[i] \in Elems(P)  BY DEF Elems
<1> QED  BY <1>2, <1>4, <1>7, <1>8, <1>9, <1>10 DEF q, ev, op

\* An evaluation that decides: each row of its plan is locked or was missing.
LEMMA DecideKeeps ==
  ASSUME TransactInv, NEW c \in Calls, session[c].phase = "load", Tx(c).todo = <<>>,
         NEW outcome \in {"APPLIED", "REJECTED"}, outcome = "APPLIED" => MayApply(c),
         NEW proof \in BOOLEAN,
         Move(c, "save", [Tx(c) EXCEPT !.outcome = outcome,
                            !.todo = SaveOrder(Command[c], outcome, proof, Tx(c).absent)]),
         UNCHANGED <<rows, receipts>>
  PROVE  TransactInv'
<1> DEFINE m == Command[c]
           a == Tx(c).absent
           q == SaveOrder(m, outcome, proof, a)
           t == [Tx(c) EXCEPT !.outcome = outcome, !.todo = q]
           h == Key("hold", m.hold)
           op == Key("op", m.op)
<1>1. Typed /\ m \in Commands  BY CallFacts DEF TransactInv
<1>2. /\ AnswerFits(c, session[c], rows, receipts) /\ LocksFit(c, session[c], rows)
      /\ Tx(c) = session[c].tx /\ Tx(c) \in Txs
  BY <1>1, SessionFacts DEF TransactInv
<1>3. /\ q \in Seq(Keys) /\ q # <<>> /\ q[Len(q)] = op
      /\ \A i \in DOMAIN q : \/ Planned(m, outcome, a, q[i]) /\ q[i][1] \notin {"evidence", "op"}
                             \/ q[i] = Key("evidence", m.evidence) /\ i = Len(q) - 1
                             \/ q[i] = op
      /\ outcome = "APPLIED" /\ m.kind = "CREATE_ACCOUNT" => Key("accounts", m.account) \in Elems(q)
      /\ m.kind \in Spends /\ Key("claim", m.payment) \in a => Key("claim", m.payment) \in Elems(q)
  <2> HIDE DEF m, a
  <2> QED  BY <1>1, SaveFacts
<1> HIDE DEF q
<1>4. /\ t \in Txs /\ t.written = Tx(c).written /\ t.todo = q /\ t.outcome = outcome
      /\ t.replay = Tx(c).replay /\ t.absent = a /\ t.locks = Tx(c).locks
  BY <1>2, <1>3 DEF Txs, Outcomes
<1>5. Move(c, "save", t)  BY DEF q
<1> HIDE DEF t
<1>6. PICK s \in Sessions :
           /\ session' = [session EXCEPT ![c] = s]
           /\ s.phase = "save" /\ s.tx = t /\ s.status = session[c].status
  BY <1>1, <1>4, <1>5, MoveIs DEF Phases
<1>7. outcome = "APPLIED" =>
        /\ m.kind = "CREATE_ACCOUNT" => Key("accounts", m.account) \in a
        /\ m.kind \in Spends => Key("claim", m.payment) \in a
        /\ m.kind = "RESERVE_PAYOUT" => h \in a
        /\ m.kind \in OnHolds => h \notin a
        /\ m.kind \in Spends \cup Settling => Key("accounts", m.account) \notin a
  <2> SUFFICES ASSUME outcome = "APPLIED" PROVE
        /\ m.kind = "CREATE_ACCOUNT" => Key("accounts", m.account) \in a
        /\ m.kind \in Spends => Key("claim", m.payment) \in a
        /\ m.kind = "RESERVE_PAYOUT" => h \in a
        /\ m.kind \in OnHolds => h \notin a
        /\ m.kind \in Spends \cup Settling => Key("accounts", m.account) \notin a
    OBVIOUS
  <2>1. MayApply(c)  OBVIOUS
  <2>2. CASE m.kind = "CREATE_ACCOUNT"
    BY <2>1, <2>2 DEF MayApply, Missing, Spends, OnHolds, Settling
  <2>3. CASE m.kind \in Spends
    <3>1. m.kind # "CREATE_ACCOUNT" /\ m.kind \notin OnHolds  BY <2>3 DEF Spends, OnHolds
    <3>2. /\ Key("claim", m.payment) \in a /\ (m.kind = "RESERVE_PAYOUT" => h \in a)
          /\ a \ {op} \subseteq {Key("claim", m.payment), h, Key("usage", Owner[m.account])}
      BY <2>1, <2>3, <3>1 DEF MayApply, Missing
    <3>3. Key("accounts", m.account) \notin a
      BY <3>2 DEF Key
    <3> QED  BY <2>3, <3>1, <3>2, <3>3
  <2>4. CASE m.kind \notin Spends /\ m.kind # "CREATE_ACCOUNT"
    <3>1. a \subseteq {op}  BY <2>1, <2>4 DEF MayApply, Missing
    <3>2. h \notin a /\ Key("accounts", m.account) \notin a  BY <3>1 DEF Key
    <3> QED  BY <2>4, <3>2 DEF Spends
  <2> QED  BY <2>2, <2>3, <2>4
<1>8. AnswerFits(c, s, rows, receipts)
  <2> DEFINE ins == Inserted([by |-> c, outcome |-> t.outcome])
  <2>1. ins \subseteq a /\ ins \subseteq Elems(q)  BY <1>3, <1>4, <1>7 DEF Inserted
  <2> HIDE DEF ins
  <2>2. ins = Inserted([by |-> c, outcome |-> t.outcome])  BY DEF ins
  <2>3. op \in a  BY <1>2 DEF AnswerFits, Reading
  <2>4. t.written = {} /\ t.replay = NoReceipt  BY <1>2, <1>4 DEF AnswerFits, Reading
  <2>5. \A l \in Elems(q) : l[1] = "op" => l = op
    <3>1. Key("evidence", m.evidence)[1] # "op"  BY DEF Key
    <3> QED  BY <1>3, <3>1 DEF Elems
  <2> QED  BY <1>2, <1>3, <1>4, <1>6, <2>1, <2>2, <2>3, <2>4, <2>5 DEF AnswerFits, Reading
<1>9. ASSUME outcome = "APPLIED", NEW k, Planned(m, outcome, a, k)
      PROVE  k \in Tx(c).locks \/ k \in a
  <2>0. \A l : Covered(Tx(c), l) => l \in Tx(c).locks \/ l \in a
    <3>1. Elems(<<>>) = {}  BY Short
    <3> QED  BY <3>1 DEF Covered
  <2>1. AccountsOf(m, h \notin a) = AccountsOf(m, TRUE)
    <3>1. CASE m.kind \in OnHolds  BY <3>1, <1>7, <1>9
    <3>2. CASE m.kind \notin OnHolds
      <4>1. m.kind \in {"CREATE_ACCOUNT", "SET_ACCOUNT_CONTROL", "TRANSFER_INTERNAL", "RESERVE_PAYOUT"}
        BY <3>2, <1>1, CommandFacts DEF Kinds, Spends
      <4> QED  BY <4>1 DEF AccountsOf
    <3> QED  BY <3>1, <3>2
  <2>2. /\ m.kind = "SET_ACCOUNT_CONTROL" => Covered(Tx(c), Controlled(m))
        /\ m.kind \in OnHolds /\ h \notin a => Covered(Tx(c), h)
        /\ /\ m.kind \in Spends \cup Settling /\ m.account \in AccountsOf(m, TRUE)
           /\ Key("accounts", m.account) \notin a
           => Covered(Tx(c), Key("usage", Owner[m.account]))
        /\ \A x \in AccountsOf(m, TRUE) : Covered(Tx(c), Key("balance", x))
        /\ m.kind \in Spends \cup OnHolds =>
             Key("claim", m.payment) \in Tx(c).locks \/ Key("claim", m.payment) \in a
    BY <1>2, <2>1 DEF LocksFit, Reading
  <2>3. m.kind \in Spends \cup Settling => m.account \in AccountsOf(m, TRUE)
    BY DEF AccountsOf, Spends, Settling, OnHolds
  <2>4. CASE k \in a  BY <2>4
  <2>5. CASE m.kind = "CREATE_ACCOUNT" /\ k = Key("accounts", m.account)  BY <2>5, <1>7, <1>9
  <2>6. CASE m.kind = "SET_ACCOUNT_CONTROL" /\ k = Controlled(m)  BY <2>6, <2>0, <2>2
  <2>7. CASE \E x \in AccountsOf(m, TRUE) : k = Key("balance", x)  BY <2>7, <2>0, <2>2
  <2>8. CASE m.kind \in OnHolds \cup {"RESERVE_PAYOUT"} /\ k = h  BY <2>8, <2>0, <2>2, <1>7, <1>9
  <2>9. CASE m.kind \in Spends \cup Settling /\ k = Key("usage", Owner[m.account])
    BY <2>9, <2>0, <2>2, <2>3, <1>7, <1>9
  <2>10. CASE m.kind \in OnHolds /\ k = Key("claim", m.payment)  BY <2>10, <2>2
  <2> QED  BY <1>9, <2>4, <2>5, <2>6, <2>7, <2>8, <2>9, <2>10 DEF Planned
<1>10. \A i \in DOMAIN q : \/ q[i] \in Tx(c).locks \/ q[i] \in a
                           \/ q[i][1] = "evidence" /\ i = Len(q) - 1
  <2>1. op \in a  BY <1>2 DEF AnswerFits, Reading
  <2>2. Key("evidence", m.evidence)[1] = "evidence"  BY DEF Key
  <2>3. \A k : Planned(m, outcome, a, k) => k \in Tx(c).locks \/ k \in a
    <3>1. CASE outcome = "APPLIED"  BY <3>1, <1>9
    <3>2. CASE outcome # "APPLIED"  BY <3>2 DEF Planned
    <3> QED  BY <3>1, <3>2
  <2> QED  BY <1>3, <2>1, <2>2, <2>3
<1>11. LocksFit(c, s, rows)
  <2>3. \A i \in DOMAIN q : q[i][1] = "evidence" => i = Len(q) - 1
    <3>1. op[1] # "evidence"  BY DEF Key
    <3> QED  BY <1>3, <3>1
  <2>1. t.written = {}  BY <1>2, <1>4 DEF AnswerFits, Reading
  <2>2. Tx(c).locks \subseteq rows /\ \A k \in Tx(c).locks : Rank(k[1]) <= 5  BY <1>2 DEF LocksFit
  <2> QED  BY <2>1, <2>2, <2>3, <1>4, <1>6, <1>10 DEF LocksFit, Reading
<1>12. \A d \in Calls \ {c} :
           /\ \A k \in s.tx.written : k \notin Tx(d).written /\ k \notin Tx(d).locks
           /\ \A k \in s.tx.locks : k \notin Tx(d).written /\ k \notin Tx(d).locks
  BY <1>4, <1>6 DEF TransactInv, SharedFits
<1> QED  BY <1>6, <1>8, <1>11, <1>12, OneMoves

\* The evaluation decides, or fails and rolls back.
LEMMA EvaluateKeeps == ASSUME TransactInv, NEW c \in Calls, Evaluate(c) PROVE TransactInv'
<1>1. session[c].phase = "load" /\ Tx(c).todo = <<>> /\ UNCHANGED <<rows, receipts>>
  BY DEF Evaluate, InPhase
<1>2. CASE Answer(c, "Error")  BY <1>1, <1>2, AnswerKeeps
<1>3. ASSUME NEW outcome \in {"APPLIED", "REJECTED"}, outcome = "APPLIED" => MayApply(c),
             NEW proof \in Proofs(Command[c], outcome),
             Move(c, "save", [Tx(c) EXCEPT !.outcome = outcome,
                            !.todo = SaveOrder(Command[c], outcome, proof, Tx(c).absent)])
      PROVE  TransactInv'
  <2>1. proof \in BOOLEAN  BY DEF Proofs
  <2> QED  BY <1>1, <1>3, <2>1, DecideKeeps
<1> QED  BY <1>2, <1>3 DEF Evaluate

\* A row is written, or has appeared meanwhile.
LEMMA SaveKeeps == ASSUME TransactInv, NEW c \in Calls, Save(c) PROVE TransactInv'
<1> DEFINE k == NextKey(c)
           q == Tx(c).todo
           op == Key("op", Command[c].op)
<1>1. Typed /\ session[c].phase = "save" /\ WaitsFor(c) = {} /\ UNCHANGED <<rows, receipts>>
  BY DEF Save, InPhase, TransactInv
<1>2. /\ AnswerFits(c, session[c], rows, receipts) /\ LocksFit(c, session[c], rows)
      /\ Tx(c) = session[c].tx /\ Tx(c) \in Txs /\ q \in Seq(Keys) /\ Tx(c).written \in SUBSET Keys
  BY <1>1, SessionFacts DEF TransactInv
<1>3. CASE session' = [session EXCEPT ![c] = Retry(@)]  BY <1>1, <1>3, RetryKeeps
<1>4. CASE Answer(c, "Error")  BY <1>1, <1>4, AnswerKeeps
<1>5. ASSUME ~ Collides(c, k),
             Move(c, IF Tail(q) = <<>> THEN "commit" ELSE "save",
                  [Tx(c) EXCEPT !.written = @ \cup {k}, !.todo = Tail(@)])
      PROVE  TransactInv'
  <2> DEFINE phase == IF Tail(q) = <<>> THEN "commit" ELSE "save"
             rest == Tail(q)
             w == Tx(c).written \cup {k}
             t == [Tx(c) EXCEPT !.written = w, !.todo = rest]
             ins == Inserted([by |-> c, outcome |-> Tx(c).outcome])
  <2>1. /\ q # <<>> /\ q[Len(q)] = op /\ Tx(c).outcome # "NONE"
        /\ ins \subseteq Tx(c).absent /\ ins \subseteq Tx(c).written \cup Elems(q)
        /\ \A l \in Elems(q) : l[1] = "op" => l = op
        /\ \A l \in Tx(c).written : (l \in Tx(c).absent => l \notin rows) /\ (l[1] = "op" => l = op)
        /\ Tx(c).replay = NoReceipt /\ op \in Tx(c).absent
    BY <1>1, <1>2 DEF AnswerFits
  <2>2. /\ \A i \in DOMAIN q : \/ q[i] \in Tx(c).locks \/ q[i] \in Tx(c).absent
                               \/ q[i][1] = "evidence" /\ i = Len(q) - 1
        /\ \A i \in DOMAIN q : q[i][1] = "evidence" => i = Len(q) - 1
        /\ (\E l \in Tx(c).written : l[1] = "evidence") => Len(q) = 1
        /\ Tx(c).locks \subseteq rows /\ \A l \in Tx(c).locks : Rank(l[1]) <= 5
    BY <1>1, <1>2 DEF LocksFit
  <2>3. k = Head(q) /\ Exclusive(c)  BY <1>1, <2>1 DEF NextKey, InPhase, Exclusive
  <2>4. /\ rest \in Seq(Keys) /\ Len(q) \in Nat /\ Len(q) # 0 /\ k = q[1] /\ k \in Keys
        /\ DOMAIN q = 1 .. Len(q) /\ Len(rest) = Len(q) - 1 /\ DOMAIN rest = 1 .. Len(q) - 1
        /\ \A i \in DOMAIN rest : i + 1 \in DOMAIN q /\ rest[i] = q[i + 1]
        /\ Elems(q) = {k} \cup Elems(rest)
    BY <1>2, <2>1, <2>3, TailFacts
  <2>5. k \in Tx(c).absent => k \notin rows  BY <1>5 DEF Collides
  <2>6. Move(c, phase, t)  BY <1>5
  <2> HIDE DEF k, rest, w, ins
  <2>7. /\ t \in Txs /\ t.written = w /\ t.todo = rest /\ t.outcome = Tx(c).outcome
        /\ t.replay = Tx(c).replay /\ t.absent = Tx(c).absent /\ t.locks = Tx(c).locks
    <3>1. w \in SUBSET Keys  BY <1>2, <2>4 DEF w
    <3> QED  BY <3>1, <1>2, <2>4 DEF Txs
  <2> HIDE DEF t
  <2>8. phase \in Phases /\ phase \in {"commit", "save"}  BY DEF Phases
  <2> HIDE DEF phase
  <2>9. PICK s \in Sessions :
           /\ session' = [session EXCEPT ![c] = s]
           /\ s.phase = phase /\ s.tx = t /\ s.status = session[c].status
    BY <1>1, <2>6, <2>7, <2>8, MoveIs
  <2>10. /\ rest = <<>> => phase = "commit" /\ k = op /\ Elems(rest) = {}
         /\ rest # <<>> => phase = "save" /\ rest[Len(rest)] = op
    <3>1. rest = <<>> => phase = "commit"  BY DEF phase, rest
    <3>2. rest # <<>> => phase = "save"  BY DEF phase, rest
    <3>3. rest = <<>> => Len(q) = 1 /\ Elems(rest) = {}
      <4> HIDE DEF q
      <4> QED  BY <2>4 DEF Elems
    <3>4. rest # <<>> => Len(rest) \in DOMAIN rest /\ Len(rest) + 1 = Len(q)
      <4> HIDE DEF q
      <4>1. rest # <<>> => Len(rest) # 0  BY <2>4
      <4> QED  BY <4>1, <2>4
    <3> QED  BY <3>1, <3>2, <3>3, <3>4, <2>1, <2>4
  <2>11. /\ ins \subseteq w \cup Elems(rest) /\ ins = Inserted([by |-> c, outcome |-> t.outcome])
         /\ \A l \in Elems(rest) : l[1] = "op" => l = op
         /\ \A l \in w : (l \in t.absent => l \notin rows) /\ (l[1] = "op" => l = op)
    <3>1. ins = Inserted([by |-> c, outcome |-> t.outcome])  BY <2>7 DEF ins
    <3>2. ins \subseteq w \cup Elems(rest)  BY <2>1, <2>4 DEF w
    <3> QED  BY <3>1, <3>2, <2>1, <2>4, <2>5, <2>7 DEF w
  <2>12. AnswerFits(c, s, rows, receipts)
    <3>1. receipts[Command[c].op].by # c /\ session[c].status \in {"none", "ErrUnknown"}
      BY <1>1, <1>2 DEF AnswerFits
    <3>2. k \in w  BY DEF w
    <3>3. CASE rest = <<>>
      BY <3>1, <3>2, <3>3, <2>1, <2>7, <2>9, <2>10, <2>11 DEF AnswerFits, Reading
    <3>4. CASE rest # <<>>
      BY <3>1, <3>4, <2>1, <2>7, <2>9, <2>10, <2>11 DEF AnswerFits, Reading
    <3> QED  BY <3>3, <3>4
  <2>13. phase = "save" =>
           /\ \A i \in DOMAIN rest : \/ rest[i] \in Tx(c).locks \/ rest[i] \in Tx(c).absent
                                     \/ rest[i][1] = "evidence" /\ i = Len(rest) - 1
           /\ \A i \in DOMAIN rest : rest[i][1] = "evidence" => i = Len(rest) - 1
           /\ (\E l \in w : l[1] = "evidence") => Len(rest) = 1
    <3> SUFFICES ASSUME phase = "save" PROVE
           /\ \A i \in DOMAIN rest : \/ rest[i] \in Tx(c).locks \/ rest[i] \in Tx(c).absent
                                     \/ rest[i][1] = "evidence" /\ i = Len(rest) - 1
           /\ \A i \in DOMAIN rest : rest[i][1] = "evidence" => i = Len(rest) - 1
           /\ (\E l \in w : l[1] = "evidence") => Len(rest) = 1
      OBVIOUS
    <3>1. rest # <<>> /\ Len(q) # 1
      <4>1. rest # <<>>  BY <2>10
      <4> HIDE DEF q
      <4> QED  BY <4>1, <2>4
    <3>2. \A i \in DOMAIN rest : i + 1 = Len(q) - 1 => i = Len(rest) - 1
      <4> HIDE DEF q
      <4>1. \A i \in DOMAIN rest : i \in Nat  BY <2>4
      <4>2. Len(q) \in Nat /\ Len(rest) = Len(q) - 1  BY <2>4
      <4> QED  BY <4>1, <4>2
    <3>3. \A i \in DOMAIN rest : rest[i][1] = "evidence" => i = Len(rest) - 1
      BY <2>2, <2>4, <3>2
    <3>4. 1 \in DOMAIN q  BY <2>4
    <3>5. k[1] = "evidence" => Len(q) - 1 = 1  BY <2>2, <2>4, <3>4
    <3>6. (\E l \in w : l[1] = "evidence") => Len(rest) = 1  BY <3>1, <3>5, <2>2, <2>4 DEF w
    <3> QED  BY <2>2, <2>4, <3>3, <3>6
  <2>14. LocksFit(c, s, rows)  BY <2>2, <2>7, <2>8, <2>9, <2>13 DEF LocksFit, Reading
  <2>15. \A d \in Calls \ {c} :
           /\ \A l \in s.tx.written : l \notin Tx(d).written /\ l \notin Tx(d).locks
           /\ \A l \in s.tx.locks : l \notin Tx(d).written /\ l \notin Tx(d).locks
    <3>1. \A d \in Calls \ {c} : k \notin Tx(d).written /\ k \notin Tx(d).locks
      BY <1>1, <2>3 DEF WaitsFor, k
    <3> QED  BY <3>1, <2>7, <2>9 DEF TransactInv, SharedFits, w
  <2> QED  BY <1>1, <2>9, <2>12, <2>14, <2>15, OneMoves
<1> QED  BY <1>3, <1>4, <1>5 DEF Save

\* A statement fails, the database aborts a circle of waits, or COMMIT is refused.
LEMMA FailureKeeps ==
  ASSUME TransactInv, NEW c \in Calls,
         \/ StatementFails(c) \/ BreakCircle(c) \/ CommitRefused(c) \/ CommitRolledBack(c)
  PROVE  TransactInv'
<1>1. CASE StatementFails(c)
  <2>1. session[c].phase \notin {"idle", "answered"} /\ UNCHANGED <<rows, receipts>>
    BY <1>1 DEF StatementFails, InPhase
  <2>2. CASE session' = [session EXCEPT ![c] = Retry(@)]  BY <2>1, <2>2, RetryKeeps
  <2>3. CASE \E status \in {"Error", "ErrUnknown"} : Answer(c, status)
    BY <2>1, <2>3, AnswerKeeps
  <2> QED  BY <1>1, <2>2, <2>3 DEF StatementFails
<1>2. CASE BreakCircle(c)
  <2>1. session[c].phase \notin {"idle", "answered"}
    <3> SUFFICES ASSUME session[c].phase \in {"idle", "answered"} PROVE WaitsFor(c) = {}
      BY <1>2 DEF BreakCircle
    <3>1. NextKey(c) = NoKey /\ ~ Exclusive(c)  BY DEF NextKey, InPhase, Exclusive
    <3>2. \A d \in Calls : NoKey \notin Tx(d).written
      BY SessionFacts, NoKeyIsNoKey DEF TransactInv
    <3> QED  BY <3>1, <3>2 DEF WaitsFor
  <2> QED  BY <1>2, <2>1, RetryKeeps DEF BreakCircle
<1>3. CASE CommitRefused(c)  BY <1>3, RetryKeeps DEF CommitRefused, InPhase
<1>4. CASE CommitRolledBack(c)  BY <1>4, AnswerKeeps DEF CommitRolledBack, InPhase
<1> QED  BY <1>1, <1>2, <1>3, <1>4

\* The caller gives up while COMMIT is under way; the transaction goes on.
LEMMA UnansweredKeeps ==
  ASSUME TransactInv, NEW c \in Calls, CommitUnanswered(c) PROVE TransactInv'
<1> DEFINE s == [session[c] EXCEPT !.phase = "doubt", !.status = "ErrUnknown"]
<1>1. Typed /\ session[c].phase = "commit" /\ session[c] \in Sessions /\ UNCHANGED <<rows, receipts>>
  BY SessionFacts DEF CommitUnanswered, InPhase, TransactInv
<1>2. AnswerFits(c, session[c], rows, receipts) /\ LocksFit(c, session[c], rows)  BY DEF TransactInv
<1>3. s \in Sessions /\ s.phase = "doubt" /\ s.status = "ErrUnknown" /\ s.tx = session[c].tx
  BY <1>1 DEF Sessions, Phases
<1>4. session' = [session EXCEPT ![c] = s]  BY <1>1 DEF CommitUnanswered, InDoubt, Typed
<1> HIDE DEF s
<1>5. AnswerFits(c, s, rows, receipts)  BY <1>1, <1>2, <1>3 DEF AnswerFits, Reading
<1>6. LocksFit(c, s, rows)  BY <1>1, <1>2, <1>3 DEF LocksFit, Reading
<1>7. \A d \in Calls \ {c} :
           /\ \A k \in s.tx.written : k \notin Tx(d).written /\ k \notin Tx(d).locks
           /\ \A k \in s.tx.locks : k \notin Tx(d).written /\ k \notin Tx(d).locks
  BY <1>3 DEF TransactInv, SharedFits, Tx
<1> QED  BY <1>1, <1>3, <1>4, <1>5, <1>6, <1>7, OneMoves

\* A transaction commits: nobody else had its receipt or the rows it inserts.
LEMMA InstallKeeps ==
  ASSUME TransactInv, NEW c \in Calls, session[c].phase \in {"commit", "doubt"}, Install(c),
         NEW s \in Sessions, session' = [session EXCEPT ![c] = s],
         s.phase = "answered", s.tx = Open,
         \/ s.status = "OK" /\ s.receipt = Receipt(c)
         \/ s.status \in {"none", "ErrUnknown"}
  PROVE  TransactInv'
<1> DEFINE o == Command[c].op
           k == Key("op", o)
           t == Tx(c)
           r == Receipt(c)
           ins == Inserted([by |-> c, outcome |-> t.outcome])
<1>1. Typed /\ o \in Ops /\ c # NoCall /\ t = session[c].tx /\ t \in Txs
      /\ t.written \in SUBSET Keys /\ t.outcome \in Outcomes /\ t.replay \in Receipts
  BY SessionFacts, CallFacts DEF TransactInv
<1>2. AnswerFits(c, session[c], rows, receipts)  BY DEF TransactInv
<1>3. session'[c] = s /\ \A d \in Calls \ {c} : session'[d] = session[d]
  BY <1>1 DEF Typed
<1>4. \A d \in Calls \ {c} : Tx(d)' = Tx(d)  BY <1>3 DEF Tx
<1>5. Tx(c)' = Open  BY <1>3 DEF Tx
<1>6. CASE t.replay # NoReceipt
  <2>1. t.written = {} /\ t.replay = receipts[o] /\ Command[receipts[o].by] = Command[c]
    BY <1>1, <1>2, <1>6 DEF AnswerFits
  <2>2. r = receipts[o]  BY <2>1, <1>6 DEF Receipt
  <2>3. rows' = rows  BY <2>1 DEF Install
  <2>4. receipts' = receipts  BY <1>1, <2>2 DEF Install, Typed
  <2>5. AnswerFits(c, s, rows, receipts)
    BY <1>6, <2>1, <2>2, OpenFacts DEF AnswerFits, Reading
  <2>6. LocksFit(c, s, rows)  BY OpenFacts DEF LocksFit, Reading
  <2> QED  BY <2>3, <2>4, <2>5, <2>6, OpenFacts, OneMoves
<1>7. CASE t.replay = NoReceipt
  <2>1. /\ t.outcome # "NONE" /\ k \in t.absent /\ k \in t.written
        /\ ins \subseteq t.absent /\ ins \subseteq t.written
        /\ \A l \in t.written : (l \in t.absent => l \notin rows) /\ (l[1] = "op" => l = k)
    BY <1>1, <1>2, <1>7 DEF AnswerFits
  <2>2. k \notin rows /\ \A l \in ins : l \notin rows  BY <2>1
  <2>3. receipts[o] = NoReceipt  BY <1>1, <2>2 DEF TransactInv, SharedFits
  <2>4. r = [by |-> c, outcome |-> t.outcome]  BY <1>7 DEF Receipt
  <2>5. r \in Receipts /\ r # NoReceipt /\ r.by = c  BY <1>1, <2>4 DEF Receipts, NoReceipt
  <2>6. Inserted(r) = ins  BY <2>4
  <2>7. rows' = rows \cup t.written  BY DEF Install
  <2>8. receipts' = [receipts EXCEPT ![o] = r]  BY DEF Install
  <2> HIDE DEF r, ins, t
  <2>9. receipts'[o] = r /\ \A q \in Ops \ {o} : receipts'[q] = receipts[q]
    BY <1>1, <2>8 DEF Typed
  <2>10. Typed'  BY <1>1, <2>5, <2>7, <2>8 DEF Typed
  <2>11. \A a, d \in Calls : a # d =>
           /\ \A l \in Tx(a)'.written : l \notin Tx(d)'.written
           /\ \A l \in Tx(a)'.locks : l \notin Tx(d)'.locks /\ l \notin Tx(d)'.written
    BY <1>4, <1>5, OpenFacts DEF TransactInv, SharedFits
  <2>12. \A q \in Ops : Key("op", q) \in rows' <=> receipts'[q] # NoReceipt
    <3>1. k \in rows'  BY <2>1, <2>7
    <3>2. ASSUME NEW q \in Ops \ {o} PROVE Key("op", q) \in rows' <=> Key("op", q) \in rows
      <4>1. Key("op", q)[1] = "op" /\ Key("op", q) # k  BY DEF Key
      <4> QED  BY <4>1, <2>1, <2>7
    <3> QED  BY <3>1, <3>2, <2>5, <2>9 DEF TransactInv, SharedFits
  <2>13. \A q \in Ops : receipts'[q] # NoReceipt =>
           /\ receipts'[q].by \in Calls /\ Command[receipts'[q].by].op = q
           /\ Inserted(receipts'[q]) \subseteq rows'
    <3>1. \A q \in Ops : receipts[q] # NoReceipt =>
           /\ receipts[q].by \in Calls /\ Command[receipts[q].by].op = q
           /\ Inserted(receipts[q]) \subseteq rows
      BY DEF TransactInv, SharedFits
    <3> QED  BY <3>1, <2>1, <2>5, <2>6, <2>7, <2>9
  <2>14. \A p, q \in Ops : p # q => Inserted(receipts'[p]) \cap Inserted(receipts'[q]) = {}
    <3>1. \A q \in Ops : Inserted(receipts[q]) \subseteq rows
      <4>1. Inserted(NoReceipt) = {}  BY DEF Inserted, NoReceipt
      <4> QED  BY <4>1 DEF TransactInv, SharedFits
    <3>2. \A p, q \in Ops : p # q => Inserted(receipts[p]) \cap Inserted(receipts[q]) = {}
      BY DEF TransactInv, SharedFits, InsertedOnce
    <3>3. \A q \in Ops : Inserted(r) \cap Inserted(receipts[q]) = {}  BY <3>1, <2>2, <2>6
    <3> QED  BY <3>2, <3>3, <2>9
  <2>15. SharedFits'
    <3>1. InsertedOnce'  BY <2>14 DEF InsertedOnce, Inserted
    <3>2. \A q \in Ops : (Inserted(receipts[q]))' = Inserted(receipts'[q])  BY DEF Inserted
    <3> QED  BY <3>1, <3>2, <2>11, <2>12, <2>13 DEF SharedFits
  <2>16. ASSUME NEW d \in Calls \ {c}
         PROVE  AnswerFits(d, session[d], rows', receipts') /\ LocksFit(d, session[d], rows')
    <3>1. AnswerFits(d, session[d], rows, receipts) /\ LocksFit(d, session[d], rows)
      BY DEF TransactInv
    <3>2. \A l \in session[d].tx.written : l \in session[d].tx.absent => l \notin rows'
      <4>1. \A l \in Tx(d).written : l \notin t.written  BY DEF TransactInv, SharedFits, t
      <4>2. \A l \in session[d].tx.written : l \in session[d].tx.absent => l \notin rows
        BY <3>1 DEF AnswerFits
      <4> QED  BY <4>1, <4>2, <2>7 DEF Tx
    <3>3. AnswerFits(d, session[d], rows', receipts')
      <4>1. CASE Command[d].op # o
        <5>1. receipts'[Command[d].op] = receipts[Command[d].op]  BY <4>1, <2>9, CallFacts
        <5> QED  BY <3>1, <3>2, <5>1 DEF AnswerFits
      <4>2. CASE Command[d].op = o
        <5>1. receipts[Command[d].op] = NoReceipt /\ receipts'[Command[d].op] = r
          BY <4>2, <2>3, <2>9
        <5>2. r.by # d  BY <2>5
        <5> QED  BY <3>1, <3>2, <5>1, <5>2 DEF AnswerFits
      <4> QED  BY <4>1, <4>2
    <3>4. LocksFit(d, session[d], rows')
      <4>1. rows \subseteq rows'  BY <2>7
      <4> QED  BY <3>1, <4>1 DEF LocksFit
    <3> QED  BY <3>3, <3>4
  <2>17. AnswerFits(c, s, rows', receipts') /\ LocksFit(c, s, rows')
    <3>1. AnswerFits(c, s, rows', receipts')
      BY <2>5, <2>9, OpenFacts DEF AnswerFits, Reading, r
    <3>2. LocksFit(c, s, rows')  BY OpenFacts DEF LocksFit, Reading
    <3> QED  BY <3>1, <3>2
  <2>18. \A d \in Calls : AnswerFits(d, session'[d], rows', receipts') /\ LocksFit(d, session'[d], rows')
    BY <1>3, <2>16, <2>17
  <2>19. \A d \in Calls : (AnswerFits(d, session[d], rows, receipts) /\ LocksFit(d, session[d], rows))'
    BY <2>18 DEF AnswerFits, LocksFit
  <2> QED  BY <2>10, <2>15, <2>19 DEF TransactInv
<1> QED  BY <1>6, <1>7

\* COMMIT succeeds and the caller is told.
LEMMA CommitKeeps == ASSUME TransactInv, NEW c \in Calls, Commit(c) PROVE TransactInv'
<1> DEFINE s == Return(session[c], "OK", Receipt(c))
<1>1. Typed /\ session[c].phase = "commit" /\ session[c] \in Sessions
  BY SessionFacts DEF Commit, InPhase, TransactInv
<1>2. Receipt(c) \in Receipts
  BY <1>1, SessionFacts DEF Receipt, Receipts
<1>3. s \in Sessions /\ s.phase = "answered" /\ s.tx = Open /\ s.status = "OK" /\ s.receipt = Receipt(c)
  BY <1>1, <1>2, OpenFacts DEF Return, Sessions, Phases
<1>4. session' = [session EXCEPT ![c] = s] /\ Install(c)  BY DEF Commit
<1> HIDE DEF s
<1> QED  BY <1>1, <1>3, <1>4, InstallKeeps

\* A COMMIT in doubt takes effect or not.
LEMMA SettleKeeps == ASSUME TransactInv, NEW c \in Calls, Settle(c) PROVE TransactInv'
<1> DEFINE s == [session[c] EXCEPT !.phase = "answered", !.tx = Open]
<1>1. Typed /\ session[c].phase = "doubt" /\ session[c] \in Sessions
  BY SessionFacts DEF Settle, InPhase, TransactInv
<1>2. s \in Sessions /\ s.phase = "answered" /\ s.tx = Open /\ s.status = session[c].status
  BY <1>1, OpenFacts DEF Sessions, Phases
<1>3. receipts[Command[c].op].by # c /\ session[c].status \in {"none", "ErrUnknown"}
  <2>1. AnswerFits(c, session[c], rows, receipts)  BY DEF TransactInv
  <2> QED  BY <2>1, <1>1 DEF AnswerFits
<1>4. session' = [session EXCEPT ![c] = s]  BY <1>1 DEF Settle, Typed
<1> HIDE DEF s
<1>5. CASE Install(c)  BY <1>1, <1>2, <1>3, <1>4, <1>5, InstallKeeps
<1>6. CASE UNCHANGED <<rows, receipts>>
  <2>1. AnswerFits(c, s, rows, receipts) /\ LocksFit(c, s, rows)  BY <1>2, <1>3, OverFits
  <2>2. s.tx.written = {} /\ s.tx.locks = {}  BY <1>2, OpenFacts
  <2> QED  BY <1>2, <1>4, <1>6, <2>1, <2>2, OneMoves
<1> QED  BY <1>5, <1>6 DEF Settle

-----------------------------------------------------------------------------
(***************************************************************************)
(* Theorems.                                                               *)
(***************************************************************************)
\* The calls of Execute, however they interleave, fail and are retried, keep the
\* invariant: what a transaction writes no other writes or has locked, the rows it
\* found missing are missing when it commits, and its locks come in one order.
THEOREM TransactInvariant == Spec => []TransactInv
<1>1. Init => TransactInv
  <2> SUFFICES ASSUME Init PROVE TransactInv  OBVIOUS
  <2>1. Typed  BY TransactAssumption, OpenFacts DEF Init, Typed
  <2>2. \A c \in Calls : session[c] = Idle /\ Tx(c) = Open  BY DEF Init, Tx, Idle
  <2>3. /\ Idle.phase = "idle" /\ Idle.tx = Open /\ Idle.status = "none"  BY DEF Idle
  <2>4. Inserted(NoReceipt) = {}  BY DEF Inserted, NoReceipt
  <2>5. \A o \in Ops : receipts[o] = NoReceipt /\ Key("op", o) \notin rows
    BY TransactAssumption DEF Init
  <2>6. InsertedOnce  BY <2>4, <2>5 DEF InsertedOnce
  <2>7. SharedFits  BY <2>2, <2>5, <2>6, OpenFacts DEF SharedFits
  <2>8. ASSUME NEW c \in Calls
        PROVE  AnswerFits(c, session[c], rows, receipts) /\ LocksFit(c, session[c], rows)
    <3>1. receipts[Command[c].op].by # c  BY <2>5, CallFacts, OpenFacts
    <3>2. AnswerFits(c, Idle, rows, receipts)
      BY <2>3, <3>1, OpenFacts DEF AnswerFits, Reading
    <3>3. LocksFit(c, Idle, rows)  BY <2>3, OpenFacts DEF LocksFit, Reading
    <3> QED  BY <2>2, <3>2, <3>3
  <2> QED  BY <2>1, <2>7, <2>8 DEF TransactInv
<1>2. TransactInv /\ [Next]_vars => TransactInv'
  <2> SUFFICES ASSUME TransactInv, [Next]_vars PROVE TransactInv'  OBVIOUS
  <2>1. CASE UNCHANGED vars
    <3>1. rows' = rows /\ receipts' = receipts /\ session' = session  BY <2>1 DEF vars
    <3>2. Typed'  BY <3>1 DEF TransactInv, Typed
    <3>3. InsertedOnce'  BY <3>1 DEF TransactInv, SharedFits, InsertedOnce, Inserted
    <3>4. \A c \in Calls : Tx(c)' = Tx(c)  BY <3>1 DEF Tx
    <3>5. \A o \in Ops : Inserted(receipts[o])' = Inserted(receipts[o])  BY <3>1 DEF Inserted
    <3>6. SharedFits'
      <4>1. SharedFits  BY DEF TransactInv
      <4> QED  BY <3>1, <3>3, <3>4, <3>5, <4>1 DEF SharedFits
    <3>7. ASSUME NEW c \in Calls
          PROVE  AnswerFits(c, session'[c], rows', receipts') /\ LocksFit(c, session'[c], rows')
      <4>1. AnswerFits(c, session[c], rows, receipts) /\ LocksFit(c, session[c], rows)
        BY DEF TransactInv
      <4> QED  BY <3>1, <4>1
    <3>8. \A c \in Calls :
            (AnswerFits(c, session[c], rows, receipts) /\ LocksFit(c, session[c], rows))'
      BY <3>7 DEF AnswerFits, LocksFit
    <3> QED  BY <3>2, <3>6, <3>8 DEF TransactInv
  <2>2. CASE Next
    <3>1. PICK c \in Calls :
      \/ Invoke(c) \/ Operation(c) \/ LockClaim(c) \/ DiscoverHold(c) \/ ReadAccounts(c)
      \/ Load(c) \/ Evaluate(c) \/ Save(c) \/ StatementFails(c) \/ BreakCircle(c)
      \/ Commit(c) \/ CommitRefused(c) \/ CommitRolledBack(c) \/ CommitUnanswered(c) \/ Settle(c)
      BY <2>2 DEF Next
    <3> QED  BY <3>1, InvokeKeeps, OperationKeeps, LockClaimKeeps, DiscoverHoldKeeps,
                ReadAccountsKeeps, LoadKeeps, EvaluateKeeps, SaveKeeps, FailureKeeps,
                CommitKeeps, UnansweredKeeps, SettleKeeps
  <2> QED  BY <2>1, <2>2 DEF vars
<1> QED  BY <1>1, <1>2, PTL DEF Spec

\* No transaction is tried more than Retries times, and what one has locked exists.
THEOREM TransactTypeCorrect == Spec => []TypeOK
<1>1. TransactInv => TypeOK
  <2> SUFFICES ASSUME TransactInv PROVE TypeOK  OBVIOUS
  <2>1. Typed  BY DEF TransactInv
  <2>2. ASSUME NEW c \in Calls
        PROVE  /\ session[c].phase \in Phases /\ session[c].attempt \in 0 .. Retries - 1
               /\ Tx(c).absent \cup Tx(c).written \subseteq Keys
               /\ Tx(c).locks \subseteq rows
    <3>1. session[c].attempt \in Attempts  BY <2>1 DEF Typed, Sessions
    <3>2. LocksFit(c, session[c], rows)  BY DEF TransactInv
    <3>3. Tx(c).locks \subseteq rows  BY <3>2 DEF LocksFit, Tx
    <3> QED  BY <2>1, <3>1, <3>3, SessionFacts DEF Attempts
  <2>3. \A o \in Ops : receipts[o].by \in Calls \cup {NoCall}  BY <2>1 DEF Typed, Receipts
  <2>4. rows \subseteq Keys  BY <2>1 DEF Typed
  <2> QED  BY <2>2, <2>3, <2>4 DEF TypeOK
<1> QED  BY <1>1, TransactInvariant, PTL

\* An answer other than ErrUnknown is final: a receipt that was returned is the one on
\* record, for the same instruction, and after an error nothing of the call is on
\* record, whatever replies were lost and however often the client tried again.
THEOREM AnswersNeverChange == Spec => []AnswersAreFinal
<1>1. TransactInv => AnswersAreFinal
  <2> SUFFICES ASSUME TransactInv, NEW c \in Calls
               PROVE  LET recorded == receipts[Command[c].op]
                      IN  /\ session[c].status = "OK" =>
                               /\ recorded = session[c].receipt /\ recorded # NoReceipt
                               /\ Command[recorded.by] = Command[c]
                          /\ session[c].status = "Error" => recorded.by # c
    BY DEF AnswersAreFinal
  <2>1. AnswerFits(c, session[c], rows, receipts)  BY DEF TransactInv
  <2> QED  BY <2>1 DEF AnswerFits
<1> QED  BY <1>1, TransactInvariant, PTL

\* A payment is admitted once and an account opened once: of the calls that found the
\* row missing, one inserts it and the others fail.
THEOREM RowsInsertedOnce == Spec => []InsertedOnce
<1>1. TransactInv => InsertedOnce  BY DEF TransactInv, SharedFits
<1> QED  BY <1>1, TransactInvariant, PTL

\* Load locks existing rows in one order, so that calls wait in a circle only where
\* one of them inserts a row it has found missing.
THEOREM ExistingRowsNeverDeadlock == Spec => []CirclesNeedAMissingRow
<1>1. TransactInv => CirclesNeedAMissingRow
  <2> SUFFICES ASSUME TransactInv, NEW S \in SUBSET Calls, S # {}, Circle(S),
                      \A c \in S : ~ (InPhase(c, {"save"}) /\ NextKey(c) \in Tx(c).absent)
               PROVE  FALSE
    BY DEF CirclesNeedAMissingRow
  <2>1. /\ Typed
        /\ \A c \in Calls : AnswerFits(c, session[c], rows, receipts)
        /\ \A c \in Calls : LocksFit(c, session[c], rows)
        /\ \A c \in Calls : Tx(c) = session[c].tx /\ Tx(c).todo \in Seq(Keys)
    BY SessionFacts DEF TransactInv
  <2>2. \A c, d \in Calls : c # d =>
           \A k \in Tx(c).locks : k \notin Tx(d).locks /\ k \notin Tx(d).written
    BY DEF TransactInv, SharedFits
  <2>3. \A c \in S : \E d \in S : /\ d # c
                                  /\ \/ NextKey(c) \in Tx(d).written
                                     \/ Exclusive(c) /\ NextKey(c) \in Tx(d).locks
    BY DEF Circle, WaitsFor
  <2>4. \A c \in S : NextKey(c) \in Keys /\ NextKey(c) # NoKey
    BY <2>1, <2>3, SessionFacts, NoKeyIsNoKey
  <2>5. \A c \in S : session[c].phase \in {"begin", "save"} \cup Reading
    BY <2>4 DEF NextKey, InPhase, Reading
  <2>6. \A c \in Calls : session[c].phase = "save" =>
          /\ Tx(c).todo # <<>> /\ NextKey(c) = Tx(c).todo[1] /\ 1 \in DOMAIN Tx(c).todo
          /\ Tx(c).todo[Len(Tx(c).todo)] \in Tx(c).absent
    <3> SUFFICES ASSUME NEW c \in Calls, session[c].phase = "save"
                 PROVE  /\ Tx(c).todo # <<>> /\ NextKey(c) = Tx(c).todo[1]
                        /\ 1 \in DOMAIN Tx(c).todo
                        /\ Tx(c).todo[Len(Tx(c).todo)] \in Tx(c).absent
      OBVIOUS
    <3>1. Tx(c).todo # <<>> /\ Tx(c).todo[Len(Tx(c).todo)] \in Tx(c).absent
      <4>1. AnswerFits(c, session[c], rows, receipts) /\ Tx(c) = session[c].tx  BY <2>1
      <4> QED  BY <4>1 DEF AnswerFits
    <3>2. NextKey(c) = Head(Tx(c).todo)  BY <3>1 DEF NextKey, InPhase
    <3>3. Head(Tx(c).todo) = Tx(c).todo[1] /\ 1 \in DOMAIN Tx(c).todo  BY <2>1, <3>1, TailFacts
    <3> QED  BY <3>1, <3>2, <3>3
  <2>7. \A c \in S : session[c].phase # "save"
    <3> SUFFICES ASSUME NEW c \in S, session[c].phase = "save" PROVE FALSE  OBVIOUS
    <3>1. NextKey(c) \notin Tx(c).absent  BY DEF InPhase
    <3>2. NextKey(c) \notin Tx(c).locks  BY <2>2, <2>3
    <3>3. NextKey(c)[1] = "evidence"
      <4>1. LocksFit(c, session[c], rows) /\ Tx(c) = session[c].tx  BY <2>1
      <4> QED  BY <4>1, <2>6, <3>1, <3>2 DEF LocksFit
    <3>4. PICK d \in S : d # c /\ NextKey(c) \in Tx(d).written
      <4>1. \A d \in S : NextKey(c) \notin Tx(d).locks
        <5>1. Rank("evidence") = 6  BY DEF Rank
        <5>2. \A d \in S : \A k \in Tx(d).locks : Rank(k[1]) <= 5  BY <2>1 DEF LocksFit
        <5> QED  BY <5>1, <5>2, <3>3
      <4> QED  BY <4>1, <2>3
    <3>5. session[d].phase = "save"
      <4>1. AnswerFits(d, session[d], rows, receipts) /\ Tx(d) = session[d].tx  BY <2>1
      <4> QED  BY <4>1, <2>5, <3>4, OpenFacts DEF AnswerFits
    <3>6. Len(Tx(d).todo) = 1
      <4>1. LocksFit(d, session[d], rows) /\ Tx(d) = session[d].tx  BY <2>1
      <4> QED  BY <4>1, <3>3, <3>4, <3>5 DEF LocksFit
    <3>7. NextKey(d) \in Tx(d).absent  BY <2>6, <3>5, <3>6
    <3> QED  BY <3>5, <3>7 DEF InPhase
  <2>8. \A c \in S : Tx(c).written = {}
    <3> SUFFICES ASSUME NEW c \in S PROVE Tx(c).written = {}  OBVIOUS
    <3>1. AnswerFits(c, session[c], rows, receipts) /\ Tx(c) = session[c].tx  BY <2>1
    <3> QED  BY <3>1, <2>5, <2>7, OpenFacts DEF AnswerFits
  <2>9. \A c \in S : session[c].phase \in {"claim", "load"}
    BY <2>3, <2>7, <2>8 DEF Exclusive, InPhase
  <2>10. \A c \in S : \E d \in S : session[d].phase = "load" /\ NextKey(c) \in Tx(d).locks
    <3> SUFFICES ASSUME NEW c \in S, NEW d \in S, NextKey(c) \in Tx(d).locks
                 PROVE  session[d].phase = "load"
      BY <2>3, <2>8
    <3>1. LocksFit(d, session[d], rows) /\ Tx(d) = session[d].tx  BY <2>1
    <3> QED  BY <3>1, <2>9 DEF LocksFit
  <2> DEFINE L == {c \in S : session[c].phase = "load"}
             R == {x \in L \X L : Below(NextKey(x[1]), NextKey(x[2]))}
  <2>11. L # {} /\ IsFiniteSet(L)
    <3>1. L \in SUBSET Calls  OBVIOUS
    <3> QED  BY <3>1, <2>10, TransactAssumption, FS_Subset
  <2>12. \A c \in L : NextKey(c) \in Keys  BY <2>4
  <2>13. /\ \A x \in L : <<x, x>> \notin R
         /\ \A x, y, z \in L : <<x, y>> \in R /\ <<y, z>> \in R => <<x, z>> \in R
    BY <2>12, BelowOrders
  <2>14. \A x \in L : \E y \in L : <<x, y>> \in R
    <3> SUFFICES ASSUME NEW x \in L, NEW y \in L, NextKey(x) \in Tx(y).locks
                 PROVE  Below(NextKey(x), NextKey(y))
      BY <2>10
    <3>1. LocksFit(y, session[y], rows) /\ Tx(y) = session[y].tx /\ Tx(y).todo \in Seq(Keys)
      BY <2>1
    <3>2. Tx(y).todo # <<>> /\ NextKey(y) = Head(Tx(y).todo)
      BY <2>4 DEF NextKey, InPhase
    <3>3. NextKey(y) \in Elems(Tx(y).todo)  BY <3>1, <3>2, TailFacts
    <3> QED  BY <3>1, <3>3 DEF LocksFit
  <2> HIDE DEF L, R
  <2> QED  BY <2>11, <2>13, <2>14, Last
<1> QED  BY <1>1, TransactInvariant, PTL

=============================================================================
