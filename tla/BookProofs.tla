----------------------------- MODULE BookProofs -----------------------------
(***************************************************************************)
(* What the operators of Book preserve, for every set of ids and accounts  *)
(* and every bound on prices and quantities.                               *)
(*                                                                         *)
(* The first part is about sums, of quantities and of amounts of money.    *)
(* The second part is about the containers.  Every operation on a book     *)
(* replaces one deque; ReplaceDeque says what it owes the rest of the book *)
(* and the operations are instances of it.  The third part is about the    *)
(* open orders the containers stand for: ExecuteEffect, RestEffect and     *)
(* CancelEffect say which entry of RestingMap an operation takes from,     *)
(* adds or removes, and leave everything else where it was.                *)
(***************************************************************************)
EXTENDS Book, TLAPS, FiniteSetTheorems, WellFoundedInduction, SequenceTheorems

----------------------------------------------------------------------------
(* Sums.  SumFunctionOnSet adds up the values of a function over a finite   *)
(* set in an order left to CHOOSE; the lemmas say that the order does not   *)
(* matter, and how a sum changes with the set and with the function.        *)
(* Induction over finite sets takes the form of a smallest counterexample.  *)

\* Some set of a family of subsets of a finite set has none of them inside it.
LEMMA SmallestSubset ==
    ASSUME NEW S, IsFiniteSet(S), NEW T, T \subseteq SUBSET S, T # {}
    PROVE  \E x \in T : \A y \in T : y \subseteq x => y = x
<1> DEFINE R == StrictSubsetOrdering(S)
<1>1. IsWellFoundedOn(R, SUBSET S)
    BY FS_StrictSubsetOrderingWellFounded, FS_FiniteSubsetsOfFinite
<1>2. \A x, y \in SUBSET S : x \subseteq y /\ x # y => <<x, y>> \in R
    BY DEF StrictSubsetOrdering
<1> HIDE DEF R
<1>3. PICK x \in T : \A y \in T : ~(<<y, x>> \in R)
    BY <1>1, WFMin
<1> QED
    BY <1>2, <1>3

----------------------------------------------------------------------------
(* The recursion behind SumFunctionOnSet                                    *)

\* The element a fold takes out of a set first.
Pick(s) == CHOOSE x \in s : TRUE

\* h[s] is the sum over s, for every subset s of S.
AreSums(h, f, S) ==
    h = [s \in SUBSET S |->
            IF s = {} THEN 0 ELSE f[Pick(s)] + h[s \ {Pick(s)}]]

\* The function the fold computes.
Sums(f, S) == CHOOSE h : AreSums(h, f, S)

\* The same, set by set.
LEMMA SumsOfEmpty ==
    ASSUME NEW h, NEW f, NEW S, AreSums(h, f, S) PROVE h[{}] = 0
<1>1. {} \in SUBSET S
    OBVIOUS
<1> QED
    BY <1>1 DEF AreSums

\* A set that is not empty.
LEMMA SumsAt ==
    ASSUME NEW h, NEW f, NEW S, AreSums(h, f, S), NEW s, s \subseteq S, s # {}
    PROVE  /\ Pick(s) \in s
           /\ h[s] = f[Pick(s)] + h[s \ {Pick(s)}]
<1>1. Pick(s) \in s
    BY DEF Pick
<1>2. s \in SUBSET S
    OBVIOUS
<1> QED
    BY <1>1, <1>2 DEF AreSums

\* Sums over the subsets of a set agree with sums over the subsets of another.
LEMMA SumsUnique ==
    ASSUME NEW f, NEW S, NEW T, IsFiniteSet(T), T \subseteq S,
           NEW g, AreSums(g, f, S), NEW h, AreSums(h, f, T),
           NEW s, s \subseteq T
    PROVE  g[s] = h[s]
<1> DEFINE Bad == {u \in SUBSET T : g[u] # h[u]}
<1> SUFFICES ASSUME Bad # {} PROVE FALSE
    OBVIOUS
<1>0. Bad \subseteq SUBSET T
    OBVIOUS
<1> HIDE DEF Bad
<1>1. PICK u \in Bad : \A v \in Bad : v \subseteq u => v = u
    BY <1>0, SmallestSubset
<1>2. u \subseteq T /\ u \subseteq S /\ g[u] # h[u]
    BY DEF Bad
<1>3. u # {}
    BY <1>2, SumsOfEmpty
<1> DEFINE v == u \ {Pick(u)}
<1>4. /\ Pick(u) \in u
      /\ g[u] = f[Pick(u)] + g[v]
      /\ h[u] = f[Pick(u)] + h[v]
    BY <1>2, <1>3, SumsAt
<1>5. v \subseteq T /\ v \subseteq u /\ v # u
    BY <1>2, <1>4
<1>6. g[v] = h[v]
    BY <1>1, <1>5 DEF Bad
<1> QED
    BY <1>2, <1>4, <1>6

\* Every finite set has its sums.
LEMMA SumsExist ==
    ASSUME NEW f, NEW S, IsFiniteSet(S) PROVE AreSums(Sums(f, S), f, S)
<1> DEFINE Bad == {T \in SUBSET S : ~AreSums(Sums(f, T), f, T)}
<1> SUFFICES ASSUME Bad # {} PROVE FALSE
    OBVIOUS
<1>0. Bad \subseteq SUBSET S
    OBVIOUS
<1> HIDE DEF Bad
<1>1. PICK T \in Bad : \A U \in Bad : U \subseteq T => U = T
    BY <1>0, SmallestSubset
<1>2. T \subseteq S /\ ~AreSums(Sums(f, T), f, T)
    BY DEF Bad
<1>3. \A U \in SUBSET T : U # T => AreSums(Sums(f, U), f, U) /\ IsFiniteSet(U)
    BY <1>1, <1>2, FS_Subset DEF Bad
<1>4. \A U \in SUBSET T : U # {} => Pick(U) \in U
    BY DEF Pick
<1> DEFINE below(U) == U \ {Pick(U)}
           top == IF T = {} THEN 0
                  ELSE f[Pick(T)] + Sums(f, below(T))[below(T)]
           h == [s \in SUBSET T |-> IF s = T THEN top ELSE Sums(f, s)[s]]
<1>5. ASSUME NEW s \in SUBSET T
      PROVE  h[s] = IF s = {} THEN 0 ELSE f[Pick(s)] + h[below(s)]
  <2>1. CASE s = T /\ s = {}
      BY <2>1
  <2>2. CASE s = T /\ s # {}
    <3>1. below(T) \in SUBSET T /\ below(T) # T
        BY <1>4, <2>2
    <3>2. h[below(T)] = Sums(f, below(T))[below(T)]
        BY <3>1
    <3> QED
        BY <2>2, <3>2
  <2>3. CASE s # T
    <3>1. /\ AreSums(Sums(f, s), f, s)
          /\ h[s] = Sums(f, s)[s]
        BY <1>3, <2>3
    <3>2. CASE s = {}
      <4>1. Sums(f, s)[{}] = 0
          BY <3>1, SumsOfEmpty
      <4> QED
          BY <3>1, <3>2, <4>1
    <3>3. CASE s # {}
      <4> DEFINE u == below(s)
      <4>1. /\ Pick(s) \in s
            /\ Sums(f, s)[s] = f[Pick(s)] + Sums(f, s)[u]
          BY <3>1, <3>3, SumsAt
      <4>2. u \in SUBSET T /\ u # T /\ u \subseteq s
          BY <4>1
      <4>3. AreSums(Sums(f, u), f, u) /\ IsFiniteSet(u)
          BY <1>3, <4>2
      <4>4. h[u] = Sums(f, u)[u]
          BY <4>2
      <4> HIDE DEF u, h
      <4>5. Sums(f, s)[u] = Sums(f, u)[u]
          BY <3>1, <4>2, <4>3, SumsUnique
      <4> QED
          BY <3>1, <3>3, <4>1, <4>4, <4>5 DEF u
    <3> QED
        BY <3>2, <3>3
  <2> QED
      BY <2>1, <2>2, <2>3
<1>6. h = [s \in SUBSET T |-> h[s]]
    OBVIOUS
<1> HIDE DEF h
<1>7. AreSums(h, f, T)
    BY <1>5, <1>6 DEF AreSums
<1> QED
    BY <1>2, <1>7 DEF Sums

\* SumFunctionOnSet is the largest of these sums.
LEMMA SumDef ==
    ASSUME NEW f, NEW S
    PROVE  SumFunctionOnSet(f, S) = Sums(f, S)[S]
    BY DEF SumFunctionOnSet, FoldFunctionOnSet, MapThenFoldSet, Sums, AreSums, Pick

----------------------------------------------------------------------------
(* The laws of a sum                                                        *)

\* Nothing adds up to zero.
LEMMA SumEmpty == \A f : SumFunctionOnSet(f, {}) = 0
<1> SUFFICES ASSUME NEW f PROVE SumFunctionOnSet(f, {}) = 0
    OBVIOUS
<1>1. AreSums(Sums(f, {}), f, {})
    BY SumsExist, FS_EmptySet
<1> QED
    BY <1>1, SumDef, SumsOfEmpty

\* The fold takes out one element and goes on with the others.
LEMMA SumPick ==
    ASSUME NEW f, NEW S, IsFiniteSet(S), S # {}
    PROVE  /\ Pick(S) \in S
           /\ SumFunctionOnSet(f, S) =
                f[Pick(S)] + SumFunctionOnSet(f, S \ {Pick(S)})
<1> DEFINE U == S \ {Pick(S)}
<1>1. IsFiniteSet(U) /\ U \subseteq S
    BY FS_Subset
<1> HIDE DEF U
<1>2. AreSums(Sums(f, S), f, S) /\ AreSums(Sums(f, U), f, U)
    BY <1>1, SumsExist
<1>3. Sums(f, S)[U] = Sums(f, U)[U]
    BY <1>1, <1>2, SumsUnique
<1>4. Pick(S) \in S /\ Sums(f, S)[S] = f[Pick(S)] + Sums(f, S)[U]
    BY <1>2, SumsAt DEF U
<1> QED
    BY <1>3, <1>4, SumDef DEF U

\* Functions that agree on a set have the same sum over it.
LEMMA SumAgree ==
    ASSUME NEW f, NEW g, NEW S, IsFiniteSet(S), \A x \in S : f[x] = g[x]
    PROVE  SumFunctionOnSet(f, S) = SumFunctionOnSet(g, S)
<1> DEFINE Bad == {T \in SUBSET S :
                     SumFunctionOnSet(f, T) # SumFunctionOnSet(g, T)}
<1> SUFFICES ASSUME Bad # {} PROVE FALSE
    OBVIOUS
<1>0. Bad \subseteq SUBSET S
    OBVIOUS
<1> HIDE DEF Bad
<1>1. PICK T \in Bad : \A U \in Bad : U \subseteq T => U = T
    BY <1>0, SmallestSubset
<1>2. /\ T \subseteq S /\ IsFiniteSet(T)
      /\ SumFunctionOnSet(f, T) # SumFunctionOnSet(g, T)
    BY FS_Subset DEF Bad
<1>3. T # {}
    BY <1>2, SumEmpty
<1> DEFINE U == T \ {Pick(T)}
<1>4. /\ Pick(T) \in T
      /\ SumFunctionOnSet(f, T) = f[Pick(T)] + SumFunctionOnSet(f, U)
      /\ SumFunctionOnSet(g, T) = g[Pick(T)] + SumFunctionOnSet(g, U)
    BY <1>2, <1>3, SumPick
<1>5. SumFunctionOnSet(f, U) = SumFunctionOnSet(g, U)
    BY <1>1, <1>2, <1>4 DEF Bad
<1> QED
    BY <1>2, <1>4, <1>5

\* A sum of zeros is zero.
LEMMA SumZero ==
    ASSUME NEW f, NEW S, IsFiniteSet(S), \A x \in S : f[x] = 0
    PROVE  SumFunctionOnSet(f, S) = 0
<1> DEFINE Bad == {T \in SUBSET S : SumFunctionOnSet(f, T) # 0}
<1> SUFFICES ASSUME Bad # {} PROVE FALSE
    OBVIOUS
<1>0. Bad \subseteq SUBSET S
    OBVIOUS
<1> HIDE DEF Bad
<1>1. PICK T \in Bad : \A U \in Bad : U \subseteq T => U = T
    BY <1>0, SmallestSubset
<1>2. T \subseteq S /\ IsFiniteSet(T) /\ SumFunctionOnSet(f, T) # 0
    BY FS_Subset DEF Bad
<1>3. T # {}
    BY <1>2, SumEmpty
<1> DEFINE U == T \ {Pick(T)}
<1>4. /\ Pick(T) \in T
      /\ SumFunctionOnSet(f, T) = f[Pick(T)] + SumFunctionOnSet(f, U)
    BY <1>2, <1>3, SumPick
<1>5. SumFunctionOnSet(f, U) = 0
    BY <1>1, <1>2, <1>4 DEF Bad
<1> QED
    BY <1>2, <1>4, <1>5

\* A sum of integers is one, and a sum of natural numbers is one.
LEMMA SumType ==
    ASSUME NEW f, NEW S, IsFiniteSet(S), \A x \in S : f[x] \in Int
    PROVE  /\ SumFunctionOnSet(f, S) \in Int
           /\ (\A x \in S : f[x] \in Nat) => SumFunctionOnSet(f, S) \in Nat
<1> DEFINE Good(T) ==
             /\ SumFunctionOnSet(f, T) \in Int
             /\ (\A x \in S : f[x] \in Nat) => SumFunctionOnSet(f, T) \in Nat
           Bad == {T \in SUBSET S : ~Good(T)}
<1> SUFFICES ASSUME Bad # {} PROVE FALSE
    OBVIOUS
<1>0. Bad \subseteq SUBSET S
    OBVIOUS
<1> HIDE DEF Bad
<1>1. PICK T \in Bad : \A U \in Bad : U \subseteq T => U = T
    BY <1>0, SmallestSubset
<1>2. T \subseteq S /\ IsFiniteSet(T) /\ ~Good(T)
    BY FS_Subset DEF Bad
<1>3. T # {}
    BY <1>2, SumEmpty
<1> DEFINE U == T \ {Pick(T)}
<1>4. /\ Pick(T) \in T
      /\ SumFunctionOnSet(f, T) = f[Pick(T)] + SumFunctionOnSet(f, U)
    BY <1>2, <1>3, SumPick
<1>5. Good(U)
    BY <1>1, <1>2, <1>4 DEF Bad
<1> QED
    BY <1>2, <1>4, <1>5

\* Any element can be taken out of a sum.
LEMMA SumRemove ==
    ASSUME NEW f, NEW S, IsFiniteSet(S), \A x \in S : f[x] \in Int, NEW y \in S
    PROVE  SumFunctionOnSet(f, S) = f[y] + SumFunctionOnSet(f, S \ {y})
<1> DEFINE sum(T) == SumFunctionOnSet(f, T)
           Good(T) == \A x \in T : sum(T) = f[x] + sum(T \ {x})
           Bad == {T \in SUBSET S : ~Good(T)}
<1> SUFFICES ASSUME Bad # {} PROVE FALSE
    OBVIOUS
<1>0. Bad \subseteq SUBSET S
    OBVIOUS
<1> HIDE DEF Bad
<1>1. PICK T \in Bad : \A U \in Bad : U \subseteq T => U = T
    BY <1>0, SmallestSubset
<1>2. T \subseteq S /\ IsFiniteSet(T) /\ ~Good(T)
    BY FS_Subset DEF Bad
<1>3. PICK x \in T : sum(T) # f[x] + sum(T \ {x})
    BY <1>2
<1> DEFINE p == Pick(T)
<1>4. p \in T /\ sum(T) = f[p] + sum(T \ {p})
    BY <1>2, SumPick
<1>5. x # p
    BY <1>3, <1>4
<1>6. Good(T \ {p}) /\ Good(T \ {x})
    BY <1>1, <1>2, <1>4 DEF Bad
<1> HIDE DEF p
<1>7. /\ sum(T \ {p}) = f[x] + sum((T \ {p}) \ {x})
      /\ sum(T \ {x}) = f[p] + sum((T \ {x}) \ {p})
    BY <1>4, <1>5, <1>6
<1>8. (T \ {p}) \ {x} = (T \ {x}) \ {p}
    OBVIOUS
<1>9. sum((T \ {x}) \ {p}) \in Int /\ f[x] \in Int /\ f[p] \in Int
  <2>1. IsFiniteSet((T \ {x}) \ {p}) /\ \A z \in (T \ {x}) \ {p} : f[z] \in Int
      BY <1>2, FS_Subset
  <2> QED
      BY <1>2, <1>4, <2>1, SumType
<1> DEFINE rest == sum((T \ {x}) \ {p})
<1> HIDE DEF sum
<1>10. sum(T) = f[p] + (f[x] + rest) /\ sum(T \ {x}) = f[p] + rest
    BY <1>4, <1>7, <1>8
<1>11. rest \in Int
    BY <1>9
<1> HIDE DEF rest
<1>12. sum(T) = f[x] + sum(T \ {x})
    BY <1>9, <1>10, <1>11
<1> QED
    BY <1>3, <1>12

\* One more element adds its value.
LEMMA SumAdd ==
    ASSUME NEW f, NEW S, IsFiniteSet(S), NEW y, y \notin S,
           \A x \in S \cup {y} : f[x] \in Int
    PROVE  SumFunctionOnSet(f, S \cup {y}) = SumFunctionOnSet(f, S) + f[y]
<1> DEFINE T == S \cup {y}
<1>1. IsFiniteSet(T) /\ y \in T /\ T \ {y} = S /\ f[y] \in Int
    BY FS_AddElement
<1>2. SumFunctionOnSet(f, T) = f[y] + SumFunctionOnSet(f, T \ {y})
  <2>1. \A x \in T : f[x] \in Int
      OBVIOUS
  <2> HIDE DEF T
  <2> QED
      BY <1>1, <2>1, SumRemove
<1>3. SumFunctionOnSet(f, S) \in Int
    BY SumType
<1> HIDE DEF T
<1>4. SumFunctionOnSet(f, T) = f[y] + SumFunctionOnSet(f, S)
    BY <1>1, <1>2
<1> DEFINE sum == SumFunctionOnSet(f, S)
           v   == f[y]
<1>5. sum \in Int /\ v \in Int
    BY <1>1, <1>3
<1> HIDE DEF sum, v
<1>6. v + sum = sum + v
    BY <1>5
<1> QED
    BY <1>4, <1>6 DEF T, sum, v

\* A function that changes at one element changes the sum by as much.
LEMMA SumChange ==
    ASSUME NEW f, NEW g, NEW S, IsFiniteSet(S), NEW y \in S,
           \A x \in S : f[x] \in Int, g[y] \in Int,
           \A x \in S \ {y} : g[x] = f[x]
    PROVE  SumFunctionOnSet(g, S) = SumFunctionOnSet(f, S) - f[y] + g[y]
<1> DEFINE U == S \ {y}
<1>1. IsFiniteSet(U)
    BY FS_Subset
<1>2. \A x \in S : g[x] \in Int
    OBVIOUS
<1>3. /\ SumFunctionOnSet(f, S) = f[y] + SumFunctionOnSet(f, U)
      /\ SumFunctionOnSet(g, S) = g[y] + SumFunctionOnSet(g, U)
    BY <1>2, SumRemove
<1>4. SumFunctionOnSet(f, U) = SumFunctionOnSet(g, U)
    BY <1>1, SumAgree
<1>5. SumFunctionOnSet(f, U) \in Int
    BY <1>1, SumType
<1> HIDE DEF U
<1> QED
    BY <1>3, <1>4, <1>5

\* No natural number of a sum is larger than the sum.
LEMMA SumBound ==
    ASSUME NEW f, NEW S, IsFiniteSet(S), \A x \in S : f[x] \in Nat, NEW y \in S
    PROVE  f[y] <= SumFunctionOnSet(f, S)
<1>1. /\ IsFiniteSet(S \ {y})
      /\ \A x \in S : f[x] \in Int
    BY FS_Subset
<1>2. SumFunctionOnSet(f, S) = f[y] + SumFunctionOnSet(f, S \ {y})
    BY <1>1, SumRemove
<1>3. SumFunctionOnSet(f, S \ {y}) \in Nat /\ f[y] \in Nat
  <2> DEFINE U == S \ {y}
  <2>1. \A x \in U : f[x] \in Nat /\ f[x] \in Int
      OBVIOUS
  <2> HIDE DEF U
  <2>2. SumFunctionOnSet(f, U) \in Nat
      BY <1>1, <2>1, SumType DEF U
  <2> QED
      BY <2>2 DEF U
<1> QED
    BY <1>2, <1>3

\* The values of a function under other names have the same sum.
Renames(e, S) == \A x, y \in S : e[x] = e[y] => x = y

\* The sum over the other names.
LEMMA SumRenamed ==
    ASSUME NEW f, NEW g, NEW e, NEW S, IsFiniteSet(S), Renames(e, S),
           \A x \in S : f[x] \in Int, \A x \in S : g[e[x]] = f[x]
    PROVE  SumFunctionOnSet(g, {e[x] : x \in S}) = SumFunctionOnSet(f, S)
<1> DEFINE image(T) == {e[x] : x \in T}
           Good(T) == SumFunctionOnSet(g, image(T)) = SumFunctionOnSet(f, T)
           Bad == {T \in SUBSET S : ~Good(T)}
<1> SUFFICES ASSUME Bad # {} PROVE FALSE
    OBVIOUS
<1>0. Bad \subseteq SUBSET S
    OBVIOUS
<1> HIDE DEF Bad
<1>1. PICK T \in Bad : \A U \in Bad : U \subseteq T => U = T
    BY <1>0, SmallestSubset
<1>2. T \subseteq S /\ IsFiniteSet(T) /\ ~Good(T)
    BY FS_Subset DEF Bad
<1>3. T # {}
  <2>1. image({}) = {}
      OBVIOUS
  <2> QED
      BY <1>2, <2>1, SumEmpty
<1>4. PICK y \in T : TRUE
    BY <1>3
<1> DEFINE U == T \ {y}
<1>5. Good(U)
    BY <1>1, <1>2, <1>4 DEF Bad
<1>6. SumFunctionOnSet(f, T) = f[y] + SumFunctionOnSet(f, U)
    BY <1>2, SumRemove
<1>7. IsFiniteSet(image(T))
  <2> DEFINE h == [x \in T |-> e[x]]
  <2>1. h \in Surjection(T, image(T))
      BY DEF Surjection
  <2> HIDE DEF h
  <2> QED
      BY <1>2, <2>1, FS_Surjection
<1>8. image(T) \ {e[y]} = image(U) /\ e[y] \in image(T)
    BY <1>2, <1>4 DEF Renames
<1>9. \A z \in image(T) : g[z] \in Int
    BY <1>2
<1>10. g[e[y]] = f[y]
    BY <1>2
<1> HIDE DEF U
<1>11. SumFunctionOnSet(g, image(T)) = f[y] + SumFunctionOnSet(g, image(U))
  <2> DEFINE V == image(T)
             z == e[y]
  <2>1. IsFiniteSet(V) /\ z \in V /\ \A x \in V : g[x] \in Int
      BY <1>7, <1>8, <1>9
  <2> HIDE DEF V, z
  <2>2. SumFunctionOnSet(g, V) = g[z] + SumFunctionOnSet(g, V \ {z})
      BY <2>1, SumRemove
  <2> QED
      BY <1>8, <1>10, <2>2 DEF V, z
<1> QED
    BY <1>2, <1>5, <1>6, <1>11

----------------------------------------------------------------------------
(* One deque of a book replaced                                             *)

\* The map of one side after its deque at price p has become d, the way
\* remove_empty_level leaves it.
WithDeque(lv, p, d) == remove_empty_level(PutLevel(lv, p, d), p)

\* lv2 is lv with d as the deque at price p: no other price is touched, and
\* the price is a key exactly if the deque is not empty.
IsWithDeque(lv2, lv, p, d) ==
    /\ IsLevelMap(lv2)
    /\ d = <<>> => DOMAIN lv2 = DOMAIN lv \ {p}
    /\ d # <<>> => DOMAIN lv2 = DOMAIN lv \cup {p}
    /\ d # <<>> => lv2[p] = d
    /\ \A q \in DOMAIN lv \ {p} : lv2[q] = lv[q]

\* What PutLevel followed by remove_empty_level does to a side of the book.
LEMMA WithDequeFacts ==
    ASSUME NEW lv, IsLevelMap(lv), NEW p \in Prices, NEW d \in Seq(RestingOrders)
    PROVE  IsWithDeque(WithDeque(lv, p, d), lv, p, d)
<1> DEFINE put == PutLevel(lv, p, d)
<1>1. /\ DOMAIN put = DOMAIN lv \cup {p}
      /\ \A q \in DOMAIN put : put[q] = IF q = p THEN d ELSE lv[q]
      /\ put \in [DOMAIN put -> Seq(RestingOrders)]
      /\ DOMAIN put \subseteq Prices
    BY DEF PutLevel, IsLevelMap
<1>2. CASE d = <<>>
    BY <1>1, <1>2 DEF WithDeque, remove_empty_level, IsLevelMap, IsWithDeque
<1>3. CASE d # <<>>
    BY <1>1, <1>3 DEF WithDeque, remove_empty_level, IsLevelMap, IsWithDeque
<1> QED
    BY <1>2, <1>3

\* What a new deque d at (s, p) and a new index owe to a book: d has no id
\* twice, the new index holds its entries, and everyone else stays where he was.
MayReplace(b, s, p, d, locs) ==
    /\ \A j, k \in DOMAIN d : j # k => d[j].order_id # d[k].order_id
    /\ \A k \in DOMAIN d :
          /\ d[k].order_id \in DOMAIN locs
          /\ locs[d[k].order_id] = [side |-> s, price |-> p,
                                    account_id |-> d[k].account_id]
    /\ \A id \in DOMAIN b.order_locations :
          \/ /\ b.order_locations[id].side = s
             /\ b.order_locations[id].price = p
          \/ /\ id \in DOMAIN locs
             /\ locs[id] = b.order_locations[id]
    /\ \A id \in DOMAIN locs :
          \/ locs[id].side = s /\ locs[id].price = p /\ IsIn(d, id)
          \/ /\ id \in DOMAIN b.order_locations
             /\ locs[id] = b.order_locations[id]
             /\ locs[id].side # s \/ locs[id].price # p

\* Replacing a deque under these conditions keeps the index and the deques of
\* the whole book consistent.
LEMMA ReplaceDeque ==
    ASSUME NEW b, IsBook(b), IndexConsistent(b),
           NEW s \in Sides, NEW p \in Prices, NEW d \in Seq(RestingOrders),
           NEW locs, IsIndex(locs), NEW n \in Nat, MayReplace(b, s, p, d, locs),
           NEW b2, b2 = [levels |-> [b.levels EXCEPT ![s] = WithDeque(@, p, d)],
                         order_locations |-> locs, next_execution_id |-> n]
    PROVE  IsBook(b2) /\ IndexConsistent(b2)
<1> DEFINE lv2 == WithDeque(b.levels[s], p, d)
<1>1. /\ b2.order_locations = locs
      /\ b2.next_execution_id = n
      /\ b2.levels = [b.levels EXCEPT ![s] = lv2]
      /\ b2 = [levels |-> b2.levels, order_locations |-> b2.order_locations,
               next_execution_id |-> b2.next_execution_id]
    OBVIOUS
<1>2. /\ DOMAIN b.levels = Sides
      /\ \A t \in Sides : IsLevelMap(b.levels[t])
    BY DEF IsBook
<1>3. /\ b2.levels = [t \in Sides |-> b2.levels[t]]
      /\ b2.levels[s] = lv2
      /\ \A t \in Sides \ {s} : b2.levels[t] = b.levels[t]
    BY <1>1, <1>2 DEF IsBook
<1>4. /\ IsLevelMap(lv2)
      /\ d = <<>> => DOMAIN lv2 = DOMAIN b.levels[s] \ {p}
      /\ d # <<>> => DOMAIN lv2 = DOMAIN b.levels[s] \cup {p}
      /\ d # <<>> => lv2[p] = d
      /\ \A q \in DOMAIN b.levels[s] \ {p} : lv2[q] = b.levels[s][q]
  <2>1. IsWithDeque(lv2, b.levels[s], p, d)
      BY <1>2, WithDequeFacts
  <2> QED
      BY <2>1 DEF IsWithDeque
<1> HIDE DEF lv2
<1>5. IsBook(b2)
    BY <1>1, <1>2, <1>3, <1>4 DEF IsBook
<1>6. LevelsNonEmpty(b2)
    BY <1>3, <1>4 DEF IndexConsistent, LevelsNonEmpty
<1>7. EntriesIndexed(b2)
  <2> SUFFICES ASSUME NEW t \in Sides, NEW q \in DOMAIN b2.levels[t],
                      NEW k \in DOMAIN b2.levels[t][q]
               PROVE  /\ b2.levels[t][q][k].order_id \in DOMAIN b2.order_locations
                      /\ b2.order_locations[b2.levels[t][q][k].order_id] =
                           [side |-> t, price |-> q,
                            account_id |-> b2.levels[t][q][k].account_id]
      BY DEF EntriesIndexed
  <2>1. CASE t = s /\ q = p
    <3>1. b2.levels[t][q] = d
        BY <2>1, <1>3, <1>4
    <3> QED
        BY <2>1, <3>1, <1>1 DEF MayReplace
  <2>2. CASE ~(t = s /\ q = p)
    <3>1. /\ q \in DOMAIN b.levels[t]
          /\ b2.levels[t][q] = b.levels[t][q]
        BY <2>2, <1>3, <1>4
    <3> DEFINE r == b.levels[t][q][k]
    <3>2. /\ r.order_id \in DOMAIN b.order_locations
          /\ b.order_locations[r.order_id] =
               [side |-> t, price |-> q, account_id |-> r.account_id]
      <4>1. k \in DOMAIN b.levels[t][q]
          BY <3>1
      <4>2. EntriesIndexed(b)
          BY DEF IndexConsistent
      <4> QED
          BY <3>1, <4>1, <4>2 DEF EntriesIndexed
    <3>3. ~(b.order_locations[r.order_id].side = s
            /\ b.order_locations[r.order_id].price = p)
        BY <3>2, <2>2
    <3> HIDE DEF r
    <3> QED
        BY <3>1, <3>2, <3>3, <1>1 DEF r, MayReplace
  <2> QED
      BY <2>1, <2>2
<1>8. IndexedPresent(b2)
  <2> SUFFICES ASSUME NEW id \in DOMAIN locs
               PROVE  /\ locs[id].price \in DOMAIN b2.levels[locs[id].side]
                      /\ IsIn(b2.levels[locs[id].side][locs[id].price], id)
      BY <1>1 DEF IndexedPresent
  <2>1. CASE locs[id].side = s /\ locs[id].price = p /\ IsIn(d, id)
    <3>1. d # <<>>
        BY <2>1 DEF IsIn
    <3> QED
        BY <2>1, <3>1, <1>3, <1>4
  <2>2. CASE /\ id \in DOMAIN b.order_locations
             /\ locs[id] = b.order_locations[id]
             /\ locs[id].side # s \/ locs[id].price # p
    <3>1. locs[id].side \in Sides
        BY DEF IsIndex, Locations
    <3>2. /\ locs[id].price \in DOMAIN b.levels[locs[id].side]
          /\ IsIn(b.levels[locs[id].side][locs[id].price], id)
        BY <2>2 DEF IndexConsistent, IndexedPresent
    <3> DEFINE t == locs[id].side
               q == locs[id].price
    <3>3. t \in Sides /\ q \in DOMAIN b.levels[t] /\ IsIn(b.levels[t][q], id)
        BY <3>1, <3>2
    <3>4. t # s \/ q # p
        BY <2>2
    <3> HIDE DEF t, q
    <3>5. q \in DOMAIN b2.levels[t] /\ b2.levels[t][q] = b.levels[t][q]
        BY <3>3, <3>4, <1>3, <1>4
    <3>6. q \in DOMAIN b2.levels[t] /\ IsIn(b2.levels[t][q], id)
        BY <3>3, <3>5
    <3> QED
        BY <3>6 DEF t, q
  <2> QED
      BY <2>1, <2>2 DEF MayReplace
<1>9. NoDuplicates(b2)
  <2> SUFFICES ASSUME NEW t \in Sides, NEW q \in DOMAIN b2.levels[t],
                      NEW j \in DOMAIN b2.levels[t][q],
                      NEW k \in DOMAIN b2.levels[t][q], j # k
               PROVE  b2.levels[t][q][j].order_id # b2.levels[t][q][k].order_id
      BY DEF NoDuplicates
  <2>1. CASE t = s /\ q = p
    <3>1. b2.levels[t][q] = d
        BY <2>1, <1>3, <1>4
    <3> QED
        BY <3>1 DEF MayReplace
  <2>2. CASE ~(t = s /\ q = p)
    <3>1. /\ q \in DOMAIN b.levels[t]
          /\ b2.levels[t][q] = b.levels[t][q]
        BY <2>2, <1>3, <1>4
    <3>2. NoDuplicates(b)
        BY DEF IndexConsistent
    <3> QED
        BY <3>1, <3>2 DEF NoDuplicates
  <2> QED
      BY <2>1, <2>2
<1> QED
    BY <1>5, <1>6, <1>7, <1>8, <1>9 DEF IndexConsistent

----------------------------------------------------------------------------
(* The best level                                                           *)

\* A side that is not empty has a first level in its iteration order.
LEMMA BestExists ==
    ASSUME NEW lv, DOMAIN lv \subseteq Prices, DOMAIN lv # {}, NEW s \in Sides
    PROVE  \E p \in DOMAIN lv : IsBest(lv, s, p)
<1>1. DOMAIN lv \subseteq Nat /\ MaxPrice \in Nat
    BY BookAssumption DEF Prices
<1> DEFINE R == OpToRel(<, Nat)
<1>2. IsWellFoundedOn(R, Nat)
    BY NatLessThanWellFounded
<1>3. \A x, y \in Nat : x < y => <<x, y>> \in R
    BY DEF OpToRel
<1> HIDE DEF R
<1>4. CASE s = "sell"
  <2>1. PICK p \in DOMAIN lv : \A q \in DOMAIN lv : ~(<<q, p>> \in R)
      BY <1>1, <1>2, WFMin
  <2>2. \A q \in DOMAIN lv \ {p} : p < q
    <3> SUFFICES ASSUME NEW q \in DOMAIN lv \ {p}, ~(p < q) PROVE FALSE
        OBVIOUS
    <3>1. q < p /\ q \in Nat /\ p \in Nat
        BY <1>1
    <3> QED
        BY <1>3, <2>1, <3>1
  <2> QED
      BY <1>4, <2>2 DEF IsBest, Better
<1>5. CASE s = "buy"
  <2> DEFINE T == {MaxPrice - q : q \in DOMAIN lv}
  <2>1. T \subseteq Nat /\ T # {}
      BY <1>1 DEF Prices
  <2>2. PICK x \in T : \A y \in T : ~(<<y, x>> \in R)
      BY <1>2, <2>1, WFMin
  <2>3. PICK p \in DOMAIN lv : x = MaxPrice - p
      OBVIOUS
  <2>4. \A q \in DOMAIN lv \ {p} : p > q
    <3> SUFFICES ASSUME NEW q \in DOMAIN lv \ {p}, ~(p > q) PROVE FALSE
        OBVIOUS
    <3>1. MaxPrice - q \in T /\ MaxPrice - q < x
        BY <1>1, <2>3
    <3> QED
        BY <1>3, <2>1, <2>2, <3>1
  <2> QED
      BY <1>5, <2>4 DEF IsBest, Better
<1> QED
    BY <1>4, <1>5 DEF Sides

\* The loop condition looks at the best level only; that is enough, because no
\* level crosses an order that the best one does not cross.
LEMMA NothingMatchable ==
    ASSUME NEW b, IsBook(b), NEW o \in Orders, NEW remaining \in Nat \ {0},
           \A p \in Prices : ~Matchable(b, o, remaining, p)
    PROVE  \A q \in DOMAIN b.levels[Opposite(o.side)] : ~Crosses(o, q)
<1> SUFFICES ASSUME NEW q \in DOMAIN b.levels[Opposite(o.side)], Crosses(o, q)
             PROVE  FALSE
    OBVIOUS
<1> DEFINE s  == Opposite(o.side)
           lv == b.levels[s]
<1>1. o.side \in Sides /\ s \in Sides /\ o.price \in Int
    BY DEF Orders, Opposite, Sides
<1>2. DOMAIN lv \subseteq Prices /\ Prices \subseteq Int
    BY <1>1, BookAssumption DEF IsBook, IsLevelMap, Prices
<1>3. PICK p \in DOMAIN lv : IsBest(lv, s, p)
    BY <1>1, <1>2, BestExists
<1>4. p = q \/ Better(s, p, q)
    BY <1>3 DEF IsBest
<1>5. Crosses(o, p)
  <2>1. p \in Int /\ q \in Int
      BY <1>2
  <2>2. CASE o.side = "buy"
      BY <1>1, <1>4, <2>1, <2>2 DEF Crosses, Better, Opposite
  <2>3. CASE o.side = "sell"
      BY <1>1, <1>4, <2>1, <2>3 DEF Crosses, Better, Opposite
  <2> QED
      BY <1>1, <2>2, <2>3 DEF Sides
<1>6. Matchable(b, o, remaining, p)
    BY <1>3, <1>5 DEF Matchable
<1> QED
    BY <1>2, <1>6

----------------------------------------------------------------------------
(* One deque of a consistent book                                           *)

\* The deque at price p of side s, empty if there is no such level.
Queue(b, s, p) ==
    IF p \in DOMAIN b.levels[s] THEN b.levels[s][p] ELSE <<>>

\* A map without the key i.
Without(f, i) == [x \in DOMAIN f \ {i} |-> f[x]]

\* The book b2 is b with another deque at (s, p), index and next execution id.
IsReplaced(b2, b, s, p, d, locs, n) ==
    b2 = [levels |-> [b.levels EXCEPT ![s] = WithDeque(@, p, d)],
          order_locations |-> locs, next_execution_id |-> n]

\* d is q without its entry number k.
IsWithout(d, q, k) ==
    /\ d \in Seq(RestingOrders)
    /\ Len(d) = Len(q) - 1
    /\ \A j \in 1 .. Len(d) : d[j] = IF j < k THEN q[j] ELSE q[j + 1]

\* q is a deque of orders with different ids, indexed in locs as resting at
\* price p of side s, and nobody else is indexed there.
IsDequeAt(q, locs, s, p) ==
    /\ p \in Prices
    /\ q \in Seq(RestingOrders)
    /\ q # <<>>
    /\ Len(q) \in Nat \ {0}
    /\ DOMAIN q = 1 .. Len(q)
    /\ \A k \in 1 .. Len(q) :
          /\ q[k] \in RestingOrders
          /\ q[k].order_id \in DOMAIN locs
          /\ locs[q[k].order_id] =
               [side |-> s, price |-> p, account_id |-> q[k].account_id]
    /\ \A j, k \in 1 .. Len(q) : j # k => q[j].order_id # q[k].order_id
    /\ \A id \in DOMAIN locs :
          locs[id].side = s /\ locs[id].price = p
          => \E k \in 1 .. Len(q) : q[k].order_id = id

\* Every deque of a consistent book is one.
LEMMA DequeFacts ==
    ASSUME NEW b, IsBook(b), IndexConsistent(b),
           NEW s \in Sides, NEW p \in DOMAIN b.levels[s]
    PROVE  IsDequeAt(b.levels[s][p], b.order_locations, s, p)
<1> DEFINE q == b.levels[s][p]
<1>1. IsLevelMap(b.levels[s])
    BY DEF IsBook
<1>2. p \in Prices /\ q \in Seq(RestingOrders)
    BY <1>1 DEF IsLevelMap
<1>3. q # <<>>
    BY DEF IndexConsistent, LevelsNonEmpty
<1>4. /\ Len(q) \in Nat \ {0}
      /\ DOMAIN q = 1 .. Len(q)
      /\ \A k \in 1 .. Len(q) : q[k] \in RestingOrders
    BY <1>2, <1>3, LenProperties, EmptySeq
<1>5. \A k \in 1 .. Len(q) :
        /\ q[k].order_id \in DOMAIN b.order_locations
        /\ b.order_locations[q[k].order_id] =
             [side |-> s, price |-> p, account_id |-> q[k].account_id]
  <2> SUFFICES ASSUME NEW k \in DOMAIN q
               PROVE  /\ q[k].order_id \in DOMAIN b.order_locations
                      /\ b.order_locations[q[k].order_id] =
                           [side |-> s, price |-> p, account_id |-> q[k].account_id]
      BY <1>4
  <2>1. EntriesIndexed(b)
      BY DEF IndexConsistent
  <2> QED
      BY <2>1 DEF EntriesIndexed
<1>6. \A j, k \in 1 .. Len(q) : j # k => q[j].order_id # q[k].order_id
    BY <1>4 DEF IndexConsistent, NoDuplicates
<1>7. \A id \in DOMAIN b.order_locations :
        /\ b.order_locations[id].side = s
        /\ b.order_locations[id].price = p
        => \E k \in 1 .. Len(q) : q[k].order_id = id
    BY <1>4 DEF IndexConsistent, IndexedPresent, IsIn
<1> HIDE DEF q
<1>8. IsDequeAt(q, b.order_locations, s, p)
    BY <1>2, <1>3, <1>4, <1>5, <1>6, <1>7 DEF IsDequeAt
<1> QED
    BY <1>8 DEF q

\* Dropping an id from the index keeps its type.
LEMMA DropFromIndex ==
    ASSUME NEW locs, IsIndex(locs), NEW id
    PROVE  IsIndex([i \in DOMAIN locs \ {id} |-> locs[i]])
    BY DEF IsIndex

\* If an id is dropped from the index and its entry from the deque it is in,
\* and all other entries of that deque stay, the book stays consistent.
LEMMA DropEntry ==
    ASSUME NEW b, IsBook(b), IndexConsistent(b),
           NEW s \in Sides, NEW p \in DOMAIN b.levels[s],
           NEW k \in 1 .. Len(b.levels[s][p]), NEW n \in Nat,
           NEW d \in Seq(RestingOrders),
           Len(d) = Len(b.levels[s][p]) - 1,
           \A j \in 1 .. Len(d) :
              d[j] = IF j < k THEN b.levels[s][p][j] ELSE b.levels[s][p][j + 1],
           NEW b2,
           b2 = [levels |-> [b.levels EXCEPT ![s] = WithDeque(@, p, d)],
                 order_locations |->
                    [i \in DOMAIN b.order_locations
                              \ {b.levels[s][p][k].order_id} |->
                        b.order_locations[i]],
                 next_execution_id |-> n]
    PROVE  IsBook(b2) /\ IndexConsistent(b2)
<1> DEFINE q     == b.levels[s][p]
           id    == q[k].order_id
           locs  == b.order_locations
           locs2 == [i \in DOMAIN locs \ {id} |-> locs[i]]
<1>1. /\ p \in Prices
      /\ Len(q) \in Nat \ {0}
      /\ \A j \in 1 .. Len(q) :
            /\ q[j].order_id \in DOMAIN locs
            /\ locs[q[j].order_id] =
                 [side |-> s, price |-> p, account_id |-> q[j].account_id]
      /\ \A j, m \in 1 .. Len(q) : j # m => q[j].order_id # q[m].order_id
      /\ \A i \in DOMAIN locs : locs[i].side = s /\ locs[i].price = p
            => \E j \in 1 .. Len(q) : q[j].order_id = i
  <2>1. IsDequeAt(q, locs, s, p)
      BY DequeFacts
  <2> HIDE DEF q, locs
  <2> QED
      BY <2>1 DEF IsDequeAt
<1>2. Len(d) \in Nat /\ DOMAIN d = 1 .. Len(d)
    BY LenProperties
<1>3. IsIndex(locs2)
    BY DropFromIndex DEF IsBook
<1> HIDE DEF q
<1>4. \A j \in DOMAIN d : \E m \in 1 .. Len(q) :
            m # k /\ d[j] = q[m] /\ (j < k => m = j) /\ (~(j < k) => m = j + 1)
  <2> SUFFICES ASSUME NEW j \in DOMAIN d
               PROVE  \E m \in 1 .. Len(q) :
                        /\ m # k /\ d[j] = q[m]
                        /\ j < k => m = j
                        /\ ~(j < k) => m = j + 1
      OBVIOUS
  <2>1. CASE j < k
      BY <2>1, <1>1, <1>2, SMTT(30) DEF q
  <2>2. CASE ~(j < k)
      BY <2>2, <1>1, <1>2, SMTT(30) DEF q
  <2> QED
      BY <2>1, <2>2
<1>5. \A j, m \in DOMAIN d : j # m => d[j].order_id # d[m].order_id
  <2> SUFFICES ASSUME NEW j \in DOMAIN d, NEW m \in DOMAIN d, j # m
               PROVE  d[j].order_id # d[m].order_id
      OBVIOUS
  <2>1. PICK j2 \in 1 .. Len(q) :
            d[j] = q[j2] /\ (j < k => j2 = j) /\ (~(j < k) => j2 = j + 1)
      BY <1>4
  <2>2. PICK m2 \in 1 .. Len(q) :
            d[m] = q[m2] /\ (m < k => m2 = m) /\ (~(m < k) => m2 = m + 1)
      BY <1>4
  <2>3. j2 # m2
      BY <2>1, <2>2, <1>1, <1>2, SMTT(30) DEF q
  <2> QED
      BY <2>1, <2>2, <2>3, <1>1
<1>6. \A j \in DOMAIN d :
        /\ d[j].order_id \in DOMAIN locs2
        /\ locs2[d[j].order_id] = [side |-> s, price |-> p,
                                   account_id |-> d[j].account_id]
  <2> SUFFICES ASSUME NEW j \in DOMAIN d
               PROVE  /\ d[j].order_id \in DOMAIN locs2
                      /\ locs2[d[j].order_id] = [side |-> s, price |-> p,
                                                 account_id |-> d[j].account_id]
      OBVIOUS
  <2>1. PICK m \in 1 .. Len(q) : m # k /\ d[j] = q[m]
      BY <1>4
  <2>2. q[m].order_id # id /\ q[m].order_id \in DOMAIN locs
      BY <2>1, <1>1 DEF q
  <2> QED
      BY <2>1, <2>2, <1>1
<1>7. \A i \in DOMAIN locs :
        \/ locs[i].side = s /\ locs[i].price = p
        \/ i \in DOMAIN locs2 /\ locs2[i] = locs[i]
  <2>1. k \in 1 .. Len(q)
      BY DEF q
  <2>2. locs[id] = [side |-> s, price |-> p, account_id |-> q[k].account_id]
      BY <1>1, <2>1
  <2>3. locs[id].side = s /\ locs[id].price = p
      BY <2>2
  <2> HIDE DEF locs, id
  <2> QED
      BY <2>3
<1>8. \A i \in DOMAIN locs2 :
        \/ locs2[i].side = s /\ locs2[i].price = p /\ IsIn(d, i)
        \/ /\ i \in DOMAIN locs /\ locs2[i] = locs[i]
           /\ locs2[i].side # s \/ locs2[i].price # p
  <2> SUFFICES ASSUME NEW i \in DOMAIN locs, i # id,
                      locs[i].side = s, locs[i].price = p
               PROVE  IsIn(d, i)
      OBVIOUS
  <2>1. PICK j \in 1 .. Len(q) : q[j].order_id = i
      BY <1>1
  <2>2. j # k
      BY <2>1 DEF q
  <2>3. /\ Len(q) \in Nat /\ k \in 1 .. Len(q) /\ Len(d) = Len(q) - 1
        /\ \A m \in 1 .. Len(d) : d[m] = IF m < k THEN q[m] ELSE q[m + 1]
      BY <1>1 DEF q
  <2>4. CASE j < k
    <3>1. j \in 1 .. Len(d)
        BY <2>3, <2>4
    <3>2. d[j] = q[j]
        BY <2>3, <2>4, <3>1
    <3> QED
        BY <3>1, <3>2, <2>1, <1>2 DEF IsIn
  <2>5. CASE j > k
    <3>1. j - 1 \in 1 .. Len(d)
        BY <2>3, <2>5
    <3>2. d[j - 1] = q[j]
        BY <2>3, <2>5, <3>1
    <3> QED
        BY <3>1, <3>2, <2>1, <1>2 DEF IsIn
  <2> QED
      BY <2>3, <2>2, <2>4, <2>5
<1>9. b2 = [levels |-> [b.levels EXCEPT ![s] = WithDeque(@, p, d)],
            order_locations |-> locs2, next_execution_id |-> n]
    BY DEF q
<1> HIDE DEF locs2, id
<1>10. MayReplace(b, s, p, d, locs2)
    BY <1>5, <1>6, <1>7, <1>8 DEF MayReplace
<1>11. p \in Prices
    BY <1>1
<1> QED
    BY <1>3, <1>9, <1>10, <1>11, ReplaceDeque

\* Replacing a deque that exists adds no price level, so it cannot cross a book.
LEMMA ReplaceKeepsUncrossed ==
    ASSUME NEW b, IsBook(b), Uncrossed(b), NEW s \in Sides,
           NEW p \in DOMAIN b.levels[s], NEW d \in Seq(RestingOrders),
           NEW b2, b2.levels = [b.levels EXCEPT ![s] = WithDeque(@, p, d)]
    PROVE  Uncrossed(b2)
<1>1. IsLevelMap(b.levels[s]) /\ p \in Prices /\ DOMAIN b.levels = Sides
    BY DEF IsBook, IsLevelMap
<1>2. IsWithDeque(WithDeque(b.levels[s], p, d), b.levels[s], p, d)
    BY <1>1, WithDequeFacts
<1>3. DOMAIN WithDeque(b.levels[s], p, d) \subseteq DOMAIN b.levels[s]
    BY <1>2 DEF IsWithDeque
<1>4. \A t \in Sides : DOMAIN b2.levels[t] \subseteq DOMAIN b.levels[t]
    BY <1>1, <1>3
<1> QED
    BY <1>4 DEF Uncrossed, Sides

----------------------------------------------------------------------------
(* place_order                                                              *)

\* What an iteration of the inner loop finds at the best level.
LEMMA MatchableFacts ==
    ASSUME NEW b, IsBook(b), IndexConsistent(b), NEW o \in Orders,
           NEW remaining \in 0 .. MaxQuantity, NEW p,
           Matchable(b, o, remaining, p)
    PROVE  LET s        == Opposite(o.side)
               resting  == Head(b.levels[s][p])
               executed == ExecutedQuantity(resting, remaining)
           IN  /\ s \in Sides
               /\ p \in DOMAIN b.levels[s]
               /\ resting = b.levels[s][p][1]
               /\ resting \in RestingOrders
               /\ executed \in 1 .. remaining
               /\ executed <= resting.remaining_quantity
<1> DEFINE s        == Opposite(o.side)
           resting  == Head(b.levels[s][p])
           executed == ExecutedQuantity(resting, remaining)
<1>1. s \in Sides
    BY DEF Opposite, Sides
<1>2. p \in DOMAIN b.levels[s] /\ remaining > 0
    BY DEF Matchable, IsBest
<1>3. /\ b.levels[s][p] \in Seq(RestingOrders)
      /\ b.levels[s][p] # <<>>
      /\ 1 \in 1 .. Len(b.levels[s][p])
      /\ b.levels[s][p][1] \in RestingOrders
  <2>1. IsDequeAt(b.levels[s][p], b.order_locations, s, p)
    <3> HIDE DEF s
    <3> QED
        BY <1>1, <1>2, DequeFacts
  <2> QED
      BY <2>1, SMTT(30) DEF IsDequeAt
<1>4. resting = b.levels[s][p][1]
    BY <1>3
<1>5. resting \in RestingOrders /\ resting.remaining_quantity \in 1 .. MaxQuantity
    BY <1>3, <1>4 DEF RestingOrders, Quantities
<1> HIDE DEF resting
<1>6. executed \in 1 .. remaining /\ executed <= resting.remaining_quantity
    BY <1>2, <1>5, BookAssumption DEF ExecutedQuantity
<1> QED
    BY <1>1, <1>2, <1>4, <1>5, <1>6 DEF resting

\* The trade an iteration reports is well-formed and within the remainder.
LEMMA TradeFacts ==
    ASSUME NEW b, IsBook(b), IndexConsistent(b), NEW o \in Orders,
           NEW remaining \in 0 .. MaxQuantity, NEW p,
           Matchable(b, o, remaining, p)
    PROVE  /\ TradeOf(b, o, remaining, p) \in TradeEvents
           /\ TradeOf(b, o, remaining, p).quantity \in 1 .. remaining
<1> DEFINE s        == Opposite(o.side)
           resting  == Head(b.levels[s][p])
           executed == ExecutedQuantity(resting, remaining)
<1>1. /\ s \in Sides
      /\ p \in DOMAIN b.levels[s]
      /\ resting \in RestingOrders
      /\ executed \in 1 .. remaining
    BY MatchableFacts
<1>2. p \in Prices
    BY <1>1 DEF IsBook, IsLevelMap
<1>3. executed \in Quantities
    BY <1>1, BookAssumption DEF Quantities
<1> HIDE DEF executed, resting
<1>4. TradeOf(b, o, remaining, p) =
        [kind |-> "trade", execution_id |-> b.next_execution_id,
         incoming_order_id |-> o.order_id, resting_order_id |-> resting.order_id,
         price |-> p, quantity |-> executed,
         incoming_account_id |-> o.account_id,
         resting_account_id |-> resting.account_id]
    BY DEF TradeOf, executed, resting
<1>5. /\ b.next_execution_id \in Nat
      /\ o.order_id \in OrderIds /\ o.account_id \in AccountIds
      /\ resting.order_id \in OrderIds /\ resting.account_id \in AccountIds
    BY <1>1 DEF IsBook, Orders, RestingOrders
<1> QED
    BY <1>1, <1>2, <1>3, <1>4, <1>5 DEF TradeEvents

\* One execution keeps the book well-formed, consistent and uncrossed, and
\* brings no id into it.
LEMMA ExecuteKeepsBook ==
    ASSUME NEW b, IsBook(b), IndexConsistent(b), Uncrossed(b), NEW o \in Orders,
           NEW remaining \in 0 .. MaxQuantity, NEW p,
           Matchable(b, o, remaining, p)
    PROVE  /\ IsBook(Execute(b, o, remaining, p))
           /\ IndexConsistent(Execute(b, o, remaining, p))
           /\ Uncrossed(Execute(b, o, remaining, p))
           /\ DOMAIN Execute(b, o, remaining, p).order_locations
                \subseteq DOMAIN b.order_locations
<1> DEFINE s        == Opposite(o.side)
           lv       == b.levels[s]
           resting  == Head(lv[p])
           executed == ExecutedQuantity(resting, remaining)
           reduced  == [resting EXCEPT !.remaining_quantity = @ - executed]
           locs     == b.order_locations
           n        == b.next_execution_id + 1
           b2       == Execute(b, o, remaining, p)
<1>1. /\ s \in Sides
      /\ p \in DOMAIN lv
      /\ resting = lv[p][1]
      /\ resting \in RestingOrders
      /\ executed \in 1 .. remaining
      /\ executed <= resting.remaining_quantity
    BY MatchableFacts
<1>2. /\ p \in Prices
      /\ lv[p] \in Seq(RestingOrders)
      /\ lv[p] # <<>>
      /\ Len(lv[p]) \in Nat \ {0}
      /\ 1 \in 1 .. Len(lv[p])
      /\ \A k \in 1 .. Len(lv[p]) :
            /\ lv[p][k].order_id \in DOMAIN locs
            /\ locs[lv[p][k].order_id] =
                 [side |-> s, price |-> p, account_id |-> lv[p][k].account_id]
      /\ \A j, k \in 1 .. Len(lv[p]) :
            j # k => lv[p][j].order_id # lv[p][k].order_id
      /\ \A id \in DOMAIN locs : locs[id].side = s /\ locs[id].price = p
            => \E k \in 1 .. Len(lv[p]) : lv[p][k].order_id = id
  <2>1. IsDequeAt(lv[p], locs, s, p)
    <3> HIDE DEF s
    <3> QED
        BY <1>1, DequeFacts
  <2> HIDE DEF lv, locs, s
  <2> QED
      BY <2>1 DEF IsDequeAt
<1>3. n \in Nat
    BY DEF IsBook
<1>4. CASE executed = resting.remaining_quantity
  <2> DEFINE d == Tail(lv[p])
  <2>1. /\ d \in Seq(RestingOrders)
        /\ Len(d) = Len(lv[p]) - 1
        /\ \A j \in 1 .. Len(d) : d[j] = lv[p][j + 1]
      BY <1>2, HeadTailProperties
  <2>2. b2 = [levels |-> [b.levels EXCEPT ![s] = WithDeque(@, p, d)],
              order_locations |-> [i \in DOMAIN locs \ {lv[p][1].order_id} |-> locs[i]],
              next_execution_id |-> n]
      BY <1>1, <1>4 DEF Execute, WithDeque
  <2> HIDE DEF d
  <2>3. IsBook(b2) /\ IndexConsistent(b2)
    <3>1. \A j \in 1 .. Len(d) : d[j] = IF j < 1 THEN lv[p][j] ELSE lv[p][j + 1]
        BY <2>1
    <3> HIDE DEF b2, n, s
    <3> QED
        BY <1>1, <1>2, <1>3, <2>1, <2>2, <3>1, DropEntry
  <2>4. /\ b2.levels = [b.levels EXCEPT ![s] = WithDeque(@, p, d)]
        /\ DOMAIN b2.order_locations \subseteq DOMAIN locs
    <3> HIDE DEF b2, n, s, lv, locs
    <3> QED
        BY <2>2
  <2>5. Uncrossed(b2)
    <3> HIDE DEF b2, s
    <3> QED
        BY <1>1, <2>1, <2>4, ReplaceKeepsUncrossed
  <2> QED
      BY <2>3, <2>4, <2>5
<1>5. CASE executed # resting.remaining_quantity
  <2> DEFINE d == [lv[p] EXCEPT ![1] = reduced]
  <2>1. /\ reduced \in RestingOrders
        /\ reduced.order_id = resting.order_id
        /\ reduced.account_id = resting.account_id
    <3>1. resting.remaining_quantity - executed \in Quantities
        BY <1>1, <1>5, BookAssumption DEF RestingOrders, Quantities
    <3> HIDE DEF executed, resting
    <3> QED
        BY <1>1, <3>1 DEF RestingOrders
  <2>2. /\ d \in Seq(RestingOrders)
        /\ Len(d) = Len(lv[p])
        /\ \A j \in 1 .. Len(lv[p]) : d[j] = IF j = 1 THEN reduced ELSE lv[p][j]
    <3> DEFINE q == lv[p]
    <3>1. q \in Seq(RestingOrders) /\ 1 \in 1 .. Len(q)
        BY <1>2
    <3> HIDE DEF reduced, q
    <3>2. /\ [q EXCEPT ![1] = reduced] \in Seq(RestingOrders)
          /\ Len([q EXCEPT ![1] = reduced]) = Len(q)
          /\ \A j \in 1 .. Len(q) :
                [q EXCEPT ![1] = reduced][j] = IF j = 1 THEN reduced ELSE q[j]
        BY <3>1, <2>1, ExceptSeq
    <3> QED
        BY <3>2 DEF q
  <2>3. d # <<>> /\ DOMAIN d = 1 .. Len(lv[p])
      BY <1>2, <2>2, LenProperties, EmptySeq
  <2>4. \A j \in 1 .. Len(lv[p]) : /\ d[j].order_id = lv[p][j].order_id
                                   /\ d[j].account_id = lv[p][j].account_id
    <3> HIDE DEF d, reduced
    <3> QED
        BY <1>1, <2>1, <2>2
  <2>5. b2 = [levels |-> [b.levels EXCEPT ![s] = WithDeque(@, p, d)],
              order_locations |-> locs, next_execution_id |-> n]
    <3>1. PutLevel(lv, p, d) = WithDeque(lv, p, d)
      <4> HIDE DEF d
      <4> QED
          BY <2>3 DEF WithDeque, remove_empty_level, PutLevel
    <3>2. b2 = [levels |-> [b.levels EXCEPT ![s] = PutLevel(lv, p, d)],
                order_locations |-> locs, next_execution_id |-> n]
        BY <1>5 DEF Execute
    <3> HIDE DEF d, b2
    <3> QED
        BY <3>1, <3>2
  <2> HIDE DEF d, b2, n
  <2>6. IsBook(b2) /\ IndexConsistent(b2)
    <3>1. MayReplace(b, s, p, d, locs)
      <4>1. \A j, k \in DOMAIN d : j # k => d[j].order_id # d[k].order_id
        <5> HIDE DEF lv
        <5> QED
            BY <1>2, <2>3, <2>4
      <4>2. \A k \in DOMAIN d :
              /\ d[k].order_id \in DOMAIN locs
              /\ locs[d[k].order_id] = [side |-> s, price |-> p,
                                        account_id |-> d[k].account_id]
        <5> HIDE DEF lv, locs, s
        <5> QED
            BY <1>2, <2>3, <2>4
      <4>3. \A id \in DOMAIN locs :
              locs[id].side = s /\ locs[id].price = p => IsIn(d, id)
        <5> HIDE DEF lv, locs, s
        <5>1. SUFFICES ASSUME NEW id \in DOMAIN locs,
                              locs[id].side = s, locs[id].price = p
                       PROVE  IsIn(d, id)
            OBVIOUS
        <5>2. PICK k \in 1 .. Len(lv[p]) : lv[p][k].order_id = id
            BY <5>1, <1>2
        <5> QED
            BY <5>2, <2>3, <2>4 DEF IsIn
      <4> HIDE DEF s
      <4> QED
          BY <4>1, <4>2, <4>3 DEF MayReplace
    <3>2. IsIndex(locs)
        BY DEF IsBook
    <3>3. s \in Sides /\ p \in Prices /\ d \in Seq(RestingOrders)
        BY <1>1, <1>2, <2>2
    <3> HIDE DEF s
    <3> QED
        BY <1>3, <2>5, <3>1, <3>2, <3>3, ReplaceDeque
  <2>7. /\ b2.levels = [b.levels EXCEPT ![s] = WithDeque(@, p, d)]
        /\ b2.order_locations = locs
    <3> HIDE DEF s, lv, locs
    <3> QED
        BY <2>5
  <2>8. Uncrossed(b2)
    <3> HIDE DEF s
    <3> QED
        BY <1>1, <2>2, <2>7, ReplaceKeepsUncrossed
  <2> QED
      BY <2>6, <2>7, <2>8 DEF b2
<1> QED
    BY <1>4, <1>5

\* Letting the remainder rest keeps the book well-formed and consistent, and it
\* cannot cross the book, because nothing was matchable any more.
LEMMA RestKeepsBook ==
    ASSUME NEW b, IsBook(b), IndexConsistent(b), Uncrossed(b), NEW o \in Orders,
           NEW remaining \in 0 .. MaxQuantity,
           o.order_id \notin DOMAIN b.order_locations,
           \A p \in Prices : ~Matchable(b, o, remaining, p)
    PROVE  /\ IsBook(Rest(b, o, remaining))
           /\ IndexConsistent(Rest(b, o, remaining))
           /\ Uncrossed(Rest(b, o, remaining))
<1> DEFINE s     == o.side
           p     == o.price
           lv    == b.levels[s]
           locs  == b.order_locations
           r     == [order_id |-> o.order_id, remaining_quantity |-> remaining,
                     order_type |-> o.order_type, account_id |-> o.account_id]
           loc   == [side |-> s, price |-> p, account_id |-> o.account_id]
           locs2 == [i \in DOMAIN locs \cup {o.order_id} |->
                        IF i = o.order_id THEN loc ELSE locs[i]]
           old   == IF p \in DOMAIN lv THEN lv[p] ELSE <<>>
           d     == Append(old, r)
           b2    == Rest(b, o, remaining)
<1>1. CASE o.order_type \notin RestingTypes \/ remaining = 0
    BY <1>1 DEF Rest
<1>2. CASE o.order_type \in RestingTypes /\ remaining # 0
  <2>1. /\ s \in Sides /\ p \in Prices
        /\ o.order_id \in OrderIds /\ o.account_id \in AccountIds
        /\ remaining \in Quantities
      BY <1>2, BookAssumption DEF Orders, RestingTypes, Prices, Quantities
  <2>2. r \in RestingOrders /\ loc \in Locations
      BY <1>2, <2>1 DEF RestingOrders, Locations
  <2>3. /\ DOMAIN b.levels = Sides
        /\ IsLevelMap(lv)
        /\ IsIndex(locs)
        /\ b.next_execution_id \in Nat
      BY <2>1 DEF IsBook
  <2>4. /\ old \in Seq(RestingOrders)
        /\ Len(old) \in Nat
        /\ \A k \in 1 .. Len(old) :
              /\ old[k].order_id \in DOMAIN locs
              /\ locs[old[k].order_id] =
                   [side |-> s, price |-> p, account_id |-> old[k].account_id]
        /\ \A j, k \in 1 .. Len(old) : j # k => old[j].order_id # old[k].order_id
        /\ \A id \in DOMAIN locs : locs[id].side = s /\ locs[id].price = p
              => \E k \in 1 .. Len(old) : old[k].order_id = id
    <3>1. CASE p \in DOMAIN lv
      <4>1. old = lv[p]
          BY <3>1
      <4>2. IsDequeAt(lv[p], locs, s, p)
        <5> HIDE DEF s, p, old
        <5> QED
            BY <2>1, <3>1, DequeFacts
      <4> HIDE DEF old, lv, locs, s, p
      <4> QED
          BY <4>1, <4>2 DEF IsDequeAt
    <3>2. CASE p \notin DOMAIN lv
      <4>1. /\ old = <<>> /\ old \in Seq(RestingOrders)
            /\ Len(old) = 0 /\ Len(old) \in Nat
          BY <3>2
      <4>2. \A id \in DOMAIN locs : ~(locs[id].side = s /\ locs[id].price = p)
          BY <3>2 DEF IndexConsistent, IndexedPresent
      <4>3. 1 .. Len(old) = {}
          BY <4>1
      <4> HIDE DEF old
      <4> QED
          BY <4>1, <4>2, <4>3
    <3> QED
        BY <3>1, <3>2
  <2> HIDE DEF old, r, loc
  <2>5. /\ d \in Seq(RestingOrders)
        /\ d # <<>>
        /\ Len(d) = Len(old) + 1
        /\ DOMAIN d = 1 .. Len(old) + 1
        /\ \A k \in 1 .. Len(old) : d[k] = old[k]
        /\ d[Len(old) + 1] = r
      BY <2>2, <2>4, AppendProperties, LenProperties
  <2>6. r.order_id = o.order_id /\ r.account_id = o.account_id
      BY DEF r
  <2>7. b2 = [levels |-> [b.levels EXCEPT ![s] = WithDeque(@, p, d)],
              order_locations |-> locs2,
              next_execution_id |-> b.next_execution_id]
    <3>1. push_back(lv, p, r) = PutLevel(lv, p, d)
      <4>1. CASE p \in DOMAIN lv
          BY <4>1 DEF push_back, old
      <4>2. CASE p \notin DOMAIN lv
        <5>1. d = <<r>>
            BY <4>2 DEF old
        <5> HIDE DEF d
        <5> QED
            BY <4>2, <5>1 DEF push_back
      <4> QED
          BY <4>1, <4>2
    <3>2. PutLevel(lv, p, d) = WithDeque(lv, p, d)
      <4> HIDE DEF d
      <4> QED
          BY <2>5 DEF WithDeque, remove_empty_level, PutLevel
    <3>3. b2 = [b EXCEPT !.levels[s] = push_back(@, p, r),
                         !.order_locations = locs2]
        BY <1>2 DEF Rest, r, loc
    <3>4. b = [levels |-> b.levels, order_locations |-> locs,
               next_execution_id |-> b.next_execution_id]
        BY DEF IsBook
    <3> HIDE DEF d, b2, locs2
    <3> QED
        BY <3>1, <3>2, <3>3, <3>4
  <2>8. IsIndex(locs2)
      BY <2>1, <2>2, <2>3 DEF IsIndex
  <2> HIDE DEF d, b2
  <2>9. IsBook(b2) /\ IndexConsistent(b2)
    <3>1. \A j, k \in DOMAIN d : j # k => d[j].order_id # d[k].order_id
      <4> SUFFICES ASSUME NEW j \in DOMAIN d, NEW k \in DOMAIN d, j # k
                   PROVE  d[j].order_id # d[k].order_id
          OBVIOUS
      <4>1. \A i \in 1 .. Len(old) : d[i].order_id \in DOMAIN locs
          BY <2>4, <2>5
      <4>2. d[Len(old) + 1].order_id \notin DOMAIN locs
          BY <2>5, <2>6
      <4>3. CASE j \in 1 .. Len(old) /\ k \in 1 .. Len(old)
          BY <4>3, <2>4, <2>5
      <4>4. CASE j = Len(old) + 1 \/ k = Len(old) + 1
        <5>1. \/ j = Len(old) + 1 /\ k \in 1 .. Len(old)
              \/ k = Len(old) + 1 /\ j \in 1 .. Len(old)
            BY <4>4, <2>4, <2>5
        <5> QED
            BY <5>1, <4>1, <4>2
      <4> QED
          BY <4>3, <4>4, <2>4, <2>5
    <3>2. \A k \in DOMAIN d :
            /\ d[k].order_id \in DOMAIN locs2
            /\ locs2[d[k].order_id] = [side |-> s, price |-> p,
                                       account_id |-> d[k].account_id]
        BY <2>4, <2>5, <2>6 DEF loc
    <3>3. \A id \in DOMAIN locs : id \in DOMAIN locs2 /\ locs2[id] = locs[id]
        OBVIOUS
    <3>4. \A id \in DOMAIN locs2 :
            \/ locs2[id].side = s /\ locs2[id].price = p /\ IsIn(d, id)
            \/ /\ id \in DOMAIN locs
               /\ locs2[id] = locs[id]
               /\ locs2[id].side # s \/ locs2[id].price # p
      <4> SUFFICES ASSUME NEW id \in DOMAIN locs2,
                          ~(/\ id \in DOMAIN locs
                            /\ locs[id].side # s \/ locs[id].price # p)
                   PROVE  locs2[id].side = s /\ locs2[id].price = p /\ IsIn(d, id)
          BY <3>3
      <4>1. CASE id = o.order_id
        <5>1. locs2[id] = loc
            BY <4>1
        <5>2. Len(old) + 1 \in DOMAIN d
            BY <2>4, <2>5
        <5> QED
            BY <4>1, <5>1, <5>2, <2>5, <2>6 DEF loc, IsIn
      <4>2. CASE id # o.order_id
        <5>1. /\ id \in DOMAIN locs /\ locs2[id] = locs[id]
              /\ locs[id].side = s /\ locs[id].price = p
            BY <4>2
        <5>2. PICK k \in 1 .. Len(old) : old[k].order_id = id
            BY <5>1, <2>4
        <5>3. k \in DOMAIN d /\ d[k].order_id = id
            BY <5>2, <2>4, <2>5
        <5> QED
            BY <5>1, <5>3 DEF IsIn
      <4> QED
          BY <4>1, <4>2
    <3> HIDE DEF locs2, s, p
    <3>5. MayReplace(b, s, p, d, locs2)
        BY <3>1, <3>2, <3>3, <3>4 DEF MayReplace
    <3>6. d \in Seq(RestingOrders) /\ b.next_execution_id \in Nat
        BY <2>3, <2>5
    <3> QED
        BY <2>1, <2>7, <2>8, <3>5, <3>6, ReplaceDeque
  <2>10. Uncrossed(b2)
    <3>1. \A q \in DOMAIN b.levels[Opposite(s)] : ~Crosses(o, q)
        BY <2>1, BookAssumption, NothingMatchable DEF Quantities
    <3>2. IsWithDeque(WithDeque(lv, p, d), lv, p, d)
        BY <2>1, <2>3, <2>5, WithDequeFacts
    <3>3. DOMAIN b2.levels[s] = DOMAIN lv \cup {p}
        BY <2>1, <2>3, <2>5, <2>7, <3>2 DEF IsWithDeque
    <3>4. Opposite(s) \in Sides \ {s} /\ b2.levels[Opposite(s)] = b.levels[Opposite(s)]
        BY <2>1, <2>3, <2>7 DEF Opposite, Sides
    <3>5. \A t \in Sides : DOMAIN b.levels[t] \subseteq Int
        BY BookAssumption DEF IsBook, IsLevelMap, Prices
    <3>6. p \in Int
        BY <2>1, BookAssumption DEF Prices
    <3>7. CASE s = "buy"
        BY <3>1, <3>3, <3>4, <3>5, <3>6, <3>7 DEF Uncrossed, Crosses, Opposite, Sides
    <3>8. CASE s = "sell"
        BY <3>1, <3>3, <3>4, <3>5, <3>6, <3>8 DEF Uncrossed, Crosses, Opposite, Sides
    <3> QED
        BY <2>1, <3>7, <3>8 DEF Sides
  <2> QED
      BY <2>9, <2>10 DEF b2
<1> QED
    BY <1>1, <1>2

----------------------------------------------------------------------------
(* cancel_order                                                             *)

\* An indexed order is found in the deque its location names.
LEMMA IndexedEntry ==
    ASSUME NEW b, IsBook(b), IndexConsistent(b),
           NEW id \in DOMAIN b.order_locations
    PROVE  LET loc == b.order_locations[id]
               q   == b.levels[loc.side][loc.price]
               k   == PositionIn(q, id)
           IN  /\ loc.price \in DOMAIN b.levels[loc.side]
               /\ IsIn(q, id)
               /\ k \in 1 .. Len(q)
               /\ q[k].order_id = id
               /\ q[k] \in RestingOrders
<1> DEFINE s    == b.order_locations[id].side
           p    == b.order_locations[id].price
           q    == b.levels[s][p]
           k    == PositionIn(q, id)
<1>1. s \in Sides
    BY DEF IsBook, IsIndex, Locations
<1>2. p \in DOMAIN b.levels[s] /\ IsIn(q, id)
    BY DEF IndexConsistent, IndexedPresent
<1>3. /\ DOMAIN q = 1 .. Len(q)
      /\ Len(q) \in Nat \ {0}
      /\ \A i, j \in 1 .. Len(q) : i # j => q[i].order_id # q[j].order_id
      /\ \A i \in 1 .. Len(q) : q[i] \in RestingOrders
  <2> HIDE DEF s, p
  <2>1. IsDequeAt(q, b.order_locations, s, p)
      BY <1>1, <1>2, DequeFacts
  <2> HIDE DEF q
  <2> QED
      BY <2>1 DEF IsDequeAt
<1> HIDE DEF q, s, p
<1>4. k \in 1 .. Len(q) /\ q[k].order_id = id
  <2>1. PICK m \in 1 .. Len(q) : q[m].order_id = id
      BY <1>2, <1>3 DEF IsIn
  <2>2. /\ m \in DOMAIN q
        /\ q[m].order_id = id
        /\ \A j \in 1 .. m - 1 : q[j].order_id # id
      BY <2>1, <1>3
  <2> QED
      BY <2>2, <1>3 DEF PositionIn
<1>5. q[k] \in RestingOrders
    BY <1>3, <1>4
<1> QED
    BY <1>2, <1>4, <1>5 DEF q, s, p

\* Removing an order by its id takes exactly its entry out of its deque and
\* its location out of the index.
LEMMA CanceledBook ==
    ASSUME NEW b, IsBook(b), IndexConsistent(b),
           NEW id \in DOMAIN b.order_locations
    PROVE  LET loc  == b.order_locations[id]
               q    == b.levels[loc.side][loc.price]
               k    == PositionIn(q, id)
               locs == b.order_locations
           IN  \E d : /\ IsWithout(d, q, k)
                      /\ IsReplaced(CancelIn(b, id), b, loc.side, loc.price, d,
                                    Without(locs, id), b.next_execution_id)
<1> DEFINE locs == b.order_locations
           s    == locs[id].side
           p    == locs[id].price
           q    == b.levels[s][p]
           k    == PositionIn(q, id)
           d    == RemoveAt(q, k)
           b2   == CancelIn(b, id)
<1>1. s \in Sides /\ p \in Prices /\ b.next_execution_id \in Nat
    BY DEF IsBook, IsIndex, Locations
<1>2. p \in DOMAIN b.levels[s] /\ IsIn(q, id)
    BY DEF IndexConsistent, IndexedPresent
<1>3. /\ q \in Seq(RestingOrders)
      /\ Len(q) \in Nat \ {0}
      /\ DOMAIN q = 1 .. Len(q)
      /\ \A i, j \in 1 .. Len(q) : i # j => q[i].order_id # q[j].order_id
      /\ \A i \in 1 .. Len(q) : q[i] \in RestingOrders
  <2> HIDE DEF s, p
  <2>1. IsDequeAt(q, b.order_locations, s, p)
      BY <1>1, <1>2, DequeFacts
  <2> HIDE DEF q
  <2> QED
      BY <2>1 DEF IsDequeAt
<1> HIDE DEF q, s, p
<1>4. k \in 1 .. Len(q) /\ q[k].order_id = id
    BY IndexedEntry DEF q, s, p
<1> HIDE DEF k
<1>5. /\ d \in Seq(RestingOrders)
      /\ Len(d) = Len(q) - 1
      /\ \A j \in 1 .. Len(d) : d[j] = IF j < k THEN q[j] ELSE q[j + 1]
  <2> DEFINE front == SubSeq(q, 1, k - 1)
             back  == SubSeq(q, k + 1, Len(q))
  <2>1. /\ front \in Seq(RestingOrders)
        /\ Len(front) = k - 1
        /\ \A i \in 1 .. k - 1 : front[i] = q[i]
      BY <1>3, <1>4
  <2>2. /\ back \in Seq(RestingOrders)
        /\ Len(back) = Len(q) - k
        /\ \A i \in 1 .. Len(q) - k : back[i] = q[k + i]
    <3> DEFINE m == k + 1
               n == Len(q)
    <3>1. /\ m \in Int /\ n \in Int
          /\ \A i \in m .. n : q[i] \in RestingOrders
        BY <1>3, <1>4
    <3> HIDE DEF m, n
    <3>2. /\ SubSeq(q, m, n) \in Seq(RestingOrders)
          /\ Len(SubSeq(q, m, n)) = IF m <= n THEN n - m + 1 ELSE 0
          /\ \A i \in 1 .. n - m + 1 : SubSeq(q, m, n)[i] = q[m + i - 1]
        BY <3>1, SubSeqProperties
    <3>3. back = SubSeq(q, m, n)
        BY DEF m, n
    <3>4. k \in Int /\ Len(q) \in Int /\ k <= Len(q)
        BY <1>3, <1>4
    <3>5. /\ n - m + 1 = Len(q) - k
          /\ ~(m <= n) => Len(q) - k = 0
          /\ \A i \in 1 .. Len(q) - k : m + i - 1 = k + i
        BY <3>4 DEF m, n
    <3> HIDE DEF back
    <3> QED
        BY <3>2, <3>3, <3>5
  <2> HIDE DEF front, back
  <2>3. /\ front \o back \in Seq(RestingOrders)
        /\ Len(front \o back) = Len(q) - 1
        /\ \A i \in 1 .. Len(q) - 1 : (front \o back)[i] =
                IF i <= k - 1 THEN front[i] ELSE back[i - (k - 1)]
    <3>1. /\ front \o back \in Seq(RestingOrders)
          /\ Len(front \o back) = Len(front) + Len(back)
          /\ \A i \in 1 .. Len(front) + Len(back) : (front \o back)[i] =
                IF i <= Len(front) THEN front[i] ELSE back[i - Len(front)]
        BY <2>1, <2>2, ConcatProperties
    <3>2. Len(front) + Len(back) = Len(q) - 1
        BY <1>3, <1>4, <2>1, <2>2
    <3> QED
        BY <2>1, <3>1, <3>2
  <2>4. d = front \o back
      BY DEF RemoveAt, front, back
  <2> HIDE DEF d
  <2>5. k \in Int /\ Len(q) \in Int /\ k >= 1 /\ k <= Len(q)
      BY <1>3, <1>4
  <2>6. ASSUME NEW j \in 1 .. Len(q) - 1
        PROVE  d[j] = IF j < k THEN q[j] ELSE q[j + 1]
    <3>1. CASE j < k
        BY <3>1, <2>1, <2>3, <2>4, <2>5
    <3>2. CASE ~(j < k)
      <4>1. /\ j - (k - 1) \in 1 .. Len(q) - k
            /\ k + (j - (k - 1)) = j + 1
            /\ ~(j <= k - 1)
          BY <3>2, <2>5
      <4>2. d[j] = back[j - (k - 1)]
          BY <2>3, <2>4, <4>1
      <4> QED
          BY <3>2, <2>2, <4>1, <4>2
    <3> QED
        BY <3>1, <3>2
  <2> QED
      BY <2>3, <2>4, <2>6
<1>6. b2 = [levels |-> [b.levels EXCEPT ![s] = WithDeque(@, p, d)],
            order_locations |-> [i \in DOMAIN locs \ {id} |-> locs[i]],
            next_execution_id |-> b.next_execution_id]
  <2>1. remove_order_from_level(b.levels[s], p, id) = WithDeque(b.levels[s], p, d)
      BY <1>2 DEF remove_order_from_level, WithDeque, q, k
  <2>2. b = [levels |-> b.levels, order_locations |-> locs,
             next_execution_id |-> b.next_execution_id]
      BY DEF IsBook
  <2>3. b2 = [b EXCEPT !.levels[s] = remove_order_from_level(@, p, id),
                       !.order_locations = [i \in DOMAIN locs \ {id} |-> locs[i]]]
      BY DEF CancelIn, s, p
  <2> HIDE DEF b2, d
  <2> QED
      BY <2>1, <2>2, <2>3
<1>7. IsWithout(d, q, k)
    BY <1>5 DEF IsWithout
<1>8. IsReplaced(b2, b, s, p, d, Without(locs, id), b.next_execution_id)
    BY <1>6 DEF IsReplaced, Without
<1> QED
    BY <1>7, <1>8 DEF b2, k, q, s, p

\* A cancellation removes exactly its entry and keeps the book well-formed,
\* consistent and uncrossed.
LEMMA CancelKeepsBook ==
    ASSUME NEW b, IsBook(b), IndexConsistent(b), Uncrossed(b),
           NEW id \in DOMAIN b.order_locations
    PROVE  /\ IsBook(CancelIn(b, id))
           /\ IndexConsistent(CancelIn(b, id))
           /\ Uncrossed(CancelIn(b, id))
<1> DEFINE locs == b.order_locations
           s    == locs[id].side
           p    == locs[id].price
           q    == b.levels[s][p]
           k    == PositionIn(q, id)
           b2   == CancelIn(b, id)
<1>1. s \in Sides /\ b.next_execution_id \in Nat
    BY DEF IsBook, IsIndex, Locations
<1>2. p \in DOMAIN b.levels[s] /\ k \in 1 .. Len(q) /\ q[k].order_id = id
    BY IndexedEntry
<1>3. PICK d : /\ IsWithout(d, q, k)
               /\ IsReplaced(b2, b, s, p, d, Without(locs, id),
                             b.next_execution_id)
    BY CanceledBook
<1> HIDE DEF b2, s, p, k
<1>4. /\ d \in Seq(RestingOrders)
      /\ Len(d) = Len(q) - 1
      /\ \A j \in 1 .. Len(d) : d[j] = IF j < k THEN q[j] ELSE q[j + 1]
      /\ b2 = [levels |-> [b.levels EXCEPT ![s] = WithDeque(@, p, d)],
               order_locations |-> [i \in DOMAIN locs \ {id} |-> locs[i]],
               next_execution_id |-> b.next_execution_id]
    BY <1>3 DEF IsWithout, IsReplaced, Without
<1>5. IsBook(b2) /\ IndexConsistent(b2)
    BY <1>1, <1>2, <1>4, DropEntry
<1>6. Uncrossed(b2)
    BY <1>1, <1>2, <1>4, ReplaceKeepsUncrossed
<1> QED
    BY <1>5, <1>6 DEF b2

----------------------------------------------------------------------------
(* What a change of one deque does to the orders and the arrival order the  *)
(* book stands for.                                                         *)

\* Entry number k of the deque at (s, p) carries the id.
At(b, id, s, p, k) ==
    k \in 1 .. Len(Queue(b, s, p)) /\ Queue(b, s, p)[k].order_id = id

\* What PriceTimePriority knows of an entry r at (s, p).
EntryOf(s, p, r) ==
    [side |-> s, price |-> p, remaining_quantity |-> r.remaining_quantity,
     order_type |-> r.order_type, account_id |-> r.account_id]

\* A typed book whose index and levels agree.
IsSound(b) == IsBook(b) /\ IndexConsistent(b)

\* Every open order stands at one place, the one the index names.
PlacesAgree(b) ==
    /\ \A s \in Sides, p \in Prices :
          /\ Queue(b, s, p) \in Seq(RestingOrders)
          /\ Len(Queue(b, s, p)) \in Nat
    /\ \A id \in DOMAIN b.order_locations :
          \E s \in Sides, p \in Prices, k \in Nat : At(b, id, s, p, k)
    /\ \A s \in Sides, p \in Prices : \A k \in 1 .. Len(Queue(b, s, p)) :
          LET r == Queue(b, s, p)[k]
          IN  /\ r \in RestingOrders
              /\ r.order_id \in DOMAIN b.order_locations
              /\ b.order_locations[r.order_id] =
                   [side |-> s, price |-> p, account_id |-> r.account_id]
    /\ \A s \in Sides, p \in Prices : \A j, k \in 1 .. Len(Queue(b, s, p)) :
          Queue(b, s, p)[j].order_id = Queue(b, s, p)[k].order_id => j = k

\* An indexed book has every order at the place the index names.
LEMMA Places == ASSUME NEW b, IsSound(b) PROVE PlacesAgree(b)
<1> DEFINE locs == b.order_locations
<1>1. ASSUME NEW s \in Sides, NEW p \in Prices, p \in DOMAIN b.levels[s]
      PROVE  IsDequeAt(Queue(b, s, p), locs, s, p)
    BY <1>1, DequeFacts DEF IsSound, Queue
<1>2. ASSUME NEW s \in Sides, NEW p \in Prices, p \notin DOMAIN b.levels[s]
      PROVE  Queue(b, s, p) = <<>>
    BY <1>2 DEF Queue
<1>3. \A s \in Sides, p \in Prices :
        /\ Queue(b, s, p) \in Seq(RestingOrders)
        /\ Len(Queue(b, s, p)) \in Nat
  <2> SUFFICES ASSUME NEW s \in Sides, NEW p \in Prices
               PROVE  Queue(b, s, p) \in Seq(RestingOrders)
      OBVIOUS
  <2>1. CASE p \in DOMAIN b.levels[s]
      BY <1>1, <2>1 DEF IsDequeAt
  <2>2. CASE p \notin DOMAIN b.levels[s]
    <3>1. Queue(b, s, p) = <<>>
        BY <1>2, <2>2
    <3> QED
        BY <3>1
  <2> QED
      BY <2>1, <2>2
<1>4. ASSUME NEW s \in Sides, NEW p \in Prices,
             NEW k \in 1 .. Len(Queue(b, s, p))
      PROVE  IsDequeAt(Queue(b, s, p), locs, s, p)
    BY <1>1, <1>2, <1>4
<1>5. ASSUME NEW id \in DOMAIN locs
      PROVE  \E s \in Sides, p \in Prices, k \in Nat : At(b, id, s, p, k)
  <2> DEFINE s == locs[id].side
             p == locs[id].price
  <2>1. s \in Sides /\ p \in Prices
      BY DEF IsSound, IsBook, IsIndex, Locations
  <2>2. p \in DOMAIN b.levels[s]
      BY DEF IsSound, IndexConsistent, IndexedPresent
  <2>3. IsDequeAt(Queue(b, s, p), locs, s, p)
      BY <1>1, <2>1, <2>2
  <2>4. \E k \in 1 .. Len(Queue(b, s, p)) : Queue(b, s, p)[k].order_id = id
      BY <2>3 DEF IsDequeAt
  <2> QED
      BY <2>1, <2>4 DEF At
<1> QED
    BY <1>3, <1>4, <1>5 DEF PlacesAgree, IsDequeAt

\* An order stands at one position of its deque.
LEMMA OnePlace ==
    ASSUME NEW b, IsSound(b), NEW id, NEW s \in Sides, NEW p \in Prices,
           NEW j, NEW k, At(b, id, s, p, j), At(b, id, s, p, k)
    PROVE  j = k
<1>1. PlacesAgree(b)
    BY Places
<1>2. /\ j \in 1 .. Len(Queue(b, s, p)) /\ k \in 1 .. Len(Queue(b, s, p))
      /\ Queue(b, s, p)[j].order_id = Queue(b, s, p)[k].order_id
    BY DEF At
<1> QED
    BY <1>1, <1>2 DEF PlacesAgree

\* What the refinement mapping makes of an entry.
LEMMA RestingAt ==
    ASSUME NEW b, IsSound(b), NEW s \in Sides, NEW p \in Prices,
           NEW id, NEW k, At(b, id, s, p, k)
    PROVE  /\ id \in DOMAIN RestingMap(b)
           /\ RestingMap(b)[id] = EntryOf(s, p, Queue(b, s, p)[k])
<1> DEFINE q == Queue(b, s, p)
           loc == b.order_locations[id]
           m == PositionIn(b.levels[loc.side][loc.price], id)
<1>1. PlacesAgree(b)
    BY Places
<1>2. /\ id \in DOMAIN b.order_locations
      /\ loc = [side |-> s, price |-> p, account_id |-> q[k].account_id]
    BY <1>1 DEF PlacesAgree, At
<1>3. m \in 1 .. Len(q) /\ q[m].order_id = id /\ b.levels[loc.side][loc.price] = q
  <2>1. /\ loc.price \in DOMAIN b.levels[loc.side]
        /\ m \in 1 .. Len(b.levels[loc.side][loc.price])
        /\ b.levels[loc.side][loc.price][m].order_id = id
      BY <1>2, IndexedEntry DEF IsSound
  <2>2. loc.side = s /\ loc.price = p
    <3> HIDE DEF loc, q
    <3> QED
        BY <1>2
  <2>3. b.levels[loc.side][loc.price] = q
      BY <2>1, <2>2 DEF Queue
  <2> HIDE DEF q, loc, m
  <2> QED
      BY <2>1, <2>3
<1>4. m = k
    BY <1>1, <1>3 DEF PlacesAgree, At
<1>5. RestingEntry(b, id) = EntryOf(s, p, q[k])
    BY <1>2, <1>3, <1>4 DEF RestingEntry, EntryOf
<1> QED
    BY <1>2, <1>5 DEF RestingMap

\* Whoever stands before another in a deque arrived before him.
LEMMA ArrivalAt ==
    ASSUME NEW b, IsSound(b)
    PROVE  /\ ArrivalOrder(b) \subseteq OrderIds \X OrderIds
           /\ \A i, j : <<i, j>> \in ArrivalOrder(b) <=>
                \E s \in Sides, p \in Prices, m \in Nat, n \in Nat :
                    m < n /\ At(b, i, s, p, m) /\ At(b, j, s, p, n)
<1>1. PlacesAgree(b)
    BY Places
<1>2. \A s \in Sides : DOMAIN b.levels[s] \subseteq Prices
    BY DEF IsSound, IsBook, IsLevelMap
<1>3. ASSUME NEW i, NEW j, NEW s \in Sides, NEW p \in Prices,
             NEW m \in Nat, NEW n \in Nat,
             m < n, At(b, i, s, p, m), At(b, j, s, p, n)
      PROVE  <<i, j>> \in ArrivalOrder(b)
  <2>1. p \in DOMAIN b.levels[s] /\ Queue(b, s, p) = b.levels[s][p]
      BY <1>3 DEF At, Queue
  <2>2. b.levels[s][p] \in Seq(RestingOrders)
      BY <1>1, <2>1 DEF PlacesAgree
  <2>3. m \in DOMAIN b.levels[s][p] /\ n \in DOMAIN b.levels[s][p]
      BY <1>3, <2>1, <2>2 DEF At
  <2>4. i \in OrderIds /\ j \in OrderIds
      BY <1>1, <1>3 DEF PlacesAgree, At, RestingOrders
  <2>5. Precedes(b, i, j)
      BY <1>3, <2>1, <2>3 DEF Precedes, At
  <2> QED
      BY <2>4, <2>5 DEF ArrivalOrder
<1>4. ASSUME NEW i, NEW j, <<i, j>> \in ArrivalOrder(b)
      PROVE  \E s \in Sides, p \in Prices, m \in Nat, n \in Nat :
                    m < n /\ At(b, i, s, p, m) /\ At(b, j, s, p, n)
  <2>1. Precedes(b, i, j)
      BY <1>4 DEF ArrivalOrder
  <2>2. PICK s \in Sides : \E p \in DOMAIN b.levels[s] :
          \E m, n \in DOMAIN b.levels[s][p] :
            /\ m < n
            /\ b.levels[s][p][m].order_id = i
            /\ b.levels[s][p][n].order_id = j
      BY <2>1 DEF Precedes
  <2>3. PICK p \in DOMAIN b.levels[s] :
          \E m, n \in DOMAIN b.levels[s][p] :
            /\ m < n
            /\ b.levels[s][p][m].order_id = i
            /\ b.levels[s][p][n].order_id = j
      BY <2>2
  <2>4. p \in Prices /\ Queue(b, s, p) = b.levels[s][p]
      BY <1>2 DEF Queue
  <2>5. /\ b.levels[s][p] \in Seq(RestingOrders)
        /\ DOMAIN b.levels[s][p] = 1 .. Len(b.levels[s][p])
        /\ Len(b.levels[s][p]) \in Nat
      BY <1>1, <2>4, LenProperties DEF PlacesAgree
  <2>6. PICK m \in 1 .. Len(b.levels[s][p]), n \in 1 .. Len(b.levels[s][p]) :
            /\ m < n
            /\ b.levels[s][p][m].order_id = i
            /\ b.levels[s][p][n].order_id = j
      BY <2>3, <2>5
  <2> QED
      BY <2>4, <2>5, <2>6 DEF At
<1>5. ArrivalOrder(b) \subseteq OrderIds \X OrderIds
    BY DEF ArrivalOrder
<1> QED
    BY <1>3, <1>4, <1>5

\* Replacing a deque changes that deque and no other.
LEMMA QueueReplaced ==
    ASSUME NEW b, IsSound(b), NEW s \in Sides, NEW p \in Prices,
           NEW d \in Seq(RestingOrders), NEW locs, NEW n, NEW b2,
           IsReplaced(b2, b, s, p, d, locs, n)
    PROVE  /\ Queue(b2, s, p) = d
           /\ \A t \in Sides, x \in Prices :
                (t # s \/ x # p) => Queue(b2, t, x) = Queue(b, t, x)
           /\ b2.order_locations = locs
<1>1. IsLevelMap(b.levels[s]) /\ DOMAIN b.levels = Sides
    BY DEF IsSound, IsBook
<1> DEFINE lv2 == WithDeque(b.levels[s], p, d)
<1>2. IsWithDeque(lv2, b.levels[s], p, d)
    BY <1>1, WithDequeFacts
<1> HIDE DEF lv2
<1>3. /\ b2.levels = [b.levels EXCEPT ![s] = lv2]
      /\ b2.order_locations = locs
    BY DEF IsReplaced, lv2
<1>4. /\ b2.levels[s] = lv2
      /\ \A t \in Sides : t # s => b2.levels[t] = b.levels[t]
    BY <1>1, <1>3
<1>5. Queue(b2, s, p) = d
    BY <1>2, <1>4 DEF Queue, IsWithDeque
<1>6. \A x \in Prices : x # p => Queue(b2, s, x) = Queue(b, s, x)
    BY <1>2, <1>4 DEF Queue, IsWithDeque
<1>7. \A t \in Sides, x \in Prices : t # s => Queue(b2, t, x) = Queue(b, t, x)
    BY <1>4 DEF Queue
<1> QED
    BY <1>3, <1>5, <1>6, <1>7

\* b2 stands for what b stands for without the order id.
Leaves(b2, b, id) ==
    /\ RestingMap(b2) = Without(RestingMap(b), id)
    /\ ArrivalOrder(b2) = {e \in ArrivalOrder(b) : e[1] # id /\ e[2] # id}

\* Taking an entry out of its deque and out of the index takes the order, and
\* nothing else, out of what the book stands for.
LEMMA DropRefines ==
    ASSUME NEW b, IsSound(b), NEW b2, IsSound(b2),
           NEW s \in Sides, NEW p \in Prices,
           NEW k \in 1 .. Len(Queue(b, s, p)), NEW id,
           id = Queue(b, s, p)[k].order_id,
           NEW d, IsWithout(d, Queue(b, s, p), k), NEW n,
           IsReplaced(b2, b, s, p, d, Without(b.order_locations, id), n)
    PROVE  Leaves(b2, b, id)
<1> DEFINE q == Queue(b, s, p)
<1>1. /\ d \in Seq(RestingOrders) /\ Len(d) = Len(q) - 1
      /\ \A j \in 1 .. Len(d) : d[j] = IF j < k THEN q[j] ELSE q[j + 1]
    BY DEF IsWithout
<1>2. /\ Queue(b2, s, p) = d
      /\ \A t \in Sides, x \in Prices :
            (t # s \/ x # p) => Queue(b2, t, x) = Queue(b, t, x)
      /\ DOMAIN b2.order_locations = DOMAIN b.order_locations \ {id}
  <2> DEFINE locs == Without(b.order_locations, id)
  <2>1. /\ Queue(b2, s, p) = d
        /\ \A t \in Sides, x \in Prices :
              (t # s \/ x # p) => Queue(b2, t, x) = Queue(b, t, x)
        /\ b2.order_locations = locs
    <3> HIDE DEF locs
    <3> QED
        BY <1>1, QueueReplaced DEF locs
  <2> QED
      BY <2>1 DEF Without
<1>3. PlacesAgree(b) /\ PlacesAgree(b2)
    BY Places
\* The new number of an entry, and the number it had.
<1> DEFINE New(t, x, j) == IF t = s /\ x = p /\ j > k THEN j - 1 ELSE j
           Old(t, x, j) == IF t = s /\ x = p /\ ~(j < k) THEN j + 1 ELSE j
<1>4. Len(q) \in Nat /\ k \in 1 .. Len(q)
    BY <1>3 DEF PlacesAgree
<1>5. ASSUME NEW t \in Sides, NEW x \in Prices, NEW i, NEW j \in Nat,
             i # id, At(b, i, t, x, j)
      PROVE  /\ New(t, x, j) \in Nat
             /\ At(b2, i, t, x, New(t, x, j))
             /\ Queue(b2, t, x)[New(t, x, j)] = Queue(b, t, x)[j]
  <2>1. CASE t # s \/ x # p
      BY <1>2, <1>5, <2>1 DEF At
  <2>2. CASE t = s /\ x = p
    <3>1. j \in 1 .. Len(q) /\ q[j].order_id = i /\ j # k
        BY <1>5, <2>2 DEF At
    <3> HIDE DEF q
    <3>2. /\ New(t, x, j) \in 1 .. Len(d)
          /\ d[New(t, x, j)] = q[j]
        BY <1>1, <1>4, <2>2, <3>1
    <3> QED
        BY <1>2, <2>2, <3>1, <3>2 DEF At, q
  <2> QED
      BY <2>1, <2>2
<1>6. ASSUME NEW t \in Sides, NEW x \in Prices, NEW i, NEW j \in Nat,
             At(b2, i, t, x, j)
      PROVE  i # id /\ Old(t, x, j) \in Nat /\ At(b, i, t, x, Old(t, x, j))
  <2>1. i # id
      BY <1>2, <1>3, <1>6, ZenonT(60) DEF PlacesAgree, At
  <2>2. CASE t # s \/ x # p
      BY <1>2, <1>6, <2>1, <2>2 DEF At
  <2>3. CASE t = s /\ x = p
    <3>1. j \in 1 .. Len(d) /\ d[j].order_id = i
        BY <1>2, <1>6, <2>3 DEF At
    <3> HIDE DEF q
    <3>2. /\ Old(t, x, j) \in 1 .. Len(q)
          /\ d[j] = q[Old(t, x, j)]
        BY <1>1, <1>4, <2>3, <3>1
    <3> QED
        BY <2>1, <2>3, <3>1, <3>2 DEF At, q
  <2> QED
      BY <2>2, <2>3
<1>7. DOMAIN RestingMap(b2) = DOMAIN RestingMap(b) \ {id}
    BY <1>2 DEF RestingMap
<1>8. ASSUME NEW i \in DOMAIN b.order_locations, i # id
      PROVE  RestingMap(b2)[i] = RestingMap(b)[i]
  <2>1. PICK t \in Sides, x \in Prices, j \in Nat : At(b, i, t, x, j)
      BY <1>3 DEF PlacesAgree
  <2>2. RestingMap(b)[i] = EntryOf(t, x, Queue(b, t, x)[j])
      BY <2>1, RestingAt
  <2> HIDE DEF New
  <2>3. RestingMap(b2)[i] = EntryOf(t, x, Queue(b2, t, x)[New(t, x, j)])
      BY <1>5, <1>8, <2>1, RestingAt
  <2> QED
      BY <1>5, <1>8, <2>1, <2>2, <2>3
<1>9. RestingMap(b2) = Without(RestingMap(b), id)
  <2>1. RestingMap(b2) = [i \in DOMAIN RestingMap(b2) |-> RestingMap(b2)[i]]
      BY DEF RestingMap
  <2>2. DOMAIN RestingMap(b) = DOMAIN b.order_locations
      BY DEF RestingMap
  <2> QED
      BY <1>7, <1>8, <2>1, <2>2 DEF Without
<1>10. ASSUME NEW i, NEW j
       PROVE  <<i, j>> \in ArrivalOrder(b2)
                <=> <<i, j>> \in ArrivalOrder(b) /\ i # id /\ j # id
  <2>1. ASSUME <<i, j>> \in ArrivalOrder(b2)
        PROVE  <<i, j>> \in ArrivalOrder(b) /\ i # id /\ j # id
    <3>1. PICK t \in Sides, x \in Prices, m \in Nat, l \in Nat :
            m < l /\ At(b2, i, t, x, m) /\ At(b2, j, t, x, l)
        BY <2>1, ArrivalAt
    <3>2. Old(t, x, m) < Old(t, x, l)
        BY <1>4, <3>1
    <3> HIDE DEF Old
    <3> QED
        BY <1>6, <3>1, <3>2, ArrivalAt
  <2>2. ASSUME <<i, j>> \in ArrivalOrder(b), i # id, j # id
        PROVE  <<i, j>> \in ArrivalOrder(b2)
    <3>1. PICK t \in Sides, x \in Prices, m \in Nat, l \in Nat :
            m < l /\ At(b, i, t, x, m) /\ At(b, j, t, x, l)
        BY <2>2, ArrivalAt
    <3>2. New(t, x, m) < New(t, x, l)
      <4>1. t = s /\ x = p => m # k
          BY <2>2, <3>1 DEF At
      <4> QED
          BY <1>4, <3>1, <4>1
    <3> HIDE DEF New
    <3> QED
        BY <1>5, <2>2, <3>1, <3>2, ArrivalAt
  <2> QED
      BY <2>1, <2>2
<1>11. ArrivalOrder(b2) = {e \in ArrivalOrder(b) : e[1] # id /\ e[2] # id}
    BY <1>10, ArrivalAt
<1> QED
    BY <1>9, <1>11 DEF Leaves

\* q with a smaller quantity, v, at its front.
IsReduced(d, q, v) ==
    /\ d \in Seq(RestingOrders)
    /\ Len(d) = Len(q)
    /\ d[1] = [q[1] EXCEPT !.remaining_quantity = v]
    /\ \A j \in 2 .. Len(q) : d[j] = q[j]

\* Reducing the order at the front of a deque changes its quantity and nobody's
\* place.
LEMMA ReduceRefines ==
    ASSUME NEW b, IsSound(b), NEW b2, IsSound(b2),
           NEW s \in Sides, NEW p \in Prices, Queue(b, s, p) # <<>>,
           NEW d, NEW v, IsReduced(d, Queue(b, s, p), v), NEW n,
           IsReplaced(b2, b, s, p, d, b.order_locations, n)
    PROVE  LET id == Queue(b, s, p)[1].order_id
           IN  /\ RestingMap(b2) =
                    [RestingMap(b) EXCEPT ![id].remaining_quantity = v]
               /\ ArrivalOrder(b2) = ArrivalOrder(b)
<1> DEFINE q == Queue(b, s, p)
           id == q[1].order_id
<1>1. /\ d \in Seq(RestingOrders) /\ Len(d) = Len(q)
      /\ d[1] = [q[1] EXCEPT !.remaining_quantity = v]
      /\ \A j \in 2 .. Len(q) : d[j] = q[j]
    BY DEF IsReduced
<1>2. /\ Queue(b2, s, p) = d
      /\ \A t \in Sides, x \in Prices :
            (t # s \/ x # p) => Queue(b2, t, x) = Queue(b, t, x)
      /\ b2.order_locations = b.order_locations
    BY <1>1, QueueReplaced
<1>3. PlacesAgree(b)
    BY Places
<1>4. q \in Seq(RestingOrders) /\ Len(q) \in Nat \ {0} /\ q[1] \in RestingOrders
  <2>1. q \in Seq(RestingOrders) /\ q # <<>>
      BY <1>3 DEF PlacesAgree
  <2> HIDE DEF q
  <2> QED
      BY <2>1, LenProperties, EmptySeq
<1>5. /\ d[1].order_id = id
      /\ \A x, y : EntryOf(x, y, d[1]) =
                      [EntryOf(x, y, q[1]) EXCEPT !.remaining_quantity = v]
  <2> DEFINE r == q[1]
  <2>1. r \in RestingOrders /\ d[1] = [r EXCEPT !.remaining_quantity = v]
      BY <1>1, <1>4
  <2> HIDE DEF r
  <2>2. /\ d[1].order_id = r.order_id
        /\ \A x, y : EntryOf(x, y, d[1]) =
                      [EntryOf(x, y, r) EXCEPT !.remaining_quantity = v]
      BY <2>1 DEF RestingOrders, EntryOf
  <2> QED
      BY <2>2 DEF r
<1>6. \A j \in 1 .. Len(q) : d[j].order_id = q[j].order_id
  <2> HIDE DEF q
  <2>1. \A j \in 1 .. Len(q) : j = 1 \/ j \in 2 .. Len(q)
      BY <1>4
  <2> QED
      BY <1>1, <1>5, <2>1
<1> HIDE DEF q, id
<1>7. \A t \in Sides, x \in Prices : \A i, j :
        At(b2, i, t, x, j) <=> At(b, i, t, x, j)
    BY <1>1, <1>2, <1>6 DEF At, q
<1>8. At(b, id, s, p, 1)
    BY <1>4 DEF At, q, id
<1>9. RestingMap(b2) = [RestingMap(b) EXCEPT ![id].remaining_quantity = v]
  <2>1. /\ DOMAIN RestingMap(b2) = DOMAIN RestingMap(b)
        /\ DOMAIN RestingMap(b) = DOMAIN b.order_locations
        /\ RestingMap(b2) = [i \in DOMAIN RestingMap(b2) |-> RestingMap(b2)[i]]
        /\ RestingMap(b) = [i \in DOMAIN RestingMap(b) |-> RestingMap(b)[i]]
      BY <1>2 DEF RestingMap
  <2>2. /\ id \in DOMAIN RestingMap(b)
        /\ RestingMap(b)[id] = EntryOf(s, p, q[1])
      BY <1>8, RestingAt DEF q
  <2>3. RestingMap(b2)[id] = EntryOf(s, p, d[1])
      BY <1>2, <1>7, <1>8, RestingAt
  <2>4. ASSUME NEW i \in DOMAIN RestingMap(b), i # id
        PROVE  RestingMap(b2)[i] = RestingMap(b)[i]
    <3>1. PICK t \in Sides, x \in Prices, j \in Nat : At(b, i, t, x, j)
        BY <1>3, <2>1 DEF PlacesAgree
    <3>2. Queue(b2, t, x)[j] = Queue(b, t, x)[j]
      <4>1. CASE t # s \/ x # p
          BY <1>2, <4>1
      <4>2. CASE t = s /\ x = p
        <5>1. j \in 2 .. Len(q)
            BY <1>4, <2>4, <3>1, <4>2 DEF At, q, id
        <5> QED
            BY <1>1, <1>2, <4>2, <5>1 DEF q
      <4> QED
          BY <4>1, <4>2
    <3>3. /\ RestingMap(b)[i] = EntryOf(t, x, Queue(b, t, x)[j])
          /\ RestingMap(b2)[i] = EntryOf(t, x, Queue(b2, t, x)[j])
        BY <1>7, <3>1, RestingAt
    <3> QED
        BY <3>2, <3>3
  <2>5. RestingMap(b2)[id] = [RestingMap(b)[id] EXCEPT !.remaining_quantity = v]
      BY <1>5, <2>2, <2>3
  <2> DEFINE f == RestingMap(b)
             g == RestingMap(b2)
  <2> HIDE DEF f, g
  <2>6. g = [f EXCEPT ![id] = [f[id] EXCEPT !.remaining_quantity = v]]
      BY <2>1, <2>2, <2>4, <2>5 DEF f, g
  <2> QED
      BY <2>6 DEF f, g
<1>10. ASSUME NEW i, NEW j
       PROVE  <<i, j>> \in ArrivalOrder(b2) <=> <<i, j>> \in ArrivalOrder(b)
  <2>1. \A t \in Sides, x \in Prices, m \in Nat, l \in Nat :
          (m < l /\ At(b2, i, t, x, m) /\ At(b2, j, t, x, l))
            <=> (m < l /\ At(b, i, t, x, m) /\ At(b, j, t, x, l))
      BY <1>7
  <2>2. <<i, j>> \in ArrivalOrder(b2) <=>
          \E t \in Sides, x \in Prices, m \in Nat, l \in Nat :
            m < l /\ At(b2, i, t, x, m) /\ At(b2, j, t, x, l)
      BY ArrivalAt
  <2>3. <<i, j>> \in ArrivalOrder(b) <=>
          \E t \in Sides, x \in Prices, m \in Nat, l \in Nat :
            m < l /\ At(b, i, t, x, m) /\ At(b, j, t, x, l)
      BY ArrivalAt
  <2> QED
      BY <2>1, <2>2, <2>3, Zenon
<1>11. ArrivalOrder(b2) = ArrivalOrder(b)
    BY <1>10, ArrivalAt
<1> QED
    BY <1>9, <1>11 DEF id, q

\* b2 stands for what b stands for with the entry r last in line at (s, p).
Joins(b2, b, s, p, r) ==
    LET id    == r.order_id
        peers == {j \in DOMAIN RestingMap(b) :
                    /\ RestingMap(b)[j].side = s
                    /\ RestingMap(b)[j].price = p}
    IN  /\ RestingMap(b2) =
             [j \in DOMAIN RestingMap(b) \cup {id} |->
                IF j = id THEN EntryOf(s, p, r) ELSE RestingMap(b)[j]]
        /\ ArrivalOrder(b2) = ArrivalOrder(b) \cup {<<j, id>> : j \in peers}

\* An entry appended to a deque rests behind everyone at its price.
LEMMA AppendRefines ==
    ASSUME NEW b, IsSound(b), NEW b2, IsSound(b2),
           NEW s \in Sides, NEW p \in Prices, NEW r \in RestingOrders,
           r.order_id \notin DOMAIN b.order_locations, NEW locs,
           DOMAIN locs = DOMAIN b.order_locations \cup {r.order_id}, NEW n,
           IsReplaced(b2, b, s, p, Append(Queue(b, s, p), r), locs, n)
    PROVE  Joins(b2, b, s, p, r)
<1> DEFINE q     == Queue(b, s, p)
           d     == Append(q, r)
           id    == r.order_id
           peers == {j \in DOMAIN RestingMap(b) :
                        /\ RestingMap(b)[j].side = s
                        /\ RestingMap(b)[j].price = p}
<1>1. PlacesAgree(b)
    BY Places
<1>2. /\ q \in Seq(RestingOrders) /\ Len(q) \in Nat
      /\ d \in Seq(RestingOrders) /\ Len(d) = Len(q) + 1
      /\ \A j \in 1 .. Len(q) : d[j] = q[j]
      /\ d[Len(q) + 1] = r
  <2>1. q \in Seq(RestingOrders) /\ Len(q) \in Nat
      BY <1>1 DEF PlacesAgree
  <2> HIDE DEF q
  <2> QED
      BY <2>1, AppendProperties
<1>3. /\ Queue(b2, s, p) = d
      /\ \A t \in Sides, x \in Prices :
            (t # s \/ x # p) => Queue(b2, t, x) = Queue(b, t, x)
      /\ b2.order_locations = locs
  <2>1. IsReplaced(b2, b, s, p, d, locs, n)
      OBVIOUS
  <2> HIDE DEF d
  <2> QED
      BY <1>2, <2>1, QueueReplaced
<1> HIDE DEF d
<1> HIDE DEF q
<1>4. \A t \in Sides, x \in Prices : \A i, j :
        At(b, i, t, x, j) =>
            /\ At(b2, i, t, x, j) /\ i # id
            /\ Queue(b2, t, x)[j] = Queue(b, t, x)[j]
  <2> SUFFICES ASSUME NEW t \in Sides, NEW x \in Prices, NEW i, NEW j,
                      At(b, i, t, x, j)
               PROVE  /\ At(b2, i, t, x, j) /\ i # id
                      /\ Queue(b2, t, x)[j] = Queue(b, t, x)[j]
      OBVIOUS
  <2>1. i # id
    <3>1. j \in 1 .. Len(Queue(b, t, x)) /\ Queue(b, t, x)[j].order_id = i
        BY DEF At
    <3>2. Queue(b, t, x)[j].order_id \in DOMAIN b.order_locations
        BY <1>1, <3>1 DEF PlacesAgree
    <3> QED
        BY <3>1, <3>2
  <2>2. CASE t # s \/ x # p
      BY <1>3, <2>1, <2>2 DEF At
  <2>3. CASE t = s /\ x = p
      BY <1>2, <1>3, <2>1, <2>3 DEF At, q
  <2> QED
      BY <2>2, <2>3
<1>5. At(b2, id, s, p, Len(q) + 1)
    BY <1>2, <1>3 DEF At
<1>6. \A t \in Sides, x \in Prices : \A i, j :
        At(b2, i, t, x, j) =>
            \/ At(b, i, t, x, j)
            \/ t = s /\ x = p /\ j = Len(q) + 1 /\ i = id
    BY <1>2, <1>3 DEF At, q
<1>7. /\ DOMAIN RestingMap(b) = DOMAIN b.order_locations
      /\ DOMAIN RestingMap(b2) = DOMAIN RestingMap(b) \cup {id}
      /\ RestingMap(b2) = [i \in DOMAIN RestingMap(b2) |-> RestingMap(b2)[i]]
    BY <1>3 DEF RestingMap
<1>8. RestingMap(b2)[id] = EntryOf(s, p, r)
    BY <1>2, <1>3, <1>5, RestingAt
<1>9. ASSUME NEW i \in DOMAIN RestingMap(b)
      PROVE  RestingMap(b2)[i] = RestingMap(b)[i]
  <2>1. PICK t \in Sides, x \in Prices, j \in Nat : At(b, i, t, x, j)
      BY <1>1, <1>7 DEF PlacesAgree
  <2>2. /\ RestingMap(b)[i] = EntryOf(t, x, Queue(b, t, x)[j])
        /\ RestingMap(b2)[i] = EntryOf(t, x, Queue(b2, t, x)[j])
      BY <1>4, <2>1, RestingAt
  <2> QED
      BY <1>4, <2>1, <2>2
<1>10. ASSUME NEW i
       PROVE  i \in peers <=> \E j \in 1 .. Len(q) : At(b, i, s, p, j)
  <2>1. ASSUME i \in peers PROVE \E j \in 1 .. Len(q) : At(b, i, s, p, j)
    <3>1. PICK t \in Sides, x \in Prices, j \in Nat : At(b, i, t, x, j)
        BY <1>1, <1>7, <2>1 DEF PlacesAgree
    <3>2. RestingMap(b)[i] = EntryOf(t, x, Queue(b, t, x)[j])
        BY <3>1, RestingAt
    <3>3. t = s /\ x = p
        BY <2>1, <3>2 DEF EntryOf
    <3> QED
        BY <3>1, <3>3 DEF At, q
  <2>2. ASSUME NEW j \in 1 .. Len(q), At(b, i, s, p, j) PROVE i \in peers
    <3>1. /\ i \in DOMAIN RestingMap(b)
          /\ RestingMap(b)[i] = EntryOf(s, p, Queue(b, s, p)[j])
        BY <2>2, RestingAt
    <3> QED
        BY <3>1 DEF EntryOf
  <2> QED
      BY <2>1, <2>2
<1> HIDE DEF peers
<1>11. ASSUME NEW i, NEW j
       PROVE  <<i, j>> \in ArrivalOrder(b2)
                <=> <<i, j>> \in ArrivalOrder(b) \/ (j = id /\ i \in peers)
  <2>1. ASSUME <<i, j>> \in ArrivalOrder(b2)
        PROVE  <<i, j>> \in ArrivalOrder(b) \/ (j = id /\ i \in peers)
    <3>1. PICK t \in Sides, x \in Prices, m \in Nat, l \in Nat :
            m < l /\ At(b2, i, t, x, m) /\ At(b2, j, t, x, l)
        BY <2>1, ArrivalAt
    <3>2. CASE At(b, j, t, x, l)
      <4>1. At(b, i, t, x, m)
          BY <1>2, <1>6, <3>1, <3>2 DEF At, q
      <4> QED
          BY <3>1, <3>2, <4>1, ArrivalAt
    <3>3. CASE t = s /\ x = p /\ l = Len(q) + 1 /\ j = id
      <4>1. At(b, i, s, p, m) /\ m \in 1 .. Len(q)
          BY <1>2, <1>6, <3>1, <3>3 DEF At, q
      <4> QED
          BY <1>10, <3>3, <4>1
    <3> QED
        BY <1>6, <3>1, <3>2, <3>3
  <2>2. ASSUME <<i, j>> \in ArrivalOrder(b) PROVE <<i, j>> \in ArrivalOrder(b2)
    <3>1. PICK t \in Sides, x \in Prices, m \in Nat, l \in Nat :
            m < l /\ At(b, i, t, x, m) /\ At(b, j, t, x, l)
        BY <2>2, ArrivalAt
    <3> QED
        BY <1>4, <3>1, ArrivalAt
  <2>3. ASSUME j = id, i \in peers PROVE <<i, j>> \in ArrivalOrder(b2)
    <3>1. PICK m \in 1 .. Len(q) : At(b, i, s, p, m)
        BY <1>10, <2>3
    <3>2. m \in Nat /\ Len(q) + 1 \in Nat /\ m < Len(q) + 1
        BY <1>2
    <3> QED
        BY <1>4, <1>5, <2>3, <3>1, <3>2, ArrivalAt
  <2> QED
      BY <2>1, <2>2, <2>3
<1>12. ArrivalOrder(b2) = ArrivalOrder(b) \cup {<<j, id>> : j \in peers}
    BY <1>11, ArrivalAt
<1>13. RestingMap(b2) = [j \in DOMAIN RestingMap(b) \cup {id} |->
                        IF j = id THEN EntryOf(s, p, r) ELSE RestingMap(b)[j]]
  <2>1. id \notin DOMAIN RestingMap(b)
      BY <1>7
  <2> HIDE DEF id
  <2> QED
      BY <1>7, <1>8, <1>9, <2>1
<1> QED
    BY <1>12, <1>13 DEF peers, Joins

----------------------------------------------------------------------------
(* Which deque each operation replaces, and by what.                        *)

\* An iteration that fills the front order of the best level pops it.
LEMMA FilledBook ==
    ASSUME NEW b, IsSound(b), NEW o \in Orders, NEW left \in 0 .. MaxQuantity,
           NEW p, Matchable(b, o, left, p),
           left >= Queue(b, Opposite(o.side), p)[1].remaining_quantity
    PROVE  LET s    == Opposite(o.side)
               q    == Queue(b, s, p)
               locs == b.order_locations
           IN  \E d : /\ IsWithout(d, q, 1)
                      /\ IsReplaced(Execute(b, o, left, p), b, s, p, d,
                                    Without(locs, q[1].order_id),
                                    b.next_execution_id + 1)
<1> DEFINE s    == Opposite(o.side)
           q    == Queue(b, s, p)
           locs == b.order_locations
           b2   == Execute(b, o, left, p)
<1>1. /\ s \in Sides /\ p \in DOMAIN b.levels[s]
      /\ Head(b.levels[s][p]) = b.levels[s][p][1]
      /\ Head(b.levels[s][p]) \in RestingOrders
    BY MatchableFacts DEF IsSound
<1>2. q = b.levels[s][p]
    BY <1>1 DEF Queue
<1>3. q \in Seq(RestingOrders) /\ q # <<>>
  <2>1. IsDequeAt(b.levels[s][p], locs, s, p)
      BY <1>1, DequeFacts DEF IsSound
  <2> HIDE DEF q, s, locs
  <2> QED
      BY <1>2, <2>1 DEF IsDequeAt
<1>4. IsWithout(Tail(q), q, 1)
  <2> HIDE DEF q
  <2>1. /\ Tail(q) \in Seq(RestingOrders)
        /\ Len(Tail(q)) = Len(q) - 1
        /\ \A j \in 1 .. Len(Tail(q)) : Tail(q)[j] = q[j + 1]
      BY <1>3, HeadTailProperties
  <2> QED
      BY <2>1 DEF IsWithout
<1>5. ExecutedQuantity(q[1], left) = q[1].remaining_quantity
  <2>1. q[1].remaining_quantity \in Int /\ left \in Int
      BY <1>1, <1>2 DEF RestingOrders, Quantities
  <2> HIDE DEF q
  <2> QED
      BY <2>1 DEF ExecutedQuantity, q
<1>6. b2 = [levels |-> [b.levels EXCEPT ![s] = WithDeque(@, p, Tail(q))],
            order_locations |-> [i \in DOMAIN locs \ {q[1].order_id} |-> locs[i]],
            next_execution_id |-> b.next_execution_id + 1]
    BY <1>1, <1>2, <1>5 DEF Execute, WithDeque
<1>7. IsReplaced(b2, b, s, p, Tail(q), Without(locs, q[1].order_id),
                 b.next_execution_id + 1)
    BY <1>6 DEF IsReplaced, Without
<1> HIDE DEF q, s, locs, b2
<1> QED
    BY <1>4, <1>7 DEF q, s, locs, b2

\* An iteration that does not fill it reduces it where it stands.
LEMMA ReducedBook ==
    ASSUME NEW b, IsSound(b), NEW o \in Orders, NEW left \in 0 .. MaxQuantity,
           NEW p, Matchable(b, o, left, p),
           left < Queue(b, Opposite(o.side), p)[1].remaining_quantity
    PROVE  LET s == Opposite(o.side)
               q == Queue(b, s, p)
           IN  \E d : /\ IsReduced(d, q, q[1].remaining_quantity - left)
                      /\ IsReplaced(Execute(b, o, left, p), b, s, p, d,
                            b.order_locations, b.next_execution_id + 1)
<1> DEFINE s == Opposite(o.side)
           q == Queue(b, s, p)
           v == q[1].remaining_quantity - left
           reduced == [q[1] EXCEPT !.remaining_quantity = v]
           d  == [q EXCEPT ![1] = reduced]
           b2 == Execute(b, o, left, p)
<1>1. /\ s \in Sides /\ p \in DOMAIN b.levels[s]
      /\ Head(b.levels[s][p]) = b.levels[s][p][1]
      /\ Head(b.levels[s][p]) \in RestingOrders
    BY MatchableFacts DEF IsSound
<1>2. q = b.levels[s][p]
    BY <1>1 DEF Queue
<1>3. q \in Seq(RestingOrders) /\ 1 \in 1 .. Len(q)
  <2>1. IsDequeAt(b.levels[s][p], b.order_locations, s, p)
      BY <1>1, DequeFacts DEF IsSound
  <2> HIDE DEF q, s
  <2> QED
      BY <1>2, <2>1 DEF IsDequeAt
<1>4. q[1] \in RestingOrders /\ q[1].remaining_quantity \in 1 .. MaxQuantity
    BY <1>1, <1>2 DEF RestingOrders, Quantities
<1>5. /\ ExecutedQuantity(q[1], left) = left
      /\ left # q[1].remaining_quantity
      /\ v \in Quantities
  <2> DEFINE rest == q[1].remaining_quantity
  <2>1. rest \in 1 .. MaxQuantity /\ left < rest
      BY <1>4
  <2> HIDE DEF rest
  <2>2. left <= rest /\ left # rest /\ rest - left \in Quantities
      BY <2>1, BookAssumption DEF Quantities
  <2> QED
      BY <2>2 DEF ExecutedQuantity, rest
<1> HIDE DEF q, v
<1>6. reduced \in RestingOrders
    BY <1>4, <1>5 DEF RestingOrders
<1> HIDE DEF reduced
<1>7. /\ d \in Seq(RestingOrders)
      /\ Len(d) = Len(q)
      /\ \A j \in 1 .. Len(q) : d[j] = IF j = 1 THEN reduced ELSE q[j]
    BY <1>3, <1>6, ExceptSeq
<1>8. IsReduced(d, q, v)
  <2> HIDE DEF d
  <2>1. \A j \in 2 .. Len(q) : j \in 1 .. Len(q) /\ j # 1
      BY <1>3
  <2> QED
      BY <1>3, <1>7, <2>1 DEF IsReduced, reduced
<1>9. PutLevel(b.levels[s], p, d) = WithDeque(b.levels[s], p, d)
  <2>1. d # <<>>
      BY <1>3, <1>7
  <2> HIDE DEF d, s
  <2> QED
      BY <2>1 DEF WithDeque, remove_empty_level, PutLevel
<1>10. b2 = [levels |-> [b.levels EXCEPT ![s] = PutLevel(b.levels[s], p, d)],
             order_locations |-> b.order_locations,
             next_execution_id |-> b.next_execution_id + 1]
    BY <1>1, <1>2, <1>5 DEF Execute, reduced, v, q
<1> HIDE DEF d, b2
<1>11. IsReplaced(b2, b, s, p, d, b.order_locations, b.next_execution_id + 1)
    BY <1>9, <1>10 DEF IsReplaced
<1> QED
    BY <1>8, <1>11 DEF q, b2, v

\* A remainder that rests is appended to the deque of its side and price.
LEMMA RestedBook ==
    ASSUME NEW b, IsSound(b), NEW o \in Orders, NEW left \in 1 .. MaxQuantity,
           o.order_type \in RestingTypes
    PROVE  LET r    == [order_id |-> o.order_id, remaining_quantity |-> left,
                        order_type |-> o.order_type, account_id |-> o.account_id]
               locs == b.order_locations
           IN  /\ r \in RestingOrders
               /\ o.price \in Prices
               /\ \E locs2 :
                    /\ DOMAIN locs2 = DOMAIN locs \cup {o.order_id}
                    /\ IsReplaced(Rest(b, o, left), b, o.side, o.price,
                                  Append(Queue(b, o.side, o.price), r), locs2,
                                  b.next_execution_id)
<1> DEFINE s     == o.side
           p     == o.price
           lv    == b.levels[s]
           locs  == b.order_locations
           r     == [order_id |-> o.order_id, remaining_quantity |-> left,
                     order_type |-> o.order_type, account_id |-> o.account_id]
           loc   == [side |-> s, price |-> p, account_id |-> o.account_id]
           locs2 == [i \in DOMAIN locs \cup {o.order_id} |->
                        IF i = o.order_id THEN loc ELSE locs[i]]
           q     == Queue(b, s, p)
           d     == Append(q, r)
           b2    == Rest(b, o, left)
<1>1. /\ s \in Sides /\ p \in Prices
      /\ o.order_id \in OrderIds /\ o.account_id \in AccountIds
      /\ left \in Quantities /\ left # 0
    BY BookAssumption DEF Orders, RestingTypes, Prices, Quantities
<1>2. r \in RestingOrders
    BY <1>1 DEF RestingOrders
<1>3. q \in Seq(RestingOrders)
    BY <1>1, Places DEF PlacesAgree
<1> HIDE DEF r, loc
<1>4. d # <<>>
  <2> HIDE DEF q
  <2> QED
      BY <1>2, <1>3, AppendProperties
<1>5. push_back(lv, p, r) = PutLevel(lv, p, d)
  <2>1. CASE p \in DOMAIN lv
      BY <2>1 DEF push_back, Queue
  <2>2. CASE p \notin DOMAIN lv
    <3>1. d = <<r>>
        BY <2>2 DEF Queue
    <3> HIDE DEF d
    <3> QED
        BY <2>2, <3>1 DEF push_back
  <2> QED
      BY <2>1, <2>2
<1> HIDE DEF d
<1>6. PutLevel(lv, p, d) = WithDeque(lv, p, d)
    BY <1>4 DEF WithDeque, remove_empty_level, PutLevel
<1>7. b2 = [b EXCEPT !.levels[s] = push_back(@, p, r),
                     !.order_locations = locs2]
    BY <1>1 DEF Rest, r, loc
<1>8. b = [levels |-> b.levels, order_locations |-> locs,
           next_execution_id |-> b.next_execution_id]
    BY DEF IsSound, IsBook
<1> HIDE DEF b2
<1>9. DOMAIN locs2 = DOMAIN locs \cup {o.order_id}
    OBVIOUS
<1> HIDE DEF locs2
<1>10. IsReplaced(b2, b, s, p, d, locs2, b.next_execution_id)
    BY <1>5, <1>6, <1>7, <1>8 DEF IsReplaced
<1> QED
    BY <1>1, <1>2, <1>9, <1>10 DEF b2, d, r

----------------------------------------------------------------------------
(* How much rests at a price and on a side.                                 *)

\* The quantities of the entries of a deque.
Amounts(q) == [k \in DOMAIN q |-> q[k].remaining_quantity]

\* The sum behind LevelQuantity is one of natural numbers over 1 .. Len(q).
LEMMA DequeSum ==
    ASSUME NEW q \in Seq(RestingOrders)
    PROVE  /\ IsFiniteSet(1 .. Len(q))
           /\ Len(q) \in Nat
           /\ \A k \in 1 .. Len(q) :
                /\ Amounts(q)[k] = q[k].remaining_quantity
                /\ Amounts(q)[k] \in Nat /\ Amounts(q)[k] \in Int
           /\ LevelQuantity(q) = SumFunctionOnSet(Amounts(q), 1 .. Len(q))
           /\ LevelQuantity(q) \in Nat
<1>1. Len(q) \in Nat /\ DOMAIN q = 1 .. Len(q)
    BY LenProperties
<1>2. IsFiniteSet(1 .. Len(q))
    BY <1>1, FS_Interval
<1>3. \A k \in 1 .. Len(q) : q[k] \in RestingOrders
    BY <1>1, ElementOfSeq
<1>4. \A k \in 1 .. Len(q) :
        /\ Amounts(q)[k] = q[k].remaining_quantity
        /\ Amounts(q)[k] \in Nat /\ Amounts(q)[k] \in Int
    BY <1>1, <1>3 DEF Amounts, RestingOrders, Quantities
<1>5. LevelQuantity(q) = SumFunctionOnSet(Amounts(q), 1 .. Len(q))
  <2>1. DOMAIN Amounts(q) = 1 .. Len(q)
      BY <1>1 DEF Amounts
  <2>2. LevelQuantity(q) = SumFunctionOnSet(Amounts(q), DOMAIN Amounts(q))
      BY DEF LevelQuantity, SumFunction, Amounts
  <2> QED
      BY <2>1, <2>2
<1>6. SumFunctionOnSet(Amounts(q), 1 .. Len(q)) \in Nat
  <2> DEFINE f == Amounts(q)
             S == 1 .. Len(q)
  <2>1. \A k \in S : f[k] \in Nat /\ f[k] \in Int
      BY <1>4
  <2>2. IsFiniteSet(S)
      BY <1>2
  <2> HIDE DEF f, S
  <2>3. SumFunctionOnSet(f, S) \in Nat
      BY <2>1, <2>2, SumType
  <2> QED
      BY <2>3 DEF f, S
<1> QED
    BY <1>1, <1>2, <1>4, <1>5, <1>6

\* An empty deque holds nothing.
LEMMA EmptyQuantity == LevelQuantity(<<>>) = 0
<1>1. <<>> \in Seq(RestingOrders) /\ 1 .. Len(<<>>) = {}
    OBVIOUS
<1> QED
    BY <1>1, DequeSum, SumEmpty

\* Popping the front order takes its quantity.
LEMMA PoppedQuantity ==
    ASSUME NEW q \in Seq(RestingOrders), q # <<>>, NEW d, IsWithout(d, q, 1)
    PROVE  LevelQuantity(d) = LevelQuantity(q) - q[1].remaining_quantity
<1> DEFINE n == Len(q)
           f == Amounts(d)
           g == Amounts(q)
           S == 1 .. n - 1
           e == [k \in S |-> k + 1]
<1>1. n \in Nat \ {0}
    BY LenProperties, EmptySeq
<1>2. /\ d \in Seq(RestingOrders) /\ Len(d) = n - 1
      /\ \A j \in S : d[j] = q[j + 1]
  <2>1. /\ d \in Seq(RestingOrders) /\ Len(d) = Len(q) - 1
        /\ \A j \in 1 .. Len(d) : d[j] = IF j < 1 THEN q[j] ELSE q[j + 1]
      BY DEF IsWithout
  <2> QED
      BY <1>1, <2>1
<1>3. /\ \A k \in 1 .. n : g[k] = q[k].remaining_quantity /\ g[k] \in Int
      /\ IsFiniteSet(1 .. n)
      /\ LevelQuantity(q) = SumFunctionOnSet(g, 1 .. n)
      /\ LevelQuantity(q) \in Nat
    BY DequeSum
<1>4. /\ \A k \in S : f[k] = d[k].remaining_quantity /\ f[k] \in Int
      /\ IsFiniteSet(S)
      /\ LevelQuantity(d) = SumFunctionOnSet(f, S)
      /\ LevelQuantity(d) \in Nat
    BY <1>2, DequeSum
<1>5. \A k \in S : e[k] = k + 1 /\ e[k] \in 1 .. n /\ g[e[k]] = f[k]
  <2>1. \A k \in S : e[k] = k + 1 /\ e[k] \in 1 .. n
      BY <1>1
  <2> HIDE DEF f, g, e, S
  <2> QED
      BY <1>2, <1>3, <1>4, <2>1
<1>6. {e[k] : k \in S} = (1 .. n) \ {1}
  <2>1. \A k \in S : e[k] = k + 1
      BY <1>5
  <2>2. \A x \in (1 .. n) \ {1} : x - 1 \in S /\ x = (x - 1) + 1
      BY <1>1
  <2>3. \A k \in S : k + 1 \in (1 .. n) \ {1}
      BY <1>1
  <2>4. \A x \in (1 .. n) \ {1} : x = e[x - 1]
      BY <2>1, <2>2
  <2> HIDE DEF e, S
  <2> QED
      BY <2>1, <2>2, <2>3, <2>4
<1>7. Renames(e, S)
    BY <1>1 DEF Renames
<1> HIDE DEF f, g, e, S
<1>8. SumFunctionOnSet(g, (1 .. n) \ {1}) = SumFunctionOnSet(f, S)
    BY <1>4, <1>5, <1>6, <1>7, SumRenamed
<1>9. 1 \in 1 .. n
    BY <1>1
<1>10. SumFunctionOnSet(g, 1 .. n) = g[1] + SumFunctionOnSet(g, (1 .. n) \ {1})
  <2> DEFINE T == 1 .. n
  <2>1. IsFiniteSet(T) /\ 1 \in T /\ \A k \in T : g[k] \in Int
      BY <1>3, <1>9
  <2> HIDE DEF T
  <2>2. SumFunctionOnSet(g, T) = g[1] + SumFunctionOnSet(g, T \ {1})
      BY <2>1, SumRemove
  <2> QED
      BY <2>2 DEF T
<1>11. LevelQuantity(q) = g[1] + LevelQuantity(d)
    BY <1>3, <1>4, <1>8, <1>10
<1>12. g[1] = q[1].remaining_quantity /\ g[1] \in Int
    BY <1>3, <1>9
<1> QED
    BY <1>3, <1>4, <1>11, <1>12

\* Reducing the front order takes the difference.
LEMMA ReducedQuantity ==
    ASSUME NEW q \in Seq(RestingOrders), q # <<>>, NEW v \in Quantities,
           NEW d, IsReduced(d, q, v)
    PROVE  LevelQuantity(d) = LevelQuantity(q) - q[1].remaining_quantity + v
<1> DEFINE n == Len(q)
           f == Amounts(q)
           g == Amounts(d)
<1>1. n \in Nat \ {0} /\ 1 \in 1 .. n
    BY LenProperties, EmptySeq
<1>2. /\ d \in Seq(RestingOrders) /\ Len(d) = n
      /\ d[1] = [q[1] EXCEPT !.remaining_quantity = v]
      /\ \A j \in 2 .. n : d[j] = q[j]
    BY DEF IsReduced
<1>3. /\ \A k \in 1 .. n : f[k] = q[k].remaining_quantity /\ f[k] \in Int
      /\ IsFiniteSet(1 .. n)
      /\ LevelQuantity(q) = SumFunctionOnSet(f, 1 .. n)
    BY DequeSum
<1>4. /\ \A k \in 1 .. n : g[k] = d[k].remaining_quantity /\ g[k] \in Int
      /\ LevelQuantity(d) = SumFunctionOnSet(g, 1 .. n)
    BY <1>2, DequeSum
<1>5. q[1] \in RestingOrders
    BY <1>1, ElementOfSeq
<1> HIDE DEF n
<1>6. g[1] = v
    BY <1>1, <1>2, <1>4, <1>5 DEF RestingOrders
<1>7. \A k \in (1 .. n) \ {1} : g[k] = f[k]
  <2>1. \A k \in (1 .. n) \ {1} : k \in 2 .. n
      BY <1>1
  <2> HIDE DEF f, g
  <2> QED
      BY <1>2, <1>3, <1>4, <2>1
<1>8. g[1] \in Int /\ f[1] = q[1].remaining_quantity
    BY <1>1, <1>3, <1>4
<1> HIDE DEF f, g
<1>9. SumFunctionOnSet(g, 1 .. n) = SumFunctionOnSet(f, 1 .. n) - f[1] + g[1]
  <2> DEFINE S == 1 .. n
  <2>1. /\ IsFiniteSet(S) /\ 1 \in S
        /\ \A k \in S : f[k] \in Int
        /\ \A k \in S \ {1} : g[k] = f[k]
      BY <1>1, <1>3, <1>7
  <2> HIDE DEF S
  <2>2. SumFunctionOnSet(g, S) = SumFunctionOnSet(f, S) - f[1] + g[1]
      BY <1>8, <2>1, SumChange
  <2> QED
      BY <2>2 DEF S
<1> QED
    BY <1>3, <1>4, <1>6, <1>8, <1>9

\* What rests on a side at the prices of a set.
QuantityAt(lv, C) == SumFunctionOnSet(LevelQuantities(lv), DOMAIN lv \cap C)

\* The levels of a side are finitely many and each holds a natural number.
LEMMA SideSum ==
    ASSUME NEW lv, IsLevelMap(lv), NEW C
    PROVE  /\ IsFiniteSet(DOMAIN lv \cap C)
           /\ \A p \in DOMAIN lv :
                /\ LevelQuantities(lv)[p] = LevelQuantity(lv[p])
                /\ LevelQuantity(lv[p]) \in Nat
                /\ LevelQuantities(lv)[p] \in Int
           /\ QuantityAt(lv, C) \in Nat
<1>1. IsFiniteSet(Prices)
    BY BookAssumption, FS_Interval DEF Prices
<1>2. IsFiniteSet(DOMAIN lv \cap C)
  <2>1. DOMAIN lv \cap C \subseteq Prices
      BY DEF IsLevelMap
  <2> QED
      BY <1>1, <2>1, FS_Subset
<1>3. \A p \in DOMAIN lv : lv[p] \in Seq(RestingOrders)
    BY DEF IsLevelMap
<1>4. \A p \in DOMAIN lv : LevelQuantity(lv[p]) \in Nat
    BY <1>3, DequeSum
<1>5. \A p \in DOMAIN lv : LevelQuantities(lv)[p] = LevelQuantity(lv[p])
    BY DEF LevelQuantities
<1>6. QuantityAt(lv, C) \in Nat
  <2> DEFINE f == LevelQuantities(lv)
             S == DOMAIN lv \cap C
  <2>1. \A p \in S : f[p] \in Nat /\ f[p] \in Int
      BY <1>4, <1>5
  <2>2. IsFiniteSet(S)
      BY <1>2
  <2> HIDE DEF f, S
  <2>3. SumFunctionOnSet(f, S) \in Nat
      BY <2>1, <2>2, SumType
  <2> QED
      BY <2>3 DEF f, S, QuantityAt
<1> QED
    BY <1>2, <1>4, <1>5, <1>6

\* Replacing one deque changes what rests on its side by the difference.
LEMMA SideWithDeque ==
    ASSUME NEW lv, IsLevelMap(lv), NEW p \in DOMAIN lv,
           NEW d \in Seq(RestingOrders), NEW lv2, IsWithDeque(lv2, lv, p, d),
           NEW C, p \in C
    PROVE  QuantityAt(lv2, C) =
             QuantityAt(lv, C) - LevelQuantity(lv[p]) + LevelQuantity(d)
<1> DEFINE f == LevelQuantities(lv)
           g == LevelQuantities(lv2)
           S == DOMAIN lv \cap C
           T == DOMAIN lv2 \cap C
<1>1. /\ IsFiniteSet(S)
      /\ \A x \in DOMAIN lv :
            /\ f[x] = LevelQuantity(lv[x])
            /\ LevelQuantity(lv[x]) \in Nat
            /\ f[x] \in Int
    BY SideSum
<1>2. IsLevelMap(lv2)
    BY DEF IsWithDeque
<1>3. \A x \in DOMAIN lv2 :
        /\ g[x] = LevelQuantity(lv2[x])
        /\ LevelQuantity(lv2[x]) \in Nat
        /\ g[x] \in Int
    BY <1>2, SideSum
<1>4. \A x \in DOMAIN lv \ {p} : x \in DOMAIN lv2 /\ g[x] = f[x]
    BY <1>1, <1>3 DEF IsWithDeque
<1>5. QuantityAt(lv, C) = SumFunctionOnSet(f, S)
      /\ QuantityAt(lv2, C) = SumFunctionOnSet(g, T)
    BY DEF QuantityAt
<1>6. QuantityAt(lv, C) \in Nat /\ QuantityAt(lv2, C) \in Nat
    BY <1>2, SideSum
<1>7. LevelQuantity(d) \in Nat
    BY DequeSum
<1>8. p \in S /\ (\A x \in S : f[x] \in Int) /\ f[p] = LevelQuantity(lv[p])
    BY <1>1
<1>9. CASE d = <<>>
  <2>1. T = S \ {p}
      BY <1>9 DEF IsWithDeque
  <2>2. IsFiniteSet(T) /\ \A x \in T : g[x] = f[x]
      BY <1>1, <1>4, <2>1, FS_Subset
  <2> HIDE DEF f, g, S, T
  <2>3. SumFunctionOnSet(g, T) = SumFunctionOnSet(f, T)
      BY <2>2, SumAgree
  <2>4. SumFunctionOnSet(f, S) = f[p] + SumFunctionOnSet(f, S \ {p})
      BY <1>1, <1>8, SumRemove
  <2>5. QuantityAt(lv, C) = LevelQuantity(lv[p]) + QuantityAt(lv2, C)
      BY <1>5, <1>8, <2>1, <2>3, <2>4
  <2>6. LevelQuantity(d) = 0
      BY <1>9, EmptyQuantity
  <2> QED
      BY <1>1, <1>6, <2>5, <2>6
<1>10. CASE d # <<>>
  <2>1. T = S
      BY <1>10 DEF IsWithDeque
  <2>2. g[p] = LevelQuantity(d) /\ g[p] \in Int
      BY <1>3, <1>10 DEF IsWithDeque
  <2>3. \A x \in S \ {p} : g[x] = f[x]
      BY <1>4
  <2> HIDE DEF f, g, S, T
  <2>4. SumFunctionOnSet(g, S) = SumFunctionOnSet(f, S) - f[p] + g[p]
      BY <1>1, <1>8, <2>2, <2>3, SumChange
  <2> QED
      BY <1>5, <1>8, <2>1, <2>2, <2>4
<1> QED
    BY <1>9, <1>10

\* An execution takes from the side it trades with what the trade reports.
LEMMA ExecuteTakes ==
    ASSUME NEW b, IsSound(b), NEW o \in Orders, NEW left \in 0 .. MaxQuantity,
           NEW p, Matchable(b, o, left, p), NEW C, p \in C
    PROVE  LET s == Opposite(o.side)
           IN  QuantityAt(Execute(b, o, left, p).levels[s], C) =
                 QuantityAt(b.levels[s], C) - TradeOf(b, o, left, p).quantity
<1> DEFINE s   == Opposite(o.side)
           q   == Queue(b, s, p)
           b2  == Execute(b, o, left, p)
           lv  == b.levels[s]
           lv2 == b2.levels[s]
           t   == TradeOf(b, o, left, p).quantity
           rem == q[1].remaining_quantity
<1>1. /\ s \in Sides /\ p \in DOMAIN lv
      /\ Head(lv[p]) = lv[p][1] /\ Head(lv[p]) \in RestingOrders
    BY MatchableFacts DEF IsSound
<1>2. q = lv[p]
    BY <1>1 DEF Queue
<1>3. IsLevelMap(lv) /\ DOMAIN b.levels = Sides /\ p \in Prices
    BY <1>1 DEF IsSound, IsBook, IsLevelMap
<1>4. q \in Seq(RestingOrders) /\ q # <<>>
  <2>1. IsDequeAt(lv[p], b.order_locations, s, p)
      BY <1>1, DequeFacts DEF IsSound
  <2> HIDE DEF q, s, lv
  <2> QED
      BY <1>2, <2>1 DEF IsDequeAt
<1>5. rem \in Quantities /\ rem \in Int /\ left \in Int
    BY <1>1, <1>2 DEF RestingOrders, Quantities
<1>6. t = IF left <= rem THEN left ELSE rem
    BY <1>1, <1>2 DEF TradeOf, ExecutedQuantity
<1>7. LevelQuantity(q) \in Nat /\ QuantityAt(lv, C) \in Nat
    BY <1>3, <1>4, DequeSum, SideSum
<1>8. \E d : /\ d \in Seq(RestingOrders)
             /\ IsWithDeque(lv2, lv, p, d)
             /\ LevelQuantity(d) = LevelQuantity(q) - t
  <2>1. CASE left >= rem
    <3>1. PICK d : /\ IsWithout(d, q, 1)
                   /\ IsReplaced(b2, b, s, p, d,
                                 Without(b.order_locations, q[1].order_id),
                                 b.next_execution_id + 1)
      <4>1. left >= Queue(b, Opposite(o.side), p)[1].remaining_quantity
          BY <2>1
      <4> QED
          BY <4>1, FilledBook
    <3> HIDE DEF q, b2, s, lv, lv2
    <3>2. d \in Seq(RestingOrders)
        BY <3>1 DEF IsWithout
    <3>3. b2.levels = [b.levels EXCEPT ![s] = WithDeque(@, p, d)]
        BY <3>1 DEF IsReplaced
    <3>4. lv2 = WithDeque(lv, p, d)
        BY <1>1, <1>3, <3>3 DEF lv, lv2
    <3>5. IsWithDeque(lv2, lv, p, d)
        BY <1>3, <3>2, <3>4, WithDequeFacts
    <3>6. LevelQuantity(d) = LevelQuantity(q) - rem
        BY <1>4, <3>1, PoppedQuantity
    <3>7. t = rem
      <4> HIDE DEF t, rem
      <4> QED
          BY <1>5, <1>6, <2>1
    <3> QED
        BY <3>2, <3>5, <3>6, <3>7
  <2>2. CASE left < rem
    <3> DEFINE v == rem - left
    <3>1. PICK d : /\ IsReduced(d, q, v)
                   /\ IsReplaced(b2, b, s, p, d, b.order_locations,
                                 b.next_execution_id + 1)
      <4>1. left < Queue(b, Opposite(o.side), p)[1].remaining_quantity
          BY <2>2
      <4> QED
          BY <4>1, ReducedBook
    <3>2. v \in Quantities
      <4> HIDE DEF rem
      <4> QED
          BY <1>5, <2>2, BookAssumption DEF Quantities
    <3> HIDE DEF q, b2, s, lv, lv2, v
    <3>3. d \in Seq(RestingOrders)
        BY <3>1 DEF IsReduced
    <3>4. b2.levels = [b.levels EXCEPT ![s] = WithDeque(@, p, d)]
        BY <3>1 DEF IsReplaced
    <3>5. lv2 = WithDeque(lv, p, d)
        BY <1>1, <1>3, <3>4 DEF lv, lv2
    <3>6. IsWithDeque(lv2, lv, p, d)
        BY <1>3, <3>3, <3>5, WithDequeFacts
    <3>7. LevelQuantity(d) = LevelQuantity(q) - rem + v
        BY <1>4, <3>1, <3>2, ReducedQuantity
    <3>8. LevelQuantity(d) = LevelQuantity(q) - t
      <4> HIDE DEF t, rem
      <4> QED
          BY <1>5, <1>6, <1>7, <2>2, <3>7 DEF v
    <3> QED
        BY <3>3, <3>6, <3>8
  <2> HIDE DEF rem
  <2> QED
      BY <1>5, <2>1, <2>2
<1>9. PICK d : /\ d \in Seq(RestingOrders)
               /\ IsWithDeque(lv2, lv, p, d)
               /\ LevelQuantity(d) = LevelQuantity(q) - t
    BY <1>8
<1>10. t \in Int
  <2> HIDE DEF t, rem
  <2> QED
      BY <1>5, <1>6
<1> HIDE DEF s, q, b2, lv, lv2, t, rem
<1>11. QuantityAt(lv2, C) = QuantityAt(lv, C) - LevelQuantity(q) + LevelQuantity(d)
    BY <1>1, <1>2, <1>3, <1>9, SideWithDeque
<1>12. QuantityAt(lv2, C) = QuantityAt(lv, C) - t
    BY <1>7, <1>9, <1>10, <1>11
<1> QED
    BY <1>12 DEF s, b2, lv, lv2, t

----------------------------------------------------------------------------
(* What place_order and cancel_order keep of a book, and what they report.  *)

\* Well-formed, consistent and uncrossed.
GoodBook(b) == IsBook(b) /\ IndexConsistent(b) /\ Uncrossed(b)

\* The book of an instrument without orders.
LEMMA EmptyBookIsGood == GoodBook(EmptyBook)
<1> DEFINE b == EmptyBook
<1>1. /\ b = [levels |-> b.levels, order_locations |-> b.order_locations,
              next_execution_id |-> b.next_execution_id]
      /\ DOMAIN b.levels = Sides
      /\ b.levels = [s \in Sides |-> b.levels[s]]
      /\ \A s \in Sides : DOMAIN b.levels[s] = {}
      /\ DOMAIN b.order_locations = {}
      /\ b.next_execution_id = 1
    BY DEF EmptyBook
<1>2. /\ \A s \in Sides : b.levels[s] \in [{} -> Seq(RestingOrders)]
      /\ b.order_locations \in [{} -> Locations]
    BY DEF EmptyBook
<1> HIDE DEF b
<1>3. IsBook(b)
    BY <1>1, <1>2 DEF IsBook, IsLevelMap, IsIndex
<1>4. IndexConsistent(b)
    BY <1>1 DEF IndexConsistent, LevelsNonEmpty, EntriesIndexed,
                IndexedPresent, NoDuplicates
<1>5. Uncrossed(b)
    BY <1>1 DEF Uncrossed, Sides
<1> QED
    BY <1>3, <1>4, <1>5 DEF GoodBook, b

\* The reasons place_order and cancel_order give are reasons of the book.
LEMMA RejectionReasons ==
    /\ \A b, o : PlaceRejection(b, o) # "none"
                    => PlaceRejection(b, o) \in BookRejectReasons
    /\ \A b, id, account : CancelRejection(b, id, account) # "none"
                    => CancelRejection(b, id, account) \in BookRejectReasons
    BY DEF PlaceRejection, CancelRejection, BookRejectReasons

\* An accepted order is not a duplicate, an accepted cancellation names an
\* open order.
LEMMA AcceptedMeans ==
    /\ \A b, o : PlaceRejection(b, o) = "none"
                    => ~contains_order(b, o.order_id)
    /\ \A b, id, account : CancelRejection(b, id, account) = "none"
                    => id \in DOMAIN b.order_locations
    BY DEF PlaceRejection, CancelRejection, contains_order

\* What cancel_order reports is an event, whatever it read for side and price.
LEMMA CancelReportsTyped ==
    ASSUME NEW b, IsBook(b), IndexConsistent(b),
           NEW id \in DOMAIN b.order_locations, NEW account \in AccountIds,
           NEW e \in CancelReports(b, id, account)
    PROVE  e \in CanceledEvents
<1> DEFINE loc == b.order_locations[id]
           q   == b.levels[loc.side][loc.price]
<1>1. loc.side \in Sides /\ loc.price \in Prices /\ id \in OrderIds
    BY DEF IsBook, IsIndex, Locations
<1> DEFINE type == q[PositionIn(q, id)].order_type
<1>2. /\ loc.price \in DOMAIN b.levels[loc.side]
      /\ IsIn(q, id)
      /\ q[PositionIn(q, id)] \in RestingOrders
    BY IndexedEntry
<1>3. PICK side \in {loc.side, Garbage}, price \in {loc.price, Garbage} :
        e = Canceled(b, id, account, side, price)
    BY DEF CancelReports
<1>4. type \in RestingTypes
  <2> HIDE DEF q
  <2> QED
      BY <1>2 DEF RestingOrders
<1>5. e = [kind |-> "canceled", order_id |-> id, side |-> side,
           price |-> price, order_type |-> type, account_id |-> account]
    BY <1>2, <1>3 DEF Canceled
<1> HIDE DEF loc, q, type
<1> QED
    BY <1>1, <1>4, <1>5 DEF CanceledEvents

----------------------------------------------------------------------------
(* The operations, as the components that keep books see them: what becomes *)
(* of the open orders.                                                      *)

\* An open order has a quantity, a side, a price and an account.
LEMMA RestingTyped ==
    ASSUME NEW b, IsSound(b)
    PROVE  /\ DOMAIN RestingMap(b) = DOMAIN b.order_locations
           /\ \A id \in DOMAIN b.order_locations :
                /\ id \in OrderIds
                /\ RestingMap(b)[id].remaining_quantity \in 1 .. MaxQuantity
                /\ RestingMap(b)[id].side \in Sides
                /\ RestingMap(b)[id].price \in Prices
                /\ RestingMap(b)[id].account_id \in AccountIds
                /\ RestingMap(b)[id].order_type \in RestingTypes
<1>1. DOMAIN RestingMap(b) = DOMAIN b.order_locations
    BY DEF RestingMap
<1>2. DOMAIN b.order_locations \subseteq OrderIds
    BY DEF IsSound, IsBook, IsIndex
<1>3. PlacesAgree(b)
    BY Places
<1>4. ASSUME NEW id \in DOMAIN b.order_locations
      PROVE  /\ RestingMap(b)[id].remaining_quantity \in 1 .. MaxQuantity
             /\ RestingMap(b)[id].side \in Sides
             /\ RestingMap(b)[id].price \in Prices
             /\ RestingMap(b)[id].account_id \in AccountIds
             /\ RestingMap(b)[id].order_type \in RestingTypes
  <2>1. PICK s \in Sides, p \in Prices, k \in Nat : At(b, id, s, p, k)
      BY <1>3 DEF PlacesAgree
  <2>2. Queue(b, s, p)[k] \in RestingOrders
      BY <1>3, <2>1 DEF PlacesAgree, At
  <2>3. RestingMap(b)[id] = EntryOf(s, p, Queue(b, s, p)[k])
      BY <2>1, RestingAt
  <2> QED
      BY <2>2, <2>3 DEF EntryOf, RestingOrders, Quantities
<1> QED
    BY <1>1, <1>2, <1>4

\* n units of the order i are gone, and the order with the last of them.
Takes(after, before, i, n) ==
    IF n = before[i].remaining_quantity
    THEN after = Without(before, i)
    ELSE after = [before EXCEPT ![i].remaining_quantity = @ - n]

\* An iteration of the inner loop takes what its trade says from one open
\* order of the other side.
LEMMA ExecuteEffect ==
    ASSUME NEW b, GoodBook(b), NEW o \in Orders, NEW left \in 0 .. MaxQuantity,
           NEW p \in Prices, Matchable(b, o, left, p)
    PROVE  LET t  == TradeOf(b, o, left, p)
               i  == t.resting_order_id
               b2 == Execute(b, o, left, p)
           IN  /\ GoodBook(b2)
               /\ t \in TradeEvents /\ t.quantity \in 1 .. left
               /\ t.incoming_order_id = o.order_id /\ t.price = p
               /\ i \in DOMAIN b.order_locations
               /\ RestingMap(b)[i].side = Opposite(o.side)
               /\ RestingMap(b)[i].price = p
               /\ RestingMap(b)[i].account_id = t.resting_account_id
               /\ t.quantity <= RestingMap(b)[i].remaining_quantity
               /\ Takes(RestingMap(b2), RestingMap(b), i, t.quantity)
<1> DEFINE s  == Opposite(o.side)
           q  == Queue(b, s, p)
           t  == TradeOf(b, o, left, p)
           i  == q[1].order_id
           b2 == Execute(b, o, left, p)
<1>1. /\ IsSound(b) /\ IsBook(b) /\ IndexConsistent(b) /\ Uncrossed(b)
    BY DEF GoodBook, IsSound
<1>2. GoodBook(b2) /\ IsSound(b2)
    BY <1>1, ExecuteKeepsBook DEF GoodBook, IsSound
<1>3. /\ s \in Sides /\ p \in DOMAIN b.levels[s]
      /\ Head(b.levels[s][p]) = b.levels[s][p][1]
      /\ q[1] \in RestingOrders
      /\ q = b.levels[s][p]
  <2>1. /\ s \in Sides /\ p \in DOMAIN b.levels[s]
        /\ Head(b.levels[s][p]) = b.levels[s][p][1]
        /\ Head(b.levels[s][p]) \in RestingOrders
      BY <1>1, MatchableFacts
  <2> QED
      BY <2>1 DEF Queue
<1>4. /\ t \in TradeEvents /\ t.quantity \in 1 .. left
    BY <1>1, TradeFacts
<1>5. /\ t.incoming_order_id = o.order_id /\ t.price = p
      /\ t.resting_order_id = i
      /\ t.resting_account_id = q[1].account_id
      /\ t.quantity = ExecutedQuantity(q[1], left)
    BY <1>3 DEF TradeOf
<1>6. Len(q) \in Nat \ {0} /\ q # <<>>
  <2>1. IsDequeAt(b.levels[s][p], b.order_locations, s, p)
      BY <1>1, <1>3, DequeFacts
  <2> HIDE DEF q, s
  <2> QED
      BY <1>3, <2>1 DEF IsDequeAt
<1>7. q[1].remaining_quantity \in 1 .. MaxQuantity
    BY <1>3 DEF RestingOrders, Quantities
<1> HIDE DEF q, s, b2, t
<1>8. At(b, i, s, p, 1)
    BY <1>6 DEF At, q
<1>9. /\ i \in DOMAIN RestingMap(b)
      /\ RestingMap(b)[i] = EntryOf(s, p, q[1])
    BY <1>1, <1>3, <1>8, RestingAt DEF q
<1>10. /\ i \in DOMAIN b.order_locations
       /\ RestingMap(b)[i].side = s /\ RestingMap(b)[i].price = p
       /\ RestingMap(b)[i].account_id = q[1].account_id
       /\ RestingMap(b)[i].remaining_quantity = q[1].remaining_quantity
    BY <1>9 DEF EntryOf, RestingMap
<1>11. CASE left < q[1].remaining_quantity
  <2>1. PICK d : /\ IsReduced(d, q, q[1].remaining_quantity - left)
                 /\ IsReplaced(b2, b, s, p, d, b.order_locations,
                               b.next_execution_id + 1)
      BY <1>1, <1>11, ReducedBook DEF q, s, b2
  <2>2. /\ RestingMap(b2) = [RestingMap(b) EXCEPT
              ![i].remaining_quantity = q[1].remaining_quantity - left]
        /\ ArrivalOrder(b2) = ArrivalOrder(b)
      BY <1>1, <1>2, <1>3, <1>6, <2>1, ReduceRefines DEF q
  <2>3. t.quantity = left /\ left # q[1].remaining_quantity
      BY <1>5, <1>7, <1>11, BookAssumption DEF ExecutedQuantity
  <2>4. RestingMap(b2) = [RestingMap(b) EXCEPT ![i].remaining_quantity = @ - left]
      BY <1>9, <1>10, <2>2
  <2>5. Takes(RestingMap(b2), RestingMap(b), i, t.quantity)
      BY <1>10, <2>3, <2>4 DEF Takes
  <2> QED
      BY <1>2, <1>4, <1>5, <1>7, <1>10, <1>11, <2>3, <2>5 DEF s, t, b2
<1>12. CASE ~(left < q[1].remaining_quantity)
  <2>1. left >= q[1].remaining_quantity
      BY <1>7, <1>12, BookAssumption
  <2>2. PICK d : /\ IsWithout(d, q, 1)
                 /\ IsReplaced(b2, b, s, p, d, Without(b.order_locations, i),
                               b.next_execution_id + 1)
      BY <1>1, <2>1, FilledBook DEF q, s, b2
  <2>3. Leaves(b2, b, i)
    <3>1. /\ 1 \in 1 .. Len(Queue(b, s, p))
          /\ i = Queue(b, s, p)[1].order_id
          /\ IsWithout(d, Queue(b, s, p), 1)
        BY <1>6, <2>2 DEF q
    <3> HIDE DEF i
    <3> QED
        BY <1>1, <1>2, <1>3, <2>2, <3>1, DropRefines
  <2>4. t.quantity = q[1].remaining_quantity
      BY <1>5, <1>7, <2>1, BookAssumption DEF ExecutedQuantity
  <2>5. Takes(RestingMap(b2), RestingMap(b), i, t.quantity)
      BY <1>10, <2>3, <2>4 DEF Takes, Leaves
  <2> QED
      BY <1>2, <1>4, <1>5, <1>7, <1>10, <2>4, <2>5 DEF s, t, b2
<1> QED
    BY <1>11, <1>12

\* The remainder of an order that rests joins the open orders.
JoinsMap(after, before, id, e) ==
    after = [j \in DOMAIN before \cup {id} |-> IF j = id THEN e ELSE before[j]]

\* What Rest does to the resting orders: the remainder joins them or is dropped.
LEMMA RestEffect ==
    ASSUME NEW b, GoodBook(b), NEW o \in Orders, NEW left \in 0 .. MaxQuantity,
           o.order_id \notin DOMAIN b.order_locations,
           \A p \in Prices : ~Matchable(b, o, left, p)
    PROVE  LET b2 == Rest(b, o, left)
           IN  /\ GoodBook(b2)
               /\ IF o.order_type \in RestingTypes /\ left > 0
                  THEN JoinsMap(RestingMap(b2), RestingMap(b), o.order_id,
                         [side |-> o.side, price |-> o.price,
                          remaining_quantity |-> left,
                          order_type |-> o.order_type,
                          account_id |-> o.account_id])
                  ELSE b2 = b
<1> DEFINE b2 == Rest(b, o, left)
<1>1. /\ IsSound(b) /\ IsBook(b) /\ IndexConsistent(b) /\ Uncrossed(b)
    BY DEF GoodBook, IsSound
<1>2. GoodBook(b2) /\ IsSound(b2)
    BY <1>1, RestKeepsBook DEF GoodBook, IsSound
<1>3. CASE o.order_type \in RestingTypes /\ left > 0
  <2> DEFINE r == [order_id |-> o.order_id, remaining_quantity |-> left,
                   order_type |-> o.order_type, account_id |-> o.account_id]
  <2>1. left \in 1 .. MaxQuantity
      BY <1>3, BookAssumption
  <2>2. /\ r \in RestingOrders /\ o.price \in Prices
        /\ \E locs2 :
             /\ DOMAIN locs2 = DOMAIN b.order_locations \cup {o.order_id}
             /\ IsReplaced(b2, b, o.side, o.price,
                           Append(Queue(b, o.side, o.price), r), locs2,
                           b.next_execution_id)
      BY <1>1, <1>3, <2>1, RestedBook
  <2> HIDE DEF b2
  <2>3. PICK locs2 :
          /\ DOMAIN locs2 = DOMAIN b.order_locations \cup {o.order_id}
          /\ IsReplaced(b2, b, o.side, o.price,
                        Append(Queue(b, o.side, o.price), r), locs2,
                        b.next_execution_id)
      BY <2>2
  <2>4. o.side \in Sides
      BY DEF Orders
  <2>5. /\ r.order_id = o.order_id
        /\ EntryOf(o.side, o.price, r) =
             [side |-> o.side, price |-> o.price, remaining_quantity |-> left,
              order_type |-> o.order_type, account_id |-> o.account_id]
      BY DEF EntryOf
  <2> HIDE DEF r
  <2>6. Joins(b2, b, o.side, o.price, r)
    <3>1. /\ r.order_id \notin DOMAIN b.order_locations
          /\ DOMAIN locs2 = DOMAIN b.order_locations \cup {r.order_id}
        BY <2>3, <2>5
    <3> QED
        BY <1>1, <1>2, <2>2, <2>3, <2>4, <3>1, AppendRefines
  <2> QED
      BY <1>2, <1>3, <2>5, <2>6 DEF Joins, JoinsMap, b2
<1>4. CASE ~(o.order_type \in RestingTypes /\ left > 0)
  <2>1. o.order_type \notin RestingTypes \/ left = 0
      BY <1>4, BookAssumption
  <2>2. b2 = b
      BY <2>1 DEF Rest
  <2> QED
      BY <1>2, <1>4, <2>2
<1> QED
    BY <1>3, <1>4

\* A cancellation takes its order out of the open orders.
LEMMA CancelEffect ==
    ASSUME NEW b, GoodBook(b), NEW id \in DOMAIN b.order_locations
    PROVE  /\ GoodBook(CancelIn(b, id))
           /\ RestingMap(CancelIn(b, id)) = Without(RestingMap(b), id)
<1> DEFINE loc == b.order_locations[id]
           s   == loc.side
           p   == loc.price
           q   == b.levels[s][p]
           k   == PositionIn(q, id)
           b2  == CancelIn(b, id)
<1>1. /\ IsSound(b) /\ IsBook(b) /\ IndexConsistent(b) /\ Uncrossed(b)
    BY DEF GoodBook, IsSound
<1>2. GoodBook(b2) /\ IsSound(b2)
    BY <1>1, CancelKeepsBook DEF GoodBook, IsSound
<1>3. s \in Sides /\ p \in Prices
    BY <1>1 DEF IsBook, IsIndex, Locations
<1>4. /\ p \in DOMAIN b.levels[s]
      /\ k \in 1 .. Len(q) /\ q[k].order_id = id
    BY <1>1, IndexedEntry
<1>5. PICK d : /\ IsWithout(d, q, k)
               /\ IsReplaced(b2, b, s, p, d, Without(b.order_locations, id),
                             b.next_execution_id)
    BY <1>1, CanceledBook
<1> HIDE DEF s, p, k, b2
<1>6. Queue(b, s, p) = q
    BY <1>4 DEF Queue
<1> HIDE DEF q
<1>7. Leaves(b2, b, id)
    BY <1>1, <1>2, <1>3, <1>4, <1>5, <1>6, DropRefines
<1> QED
    BY <1>2, <1>7 DEF Leaves, b2

----------------------------------------------------------------------------
(* Price-time priority of one book, whoever drives it.                      *)

\* The resting orders o may trade with.
InReach(b, o) ==
    {i \in DOMAIN RestingMap(b) :
        /\ RestingMap(b)[i].side # o.side
        /\ \/ o.order_type = "market"
           \/ o.side = "buy"  /\ RestingMap(b)[i].price <= o.price
           \/ o.side = "sell" /\ RestingMap(b)[i].price >= o.price}

\* i is served before j when o comes in: a better price or an earlier arrival.
ServedBefore(b, o, i, j) ==
    \/ o.side = "buy"  /\ RestingMap(b)[i].price < RestingMap(b)[j].price
    \/ o.side = "sell" /\ RestingMap(b)[i].price > RestingMap(b)[j].price
    \/ <<i, j>> \in ArrivalOrder(b)

\* i is the order that o has to trade with.
FirstInLine(b, o, i) ==
    /\ i \in InReach(b, o)
    /\ \A j \in InReach(b, o) : ~ServedBefore(b, o, j, i)

\* The orders o may trade with are those on the other side within its limit.
LEMMA ReachAt ==
    ASSUME NEW b, IsSound(b), NEW o \in Orders, NEW i, NEW s \in Sides,
           NEW p \in Prices, NEW k, At(b, i, s, p, k)
    PROVE  /\ i \in DOMAIN RestingMap(b)
           /\ RestingMap(b)[i].side = s
           /\ RestingMap(b)[i].price = p
           /\ i \in InReach(b, o) <=> s = Opposite(o.side) /\ Crosses(o, p)
<1> DEFINE e == RestingMap(b)[i]
<1>1. /\ i \in DOMAIN RestingMap(b)
      /\ e = EntryOf(s, p, Queue(b, s, p)[k])
    BY RestingAt
<1>2. e.side = s /\ e.price = p
    BY <1>1 DEF EntryOf
<1> HIDE DEF e
<1>3. o.side \in Sides /\ o.price \in Int /\ p \in Int
    BY BookAssumption DEF Orders, Prices
<1>4. s # o.side <=> s = Opposite(o.side)
    BY <1>3 DEF Opposite, Sides
<1>5. Crosses(o, p) <=> \/ o.order_type = "market"
                        \/ o.side = "buy" /\ p <= o.price
                        \/ o.side = "sell" /\ p >= o.price
    BY <1>3 DEF Crosses
<1>6. i \in InReach(b, o) <=> /\ e.side # o.side
                              /\ \/ o.order_type = "market"
                                 \/ o.side = "buy"  /\ e.price <= o.price
                                 \/ o.side = "sell" /\ e.price >= o.price
    BY <1>1 DEF InReach, e
<1>7. i \in InReach(b, o) <=> s = Opposite(o.side) /\ Crosses(o, p)
    BY <1>2, <1>4, <1>5, <1>6
<1> QED
    BY <1>1, <1>2, <1>7 DEF e

\* If no level of the other side is within the limit nobody is in reach.
LEMMA NobodyInReach ==
    ASSUME NEW b, IsSound(b), NEW o \in Orders,
           \A q \in DOMAIN b.levels[Opposite(o.side)] : ~Crosses(o, q)
    PROVE  InReach(b, o) = {}
<1> SUFFICES ASSUME NEW i \in InReach(b, o) PROVE FALSE
    OBVIOUS
<1>1. i \in DOMAIN b.order_locations
    BY DEF InReach, RestingMap
<1>2. PICK s \in Sides, p \in Prices, k \in Nat : At(b, i, s, p, k)
    BY <1>1, Places DEF PlacesAgree
<1>3. s = Opposite(o.side) /\ Crosses(o, p)
    BY <1>2, ReachAt
<1>4. p \in DOMAIN b.levels[s]
    BY <1>2 DEF At, Queue
<1> QED
    BY <1>3, <1>4

\* A post-only order that is accepted crosses no level of the other side.
LEMMA PostOnlyAccepted ==
    ASSUME NEW b, IsBook(b), NEW o \in Orders, o.order_type = "post_only",
           PlaceRejection(b, o) = "none"
    PROVE  \A q \in DOMAIN b.levels[Opposite(o.side)] : ~Crosses(o, q)
<1>1. ~post_only_crosses(b, o)
    BY DEF PlaceRejection
<1>2. \A p \in Prices : ~Matchable(b, o, 1, p)
    BY <1>1 DEF Matchable, post_only_crosses, IsBest
<1> QED
    BY <1>2, NothingMatchable

\* An order the book accepts is new to it, and finds nobody if it is post-only.
LEMMA AcceptedEnters ==
    ASSUME NEW b, IsSound(b), NEW o \in Orders, PlaceRejection(b, o) = "none"
    PROVE  /\ o.order_id \notin DOMAIN RestingMap(b)
           /\ o.order_type = "post_only" => InReach(b, o) = {}
<1>1. o.order_id \notin DOMAIN RestingMap(b)
    BY AcceptedMeans DEF contains_order, RestingMap
<1> QED
    BY <1>1, PostOnlyAccepted, NobodyInReach DEF IsSound

\* The front order of the best level is first in line.
LEMMA FrontIsFirst ==
    ASSUME NEW b, IsSound(b), NEW o \in Orders, NEW left \in 0 .. MaxQuantity,
           NEW p \in Prices, Matchable(b, o, left, p)
    PROVE  LET s == Opposite(o.side)
               r == Queue(b, s, p)[1]
           IN  /\ s \in Sides
               /\ Len(Queue(b, s, p)) \in Nat \ {0} /\ Queue(b, s, p) # <<>>
               /\ r \in RestingOrders
               /\ Head(b.levels[s][p]) = r
               /\ FirstInLine(b, o, r.order_id)
               /\ RestingMap(b)[r.order_id].remaining_quantity
                    = r.remaining_quantity
<1> DEFINE s == Opposite(o.side)
           q == Queue(b, s, p)
           r == q[1]
           i == r.order_id
<1>1. /\ s \in Sides /\ p \in DOMAIN b.levels[s]
      /\ Head(b.levels[s][p]) = b.levels[s][p][1]
      /\ Head(b.levels[s][p]) \in RestingOrders
    BY MatchableFacts DEF IsSound
<1>2. /\ Crosses(o, p) /\ q = b.levels[s][p]
      /\ \A x \in DOMAIN b.levels[s] \ {p} : Better(s, p, x)
    BY <1>1 DEF Matchable, IsBest, Queue
<1>3. PlacesAgree(b)
    BY Places
<1>4. Len(q) \in Nat \ {0} /\ q # <<>>
  <2>1. IsDequeAt(b.levels[s][p], b.order_locations, s, p)
      BY <1>1, DequeFacts DEF IsSound
  <2> HIDE DEF q, s
  <2> QED
      BY <1>2, <2>1 DEF IsDequeAt
<1>5. r \in RestingOrders /\ Head(b.levels[s][p]) = r
    BY <1>1, <1>2
<1> HIDE DEF q, s
<1>6. At(b, i, s, p, 1)
    BY <1>4 DEF At, q
<1>7. /\ i \in DOMAIN RestingMap(b)
      /\ i \in InReach(b, o)
      /\ RestingMap(b)[i].side = s /\ RestingMap(b)[i].price = p
    BY <1>1, <1>2, <1>6, ReachAt, SMTT(30) DEF s
<1>8. RestingMap(b)[i].remaining_quantity = r.remaining_quantity
  <2>1. RestingMap(b)[i] = EntryOf(s, p, r)
      BY <1>1, <1>6, RestingAt DEF q
  <2> QED
      BY <2>1 DEF EntryOf
<1>9. ASSUME NEW j \in InReach(b, o), ServedBefore(b, o, j, i) PROVE FALSE
  <2>1. j \in DOMAIN b.order_locations
      BY DEF InReach, RestingMap
  <2>2. PICK t \in Sides, x \in Prices, m \in Nat : At(b, j, t, x, m)
      BY <1>3, <2>1 DEF PlacesAgree
  <2>3. t = s /\ RestingMap(b)[j].price = x /\ x \in DOMAIN b.levels[s]
    <3>1. /\ RestingMap(b)[j].price = x
          /\ j \in InReach(b, o) => t = Opposite(o.side)
        BY <2>2, ReachAt
    <3> QED
        BY <1>9, <2>2, <3>1 DEF At, Queue, s
  <2>4. <<j, i>> \notin ArrivalOrder(b)
    <3> SUFFICES ASSUME <<j, i>> \in ArrivalOrder(b) PROVE FALSE
        OBVIOUS
    <3>1. PICK t2 \in Sides, x2 \in Prices, m2 \in Nat, n2 \in Nat :
            m2 < n2 /\ At(b, j, t2, x2, m2) /\ At(b, i, t2, x2, n2)
        BY ArrivalAt
    <3>2. t2 = s /\ x2 = p
      <4>1. RestingMap(b)[i].side = t2 /\ RestingMap(b)[i].price = x2
          BY <3>1, ReachAt, SMTT(30)
      <4> QED
          BY <1>7, <4>1
    <3>3. n2 = 1
        BY <1>1, <1>6, <3>1, <3>2, OnePlace
    <3> QED
        BY <3>1, <3>3 DEF At
  <2>5. x \in Nat /\ p \in Nat /\ o.side \in Sides
      BY BookAssumption DEF Prices, Orders
  <2>6. x = p \/ Better(s, p, x)
      BY <1>2, <2>3
  <2>7. \/ o.side = "buy" /\ x < p
        \/ o.side = "sell" /\ x > p
      BY <1>7, <1>9, <2>3, <2>4 DEF ServedBefore
  <2> QED
      BY <2>5, <2>6, <2>7 DEF Better, s, Opposite, Sides
<1>10. FirstInLine(b, o, i)
    BY <1>7, <1>9 DEF FirstInLine
<1> QED
    BY <1>1, <1>4, <1>5, <1>8, <1>10 DEF q, s

\* What one execution of `left` units with i does to the resting orders, and
\* what it leaves of the incoming order.
TradedWith(b2, b, i, left, rest) ==
    LET quantity == RestingMap(b)[i].remaining_quantity
    IN  \/ /\ left < quantity
           /\ RestingMap(b2) =
                [RestingMap(b) EXCEPT ![i].remaining_quantity = @ - left]
           /\ ArrivalOrder(b2) = ArrivalOrder(b)
           /\ rest = 0
        \/ /\ left >= quantity
           /\ Leaves(b2, b, i)
           /\ rest = left - quantity

\* An iteration of the matching loop trades with the order that is first in line.
LEMMA ExecuteRefines ==
    ASSUME NEW b, IsSound(b), NEW o \in Orders, NEW left \in 0 .. MaxQuantity,
           NEW p \in Prices, Matchable(b, o, left, p),
           NEW b2, IsSound(b2), b2 = Execute(b, o, left, p)
    PROVE  \E i \in DOMAIN RestingMap(b) :
              /\ FirstInLine(b, o, i)
              /\ TradedWith(b2, b, i, left,
                            left - TradeOf(b, o, left, p).quantity)
<1> DEFINE s == Opposite(o.side)
           q == Queue(b, s, p)
           r == q[1]
           i == r.order_id
           rest == left - TradeOf(b, o, left, p).quantity
<1>1. /\ s \in Sides /\ Len(q) \in Nat \ {0} /\ q # <<>>
      /\ r \in RestingOrders
      /\ Head(b.levels[s][p]) = r
      /\ FirstInLine(b, o, i)
      /\ RestingMap(b)[i].remaining_quantity = r.remaining_quantity
    BY FrontIsFirst
<1>2. r.remaining_quantity \in Nat /\ left \in Nat
    BY <1>1, BookAssumption DEF RestingOrders, Quantities
<1>3. rest = left - ExecutedQuantity(r, left)
    BY <1>1 DEF TradeOf
<1>4. i \in DOMAIN RestingMap(b)
    BY <1>1 DEF FirstInLine, InReach
<1> HIDE DEF q, s, rest
<1>5. CASE left < r.remaining_quantity
  <2>1. PICK d : /\ IsReduced(d, q, r.remaining_quantity - left)
                 /\ IsReplaced(b2, b, s, p, d, b.order_locations,
                               b.next_execution_id + 1)
      BY <1>5, ReducedBook DEF q, s
  <2>2. /\ RestingMap(b2) = [RestingMap(b) EXCEPT
              ![i].remaining_quantity = r.remaining_quantity - left]
        /\ ArrivalOrder(b2) = ArrivalOrder(b)
    <3> DEFINE v == r.remaining_quantity - left
               n == b.next_execution_id + 1
    <3>1. /\ s \in Sides /\ Queue(b, s, p) # <<>>
          /\ IsReduced(d, Queue(b, s, p), v)
          /\ IsReplaced(b2, b, s, p, d, b.order_locations, n)
        BY <1>1, <2>1 DEF q
    <3> HIDE DEF v, n
    <3>2. /\ RestingMap(b2) =
               [RestingMap(b) EXCEPT
                  ![Queue(b, s, p)[1].order_id].remaining_quantity = v]
          /\ ArrivalOrder(b2) = ArrivalOrder(b)
        BY <3>1, ReduceRefines
    <3> QED
        BY <3>2 DEF v, q
  <2>3. rest = 0
      BY <1>2, <1>3, <1>5 DEF ExecutedQuantity
  <2>4. RestingMap(b2) = [RestingMap(b) EXCEPT
              ![i].remaining_quantity = @ - left]
      BY <1>1, <1>4, <2>2
  <2> QED
      BY <1>1, <1>4, <1>5, <2>2, <2>3, <2>4 DEF TradedWith, rest
<1>6. CASE ~(left < r.remaining_quantity)
  <2>1. left >= r.remaining_quantity
      BY <1>2, <1>6
  <2>2. PICK d : /\ IsWithout(d, q, 1)
                 /\ IsReplaced(b2, b, s, p, d, Without(b.order_locations, i),
                               b.next_execution_id + 1)
      BY <2>1, FilledBook DEF q, s
  <2>3. Leaves(b2, b, i)
    <3>1. /\ 1 \in 1 .. Len(Queue(b, s, p))
          /\ i = Queue(b, s, p)[1].order_id
          /\ IsWithout(d, Queue(b, s, p), 1)
        BY <1>1, <2>2 DEF q
    <3> HIDE DEF i
    <3> QED
        BY <1>1, <2>2, <3>1, DropRefines
  <2>4. rest = left - r.remaining_quantity
      BY <1>2, <1>3, <2>1 DEF ExecutedQuantity
  <2> QED
      BY <1>1, <1>4, <2>1, <2>3, <2>4 DEF TradedWith, rest
<1> QED
    BY <1>5, <1>6

\* The loops have ended: nobody is in reach of what is left.
LEMMA LoopsEnd ==
    ASSUME NEW b, IsSound(b), NEW o \in Orders, NEW left \in 0 .. MaxQuantity,
           \A p \in Prices : ~Matchable(b, o, left, p)
    PROVE  left = 0 \/ InReach(b, o) = {}
<1>1. left # 0 => left \in Nat \ {0}
    BY BookAssumption
<1> QED
    BY <1>1, NothingMatchable, NobodyInReach DEF IsSound

\* The entry of the remainder of o.
Remainder(o, left) ==
    [order_id |-> o.order_id, remaining_quantity |-> left,
     order_type |-> o.order_type, account_id |-> o.account_id]

\* The remainder of a limit or post-only order joins behind everyone at its
\* price; any other remainder leaves no trace.
LEMMA RestRefines ==
    ASSUME NEW b, IsSound(b), NEW o \in Orders, NEW left \in 0 .. MaxQuantity,
           o.order_id \notin DOMAIN b.order_locations,
           NEW b2, IsSound(b2), b2 = Rest(b, o, left)
    PROVE  IF o.order_type \in RestingTypes /\ left > 0
           THEN Joins(b2, b, o.side, o.price, Remainder(o, left))
           ELSE b2 = b
<1>1. CASE o.order_type \in RestingTypes /\ left > 0
  <2> DEFINE r == Remainder(o, left)
  <2>1. left \in 1 .. MaxQuantity
      BY <1>1, BookAssumption
  <2>2. /\ r \in RestingOrders /\ o.price \in Prices
        /\ \E locs2 :
             /\ DOMAIN locs2 = DOMAIN b.order_locations \cup {o.order_id}
             /\ IsReplaced(b2, b, o.side, o.price,
                           Append(Queue(b, o.side, o.price), r), locs2,
                           b.next_execution_id)
      BY <1>1, <2>1, RestedBook DEF Remainder, IsSound
  <2>3. PICK locs2 :
          /\ DOMAIN locs2 = DOMAIN b.order_locations \cup {o.order_id}
          /\ IsReplaced(b2, b, o.side, o.price,
                        Append(Queue(b, o.side, o.price), r), locs2,
                        b.next_execution_id)
      BY <2>2
  <2>4. o.side \in Sides /\ r.order_id = o.order_id
      BY DEF Orders, Remainder
  <2> HIDE DEF r
  <2>5. Joins(b2, b, o.side, o.price, r)
    <3>1. /\ r.order_id \notin DOMAIN b.order_locations
          /\ DOMAIN locs2 = DOMAIN b.order_locations \cup {r.order_id}
        BY <2>3, <2>4
    <3> QED
        BY <2>2, <2>3, <2>4, <3>1, AppendRefines
  <2> QED
      BY <1>1, <2>5 DEF r
<1>2. CASE ~(o.order_type \in RestingTypes /\ left > 0)
  <2>1. o.order_type \notin RestingTypes \/ left = 0
      BY <1>2, BookAssumption
  <2> QED
      BY <1>2, <2>1 DEF Rest
<1> QED
    BY <1>1, <1>2

\* A cancellation takes the order it names out and moves nobody else.
LEMMA CancelRefines ==
    ASSUME NEW b, IsSound(b), NEW id \in DOMAIN b.order_locations,
           NEW b2, IsSound(b2), b2 = CancelIn(b, id)
    PROVE  id \in DOMAIN RestingMap(b) /\ Leaves(b2, b, id)
<1> DEFINE loc == b.order_locations[id]
           s   == loc.side
           p   == loc.price
           q   == b.levels[s][p]
           k   == PositionIn(q, id)
<1>1. s \in Sides /\ p \in Prices
    BY DEF IsSound, IsBook, IsIndex, Locations
<1>2. /\ p \in DOMAIN b.levels[s]
      /\ k \in 1 .. Len(q) /\ q[k].order_id = id
    BY IndexedEntry DEF IsSound
<1>3. PICK d : /\ IsWithout(d, q, k)
               /\ IsReplaced(b2, b, s, p, d, Without(b.order_locations, id),
                             b.next_execution_id)
    BY CanceledBook DEF IsSound
<1> HIDE DEF s, p, k
<1>4. Queue(b, s, p) = q
    BY <1>2 DEF Queue
<1> HIDE DEF q
<1>5. Leaves(b2, b, id)
    BY <1>1, <1>2, <1>3, <1>4, DropRefines
<1>6. id \in DOMAIN RestingMap(b)
    BY DEF RestingMap
<1> QED
    BY <1>5, <1>6

\* An empty book holds nothing.
LEMMA EmptyMaps ==
    /\ DOMAIN RestingMap(EmptyBook) = {}
    /\ \A x : RestingMap(EmptyBook) = [i \in {} |-> x]
    /\ ArrivalOrder(EmptyBook) = {}
<1>1. /\ DOMAIN EmptyBook.order_locations = {}
      /\ \A s \in Sides : DOMAIN EmptyBook.levels[s] = {}
    BY DEF EmptyBook
<1>2. DOMAIN RestingMap(EmptyBook) = {}
    BY <1>1 DEF RestingMap
<1>3. \A x : RestingMap(EmptyBook) = [i \in {} |-> x]
    BY <1>1 DEF RestingMap
<1>4. ArrivalOrder(EmptyBook) = {}
    BY <1>1 DEF ArrivalOrder, Precedes
<1> QED
    BY <1>2, <1>3, <1>4

=============================================================================
