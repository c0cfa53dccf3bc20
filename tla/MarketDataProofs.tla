-------------------------- MODULE MarketDataProofs --------------------------
(***************************************************************************)
(* Proofs of the properties of MarketData for every set of ids and         *)
(* accounts and every bound.                                               *)
(*                                                                         *)
(* The publisher sees the book only through the events.  The invariant     *)
(* says what the events not delivered yet will make of the tracked orders: *)
(* replayed one after the other they lead to the orders the book has open  *)
(* now, the one it is matching included.  Each of them fits the orders it  *)
(* will meet: it accepts an id that is not tracked and trades no more than *)
(* what remains.  Hence no aggregate falls below the orders of its level.  *)
(***************************************************************************)
EXTENDS MarketData, OrderBookProofs

----------------------------------------------------------------------------
(* Tracked orders                                                           *)

TrackedOrders == [side: Sides, price: Prices, remaining_quantity: Quantities]

\* The type of orders_.
IsTracked(T) ==
    /\ DOMAIN T \subseteq OrderIds
    /\ IsFiniteSet(DOMAIN T)
    /\ T \in [DOMAIN T -> TrackedOrders]

\* The orders of T at a level and what they add up to.
Standing(T, s, p) == {i \in DOMAIN T : T[i].side = s /\ T[i].price = p}
Lefts(T) == [i \in DOMAIN T |-> T[i].remaining_quantity]
Held(T, s, p) == SumFunctionOnSet(Lefts(T), Standing(T, s, p))

\* What the events do to the tracked orders.
Joined(T, o) ==
    [i \in DOMAIN T \cup {o.order_id} |->
        IF i = o.order_id
        THEN [side |-> o.side, price |-> o.price, remaining_quantity |-> o.quantity]
        ELSE T[i]]

Reduced(T, id, n) == [T EXCEPT ![id].remaining_quantity = @ - n]

Filled(T, id, n) ==
    IF id \notin DOMAIN T THEN T
    ELSE IF T[id].remaining_quantity = n THEN Without(T, id)
    ELSE Reduced(T, id, n)

Track(T, e) ==
    CASE e.kind = "accepted" /\ e.order.order_type \in RestingTypes
           -> Joined(T, e.order)
      [] e.kind = "trade"
           -> Filled(Filled(T, e.incoming_order_id, e.quantity),
                     e.resting_order_id, e.quantity)
      [] e.kind = "canceled" -> Without(T, e.order_id)
      [] OTHER -> T

\* The order has no less left than what is taken.
Affords(T, id, n) == id \in DOMAIN T => n <= T[id].remaining_quantity

\* The event makes sense for the tracked orders it meets.
Fits(T, e) ==
    /\ (e.kind = "accepted" /\ e.order.order_type \in RestingTypes)
          => e.order.order_id \notin DOMAIN T
    /\ e.kind = "trade"
          => /\ e.incoming_order_id # e.resting_order_id
             /\ Affords(T, e.incoming_order_id, e.quantity)
             /\ Affords(T, e.resting_order_id, e.quantity)

\* A typed map of orders has typed sums.
LEMMA HeldType ==
    ASSUME NEW T, IsTracked(T), NEW s, NEW p
    PROVE  /\ IsFiniteSet(Standing(T, s, p))
           /\ \A i \in Standing(T, s, p) : Lefts(T)[i] \in Nat /\ Lefts(T)[i] \in Int
           /\ Held(T, s, p) \in Nat
<1> DEFINE S == Standing(T, s, p)
           f == Lefts(T)
<1>1. IsFiniteSet(S)
  <2>1. S \subseteq DOMAIN T
      BY DEF Standing
  <2> QED
      BY <2>1, FS_Subset DEF IsTracked
<1>2. \A i \in S : f[i] \in Nat /\ f[i] \in Int
    BY DEF Standing, Lefts, IsTracked, TrackedOrders, Quantities
<1> HIDE DEF S, f
<1>3. SumFunctionOnSet(f, S) \in Nat
    BY <1>1, <1>2, SumType
<1> QED
    BY <1>1, <1>2, <1>3 DEF Held, S, f

\* A new order adds its quantity to its level.
LEMMA HeldJoined ==
    ASSUME NEW T, IsTracked(T), NEW o \in Orders, o.order_type \in RestingTypes,
           o.order_id \notin DOMAIN T
    PROVE  LET T2 == Joined(T, o)
           IN  /\ IsTracked(T2)
               /\ o.side \in Sides /\ o.price \in Prices /\ o.quantity \in Nat
               /\ Held(T2, o.side, o.price) = Held(T, o.side, o.price) + o.quantity
               /\ \A s, p : (s # o.side \/ p # o.price)
                    => Held(T2, s, p) = Held(T, s, p)
<1> DEFINE T2 == Joined(T, o)
           id == o.order_id
<1>1. /\ id \in OrderIds /\ o.side \in Sides /\ o.price \in Prices
      /\ o.quantity \in Quantities /\ o.quantity \in Nat
    BY BookAssumption DEF Orders, RestingTypes, Prices, Quantities
<1>2. /\ DOMAIN T2 = DOMAIN T \cup {id}
      /\ \A i \in DOMAIN T : T2[i] = T[i]
      /\ T2[id] = [side |-> o.side, price |-> o.price,
                   remaining_quantity |-> o.quantity]
      /\ T2 = [i \in DOMAIN T2 |-> T2[i]]
    BY DEF Joined
<1> HIDE DEF T2, id
<1>3. IsTracked(T2)
  <2>1. IsFiniteSet(DOMAIN T2)
      BY <1>2, FS_AddElement DEF IsTracked
  <2>2. \A i \in DOMAIN T2 : T2[i] \in TrackedOrders
      BY <1>1, <1>2 DEF IsTracked, TrackedOrders
  <2> QED
      BY <1>1, <1>2, <2>1, <2>2 DEF IsTracked
<1>4. ASSUME NEW s, NEW p
      PROVE  \A i \in Standing(T, s, p) : Lefts(T)[i] = Lefts(T2)[i]
    BY <1>2 DEF Standing, Lefts
<1>5. Held(T2, o.side, o.price) = Held(T, o.side, o.price) + o.quantity
  <2> DEFINE S == Standing(T, o.side, o.price)
             g == Lefts(T2)
  <2>1. Standing(T2, o.side, o.price) = S \cup {id} /\ id \notin S
      BY <1>2 DEF Standing, id
  <2>2. g[id] = o.quantity
      BY <1>2 DEF Lefts
  <2>3. IsFiniteSet(S) /\ \A i \in S : g[i] \in Int /\ Lefts(T)[i] = g[i]
      BY <1>4, HeldType
  <2> HIDE DEF S, g
  <2>4. SumFunctionOnSet(g, S \cup {id}) = SumFunctionOnSet(g, S) + g[id]
      BY <1>1, <2>1, <2>2, <2>3, SumAdd
  <2>5. SumFunctionOnSet(Lefts(T), S) = SumFunctionOnSet(g, S)
      BY <2>3, SumAgree
  <2> QED
      BY <2>1, <2>2, <2>4, <2>5 DEF Held, S, g
<1>6. ASSUME NEW s, NEW p, s # o.side \/ p # o.price
      PROVE  Held(T2, s, p) = Held(T, s, p)
  <2>1. Standing(T2, s, p) = Standing(T, s, p)
      BY <1>2, <1>6 DEF Standing
  <2>2. IsFiniteSet(Standing(T, s, p))
      BY HeldType
  <2>3. SumFunctionOnSet(Lefts(T), Standing(T, s, p))
          = SumFunctionOnSet(Lefts(T2), Standing(T, s, p))
      BY <1>4, <2>2, SumAgree
  <2> QED
      BY <2>1, <2>3 DEF Held
<1> QED
    BY <1>1, <1>3, <1>5, <1>6 DEF T2

\* An order that leaves takes what it had left.
LEMMA HeldWithout ==
    ASSUME NEW T, IsTracked(T), NEW id \in DOMAIN T
    PROVE  LET T2 == Without(T, id)
               x  == T[id]
           IN  /\ IsTracked(T2)
               /\ x.side \in Sides /\ x.price \in Prices
               /\ x.remaining_quantity \in Nat
               /\ Held(T2, x.side, x.price) =
                    Held(T, x.side, x.price) - x.remaining_quantity
               /\ \A s, p : (s # x.side \/ p # x.price)
                    => Held(T2, s, p) = Held(T, s, p)
<1> DEFINE T2 == Without(T, id)
           x == T[id]
<1>1. /\ x.side \in Sides /\ x.price \in Prices /\ x.remaining_quantity \in Nat
    BY DEF IsTracked, TrackedOrders, Quantities
<1>2. /\ DOMAIN T2 = DOMAIN T \ {id}
      /\ \A i \in DOMAIN T2 : T2[i] = T[i]
      /\ T2 = [i \in DOMAIN T2 |-> T2[i]]
    BY DEF Without
<1> HIDE DEF T2
<1>3. IsTracked(T2)
  <2>1. IsFiniteSet(DOMAIN T2)
      BY <1>2, FS_RemoveElement DEF IsTracked
  <2>2. \A i \in DOMAIN T2 : T2[i] \in TrackedOrders
      BY <1>2 DEF IsTracked
  <2> QED
      BY <1>2, <2>1, <2>2 DEF IsTracked
<1>4. ASSUME NEW s, NEW p
      PROVE  \A i \in Standing(T2, s, p) : Lefts(T)[i] = Lefts(T2)[i]
    BY <1>2 DEF Standing, Lefts
<1>5. Held(T2, x.side, x.price) = Held(T, x.side, x.price) - x.remaining_quantity
  <2> DEFINE S == Standing(T, x.side, x.price)
             f == Lefts(T)
             U == Standing(T2, x.side, x.price)
  <2>1. U = S \ {id} /\ id \in S
      BY <1>2 DEF Standing
  <2>2. f[id] = x.remaining_quantity
      BY DEF Lefts
  <2>3. /\ IsFiniteSet(S) /\ \A i \in S : f[i] \in Int
        /\ Held(T, x.side, x.price) \in Nat
      BY HeldType
  <2>4. /\ IsFiniteSet(U) /\ \A i \in U : f[i] = Lefts(T2)[i]
        /\ Held(T2, x.side, x.price) \in Nat
      BY <1>3, <1>4, HeldType
  <2> HIDE DEF S, f, U, x
  <2>5. SumFunctionOnSet(f, S) = f[id] + SumFunctionOnSet(f, S \ {id})
      BY <2>1, <2>3, SumRemove
  <2>6. SumFunctionOnSet(f, U) = SumFunctionOnSet(Lefts(T2), U)
      BY <2>4, SumAgree
  <2>7. Held(T, x.side, x.price) = x.remaining_quantity + Held(T2, x.side, x.price)
      BY <2>1, <2>2, <2>5, <2>6 DEF Held, S, f, U
  <2> QED
      BY <1>1, <2>3, <2>4, <2>7
<1>6. ASSUME NEW s, NEW p, s # x.side \/ p # x.price
      PROVE  Held(T2, s, p) = Held(T, s, p)
  <2>1. Standing(T2, s, p) = Standing(T, s, p)
      BY <1>2, <1>6 DEF Standing
  <2>2. IsFiniteSet(Standing(T2, s, p))
      BY <1>3, HeldType
  <2>3. SumFunctionOnSet(Lefts(T), Standing(T2, s, p))
          = SumFunctionOnSet(Lefts(T2), Standing(T2, s, p))
      BY <1>4, <2>2, SumAgree
  <2> QED
      BY <2>1, <2>3 DEF Held
<1> QED
    BY <1>1, <1>3, <1>5, <1>6 DEF T2

\* A partial fill takes what it fills.
LEMMA HeldReduced ==
    ASSUME NEW T, IsTracked(T), NEW id \in DOMAIN T, NEW n \in Nat,
           n < T[id].remaining_quantity
    PROVE  LET T2 == Reduced(T, id, n)
               x  == T[id]
           IN  /\ IsTracked(T2)
               /\ x.side \in Sides /\ x.price \in Prices
               /\ Held(T2, x.side, x.price) = Held(T, x.side, x.price) - n
               /\ \A s, p : (s # x.side \/ p # x.price)
                    => Held(T2, s, p) = Held(T, s, p)
<1> DEFINE T2 == Reduced(T, id, n)
           x == T[id]
<1>1. /\ x.side \in Sides /\ x.price \in Prices
      /\ x.remaining_quantity \in 1 .. MaxQuantity
      /\ x.remaining_quantity - n \in 1 .. MaxQuantity
    BY BookAssumption DEF IsTracked, TrackedOrders, Quantities
<1>2. /\ DOMAIN T2 = DOMAIN T
      /\ \A i \in DOMAIN T \ {id} : T2[i] = T[i]
      /\ T2[id] = [side |-> x.side, price |-> x.price,
                   remaining_quantity |-> x.remaining_quantity - n]
      /\ T2 = [i \in DOMAIN T2 |-> T2[i]]
    BY DEF Reduced, IsTracked, TrackedOrders
<1> HIDE DEF T2
<1>3. IsTracked(T2)
  <2>1. \A i \in DOMAIN T2 : T2[i] \in TrackedOrders
    <3>1. \A i \in DOMAIN T : T[i] \in TrackedOrders
        BY DEF IsTracked
    <3>2. T2[id] \in TrackedOrders
      <4> HIDE DEF x
      <4> QED
          BY <1>1, <1>2 DEF TrackedOrders, Quantities
    <3> QED
        BY <1>2, <3>1, <3>2
  <2> QED
      BY <1>2, <2>1 DEF IsTracked
<1>4. ASSUME NEW s, NEW p
      PROVE  /\ Standing(T2, s, p) = Standing(T, s, p)
             /\ IsFiniteSet(Standing(T, s, p))
             /\ \A i \in Standing(T, s, p) : Lefts(T)[i] \in Int
             /\ \A i \in Standing(T, s, p) \ {id} : Lefts(T2)[i] = Lefts(T)[i]
  <2>1. \A i \in DOMAIN T : T2[i].side = T[i].side /\ T2[i].price = T[i].price
      BY <1>2
  <2>2. Standing(T2, s, p) = Standing(T, s, p)
      BY <1>2, <2>1 DEF Standing
  <2>3. \A i \in Standing(T, s, p) \ {id} : Lefts(T2)[i] = Lefts(T)[i]
      BY <1>2 DEF Standing, Lefts
  <2> QED
      BY <2>2, <2>3, HeldType
<1>5. Held(T2, x.side, x.price) = Held(T, x.side, x.price) - n
  <2> DEFINE S == Standing(T, x.side, x.price)
             f == Lefts(T)
             g == Lefts(T2)
  <2>1. id \in S
      BY DEF Standing
  <2>2. /\ f[id] = x.remaining_quantity
        /\ g[id] = x.remaining_quantity - n
      BY <1>2 DEF Lefts
  <2>3. Held(T, x.side, x.price) \in Nat
      BY HeldType
  <2>4. /\ IsFiniteSet(S) /\ Standing(T2, x.side, x.price) = S
        /\ \A i \in S : f[i] \in Int
        /\ \A i \in S \ {id} : g[i] = f[i]
      BY <1>4
  <2> HIDE DEF S, f, g, x
  <2>5. SumFunctionOnSet(g, S) = SumFunctionOnSet(f, S) - f[id] + g[id]
      BY <1>1, <2>1, <2>2, <2>4, SumChange
  <2>6. /\ Held(T2, x.side, x.price) = SumFunctionOnSet(g, S)
        /\ Held(T, x.side, x.price) = SumFunctionOnSet(f, S)
      BY <2>4 DEF Held, S, f, g
  <2> QED
      BY <1>1, <2>2, <2>3, <2>5, <2>6
<1>6. ASSUME NEW s, NEW p, s # x.side \/ p # x.price
      PROVE  Held(T2, s, p) = Held(T, s, p)
  <2>0. id \notin Standing(T, s, p)
      BY <1>6 DEF Standing
  <2>1. /\ Standing(T2, s, p) = Standing(T, s, p)
        /\ IsFiniteSet(Standing(T, s, p))
        /\ \A i \in Standing(T, s, p) : Lefts(T2)[i] = Lefts(T)[i]
      BY <1>4, <2>0
  <2>2. SumFunctionOnSet(Lefts(T2), Standing(T, s, p))
          = SumFunctionOnSet(Lefts(T), Standing(T, s, p))
      BY <2>1, SumAgree
  <2> QED
      BY <2>1, <2>2 DEF Held
<1> QED
    BY <1>1, <1>3, <1>5, <1>6 DEF T2

----------------------------------------------------------------------------
(* The publisher                                                            *)

\* The record the publisher is modelled by.
IsPublisher(m) ==
    /\ m = [orders |-> m.orders, level_quantities |-> m.level_quantities,
            batching |-> m.batching, pending_levels |-> m.pending_levels,
            view |-> m.view]
    /\ m.level_quantities \in [LevelKeys -> Int]
    /\ m.view \in [LevelKeys -> Int]
    /\ m.pending_levels \subseteq LevelKeys
    /\ IsTracked(m.orders)

\* The subscriber lacks the pending levels only, and none outside a batch.
Current(m) ==
    /\ \A l \in LevelKeys \ m.pending_levels : m.view[l] = m.level_quantities[l]
    /\ ~m.batching => m.pending_levels = {}

\* No aggregate is less than what the tracked orders of its level hold.
Covered(m) ==
    \A s \in Sides, p \in Prices :
        Held(m.orders, s, p) <= m.level_quantities[<<s, p>>]

PublisherOK(m) == IsPublisher(m) /\ Current(m) /\ Covered(m)

\* What one event may do to the publisher: the tracked orders are T, the batch
\* goes on, and inside a batch the subscriber is sent nothing.
Becomes(m2, m, T) ==
    /\ PublisherOK(m2)
    /\ m2.orders = T
    /\ m2.batching = m.batching
    /\ m.batching => m2.view = m.view

\* A level that changes with the orders standing there is noted or sent.
LEMMA LevelMoves ==
    ASSUME NEW m, PublisherOK(m), NEW T, IsTracked(T),
           NEW s \in Sides, NEW p \in Prices, NEW v \in Int,
           v - m.level_quantities[<<s, p>>] >=
               Held(T, s, p) - Held(m.orders, s, p),
           \A s2, p2 : (s2 # s \/ p2 # p)
               => Held(T, s2, p2) = Held(m.orders, s2, p2)
    PROVE  Becomes(emit_level([m EXCEPT !.orders = T,
                                        !.level_quantities[<<s, p>>] = v], <<s, p>>),
                   m, T)
<1> DEFINE l == <<s, p>>
           m1 == [m EXCEPT !.orders = T, !.level_quantities[l] = v]
           m2 == emit_level(m1, l)
           lq == [m.level_quantities EXCEPT ![l] = v]
<1>1. l \in LevelKeys
    BY DEF LevelKeys
<1>2. m1 = [orders |-> T, level_quantities |-> lq, batching |-> m.batching,
            pending_levels |-> m.pending_levels, view |-> m.view]
  <2>1. m = [orders |-> m.orders, level_quantities |-> m.level_quantities,
             batching |-> m.batching, pending_levels |-> m.pending_levels,
             view |-> m.view]
      BY DEF PublisherOK, IsPublisher
  <2> DEFINE m0 == [m EXCEPT !.orders = T]
  <2>2. m0 = [orders |-> T, level_quantities |-> m.level_quantities,
              batching |-> m.batching, pending_levels |-> m.pending_levels,
              view |-> m.view]
      BY <2>1
  <2>3. m1 = [m0 EXCEPT !.level_quantities[l] = v]
      BY <2>1
  <2> HIDE DEF m0, m1, l
  <2> QED
      BY <2>2, <2>3
<1>3. /\ lq \in [LevelKeys -> Int]
      /\ lq[l] = v
      /\ \A k \in LevelKeys \ {l} : lq[k] = m.level_quantities[k]
    BY <1>1 DEF PublisherOK, IsPublisher
<1>4. /\ m1.orders = T /\ m1.level_quantities = lq
      /\ m1.batching = m.batching /\ m1.view = m.view
      /\ m1.pending_levels = m.pending_levels
    BY <1>2
<1> HIDE DEF m1, lq
<1>5. \A s2 \in Sides, p2 \in Prices : Held(T, s2, p2) <= lq[<<s2, p2>>]
  <2> SUFFICES ASSUME NEW s2 \in Sides, NEW p2 \in Prices
               PROVE  Held(T, s2, p2) <= lq[<<s2, p2>>]
      OBVIOUS
  <2>1. <<s2, p2>> \in LevelKeys
      BY DEF LevelKeys
  <2>2. /\ Held(T, s2, p2) \in Nat /\ Held(m.orders, s2, p2) \in Nat
        /\ Held(m.orders, s2, p2) <= m.level_quantities[<<s2, p2>>]
        /\ m.level_quantities[<<s2, p2>>] \in Int
      BY <2>1, HeldType DEF PublisherOK, IsPublisher, Covered
  <2>3. CASE s2 = s /\ p2 = p
    <3>1. /\ Held(T, s, p) \in Nat /\ Held(m.orders, s, p) \in Nat
          /\ Held(m.orders, s, p) <= m.level_quantities[l]
          /\ m.level_quantities[l] \in Int
        BY <2>2, <2>3
    <3>2. Held(T, s, p) <= v
        BY <3>1
    <3> QED
        BY <1>3, <2>3, <3>2
  <2>4. CASE s2 # s \/ p2 # p
    <3>1. <<s2, p2>> # l
        BY <2>4
    <3>2. lq[<<s2, p2>>] = m.level_quantities[<<s2, p2>>]
        BY <1>3, <2>1, <3>1
    <3> QED
        BY <2>2, <2>4, <3>2
  <2> QED
      BY <2>3, <2>4
<1>6. CASE m.batching
  <2>1. m2 = [m1 EXCEPT !.pending_levels = m1.pending_levels \cup {l}]
      BY <1>4, <1>6 DEF emit_level
  <2>2. m2 = [orders |-> T, level_quantities |-> lq, batching |-> m.batching,
              pending_levels |-> m.pending_levels \cup {l}, view |-> m.view]
      BY <1>2, <1>4, <2>1
  <2> HIDE DEF m2, l
  <2>3. /\ m2.orders = T /\ m2.level_quantities = lq
        /\ m2.batching = m.batching /\ m2.view = m.view
        /\ m2.pending_levels = m.pending_levels \cup {l}
      BY <2>2
  <2>4. IsPublisher(m2)
      BY <1>1, <1>3, <2>2, <2>3 DEF IsPublisher, PublisherOK
  <2>5. Current(m2)
      BY <1>3, <1>6, <2>3 DEF Current, PublisherOK
  <2>6. Covered(m2)
      BY <1>5, <2>3 DEF Covered
  <2> QED
      BY <2>3, <2>4, <2>5, <2>6 DEF Becomes, PublisherOK, m2, m1, l
<1>7. CASE ~m.batching
  <2> DEFINE w == [m.view EXCEPT ![l] = v]
  <2>1. m2 = [m1 EXCEPT !.view[l] = v]
      BY <1>3, <1>4, <1>7 DEF emit_level
  <2>2. m2 = [orders |-> T, level_quantities |-> lq, batching |-> m.batching,
              pending_levels |-> m.pending_levels, view |-> w]
      BY <1>2, <1>4, <2>1
  <2>3. /\ w \in [LevelKeys -> Int] /\ w[l] = v
        /\ \A k \in LevelKeys \ {l} : w[k] = m.view[k]
      BY <1>1 DEF PublisherOK, IsPublisher
  <2> HIDE DEF m2, l, w
  <2>4. /\ m2.orders = T /\ m2.level_quantities = lq
        /\ m2.batching = m.batching /\ m2.view = w
        /\ m2.pending_levels = m.pending_levels
      BY <2>2
  <2>5. IsPublisher(m2)
      BY <1>3, <2>2, <2>3, <2>4 DEF IsPublisher, PublisherOK
  <2>6. Current(m2)
      BY <1>1, <1>3, <1>7, <2>3, <2>4 DEF Current, PublisherOK
  <2>7. Covered(m2)
      BY <1>5, <2>4 DEF Covered
  <2> QED
      BY <1>7, <2>4, <2>5, <2>6, <2>7 DEF Becomes, PublisherOK, m2, m1, l
<1> QED
    BY <1>6, <1>7

\* An accepted order that may rest joins its level.
LEMMA AddMoves ==
    ASSUME NEW m, PublisherOK(m), NEW o \in Orders, o.order_type \in RestingTypes,
           o.order_id \notin DOMAIN m.orders
    PROVE  Becomes(add_order(m, o), m, Joined(m.orders, o))
<1> DEFINE T == Joined(m.orders, o)
           s == o.side
           p == o.price
           q == m.level_quantities[<<s, p>>]
           v == q + o.quantity
<1>1. IsTracked(m.orders)
    BY DEF PublisherOK, IsPublisher
<1>2. /\ IsTracked(T) /\ s \in Sides /\ p \in Prices /\ o.quantity \in Nat
      /\ Held(T, s, p) = Held(m.orders, s, p) + o.quantity
      /\ \A s2, p2 : (s2 # s \/ p2 # p)
            => Held(T, s2, p2) = Held(m.orders, s2, p2)
    BY <1>1, HeldJoined
<1>3. Held(m.orders, s, p) \in Nat
    BY <1>1, HeldType
<1>4. q \in Int
  <2>1. <<s, p>> \in LevelKeys
      BY <1>2 DEF LevelKeys
  <2> QED
      BY <2>1 DEF PublisherOK, IsPublisher
<1>5. add_order(m, o) = emit_level([m EXCEPT !.orders = T,
                                     !.level_quantities[<<s, p>>] = v], <<s, p>>)
    BY DEF add_order, Joined
<1> HIDE DEF T, s, p, q
<1>6. v \in Int /\ v - q >= Held(T, s, p) - Held(m.orders, s, p)
    BY <1>2, <1>3, <1>4
<1> HIDE DEF v
<1>7. Becomes(emit_level([m EXCEPT !.orders = T,
                          !.level_quantities[<<s, p>>] = v], <<s, p>>), m, T)
    BY <1>2, <1>6, LevelMoves DEF q
<1> QED
    BY <1>5, <1>7 DEF T

\* An order that leaves takes what it had left from its level.
LEMMA EraseMoves ==
    ASSUME NEW m, PublisherOK(m), NEW id \in DOMAIN m.orders
    PROVE  LET x == m.orders[id]
               l == <<x.side, x.price>>
           IN  Becomes(emit_level([m EXCEPT !.orders = Without(m.orders, id),
                   !.level_quantities[l] =
                       m.level_quantities[l] - x.remaining_quantity], l),
                   m, Without(m.orders, id))
<1> DEFINE T == Without(m.orders, id)
           x == m.orders[id]
           s == x.side
           p == x.price
           n == x.remaining_quantity
           q == m.level_quantities[<<s, p>>]
           v == q - n
<1>1. IsTracked(m.orders)
    BY DEF PublisherOK, IsPublisher
<1>2. /\ IsTracked(T) /\ s \in Sides /\ p \in Prices /\ n \in Nat
      /\ Held(T, s, p) = Held(m.orders, s, p) - n
      /\ \A s2, p2 : (s2 # s \/ p2 # p)
            => Held(T, s2, p2) = Held(m.orders, s2, p2)
    BY <1>1, HeldWithout
<1>3. Held(m.orders, s, p) \in Nat
    BY <1>1, HeldType
<1>4. q \in Int
  <2>1. <<s, p>> \in LevelKeys
      BY <1>2 DEF LevelKeys
  <2> QED
      BY <2>1 DEF PublisherOK, IsPublisher
<1> HIDE DEF T, s, p, q, n
<1>5. v \in Int /\ v - q >= Held(T, s, p) - Held(m.orders, s, p)
    BY <1>2, <1>3, <1>4
<1> HIDE DEF v
<1>6. Becomes(emit_level([m EXCEPT !.orders = T,
                          !.level_quantities[<<s, p>>] = v], <<s, p>>), m, T)
    BY <1>2, <1>5, LevelMoves DEF q
<1> QED
    BY <1>6 DEF T, v, q, s, p, n

\* A partial fill takes what it fills from its level.
LEMMA ReduceMoves ==
    ASSUME NEW m, PublisherOK(m), NEW id \in DOMAIN m.orders, NEW n \in Nat,
           n < m.orders[id].remaining_quantity
    PROVE  LET x == m.orders[id]
               l == <<x.side, x.price>>
           IN  Becomes(emit_level([m EXCEPT !.orders = Reduced(m.orders, id, n),
                   !.level_quantities[l] = m.level_quantities[l] - n], l),
                   m, Reduced(m.orders, id, n))
<1> DEFINE T == Reduced(m.orders, id, n)
           x == m.orders[id]
           s == x.side
           p == x.price
           q == m.level_quantities[<<s, p>>]
           v == q - n
<1>1. IsTracked(m.orders)
    BY DEF PublisherOK, IsPublisher
<1>2. /\ IsTracked(T) /\ s \in Sides /\ p \in Prices
      /\ Held(T, s, p) = Held(m.orders, s, p) - n
      /\ \A s2, p2 : (s2 # s \/ p2 # p)
            => Held(T, s2, p2) = Held(m.orders, s2, p2)
    BY <1>1, HeldReduced
<1>3. Held(m.orders, s, p) \in Nat
    BY <1>1, HeldType
<1>4. q \in Int
  <2>1. <<s, p>> \in LevelKeys
      BY <1>2 DEF LevelKeys
  <2> QED
      BY <2>1 DEF PublisherOK, IsPublisher
<1> HIDE DEF T, s, p, q
<1>5. v \in Int /\ v - q >= Held(T, s, p) - Held(m.orders, s, p)
    BY <1>2, <1>3, <1>4
<1> HIDE DEF v
<1>6. Becomes(emit_level([m EXCEPT !.orders = T,
                          !.level_quantities[<<s, p>>] = v], <<s, p>>), m, T)
    BY <1>2, <1>5, LevelMoves DEF q
<1> QED
    BY <1>6 DEF T, v, q, s, p

\* The incoming order of a trade: its fill reaches the aggregate only when it
\* is the last.
LEMMA IncomingMoves ==
    ASSUME NEW m, PublisherOK(m), NEW t \in TradeEvents,
           Affords(m.orders, t.incoming_order_id, t.quantity)
    PROVE  Becomes(ApplyIncoming(m, t), m,
                   Filled(m.orders, t.incoming_order_id, t.quantity))
<1> DEFINE id == t.incoming_order_id
           n == t.quantity
           T == m.orders
           x == T[id]
           l == <<x.side, x.price>>
<1>1. n \in Nat
    BY DEF TradeEvents, Quantities
<1>2. CASE id \notin DOMAIN T
    BY <1>2 DEF ApplyIncoming, Filled, Becomes
<1>3. CASE id \in DOMAIN T /\ x.remaining_quantity = n
  <2>1. ApplyIncoming(m, t) =
          emit_level([m EXCEPT !.orders = Without(T, id),
              !.level_quantities[l] = m.level_quantities[l] - x.remaining_quantity], l)
      BY <1>3 DEF ApplyIncoming, Erase, LevelOf, Without
  <2>2. Becomes(emit_level([m EXCEPT !.orders = Without(T, id),
              !.level_quantities[l] = m.level_quantities[l] - x.remaining_quantity], l),
                m, Without(T, id))
      BY <1>3, EraseMoves
  <2>3. Filled(T, id, n) = Without(T, id)
      BY <1>3 DEF Filled
  <2> QED
      BY <2>1, <2>2, <2>3
<1>4. CASE id \in DOMAIN T /\ x.remaining_quantity # n
  <2> DEFINE T2 == Reduced(T, id, n)
             m2 == [m EXCEPT !.orders = T2]
  <2>1. ApplyIncoming(m, t) = m2 /\ Filled(T, id, n) = T2
      BY <1>4 DEF ApplyIncoming, Reduce, Reduced, Filled
  <2>2. IsTracked(T)
      BY DEF PublisherOK, IsPublisher
  <2>3. n < x.remaining_quantity
    <3>1. x.remaining_quantity \in Nat
        BY <1>4, <2>2, HeldWithout
    <3> QED
        BY <1>1, <1>4, <3>1 DEF Affords
  <2>4. /\ IsTracked(T2) /\ x.side \in Sides /\ x.price \in Prices
        /\ Held(T2, x.side, x.price) = Held(T, x.side, x.price) - n
        /\ \A s, p : (s # x.side \/ p # x.price)
              => Held(T2, s, p) = Held(T, s, p)
      BY <1>1, <1>4, <2>2, <2>3, HeldReduced
  <2> HIDE DEF T2
  <2>5. /\ m2.orders = T2 /\ m2.level_quantities = m.level_quantities
        /\ m2.batching = m.batching /\ m2.view = m.view
        /\ m2.pending_levels = m.pending_levels
        /\ m2 = [orders |-> m2.orders, level_quantities |-> m2.level_quantities,
                 batching |-> m2.batching, pending_levels |-> m2.pending_levels,
                 view |-> m2.view]
      BY DEF PublisherOK, IsPublisher
  <2> HIDE DEF m2
  <2>6. IsPublisher(m2) /\ Current(m2)
      BY <2>4, <2>5 DEF PublisherOK, IsPublisher, Current
  <2>7. Covered(m2)
    <3> SUFFICES ASSUME NEW s \in Sides, NEW p \in Prices
                 PROVE  Held(T2, s, p) <= m.level_quantities[<<s, p>>]
        BY <2>5 DEF Covered
    <3>1. <<s, p>> \in LevelKeys
        BY DEF LevelKeys
    <3>2. /\ Held(T, s, p) \in Nat /\ m.level_quantities[<<s, p>>] \in Int
          /\ Held(T, s, p) <= m.level_quantities[<<s, p>>]
        BY <2>2, <3>1, HeldType DEF PublisherOK, IsPublisher, Covered
    <3>3. Held(T2, s, p) \in Nat /\ Held(T2, s, p) <= Held(T, s, p)
      <4>1. Held(T2, s, p) \in Nat
          BY <2>4, HeldType
      <4>2. CASE s = x.side /\ p = x.price
        <5>1. Held(T2, s, p) = Held(T, s, p) - n
            BY <2>4, <4>2
        <5> QED
            BY <1>1, <3>2, <4>1, <5>1
      <4>3. CASE s # x.side \/ p # x.price
          BY <2>4, <3>2, <4>3
      <4> QED
          BY <4>1, <4>2, <4>3
    <3> QED
        BY <3>2, <3>3
  <2> QED
      BY <2>1, <2>5, <2>6, <2>7 DEF Becomes, PublisherOK
<1> QED
    BY <1>2, <1>3, <1>4

\* The resting order of a trade.
LEMMA RestingMoves ==
    ASSUME NEW m, PublisherOK(m), NEW t \in TradeEvents,
           Affords(m.orders, t.resting_order_id, t.quantity)
    PROVE  Becomes(ApplyResting(m, t), m,
                   Filled(m.orders, t.resting_order_id, t.quantity))
<1> DEFINE id == t.resting_order_id
           n == t.quantity
           T == m.orders
           x == T[id]
           l == <<x.side, x.price>>
<1>1. n \in Nat
    BY DEF TradeEvents, Quantities
<1>2. CASE id \notin DOMAIN T
    BY <1>2 DEF ApplyResting, Filled, Becomes
<1>3. CASE id \in DOMAIN T /\ x.remaining_quantity = n
  <2>1. ApplyResting(m, t) =
          emit_level([m EXCEPT !.orders = Without(T, id),
              !.level_quantities[l] = m.level_quantities[l] - x.remaining_quantity], l)
      BY <1>3 DEF ApplyResting, Erase, LevelOf, Without
  <2>2. Becomes(emit_level([m EXCEPT !.orders = Without(T, id),
              !.level_quantities[l] = m.level_quantities[l] - x.remaining_quantity], l),
                m, Without(T, id))
      BY <1>3, EraseMoves
  <2>3. Filled(T, id, n) = Without(T, id)
      BY <1>3 DEF Filled
  <2> QED
      BY <2>1, <2>2, <2>3
<1>4. CASE id \in DOMAIN T /\ x.remaining_quantity # n
  <2>1. ApplyResting(m, t) =
          emit_level([m EXCEPT !.orders = Reduced(T, id, n),
              !.level_quantities[l] = m.level_quantities[l] - n], l)
      BY <1>4 DEF ApplyResting, Reduce, LevelOf, Reduced
  <2>2. n < x.remaining_quantity
    <3>1. IsTracked(T)
        BY DEF PublisherOK, IsPublisher
    <3>2. x.remaining_quantity \in Nat
        BY <1>4, <3>1, HeldWithout
    <3> QED
        BY <1>1, <1>4, <3>2 DEF Affords
  <2>3. Becomes(emit_level([m EXCEPT !.orders = Reduced(T, id, n),
              !.level_quantities[l] = m.level_quantities[l] - n], l),
                m, Reduced(T, id, n))
      BY <1>1, <1>4, <2>2, ReduceMoves
  <2>4. Filled(T, id, n) = Reduced(T, id, n)
      BY <1>4 DEF Filled
  <2> QED
      BY <2>1, <2>3, <2>4
<1> QED
    BY <1>2, <1>3, <1>4

\* An event that fits leaves the publisher in order.
LEMMA EventMoves ==
    ASSUME NEW m, PublisherOK(m), NEW e \in Events, Fits(m.orders, e)
    PROVE  Becomes(on_event(m, e), m, Track(m.orders, e))
<1> DEFINE T == m.orders
<1>0. Becomes(m, m, T) /\ IsTracked(T)
    BY DEF Becomes, PublisherOK, IsPublisher
<1>1. CASE e.kind = "accepted"
  <2>1. e.order \in Orders
      BY <1>1 DEF Events, TradeEvents, CanceledEvents
  <2>2. on_event(m, e) = add_order(m, e.order)
      BY <1>1 DEF on_event
  <2>3. CASE e.order.order_type \in RestingTypes
    <3>1. Track(T, e) = Joined(T, e.order)
        BY <1>1, <2>3 DEF Track
    <3>2. Becomes(add_order(m, e.order), m, Joined(T, e.order))
        BY <1>1, <2>1, <2>3, AddMoves DEF Fits
    <3> QED
        BY <2>2, <3>1, <3>2
  <2>4. CASE e.order.order_type \notin RestingTypes
    <3>1. Track(T, e) = T
        BY <1>1, <2>4 DEF Track
    <3>2. add_order(m, e.order) = m
        BY <2>4 DEF add_order
    <3> QED
        BY <1>0, <2>2, <3>1, <3>2
  <2> QED
      BY <2>3, <2>4
<1>2. CASE e.kind = "trade"
  <2> DEFINE i == e.incoming_order_id
             j == e.resting_order_id
             n == e.quantity
             m1 == ApplyIncoming(m, e)
             T1 == Filled(T, i, n)
  <2>1. e \in TradeEvents
      BY <1>2 DEF Events, CanceledEvents
  <2>2. on_event(m, e) = ApplyResting(m1, e)
      BY <1>2 DEF on_event, apply_trade
  <2>3. Track(T, e) = Filled(T1, j, n)
      BY <1>2 DEF Track
  <2>4. i # j /\ Affords(T, i, n) /\ Affords(T, j, n)
      BY <1>2 DEF Fits
  <2>5. Becomes(m1, m, T1)
      BY <2>1, <2>4, IncomingMoves
  <2>6. Affords(T1, j, n)
      BY <2>4 DEF Affords, Filled, Without, Reduced
  <2> HIDE DEF m1, T1, T
  <2>7. PublisherOK(m1) /\ m1.orders = T1
      BY <2>5 DEF Becomes
  <2>8. Becomes(ApplyResting(m1, e), m1, Filled(T1, j, n))
      BY <2>1, <2>6, <2>7, RestingMoves
  <2>9. Becomes(ApplyResting(m1, e), m, Filled(T1, j, n))
      BY <2>5, <2>8, Zenon DEF Becomes
  <2> QED
      BY <2>2, <2>3, <2>9 DEF T
<1>3. CASE e.kind = "canceled"
  <2> DEFINE id == e.order_id
             x == T[id]
             l == <<x.side, x.price>>
  <2>1. /\ on_event(m, e) = remove_order(m, id)
        /\ Track(T, e) = Without(T, id)
      BY <1>3 DEF on_event, Track
  <2>2. CASE id \in DOMAIN T
    <3>1. remove_order(m, id) =
            emit_level([m EXCEPT !.orders = Without(T, id),
              !.level_quantities[l] = m.level_quantities[l] - x.remaining_quantity], l)
        BY <2>2 DEF remove_order, Erase, LevelOf, Without
    <3>2. Becomes(emit_level([m EXCEPT !.orders = Without(T, id),
              !.level_quantities[l] = m.level_quantities[l] - x.remaining_quantity], l),
                  m, Without(T, id))
        BY <2>2, EraseMoves
    <3> QED
        BY <2>1, <3>1, <3>2
  <2>3. CASE id \notin DOMAIN T
    <3>1. remove_order(m, id) = m
        BY <2>3 DEF remove_order
    <3>2. Without(T, id) = T
      <4>1. DOMAIN T \ {id} = DOMAIN T /\ T = [y \in DOMAIN T |-> T[y]]
          BY <1>0, <2>3 DEF IsTracked
      <4> HIDE DEF T
      <4> QED
          BY <4>1 DEF Without
    <3> QED
        BY <1>0, <2>1, <3>1, <3>2
  <2> QED
      BY <2>2, <2>3
<1>4. CASE e.kind = "rejected"
    BY <1>0, <1>4 DEF on_event, Track
<1>5. e.kind \in {"accepted", "rejected", "trade", "canceled"}
    BY DEF Events, TradeEvents, CanceledEvents
<1> QED
    BY <1>1, <1>2, <1>3, <1>4, <1>5

----------------------------------------------------------------------------
(* The open orders of the book                                              *)

\* The order being matched counts while something of it may still rest.
Running(t, r) ==
    IF t # NoOrder /\ t.order_type \in RestingTypes /\ r > 0
    THEN {t.order_id} ELSE {}

Brief(x) ==
    [side |-> x.side, price |-> x.price, remaining_quantity |-> x.remaining_quantity]

OpenOrders(b, t, r) ==
    [i \in DOMAIN b.order_locations \cup Running(t, r) |->
        IF i \in Running(t, r)
        THEN [side |-> t.side, price |-> t.price, remaining_quantity |-> r]
        ELSE Brief(RestingMap(b)[i])]

\* place_order accepts the order: what it accepts is open from then on.
LEMMA OpenAccepted ==
    ASSUME NEW b, NEW o \in Orders, o.order_id \notin DOMAIN b.order_locations,
           NEW r
    PROVE  LET T == OpenOrders(b, NoOrder, r)
           IN  /\ Fits(T, Accepted(o))
               /\ OpenOrders(b, o, o.quantity) = Track(T, Accepted(o))
<1> DEFINE T == OpenOrders(b, NoOrder, r)
           e == Accepted(o)
<1>1. o # NoOrder /\ o.quantity > 0
    BY OrderBookAssumption, BookAssumption DEF Orders, Quantities
<1>2. /\ DOMAIN T = DOMAIN b.order_locations
      /\ T = [i \in DOMAIN b.order_locations |-> Brief(RestingMap(b)[i])]
    BY DEF OpenOrders, Running
<1>3. e.kind = "accepted" /\ e.order = o
    BY DEF Accepted
<1> HIDE DEF T, e
<1>4. Fits(T, e)
    BY <1>2, <1>3 DEF Fits
<1>5. CASE o.order_type \in RestingTypes
  <2>1. Running(o, o.quantity) = {o.order_id}
      BY <1>1, <1>5 DEF Running
  <2>2. Track(T, e) = Joined(T, o)
      BY <1>3, <1>5 DEF Track
  <2>3. OpenOrders(b, o, o.quantity) = Joined(T, o)
      BY <1>2, <2>1 DEF OpenOrders, Joined
  <2> QED
      BY <1>4, <2>2, <2>3 DEF T, e
<1>6. CASE o.order_type \notin RestingTypes
  <2>1. Running(o, o.quantity) = {}
      BY <1>6 DEF Running
  <2>2. Track(T, e) = T
      BY <1>3, <1>6 DEF Track
  <2>3. OpenOrders(b, o, o.quantity) = T
      BY <1>2, <2>1 DEF OpenOrders
  <2> QED
      BY <1>4, <2>2, <2>3 DEF T, e
<1> QED
    BY <1>5, <1>6

\* A fill takes its quantity from the order being matched.
LEMMA FilledTaker ==
    ASSUME NEW b, NEW o \in Orders, o.order_id \notin DOMAIN b.order_locations,
           NEW r \in Nat, NEW n \in 1 .. r
    PROVE  /\ Filled(OpenOrders(b, o, r), o.order_id, n) = OpenOrders(b, o, r - n)
           /\ Affords(OpenOrders(b, o, r), o.order_id, n)
<1> DEFINE id == o.order_id
           T == OpenOrders(b, o, r)
           T2 == OpenOrders(b, o, r - n)
           D == DOMAIN b.order_locations
<1>1. o # NoOrder /\ r > 0 /\ n \in Nat
    BY OrderBookAssumption
<1>2. CASE o.order_type \notin RestingTypes
  <2>1. Running(o, r) = {} /\ Running(o, r - n) = {}
      BY <1>2 DEF Running
  <2>2. T = T2 /\ DOMAIN T = D
      BY <2>1 DEF OpenOrders
  <2> HIDE DEF T, T2
  <2> QED
      BY <2>2 DEF Filled, Affords, T, T2
<1>3. CASE o.order_type \in RestingTypes
  <2>1. Running(o, r) = {id}
      BY <1>1, <1>3 DEF Running
  <2>2. /\ DOMAIN T = D \cup {id}
        /\ T[id] = [side |-> o.side, price |-> o.price, remaining_quantity |-> r]
        /\ \A i \in D : T[i] = Brief(RestingMap(b)[i])
        /\ T = [i \in DOMAIN T |-> T[i]]
      BY <2>1 DEF OpenOrders
  <2>3. Affords(T, id, n)
      BY <2>2 DEF Affords
  <2>4. CASE n = r
    <3>1. Running(o, r - n) = {}
        BY <2>4 DEF Running
    <3>2. T2 = [i \in D |-> Brief(RestingMap(b)[i])]
        BY <3>1 DEF OpenOrders
    <3> HIDE DEF T, T2
    <3>3. Filled(T, id, n) = Without(T, id)
        BY <2>2, <2>4 DEF Filled
    <3>4. (D \cup {id}) \ {id} = D
        OBVIOUS
    <3>5. Without(T, id) = T2
        BY <2>2, <3>2, <3>4 DEF Without
    <3> QED
        BY <2>3, <3>3, <3>5 DEF T, T2
  <2>5. CASE n # r
    <3>1. Running(o, r - n) = {id}
        BY <1>1, <1>3, <2>5 DEF Running
    <3>2. /\ DOMAIN T2 = D \cup {id}
          /\ T2[id] = [side |-> o.side, price |-> o.price,
                       remaining_quantity |-> r - n]
          /\ \A i \in D : T2[i] = Brief(RestingMap(b)[i])
          /\ T2 = [i \in DOMAIN T2 |-> T2[i]]
        BY <3>1 DEF OpenOrders
    <3> HIDE DEF T, T2
    <3>3. Filled(T, id, n) = Reduced(T, id, n)
        BY <2>2, <2>5 DEF Filled
    <3>4. Reduced(T, id, n) = T2
        BY <2>2, <3>2 DEF Reduced
    <3> QED
        BY <2>3, <3>3, <3>4 DEF T, T2
  <2> QED
      BY <2>4, <2>5
<1> QED
    BY <1>2, <1>3

\* A fill takes its quantity from the resting order.
LEMMA FilledResting ==
    ASSUME NEW b, NEW b2, NEW o, NEW r, NEW i \in DOMAIN b.order_locations,
           i \notin Running(o, r), NEW n \in Nat,
           DOMAIN RestingMap(b) = DOMAIN b.order_locations,
           DOMAIN RestingMap(b2) = DOMAIN b2.order_locations,
           RestingMap(b)[i].remaining_quantity \in Nat,
           n <= RestingMap(b)[i].remaining_quantity,
           IsSound(b), Takes(RestingMap(b2), RestingMap(b), i, n)
    PROVE  /\ Filled(OpenOrders(b, o, r), i, n) = OpenOrders(b2, o, r)
           /\ Affords(OpenOrders(b, o, r), i, n)
<1> DEFINE T == OpenOrders(b, o, r)
           T2 == OpenOrders(b2, o, r)
           R == RestingMap(b)
           R2 == RestingMap(b2)
           run == Running(o, r)
           D == DOMAIN R
           own == [side |-> o.side, price |-> o.price, remaining_quantity |-> r]
<1>1. /\ DOMAIN T = D \cup run
      /\ \A j \in DOMAIN T : T[j] = IF j \in run THEN own ELSE Brief(R[j])
      /\ T = [j \in DOMAIN T |-> T[j]]
    BY DEF OpenOrders
<1>2. /\ DOMAIN T2 = DOMAIN R2 \cup run
      /\ \A j \in DOMAIN T2 : T2[j] = IF j \in run THEN own ELSE Brief(R2[j])
      /\ T2 = [j \in DOMAIN T2 |-> T2[j]]
    BY DEF OpenOrders
<1>3. R[i] = EntryOf(R[i].side, R[i].price, R[i])
  <2>1. PlacesAgree(b)
      BY Places
  <2>2. PICK s \in Sides, p \in Prices, k \in Nat : At(b, i, s, p, k)
      BY <2>1 DEF PlacesAgree
  <2>3. R[i] = EntryOf(s, p, Queue(b, s, p)[k])
      BY <2>2, RestingAt
  <2> HIDE DEF R
  <2> QED
      BY <2>3 DEF EntryOf
<1>4. i \in D /\ i \notin run /\ R[i].remaining_quantity \in Nat
    OBVIOUS
<1>5. T[i] = Brief(R[i]) /\ T[i].remaining_quantity = R[i].remaining_quantity
    BY <1>1, <1>4 DEF Brief
<1>6. Affords(T, i, n)
    BY <1>5 DEF Affords
<1>7. CASE n = R[i].remaining_quantity
  <2>1. R2 = Without(R, i)
      BY <1>7 DEF Takes
  <2>2. Filled(T, i, n) = Without(T, i)
      BY <1>1, <1>4, <1>5, <1>7 DEF Filled
  <2> HIDE DEF T, T2, R, R2, run, D, own
  <2>3. DOMAIN R2 = D \ {i} /\ \A j \in DOMAIN R2 : R2[j] = R[j]
      BY <2>1 DEF Without, D
  <2>4. Without(T, i) = T2
    <3>1. DOMAIN T2 = DOMAIN T \ {i}
        BY <1>1, <1>2, <1>4, <2>3
    <3>2. \A j \in DOMAIN T2 : T2[j] = T[j]
        BY <1>1, <1>2, <2>3, <3>1
    <3> QED
        BY <1>2, <3>1, <3>2 DEF Without
  <2> QED
      BY <1>6, <2>2, <2>4 DEF T, T2
<1>8. CASE n # R[i].remaining_quantity
  <2>1. R2 = [R EXCEPT ![i].remaining_quantity = R[i].remaining_quantity - n]
      BY <1>8 DEF Takes
  <2>2. Filled(T, i, n) = Reduced(T, i, n)
      BY <1>1, <1>4, <1>5, <1>8 DEF Filled
  <2> HIDE DEF T, T2, R, R2, run, own
  <2>3. /\ DOMAIN R2 = D
        /\ \A j \in D \ {i} : R2[j] = R[j]
        /\ R2[i] = [R[i] EXCEPT !.remaining_quantity = R[i].remaining_quantity - n]
      BY <1>4, <2>1
  <2>4. Brief(R2[i]) = [side |-> R[i].side, price |-> R[i].price,
                        remaining_quantity |-> R[i].remaining_quantity - n]
      BY <1>3, <2>3 DEF Brief, EntryOf
  <2> HIDE DEF D
  <2>5. Reduced(T, i, n) = T2
    <3>1. DOMAIN T2 = DOMAIN T /\ i \in DOMAIN T
        BY <1>1, <1>2, <1>4, <2>3
    <3>2. \A j \in DOMAIN T \ {i} : T2[j] = T[j]
        BY <1>1, <1>2, <2>3, <3>1
    <3>3. T2[i] = [T[i] EXCEPT !.remaining_quantity = T[i].remaining_quantity - n]
      <4>1. T2[i] = Brief(R2[i])
          BY <1>2, <1>4, <3>1
      <4> QED
          BY <1>5, <2>4, <4>1 DEF Brief
    <3> QED
        BY <1>1, <1>2, <3>1, <3>2, <3>3 DEF Reduced
  <2> QED
      BY <1>6, <2>2, <2>5 DEF T, T2
<1> QED
    BY <1>7, <1>8

\* An iteration of the matching loop.
LEMMA OpenTraded ==
    ASSUME NEW b, GoodBook(b), NEW o \in Orders, NEW left \in 0 .. MaxQuantity,
           NEW p \in Prices, Matchable(b, o, left, p),
           o.order_id \notin DOMAIN b.order_locations
    PROVE  LET T == OpenOrders(b, o, left)
               t == TradeOf(b, o, left, p)
           IN  /\ Fits(T, t)
               /\ OpenOrders(Execute(b, o, left, p), o, left - t.quantity)
                    = Track(T, t)
<1> DEFINE T == OpenOrders(b, o, left)
           t == TradeOf(b, o, left, p)
           i == t.resting_order_id
           n == t.quantity
           b2 == Execute(b, o, left, p)
           T1 == OpenOrders(b, o, left - n)
<1>1. /\ GoodBook(b2) /\ n \in 1 .. left /\ t \in TradeEvents
      /\ t.incoming_order_id = o.order_id
      /\ i \in DOMAIN b.order_locations
      /\ n <= RestingMap(b)[i].remaining_quantity
      /\ Takes(RestingMap(b2), RestingMap(b), i, n)
    BY ExecuteEffect
<1>2. IsSound(b) /\ IsSound(b2)
    BY <1>1 DEF GoodBook, IsSound
<1>3. left \in Nat /\ n \in Nat
    BY <1>1, BookAssumption
<1>4. /\ DOMAIN RestingMap(b) = DOMAIN b.order_locations
      /\ DOMAIN RestingMap(b2) = DOMAIN b2.order_locations
      /\ RestingMap(b)[i].remaining_quantity \in Nat
  <2>1. RestingMap(b)[i].remaining_quantity \in 1 .. MaxQuantity
      BY <1>1, <1>2, RestingTyped
  <2>2. /\ DOMAIN RestingMap(b) = DOMAIN b.order_locations
        /\ DOMAIN RestingMap(b2) = DOMAIN b2.order_locations
      BY <1>2, RestingTyped
  <2> HIDE DEF i, b2
  <2> QED
      BY <2>1, <2>2, BookAssumption
<1>5. t.kind = "trade"
    BY DEF TradeOf
<1> HIDE DEF t, b2, n, i
<1>6. i # o.order_id
    BY <1>1
<1>7. \A r : i \notin Running(o, r)
    BY <1>6 DEF Running
<1>8. /\ Filled(T, o.order_id, n) = T1
      /\ Affords(T, o.order_id, n)
    BY <1>1, <1>3, FilledTaker
<1>9. \A r : /\ Filled(OpenOrders(b, o, r), i, n) = OpenOrders(b2, o, r)
             /\ Affords(OpenOrders(b, o, r), i, n)
    BY <1>1, <1>2, <1>3, <1>4, <1>7, FilledResting
<1>10. Fits(T, t)
    BY <1>1, <1>5, <1>6, <1>8, <1>9 DEF Fits, i, n
<1>11. Track(T, t) = Filled(Filled(T, o.order_id, n), i, n)
    BY <1>1, <1>5 DEF Track, i, n
<1> QED
    BY <1>8, <1>9, <1>10, <1>11 DEF T, t, b2, n, T1

\* The remainder of an order was open before it rests.
LEMMA OpenFinished ==
    ASSUME NEW b, GoodBook(b), NEW o \in Orders, NEW left \in 0 .. MaxQuantity,
           o.order_id \notin DOMAIN b.order_locations,
           \A p \in Prices : ~Matchable(b, o, left, p)
    PROVE  OpenOrders(Rest(b, o, left), NoOrder, 0) = OpenOrders(b, o, left)
<1> DEFINE b2 == Rest(b, o, left)
           R == RestingMap(b)
           R2 == RestingMap(b2)
           e == [side |-> o.side, price |-> o.price,
                 remaining_quantity |-> left,
                 order_type |-> o.order_type, account_id |-> o.account_id]
<1>1. GoodBook(b2)
    BY RestEffect
<1>2. /\ DOMAIN R = DOMAIN b.order_locations
      /\ DOMAIN R2 = DOMAIN b2.order_locations
    BY <1>1, RestingTyped DEF GoodBook, IsSound
<1>3. /\ Running(NoOrder, 0) = {} /\ o # NoOrder
      /\ Running(o, left) =
           IF o.order_type \in RestingTypes /\ left > 0 THEN {o.order_id} ELSE {}
    BY OrderBookAssumption DEF Running
<1>4. CASE o.order_type \in RestingTypes /\ left > 0
  <2>1. JoinsMap(R2, R, o.order_id, e)
      BY <1>4, RestEffect
  <2>2. Brief(e) = [side |-> o.side, price |-> o.price, remaining_quantity |-> left]
      BY DEF Brief
  <2> HIDE DEF b2, R, R2, e
  <2>3. /\ DOMAIN R2 = DOMAIN R \cup {o.order_id}
        /\ R2[o.order_id] = e
        /\ \A j \in DOMAIN R : j # o.order_id => R2[j] = R[j]
      BY <2>1 DEF JoinsMap
  <2>4. OpenOrders(b2, NoOrder, 0) = [j \in DOMAIN R2 |-> Brief(R2[j])]
      BY <1>2, <1>3 DEF OpenOrders, R2
  <2>5. OpenOrders(b, o, left) =
          [j \in DOMAIN R \cup {o.order_id} |->
             IF j \in {o.order_id}
             THEN [side |-> o.side, price |-> o.price, remaining_quantity |-> left]
             ELSE Brief(R[j])]
      BY <1>2, <1>3, <1>4 DEF OpenOrders, R
  <2> QED
      BY <2>2, <2>3, <2>4, <2>5 DEF b2
<1>5. CASE ~(o.order_type \in RestingTypes /\ left > 0)
  <2>1. b2 = b
      BY <1>5, RestEffect
  <2>2. Running(o, left) = {}
      BY <1>3, <1>5
  <2> HIDE DEF b2
  <2> QED
      BY <1>3, <2>1, <2>2 DEF OpenOrders, b2
<1> QED
    BY <1>4, <1>5

\* A cancellation.
LEMMA OpenCanceled ==
    ASSUME NEW b, GoodBook(b), NEW id \in DOMAIN b.order_locations, NEW r
    PROVE  OpenOrders(CancelIn(b, id), NoOrder, r)
             = Without(OpenOrders(b, NoOrder, r), id)
<1> DEFINE b2 == CancelIn(b, id)
           R == RestingMap(b)
           R2 == RestingMap(b2)
<1>1. GoodBook(b2) /\ R2 = Without(R, id)
    BY CancelEffect
<1>2. /\ DOMAIN R = DOMAIN b.order_locations
      /\ DOMAIN R2 = DOMAIN b2.order_locations
    BY <1>1, RestingTyped DEF GoodBook, IsSound
<1>3. Running(NoOrder, r) = {}
    BY DEF Running
<1> HIDE DEF b2, R, R2
<1>4. /\ OpenOrders(b2, NoOrder, r) = [j \in DOMAIN R2 |-> Brief(R2[j])]
      /\ OpenOrders(b, NoOrder, r) = [j \in DOMAIN R |-> Brief(R[j])]
    BY <1>2, <1>3 DEF OpenOrders, R, R2
<1>5. DOMAIN R2 = DOMAIN R \ {id} /\ \A j \in DOMAIN R2 : R2[j] = R[j]
    BY <1>1 DEF Without
<1> QED
    BY <1>4, <1>5 DEF Without, b2

----------------------------------------------------------------------------
(* Replaying the events that are still to come                              *)

\* h[k] is what is tracked when k events of the batch have been delivered.
Replays(h, batch, d, T, U) ==
    /\ h[d] = T
    /\ h[Len(batch)] = U
    /\ \A k \in d .. Len(batch) - 1 :
          Fits(h[k], batch[k + 1]) /\ h[k + 1] = Track(h[k], batch[k + 1])

\* The events of the batch after the d-th lead from T to U.
Leads(batch, d, T, U) == \E h : Replays(h, batch, d, T, U)

\* A batch of one event.
LEMMA LeadsOne ==
    ASSUME NEW e, NEW T, Fits(T, e)
    PROVE  Leads(<<e>>, 0, T, Track(T, e))
<1> DEFINE U == Track(T, e)
           h == [k \in 0 .. 1 |-> IF k = 0 THEN T ELSE U]
<1>1. h[0] = T /\ h[1] = U
    OBVIOUS
<1>2. Len(<<e>>) = 1 /\ <<e>>[1] = e
    OBVIOUS
<1> HIDE DEF h
<1>3. ASSUME NEW k \in 0 .. Len(<<e>>) - 1
      PROVE  Fits(h[k], <<e>>[k + 1]) /\ h[k + 1] = Track(h[k], <<e>>[k + 1])
  <2>1. k = 0 /\ k + 1 = 1
      BY <1>2
  <2> QED
      BY <1>1, <1>2, <2>1
<1>4. Replays(h, <<e>>, 0, T, U)
    BY <1>1, <1>2, <1>3 DEF Replays
<1> QED
    BY <1>4 DEF Leads

\* One more event at the end of the batch.
LEMMA LeadsAppend ==
    ASSUME NEW batch \in Seq(Events), NEW d \in 0 .. Len(batch), NEW T, NEW U,
           Leads(batch, d, T, U), NEW e \in Events, Fits(U, e)
    PROVE  Leads(Append(batch, e), d, T, Track(U, e))
<1> DEFINE n == Len(batch)
           next == Append(batch, e)
           U2 == Track(U, e)
<1>1. PICK h : Replays(h, batch, d, T, U)
    BY DEF Leads
<1> DEFINE g == [k \in 0 .. n + 1 |-> IF k <= n THEN h[k] ELSE U2]
<1>2. n \in Nat /\ d \in Nat /\ d <= n
    OBVIOUS
<1>3. /\ Len(next) = n + 1 /\ next[n + 1] = e
      /\ \A k \in 1 .. n : next[k] = batch[k]
    OBVIOUS
<1>4. g[n + 1] = U2 /\ \A k \in 0 .. n : g[k] = h[k]
    BY <1>2
<1> HIDE DEF g, n, next, U2
<1>5. h[d] = T /\ h[n] = U
    BY <1>1 DEF Replays, n
<1>6. ASSUME NEW k \in d .. Len(next) - 1
      PROVE  Fits(g[k], next[k + 1]) /\ g[k + 1] = Track(g[k], next[k + 1])
  <2>1. CASE k = n
    <3>1. g[k] = U /\ g[k + 1] = U2 /\ next[k + 1] = e
        BY <1>2, <1>3, <1>4, <1>5, <2>1
    <3> QED
        BY <3>1 DEF U2
  <2>2. CASE k # n
    <3>1. k \in d .. n - 1 /\ k \in 0 .. n /\ k + 1 \in 0 .. n /\ k + 1 \in 1 .. n
        BY <1>2, <1>3, <2>2
    <3>2. Fits(h[k], batch[k + 1]) /\ h[k + 1] = Track(h[k], batch[k + 1])
        BY <1>1, <3>1 DEF Replays, n
    <3>3. g[k] = h[k] /\ g[k + 1] = h[k + 1] /\ next[k + 1] = batch[k + 1]
        BY <1>3, <1>4, <3>1
    <3> QED
        BY <3>2, <3>3
  <2> QED
      BY <2>1, <2>2
<1>7. g[d] = T /\ g[Len(next)] = U2
    BY <1>2, <1>3, <1>4, <1>5
<1>8. Replays(g, next, d, T, U2)
    BY <1>6, <1>7 DEF Replays
<1> QED
    BY <1>8 DEF Leads, next, U2

\* The next event is delivered.
LEMMA LeadsOn ==
    ASSUME NEW batch \in Seq(Events), NEW d \in 0 .. Len(batch), d < Len(batch),
           NEW T, NEW U, Leads(batch, d, T, U)
    PROVE  /\ Fits(T, batch[d + 1])
           /\ Leads(batch, d + 1, Track(T, batch[d + 1]), U)
<1> DEFINE n == Len(batch)
<1>1. PICK h : Replays(h, batch, d, T, U)
    BY DEF Leads
<1>2. n \in Nat /\ d \in Nat
    OBVIOUS
<1>3. d \in d .. n - 1 /\ (d + 1) .. n - 1 \subseteq d .. n - 1
    BY <1>2
<1>4. /\ h[d] = T /\ Fits(h[d], batch[d + 1])
      /\ h[d + 1] = Track(h[d], batch[d + 1])
    BY <1>1, <1>3 DEF Replays
<1>5. Replays(h, batch, d + 1, Track(T, batch[d + 1]), U)
    BY <1>1, <1>3, <1>4 DEF Replays
<1> QED
    BY <1>4, <1>5 DEF Leads

\* Nothing is left to deliver.
LEMMA LeadsNowhere ==
    ASSUME NEW batch, NEW T, NEW U, Leads(batch, Len(batch), T, U) PROVE T = U
    BY DEF Leads, Replays

----------------------------------------------------------------------------
(* The inductive invariant                                                  *)

Now == OpenOrders(book, taker, remaining)

MDInv ==
    /\ IndInv
    /\ PublisherOK(md)
    /\ md.batching \in BOOLEAN
    /\ publishing \in BOOLEAN
    /\ delivered \in 0 .. Len(events)
    /\ publishing => Idle
    /\ ~publishing => delivered = 0 /\ md.batching = FALSE
    /\ Quiet => md.orders = Now
    /\ ~Quiet => Leads(events, delivered, md.orders, Now)

\* Nothing is tracked of an empty book.
LEMMA InitMDInv == MDInit => MDInv
<1> SUFFICES ASSUME MDInit PROVE MDInv
    OBVIOUS
<1>1. IndInv /\ Idle /\ events = <<>> /\ book = EmptyBook
    BY InitIndInv DEF MDInit, Init, Idle
<1>2. /\ md = [orders |-> md.orders, level_quantities |-> md.level_quantities,
               batching |-> md.batching, pending_levels |-> md.pending_levels,
               view |-> md.view]
      /\ md.orders = [i \in {} |-> <<>>]
      /\ md.level_quantities = [l \in LevelKeys |-> 0]
      /\ md.view = [l \in LevelKeys |-> 0]
      /\ md.batching = FALSE /\ md.pending_levels = {}
      /\ publishing = FALSE /\ delivered = 0
    BY DEF MDInit
<1>3. IsTracked(md.orders) /\ DOMAIN md.orders = {}
  <2>1. DOMAIN md.orders = {} /\ md.orders \in [{} -> TrackedOrders]
      BY <1>2
  <2> QED
      BY <2>1, FS_EmptySet DEF IsTracked
<1>4. IsPublisher(md) /\ Current(md)
  <2>1. /\ md.level_quantities \in [LevelKeys -> Int]
        /\ md.view \in [LevelKeys -> Int]
        /\ md.view = md.level_quantities
      BY <1>2
  <2> QED
      BY <1>2, <1>3, <2>1 DEF IsPublisher, Current
<1>5. Covered(md)
  <2> SUFFICES ASSUME NEW s \in Sides, NEW p \in Prices
               PROVE  Held(md.orders, s, p) <= md.level_quantities[<<s, p>>]
      BY DEF Covered
  <2>1. Standing(md.orders, s, p) = {}
      BY <1>3 DEF Standing
  <2>2. Held(md.orders, s, p) = 0
      BY <2>1, SumEmpty DEF Held
  <2>3. md.level_quantities[<<s, p>>] = 0
      BY <1>2 DEF LevelKeys
  <2> QED
      BY <2>2, <2>3
<1>6. md.orders = Now
  <2>1. DOMAIN book.order_locations = {}
      BY <1>1 DEF EmptyBook
  <2>2. Running(taker, remaining) = {}
      BY <1>1 DEF Running, Idle
  <2>3. DOMAIN Now = {} /\ Now = [i \in DOMAIN Now |-> Now[i]]
      BY <2>1, <2>2 DEF Now, OpenOrders
  <2> QED
      BY <1>2, <2>3
<1>7. delivered \in 0 .. Len(events)
    BY <1>1, <1>2
<1>8. Quiet /\ ~publishing
    BY <1>1, <1>2 DEF Quiet
<1>9. PublisherOK(md)
    BY <1>4, <1>5 DEF PublisherOK
<1> QED
    BY <1>1, <1>2, <1>6, <1>7, <1>8, <1>9, Zenon DEF MDInv

\* What a step of the book reports leads from what is tracked to what is open.
LEMMA BookStepLeads ==
    ASSUME MDInv, ~publishing, Next
    PROVE  Leads(events', 0, md.orders, Now')
<1> DEFINE T == md.orders
<1>1. /\ GoodBook(book) /\ TypeOK /\ IsSound(book)
      /\ delivered = 0 /\ events \in Seq(Events) /\ 0 \in 0 .. Len(events)
      /\ Idle => T = Now
      /\ ~Idle => Leads(events, 0, T, Now)
    BY DEF MDInv, IndInv, TypeOK, GoodBook, IsSound, BookIndexConsistent,
           BookUncrossed, Quiet
<1>2. ASSUME NEW e, e.kind = "rejected", events' = <<e>>, Idle,
             UNCHANGED <<book, taker, remaining>>
      PROVE  Leads(events', 0, T, Now')
  <2>1. Now' = Now
      BY <1>2 DEF Now
  <2>2. Fits(T, e) /\ Track(T, e) = T
      BY <1>2 DEF Fits, Track
  <2> QED
      BY <1>1, <1>2, <2>1, <2>2, LeadsOne
<1>3. ASSUME NEW o \in Orders, PlaceRejected(o) PROVE Leads(events', 0, T, Now')
    BY <1>2, <1>3 DEF PlaceRejected, Rejected
<1>4. ASSUME NEW o \in Orders, PlaceAccepted(o) PROVE Leads(events', 0, T, Now')
  <2>1. /\ Idle /\ events' = <<Accepted(o)>>
        /\ book' = book /\ taker' = o /\ remaining' = o.quantity
      BY <1>4 DEF PlaceAccepted
  <2>2. o.order_id \notin DOMAIN book.order_locations
      BY <1>4, AcceptedMeans DEF PlaceAccepted, contains_order
  <2>3. T = OpenOrders(book, NoOrder, remaining)
      BY <1>1, <2>1 DEF Now, Idle
  <2>4. Now' = OpenOrders(book, o, o.quantity)
      BY <2>1 DEF Now
  <2>5. Fits(T, Accepted(o)) /\ Now' = Track(T, Accepted(o))
      BY <2>2, <2>3, <2>4, OpenAccepted
  <2> QED
      BY <2>1, <2>5, LeadsOne
<1>5. ASSUME NEW p \in Prices, ExecuteAt(p) PROVE Leads(events', 0, T, Now')
  <2> DEFINE t == TradeOf(book, taker, remaining, p)
             b2 == Execute(book, taker, remaining, p)
  <2>1. /\ ~Idle /\ Matchable(book, taker, remaining, p)
        /\ book' = b2 /\ taker' = taker /\ remaining' = remaining - t.quantity
        /\ events' = Append(events, t)
      BY <1>5 DEF ExecuteAt
  <2>2. /\ taker \in Orders /\ remaining \in 0 .. MaxQuantity
        /\ taker.order_id \notin DOMAIN book.order_locations
      BY <1>1, <2>1 DEF MDInv, IndInv, TypeOK, Idle, TakerNotResting, contains_order
  <2>3. t \in Events
      BY <1>1, <2>1, <2>2, TradeFacts DEF Events, GoodBook
  <2>4. Fits(Now, t) /\ OpenOrders(b2, taker, remaining - t.quantity) = Track(Now, t)
      BY <1>1, <2>1, <2>2, OpenTraded DEF Now
  <2> HIDE DEF t, b2
  <2>5. Now' = Track(Now, t)
      BY <2>1, <2>4 DEF Now
  <2>6. Leads(Append(events, t), 0, T, Track(Now, t))
      BY <1>1, <2>1, <2>3, <2>4, LeadsAppend
  <2> QED
      BY <2>1, <2>5, <2>6
<1>6. ASSUME FinishPlace PROVE Leads(events', 0, T, Now')
  <2>1. /\ ~Idle /\ events' = events
        /\ \A p \in Prices : ~Matchable(book, taker, remaining, p)
        /\ book' = Rest(book, taker, remaining)
        /\ taker' = NoOrder /\ remaining' = 0
      BY <1>6 DEF FinishPlace
  <2>2. /\ taker \in Orders /\ remaining \in 0 .. MaxQuantity
        /\ taker.order_id \notin DOMAIN book.order_locations
      BY <1>1, <2>1 DEF MDInv, IndInv, TypeOK, Idle, TakerNotResting, contains_order
  <2>3. OpenOrders(Rest(book, taker, remaining), NoOrder, 0) = Now
      BY <1>1, <2>1, <2>2, OpenFinished DEF Now
  <2>4. Now' = Now
      BY <2>1, <2>3 DEF Now
  <2> QED
      BY <1>1, <2>1, <2>4
<1>7. ASSUME NEW id \in OrderIds, NEW account \in AccountIds,
             CancelRejected(id, account)
      PROVE  Leads(events', 0, T, Now')
    BY <1>2, <1>7 DEF CancelRejected, Rejected
<1>8. ASSUME NEW id \in OrderIds, NEW account \in AccountIds, Cancel(id, account)
      PROVE  Leads(events', 0, T, Now')
  <2>1. /\ Idle /\ book' = CancelIn(book, id)
        /\ taker' = taker /\ remaining' = remaining
        /\ id \in DOMAIN book.order_locations
      BY <1>8, AcceptedMeans DEF Cancel
  <2>2. PICK e \in CancelReports(book, id, account) : events' = <<e>>
      BY <1>8 DEF Cancel
  <2>3. e.kind = "canceled" /\ e.order_id = id
    <3>1. PICK side, price : e = Canceled(book, id, account, side, price)
        BY <2>2 DEF CancelReports
    <3> QED
        BY <3>1 DEF Canceled
  <2>4. Fits(T, e) /\ Track(T, e) = Without(T, id)
      BY <2>3 DEF Fits, Track
  <2>5. /\ T = OpenOrders(book, NoOrder, remaining)
        /\ Now' = OpenOrders(CancelIn(book, id), NoOrder, remaining)
      BY <1>1, <2>1 DEF Now, Idle
  <2>6. Now' = Without(T, id)
      BY <1>1, <2>1, <2>5, OpenCanceled
  <2> QED
      BY <2>2, <2>4, <2>6, LeadsOne
<1> QED
    BY <1>3, <1>4, <1>5, <1>6, <1>7, <1>8 DEF Next, Loop

\* A step of the book, with the start of the delivery when the call returns.
LEMMA BookStepKeepsMD ==
    ASSUME MDInv, BookStep
    PROVE  MDInv' /\ md'.view = md.view
<1>1. /\ ~publishing /\ Next /\ delivered' = 0
      /\ publishing' = (taker' = NoOrder)
    BY Zenon DEF BookStep
<1>2. IndInv'
    BY <1>1, NextIndInv DEF MDInv
<1>3. Leads(events', 0, md.orders, Now')
    BY <1>1, BookStepLeads
<1>4. delivered' \in 0 .. Len(events')
  <2>1. events' \in Seq(Events)
      BY <1>2 DEF IndInv, TypeOK
  <2>2. Len(events') \in Nat
      BY <2>1, LenProperties
  <2> QED
      BY <1>1, <2>2
<1>5. /\ publishing' \in BOOLEAN
      /\ publishing' <=> Idle'
      /\ ~Quiet'
  <2>1. publishing' \in BOOLEAN /\ (publishing' <=> Idle')
      BY <1>1, Zenon DEF Idle
  <2> QED
      BY <2>1, Zenon DEF Quiet
<1>6. PublisherOK(md) /\ md.batching = FALSE
    BY <1>1 DEF MDInv
<1>7. md.pending_levels = {}
    BY <1>6 DEF PublisherOK, Current
<1>8. \/ md' = md /\ ~publishing'
      \/ publishing' /\ \E batched \in BOOLEAN : md' = [md EXCEPT !.batching = batched]
    BY <1>5, Zenon DEF BookStep
<1>9. CASE md' = md /\ ~publishing'
    BY <1>1, <1>2, <1>3, <1>4, <1>5, <1>6, <1>9, Zenon DEF MDInv
<1>10. ASSUME NEW batched \in BOOLEAN, md' = [md EXCEPT !.batching = batched],
              publishing'
       PROVE  MDInv' /\ md'.view = md.view
  <2>1. /\ md' = [orders |-> md.orders, level_quantities |-> md.level_quantities,
                  batching |-> batched, pending_levels |-> md.pending_levels,
                  view |-> md.view]
      BY <1>6, <1>10 DEF PublisherOK, IsPublisher
  <2>2. /\ md'.orders = md.orders /\ md'.level_quantities = md.level_quantities
        /\ md'.batching = batched /\ md'.pending_levels = md.pending_levels
        /\ md'.view = md.view
        /\ md' = [orders |-> md'.orders, level_quantities |-> md'.level_quantities,
                  batching |-> md'.batching, pending_levels |-> md'.pending_levels,
                  view |-> md'.view]
      BY <2>1
  <2>3. PublisherOK(md')
    <3>1. IsPublisher(md')
        BY <1>6, <2>2 DEF PublisherOK, IsPublisher
    <3>2. Current(md')
        BY <1>6, <1>7, <2>2 DEF PublisherOK, Current
    <3>3. Covered(md')
        BY <1>6, <2>2 DEF PublisherOK, Covered
    <3> QED
        BY <3>1, <3>2, <3>3 DEF PublisherOK
  <2>4. MDInv'
    <3>1. md'.batching \in BOOLEAN
        BY <2>2
    <3>2. Leads(events', delivered', md'.orders, Now')
        BY <1>1, <1>3, <2>2
    <3> QED
        BY <1>2, <1>4, <1>5, <1>10, <2>3, <3>1, <3>2, Zenon DEF MDInv
  <2> QED
      BY <2>2, <2>4
<1> QED
    BY <1>8, <1>9, <1>10

\* One event reaches the publisher.
LEMMA DeliverKeepsMD ==
    ASSUME MDInv, Deliver
    PROVE  MDInv' /\ (md.batching => md'.view = md.view)
<1> DEFINE e == events[delivered + 1]
           T == md.orders
<1>1. /\ publishing /\ delivered < Len(events)
      /\ md' = on_event(md, e) /\ delivered' = delivered + 1
      /\ publishing' = publishing
      /\ book' = book /\ taker' = taker /\ remaining' = remaining
      /\ events' = events
    BY DEF Deliver, vars
<1>2. /\ PublisherOK(md) /\ events \in Seq(Events)
      /\ delivered \in 0 .. Len(events)
      /\ Leads(events, delivered, T, Now)
      /\ Idle
    BY <1>1 DEF MDInv, IndInv, TypeOK, Quiet
<1>3. /\ Len(events) \in Nat /\ delivered + 1 \in 1 .. Len(events)
      /\ delivered + 1 \in 0 .. Len(events)
    BY <1>1, <1>2, LenProperties
<1>4. e \in Events
    BY <1>2, <1>3, ElementOfSeq
<1>5. Fits(T, e) /\ Leads(events, delivered + 1, Track(T, e), Now)
    BY <1>1, <1>2, LeadsOn
<1>6. Becomes(md', md, Track(T, e))
    BY <1>1, <1>2, <1>4, <1>5, EventMoves
<1> HIDE DEF e, T
<1>7. /\ PublisherOK(md') /\ md'.orders = Track(T, e)
      /\ md'.batching = md.batching
      /\ md.batching => md'.view = md.view
    BY <1>6 DEF Becomes
<1>8. Now' = Now /\ Idle' /\ ~Quiet' /\ publishing'
    BY <1>1, <1>2 DEF Now, Idle, Quiet
<1>9. IndInv'
  <2>1. UNCHANGED vars
      BY <1>1 DEF vars
  <2> QED
      BY <2>1, NextIndInv DEF MDInv
<1>10. delivered' \in 0 .. Len(events') /\ Leads(events', delivered', md'.orders, Now')
    BY <1>1, <1>3, <1>5, <1>7, <1>8
<1>11. md'.batching \in BOOLEAN /\ publishing' \in BOOLEAN
    BY <1>1, <1>7 DEF MDInv
<1>12. MDInv'
    BY <1>7, <1>8, <1>9, <1>10, <1>11, Zenon DEF MDInv
<1> QED
    BY <1>7, <1>12

\* The delivery ends: pending levels are sent.
LEMMA EndKeepsMD ==
    ASSUME MDInv, EndDelivery
    PROVE  MDInv' /\ md'.batching = FALSE /\ (md.batching = FALSE => md' = md)
<1> DEFINE m0 == [md EXCEPT !.batching = FALSE]
           w == [l \in LevelKeys |-> IF l \in md.pending_levels
                                     THEN md.level_quantities[l] ELSE md.view[l]]
<1>1. /\ publishing /\ delivered = Len(events)
      /\ md' = IF md.batching THEN flush_pending_levels(m0) ELSE md
      /\ publishing' = FALSE /\ delivered' = 0
      /\ book' = book /\ taker' = taker /\ remaining' = remaining
      /\ events' = events
    BY DEF EndDelivery, vars
<1>2. /\ PublisherOK(md) /\ events \in Seq(Events) /\ Len(events) \in Nat
      /\ Leads(events, Len(events), md.orders, Now)
      /\ Idle /\ md.batching \in BOOLEAN
    BY <1>1, LenProperties DEF MDInv, IndInv, TypeOK, Quiet
<1>3. md.orders = Now
    BY <1>2, LeadsNowhere
<1>4. CASE md.batching = FALSE
  <2>1. md' = md /\ PublisherOK(md') /\ md'.orders = md.orders /\ md'.batching = FALSE
      BY <1>1, <1>2, <1>4
  <2> QED
    <3>1. IndInv'
      <4>1. UNCHANGED vars
          BY <1>1 DEF vars
      <4> QED
          BY <4>1, NextIndInv DEF MDInv
    <3>2. Now' = Now /\ Idle' /\ Quiet' /\ ~publishing' /\ publishing' \in BOOLEAN
        BY <1>1, <1>2 DEF Now, Idle, Quiet
    <3>3. delivered' \in 0 .. Len(events') /\ delivered' = 0
        BY <1>1, <1>2
    <3>4. md'.orders = Now'
        BY <1>3, <2>1, <3>2
    <3>5. md'.batching \in BOOLEAN
        BY <2>1
    <3> QED
        BY <2>1, <3>1, <3>2, <3>3, <3>4, <3>5, Zenon DEF MDInv
<1>5. CASE md.batching = TRUE
  <2>1. m0 = [orders |-> md.orders, level_quantities |-> md.level_quantities,
              batching |-> FALSE, pending_levels |-> md.pending_levels,
              view |-> md.view]
    <3>1. md = [orders |-> md.orders, level_quantities |-> md.level_quantities,
                batching |-> md.batching, pending_levels |-> md.pending_levels,
                view |-> md.view]
        BY <1>2 DEF PublisherOK, IsPublisher
    <3> HIDE DEF w, m0
    <3>2. \A x : [md EXCEPT !.batching = x] =
            [orders |-> md.orders, level_quantities |-> md.level_quantities,
             batching |-> x, pending_levels |-> md.pending_levels,
             view |-> md.view]
        BY <3>1
    <3> QED
        BY <3>2 DEF m0
  <2>2. md' = [m0 EXCEPT !.view = w, !.pending_levels = {}]
    <3>1. md' = flush_pending_levels(m0)
        BY <1>1, <1>5
    <3>2. /\ m0.pending_levels = md.pending_levels
          /\ m0.level_quantities = md.level_quantities /\ m0.view = md.view
        BY <2>1
    <3> HIDE DEF m0
    <3> QED
        BY <3>1, <3>2 DEF flush_pending_levels
  <2> HIDE DEF m0, w
  <2>3. md' = [orders |-> md.orders, level_quantities |-> md.level_quantities,
               batching |-> FALSE, pending_levels |-> {}, view |-> w]
      BY <2>1, <2>2
  <2>4. /\ md'.orders = md.orders /\ md'.level_quantities = md.level_quantities
        /\ md'.batching = FALSE /\ md'.pending_levels = {} /\ md'.view = w
      BY <2>3
  <2>5. /\ md' = [orders |-> md'.orders, level_quantities |-> md'.level_quantities,
                  batching |-> md'.batching, pending_levels |-> md'.pending_levels,
                  view |-> md'.view]
      BY <2>3, <2>4
  <2>6. /\ w \in [LevelKeys -> Int]
        /\ \A l \in LevelKeys : w[l] = md.level_quantities[l]
    <3>1. \A l \in LevelKeys : /\ md.level_quantities[l] \in Int
                               /\ md.view[l] \in Int
                               /\ l \notin md.pending_levels
                                    => md.view[l] = md.level_quantities[l]
        BY <1>2 DEF PublisherOK, IsPublisher, Current
    <3> QED
        BY <3>1 DEF w
  <2>7. PublisherOK(md')
    <3>1. IsPublisher(md')
        BY <1>2, <2>4, <2>5, <2>6 DEF PublisherOK, IsPublisher
    <3>2. Current(md')
        BY <2>4, <2>6 DEF Current
    <3>3. Covered(md')
        BY <1>2, <2>4 DEF PublisherOK, Covered
    <3> QED
        BY <3>1, <3>2, <3>3 DEF PublisherOK
  <2> QED
    <3>1. IndInv'
      <4>1. UNCHANGED vars
          BY <1>1 DEF vars
      <4> QED
          BY <4>1, NextIndInv DEF MDInv
    <3>2. Now' = Now /\ Idle' /\ Quiet' /\ ~publishing' /\ publishing' \in BOOLEAN
        BY <1>1, <1>2 DEF Now, Idle, Quiet
    <3>3. delivered' \in 0 .. Len(events') /\ delivered' = 0
        BY <1>1, <1>2
    <3>4. md'.orders = Now'
        BY <1>3, <2>4, <3>2
    <3>5. md'.batching \in BOOLEAN
        BY <2>4
    <3>6. MDInv'
        BY <2>4, <2>7, <3>1, <3>2, <3>3, <3>4, <3>5, Zenon DEF MDInv
    <3> QED
        BY <1>5, <2>4, <3>6
<1> QED
    BY <1>2, <1>4, <1>5

\* Every step keeps the invariant.
LEMMA NextMDInv == MDInv /\ [MDNext]_allVars => MDInv'
<1> SUFFICES ASSUME MDInv, [MDNext]_allVars PROVE MDInv'
    OBVIOUS
<1>1. CASE UNCHANGED allVars
  <2>1. /\ book' = book /\ taker' = taker /\ remaining' = remaining
        /\ events' = events /\ md' = md /\ publishing' = publishing
        /\ delivered' = delivered
      BY <1>1 DEF allVars, mdVars, vars
  <2>2. IndInv'
    <3>1. UNCHANGED vars
        BY <2>1 DEF vars
    <3> QED
        BY <3>1, NextIndInv DEF MDInv
  <2>3. Now' = Now /\ (Idle' <=> Idle) /\ (Quiet' <=> Quiet)
      BY <2>1 DEF Now, Idle, Quiet
  <2> QED
      BY <2>1, <2>2, <2>3, Zenon DEF MDInv
<1>2. CASE MDNext
    BY <1>2, BookStepKeepsMD, DeliverKeepsMD, EndKeepsMD DEF MDNext
<1> QED
    BY <1>1, <1>2

\* The inductive invariant of the publisher and its book.
THEOREM MDInvHolds == MDSpec => []MDInv
<1>1. MDInit => MDInv
    BY InitMDInv
<1>2. MDInv /\ [MDNext]_allVars => MDInv'
    BY NextMDInv
<1> QED
    BY <1>1, <1>2, PTL DEF MDSpec

\* The members of MarketDataPublisher have their types at every moment; in
\* particular no tracked order is ever left with quantity zero or below, where
\* the unsigned type would wrap.
THEOREM MDTypeCorrect == MDSpec => []MDTypeOK
<1>1. MDInv => MDTypeOK
    BY DEF MDInv, MDTypeOK, PublisherOK, IsPublisher, IsTracked, TrackedOrders
<1> QED
    BY <1>1, MDInvHolds, PTL

\* A subscriber that applies the updates has the aggregates of the publisher
\* when a batch is through.
THEOREM SubscribersAreCurrent == MDSpec => []SubscriberIsCurrent
<1>1. MDInv => SubscriberIsCurrent
  <2> SUFFICES ASSUME MDInv, Quiet PROVE md.view = md.level_quantities
      BY DEF SubscriberIsCurrent
  <2>1. PublisherOK(md) /\ ~md.batching
      BY DEF MDInv, Quiet
  <2>2. \A l \in LevelKeys : md.view[l] = md.level_quantities[l]
      BY <2>1 DEF PublisherOK, Current
  <2>3. md.view \in [LevelKeys -> Int] /\ md.level_quantities \in [LevelKeys -> Int]
      BY <2>1 DEF PublisherOK, IsPublisher
  <2> QED
      BY <2>2, <2>3
<1> QED
    BY <1>1, MDInvHolds, PTL

\* The publisher rebuilds the open orders of the book from the events alone:
\* when a batch is through it tracks these orders, with their side, price and
\* remaining quantity, and no others.
THEOREM TrackedOrdersFollowTheBook == MDSpec => []TrackedOrdersAreTheBook
<1>1. MDInv => TrackedOrdersAreTheBook
  <2> SUFFICES ASSUME MDInv, Quiet
               PROVE  /\ DOMAIN md.orders = DOMAIN book.order_locations
                      /\ \A id \in DOMAIN md.orders :
                           md.orders[id] = Brief(RestingEntry(book, id))
      BY DEF TrackedOrdersAreTheBook, Brief
  <2>1. md.orders = Now /\ Running(taker, remaining) = {}
      BY DEF MDInv, Quiet, Idle, Running
  <2>2. md.orders = [i \in DOMAIN book.order_locations |-> Brief(RestingMap(book)[i])]
      BY <2>1 DEF Now, OpenOrders
  <2> QED
      BY <2>2 DEF RestingMap
<1> QED
    BY <1>1, MDInvHolds, PTL

\* Inside a batch the subscriber is sent nothing.
THEOREM NothingSentInsideABatch == MDSpec => NoIntermediateUpdates
<1> DEFINE Step == md.batching /\ md'.batching => md'.view = md.view
<1>1. NoIntermediateUpdates <=> [][Step]_allVars
    BY DEF NoIntermediateUpdates
<1>2. MDInv /\ [MDNext]_allVars => [Step]_allVars
  <2> SUFFICES ASSUME MDInv, MDNext PROVE Step
      OBVIOUS
  <2>1. CASE BookStep
      BY <2>1, BookStepKeepsMD
  <2>2. CASE Deliver
      BY <2>2, DeliverKeepsMD
  <2>3. CASE EndDelivery
      BY <2>3, EndKeepsMD
  <2> QED
      BY <2>1, <2>2, <2>3 DEF MDNext
<1> HIDE DEF Step
<1> QED
    BY <1>1, <1>2, MDInvHolds, PTL DEF MDSpec

----------------------------------------------------------------------------
(* Published depth                                                          *)

\* What is tracked of a level is what its deque holds.
LEMMA DepthIsHeld ==
    ASSUME NEW b, IsSound(b), NEW s \in Sides, NEW p \in Prices,
           NEW T, DOMAIN T = DOMAIN b.order_locations,
           \A i \in DOMAIN T : T[i] = Brief(RestingMap(b)[i])
    PROVE  LevelQuantity(Queue(b, s, p)) = Held(T, s, p)
<1> DEFINE q == Queue(b, s, p)
           S == 1 .. Len(q)
           f == Amounts(q)
           g == Lefts(T)
           e == [k \in S |-> q[k].order_id]
<1>1. PlacesAgree(b)
    BY Places
<1>2. q \in Seq(RestingOrders)
    BY <1>1 DEF PlacesAgree
<1>3. /\ IsFiniteSet(S)
      /\ \A k \in S : f[k] = q[k].remaining_quantity /\ f[k] \in Int
      /\ LevelQuantity(q) = SumFunctionOnSet(f, S)
    BY <1>2, DequeSum
<1>4. \A k \in S : At(b, e[k], s, p, k)
    BY DEF At
<1>5. Renames(e, S)
  <2> SUFFICES ASSUME NEW j \in S, NEW k \in S, e[j] = e[k] PROVE j = k
      BY DEF Renames
  <2>1. q[j].order_id = q[k].order_id
      OBVIOUS
  <2> QED
      BY <1>1, <2>1 DEF PlacesAgree
<1>6. ASSUME NEW k \in S
      PROVE  /\ e[k] \in DOMAIN T
             /\ T[e[k]].side = s /\ T[e[k]].price = p
             /\ g[e[k]] = f[k]
  <2>1. /\ e[k] \in DOMAIN RestingMap(b)
        /\ RestingMap(b)[e[k]] = EntryOf(s, p, q[k])
      BY <1>4, RestingAt
  <2>2. e[k] \in DOMAIN T
      BY <2>1 DEF RestingMap
  <2>3. T[e[k]] = [side |-> s, price |-> p,
                   remaining_quantity |-> q[k].remaining_quantity]
      BY <2>1, <2>2 DEF Brief, EntryOf
  <2>4. g[e[k]] = T[e[k]].remaining_quantity
      BY <2>2 DEF Lefts
  <2> HIDE DEF e, g, f, S
  <2> QED
      BY <1>3, <2>2, <2>3, <2>4
<1>7. ASSUME NEW i \in Standing(T, s, p) PROVE \E k \in S : i = e[k]
  <2>1. i \in DOMAIN b.order_locations /\ T[i].side = s /\ T[i].price = p
      BY DEF Standing
  <2>2. PICK s2 \in Sides, p2 \in Prices, k \in Nat : At(b, i, s2, p2, k)
      BY <1>1, <2>1 DEF PlacesAgree
  <2>3. RestingMap(b)[i] = EntryOf(s2, p2, Queue(b, s2, p2)[k])
      BY <2>2, RestingAt
  <2>4. s2 = s /\ p2 = p
    <3>1. T[i] = Brief(EntryOf(s2, p2, Queue(b, s2, p2)[k]))
        BY <2>1, <2>3
    <3> QED
        BY <2>1, <3>1 DEF Brief, EntryOf
  <2>5. k \in S /\ q[k].order_id = i
      BY <2>2, <2>4 DEF At
  <2> QED
      BY <2>5
<1>8. Standing(T, s, p) = {e[k] : k \in S}
  <2>1. \A k \in S : e[k] \in Standing(T, s, p)
      BY <1>6 DEF Standing
  <2> HIDE DEF e, S
  <2> QED
      BY <1>7, <2>1
<1> HIDE DEF e, f, g, S, q
<1>9. SumFunctionOnSet(g, {e[k] : k \in S}) = SumFunctionOnSet(f, S)
    BY <1>3, <1>5, <1>6, SumRenamed
<1> QED
    BY <1>3, <1>8, <1>9 DEF Held, g, q

\* No aggregate is taken below zero, and the published depth never hides
\* quantity that rests in the book.
THEOREM DepthIsNeverUnderstated == MDSpec => []DepthNeverUnderstated
<1>1. MDInv /\ SubscriberIsCurrent => DepthNeverUnderstated
  <2> SUFFICES ASSUME MDInv, SubscriberIsCurrent, NEW l \in LevelKeys
               PROVE  /\ md.level_quantities[l] >= 0
                      /\ Quiet => md.view[l] >= BookDepth(l)
      BY DEF DepthNeverUnderstated
  <2>1. PICK s \in Sides, p \in Prices : l = <<s, p>>
      BY DEF LevelKeys
  <2>2. /\ IsTracked(md.orders) /\ md.level_quantities[l] \in Int
        /\ Held(md.orders, s, p) <= md.level_quantities[l]
      BY <2>1 DEF MDInv, PublisherOK, IsPublisher, Covered
  <2>3. Held(md.orders, s, p) \in Nat
      BY <2>2, HeldType
  <2>4. md.level_quantities[l] >= 0
      BY <2>2, <2>3
  <2>5. ASSUME Quiet PROVE md.view[l] >= BookDepth(l)
    <3>1. md.orders = Now /\ Running(taker, remaining) = {} /\ IsSound(book)
        BY <2>5 DEF MDInv, Quiet, Idle, Running, IndInv, TypeOK, IsSound,
                    BookIndexConsistent
    <3>2. md.orders = [i \in DOMAIN book.order_locations |-> Brief(RestingMap(book)[i])]
        BY <3>1 DEF Now, OpenOrders
    <3>3. LevelQuantity(Queue(book, s, p)) = Held(md.orders, s, p)
        BY <3>1, <3>2, DepthIsHeld
    <3>4. BookDepth(l) = LevelQuantity(Queue(book, s, p))
        BY <2>1, EmptyQuantity DEF BookDepth, Queue
    <3>5. md.view[l] = md.level_quantities[l]
        BY <2>5 DEF SubscriberIsCurrent
    <3> QED
        BY <2>2, <2>3, <3>3, <3>4, <3>5
  <2> QED
      BY <2>4, <2>5
<1> QED
    BY <1>1, MDInvHolds, SubscribersAreCurrent, PTL
=============================================================================
