---------------------------- MODULE EngineProofs ----------------------------
(***************************************************************************)
(* Proofs of the properties of MatchingEngine for every set of instruments,*)
(* ids and accounts, every width and every configuration of the limits; of *)
(* the positions, for the configurations of LimitsFit.                     *)
(*                                                                         *)
(* The reservations are the open orders only while nobody is inside a      *)
(* call.  Inside one, the inductive invariant keeps a ledger: the          *)
(* reservation of every order is what rests of it in its book, plus what is*)
(* still to be matched of it, plus what the trades of the batch that apply *)
(* has not seen will take from it.  An order that apply will release as a  *)
(* whole only has to have enough for those trades.                         *)
(*                                                                         *)
(* The sections follow the argument: sums over reservations, what release, *)
(* reserve and update_position do to an account, what the book does to the *)
(* resting orders, the invariant, one lemma per action, the theorems.      *)
(***************************************************************************)
EXTENDS MatchingEngine, BookProofs

----------------------------------------------------------------------------
(* Arithmetic                                                               *)

\* Division with remainder.
LEMMA DivMod ==
    ASSUME NEW x \in Nat, NEW m \in Nat \ {0}
    PROVE  /\ x \div m \in Nat /\ x % m \in 0 .. m - 1
           /\ x = (x \div m) * m + (x % m)
    OBVIOUS

\* A quotient is bounded by what its dividend is.
LEMMA DivBound ==
    ASSUME NEW x \in Nat, NEW y \in Nat, NEW m \in Nat \ {0}, x <= y * m
    PROVE  x \div m \in 0 .. y
    OBVIOUS

\* The widths are natural numbers.
LEMMA Widths == IntMax \in Nat /\ UMax \in Nat /\ UMax = 2 * IntMax + 1
    BY RiskAssumption DEF UMax

\* Unsigned arithmetic stays in the width and is exact where the exact value
\* does.
LEMMA UnsignedFacts ==
    /\ \A x \in Int : Unsigned(x) \in 0 .. UMax
    /\ \A x \in 0 .. UMax : Unsigned(x) = x
    BY Widths DEF Unsigned

\* So does signed arithmetic.
LEMMA SignedFacts ==
    /\ \A x \in Int : Signed(x) \in (-IntMax - 1) .. IntMax
    /\ \A x \in (-IntMax - 1) .. IntMax : Signed(x) = x
    BY Widths DEF Signed

\* A saturated product is at most the product and at most the width.
LEMMA SaturatedFacts ==
    ASSUME NEW x \in Nat, NEW y \in Nat
    PROVE  /\ saturated_multiply(x, y) \in 0 .. UMax
           /\ saturated_multiply(x, y) <= x * y
<1>1. UMax \in Nat
    BY Widths
<1>2. CASE x = 0 \/ y = 0
    BY <1>1, <1>2 DEF saturated_multiply
<1>3. CASE x # 0 /\ y # 0
  <2> DEFINE d == UMax \div y
             m == UMax % y
  <2>1. d \in Nat /\ m \in 0 .. y - 1 /\ UMax = d * y + m
      BY <1>1, <1>3, DivMod
  <2> HIDE DEF d, m
  <2>2. CASE x > d
    <3>1. x * y >= (d + 1) * y
        BY <2>1, <2>2
    <3>2. x * y \in Nat /\ (d + 1) * y = d * y + y /\ d * y \in Nat
        BY <2>1
    <3>3. x * y >= UMax
        BY <2>1, <3>1, <3>2
    <3> QED
        BY <1>1, <1>3, <2>2, <3>3 DEF saturated_multiply, d
  <2>3. CASE ~(x > d)
    <3>1. x * y <= d * y /\ x * y \in Nat /\ d * y \in Nat
        BY <2>1, <2>3
    <3> QED
        BY <1>1, <1>3, <2>1, <2>3, <3>1 DEF saturated_multiply, d
  <2> QED
      BY <2>2, <2>3
<1> QED
    BY <1>2, <1>3

\* A partial fill never sets free more margin than is reserved, although the
\* products are saturated and the quotients rounded.
LEMMA ReleaseWithinReserved ==
    ASSUME NEW reserved \in 0 .. UMax, NEW left \in Nat \ {0},
           NEW released \in 0 .. left
    PROVE  proportional_release(reserved, released, left) \in 0 .. reserved
<1> DEFINE d == reserved \div left
           m == reserved % left
           A == saturated_multiply(d, released)
           B == saturated_multiply(m, released)
           C == B \div left
<1>1. UMax \in Nat /\ reserved \in Nat
    BY Widths
<1>2. d \in Nat /\ m \in 0 .. left - 1 /\ reserved = d * left + m
    BY <1>1, DivMod
<1> HIDE DEF d, m
<1>0. m \in Nat /\ released \in Nat
    BY <1>2
<1>3. A \in 0 .. UMax /\ A <= d * released
    BY <1>0, <1>2, SaturatedFacts, Zenon
<1>4. B \in 0 .. UMax /\ B <= m * released
    BY <1>0, <1>2, SaturatedFacts, Zenon
<1> HIDE DEF A, B
<1>5. d * released <= d * left /\ d * released \in Nat /\ d * left \in Nat
    BY <1>2
<1>6. m * released <= m * left /\ m * released \in Nat /\ m * left \in Nat
    BY <1>2
<1>7. B \in Nat /\ B <= m * left
    BY <1>1, <1>4, <1>6
<1>8. C \in 0 .. m
    BY <1>2, <1>7, DivBound
<1> HIDE DEF C
<1>9. A + C \in 0 .. reserved
    BY <1>1, <1>2, <1>3, <1>5, <1>8
<1>10. A + C \in 0 .. UMax
    BY <1>1, <1>9
<1>11. proportional_release(reserved, released, left) = Unsigned(A + C)
    BY DEF proportional_release, A, B, C, d, m
<1> QED
    BY <1>9, <1>10, <1>11, UnsignedFacts

----------------------------------------------------------------------------
(* Sums over reservations                                                   *)

\* Two sums whose sets and functions differ at one element only.
LEMMA SumShift ==
    ASSUME NEW f, NEW g, NEW S, NEW T, NEW y,
           IsFiniteSet(S), IsFiniteSet(T), S \ {y} = T \ {y},
           \A x \in S : f[x] \in Int, \A x \in T : g[x] \in Int,
           \A x \in S \ {y} : g[x] = f[x]
    PROVE  /\ SumFunctionOnSet(f, S) \in Int /\ SumFunctionOnSet(g, T) \in Int
           /\ SumFunctionOnSet(g, T) =
                SumFunctionOnSet(f, S) - (IF y \in S THEN f[y] ELSE 0)
                                       + (IF y \in T THEN g[y] ELSE 0)
<1> DEFINE U == S \ {y}
           a == SumFunctionOnSet(f, S)
           b == SumFunctionOnSet(g, T)
           c == SumFunctionOnSet(f, U)
           d == SumFunctionOnSet(g, U)
<1>1. IsFiniteSet(U) /\ U = T \ {y}
    BY FS_Subset
<1>2. a \in Int /\ b \in Int
    BY SumType
<1>3. c \in Int
  <2>1. \A x \in U : f[x] \in Int
      OBVIOUS
  <2> HIDE DEF U
  <2> QED
      BY <1>1, <2>1, SumType
<1>4. c = d
  <2>1. \A x \in U : f[x] = g[x]
      OBVIOUS
  <2> HIDE DEF U
  <2> QED
      BY <1>1, <2>1, SumAgree
<1>5. y \in S => a = f[y] + c
    BY SumRemove
<1>6. y \notin S => a = c
  <2>1. y \notin S => U = S
      OBVIOUS
  <2> QED
      BY <2>1
<1>7. y \in T => b = g[y] + d
    BY <1>1, SumRemove
<1>8. y \notin T => b = d
  <2>1. y \notin T => U = T
      BY <1>1
  <2> QED
      BY <2>1
<1>9. (y \in S => f[y] \in Int) /\ (y \in T => g[y] \in Int)
    OBVIOUS
<1> HIDE DEF a, b, c, d, U
<1>10. b = a - (IF y \in S THEN f[y] ELSE 0) + (IF y \in T THEN g[y] ELSE 0)
    BY <1>2, <1>3, <1>4, <1>5, <1>6, <1>7, <1>8, <1>9
<1> QED
    BY <1>2, <1>10 DEF a, b

\* A finite map of reservations, as reservations_ is.
IsReserved(R) ==
    /\ DOMAIN R \subseteq OrderKeys
    /\ R \in [DOMAIN R -> Reservations]
    /\ IsFiniteSet(DOMAIN R)

\* The reservations of an account in an instrument, and those of one side.
OfAccount(R, a, i) ==
    {key \in DOMAIN R : key[1] = i /\ R[key].account_id = a}

OfSide(R, a, i, s) == {key \in OfAccount(R, a, i) : R[key].side = s}

\* What is reserved for each order.
ReservedQuantities(R) == [key \in DOMAIN R |-> R[key].remaining_quantity]
ReservedMargins(R)    == [key \in DOMAIN R |-> R[key].reserved_margin]

\* The quantity and the margin reserved for an account in an instrument.
ReservedOn(R, a, i, s) ==
    SumFunctionOnSet(ReservedQuantities(R), OfSide(R, a, i, s))
MarginOf(R, a, i) == SumFunctionOnSet(ReservedMargins(R), OfAccount(R, a, i))

\* What one reservation contributes to them.
QuantityFor(R, key, a, i, s) ==
    IF key \in OfSide(R, a, i, s) THEN R[key].remaining_quantity ELSE 0
MarginFor(R, key, a, i) ==
    IF key \in OfAccount(R, a, i) THEN R[key].reserved_margin ELSE 0

\* The sets are finite and the values natural numbers.
LEMMA ReservedSums ==
    ASSUME NEW R, IsReserved(R), NEW a, NEW i, NEW s
    PROVE  /\ IsFiniteSet(OfAccount(R, a, i)) /\ IsFiniteSet(OfSide(R, a, i, s))
           /\ OfSide(R, a, i, s) \subseteq DOMAIN R
           /\ OfAccount(R, a, i) \subseteq DOMAIN R
           /\ \A key \in DOMAIN R :
                /\ ReservedQuantities(R)[key] = R[key].remaining_quantity
                /\ ReservedMargins(R)[key] = R[key].reserved_margin
                /\ ReservedQuantities(R)[key] \in Nat
                /\ ReservedMargins(R)[key] \in Nat
                /\ R[key].remaining_quantity \in 1 .. MaxQuantity
                /\ R[key].reserved_margin \in 0 .. UMax
           /\ ReservedOn(R, a, i, s) \in Nat
           /\ MarginOf(R, a, i) \in Nat
           /\ \A key : QuantityFor(R, key, a, i, s) <= ReservedOn(R, a, i, s)
           /\ \A key : MarginFor(R, key, a, i) <= MarginOf(R, a, i)
<1> DEFINE A == OfAccount(R, a, i)
           S == OfSide(R, a, i, s)
           f == ReservedQuantities(R)
           g == ReservedMargins(R)
<1>1. A \subseteq DOMAIN R /\ S \subseteq DOMAIN R
    BY DEF OfAccount, OfSide
<1>2. IsFiniteSet(A) /\ IsFiniteSet(S)
    BY <1>1, FS_Subset DEF IsReserved
<1>3. \A key \in DOMAIN R :
        /\ R[key].remaining_quantity \in 1 .. MaxQuantity
        /\ R[key].reserved_margin \in 0 .. UMax
    BY DEF IsReserved, Reservations, Quantities
<1>4. \A key \in DOMAIN R :
        /\ f[key] = R[key].remaining_quantity /\ f[key] \in Nat
        /\ g[key] = R[key].reserved_margin /\ g[key] \in Nat
    BY <1>3, BookAssumption, Widths DEF ReservedQuantities, ReservedMargins
<1>5. ReservedOn(R, a, i, s) = SumFunctionOnSet(f, S)
      /\ MarginOf(R, a, i) = SumFunctionOnSet(g, A)
    BY DEF ReservedOn, MarginOf
<1>6. \A key : /\ QuantityFor(R, key, a, i, s) = IF key \in S THEN f[key] ELSE 0
               /\ MarginFor(R, key, a, i) = IF key \in A THEN g[key] ELSE 0
    BY <1>1, <1>4 DEF QuantityFor, MarginFor
<1> HIDE DEF A, S, f, g
<1>7. (\A key \in S : f[key] \in Nat) /\ (\A key \in A : g[key] \in Nat)
      /\ (\A key \in S : f[key] \in Int) /\ (\A key \in A : g[key] \in Int)
    BY <1>1, <1>4
<1>8. SumFunctionOnSet(f, S) \in Nat /\ SumFunctionOnSet(g, A) \in Nat
    BY <1>2, <1>7, SumType
<1>9. /\ \A key \in S : f[key] <= SumFunctionOnSet(f, S)
      /\ \A key \in A : g[key] <= SumFunctionOnSet(g, A)
    BY <1>2, <1>7, SumBound
<1>10. /\ \A key : QuantityFor(R, key, a, i, s) <= ReservedOn(R, a, i, s)
       /\ \A key : MarginFor(R, key, a, i) <= MarginOf(R, a, i)
    BY <1>5, <1>6, <1>8, <1>9
<1> QED
    BY <1>1, <1>2, <1>3, <1>4, <1>5, <1>8, <1>10 DEF A, S, f, g

\* Nothing but the reservation of one order differs.
OneChange(R2, R, key) ==
    \A k : k # key => /\ k \in DOMAIN R2 <=> k \in DOMAIN R
                      /\ k \in DOMAIN R => R2[k] = R[k]

\* The totals move by what that reservation contributes.
LEMMA TotalsShift ==
    ASSUME NEW R, IsReserved(R), NEW R2, IsReserved(R2), NEW key,
           OneChange(R2, R, key), NEW a, NEW i, NEW s
    PROVE  /\ ReservedOn(R2, a, i, s) =
                ReservedOn(R, a, i, s) - QuantityFor(R, key, a, i, s)
                                       + QuantityFor(R2, key, a, i, s)
           /\ MarginOf(R2, a, i) =
                MarginOf(R, a, i) - MarginFor(R, key, a, i)
                                  + MarginFor(R2, key, a, i)
<1>1. /\ IsFiniteSet(OfAccount(R, a, i)) /\ IsFiniteSet(OfSide(R, a, i, s))
      /\ OfSide(R, a, i, s) \subseteq DOMAIN R
      /\ OfAccount(R, a, i) \subseteq DOMAIN R
      /\ \A k \in DOMAIN R :
           /\ ReservedQuantities(R)[k] = R[k].remaining_quantity
           /\ ReservedMargins(R)[k] = R[k].reserved_margin
           /\ ReservedQuantities(R)[k] \in Nat
           /\ ReservedMargins(R)[k] \in Nat
    BY ReservedSums
<1>2. /\ IsFiniteSet(OfAccount(R2, a, i)) /\ IsFiniteSet(OfSide(R2, a, i, s))
      /\ OfSide(R2, a, i, s) \subseteq DOMAIN R2
      /\ OfAccount(R2, a, i) \subseteq DOMAIN R2
      /\ \A k \in DOMAIN R2 :
           /\ ReservedQuantities(R2)[k] = R2[k].remaining_quantity
           /\ ReservedMargins(R2)[k] = R2[k].reserved_margin
           /\ ReservedQuantities(R2)[k] \in Nat
           /\ ReservedMargins(R2)[k] \in Nat
    BY ReservedSums
<1>3. /\ OfAccount(R, a, i) \ {key} = OfAccount(R2, a, i) \ {key}
      /\ OfSide(R, a, i, s) \ {key} = OfSide(R2, a, i, s) \ {key}
    BY DEF OneChange, OfAccount, OfSide
<1>4. ReservedOn(R2, a, i, s) =
        ReservedOn(R, a, i, s) - QuantityFor(R, key, a, i, s)
                               + QuantityFor(R2, key, a, i, s)
  <2> DEFINE f == ReservedQuantities(R)
             g == ReservedQuantities(R2)
             S == OfSide(R, a, i, s)
             T == OfSide(R2, a, i, s)
  <2>1. /\ IsFiniteSet(S) /\ IsFiniteSet(T) /\ S \ {key} = T \ {key}
        /\ \A x \in S : f[x] \in Int
        /\ \A x \in T : g[x] \in Int
      BY <1>1, <1>2, <1>3
  <2>2. \A x \in S \ {key} : g[x] = f[x]
      BY <1>1, <1>2, <1>3 DEF OneChange
  <2>3. /\ QuantityFor(R, key, a, i, s) = IF key \in S THEN f[key] ELSE 0
        /\ QuantityFor(R2, key, a, i, s) = IF key \in T THEN g[key] ELSE 0
      BY <1>1, <1>2 DEF QuantityFor
  <2>4. /\ ReservedOn(R, a, i, s) = SumFunctionOnSet(f, S)
        /\ ReservedOn(R2, a, i, s) = SumFunctionOnSet(g, T)
      BY DEF ReservedOn
  <2> HIDE DEF f, g, S, T
  <2>5. SumFunctionOnSet(g, T) =
          SumFunctionOnSet(f, S) - (IF key \in S THEN f[key] ELSE 0)
                                 + (IF key \in T THEN g[key] ELSE 0)
      BY <2>1, <2>2, SumShift
  <2> QED
      BY <2>3, <2>4, <2>5
<1>5. MarginOf(R2, a, i) =
        MarginOf(R, a, i) - MarginFor(R, key, a, i) + MarginFor(R2, key, a, i)
  <2> DEFINE f == ReservedMargins(R)
             g == ReservedMargins(R2)
             S == OfAccount(R, a, i)
             T == OfAccount(R2, a, i)
  <2>1. /\ IsFiniteSet(S) /\ IsFiniteSet(T) /\ S \ {key} = T \ {key}
        /\ \A x \in S : f[x] \in Int
        /\ \A x \in T : g[x] \in Int
      BY <1>1, <1>2, <1>3
  <2>2. \A x \in S \ {key} : g[x] = f[x]
      BY <1>1, <1>2, <1>3 DEF OneChange
  <2>3. /\ MarginFor(R, key, a, i) = IF key \in S THEN f[key] ELSE 0
        /\ MarginFor(R2, key, a, i) = IF key \in T THEN g[key] ELSE 0
      BY <1>1, <1>2 DEF MarginFor
  <2>4. /\ MarginOf(R, a, i) = SumFunctionOnSet(f, S)
        /\ MarginOf(R2, a, i) = SumFunctionOnSet(g, T)
      BY DEF MarginOf
  <2> HIDE DEF f, g, S, T
  <2>5. SumFunctionOnSet(g, T) =
          SumFunctionOnSet(f, S) - (IF key \in S THEN f[key] ELSE 0)
                                 + (IF key \in T THEN g[key] ELSE 0)
      BY <2>1, <2>2, SumShift
  <2> QED
      BY <2>3, <2>4, <2>5
<1> QED
    BY <1>4, <1>5

----------------------------------------------------------------------------
(* The account state and its reservations                                   *)

\* A typed account state with finitely many reservations.
SoundRisk(rs) == IsRisk(rs) /\ IsFiniteSet(DOMAIN rs.reservations)

\* TotalsAreSums of a given state.
Totals(rs) ==
    \A a \in AccountIds, i \in Instruments :
        LET st == rs.account_states[<<a, i>>]
            R  == rs.reservations
        IN  /\ st.buy_reserved_quantity = ReservedOn(R, a, i, "buy")
            /\ st.sell_reserved_quantity = ReservedOn(R, a, i, "sell")
            /\ st.open_order_quantity =
                 ReservedOn(R, a, i, "buy") + ReservedOn(R, a, i, "sell")
            /\ st.reserved_margin = MarginOf(R, a, i)

\* The types of the parts of an account state.
LEMMA RiskFacts ==
    ASSUME NEW rs, SoundRisk(rs)
    PROVE  /\ IsReserved(rs.reservations)
           /\ rs.account_states \in [AccountIds \X Instruments -> AccountStates]
           /\ \A key \in DOMAIN rs.reservations :
                LET res == rs.reservations[key]
                IN  /\ key \in OrderKeys /\ key[1] \in Instruments
                    /\ res \in Reservations
                    /\ res.account_id \in AccountIds /\ res.side \in Sides
                    /\ res.remaining_quantity \in 1 .. MaxQuantity
                    /\ res.reserved_margin \in 0 .. UMax
<1>1. /\ IsReserved(rs.reservations)
      /\ rs.account_states \in [AccountIds \X Instruments -> AccountStates]
    BY DEF SoundRisk, IsRisk, IsReserved
<1>2. \A key \in DOMAIN rs.reservations :
        key \in OrderKeys /\ rs.reservations[key] \in Reservations
    BY <1>1 DEF IsReserved
<1>3. \A key \in OrderKeys : key[1] \in Instruments
    BY DEF OrderKeys
<1>4. \A res \in Reservations :
        /\ res.account_id \in AccountIds /\ res.side \in Sides
        /\ res.remaining_quantity \in 1 .. MaxQuantity
        /\ res.reserved_margin \in 0 .. UMax
    BY DEF Reservations, Quantities
<1> QED
    BY <1>1, <1>2, <1>3, <1>4

\* The types of the fields of one account.
LEMMA StateFacts ==
    ASSUME NEW st \in AccountStates
    PROVE  /\ st.position \in (-IntMax - 1) .. IntMax
           /\ st.position \in Int
           /\ st.open_order_quantity \in 0 .. UMax
           /\ st.buy_reserved_quantity \in 0 .. UMax
           /\ st.sell_reserved_quantity \in 0 .. UMax
           /\ st.reserved_margin \in 0 .. UMax
           /\ st = [position |-> st.position,
                    open_order_quantity |-> st.open_order_quantity,
                    buy_reserved_quantity |-> st.buy_reserved_quantity,
                    sell_reserved_quantity |-> st.sell_reserved_quantity,
                    reserved_margin |-> st.reserved_margin]
    BY Widths DEF AccountStates

\* The totals of an account after a change by n units and mg of margin.
Moved(st, side, n, mg) ==
    [position |-> st.position,
     open_order_quantity |-> Unsigned(st.open_order_quantity + n),
     buy_reserved_quantity |->
        IF side = "buy" THEN Unsigned(st.buy_reserved_quantity + n)
                        ELSE st.buy_reserved_quantity,
     sell_reserved_quantity |->
        IF side = "buy" THEN st.sell_reserved_quantity
                        ELSE Unsigned(st.sell_reserved_quantity + n),
     reserved_margin |-> Unsigned(st.reserved_margin + mg)]

\* AddReserved field by field.
LEMMA MovedState ==
    ASSUME NEW st \in AccountStates, NEW side \in Sides, NEW n \in Int, NEW mg \in Int
    PROVE  /\ AddReserved(st, side, n, mg) = Moved(st, side, n, mg)
           /\ Moved(st, side, n, mg) \in AccountStates
<1> DEFINE u == Unsigned(st.open_order_quantity + n)
           v == Unsigned(st.reserved_margin + mg)
           w == Unsigned(st.buy_reserved_quantity + n)
           z == Unsigned(st.sell_reserved_quantity + n)
           s0 == [st EXCEPT !.open_order_quantity = u]
           s1 == [s0 EXCEPT !.reserved_margin = v]
<1>1. /\ u \in 0 .. UMax /\ v \in 0 .. UMax /\ w \in 0 .. UMax /\ z \in 0 .. UMax
    BY StateFacts, UnsignedFacts, Widths
<1>2. /\ AddReserved(st, side, n, mg) =
           IF side = "buy" THEN [s1 EXCEPT !.buy_reserved_quantity = Unsigned(@ + n)]
                           ELSE [s1 EXCEPT !.sell_reserved_quantity = Unsigned(@ + n)]
    BY DEF AddReserved
<1> HIDE DEF u, v
<1>3. s0 = [position |-> st.position,
            open_order_quantity |-> u,
            buy_reserved_quantity |-> st.buy_reserved_quantity,
            sell_reserved_quantity |-> st.sell_reserved_quantity,
            reserved_margin |-> st.reserved_margin]
    BY DEF AccountStates
<1> HIDE DEF s0
<1>4. s1 = [position |-> st.position,
            open_order_quantity |-> u,
            buy_reserved_quantity |-> st.buy_reserved_quantity,
            sell_reserved_quantity |-> st.sell_reserved_quantity,
            reserved_margin |-> v]
    BY <1>3
<1> HIDE DEF s1
<1>5. AddReserved(st, side, n, mg) = Moved(st, side, n, mg)
    BY <1>2, <1>4 DEF Moved, Sides, u, v
<1>6. Moved(st, side, n, mg) \in AccountStates
  <2> HIDE DEF w, z
  <2> QED
      BY <1>1, StateFacts DEF Moved, AccountStates, Sides, w, z, u, v
<1> QED
    BY <1>5, <1>6

\* n units of the reservation are given back, to the totals of its account
\* too, and the reservation with the last of them.
Lowered(rs2, rs, key, n) ==
    LET R   == rs.reservations
        R2  == rs2.reservations
        res == R[key]
    IN  /\ n \in 1 .. res.remaining_quantity
        /\ OneChange(R2, R, key)
        /\ key \in DOMAIN R2 <=> n < res.remaining_quantity
        /\ key \in DOMAIN R2 =>
             /\ R2[key].remaining_quantity = res.remaining_quantity - n
             /\ R2[key].account_id = res.account_id
             /\ R2[key].side = res.side
        /\ \A a \in AccountIds, i \in Instruments :
             LET st   == rs.account_states[<<a, i>>]
                 st2  == rs2.account_states[<<a, i>>]
                 own(s) == a = res.account_id /\ i = key[1] /\ s = res.side
             IN  /\ st2.position = st.position
                 /\ st2.open_order_quantity <= st.open_order_quantity
                 /\ st2.reserved_margin <= st.reserved_margin
                 /\ st2.buy_reserved_quantity =
                      st.buy_reserved_quantity - (IF own("buy") THEN n ELSE 0)
                 /\ st2.sell_reserved_quantity =
                      st.sell_reserved_quantity - (IF own("sell") THEN n ELSE 0)

\* The reservation of an order changes by n units and mg of margin, the totals
\* of its account by as much, and no total leaves the width.
Moves(rs2, rs, key, acct, side, n, mg) ==
    LET k0 == <<acct, key[1]>>
        st == rs.account_states[k0]
    IN  /\ rs2.account_states =
             [rs.account_states EXCEPT ![k0] = Moved(st, side, n, mg)]
        /\ \A a \in AccountIds, i \in Instruments, s \in Sides :
             /\ QuantityFor(rs2.reservations, key, a, i, s) =
                  QuantityFor(rs.reservations, key, a, i, s)
                    + (IF a = acct /\ i = key[1] /\ s = side THEN n ELSE 0)
             /\ MarginFor(rs2.reservations, key, a, i) =
                  MarginFor(rs.reservations, key, a, i)
                    + (IF a = acct /\ i = key[1] THEN mg ELSE 0)
        /\ st.open_order_quantity + n \in 0 .. UMax
        /\ st.reserved_margin + mg \in 0 .. UMax
        /\ side = "buy" => st.buy_reserved_quantity + n \in 0 .. UMax
        /\ side = "sell" => st.sell_reserved_quantity + n \in 0 .. UMax

\* What that makes of the totals.
AfterMove(rs2, rs, key, acct, side, n, mg) ==
    \A a \in AccountIds, i \in Instruments :
        LET st   == rs.account_states[<<a, i>>]
            st2  == rs2.account_states[<<a, i>>]
            here == a = acct /\ i = key[1]
        IN  /\ st2.position = st.position
            /\ st2.open_order_quantity =
                 st.open_order_quantity + (IF here THEN n ELSE 0)
            /\ st2.reserved_margin =
                 st.reserved_margin + (IF here THEN mg ELSE 0)
            /\ st2.buy_reserved_quantity = st.buy_reserved_quantity
                 + (IF here /\ side = "buy" THEN n ELSE 0)
            /\ st2.sell_reserved_quantity = st.sell_reserved_quantity
                 + (IF here /\ side = "sell" THEN n ELSE 0)

\* The totals of an account move with its reservations when nothing leaves the
\* width.
LEMMA MovedTotals ==
    ASSUME NEW rs, SoundRisk(rs), Totals(rs), NEW rs2,
           IsReserved(rs2.reservations), NEW key \in OrderKeys,
           OneChange(rs2.reservations, rs.reservations, key),
           NEW acct \in AccountIds, NEW side \in Sides, NEW n \in Int, NEW mg \in Int,
           Moves(rs2, rs, key, acct, side, n, mg)
    PROVE  /\ Totals(rs2)
           /\ rs2.account_states \in [AccountIds \X Instruments -> AccountStates]
           /\ AfterMove(rs2, rs, key, acct, side, n, mg)
<1> DEFINE R  == rs.reservations
           R2 == rs2.reservations
           ks == rs.account_states
           k0 == <<acct, key[1]>>
           m  == Moved(ks[k0], side, n, mg)
<1>1. /\ IsReserved(R) /\ ks \in [AccountIds \X Instruments -> AccountStates]
      /\ key[1] \in Instruments
    BY RiskFacts DEF OrderKeys
<1>2. m \in AccountStates
    BY <1>1, MovedState
<1>3. \A a \in AccountIds, i \in Instruments :
        /\ ks[<<a, i>>] \in AccountStates
        /\ rs2.account_states[<<a, i>>] =
             IF a = acct /\ i = key[1] THEN m ELSE ks[<<a, i>>]
  <2> HIDE DEF m
  <2>1. rs2.account_states = [ks EXCEPT ![k0] = m]
      BY DEF m, Moves
  <2> HIDE DEF ks
  <2> QED
      BY <1>1, <2>1
<1>4. rs2.account_states \in [AccountIds \X Instruments -> AccountStates]
  <2>1. rs2.account_states = [ks EXCEPT ![k0] = m]
      BY DEF Moves
  <2> HIDE DEF m, ks
  <2> QED
      BY <1>1, <1>2, <2>1
<1>5. /\ m.position = ks[k0].position
      /\ m.open_order_quantity = ks[k0].open_order_quantity + n
      /\ m.reserved_margin = ks[k0].reserved_margin + mg
      /\ m.buy_reserved_quantity =
           ks[k0].buy_reserved_quantity + (IF side = "buy" THEN n ELSE 0)
      /\ m.sell_reserved_quantity =
           ks[k0].sell_reserved_quantity + (IF side = "sell" THEN n ELSE 0)
  <2> DEFINE st == ks[k0]
  <2>1. st \in AccountStates
      BY <1>3, <1>1
  <2>2. /\ st.open_order_quantity + n \in 0 .. UMax
        /\ st.reserved_margin + mg \in 0 .. UMax
        /\ side = "buy" => st.buy_reserved_quantity + n \in 0 .. UMax
        /\ side = "sell" => st.sell_reserved_quantity + n \in 0 .. UMax
      BY DEF Moves
  <2>3. m = Moved(st, side, n, mg)
      OBVIOUS
  <2> HIDE DEF st, m
  <2>4. st.buy_reserved_quantity \in Int /\ st.sell_reserved_quantity \in Int
      BY <2>1, StateFacts, Widths
  <2>5. side = "buy" \/ side = "sell"
      BY DEF Sides
  <2>6. /\ m.position = st.position
        /\ m.open_order_quantity = st.open_order_quantity + n
        /\ m.reserved_margin = st.reserved_margin + mg
        /\ m.buy_reserved_quantity =
             st.buy_reserved_quantity + (IF side = "buy" THEN n ELSE 0)
        /\ m.sell_reserved_quantity =
             st.sell_reserved_quantity + (IF side = "sell" THEN n ELSE 0)
      BY <2>2, <2>3, <2>4, <2>5, UnsignedFacts DEF Moved
  <2> QED
      BY <2>6 DEF st
<1> HIDE DEF m, ks, k0
<1>6. ASSUME NEW a \in AccountIds, NEW i \in Instruments
      PROVE  LET st   == ks[<<a, i>>]
                 st2  == rs2.account_states[<<a, i>>]
                 here == a = acct /\ i = key[1]
             IN  /\ st2.position = st.position
                 /\ st2.open_order_quantity =
                      st.open_order_quantity + (IF here THEN n ELSE 0)
                 /\ st2.reserved_margin =
                      st.reserved_margin + (IF here THEN mg ELSE 0)
                 /\ st2.buy_reserved_quantity = st.buy_reserved_quantity
                      + (IF here /\ side = "buy" THEN n ELSE 0)
                 /\ st2.sell_reserved_quantity = st.sell_reserved_quantity
                      + (IF here /\ side = "sell" THEN n ELSE 0)
  <2>1. CASE a = acct /\ i = key[1]
    <3>1. rs2.account_states[<<a, i>>] = m /\ ks[<<a, i>>] = ks[k0]
        BY <1>3, <2>1 DEF k0
    <3> QED
        BY <1>5, <2>1, <3>1
  <2>2. CASE ~(a = acct /\ i = key[1])
    <3> DEFINE st == ks[<<a, i>>]
    <3>1. rs2.account_states[<<a, i>>] = st
        BY <1>3, <2>2
    <3>2. st \in AccountStates
        BY <1>3
    <3> HIDE DEF st
    <3>3. /\ st.open_order_quantity \in Int /\ st.reserved_margin \in Int
          /\ st.buy_reserved_quantity \in Int /\ st.sell_reserved_quantity \in Int
        BY <3>2, StateFacts, Widths
    <3> QED
        BY <2>2, <3>1, <3>3 DEF st
  <2> QED
      BY <2>1, <2>2
<1>7. Totals(rs2)
  <2> SUFFICES ASSUME NEW a \in AccountIds, NEW i \in Instruments
               PROVE  LET st2 == rs2.account_states[<<a, i>>]
                      IN  /\ st2.buy_reserved_quantity = ReservedOn(R2, a, i, "buy")
                          /\ st2.sell_reserved_quantity = ReservedOn(R2, a, i, "sell")
                          /\ st2.open_order_quantity = ReservedOn(R2, a, i, "buy")
                               + ReservedOn(R2, a, i, "sell")
                          /\ st2.reserved_margin = MarginOf(R2, a, i)
      BY DEF Totals
  <2> DEFINE st == ks[<<a, i>>]
             b  == ReservedOn(R, a, i, "buy")
             c  == ReservedOn(R, a, i, "sell")
             d  == MarginOf(R, a, i)
             nb == IF a = acct /\ i = key[1] /\ "buy" = side THEN n ELSE 0
             ns == IF a = acct /\ i = key[1] /\ "sell" = side THEN n ELSE 0
             nm == IF a = acct /\ i = key[1] THEN mg ELSE 0
  <2>1. /\ st.buy_reserved_quantity = b /\ st.sell_reserved_quantity = c
        /\ st.open_order_quantity = b + c /\ st.reserved_margin = d
      BY DEF Totals, ks
  <2>2. b \in Nat /\ c \in Nat /\ d \in Nat
      BY <1>1, ReservedSums
  <2>3. nb \in Int /\ ns \in Int /\ nm \in Int
      OBVIOUS
  <2>4. ReservedOn(R2, a, i, "buy") = b + nb
    <3> DEFINE x == QuantityFor(R, key, a, i, "buy")
               y == QuantityFor(R2, key, a, i, "buy")
    <3>1. ReservedOn(R2, a, i, "buy") = b - x + y
        BY <1>1, TotalsShift
    <3>2. y = x + nb
        BY DEF Moves, Sides
    <3>3. x \in Int
      <4>1. key \in DOMAIN R => R[key].remaining_quantity \in 1 .. MaxQuantity
          BY <1>1, ReservedSums
      <4> QED
          BY <4>1, BookAssumption DEF QuantityFor, OfSide, OfAccount
    <3> HIDE DEF x, y, nb, b
    <3> QED
        BY <2>2, <2>3, <3>1, <3>2, <3>3
  <2>5. ReservedOn(R2, a, i, "sell") = c + ns
    <3> DEFINE x == QuantityFor(R, key, a, i, "sell")
               y == QuantityFor(R2, key, a, i, "sell")
    <3>1. ReservedOn(R2, a, i, "sell") = c - x + y
        BY <1>1, TotalsShift
    <3>2. y = x + ns
        BY DEF Moves, Sides
    <3>3. x \in Int
      <4>1. key \in DOMAIN R => R[key].remaining_quantity \in 1 .. MaxQuantity
          BY <1>1, ReservedSums
      <4> QED
          BY <4>1, BookAssumption DEF QuantityFor, OfSide, OfAccount
    <3> HIDE DEF x, y, ns, c
    <3> QED
        BY <2>2, <2>3, <3>1, <3>2, <3>3
  <2>6. MarginOf(R2, a, i) = d + nm
    <3> DEFINE x == MarginFor(R, key, a, i)
               y == MarginFor(R2, key, a, i)
    <3>1. MarginOf(R2, a, i) = d - x + y
        BY <1>1, TotalsShift
    <3>2. y = x + nm
        BY DEF Moves, Sides
    <3>3. x \in Int
      <4>1. key \in DOMAIN R => R[key].reserved_margin \in 0 .. UMax
          BY <1>1, ReservedSums
      <4> QED
          BY <4>1, Widths DEF MarginFor, OfAccount
    <3> HIDE DEF x, y, nm, d
    <3> QED
        BY <2>2, <2>3, <3>1, <3>2, <3>3
  <2> HIDE DEF st, b, c, d
  <2>7. nb + ns = IF a = acct /\ i = key[1] THEN n ELSE 0
      BY DEF Sides
  <2> QED
      BY <1>6, <2>1, <2>2, <2>3, <2>4, <2>5, <2>6, <2>7 DEF st
<1> QED
    BY <1>4, <1>6, <1>7 DEF ks, AfterMove

\* release gives back what it is asked to, up to what is reserved, and keeps
\* the totals the sums of the reservations: no subtraction wraps, although the
\* margin of a partial fill is rounded.
LEMMA ReleaseLowers ==
    ASSUME NEW rs, SoundRisk(rs), Totals(rs), NEW key \in DOMAIN rs.reservations,
           NEW quantity \in Nat \ {0}
    PROVE  LET held == rs.reservations[key].remaining_quantity
               n    == IF quantity <= held THEN quantity ELSE held
               rs2  == release(rs, key, quantity)
           IN  SoundRisk(rs2) /\ Totals(rs2) /\ Lowered(rs2, rs, key, n)
<1> DEFINE R    == rs.reservations
           res  == R[key]
           held == res.remaining_quantity
           n    == IF quantity <= held THEN quantity ELSE held
           mg   == IF n = held THEN res.reserved_margin
                   ELSE proportional_release(res.reserved_margin, n, held)
           rs2  == release(rs, key, quantity)
           R2   == rs2.reservations
           ks   == rs.account_states
           acct == res.account_id
           side == res.side
           st   == ks[<<acct, key[1]>>]
           cut  == [account_id |-> acct, side |-> side,
                    remaining_quantity |-> held - n,
                    reserved_margin |-> res.reserved_margin - mg]
<1>1. /\ IsReserved(R) /\ ks \in [AccountIds \X Instruments -> AccountStates]
      /\ key \in OrderKeys /\ key[1] \in Instruments
      /\ res \in Reservations
      /\ acct \in AccountIds /\ side \in Sides
      /\ held \in 1 .. MaxQuantity
      /\ res.reserved_margin \in 0 .. UMax
    BY RiskFacts
<1>2. /\ n \in 1 .. held /\ n \in Int /\ held \in Nat \ {0} /\ n \in 0 .. held
    BY <1>1, BookAssumption
<1>3. mg \in 0 .. res.reserved_margin
  <2> DEFINE reserved == res.reserved_margin
             pr == proportional_release(reserved, n, held)
  <2>1. reserved \in 0 .. UMax /\ reserved \in 0 .. reserved
      BY <1>1, Widths
  <2>2. mg = IF n = held THEN reserved ELSE pr
      OBVIOUS
  <2> HIDE DEF reserved, n, held, mg
  <2>3. pr \in 0 .. reserved
      BY <1>2, <2>1, ReleaseWithinReserved
  <2> HIDE DEF pr
  <2> QED
      BY <2>1, <2>2, <2>3 DEF reserved
<1>4. mg \in Int /\ res.reserved_margin - mg \in 0 .. UMax
      /\ res.reserved_margin \in Int
    BY <1>1, <1>3, Widths
<1>5. Unsigned(res.reserved_margin - mg) = res.reserved_margin - mg
    BY <1>4, UnsignedFacts
<1>6. rs2 = [account_states |->
                [ks EXCEPT ![<<acct, key[1]>>] = AddReserved(st, side, -n, -mg)],
             reservations |->
                IF n = held
                THEN [k \in DOMAIN R \ {key} |-> R[k]]
                ELSE [R EXCEPT
                        ![key].remaining_quantity = @ - n,
                        ![key].reserved_margin = Unsigned(@ - mg)]]
    BY DEF release
<1>7. st \in AccountStates
    BY <1>1
<1>8. AddReserved(st, side, -n, -mg) = Moved(st, side, -n, -mg)
  <2>1. -n \in Int /\ -mg \in Int
      BY <1>2, <1>4
  <2> HIDE DEF st, n, mg, side
  <2> QED
      BY <1>1, <1>7, <2>1, MovedState
<1> HIDE DEF n, mg, st, rs2
<1>9. rs2.account_states =
        [ks EXCEPT ![<<acct, key[1]>>] = Moved(st, side, -n, -mg)]
    BY <1>6, <1>8
<1>10. /\ n = held => R2 = Without(R, key)
       /\ n # held => R2 = [R EXCEPT ![key] = cut]
  <2>1. ASSUME n = held PROVE R2 = Without(R, key)
      BY <1>6, <2>1 DEF Without
  <2>2. ASSUME n # held PROVE R2 = [R EXCEPT ![key] = cut]
    <3> DEFINE R1 == [R EXCEPT ![key].remaining_quantity = @ - n]
    <3>1. R2 = [R1 EXCEPT ![key].reserved_margin = Unsigned(@ - mg)]
        BY <1>6, <2>2
    <3>2. R \in [DOMAIN R -> Reservations]
        BY <1>1 DEF IsReserved
    <3>3. /\ DOMAIN R1 = DOMAIN R
          /\ R1[key] = [res EXCEPT !.remaining_quantity = held - n]
          /\ \A k \in DOMAIN R \ {key} : R1[k] = R[k]
          /\ R1 = [R EXCEPT ![key] = [res EXCEPT !.remaining_quantity = held - n]]
        BY <3>2
    <3>4. R1[key] = [account_id |-> acct, side |-> side,
                     remaining_quantity |-> held - n,
                     reserved_margin |-> res.reserved_margin]
        BY <1>1, <3>3 DEF Reservations
    <3> HIDE DEF R1
    <3>5. [R1[key] EXCEPT !.reserved_margin = Unsigned(@ - mg)] = cut
        BY <1>5, <3>4
    <3>6. R2 = [R1 EXCEPT ![key] = cut]
        BY <3>1, <3>5
    <3> HIDE DEF cut
    <3> QED
        BY <3>2, <3>3, <3>6
  <2> QED
      BY <2>1, <2>2
<1>11. n # held => cut \in Reservations
    BY <1>1, <1>2, <1>4, BookAssumption DEF Reservations, Quantities
<1>12. IsReserved(R2)
  <2>1. CASE n = held
      BY <1>1, <1>10, <2>1, FS_Subset DEF IsReserved, Without
  <2>2. CASE n # held
    <3> HIDE DEF cut
    <3> QED
        BY <1>1, <1>10, <1>11, <2>2 DEF IsReserved
  <2> QED
      BY <2>1, <2>2
<1>13. OneChange(R2, R, key)
  <2>1. CASE n = held
      BY <1>10, <2>1 DEF OneChange, Without
  <2>2. CASE n # held
    <3> HIDE DEF cut
    <3> QED
        BY <1>1, <1>10, <2>2 DEF OneChange, IsReserved
  <2> QED
      BY <2>1, <2>2
<1>14. /\ key \in DOMAIN R2 <=> n # held
       /\ key \in DOMAIN R2 => R2[key] = cut
  <2>1. CASE n = held
      BY <1>10, <2>1 DEF Without
  <2>2. CASE n # held
    <3> HIDE DEF cut
    <3> QED
        BY <1>1, <1>10, <2>2 DEF IsReserved
  <2> QED
      BY <2>1, <2>2
<1>15. key \in DOMAIN R2 =>
         /\ R2[key].remaining_quantity = held - n
         /\ R2[key].reserved_margin = res.reserved_margin - mg
         /\ R2[key].account_id = acct /\ R2[key].side = side
    BY <1>14
<1>16. n = held => mg = res.reserved_margin
    BY DEF mg
<1> HIDE DEF cut
<1>17. ASSUME NEW a, NEW i, NEW s
       PROVE  /\ QuantityFor(R, key, a, i, s) =
                   IF a = acct /\ i = key[1] /\ s = side THEN held ELSE 0
              /\ QuantityFor(R2, key, a, i, s) =
                   IF a = acct /\ i = key[1] /\ s = side THEN held - n ELSE 0
              /\ MarginFor(R, key, a, i) =
                   IF a = acct /\ i = key[1] THEN res.reserved_margin ELSE 0
              /\ MarginFor(R2, key, a, i) =
                   IF a = acct /\ i = key[1] THEN res.reserved_margin - mg ELSE 0
  <2>1. /\ QuantityFor(R, key, a, i, s) =
             IF a = acct /\ i = key[1] /\ s = side THEN held ELSE 0
        /\ MarginFor(R, key, a, i) =
             IF a = acct /\ i = key[1] THEN res.reserved_margin ELSE 0
      BY DEF QuantityFor, MarginFor, OfSide, OfAccount
  <2>2. CASE n = held
    <3>1. held - n = 0 /\ res.reserved_margin - mg = 0
        BY <1>2, <1>4, <1>16, <2>2
    <3>2. QuantityFor(R2, key, a, i, s) = 0 /\ MarginFor(R2, key, a, i) = 0
        BY <1>14, <2>2 DEF QuantityFor, MarginFor, OfSide, OfAccount
    <3> QED
        BY <2>1, <3>1, <3>2
  <2>3. CASE n # held
      BY <1>14, <1>15, <2>1, <2>3 DEF QuantityFor, MarginFor, OfSide, OfAccount
  <2> QED
      BY <2>2, <2>3
<1>18. /\ st.open_order_quantity + (-n) \in 0 .. UMax
       /\ st.reserved_margin + (-mg) \in 0 .. UMax
       /\ side = "buy" => st.buy_reserved_quantity + (-n) \in 0 .. UMax
       /\ side = "sell" => st.sell_reserved_quantity + (-n) \in 0 .. UMax
  <2> DEFINE i == key[1]
             b == ReservedOn(R, acct, i, "buy")
             c == ReservedOn(R, acct, i, "sell")
             d == MarginOf(R, acct, i)
  <2>1. /\ st.buy_reserved_quantity = b /\ st.sell_reserved_quantity = c
        /\ st.open_order_quantity = b + c /\ st.reserved_margin = d
      BY <1>1 DEF Totals, st
  <2>2. /\ b \in Nat /\ c \in Nat /\ d \in Nat
        /\ QuantityFor(R, key, acct, i, "buy") <= b
        /\ QuantityFor(R, key, acct, i, "sell") <= c
        /\ MarginFor(R, key, acct, i) <= d
      BY <1>1, ReservedSums
  <2>3. /\ side = "buy" => held <= b
        /\ side = "sell" => held <= c
        /\ res.reserved_margin <= d
      BY <1>17, <2>2
  <2>4. side = "buy" \/ side = "sell"
      BY <1>1 DEF Sides
  <2>5. /\ st.buy_reserved_quantity \in 0 .. UMax
        /\ st.sell_reserved_quantity \in 0 .. UMax
        /\ st.open_order_quantity \in 0 .. UMax
        /\ st.reserved_margin \in 0 .. UMax
      BY <1>7, StateFacts
  <2> HIDE DEF b, c, d, side, held
  <2> QED
      BY <1>2, <1>3, <1>4, <2>1, <2>2, <2>3, <2>4, <2>5, Widths
<1>19. /\ Totals(rs2)
       /\ rs2.account_states \in [AccountIds \X Instruments -> AccountStates]
       /\ AfterMove(rs2, rs, key, acct, side, -n, -mg)
  <2>1. -n \in Int /\ -mg \in Int
      BY <1>2, <1>4
  <2>2. \A a \in AccountIds, i \in Instruments, s \in Sides :
          /\ QuantityFor(R2, key, a, i, s) = QuantityFor(R, key, a, i, s)
               + (IF a = acct /\ i = key[1] /\ s = side THEN -n ELSE 0)
          /\ MarginFor(R2, key, a, i) = MarginFor(R, key, a, i)
               + (IF a = acct /\ i = key[1] THEN -mg ELSE 0)
    <3>1. /\ held - n = held + (-n) /\ held \in Int
          /\ res.reserved_margin - mg = res.reserved_margin + (-mg)
        BY <1>2, <1>4
    <3> HIDE DEF held
    <3> QED
        BY <1>4, <1>17, <3>1
  <2>3. Moves(rs2, rs, key, acct, side, -n, -mg)
    <3> HIDE DEF acct, side
    <3> QED
        BY <1>9, <1>18, <2>2 DEF Moves, st
  <2> HIDE DEF acct, side
  <2> QED
      BY <1>1, <1>12, <1>13, <2>1, <2>3, MovedTotals
<1>20. SoundRisk(rs2)
  <2>1. rs2 = [account_states |-> rs2.account_states, reservations |-> R2]
      BY <1>6
  <2> QED
      BY <1>12, <1>19, <2>1 DEF SoundRisk, IsRisk, IsReserved
<1>21. Lowered(rs2, rs, key, n)
  <2>1. /\ n \in 1 .. held
        /\ OneChange(R2, R, key)
        /\ key \in DOMAIN R2 <=> n < held
        /\ key \in DOMAIN R2 =>
             /\ R2[key].remaining_quantity = held - n
             /\ R2[key].account_id = acct /\ R2[key].side = side
      BY <1>2, <1>13, <1>14, <1>15
  <2>2. ASSUME NEW a \in AccountIds, NEW i \in Instruments
        PROVE  LET s1   == ks[<<a, i>>]
                   s2   == rs2.account_states[<<a, i>>]
                   own(s) == a = acct /\ i = key[1] /\ s = side
               IN  /\ s2.position = s1.position
                   /\ s2.open_order_quantity <= s1.open_order_quantity
                   /\ s2.reserved_margin <= s1.reserved_margin
                   /\ s2.buy_reserved_quantity =
                        s1.buy_reserved_quantity - (IF own("buy") THEN n ELSE 0)
                   /\ s2.sell_reserved_quantity =
                        s1.sell_reserved_quantity - (IF own("sell") THEN n ELSE 0)
    <3> DEFINE s1 == ks[<<a, i>>]
               s2 == rs2.account_states[<<a, i>>]
    <3>1. s1 \in AccountStates
        BY <1>1
    <3>2. /\ s1.buy_reserved_quantity \in Int /\ s1.sell_reserved_quantity \in Int
          /\ s1.open_order_quantity \in Int /\ s1.reserved_margin \in Int
      <4> HIDE DEF s1
      <4> QED
          BY <3>1, StateFacts, Widths
    <3>3. LET here == a = acct /\ i = key[1]
          IN  /\ s2.position = s1.position
              /\ s2.open_order_quantity =
                   s1.open_order_quantity + (IF here THEN -n ELSE 0)
              /\ s2.reserved_margin =
                   s1.reserved_margin + (IF here THEN -mg ELSE 0)
              /\ s2.buy_reserved_quantity = s1.buy_reserved_quantity
                   + (IF here /\ side = "buy" THEN -n ELSE 0)
              /\ s2.sell_reserved_quantity = s1.sell_reserved_quantity
                   + (IF here /\ side = "sell" THEN -n ELSE 0)
        BY <1>19 DEF AfterMove
    <3>4. n >= 0 /\ mg >= 0 /\ n \in Int /\ mg \in Int
        BY <1>2, <1>3, <1>4
    <3> HIDE DEF s1, s2, acct, side
    <3> QED
        BY <3>2, <3>3, <3>4 DEF s1, s2
  <2> HIDE DEF acct, side, held, R2, ks
  <2> QED
      BY <2>1, <2>2 DEF Lowered, acct, side, held, R2, ks
<1> QED
    BY <1>19, <1>20, <1>21 DEF n, rs2

\* The margin of an order fits the width.
LEMMA MarginTyped ==
    ASSUME NEW r \in Requests
    PROVE  margin_for(r) \in 0 .. UMax
<1> DEFINE notional == IF r.order_type = "market" THEN maximum_order_notional
                       ELSE saturated_multiply(r.price, r.quantity)
           bp == initial_margin_basis_points
           x  == saturated_multiply(notional, bp)
           m  == basis_points_scale
<1>1. /\ UMax \in Nat /\ bp \in Nat /\ maximum_order_notional \in Nat
      /\ r.price \in Nat /\ r.quantity \in Nat
    BY RiskAssumption, BookAssumption, Widths DEF Requests
<1>2. notional \in Nat
  <2>1. saturated_multiply(r.price, r.quantity) \in 0 .. UMax
      BY <1>1, SaturatedFacts
  <2> QED
      BY <1>1, <2>1
<1> HIDE DEF notional, bp
<1>3. x \in 0 .. UMax /\ x \in Nat
  <2>1. x \in 0 .. UMax
      BY <1>1, <1>2, SaturatedFacts, Zenon
  <2> QED
      BY <1>1, <2>1
<1>4. m \in Nat \ {0}
    BY DEF basis_points_scale
<1> HIDE DEF x, m
<1>5. x <= UMax * m
    BY <1>1, <1>3, <1>4
<1>6. x \div m \in 0 .. UMax
    BY <1>1, <1>3, <1>4, <1>5, DivBound
<1> QED
    BY <1>6 DEF margin_for, notional, bp, x, m

\* The account is within the limits that evaluate tests, the order included.
WithinLimits(rs, i, r) ==
    LET st == rs.account_states[<<r.account_id, i>>]
    IN  /\ st.open_order_quantity + r.quantity <= maximum_open_order_quantity
        /\ st.reserved_margin + margin_for(r) <= maximum_account_credit
        /\ \E exceeded \in PositionLimitExceeded(st, r) : ~exceeded

\* evaluate lets an order through only if they are.
LEMMA EvaluateMeans ==
    ASSUME NEW rs, SoundRisk(rs), NEW i \in Instruments, NEW r \in Requests,
           "none" \in AccountRejections(rs, i, r)
    PROVE  WithinLimits(rs, i, r)
<1> DEFINE st == rs.account_states[<<r.account_id, i>>]
           mg == margin_for(r)
<1>1. st \in AccountStates /\ r.quantity \in Nat
    BY RiskFacts, BookAssumption DEF Requests
<1>2. mg \in Nat
    BY MarginTyped, Widths
<1>3. st.open_order_quantity \in Int /\ st.reserved_margin \in Int
  <2> HIDE DEF st
  <2> QED
      BY <1>1, StateFacts, Widths
<1>4. ~OpenOrderLimitExceeded(st, r)
    BY DEF AccountRejections
<1>5. \E exceeded \in PositionLimitExceeded(st, r) :
        ~exceeded /\ ~CreditLimitExceeded(st, r)
  <2>1. \E exceeded \in PositionLimitExceeded(st, r) :
          "none" = IF exceeded THEN "risk_position_limit"
                   ELSE IF CreditLimitExceeded(st, r) THEN "risk_credit_limit"
                   ELSE "none"
      BY <1>4 DEF AccountRejections
  <2> QED
      BY <2>1
<1>6. \E exceeded \in PositionLimitExceeded(st, r) : ~exceeded
    BY <1>5
<1>7. ~CreditLimitExceeded(st, r)
    BY <1>5
<1>8. /\ maximum_open_order_quantity \in Int /\ maximum_account_credit \in Int
    BY RiskAssumption, Widths
<1>9. st.open_order_quantity + r.quantity <= maximum_open_order_quantity
  <2> HIDE DEF st
  <2> QED
      BY <1>1, <1>3, <1>4, <1>8 DEF OpenOrderLimitExceeded
<1>10. st.reserved_margin + mg <= maximum_account_credit
  <2>1. ~(st.reserved_margin > maximum_account_credit - mg)
      BY <1>7 DEF CreditLimitExceeded
  <2> HIDE DEF st, mg
  <2> QED
      BY <1>2, <1>3, <1>8, <2>1
<1> QED
    BY <1>6, <1>9, <1>10 DEF WithinLimits

\* The order has its reservation, and its account the totals that go with it.
Raised(rs2, rs, i, r) ==
    LET key == <<i, r.order_id>>
        R2  == rs2.reservations
    IN  /\ OneChange(R2, rs.reservations, key)
        /\ key \in DOMAIN R2
        /\ R2[key].remaining_quantity = r.quantity
        /\ R2[key].account_id = r.account_id
        /\ R2[key].side = r.side
        /\ AfterMove(rs2, rs, key, r.account_id, r.side, r.quantity, margin_for(r))

\* reserve keeps the totals the sums of the reservations: the limits that
\* evaluate tests keep every addition inside the width.
LEMMA ReserveRaises ==
    ASSUME NEW rs, SoundRisk(rs), Totals(rs), NEW i \in Instruments,
           NEW r \in Requests, r.quantity > 0,
           <<i, r.order_id>> \notin DOMAIN rs.reservations,
           WithinLimits(rs, i, r)
    PROVE  LET rs2 == reserve(rs, i, r)
           IN  SoundRisk(rs2) /\ Totals(rs2) /\ Raised(rs2, rs, i, r)
<1> DEFINE key  == <<i, r.order_id>>
           R    == rs.reservations
           rs2  == reserve(rs, i, r)
           R2   == rs2.reservations
           ks   == rs.account_states
           n    == r.quantity
           mg   == margin_for(r)
           st   == ks[<<r.account_id, i>>]
           made == [account_id |-> r.account_id, side |-> r.side,
                    remaining_quantity |-> n, reserved_margin |-> mg]
<1>1. /\ IsReserved(R) /\ ks \in [AccountIds \X Instruments -> AccountStates]
    BY RiskFacts
<1>2. /\ r.account_id \in AccountIds /\ r.side \in Sides /\ r.order_id \in OrderIds
      /\ n \in 1 .. MaxQuantity /\ n \in Int
    BY BookAssumption DEF Requests
<1>3. mg \in 0 .. UMax /\ mg \in Int
    BY MarginTyped, Widths
<1>4. key \in OrderKeys /\ key[1] = i
    BY <1>2 DEF OrderKeys
<1>5. st \in AccountStates
    BY <1>1, <1>2
<1>6. made \in Reservations
    BY <1>2, <1>3 DEF Reservations, Quantities
<1>7. rs2 = [account_states |->
               [ks EXCEPT ![<<r.account_id, i>>] = AddReserved(st, r.side, n, mg)],
             reservations |->
               [k \in DOMAIN R \cup {key} |-> IF k = key THEN made ELSE R[k]]]
    BY DEF reserve
<1>8. AddReserved(st, r.side, n, mg) = Moved(st, r.side, n, mg)
  <2> HIDE DEF st, mg
  <2> QED
      BY <1>2, <1>3, <1>5, MovedState
<1> HIDE DEF made, rs2, mg, st
<1>9. /\ rs2.account_states =
           [ks EXCEPT ![<<r.account_id, i>>] = Moved(st, r.side, n, mg)]
      /\ rs2 = [account_states |-> rs2.account_states, reservations |-> R2]
    BY <1>7, <1>8
<1>10. R2 = [k \in DOMAIN R \cup {key} |-> IF k = key THEN made ELSE R[k]]
    BY <1>7
<1> HIDE DEF key, R2
<1>11. /\ IsReserved(R2)
  <2>1. IsFiniteSet(DOMAIN R \cup {key})
      BY <1>1, FS_AddElement DEF IsReserved
  <2> QED
      BY <1>1, <1>4, <1>6, <1>10, <2>1 DEF IsReserved
<1>12. OneChange(R2, R, key) /\ key \in DOMAIN R2 /\ R2[key] = made
    BY <1>10 DEF OneChange
<1>13. /\ R2[key].remaining_quantity = n /\ R2[key].reserved_margin = mg
       /\ R2[key].account_id = r.account_id /\ R2[key].side = r.side
    BY <1>12 DEF made
<1>14. key \notin DOMAIN R
    BY DEF key
<1>15. \A a \in AccountIds, j \in Instruments, s \in Sides :
         /\ QuantityFor(R2, key, a, j, s) = QuantityFor(R, key, a, j, s)
              + (IF a = r.account_id /\ j = key[1] /\ s = r.side THEN n ELSE 0)
         /\ MarginFor(R2, key, a, j) = MarginFor(R, key, a, j)
              + (IF a = r.account_id /\ j = key[1] THEN mg ELSE 0)
  <2>1. \A a, j, s : QuantityFor(R, key, a, j, s) = 0 /\ MarginFor(R, key, a, j) = 0
      BY <1>14 DEF QuantityFor, MarginFor, OfSide, OfAccount
  <2>2. \A a, j, s :
          /\ QuantityFor(R2, key, a, j, s) =
               IF a = r.account_id /\ j = key[1] /\ s = r.side THEN n ELSE 0
          /\ MarginFor(R2, key, a, j) =
               IF a = r.account_id /\ j = key[1] THEN mg ELSE 0
      BY <1>12, <1>13 DEF QuantityFor, MarginFor, OfSide, OfAccount
  <2> HIDE DEF n
  <2> QED
      BY <1>2, <1>3, <2>1, <2>2
<1>16. /\ st.open_order_quantity + n \in 0 .. UMax
       /\ st.reserved_margin + mg \in 0 .. UMax
       /\ r.side = "buy" => st.buy_reserved_quantity + n \in 0 .. UMax
       /\ r.side = "sell" => st.sell_reserved_quantity + n \in 0 .. UMax
  <2> DEFINE b == ReservedOn(R, r.account_id, i, "buy")
             c == ReservedOn(R, r.account_id, i, "sell")
  <2>1. /\ st.buy_reserved_quantity = b /\ st.sell_reserved_quantity = c
        /\ st.open_order_quantity = b + c
      BY <1>2 DEF Totals, st
  <2>2. b \in Nat /\ c \in Nat
      BY <1>1, ReservedSums
  <2>3. /\ st.open_order_quantity + n <= maximum_open_order_quantity
        /\ st.reserved_margin + mg <= maximum_account_credit
      BY DEF WithinLimits, st, mg
  <2>4. /\ maximum_open_order_quantity \in 0 .. UMax
        /\ maximum_account_credit \in 0 .. UMax
      BY RiskAssumption
  <2>5. st.reserved_margin \in 0 .. UMax
      BY <1>5, StateFacts
  <2> HIDE DEF b, c, n
  <2> QED
      BY <1>2, <1>3, <2>1, <2>2, <2>3, <2>4, <2>5, Widths, BookAssumption
<1>17. Moves(rs2, rs, key, r.account_id, r.side, n, mg)
    BY <1>4, <1>9, <1>15, <1>16 DEF Moves, st, R2
<1>18. /\ Totals(rs2)
       /\ rs2.account_states \in [AccountIds \X Instruments -> AccountStates]
       /\ AfterMove(rs2, rs, key, r.account_id, r.side, n, mg)
  <2>1. IsReserved(rs2.reservations) /\ OneChange(rs2.reservations, rs.reservations, key)
      BY <1>11, <1>12 DEF R2
  <2> QED
      BY <1>2, <1>3, <1>4, <1>17, <2>1, MovedTotals
<1>19. SoundRisk(rs2)
    BY <1>9, <1>11, <1>18 DEF SoundRisk, IsRisk, IsReserved, R2
<1> QED
    BY <1>12, <1>13, <1>18, <1>19 DEF Raised, key, R2, mg, rs2

\* A trade moves one position and no reservation.
Repositioned(rs2, rs, account, i, d) ==
    /\ rs2.reservations = rs.reservations
    /\ \A a \in AccountIds, j \in Instruments :
         LET st  == rs.account_states[<<a, j>>]
             st2 == rs2.account_states[<<a, j>>]
         IN  /\ st2.open_order_quantity = st.open_order_quantity
             /\ st2.buy_reserved_quantity = st.buy_reserved_quantity
             /\ st2.sell_reserved_quantity = st.sell_reserved_quantity
             /\ st2.reserved_margin = st.reserved_margin
             /\ st2.position = IF a = account /\ j = i THEN Signed(st.position + d)
                               ELSE st.position

\* The sign a trade has for the position of a side.
Direction(side) == IF side = "buy" THEN 1 ELSE -1

\* update_position moves the position and nothing else.
LEMMA PositionMoves ==
    ASSUME NEW rs, SoundRisk(rs), Totals(rs), NEW account \in AccountIds,
           NEW i \in Instruments, NEW side \in Sides, NEW quantity \in Nat
    PROVE  LET rs2 == update_position(rs, account, i, side, quantity)
           IN  /\ SoundRisk(rs2) /\ Totals(rs2)
               /\ Repositioned(rs2, rs, account, i,
                               Direction(side) * Signed(quantity))
<1> DEFINE rs2 == update_position(rs, account, i, side, quantity)
           ks  == rs.account_states
           k0  == <<account, i>>
           d   == Direction(side) * Signed(quantity)
           pos == Signed(ks[k0].position + d)
           st0 == [ks[k0] EXCEPT !.position = pos]
<1>1. /\ ks \in [AccountIds \X Instruments -> AccountStates]
      /\ ks[k0] \in AccountStates
      /\ rs = [account_states |-> ks, reservations |-> rs.reservations]
    BY RiskFacts DEF SoundRisk, IsRisk
<1>2. d \in Int
  <2>1. Signed(quantity) \in Int
      BY SignedFacts, Widths
  <2> QED
      BY <2>1 DEF Direction
<1>3. pos \in (-IntMax - 1) .. IntMax
  <2> HIDE DEF d
  <2> QED
      BY <1>1, <1>2, StateFacts, SignedFacts
<1>4. rs2 = [rs EXCEPT !.account_states[k0].position = pos]
    BY DEF update_position, Direction
<1> HIDE DEF pos, rs2
<1>5. /\ st0 \in AccountStates
      /\ st0.position = pos
      /\ st0.open_order_quantity = ks[k0].open_order_quantity
      /\ st0.buy_reserved_quantity = ks[k0].buy_reserved_quantity
      /\ st0.sell_reserved_quantity = ks[k0].sell_reserved_quantity
      /\ st0.reserved_margin = ks[k0].reserved_margin
    BY <1>1, <1>3 DEF AccountStates
<1>6. /\ rs2.reservations = rs.reservations
      /\ rs2.account_states = [ks EXCEPT ![k0] = st0]
      /\ rs2 = [account_states |-> rs2.account_states,
                reservations |-> rs2.reservations]
    BY <1>1, <1>4
<1> HIDE DEF st0
<1>7. /\ rs2.account_states \in [AccountIds \X Instruments -> AccountStates]
      /\ \A a \in AccountIds, j \in Instruments :
           rs2.account_states[<<a, j>>] =
             IF a = account /\ j = i THEN st0 ELSE ks[<<a, j>>]
    BY <1>1, <1>5, <1>6
<1>8. SoundRisk(rs2)
    BY <1>6, <1>7 DEF SoundRisk, IsRisk
<1>9. Repositioned(rs2, rs, account, i, d)
    BY <1>5, <1>6, <1>7 DEF Repositioned, pos
<1> HIDE DEF d, ks, k0
<1>10. Totals(rs2)
  <2> SUFFICES ASSUME NEW a \in AccountIds, NEW j \in Instruments
               PROVE  LET st == rs2.account_states[<<a, j>>]
                          R  == rs2.reservations
                      IN  /\ st.buy_reserved_quantity = ReservedOn(R, a, j, "buy")
                          /\ st.sell_reserved_quantity = ReservedOn(R, a, j, "sell")
                          /\ st.open_order_quantity =
                               ReservedOn(R, a, j, "buy") + ReservedOn(R, a, j, "sell")
                          /\ st.reserved_margin = MarginOf(R, a, j)
      BY DEF Totals
  <2>1. LET st  == rs.account_states[<<a, j>>]
            st2 == rs2.account_states[<<a, j>>]
        IN  /\ st2.open_order_quantity = st.open_order_quantity
            /\ st2.buy_reserved_quantity = st.buy_reserved_quantity
            /\ st2.sell_reserved_quantity = st.sell_reserved_quantity
            /\ st2.reserved_margin = st.reserved_margin
            /\ rs2.reservations = rs.reservations
      BY <1>9 DEF Repositioned
  <2>2. LET st == rs.account_states[<<a, j>>]
            R  == rs.reservations
        IN  /\ st.buy_reserved_quantity = ReservedOn(R, a, j, "buy")
            /\ st.sell_reserved_quantity = ReservedOn(R, a, j, "sell")
            /\ st.open_order_quantity =
                 ReservedOn(R, a, j, "buy") + ReservedOn(R, a, j, "sell")
            /\ st.reserved_margin = MarginOf(R, a, j)
      BY DEF Totals
  <2> QED
      BY <2>1, <2>2
<1> QED
    BY <1>8, <1>9, <1>10 DEF rs2, d

----------------------------------------------------------------------------
(* What a reservation, a book and the events still to apply say of an order *)

\* The quantity reserved for an order, 0 if there is no reservation.
Held(rs, key) ==
    IF key \in DOMAIN rs.reservations
    THEN rs.reservations[key].remaining_quantity ELSE 0

\* The quantity of an order that rests in a book, 0 if it does not.
RestsIn(b, id) ==
    IF id \in DOMAIN b.order_locations
    THEN RestingMap(b)[id].remaining_quantity ELSE 0

\* The order of a key rests in its book, and with what quantity.
Rests(obs, key) ==
    key[1] \in DOMAIN obs /\ key[2] \in DOMAIN obs[key[1]].order_locations

Booked(obs, key) ==
    IF key[1] \in DOMAIN obs THEN RestsIn(obs[key[1]], key[2]) ELSE 0

\* What applying an event takes from the reservation of an order.
Owed(e, i, key) ==
    IF /\ e.kind = "trade"
       /\ key \in {<<i, e.incoming_order_id>>, <<i, e.resting_order_id>>}
    THEN e.quantity ELSE 0

\* What applying each event of a batch takes.
Dues(batch, i, key) == [k \in 1 .. Len(batch) |-> Owed(batch[k], i, key)]

\* The same for all the events of a batch after the first n.
Pending(batch, n, i, key) ==
    SumFunctionOnSet(Dues(batch, i, key), n + 1 .. Len(batch))

\* An event by its kind; what it takes is a natural number.
LEMMA EventFacts ==
    ASSUME NEW e \in Events
    PROVE  /\ e.kind = "trade" => e \in TradeEvents /\ e.quantity \in 1 .. MaxQuantity
           /\ e.kind = "canceled" => e \in CanceledEvents
           /\ \A i, key : Owed(e, i, key) \in Nat
<1>1. e.kind = "trade" => e \in TradeEvents
    BY DEF Events, TradeEvents, CanceledEvents
<1>2. e.kind = "trade" => e.quantity \in 1 .. MaxQuantity
    BY <1>1 DEF TradeEvents, Quantities
<1>3. e.kind = "canceled" => e \in CanceledEvents
    BY DEF Events, TradeEvents, CanceledEvents
<1> QED
    BY <1>1, <1>2, <1>3, BookAssumption DEF Owed

\* What is pending is a sum of natural numbers over the rest of the batch.
LEMMA PendingSum ==
    ASSUME NEW batch \in Seq(Events), NEW n \in 0 .. Len(batch), NEW i, NEW key
    PROVE  /\ Len(batch) \in Nat /\ n \in Nat
           /\ IsFiniteSet(n + 1 .. Len(batch))
           /\ \A k \in n + 1 .. Len(batch) :
                /\ Dues(batch, i, key)[k] = Owed(batch[k], i, key)
                /\ Dues(batch, i, key)[k] \in Nat
                /\ Dues(batch, i, key)[k] \in Int
           /\ Pending(batch, n, i, key) \in Nat
<1>1. Len(batch) \in Nat /\ n \in Nat
    BY LenProperties
<1>2. IsFiniteSet(n + 1 .. Len(batch))
    BY <1>1, FS_Interval
<1>3. \A k \in 1 .. Len(batch) : batch[k] \in Events
    BY ElementOfSeq
<1>4. \A k \in 1 .. Len(batch) :
        /\ Dues(batch, i, key)[k] = Owed(batch[k], i, key)
        /\ Dues(batch, i, key)[k] \in Nat
    BY <1>3, EventFacts DEF Dues
<1>5. \A k \in n + 1 .. Len(batch) :
        /\ Dues(batch, i, key)[k] = Owed(batch[k], i, key)
        /\ Dues(batch, i, key)[k] \in Nat
        /\ Dues(batch, i, key)[k] \in Int
  <2>1. n + 1 .. Len(batch) \subseteq 1 .. Len(batch)
      BY <1>1
  <2> QED
      BY <1>4, <2>1
<1>6. Pending(batch, n, i, key) \in Nat
  <2> DEFINE f == Dues(batch, i, key)
             S == n + 1 .. Len(batch)
  <2>1. \A k \in S : f[k] \in Nat /\ f[k] \in Int
      BY <1>5
  <2>2. IsFiniteSet(S)
      BY <1>2
  <2> HIDE DEF f, S
  <2>3. SumFunctionOnSet(f, S) \in Nat
      BY <2>1, <2>2, SumType
  <2> QED
      BY <2>3 DEF f, S, Pending
<1> QED
    BY <1>1, <1>2, <1>5, <1>6

\* Nothing is pending at the end of a batch.
LEMMA PendingEnd ==
    ASSUME NEW batch \in Seq(Events), NEW i, NEW key
    PROVE  Pending(batch, Len(batch), i, key) = 0
<1>1. Len(batch) + 1 .. Len(batch) = {}
    BY LenProperties
<1> QED
    BY <1>1, SumEmpty DEF Pending

\* Applying an event takes its share out of what is pending.
LEMMA PendingNext ==
    ASSUME NEW batch \in Seq(Events), NEW n \in 0 .. Len(batch), n < Len(batch),
           NEW i, NEW key
    PROVE  /\ batch[n + 1] \in Events
           /\ Owed(batch[n + 1], i, key) \in Nat
           /\ Pending(batch, n, i, key) =
                Owed(batch[n + 1], i, key) + Pending(batch, n + 1, i, key)
<1> DEFINE f == Dues(batch, i, key)
           S == n + 1 .. Len(batch)
           y == n + 1
<1>1. /\ Len(batch) \in Nat /\ n \in Nat /\ IsFiniteSet(S)
      /\ \A k \in S : f[k] = Owed(batch[k], i, key) /\ f[k] \in Int /\ f[k] \in Nat
    BY PendingSum
<1>2. y \in S /\ S \ {y} = n + 1 + 1 .. Len(batch)
    BY <1>1
<1>3. batch[n + 1] \in Events
  <2>1. n + 1 \in 1 .. Len(batch)
      BY <1>1
  <2> QED
      BY <2>1, ElementOfSeq
<1> HIDE DEF f, S, y
<1>4. SumFunctionOnSet(f, S) = f[y] + SumFunctionOnSet(f, S \ {y})
    BY <1>1, <1>2, SumRemove
<1> QED
    BY <1>1, <1>2, <1>3, <1>4 DEF Pending, f, S, y

\* Reporting one more trade adds its share.
LEMMA PendingAppend ==
    ASSUME NEW batch \in Seq(Events), NEW n \in 0 .. Len(batch), NEW e \in Events,
           NEW i, NEW key
    PROVE  Pending(Append(batch, e), n, i, key) =
             Pending(batch, n, i, key) + Owed(e, i, key)
<1> DEFINE next == Append(batch, e)
           len  == Len(batch)
           f == Dues(batch, i, key)
           g == Dues(next, i, key)
           S == n + 1 .. len
           y == len + 1
<1>1. /\ len \in Nat /\ n \in Nat /\ IsFiniteSet(S) /\ n <= len
      /\ \A k \in S : f[k] = Owed(batch[k], i, key)
    BY PendingSum
<1>2. /\ next \in Seq(Events) /\ Len(next) = len + 1 /\ n \in 0 .. Len(next)
      /\ \A k \in 1 .. len : next[k] = batch[k]
      /\ next[len + 1] = e
    BY <1>1
<1> HIDE DEF next, len
<1>3. \A k \in n + 1 .. Len(next) : g[k] = Owed(next[k], i, key) /\ g[k] \in Int
    BY <1>2, PendingSum, SMTT(30)
<1>4. /\ n + 1 .. Len(next) = S \cup {y} /\ y \notin S /\ S \subseteq 1 .. len
    BY <1>1, <1>2
<1>5. /\ \A k \in S : f[k] = g[k]
      /\ \A k \in S \cup {y} : g[k] \in Int
      /\ g[y] = Owed(e, i, key)
    BY <1>1, <1>2, <1>3, <1>4
<1>6. /\ Pending(next, n, i, key) = SumFunctionOnSet(g, S \cup {y})
      /\ Pending(batch, n, i, key) = SumFunctionOnSet(f, S)
    BY <1>4 DEF Pending, len
<1> HIDE DEF f, g, S, y
<1>7. SumFunctionOnSet(f, S) = SumFunctionOnSet(g, S)
    BY <1>1, <1>5, SumAgree
<1>8. SumFunctionOnSet(g, S \cup {y}) = SumFunctionOnSet(g, S) + g[y]
    BY <1>1, <1>4, <1>5, SumAdd
<1> QED
    BY <1>5, <1>6, <1>7, <1>8 DEF next

\* An event that is no trade makes a batch in which nothing is pending.
LEMMA PendingSingle ==
    ASSUME NEW e \in Events, e.kind # "trade", NEW i, NEW key
    PROVE  /\ Pending(<<e>>, 0, i, key) = 0
           /\ Pending(<<e>>, 1, i, key) = 0
<1> DEFINE batch == <<e>>
<1>1. batch \in Seq(Events) /\ Len(batch) = 1 /\ 0 \in 0 .. Len(batch)
      /\ batch[0 + 1] = e
    OBVIOUS
<1> HIDE DEF batch
<1>2. Pending(batch, 1, i, key) = 0
    BY <1>1, PendingEnd
<1>3. Pending(batch, 0, i, key) = Owed(e, i, key) + Pending(batch, 0 + 1, i, key)
    BY <1>1, PendingNext
<1>4. Owed(e, i, key) = 0 /\ 0 + 1 = 1
    BY DEF Owed
<1> QED
    BY <1>2, <1>3, <1>4 DEF batch

----------------------------------------------------------------------------
(* What the operations on a book and on the account state do to these       *)

\* Reserved and resting quantities are natural numbers, positive exactly for
\* the orders that have a reservation, or rest.
LEMMA HeldFacts ==
    ASSUME NEW rs, SoundRisk(rs), NEW key
    PROVE  /\ Held(rs, key) \in Nat /\ Held(rs, key) <= UMax
           /\ Held(rs, key) <= MaxQuantity
           /\ key \in DOMAIN rs.reservations <=> Held(rs, key) # 0
<1>1. key \in DOMAIN rs.reservations =>
        rs.reservations[key].remaining_quantity \in 1 .. MaxQuantity
    BY RiskFacts
<1> QED
    BY <1>1, RiskAssumption, Widths, BookAssumption DEF Held

\* An order rests exactly if it has a quantity left.
LEMMA RestsInFacts ==
    ASSUME NEW b, GoodBook(b), NEW id
    PROVE  /\ RestsIn(b, id) \in Nat
           /\ id \in DOMAIN b.order_locations <=> RestsIn(b, id) # 0
<1>1. id \in DOMAIN b.order_locations =>
        RestingMap(b)[id].remaining_quantity \in 1 .. MaxQuantity
    BY RestingTyped DEF GoodBook, IsSound
<1> QED
    BY <1>1, BookAssumption DEF RestsIn

\* Every open order of b2 is one of b, of the same account and side.
OwnersKept(b2, b) ==
    \A id \in DOMAIN b2.order_locations :
        /\ id \in DOMAIN b.order_locations
        /\ RestingMap(b2)[id].account_id = RestingMap(b)[id].account_id
        /\ RestingMap(b2)[id].side = RestingMap(b)[id].side

\* What a fill takes from the resting orders.
LEMMA TakenFromBook ==
    ASSUME NEW b, GoodBook(b), NEW b2, GoodBook(b2),
           NEW i \in DOMAIN b.order_locations,
           NEW n \in Nat, n <= RestingMap(b)[i].remaining_quantity,
           Takes(RestingMap(b2), RestingMap(b), i, n)
    PROVE  /\ OwnersKept(b2, b)
           /\ \A id : RestsIn(b2, id) = RestsIn(b, id) - (IF id = i THEN n ELSE 0)
<1> DEFINE R  == RestingMap(b)
           R2 == RestingMap(b2)
           D  == DOMAIN b.order_locations
           D2 == DOMAIN b2.order_locations
           m  == R[i].remaining_quantity
<1>1. DOMAIN R = D /\ DOMAIN R2 = D2
    BY RestingTyped DEF GoodBook, IsSound
<1>2. m \in Nat
    BY RestingTyped, BookAssumption DEF GoodBook, IsSound
<1>3. \A id : RestsIn(b, id) \in Nat
    BY RestsInFacts
<1>4. \A id : /\ RestsIn(b, id) = IF id \in D THEN R[id].remaining_quantity ELSE 0
              /\ RestsIn(b2, id) = IF id \in D2 THEN R2[id].remaining_quantity ELSE 0
    BY DEF RestsIn
<1> HIDE DEF R, R2, D, D2, m
<1>5. CASE n = m
  <2>1. R2 = Without(R, i)
      BY <1>5 DEF Takes, R, R2, m
  <2>2. /\ D2 = D \ {i} /\ \A id \in D2 : R2[id] = R[id]
      BY <1>1, <2>1 DEF Without
  <2>3. OwnersKept(b2, b)
      BY <2>2 DEF OwnersKept, D, D2, R, R2
  <2>4. \A id : RestsIn(b2, id) = RestsIn(b, id) - (IF id = i THEN n ELSE 0)
      BY <1>2, <1>3, <1>4, <1>5, <2>2 DEF m, D
  <2> QED
      BY <2>3, <2>4
<1>6. CASE n # m
  <2>1. R2 = [R EXCEPT ![i].remaining_quantity = @ - n]
      BY <1>6 DEF Takes, R, R2, m
  <2>2. i \in D
      BY DEF D
  <2>3. /\ D2 = D /\ \A id \in D \ {i} : R2[id] = R[id]
        /\ R2[i] = [R[i] EXCEPT !.remaining_quantity = @ - n]
      BY <1>1, <2>1, <2>2
  <2>4. R[i] = [side |-> R[i].side, price |-> R[i].price,
                remaining_quantity |-> R[i].remaining_quantity,
                order_type |-> R[i].order_type, account_id |-> R[i].account_id]
      BY <2>2 DEF R, D, RestingMap, RestingEntry
  <2>5. /\ R2[i].remaining_quantity = m - n
        /\ R2[i].account_id = R[i].account_id /\ R2[i].side = R[i].side
      BY <2>3, <2>4 DEF m
  <2>6. OwnersKept(b2, b)
      BY <2>3, <2>5 DEF OwnersKept, D, D2, R, R2
  <2>7. ASSUME NEW id
        PROVE RestsIn(b2, id) = RestsIn(b, id) - (IF id = i THEN n ELSE 0)
    <3>1. CASE id = i
      <4>1. RestsIn(b, i) = m
          BY <1>4, <2>2 DEF m
      <4>2. RestsIn(b2, i) = m - n
          BY <1>4, <2>2, <2>3, <2>5
      <4> QED
          BY <3>1, <4>1, <4>2
    <3>2. CASE id # i
      <4>1. RestsIn(b2, id) = RestsIn(b, id)
          BY <1>4, <2>3, <3>2
      <4>2. RestsIn(b, id) \in Nat
          BY <1>3
      <4> QED
          BY <3>2, <4>1, <4>2
    <3> QED
        BY <3>1, <3>2
  <2> QED
      BY <2>6, <2>7
<1> QED
    BY <1>5, <1>6

\* Every reservation of rs2 is one of rs, of the same account and side.
ReservationsKept(rs2, rs) ==
    \A key \in DOMAIN rs2.reservations :
        /\ key \in DOMAIN rs.reservations
        /\ rs2.reservations[key].account_id = rs.reservations[key].account_id
        /\ rs2.reservations[key].side = rs.reservations[key].side

\* What a release takes from the reservations.
LEMMA LoweredHolds ==
    ASSUME NEW rs, SoundRisk(rs), NEW rs2, SoundRisk(rs2),
           NEW key \in DOMAIN rs.reservations, NEW n, Lowered(rs2, rs, key, n)
    PROVE  /\ ReservationsKept(rs2, rs)
           /\ \A k : Held(rs2, k) = Held(rs, k) - (IF k = key THEN n ELSE 0)
<1> DEFINE R  == rs.reservations
           R2 == rs2.reservations
<1>1. R[key].remaining_quantity \in 1 .. MaxQuantity
    BY RiskFacts
<1>2. /\ n \in 1 .. R[key].remaining_quantity
      /\ OneChange(R2, R, key)
      /\ key \in DOMAIN R2 <=> n < R[key].remaining_quantity
      /\ key \in DOMAIN R2 =>
           /\ R2[key].remaining_quantity = R[key].remaining_quantity - n
           /\ R2[key].account_id = R[key].account_id
           /\ R2[key].side = R[key].side
    BY DEF Lowered
<1>3. \A k : Held(rs, k) \in Nat
    BY HeldFacts
<1>4. \A k : /\ Held(rs, k) = IF k \in DOMAIN R THEN R[k].remaining_quantity ELSE 0
             /\ Held(rs2, k) = IF k \in DOMAIN R2 THEN R2[k].remaining_quantity ELSE 0
    BY DEF Held
<1>5. ReservationsKept(rs2, rs)
    BY <1>2 DEF ReservationsKept, OneChange
<1> HIDE DEF R, R2
<1>6. ASSUME NEW k PROVE Held(rs2, k) = Held(rs, k) - (IF k = key THEN n ELSE 0)
  <2>1. CASE k = key
      BY <1>1, <1>2, <1>4, <2>1, BookAssumption DEF R
  <2>2. CASE k # key
    <3>1. Held(rs2, k) = Held(rs, k)
        BY <1>2, <1>4, <2>2 DEF OneChange
    <3> QED
        BY <1>3, <2>2, <3>1
  <2> QED
      BY <2>1, <2>2
<1> QED
    BY <1>5, <1>6

\* The order that rests is the request's, with the quantity that was left.
LEMMA JoinedBook ==
    ASSUME NEW b, GoodBook(b), NEW b2, GoodBook(b2), NEW o, NEW left \in Nat,
           o.order_id \notin DOMAIN b.order_locations,
           JoinsMap(RestingMap(b2), RestingMap(b), o.order_id,
                    [side |-> o.side, price |-> o.price,
                     remaining_quantity |-> left,
                     order_type |-> o.order_type, account_id |-> o.account_id])
    PROVE  /\ \A id : RestsIn(b2, id) = RestsIn(b, id)
                                          + (IF id = o.order_id THEN left ELSE 0)
           /\ DOMAIN b2.order_locations = DOMAIN b.order_locations \cup {o.order_id}
           /\ RestingMap(b2)[o.order_id].account_id = o.account_id
           /\ RestingMap(b2)[o.order_id].side = o.side
           /\ \A id \in DOMAIN b.order_locations :
                RestingMap(b2)[id] = RestingMap(b)[id]
<1> DEFINE R  == RestingMap(b)
           R2 == RestingMap(b2)
           D  == DOMAIN b.order_locations
           D2 == DOMAIN b2.order_locations
           i  == o.order_id
           e  == [side |-> o.side, price |-> o.price, remaining_quantity |-> left,
                  order_type |-> o.order_type, account_id |-> o.account_id]
<1>1. DOMAIN R = D /\ DOMAIN R2 = D2
    BY RestingTyped DEF GoodBook, IsSound
<1>2. \A id : RestsIn(b, id) \in Nat
    BY RestsInFacts
<1>3. \A id : /\ RestsIn(b, id) = IF id \in D THEN R[id].remaining_quantity ELSE 0
              /\ RestsIn(b2, id) = IF id \in D2 THEN R2[id].remaining_quantity ELSE 0
    BY DEF RestsIn
<1>4. R2 = [j \in DOMAIN R \cup {i} |-> IF j = i THEN e ELSE R[j]]
    BY DEF JoinsMap
<1>5. /\ e.remaining_quantity = left /\ e.account_id = o.account_id
      /\ e.side = o.side
    OBVIOUS
<1> HIDE DEF R, R2, D, D2, e
<1>6. /\ D2 = D \cup {i} /\ R2[i] = e /\ i \notin D
      /\ \A id \in D : R2[id] = R[id]
    BY <1>1, <1>4 DEF D
<1>7. ASSUME NEW id
      PROVE  RestsIn(b2, id) = RestsIn(b, id) + (IF id = o.order_id THEN left ELSE 0)
  <2>1. CASE id = i
      BY <1>3, <1>5, <1>6, <2>1
  <2>2. CASE id # i
    <3>1. RestsIn(b2, id) = RestsIn(b, id)
        BY <1>3, <1>6, <2>2
    <3> QED
        BY <1>2, <2>2, <3>1
  <2> QED
      BY <2>1, <2>2
<1> QED
    BY <1>5, <1>6, <1>7 DEF R, R2, D, D2

\* The open-order and margin totals of no account grew.
Eased(rs2, rs) ==
    \A a \in AccountIds, i \in Instruments :
        LET st  == rs.account_states[<<a, i>>]
            st2 == rs2.account_states[<<a, i>>]
        IN  /\ st2.open_order_quantity <= st.open_order_quantity
            /\ st2.reserved_margin <= st.reserved_margin

\* The state of an account is one of AccountStates.
LEMMA StateTyped ==
    ASSUME NEW rs, SoundRisk(rs), NEW a \in AccountIds, NEW i \in Instruments
    PROVE  rs.account_states[<<a, i>>] \in AccountStates
    BY RiskFacts

\* Releasing all that may be held leaves nothing of a reservation.
LEMMA ReleaseAll ==
    ASSUME NEW rs, SoundRisk(rs), Totals(rs), NEW key \in OrderKeys,
           NEW quantity \in Nat, Held(rs, key) <= quantity
    PROVE  LET rs2 == release(rs, key, quantity)
           IN  /\ SoundRisk(rs2) /\ Totals(rs2)
               /\ ReservationsKept(rs2, rs) /\ Eased(rs2, rs)
               /\ \A k : Held(rs2, k) = IF k = key THEN 0 ELSE Held(rs, k)
               /\ rs2 = rs \/ Lowered(rs2, rs, key, Held(rs, key))
<1> DEFINE rs2 == release(rs, key, quantity)
           n   == Held(rs, key)
<1>1. /\ \A k : Held(rs, k) \in Nat
      /\ \A k : k \in DOMAIN rs.reservations <=> Held(rs, k) # 0
    BY HeldFacts
<1>2. CASE key \notin DOMAIN rs.reservations
  <2>1. rs2 = rs
      BY <1>2 DEF release
  <2>2. \A k : Held(rs, k) = IF k = key THEN 0 ELSE Held(rs, k)
      BY <1>1, <1>2
  <2>3. Eased(rs, rs)
    <3> SUFFICES ASSUME NEW a \in AccountIds, NEW i \in Instruments
                 PROVE  LET st == rs.account_states[<<a, i>>]
                        IN  /\ st.open_order_quantity <= st.open_order_quantity
                            /\ st.reserved_margin <= st.reserved_margin
        BY DEF Eased
    <3> QED
        BY StateTyped, StateFacts, Widths
  <2>4. ReservationsKept(rs, rs)
      BY DEF ReservationsKept
  <2> HIDE DEF rs2
  <2> QED
      BY <2>1, <2>2, <2>3, <2>4 DEF rs2
<1>3. CASE key \in DOMAIN rs.reservations
  <2>1. n = rs.reservations[key].remaining_quantity /\ n \in Nat \ {0}
      BY <1>1, <1>3 DEF Held
  <2>2. quantity \in Nat \ {0}
      BY <2>1
  <2>3. n = IF quantity <= n THEN quantity ELSE n
      BY <2>1, <2>2
  <2>4. SoundRisk(rs2) /\ Totals(rs2) /\ Lowered(rs2, rs, key, n)
      BY <1>3, <2>1, <2>2, <2>3, ReleaseLowers
  <2> HIDE DEF rs2
  <2>5. /\ ReservationsKept(rs2, rs)
        /\ \A k : Held(rs2, k) = Held(rs, k) - (IF k = key THEN n ELSE 0)
      BY <1>3, <2>4, LoweredHolds
  <2>6. \A k : Held(rs2, k) = IF k = key THEN 0 ELSE Held(rs, k)
      BY <1>1, <2>5
  <2>7. Eased(rs2, rs)
      BY <2>4 DEF Lowered, Eased
  <2> QED
      BY <2>4, <2>5, <2>6, <2>7 DEF rs2
<1> QED
    BY <1>2, <1>3

\* One side of an applied trade: n units leave the reservation of key, then the
\* position of the account moves by n.
HalfSettled(rs3, rs, key, account, side, n) ==
    \E rs2 : /\ SoundRisk(rs2) /\ Totals(rs2)
             /\ Lowered(rs2, rs, key, n)
             /\ Repositioned(rs3, rs2, account, key[1], Direction(side) * Signed(n))

\* Releasing a fill and moving the position settles one side of a trade.
LEMMA HalfSettles ==
    ASSUME NEW rs, SoundRisk(rs), Totals(rs), NEW key \in DOMAIN rs.reservations,
           NEW account \in AccountIds, NEW side \in Sides,
           NEW q \in Nat \ {0}, q <= Held(rs, key)
    PROVE  LET rs3 == update_position(release(rs, key, q), account, key[1], side, q)
           IN  /\ SoundRisk(rs3) /\ Totals(rs3)
               /\ HalfSettled(rs3, rs, key, account, side, q)
               /\ ReservationsKept(rs3, rs) /\ Eased(rs3, rs)
               /\ \A k : Held(rs3, k) = Held(rs, k) - (IF k = key THEN q ELSE 0)
<1> DEFINE rs2 == release(rs, key, q)
           rs3 == update_position(rs2, account, key[1], side, q)
           d   == Direction(side) * Signed(q)
           held == rs.reservations[key].remaining_quantity
<1>1. key[1] \in Instruments
    BY RiskFacts
<1>2. held = Held(rs, key) /\ held \in Nat
    BY HeldFacts DEF Held
<1>3. q = IF q <= held THEN q ELSE held
    BY <1>2
<1>4. SoundRisk(rs2) /\ Totals(rs2) /\ Lowered(rs2, rs, key, q)
    BY <1>3, ReleaseLowers
<1> HIDE DEF rs2
<1>5. SoundRisk(rs3) /\ Totals(rs3) /\ Repositioned(rs3, rs2, account, key[1], d)
    BY <1>1, <1>4, PositionMoves
<1> HIDE DEF rs3, d
<1>6. HalfSettled(rs3, rs, key, account, side, q)
    BY <1>4, <1>5 DEF HalfSettled, d
<1>7. /\ ReservationsKept(rs2, rs)
      /\ \A k : Held(rs2, k) = Held(rs, k) - (IF k = key THEN q ELSE 0)
    BY <1>4, LoweredHolds
<1>8. rs3.reservations = rs2.reservations
    BY <1>5 DEF Repositioned
<1>9. ReservationsKept(rs3, rs)
    BY <1>7, <1>8 DEF ReservationsKept
<1>10. \A k : Held(rs3, k) = Held(rs, k) - (IF k = key THEN q ELSE 0)
  <2>1. \A k : Held(rs3, k) = Held(rs2, k)
      BY <1>8 DEF Held
  <2> QED
      BY <1>7, <2>1
<1>11. Eased(rs3, rs)
  <2> SUFFICES ASSUME NEW a \in AccountIds, NEW i \in Instruments
               PROVE  LET st  == rs.account_states[<<a, i>>]
                          st3 == rs3.account_states[<<a, i>>]
                      IN  /\ st3.open_order_quantity <= st.open_order_quantity
                          /\ st3.reserved_margin <= st.reserved_margin
      BY DEF Eased
  <2>1. LET st  == rs.account_states[<<a, i>>]
            st2 == rs2.account_states[<<a, i>>]
        IN  /\ st2.open_order_quantity <= st.open_order_quantity
            /\ st2.reserved_margin <= st.reserved_margin
      BY <1>4 DEF Lowered
  <2>2. LET st2 == rs2.account_states[<<a, i>>]
            st3 == rs3.account_states[<<a, i>>]
        IN  /\ st3.open_order_quantity = st2.open_order_quantity
            /\ st3.reserved_margin = st2.reserved_margin
      BY <1>5 DEF Repositioned
  <2> QED
      BY <2>1, <2>2
<1> QED
    BY <1>5, <1>6, <1>9, <1>10, <1>11 DEF rs3, rs2

\* Both sides of an applied trade, the incoming one first.
Settled(rs2, rs, i, r, maker, q) ==
    LET taker == <<i, r.order_id>>
        res   == rs.reservations[maker]
    IN  \E mid : /\ SoundRisk(mid) /\ Totals(mid)
                 /\ HalfSettled(mid, rs, taker, r.account_id, r.side, q)
                 /\ HalfSettled(rs2, mid, maker, res.account_id, res.side, q)

\* Applying a trade whose two orders have enough reserved settles both sides.
LEMMA TradeSettles ==
    ASSUME NEW rs, SoundRisk(rs), Totals(rs), NEW i \in Instruments,
           NEW r \in Requests, NEW t \in TradeEvents,
           t.resting_order_id # r.order_id,
           t.quantity <= Held(rs, <<i, r.order_id>>),
           t.quantity <= Held(rs, <<i, t.resting_order_id>>)
    PROVE  LET taker == <<i, r.order_id>>
               maker == <<i, t.resting_order_id>>
               rs2   == ApplyTrade(rs, i, r, t, TRUE)
           IN  /\ SoundRisk(rs2) /\ Totals(rs2)
               /\ Settled(rs2, rs, i, r, maker, t.quantity)
               /\ ReservationsKept(rs2, rs) /\ Eased(rs2, rs)
               /\ \A k : Held(rs2, k) =
                           Held(rs, k) - (IF k \in {taker, maker} THEN t.quantity ELSE 0)
<1> DEFINE q     == t.quantity
           taker == <<i, r.order_id>>
           maker == <<i, t.resting_order_id>>
           low   == release(rs, taker, q)
           mid   == update_position(low, r.account_id, i, r.side, q)
           res   == mid.reservations[maker]
           rs2   == update_position(release(mid, maker, q), res.account_id, i,
                                    res.side, q)
<1>1. /\ q \in Nat \ {0} /\ r.account_id \in AccountIds /\ r.side \in Sides
      /\ taker[1] = i /\ maker[1] = i /\ maker # taker
    BY DEF TradeEvents, Requests, Quantities
<1>2. /\ \A k : Held(rs, k) \in Nat
      /\ \A k : k \in DOMAIN rs.reservations <=> Held(rs, k) # 0
    BY HeldFacts
<1> HIDE DEF q, taker, maker
<1>3. taker \in DOMAIN rs.reservations /\ q <= Held(rs, taker)
    BY <1>1, <1>2 DEF q, taker
<1>4. /\ SoundRisk(mid) /\ Totals(mid)
      /\ HalfSettled(mid, rs, taker, r.account_id, r.side, q)
      /\ ReservationsKept(mid, rs) /\ Eased(mid, rs)
      /\ \A k : Held(mid, k) = Held(rs, k) - (IF k = taker THEN q ELSE 0)
    BY <1>1, <1>3, HalfSettles
<1> HIDE DEF mid
<1>5. Held(mid, maker) = Held(rs, maker) /\ q <= Held(mid, maker)
    BY <1>1, <1>2, <1>4 DEF maker, q
<1>6. maker \in DOMAIN mid.reservations
  <2>1. maker \in DOMAIN mid.reservations <=> Held(mid, maker) # 0
      BY <1>4, HeldFacts
  <2> QED
      BY <1>1, <1>5, <2>1
<1>7. /\ res.account_id \in AccountIds /\ res.side \in Sides
    BY <1>4, <1>6, RiskFacts
<1>8. /\ maker \in DOMAIN rs.reservations
      /\ res.account_id = rs.reservations[maker].account_id
      /\ res.side = rs.reservations[maker].side
    BY <1>4, <1>6 DEF ReservationsKept
<1> HIDE DEF res
<1>9. /\ SoundRisk(rs2) /\ Totals(rs2)
      /\ HalfSettled(rs2, mid, maker, res.account_id, res.side, q)
      /\ ReservationsKept(rs2, mid) /\ Eased(rs2, mid)
      /\ \A k : Held(rs2, k) = Held(mid, k) - (IF k = maker THEN q ELSE 0)
    BY <1>1, <1>4, <1>5, <1>6, <1>7, HalfSettles
<1>10. rs2 = ApplyTrade(rs, i, r, t, TRUE)
    BY <1>6 DEF ApplyTrade, mid, low, res, maker, taker, q
<1> HIDE DEF rs2
<1>11. Settled(rs2, rs, i, r, maker, q)
    BY <1>4, <1>8, <1>9 DEF Settled, taker
<1>12. ReservationsKept(rs2, rs)
    BY <1>4, <1>9 DEF ReservationsKept
<1>13. Eased(rs2, rs)
  <2> SUFFICES ASSUME NEW a \in AccountIds, NEW j \in Instruments
               PROVE  LET st  == rs.account_states[<<a, j>>]
                          st2 == rs2.account_states[<<a, j>>]
                      IN  /\ st2.open_order_quantity <= st.open_order_quantity
                          /\ st2.reserved_margin <= st.reserved_margin
      BY DEF Eased
  <2> DEFINE st  == rs.account_states[<<a, j>>]
             stm == mid.account_states[<<a, j>>]
             st2 == rs2.account_states[<<a, j>>]
  <2>1. st \in AccountStates /\ stm \in AccountStates /\ st2 \in AccountStates
      BY <1>4, <1>9, StateTyped
  <2>2. /\ stm.open_order_quantity <= st.open_order_quantity
        /\ stm.reserved_margin <= st.reserved_margin
      BY <1>4 DEF Eased
  <2>3. /\ st2.open_order_quantity <= stm.open_order_quantity
        /\ st2.reserved_margin <= stm.reserved_margin
      BY <1>9 DEF Eased
  <2> HIDE DEF st, stm, st2
  <2>4. /\ {st.open_order_quantity, stm.open_order_quantity,
            st2.open_order_quantity} \subseteq Int
        /\ {st.reserved_margin, stm.reserved_margin, st2.reserved_margin} \subseteq Int
      BY <2>1, StateFacts, Widths
  <2>5. /\ st2.open_order_quantity <= st.open_order_quantity
        /\ st2.reserved_margin <= st.reserved_margin
      BY <2>2, <2>3, <2>4
  <2> QED
      BY <2>5 DEF st, st2
<1>14. \A k : Held(rs2, k) =
                Held(rs, k) - (IF k \in {taker, maker} THEN q ELSE 0)
  <2> SUFFICES ASSUME NEW k
               PROVE  Held(rs2, k) =
                        Held(rs, k) - (IF k \in {taker, maker} THEN q ELSE 0)
      OBVIOUS
  <2>1. /\ Held(rs, k) \in Nat /\ q \in Nat
        /\ Held(mid, k) = Held(rs, k) - (IF k = taker THEN q ELSE 0)
        /\ Held(rs2, k) = Held(mid, k) - (IF k = maker THEN q ELSE 0)
      BY <1>1, <1>2, <1>4, <1>9
  <2>2. CASE k = taker
      BY <1>1, <2>1, <2>2
  <2>3. CASE k = maker
      BY <1>1, <2>1, <2>3
  <2>4. CASE k # taker /\ k # maker
      BY <2>1, <2>4
  <2> QED
      BY <2>2, <2>3, <2>4
<1> QED
    BY <1>9, <1>10, <1>11, <1>12, <1>13, <1>14 DEF q, taker, maker

----------------------------------------------------------------------------
(* The inductive invariant                                                  *)

\* The account state is typed, its totals are sums, its limits hold.
RiskIsSound ==
    SoundRisk(risk) /\ Totals(risk) /\ ReservationLimitsHold

\* Every book is typed, consistently indexed and uncrossed.
BooksAreGood == \A i \in DOMAIN order_books : GoodBook(order_books[i])

\* The instrument and the request of the running call, and its order.
Here    == call.instrument_id
Req     == call.request
Subject == <<call.instrument_id, call.request.order_id>>

\* An accepted order is being matched, or its events are being applied.
IsPlacing ==
    /\ events # <<>> /\ events[1] = Accepted(Req)
    /\ Req \in Orders
    /\ call.reservation_created
    /\ \A k \in 2 .. Len(events) :
          /\ events[k] \in TradeEvents
          /\ events[k].incoming_order_id = Req.order_id
          /\ events[k].resting_order_id # Req.order_id

\* The book refused an order or a cancellation.
IsRefused ==
    /\ Len(events) = 1 /\ events[1].kind = "rejected"
    /\ call.reservation_created => ~Rests(order_books, Subject)

\* An order has left the book and its reservation is to follow.
IsCanceling ==
    /\ Len(events) = 1 /\ events[1].kind = "canceled"
    /\ events[1].order_id = Req.order_id
    /\ ~call.reservation_created
    /\ ~Rests(order_books, Subject)

\* What the locals of a call say in each of its phases.
CallShape ==
    /\ phase = "idle" => call = NoCall /\ events = <<>> /\ applied = 0
    /\ ~Visible => call # NoCall /\ Here \in DOMAIN order_books
    /\ phase = "matching" =>
          applied = 0 /\ IsPlacing /\ ~Rests(order_books, Subject)
    /\ phase = "applying" =>
          \/ /\ IsPlacing
             /\ Req.order_type \notin RestingTypes => ~Rests(order_books, Subject)
          \/ IsRefused
          \/ IsCanceling

\* The order of the call, when apply is still to give back what is left of its
\* reservation as a whole: an order that never rests, a refused order, a
\* canceled one.
Settling(key) ==
    /\ phase = "applying" /\ key = Subject
    /\ \/ events[1].kind = "accepted" /\ Req.order_type \notin RestingTypes
       \/ events[1].kind = "rejected" /\ call.reservation_created /\ applied = 0
       \/ events[1].kind = "canceled" /\ applied = 0

\* What is left of the order that is being matched.
Unmatched(key) == IF phase = "matching" /\ key = Subject THEN remaining ELSE 0

\* Inside a call a reservation is ahead of the book by the trades that are
\* still to be applied and by what is still to be matched.
Balanced(key) ==
    LET due == Pending(events, applied, Here, key)
    IN  IF Settling(key) THEN Held(risk, key) >= due
        ELSE Held(risk, key) = Booked(order_books, key) + Unmatched(key) + due

\* The reservation of every order and its place in the books, order by order.
Ledger ==
    \A key \in OrderKeys :
        IF Visible THEN Held(risk, key) = Booked(order_books, key)
                   ELSE Balanced(key)

\* The running order never has more reserved than it asked for.
Covered ==
    ~Visible /\ call.reservation_created => Held(risk, Subject) <= Req.quantity

\* A reservation and a resting order of the same key have the same owner and
\* side.
Agree(rs, obs) ==
    \A key \in DOMAIN rs.reservations :
        Rests(obs, key) =>
            /\ RestingMap(obs[key[1]])[key[2]].account_id
                 = rs.reservations[key].account_id
            /\ RestingMap(obs[key[1]])[key[2]].side = rs.reservations[key].side

\* Agree of the current state.
SameOwner == Agree(risk, order_books)

\* The reservation of the running order is its own.
OwnReservation ==
    \A key \in DOMAIN risk.reservations :
        ~Visible /\ call.reservation_created /\ key = Subject =>
            /\ risk.reservations[key].account_id = Req.account_id
            /\ risk.reservations[key].side = Req.side

\* The resting order of a trade that is still to be applied is on the other
\* side.
MakersOpposite ==
    ~Visible =>
        \A k \in applied + 1 .. Len(events) :
            events[k].kind = "trade" =>
                \A key \in DOMAIN risk.reservations :
                    key = <<Here, events[k].resting_order_id>> =>
                        risk.reservations[key].side = Opposite(Req.side)

\* The inductive invariant of the engine.
EngineInv ==
    /\ TypeOK
    /\ RiskIsSound
    /\ BooksAreGood
    /\ CallShape
    /\ Ledger
    /\ Covered
    /\ SameOwner
    /\ OwnReservation
    /\ MakersOpposite

----------------------------------------------------------------------------
(* The steps                                                                *)

\* No account has anything reserved at the start.
LEMMA NewRiskIsSound ==
    /\ SoundRisk(NewRisk) /\ Totals(NewRisk)
    /\ DOMAIN NewRisk.reservations = {}
    /\ \A a \in AccountIds, i \in Instruments :
         LET st == NewRisk.account_states[<<a, i>>]
         IN  /\ st.position = 0
             /\ st.open_order_quantity = 0 /\ st.reserved_margin = 0
             /\ st.buy_reserved_quantity = 0 /\ st.sell_reserved_quantity = 0
<1> DEFINE rs   == NewRisk
           R    == rs.reservations
           zero == [position |-> 0, open_order_quantity |-> 0,
                    buy_reserved_quantity |-> 0, sell_reserved_quantity |-> 0,
                    reserved_margin |-> 0]
<1>1. zero \in AccountStates
    BY Widths DEF AccountStates
<1>2. /\ rs = [account_states |-> rs.account_states, reservations |-> R]
      /\ rs.account_states = [ai \in AccountIds \X Instruments |-> zero]
      /\ R = [k \in {} |-> <<>>]
    BY DEF NewRisk
<1> HIDE DEF rs, R
<1>3. DOMAIN R = {} /\ R \in [DOMAIN R -> Reservations]
    BY <1>2
<1>4. IsFiniteSet(DOMAIN R)
    BY <1>3, FS_EmptySet
<1> HIDE DEF zero
<1>5. /\ rs.account_states \in [AccountIds \X Instruments -> AccountStates]
      /\ \A a \in AccountIds, i \in Instruments : rs.account_states[<<a, i>>] = zero
    BY <1>1, <1>2
<1>6. SoundRisk(rs)
    BY <1>2, <1>3, <1>4, <1>5 DEF SoundRisk, IsRisk, R
<1>7. \A a, i, s : ReservedOn(R, a, i, s) = 0 /\ MarginOf(R, a, i) = 0
  <2>1. \A a, i, s : OfAccount(R, a, i) = {} /\ OfSide(R, a, i, s) = {}
      BY <1>3 DEF OfAccount, OfSide
  <2> QED
      BY <2>1, SumEmpty DEF ReservedOn, MarginOf
<1>8. Totals(rs)
  <2> SUFFICES ASSUME NEW a \in AccountIds, NEW i \in Instruments
               PROVE  LET st == rs.account_states[<<a, i>>]
                      IN  /\ st.buy_reserved_quantity = ReservedOn(R, a, i, "buy")
                          /\ st.sell_reserved_quantity = ReservedOn(R, a, i, "sell")
                          /\ st.open_order_quantity =
                               ReservedOn(R, a, i, "buy") + ReservedOn(R, a, i, "sell")
                          /\ st.reserved_margin = MarginOf(R, a, i)
      BY DEF Totals, R
  <2>1. /\ ReservedOn(R, a, i, "buy") = 0 /\ ReservedOn(R, a, i, "sell") = 0
        /\ MarginOf(R, a, i) = 0
      BY <1>7
  <2>2. rs.account_states[<<a, i>>] = zero
      BY <1>5
  <2> QED
      BY <2>1, <2>2 DEF zero
<1> QED
    BY <1>3, <1>5, <1>6, <1>8 DEF rs, R, zero

\* It holds of an engine without instruments.
LEMMA InitEngineInv == Init => EngineInv
<1> SUFFICES ASSUME Init PROVE EngineInv
    OBVIOUS
<1> USE DEF Init
<1>1. /\ DOMAIN order_books = {} /\ risk = NewRisk /\ phase = "idle" /\ Visible
      /\ call = NoCall /\ remaining = 0 /\ events = <<>> /\ applied = 0
    BY DEF Visible
<1>2. RiskIsSound
  <2>1. 0 <= maximum_open_order_quantity /\ 0 <= maximum_account_credit
      BY RiskAssumption, Widths
  <2>2. ReservationLimitsHold
      BY <1>1, <2>1, NewRiskIsSound DEF ReservationLimitsHold
  <2> QED
      BY <1>1, <2>2, NewRiskIsSound DEF RiskIsSound
<1>3. TypeOK
  <2>1. IsRisk(risk)
      BY <1>1, NewRiskIsSound DEF SoundRisk
  <2>2. events \in Seq(Events) /\ applied \in 0 .. Len(events)
      BY <1>1
  <2>3. remaining \in 0 .. MaxQuantity
      BY <1>1, BookAssumption
  <2> QED
      BY <1>1, <2>1, <2>2, <2>3 DEF TypeOK, Phases
<1>4. BooksAreGood
    BY <1>1 DEF BooksAreGood
<1>5. CallShape
    BY <1>1 DEF CallShape
<1>6. Ledger
    BY <1>1, NewRiskIsSound DEF Ledger, Held, Booked
<1>7. Covered /\ OwnReservation /\ MakersOpposite
    BY <1>1 DEF Covered, OwnReservation, MakersOpposite
<1>8. SameOwner
    BY <1>1, NewRiskIsSound DEF SameOwner, Agree
<1> QED
    BY <1>2, <1>3, <1>4, <1>5, <1>6, <1>7, <1>8 DEF EngineInv

\* What the invariant says of the reservations, spelled out.
LEMMA InvFacts ==
    ASSUME EngineInv
    PROVE  /\ SoundRisk(risk) /\ Totals(risk) /\ ReservationLimitsHold
           /\ DOMAIN order_books \subseteq Instruments
           /\ \A i \in DOMAIN order_books : GoodBook(order_books[i])
           /\ events \in Seq(Events) /\ Len(events) \in Nat
           /\ applied \in 0 .. Len(events) /\ applied \in Nat
           /\ remaining \in 0 .. MaxQuantity /\ remaining \in Nat
           /\ \A key : Held(risk, key) \in Nat
           /\ \A key : key \in DOMAIN risk.reservations <=> Held(risk, key) # 0
           /\ DOMAIN risk.reservations \subseteq OrderKeys
           /\ \A key : Booked(order_books, key) \in Nat
           /\ \A key : Rests(order_books, key) <=> Booked(order_books, key) # 0
           /\ \A i, key : Pending(events, applied, i, key) \in Nat
           /\ \A key : Unmatched(key) \in Nat
<1> USE DEF EngineInv
<1>1. SoundRisk(risk) /\ Totals(risk) /\ ReservationLimitsHold
    BY DEF RiskIsSound
<1>2. /\ DOMAIN order_books \subseteq Instruments
      /\ events \in Seq(Events) /\ applied \in 0 .. Len(events)
      /\ remaining \in 0 .. MaxQuantity
    BY DEF TypeOK
<1>3. Len(events) \in Nat /\ applied \in Nat
    BY <1>2, LenProperties
<1>4. remaining \in Nat
    BY <1>2, BookAssumption
<1>5. \A i \in DOMAIN order_books : GoodBook(order_books[i])
    BY DEF BooksAreGood
<1>6. /\ \A key : Held(risk, key) \in Nat
      /\ \A key : key \in DOMAIN risk.reservations <=> Held(risk, key) # 0
    BY <1>1, HeldFacts
<1>7. DOMAIN risk.reservations \subseteq OrderKeys
    BY <1>1, RiskFacts
<1>8. /\ \A key : Booked(order_books, key) \in Nat
      /\ \A key : Rests(order_books, key) <=> Booked(order_books, key) # 0
    BY <1>5, RestsInFacts DEF Booked, Rests
<1>9. \A i, key : Pending(events, applied, i, key) \in Nat
    BY <1>2, PendingSum
<1>10. \A key : Unmatched(key) \in Nat
    BY <1>4 DEF Unmatched
<1> QED
    BY <1>1, <1>2, <1>3, <1>4, <1>5, <1>6, <1>7, <1>8, <1>9, <1>10

\* A state in which nothing is reserved that does not rest.
LEMMA VisibleLedger ==
    ASSUME EngineInv, Visible, NEW key \in OrderKeys
    PROVE  Held(risk, key) = Booked(order_books, key)
    BY DEF EngineInv, Ledger

\* Lower totals stay within the limits.
LEMMA EasedLimits ==
    ASSUME EngineInv, SoundRisk(risk'), Eased(risk', risk)
    PROVE  ReservationLimitsHold'
<1> SUFFICES ASSUME NEW a \in AccountIds, NEW i \in Instruments
             PROVE  LET st2 == risk'.account_states[<<a, i>>]
                    IN  /\ st2.open_order_quantity <= maximum_open_order_quantity
                        /\ st2.reserved_margin <= maximum_account_credit
    BY DEF ReservationLimitsHold
<1> DEFINE st  == risk.account_states[<<a, i>>]
           st2 == risk'.account_states[<<a, i>>]
<1>1. /\ st.open_order_quantity <= maximum_open_order_quantity
      /\ st.reserved_margin <= maximum_account_credit
    BY InvFacts DEF ReservationLimitsHold
<1>2. /\ st2.open_order_quantity <= st.open_order_quantity
      /\ st2.reserved_margin <= st.reserved_margin
    BY DEF Eased
<1>3. st \in AccountStates /\ st2 \in AccountStates
    BY InvFacts, StateTyped
<1> HIDE DEF st, st2
<1>4. /\ {st.open_order_quantity, st2.open_order_quantity,
          st.reserved_margin, st2.reserved_margin} \subseteq Int
      /\ {maximum_open_order_quantity, maximum_account_credit} \subseteq Int
    BY <1>3, StateFacts, Widths, RiskAssumption
<1>5. /\ st2.open_order_quantity <= maximum_open_order_quantity
      /\ st2.reserved_margin <= maximum_account_credit
    BY <1>1, <1>2, <1>4
<1> QED
    BY <1>5 DEF st2

\* The conjuncts of the invariant that only speak of a running call.
LEMMA VisibleTrivially ==
    ASSUME Visible'
    PROVE  Covered' /\ OwnReservation' /\ MakersOpposite'
    BY DEF Covered, OwnReservation, MakersOpposite

\* A new instrument has an empty book, so no order of it has a reservation.
LEMMA RegisterKeeps ==
    ASSUME EngineInv, NEW i \in Instruments, register_instrument(i)
    PROVE  EngineInv'
<1> USE DEF register_instrument
<1>1. /\ phase = "idle" /\ i \notin DOMAIN order_books
      /\ risk' = risk /\ phase' = phase /\ call' = call
      /\ remaining' = remaining /\ events' = events /\ applied' = applied
    OBVIOUS
<1>2. /\ DOMAIN order_books' = DOMAIN order_books \cup {i}
      /\ order_books'[i] = EmptyBook
      /\ \A j \in DOMAIN order_books : order_books'[j] = order_books[j]
    OBVIOUS
<1>3. Visible /\ Visible'
    BY <1>1 DEF Visible
<1>4. BooksAreGood'
    BY <1>2, InvFacts, EmptyBookIsGood DEF BooksAreGood
<1>5. TypeOK'
  <2>1. \A j \in DOMAIN order_books' : IsBook(order_books'[j])
      BY <1>4 DEF BooksAreGood, GoodBook
  <2> QED
      BY <1>1, <1>2, <2>1 DEF EngineInv, TypeOK
<1>6. RiskIsSound'
    BY <1>1 DEF EngineInv, RiskIsSound, ReservationLimitsHold
<1>7. CallShape'
    BY <1>1, <1>3 DEF EngineInv, CallShape
<1>8. DOMAIN EmptyBook.order_locations = {}
    BY DEF EmptyBook
<1>9. /\ \A key : Rests(order_books', key) <=> Rests(order_books, key)
      /\ \A key : Booked(order_books', key) = Booked(order_books, key)
      /\ \A key : Rests(order_books, key) =>
                    order_books'[key[1]] = order_books[key[1]]
    BY <1>1, <1>2, <1>8 DEF Rests, Booked, RestsIn
<1>10. Ledger'
    BY <1>1, <1>3, <1>9, VisibleLedger DEF Ledger
<1>11. SameOwner'
    BY <1>1, <1>9 DEF EngineInv, SameOwner, Agree
<1> QED
    BY <1>3, <1>4, <1>5, <1>6, <1>7, <1>10, <1>11, VisibleTrivially DEF EngineInv

\* A call that ends, or is refused by the checks, leaves books and
\* reservations alone.
LEMMA VisibleKeeps ==
    ASSUME EngineInv, Visible, UNCHANGED <<order_books, risk, remaining>>,
           phase' \in {"idle", "publishing"},
           call' \in Calls \cup {NoCall},
           phase' = "idle" => call' = NoCall /\ events' = <<>> /\ applied' = 0,
           events' \in Seq(Events), applied' \in 0 .. Len(events')
    PROVE  EngineInv'
<1>1. Visible'
    BY DEF Visible
<1>2. TypeOK'
    BY DEF EngineInv, TypeOK, Phases
<1>3. RiskIsSound' /\ BooksAreGood' /\ SameOwner'
    BY DEF EngineInv, RiskIsSound, ReservationLimitsHold, BooksAreGood,
           SameOwner, Agree
<1>4. CallShape'
    BY <1>1 DEF CallShape
<1>5. Ledger'
    BY <1>1, VisibleLedger DEF Ledger
<1> QED
    BY <1>1, <1>2, <1>3, <1>4, <1>5, VisibleTrivially DEF EngineInv

\* The reasons the checks give are reasons of the engine, and a rejection for
\* one of them is an event.
LEMMA RefusalTyped ==
    ASSUME NEW i, NEW r
    PROVE  Rejections(i, r) \ {"none"} \subseteq RejectReasons
<1>1. RiskRejection(r) # "none" => RiskRejection(r) \in RejectReasons
    BY DEF RiskRejection, RejectReasons
<1>2. AccountRejections(risk, i, r) \ {"none"} \subseteq RejectReasons
    BY DEF AccountRejections, RejectReasons
<1>3. "unknown_instrument" \in RejectReasons /\ "invalid_order" \in RejectReasons
    BY DEF RejectReasons
<1> QED
    BY <1>1, <1>2, <1>3 DEF Rejections

\* A rejection is an event.
LEMMA RejectedTyped ==
    ASSUME NEW id \in OrderIds, NEW reason \in RejectReasons
    PROVE  /\ Rejected(id, reason) \in Events
           /\ Rejected(id, reason).kind = "rejected"
           /\ <<Rejected(id, reason)>> \in Seq(Events)
<1>1. Rejected(id, reason) \in [kind: {"rejected"}, order_id: OrderIds,
                                reason: RejectReasons]
    BY DEF Rejected
<1>2. Rejected(id, reason).kind = "rejected"
    BY DEF Rejected
<1>3. Rejected(id, reason) \in Events
    BY <1>1 DEF Events
<1> QED
    BY <1>2, <1>3

\* An order the checks refuse changes nothing but the batch.
LEMMA PlaceRefusedKeeps ==
    ASSUME EngineInv, NEW i \in Instruments, NEW r \in Requests, PlaceRefused(i, r)
    PROVE  EngineInv'
<1>1. PICK reason \in Rejections(i, r) \ {"none"} :
        events' = <<Rejected(r.order_id, reason)>>
    BY DEF PlaceRefused
<1>2. r.order_id \in OrderIds /\ reason \in RejectReasons
    BY RefusalTyped DEF Requests
<1>3. events' \in Seq(Events) /\ Len(events') = 1
    BY <1>1, <1>2, RejectedTyped
<1>4. /\ phase = "idle" /\ phase' = "publishing"
      /\ UNCHANGED <<order_books, risk, call, remaining, applied>>
    BY DEF PlaceRefused
<1>5. Visible /\ applied' = 0 /\ call' = NoCall
    BY <1>4 DEF Visible, EngineInv, CallShape
<1> QED
    BY <1>3, <1>4, <1>5, VisibleKeeps

\* Neither does a cancellation for an instrument that is not registered.
LEMMA CancelUnknownKeeps ==
    ASSUME EngineInv, NEW i \in Instruments, NEW id \in OrderIds,
           CancelUnknownInstrument(i, id)
    PROVE  EngineInv'
<1>1. "unknown_instrument" \in RejectReasons
    BY DEF RejectReasons
<1>2. events' = <<Rejected(id, "unknown_instrument")>>
    BY DEF CancelUnknownInstrument
<1>3. events' \in Seq(Events) /\ Len(events') = 1
    BY <1>1, <1>2, RejectedTyped
<1>4. /\ phase = "idle" /\ phase' = "publishing"
      /\ UNCHANGED <<order_books, risk, call, remaining, applied>>
    BY DEF CancelUnknownInstrument
<1>5. Visible /\ applied' = 0 /\ call' = NoCall
    BY <1>4 DEF Visible, EngineInv, CallShape
<1> QED
    BY <1>3, <1>4, <1>5, VisibleKeeps

\* Publishing forgets the call.
LEMMA PublishKeeps ==
    ASSUME EngineInv, Publish
    PROVE  EngineInv'
<1>1. /\ phase = "publishing" /\ phase' = "idle" /\ call' = NoCall
      /\ events' = <<>> /\ applied' = 0
      /\ UNCHANGED <<order_books, risk, remaining>>
    BY DEF Publish
<1>2. Visible /\ events' \in Seq(Events) /\ applied' \in 0 .. Len(events')
    BY <1>1 DEF Visible
<1> QED
    BY <1>1, <1>2, VisibleKeeps

\* A request that passes the checks is an order, for a registered instrument,
\* and within the limits of its account unless its id is open already.
LEMMA CheckedRequest ==
    ASSUME EngineInv, NEW i \in Instruments, NEW r \in Requests,
           "none" \in Rejections(i, r)
    PROVE  /\ i \in DOMAIN order_books
           /\ r \in Orders /\ r.quantity > 0
           /\ RiskRejection(r) = "none"
           /\ ~IsDuplicate(i, r) => WithinLimits(risk, i, r)
<1>1. /\ i \in DOMAIN order_books /\ ValidRequest(r) /\ RiskRejection(r) = "none"
      /\ ~IsDuplicate(i, r) => "none" \in AccountRejections(risk, i, r)
    BY DEF Rejections
<1>2. r \in Orders /\ r.quantity > 0
  <2>1. r.price \in 0 .. MaxPrice /\ r.quantity \in 0 .. MaxQuantity
      BY DEF Requests
  <2>2. r.quantity \in Quantities /\ r.quantity > 0
      BY <1>1, <2>1, BookAssumption DEF ValidRequest, Quantities
  <2>3. r.order_type = "market" <=> r.price = 0
      BY <1>1, <2>1, BookAssumption DEF ValidRequest
  <2>4. r \in [order_id: OrderIds, side: Sides, price: 0 .. MaxPrice,
               quantity: Quantities, order_type: OrderTypes,
               account_id: AccountIds]
      BY <2>2 DEF Requests
  <2> QED
      BY <2>2, <2>3, <2>4 DEF Orders
<1>3. ~IsDuplicate(i, r) => WithinLimits(risk, i, r)
    BY <1>1, InvFacts, EvaluateMeans
<1> QED
    BY <1>1, <1>2, <1>3

\* What reserving for an admitted order does to the reservations.
LEMMA ReservedFor ==
    ASSUME EngineInv, Visible, NEW i \in Instruments, NEW r \in Requests,
           r.quantity > 0, i \in DOMAIN order_books,
           ~IsDuplicate(i, r), WithinLimits(risk, i, r),
           risk' = reserve(risk, i, r)
    PROVE  LET key == <<i, r.order_id>>
           IN  /\ SoundRisk(risk') /\ Totals(risk') /\ ReservationLimitsHold'
               /\ Raised(risk', risk, i, r)
               /\ ~Rests(order_books, key)
               /\ Booked(order_books, key) = 0
               /\ \A k : Held(risk', k) =
                           IF k = key THEN r.quantity ELSE Held(risk, k)
               /\ Agree(risk', order_books)
               /\ risk'.reservations[key].account_id = r.account_id
               /\ risk'.reservations[key].side = r.side
<1> DEFINE key == <<i, r.order_id>>
           R   == risk.reservations
           R2  == risk'.reservations
<1>1. key \in OrderKeys /\ key[1] = i /\ key[2] = r.order_id
    BY DEF OrderKeys, Requests
<1> HIDE DEF key
<1>2. ~Rests(order_books, key) /\ Booked(order_books, key) = 0
  <2>1. ~Rests(order_books, key)
      BY <1>1 DEF Rests, IsDuplicate, contains_order
  <2> QED
      BY <2>1, InvFacts
<1>3. key \notin DOMAIN R
    BY <1>1, <1>2, VisibleLedger, InvFacts
<1>4. SoundRisk(risk') /\ Totals(risk') /\ Raised(risk', risk, i, r)
  <2>1. SoundRisk(risk) /\ Totals(risk)
      BY InvFacts
  <2>2. <<i, r.order_id>> \notin DOMAIN risk.reservations
      BY <1>3 DEF key
  <2> QED
      BY <2>1, <2>2, ReserveRaises
<1>5. /\ OneChange(R2, R, key) /\ key \in DOMAIN R2
      /\ R2[key].remaining_quantity = r.quantity
      /\ R2[key].account_id = r.account_id /\ R2[key].side = r.side
    BY <1>4 DEF Raised, key
<1>6. \A k : Held(risk', k) = IF k = key THEN r.quantity ELSE Held(risk, k)
    BY <1>5 DEF Held, OneChange
<1>7. Agree(risk', order_books)
    BY <1>2, <1>5 DEF EngineInv, SameOwner, Agree, OneChange
<1>8. ReservationLimitsHold'
  <2> SUFFICES ASSUME NEW a \in AccountIds, NEW j \in Instruments
               PROVE  LET st2 == risk'.account_states[<<a, j>>]
                      IN  /\ st2.open_order_quantity <= maximum_open_order_quantity
                          /\ st2.reserved_margin <= maximum_account_credit
      BY DEF ReservationLimitsHold
  <2> DEFINE st   == risk.account_states[<<a, j>>]
             st2  == risk'.account_states[<<a, j>>]
             here == a = r.account_id /\ j = i
  <2>1. /\ st.open_order_quantity <= maximum_open_order_quantity
        /\ st.reserved_margin <= maximum_account_credit
      BY InvFacts DEF ReservationLimitsHold
  <2>2. here => /\ st.open_order_quantity + r.quantity <= maximum_open_order_quantity
                /\ st.reserved_margin + margin_for(r) <= maximum_account_credit
      BY DEF WithinLimits
  <2>3. /\ st2.open_order_quantity =
             st.open_order_quantity + (IF here THEN r.quantity ELSE 0)
        /\ st2.reserved_margin =
             st.reserved_margin + (IF here THEN margin_for(r) ELSE 0)
    <3>1. AfterMove(risk', risk, key, r.account_id, r.side, r.quantity, margin_for(r))
        BY <1>4 DEF Raised, key
    <3> QED
        BY <1>1, <3>1 DEF AfterMove
  <2>4. st \in AccountStates
      BY InvFacts, StateTyped
  <2> HIDE DEF st, st2, here
  <2>5. st.open_order_quantity \in Int /\ st.reserved_margin \in Int
      BY <2>4, StateFacts, Widths
  <2>6. /\ st2.open_order_quantity <= maximum_open_order_quantity
        /\ st2.reserved_margin <= maximum_account_credit
    <3>1. CASE here
        BY <2>2, <2>3, <3>1
    <3>2. CASE ~here
        BY <2>1, <2>3, <2>5, <3>2
    <3> QED
        BY <3>1, <3>2
  <2> QED
      BY <2>6 DEF st2
<1> QED
    BY <1>2, <1>4, <1>5, <1>6, <1>7, <1>8 DEF key

\* What Admitted does, whether or not the id of the request is open.
LEMMA AdmittedMeans ==
    ASSUME EngineInv, NEW i \in Instruments, NEW r \in Requests, Admitted(i, r)
    PROVE  LET key == <<i, r.order_id>>
               dup == IsDuplicate(i, r)
           IN  /\ phase = "idle" /\ Visible /\ events = <<>> /\ applied = 0
               /\ i \in DOMAIN order_books /\ r \in Orders /\ r.quantity > 0
               /\ key \in OrderKeys
               /\ SoundRisk(risk') /\ Totals(risk') /\ ReservationLimitsHold'
               /\ dup => risk' = risk
               /\ ~dup => /\ WithinLimits(risk, i, r)
                          /\ Raised(risk', risk, i, r)
                          /\ ~Rests(order_books, key)
                          /\ Booked(order_books, key) = 0
                          /\ risk'.reservations[key].account_id = r.account_id
                          /\ risk'.reservations[key].side = r.side
               /\ \A k : Held(risk', k) =
                           IF ~dup /\ k = key THEN r.quantity ELSE Held(risk, k)
               /\ Agree(risk', order_books)
               /\ call' \in Calls /\ call' # NoCall
               /\ Here' = i /\ Req' = r /\ Subject' = key
               /\ call'.reservation_created = ~dup
<1> DEFINE dup == IsDuplicate(i, r)
           key == <<i, r.order_id>>
<1>1. phase = "idle" /\ "none" \in Rejections(i, r) /\ Visible
    BY DEF Admitted, Visible
<1>2. events = <<>> /\ applied = 0
    BY <1>1 DEF EngineInv, CallShape
<1>3. /\ i \in DOMAIN order_books /\ r \in Orders /\ r.quantity > 0
      /\ ~dup => WithinLimits(risk, i, r)
    BY <1>1, CheckedRequest
<1>4. /\ call' \in Calls /\ call'.instrument_id = i /\ call'.request = r
      /\ call'.reservation_created = ~dup
    BY DEF Admitted, Calls, IsDuplicate, contains_order
<1>5. call' # NoCall /\ Here' = i /\ Req' = r /\ Subject' = key
    BY <1>4, EngineAssumption DEF Here, Req, Subject
<1>6. key \in OrderKeys
    BY DEF OrderKeys, Requests
<1>7. CASE dup
  <2>1. risk' = risk
      BY <1>7 DEF Admitted
  <2>2. SoundRisk(risk') /\ Totals(risk') /\ ReservationLimitsHold'
      BY <2>1, InvFacts DEF ReservationLimitsHold
  <2>3. Agree(risk', order_books)
      BY <2>1 DEF EngineInv, SameOwner
  <2> HIDE DEF dup, key
  <2> QED
      BY <1>1, <1>2, <1>3, <1>4, <1>5, <1>6, <1>7, <2>1, <2>2, <2>3 DEF dup, key
<1>8. CASE ~dup
  <2>1. risk' = reserve(risk, i, r)
      BY <1>8 DEF Admitted
  <2>2. /\ SoundRisk(risk') /\ Totals(risk') /\ ReservationLimitsHold'
        /\ Raised(risk', risk, i, r)
        /\ ~Rests(order_books, key)
        /\ Booked(order_books, key) = 0
        /\ \A k : Held(risk', k) =
                    IF k = key THEN r.quantity ELSE Held(risk, k)
        /\ Agree(risk', order_books)
        /\ risk'.reservations[key].account_id = r.account_id
        /\ risk'.reservations[key].side = r.side
      BY <1>1, <1>3, <1>8, <2>1, ReservedFor
  <2> HIDE DEF dup, key
  <2> QED
      BY <1>1, <1>2, <1>3, <1>4, <1>5, <1>6, <1>8, <2>2 DEF dup, key
<1> QED
    BY <1>7, <1>8

\* A batch of one event that is no trade has nothing to take from anybody.
LEMMA NothingPending ==
    ASSUME NEW e \in Events, e.kind # "trade", NEW batch, batch = <<e>>
    PROVE  /\ batch \in Seq(Events) /\ Len(batch) = 1 /\ batch[1] = e
           /\ batch # <<>>
           /\ \A i, key : Pending(batch, 0, i, key) = 0
<1>1. /\ batch \in Seq(Events) /\ Len(batch) = 1 /\ batch[1] = e /\ batch # <<>>
    OBVIOUS
<1>2. \A i, key : Pending(batch, 0, i, key) = 0
    BY PendingSingle
<1> QED
    BY <1>1, <1>2

\* The start of applying a batch of one event that is no trade.
LEMMA AloneKeeps ==
    ASSUME EngineInv, NEW e \in Events, e.kind # "trade", events' = <<e>>,
           applied' = 0
    PROVE  MakersOpposite'
<1>1. Len(events') = 1 /\ events'[1] = e
    OBVIOUS
<1>2. \A k \in applied' + 1 .. Len(events') : k = 1
    BY <1>1
<1> QED
    BY <1>1, <1>2 DEF MakersOpposite

\* An order the book refuses has its reservation until apply has seen the
\* rejection; a duplicate never had one.
LEMMA PlaceRejectedKeeps ==
    ASSUME EngineInv, NEW i \in Instruments, NEW r \in Requests,
           PlaceRejectedByBook(i, r)
    PROVE  EngineInv'
<1> DEFINE key == <<i, r.order_id>>
           dup == IsDuplicate(i, r)
           e   == Rejected(r.order_id, PlaceRejection(order_books[i], r))
<1>1. /\ Admitted(i, r)
      /\ PlaceRejection(order_books[i], r) # "none"
      /\ events' = <<e>> /\ phase' = "applying"
      /\ order_books' = order_books /\ remaining' = remaining /\ applied' = applied
    BY DEF PlaceRejectedByBook
<1>2. /\ phase = "idle" /\ Visible /\ events = <<>> /\ applied = 0
      /\ i \in DOMAIN order_books /\ r \in Orders /\ r.quantity > 0
      /\ key \in OrderKeys
      /\ SoundRisk(risk') /\ Totals(risk') /\ ReservationLimitsHold'
      /\ dup => risk' = risk
      /\ ~dup => /\ ~Rests(order_books, key)
                 /\ Booked(order_books, key) = 0
                 /\ risk'.reservations[key].account_id = r.account_id
                 /\ risk'.reservations[key].side = r.side
      /\ \A k : Held(risk', k) =
                  IF ~dup /\ k = key THEN r.quantity ELSE Held(risk, k)
      /\ Agree(risk', order_books)
      /\ call' \in Calls /\ call' # NoCall
      /\ Here' = i /\ Req' = r /\ Subject' = key
      /\ call'.reservation_created = ~dup
    BY <1>1, AdmittedMeans
<1>3. e \in Events /\ e.kind = "rejected"
  <2>1. PlaceRejection(order_books[i], r) \in RejectReasons
      BY <1>1, RejectionReasons DEF RejectReasons
  <2> QED
      BY <2>1, RejectedTyped DEF Requests
<1> HIDE DEF e, dup, key
<1>4. /\ events' \in Seq(Events) /\ Len(events') = 1 /\ events'[1] = e
      /\ \A j, k : Pending(events', 0, j, k) = 0
    BY <1>1, <1>3, NothingPending
<1>5. TypeOK'
    BY <1>1, <1>2, <1>4 DEF EngineInv, TypeOK, SoundRisk, Phases
<1>6. RiskIsSound' /\ BooksAreGood' /\ SameOwner'
    BY <1>1, <1>2 DEF EngineInv, RiskIsSound, BooksAreGood, SameOwner
<1>7. ~Visible'
    BY <1>1 DEF Visible
<1>8. IsRefused'
    BY <1>1, <1>2, <1>3, <1>4 DEF IsRefused
<1>9. CallShape'
    BY <1>1, <1>2, <1>7, <1>8 DEF CallShape
<1>10. Ledger'
  <2> SUFFICES ASSUME NEW k \in OrderKeys PROVE Balanced(k)'
      BY <1>7 DEF Ledger
  <2>1. Pending(events', applied', Here', k) = 0
      BY <1>1, <1>2, <1>4
  <2>2. Unmatched(k)' = 0
      BY <1>1 DEF Unmatched
  <2>3. Held(risk, k) = Booked(order_books, k) /\ Booked(order_books, k) \in Nat
      BY <1>2, VisibleLedger, InvFacts
  <2>4. CASE ~dup /\ k = key
    <3>1. Settling(k)'
        BY <1>1, <1>2, <1>3, <1>4, <2>4 DEF Settling
    <3>2. Held(risk', k) >= 0
        BY <1>2, <2>4 DEF Requests
    <3> QED
        BY <2>1, <3>1, <3>2 DEF Balanced
  <2>5. CASE dup \/ k # key
    <3>1. ~Settling(k)'
        BY <1>2, <1>3, <1>4, <2>5 DEF Settling
    <3>2. Held(risk', k) = Booked(order_books', k)
        BY <1>1, <1>2, <2>3, <2>5
    <3>3. Booked(order_books', k) = Booked(order_books', k) + 0 + 0
        BY <1>1, <2>3
    <3> QED
        BY <2>1, <2>2, <3>1, <3>2, <3>3 DEF Balanced
  <2> QED
      BY <2>4, <2>5
<1>11. Covered'
  <2>1. r.quantity <= r.quantity
      BY DEF Requests
  <2> QED
      BY <1>2, <2>1 DEF Covered
<1>12. OwnReservation'
    BY <1>2 DEF OwnReservation
<1>13. MakersOpposite'
    BY <1>1, <1>2, <1>3, AloneKeeps
<1> QED
    BY <1>5, <1>6, <1>9, <1>10, <1>11, <1>12, <1>13 DEF EngineInv

\* An accepted order starts matching with all of its quantity reserved.
LEMMA PlaceAcceptedKeeps ==
    ASSUME EngineInv, NEW i \in Instruments, NEW r \in Requests,
           PlaceAccepted(i, r)
    PROVE  EngineInv'
<1> DEFINE key == <<i, r.order_id>>
           dup == IsDuplicate(i, r)
           e   == Accepted(r)
<1>1. /\ Admitted(i, r)
      /\ PlaceRejection(order_books[i], r) = "none"
      /\ events' = <<e>> /\ phase' = "matching" /\ remaining' = r.quantity
      /\ order_books' = order_books /\ applied' = applied
    BY DEF PlaceAccepted
<1>2. ~dup
    BY <1>1, AcceptedMeans DEF IsDuplicate
<1>3. /\ phase = "idle" /\ Visible /\ events = <<>> /\ applied = 0
      /\ i \in DOMAIN order_books /\ r \in Orders /\ r.quantity > 0
      /\ key \in OrderKeys
      /\ SoundRisk(risk') /\ Totals(risk') /\ ReservationLimitsHold'
      /\ ~Rests(order_books, key)
      /\ Booked(order_books, key) = 0
      /\ risk'.reservations[key].account_id = r.account_id
      /\ risk'.reservations[key].side = r.side
      /\ \A k : Held(risk', k) = IF k = key THEN r.quantity ELSE Held(risk, k)
      /\ Agree(risk', order_books)
      /\ call' \in Calls /\ call' # NoCall
      /\ Here' = i /\ Req' = r /\ Subject' = key
      /\ call'.reservation_created
    BY <1>1, <1>2, AdmittedMeans
<1>4. e \in Events /\ e.kind = "accepted"
  <2>1. e \in [kind: {"accepted"}, order: Orders] /\ e.kind = "accepted"
      BY <1>3 DEF Accepted
  <2> QED
      BY <2>1 DEF Events
<1>5. r.quantity \in 0 .. MaxQuantity /\ r.quantity \in Nat
    BY BookAssumption DEF Requests
<1> HIDE DEF e, dup, key
<1>6. /\ events' \in Seq(Events) /\ Len(events') = 1 /\ events'[1] = e
      /\ events' # <<>>
      /\ \A j, k : Pending(events', 0, j, k) = 0
    BY <1>1, <1>4, NothingPending
<1>7. TypeOK'
  <2>1. call'.request \in Orders
      BY <1>3 DEF Req
  <2>2. applied' \in 0 .. Len(events')
      BY <1>1, <1>3, <1>6
  <2> QED
      BY <1>1, <1>3, <1>5, <1>6, <2>1, <2>2 DEF EngineInv, TypeOK, SoundRisk, Phases
<1>8. RiskIsSound' /\ BooksAreGood' /\ SameOwner'
    BY <1>1, <1>3 DEF EngineInv, RiskIsSound, BooksAreGood, SameOwner
<1>9. ~Visible'
    BY <1>1 DEF Visible
<1>10. IsPlacing'
  <2>1. \A k \in 2 .. Len(events') : FALSE
      BY <1>6
  <2> QED
      BY <1>3, <1>6, <2>1 DEF IsPlacing, e
<1>11. CallShape'
    BY <1>1, <1>3, <1>9, <1>10 DEF CallShape
<1>12. Ledger'
  <2> SUFFICES ASSUME NEW k \in OrderKeys PROVE Balanced(k)'
      BY <1>9 DEF Ledger
  <2>1. Pending(events', applied', Here', k) = 0
      BY <1>1, <1>3, <1>6
  <2>2. ~Settling(k)'
      BY <1>1 DEF Settling
  <2>3. Unmatched(k)' = IF k = key THEN r.quantity ELSE 0
      BY <1>1, <1>3 DEF Unmatched
  <2>4. Held(risk, k) = Booked(order_books, k) /\ Booked(order_books, k) \in Nat
      BY <1>3, VisibleLedger, InvFacts
  <2>5. Held(risk', k) = Booked(order_books', k) + (IF k = key THEN r.quantity ELSE 0)
                          + 0
      BY <1>1, <1>3, <1>5, <2>4
  <2> QED
      BY <2>1, <2>2, <2>3, <2>5 DEF Balanced
<1>13. Covered'
    BY <1>3, <1>5 DEF Covered
<1>14. OwnReservation'
    BY <1>3 DEF OwnReservation
<1>15. MakersOpposite'
    BY <1>1, <1>3, <1>4, AloneKeeps
<1> QED
    BY <1>7, <1>8, <1>11, <1>12, <1>13, <1>14, <1>15 DEF EngineInv

\* A key is its instrument and its order id.
LEMMA KeyFacts ==
    ASSUME NEW k \in OrderKeys
    PROVE  /\ k = <<k[1], k[2]>> /\ k[1] \in Instruments /\ k[2] \in OrderIds
           /\ \A i, id : k = <<i, id>> <=> k[1] = i /\ k[2] = id
    BY DEF OrderKeys

\* What the step to another book of one instrument changes.
LEMMA OneBook ==
    ASSUME EngineInv, NEW i \in DOMAIN order_books, NEW b2, GoodBook(b2),
           order_books' = [order_books EXCEPT ![i] = b2]
    PROVE  /\ DOMAIN order_books' = DOMAIN order_books
           /\ order_books'[i] = b2
           /\ BooksAreGood'
           /\ \A j \in DOMAIN order_books' : IsBook(order_books'[j])
           /\ \A k : k[1] # i =>
                /\ Booked(order_books', k) = Booked(order_books, k)
                /\ Rests(order_books', k) <=> Rests(order_books, k)
                /\ Rests(order_books, k) => order_books'[k[1]] = order_books[k[1]]
           /\ \A k : k[1] = i =>
                /\ Booked(order_books', k) = RestsIn(b2, k[2])
                /\ Booked(order_books, k) = RestsIn(order_books[i], k[2])
                /\ Rests(order_books', k) <=> k[2] \in DOMAIN b2.order_locations
                /\ Rests(order_books, k) <=>
                     k[2] \in DOMAIN order_books[i].order_locations
<1>1. /\ DOMAIN order_books' = DOMAIN order_books /\ order_books'[i] = b2
      /\ \A j \in DOMAIN order_books \ {i} : order_books'[j] = order_books[j]
    OBVIOUS
<1>2. BooksAreGood'
    BY <1>1, InvFacts DEF BooksAreGood
<1>3. \A j \in DOMAIN order_books' : IsBook(order_books'[j])
    BY <1>2 DEF BooksAreGood, GoodBook
<1>4. \A k : k[1] # i =>
        /\ Booked(order_books', k) = Booked(order_books, k)
        /\ Rests(order_books', k) <=> Rests(order_books, k)
        /\ Rests(order_books, k) => order_books'[k[1]] = order_books[k[1]]
    BY <1>1 DEF Booked, Rests
<1>5. \A k : k[1] = i =>
        /\ Booked(order_books', k) = RestsIn(b2, k[2])
        /\ Booked(order_books, k) = RestsIn(order_books[i], k[2])
        /\ Rests(order_books', k) <=> k[2] \in DOMAIN b2.order_locations
        /\ Rests(order_books, k) <=> k[2] \in DOMAIN order_books[i].order_locations
    BY <1>1 DEF Booked, Rests
<1> QED
    BY <1>1, <1>2, <1>3, <1>4, <1>5

\* Reservations and books agree as long as neither invents an order.
LEMMA AgreeKept ==
    ASSUME EngineInv, NEW i \in DOMAIN order_books, NEW b2, GoodBook(b2),
           order_books' = [order_books EXCEPT ![i] = b2],
           OwnersKept(b2, order_books[i])
    PROVE  Agree(risk, order_books')
<1> SUFFICES ASSUME NEW k \in DOMAIN risk.reservations, Rests(order_books', k)
             PROVE  LET e == RestingMap(order_books'[k[1]])[k[2]]
                    IN  /\ e.account_id = risk.reservations[k].account_id
                        /\ e.side = risk.reservations[k].side
    BY DEF Agree
<1>1. Agree(risk, order_books)
    BY DEF EngineInv, SameOwner
<1>2. CASE k[1] # i
  <2>1. Rests(order_books, k) /\ order_books'[k[1]] = order_books[k[1]]
      BY <1>2, OneBook
  <2> QED
      BY <1>1, <2>1 DEF Agree
<1>3. CASE k[1] = i
  <2>1. k[2] \in DOMAIN b2.order_locations /\ order_books'[i] = b2
      BY <1>3, OneBook
  <2>2. /\ k[2] \in DOMAIN order_books[i].order_locations
        /\ RestingMap(b2)[k[2]].account_id = RestingMap(order_books[i])[k[2]].account_id
        /\ RestingMap(b2)[k[2]].side = RestingMap(order_books[i])[k[2]].side
      BY <2>1 DEF OwnersKept
  <2>3. Rests(order_books, k)
      BY <1>3, <2>2 DEF Rests
  <2> QED
      BY <1>1, <1>3, <2>1, <2>2, <2>3 DEF Agree
<1> QED
    BY <1>2, <1>3

\* A report of a cancellation names the order.
LEMMA ReportNames ==
    ASSUME NEW b, NEW id, NEW account, NEW e \in CancelReports(b, id, account)
    PROVE  e.kind = "canceled" /\ e.order_id = id
<1>1. PICK side \in {b.order_locations[id].side, Garbage} :
        \E price \in {b.order_locations[id].price, Garbage} :
            e = Canceled(b, id, account, side, price)
    BY DEF CancelReports
<1>2. PICK price \in {b.order_locations[id].price, Garbage} :
        e = Canceled(b, id, account, side, price)
    BY <1>1
<1> QED
    BY <1>2 DEF Canceled

\* A canceled order leaves the book at once and keeps its reservation until
\* apply has seen the event.
LEMMA CancelKeeps ==
    ASSUME EngineInv, NEW i \in Instruments, NEW id \in OrderIds,
           NEW account \in AccountIds, Cancel(i, id, account)
    PROVE  EngineInv'
<1> DEFINE b   == order_books[i]
           rej == CancelRejection(b, id, account)
           key == <<i, id>>
<1>1. /\ phase = "idle" /\ i \in DOMAIN order_books /\ phase' = "applying"
      /\ call' = [instrument_id |-> i, request |-> AccountContext(id, account),
                  reservation_created |-> FALSE]
      /\ risk' = risk /\ remaining' = remaining /\ applied' = applied
    BY DEF Cancel
<1>2. \/ /\ rej # "none" /\ events' = <<Rejected(id, rej)>>
         /\ order_books' = order_books
      \/ /\ rej = "none" /\ \E e \in CancelReports(b, id, account) : events' = <<e>>
         /\ order_books' = [order_books EXCEPT ![i] = CancelIn(b, id)]
    BY DEF Cancel
<1>3. Visible /\ events = <<>> /\ applied = 0 /\ ~Visible'
    BY <1>1 DEF EngineInv, CallShape, Visible
<1>4. AccountContext(id, account) \in Requests
  <2>1. 0 \in 0 .. MaxPrice /\ 0 \in 0 .. MaxQuantity
      BY BookAssumption
  <2> QED
      BY <2>1 DEF AccountContext, Requests, Sides, OrderTypes
<1>5. /\ call' \in Calls /\ call' # NoCall /\ ~call'.reservation_created
      /\ Here' = i /\ Req'.order_id = id /\ Subject' = key
  <2>1. AccountContext(id, account).order_id = id
      BY DEF AccountContext
  <2>2. call' \in Calls
      BY <1>1, <1>4 DEF Calls
  <2> QED
      BY <1>1, <2>1, <2>2, EngineAssumption DEF Here, Req, Subject
<1>6. key \in OrderKeys /\ GoodBook(b)
    BY <1>1, InvFacts DEF OrderKeys
<1>7. PICK e \in Events :
        /\ events' = <<e>> /\ e.kind # "trade" /\ e.kind # "accepted"
        /\ e.kind = "rejected" <=> rej # "none"
        /\ e.kind = "canceled" <=> rej = "none"
        /\ rej = "none" => e.order_id = id
  <2>1. CASE rej # "none"
    <3>1. rej \in RejectReasons
        BY <2>1, RejectionReasons DEF RejectReasons
    <3>2. Rejected(id, rej) \in Events /\ Rejected(id, rej).kind = "rejected"
        BY <3>1, RejectedTyped
    <3> QED
        BY <1>2, <2>1, <3>2
  <2>2. CASE rej = "none"
    <3>1. PICK e \in CancelReports(b, id, account) : events' = <<e>>
        BY <1>2, <2>2
    <3>2. id \in DOMAIN b.order_locations
        BY <2>2, AcceptedMeans
    <3>3. e \in CanceledEvents
        BY <1>6, <3>2, CancelReportsTyped DEF GoodBook
    <3>4. e.kind = "canceled" /\ e.order_id = id
        BY ReportNames
    <3> QED
        BY <2>2, <3>1, <3>3, <3>4 DEF Events
  <2> QED
      BY <2>1, <2>2
<1>8. /\ events' \in Seq(Events) /\ Len(events') = 1 /\ events'[1] = e
      /\ \A j, k : Pending(events', 0, j, k) = 0
    BY <1>7, NothingPending
<1> HIDE DEF b, rej, key
<1>9. /\ DOMAIN order_books' = DOMAIN order_books
      /\ BooksAreGood'
      /\ \A j \in DOMAIN order_books' : IsBook(order_books'[j])
      /\ Agree(risk, order_books')
      /\ rej = "none" => ~Rests(order_books', key)
      /\ \A k \in OrderKeys : rej # "none" \/ k # key =>
            Booked(order_books', k) = Booked(order_books, k)
  <2>1. CASE rej # "none"
    <3>1. order_books' = order_books
        BY <1>2, <2>1
    <3>2. /\ BooksAreGood' /\ Agree(risk, order_books')
          /\ \A j \in DOMAIN order_books' : IsBook(order_books'[j])
        BY <3>1 DEF EngineInv, BooksAreGood, SameOwner, TypeOK
    <3> QED
        BY <2>1, <3>1, <3>2
  <2>2. CASE rej = "none"
    <3> DEFINE b2 == CancelIn(b, id)
               m  == RestingMap(b)[id].remaining_quantity
    <3>1. id \in DOMAIN b.order_locations
        BY <2>2, AcceptedMeans DEF rej
    <3>2. GoodBook(b2) /\ RestingMap(b2) = Without(RestingMap(b), id)
        BY <1>6, <3>1, CancelEffect
    <3>3. m \in Nat /\ m <= m
        BY <1>6, <3>1, RestingTyped, BookAssumption DEF GoodBook, IsSound
    <3>4. Takes(RestingMap(b2), RestingMap(b), id, m)
        BY <3>2 DEF Takes
    <3>5. DOMAIN RestingMap(b2) = DOMAIN b2.order_locations
        BY <3>2, RestingTyped DEF GoodBook, IsSound
    <3>6. id \notin DOMAIN b2.order_locations
        BY <3>2, <3>5 DEF Without
    <3>7. order_books' = [order_books EXCEPT ![i] = b2]
        BY <1>2, <2>2
    <3> HIDE DEF b2, m
    <3>8. /\ OwnersKept(b2, b)
          /\ \A x : RestsIn(b2, x) = RestsIn(b, x) - (IF x = id THEN m ELSE 0)
        BY <1>6, <3>1, <3>2, <3>3, <3>4, TakenFromBook DEF m
    <3>9. Agree(risk, order_books')
        BY <1>1, <3>2, <3>7, <3>8, AgreeKept DEF b
    <3>10. /\ DOMAIN order_books' = DOMAIN order_books
           /\ BooksAreGood'
           /\ \A j \in DOMAIN order_books' : IsBook(order_books'[j])
           /\ \A k : k[1] # i => Booked(order_books', k) = Booked(order_books, k)
           /\ \A k : k[1] = i =>
                /\ Booked(order_books', k) = RestsIn(b2, k[2])
                /\ Booked(order_books, k) = RestsIn(b, k[2])
                /\ Rests(order_books', k) <=> k[2] \in DOMAIN b2.order_locations
      <4>1. i \in DOMAIN order_books
          BY <1>1
      <4>2. /\ DOMAIN order_books' = DOMAIN order_books
            /\ order_books'[i] = b2
            /\ BooksAreGood'
            /\ \A j \in DOMAIN order_books' : IsBook(order_books'[j])
            /\ \A k : k[1] # i =>
                 /\ Booked(order_books', k) = Booked(order_books, k)
                 /\ Rests(order_books', k) <=> Rests(order_books, k)
                 /\ Rests(order_books, k) => order_books'[k[1]] = order_books[k[1]]
            /\ \A k : k[1] = i =>
                 /\ Booked(order_books', k) = RestsIn(b2, k[2])
                 /\ Booked(order_books, k) = RestsIn(order_books[i], k[2])
                 /\ Rests(order_books', k) <=> k[2] \in DOMAIN b2.order_locations
                 /\ Rests(order_books, k) <=>
                      k[2] \in DOMAIN order_books[i].order_locations
          BY <3>2, <3>7, <4>1, OneBook
      <4> QED
          BY <4>2 DEF b
    <3>11. ~Rests(order_books', key)
        BY <3>6, <3>10 DEF key
    <3>12. ASSUME NEW k \in OrderKeys, k # key
           PROVE  Booked(order_books', k) = Booked(order_books, k)
      <4>1. CASE k[1] = i
        <5>1. k[2] # id
            BY <3>12, <4>1, KeyFacts DEF key
        <5>2. RestsIn(b, k[2]) \in Nat
            BY <1>6, RestsInFacts
        <5> QED
            BY <3>8, <3>10, <4>1, <5>1, <5>2
      <4>2. CASE k[1] # i
          BY <3>10, <4>2
      <4> QED
          BY <4>1, <4>2
    <3> QED
        BY <2>2, <3>9, <3>10, <3>11, <3>12
  <2> QED
      BY <2>1, <2>2
<1>10. TypeOK'
    BY <1>1, <1>3, <1>5, <1>8, <1>9 DEF EngineInv, TypeOK, Phases
<1>11. RiskIsSound' /\ BooksAreGood' /\ SameOwner'
    BY <1>1, <1>9 DEF EngineInv, RiskIsSound, ReservationLimitsHold, SameOwner
<1>12. CallShape'
  <2>1. IsRefused' \/ IsCanceling'
    <3>1. CASE rej # "none"
        BY <1>5, <1>7, <1>8, <3>1 DEF IsRefused
    <3>2. CASE rej = "none"
        BY <1>5, <1>7, <1>8, <1>9, <3>2 DEF IsCanceling
    <3> QED
        BY <3>1, <3>2
  <2> QED
      BY <1>1, <1>5, <1>9, <2>1 DEF CallShape
<1>13. Ledger'
  <2> SUFFICES ASSUME NEW k \in OrderKeys PROVE Balanced(k)'
      BY <1>3 DEF Ledger
  <2>1. Pending(events', applied', Here', k) = 0
      BY <1>1, <1>3, <1>8
  <2>2. Unmatched(k)' = 0
      BY <1>1 DEF Unmatched
  <2>3. /\ Held(risk, k) = Booked(order_books, k) /\ Booked(order_books, k) \in Nat
        /\ Held(risk, k) \in Nat
      BY <1>3, VisibleLedger, InvFacts
  <2>4. CASE rej = "none" /\ k = key
    <3>1. Settling(k)'
        BY <1>1, <1>3, <1>5, <1>7, <1>8, <2>4 DEF Settling
    <3>2. Held(risk', k) >= 0
        BY <1>1, <2>3
    <3> QED
        BY <2>1, <3>1, <3>2 DEF Balanced
  <2>5. CASE rej # "none" \/ k # key
    <3>1. ~Settling(k)'
        BY <1>5, <1>7, <1>8, <2>5 DEF Settling
    <3>2. Booked(order_books', k) = Booked(order_books, k)
        BY <1>9, <2>5
    <3>3. Held(risk', k) = Booked(order_books', k) + 0 + 0
        BY <1>1, <2>3, <3>2
    <3> QED
        BY <2>1, <2>2, <3>1, <3>3 DEF Balanced
  <2> QED
      BY <2>4, <2>5
<1>14. Covered' /\ OwnReservation'
    BY <1>5 DEF Covered, OwnReservation
<1>15. MakersOpposite'
    BY <1>1, <1>3, <1>7, AloneKeeps
<1> QED
    BY <1>10, <1>11, <1>12, <1>13, <1>14, <1>15 DEF EngineInv

\* The call that is running, spelled out.
LEMMA RunningCall ==
    ASSUME EngineInv, ~Visible
    PROVE  /\ call \in Calls /\ Here \in Instruments /\ Here \in DOMAIN order_books
           /\ Req \in Requests /\ Req.order_id \in OrderIds
           /\ Req.quantity \in Nat /\ Req.account_id \in AccountIds
           /\ Req.side \in Sides
           /\ Subject = <<Here, Req.order_id>> /\ Subject \in OrderKeys
           /\ GoodBook(order_books[Here])
           /\ call.reservation_created \in BOOLEAN
<1>1. call # NoCall /\ Here \in DOMAIN order_books
    BY DEF EngineInv, CallShape
<1>2. call \in Calls
    BY <1>1 DEF EngineInv, TypeOK
<1>3. Here \in Instruments /\ Req \in Requests /\ call.reservation_created \in BOOLEAN
    BY <1>2 DEF Calls, Here, Req
<1>4. /\ Req.order_id \in OrderIds /\ Req.quantity \in Nat
      /\ Req.account_id \in AccountIds /\ Req.side \in Sides
    BY <1>3, BookAssumption DEF Requests
<1>5. Subject = <<Here, Req.order_id>> /\ Subject \in OrderKeys
    BY <1>3, <1>4 DEF Subject, Here, Req, OrderKeys
<1> QED
    BY <1>1, <1>2, <1>3, <1>4, <1>5, InvFacts

\* Inside the matching loops the reservations wait: an execution moves units
\* from the book and from what is unmatched to what is pending.
LEMMA MatchKeeps ==
    ASSUME EngineInv, NEW p \in Prices, MatchAt(p)
    PROVE  EngineInv'
<1> DEFINE i  == Here
           o  == Req
           b  == order_books[i]
           t  == TradeOf(b, o, remaining, p)
           q  == t.quantity
           mk == t.resting_order_id
           b2 == Execute(b, o, remaining, p)
<1>1. /\ phase = "matching" /\ Matchable(b, o, remaining, p)
      /\ order_books' = [order_books EXCEPT ![i] = b2]
      /\ remaining' = remaining - q
      /\ events' = Append(events, t)
      /\ risk' = risk /\ phase' = phase /\ call' = call /\ applied' = applied
    BY DEF MatchAt, Here, Req
<1>2. ~Visible /\ ~Visible' /\ Here' = Here /\ Req' = Req /\ Subject' = Subject
    BY <1>1 DEF Visible, Here, Req, Subject
<1>3. /\ i \in DOMAIN order_books /\ i \in Instruments /\ GoodBook(b)
      /\ Subject = <<i, o.order_id>> /\ Subject \in OrderKeys
      /\ o.order_id \in OrderIds /\ call \in Calls
    BY <1>2, RunningCall
<1>4. applied = 0 /\ IsPlacing /\ ~Rests(order_books, Subject)
    BY <1>1 DEF EngineInv, CallShape
<1>5. /\ o \in Orders /\ events # <<>> /\ events[1] = Accepted(o)
      /\ call.reservation_created
      /\ \A k \in 2 .. Len(events) :
            /\ events[k] \in TradeEvents
            /\ events[k].incoming_order_id = o.order_id
            /\ events[k].resting_order_id # o.order_id
    BY <1>4 DEF IsPlacing
<1>6. /\ events \in Seq(Events) /\ Len(events) \in Nat
      /\ remaining \in 0 .. MaxQuantity /\ remaining \in Nat
      /\ applied \in 0 .. Len(events)
    BY InvFacts
<1>7. /\ GoodBook(b2)
      /\ t \in TradeEvents /\ q \in 1 .. remaining
      /\ t.incoming_order_id = o.order_id
      /\ mk \in DOMAIN b.order_locations
      /\ RestingMap(b)[mk].side = Opposite(o.side)
      /\ q <= RestingMap(b)[mk].remaining_quantity
      /\ Takes(RestingMap(b2), RestingMap(b), mk, q)
    BY <1>1, <1>3, <1>5, <1>6, ExecuteEffect
<1>8. t.kind = "trade" /\ t \in Events /\ q \in Nat /\ q >= 1 /\ q <= remaining
    BY <1>6, <1>7 DEF TradeEvents, Events
<1>9. t.resting_order_id \in OrderIds
    BY <1>7 DEF TradeEvents
<1> HIDE DEF i, o, b, t, q, mk, b2
<1>10. /\ OwnersKept(b2, b)
       /\ \A x : RestsIn(b2, x) = RestsIn(b, x) - (IF x = mk THEN q ELSE 0)
    BY <1>3, <1>7, <1>8, TakenFromBook
<1>11. /\ DOMAIN order_books' = DOMAIN order_books
       /\ order_books'[i] = b2
       /\ BooksAreGood'
       /\ \A j \in DOMAIN order_books' : IsBook(order_books'[j])
       /\ \A k : k[1] # i =>
            /\ Booked(order_books', k) = Booked(order_books, k)
            /\ Rests(order_books', k) <=> Rests(order_books, k)
            /\ Rests(order_books, k) => order_books'[k[1]] = order_books[k[1]]
       /\ \A k : k[1] = i =>
            /\ Booked(order_books', k) = RestsIn(b2, k[2])
            /\ Booked(order_books, k) = RestsIn(order_books[i], k[2])
            /\ Rests(order_books', k) <=> k[2] \in DOMAIN b2.order_locations
            /\ Rests(order_books, k) <=>
                 k[2] \in DOMAIN order_books[i].order_locations
    BY <1>1, <1>3, <1>7, OneBook
<1>12. Agree(risk, order_books')
    BY <1>1, <1>3, <1>7, <1>10, AgreeKept DEF b
<1>13. /\ Len(events') = Len(events) + 1 /\ events' # <<>>
       /\ \A k \in 1 .. Len(events) : events'[k] = events[k]
       /\ events'[Len(events) + 1] = t
       /\ events' \in Seq(Events)
    BY <1>1, <1>6, <1>8
<1>14. mk # o.order_id /\ ~Rests(order_books', Subject)
  <2>1. Subject[1] = i /\ Subject[2] = o.order_id
      BY <1>3
  <2>2. o.order_id \notin DOMAIN b.order_locations
      BY <1>4, <1>11, <2>1 DEF b
  <2>3. o.order_id \notin DOMAIN b2.order_locations
      BY <1>10, <2>2 DEF OwnersKept
  <2> QED
      BY <1>7, <1>11, <2>1, <2>2, <2>3
<1>15. IsPlacing'
  <2>1. events # <<>> => Len(events) >= 1
      BY <1>6, EmptySeq
  <2>2. events'[1] = events[1]
      BY <1>5, <1>6, <1>13, <2>1
  <2>3. \A k \in 2 .. Len(events') :
            /\ events'[k] \in TradeEvents
            /\ events'[k].incoming_order_id = o.order_id
            /\ events'[k].resting_order_id # o.order_id
    <3> SUFFICES ASSUME NEW k \in 2 .. Len(events')
                 PROVE  /\ events'[k] \in TradeEvents
                        /\ events'[k].incoming_order_id = o.order_id
                        /\ events'[k].resting_order_id # o.order_id
        OBVIOUS
    <3>1. CASE k \in 2 .. Len(events)
      <4>1. events'[k] = events[k]
          BY <1>6, <1>13, <3>1
      <4> QED
          BY <1>5, <3>1, <4>1
    <3>2. CASE k = Len(events) + 1
        BY <1>7, <1>13, <1>14, <3>2 DEF mk
    <3> QED
        BY <1>6, <1>13, <3>1, <3>2
  <2> QED
      BY <1>1, <1>2, <1>5, <1>13, <2>2, <2>3 DEF IsPlacing, o
<1>16. TypeOK'
  <2>1. remaining' \in 0 .. MaxQuantity
      BY <1>1, <1>6, <1>8, BookAssumption
  <2>2. applied' \in 0 .. Len(events')
      BY <1>1, <1>6, <1>13
  <2> QED
      BY <1>1, <1>11, <1>13, <2>1, <2>2 DEF EngineInv, TypeOK
<1>17. RiskIsSound' /\ SameOwner'
    BY <1>1, <1>12 DEF EngineInv, RiskIsSound, ReservationLimitsHold, SameOwner
<1>18. CallShape'
    BY <1>1, <1>2, <1>4, <1>11, <1>14, <1>15 DEF EngineInv, CallShape
<1>19. Ledger'
  <2> SUFFICES ASSUME NEW k \in OrderKeys PROVE Balanced(k)'
      BY <1>2 DEF Ledger
  <2> DEFINE due  == Pending(events, applied, i, k)
             due2 == Pending(events', applied, i, k)
             owed == Owed(t, i, k)
  <2>1. due2 = due + owed /\ due \in Nat
      BY <1>1, <1>6, <1>8, PendingAppend, InvFacts
  <2>2. ~Settling(k) /\ ~Settling(k)'
      BY <1>1 DEF Settling
  <2>3. Held(risk, k) = Booked(order_books, k) + Unmatched(k) + due
      BY <1>2, <2>2 DEF EngineInv, Ledger, Balanced, i
  <2>4. /\ Unmatched(k) = IF k = Subject THEN remaining ELSE 0
        /\ Unmatched(k)' = IF k = Subject THEN remaining - q ELSE 0
      BY <1>1, <1>2 DEF Unmatched
  <2>5. owed = IF k = Subject \/ k = <<i, mk>> THEN q ELSE 0
      BY <1>3, <1>7, <1>8 DEF Owed, q, mk
  <2>6. Booked(order_books', k) =
          Booked(order_books, k) - (IF k = <<i, mk>> THEN q ELSE 0)
    <3>1. Booked(order_books, k) \in Nat
        BY InvFacts
    <3>2. CASE k[1] = i
      <4>1. k = <<i, mk>> <=> k[2] = mk
          BY <3>2, KeyFacts
      <4> QED
          BY <1>10, <1>11, <3>2, <4>1 DEF b
    <3>3. CASE k[1] # i
        BY <1>11, <3>1, <3>3
    <3> QED
        BY <3>2, <3>3
  <2>7. Subject # <<i, mk>>
      BY <1>3, <1>14
  <2>8. Booked(order_books, k) \in Nat
      BY InvFacts
  <2> HIDE DEF due, due2, owed
  <2>9. Held(risk, k) = Booked(order_books', k) + Unmatched(k)' + due2
    <3>1. CASE k = Subject
        BY <1>6, <1>8, <2>1, <2>3, <2>4, <2>5, <2>6, <2>7, <2>8, <3>1
    <3>2. CASE k = <<i, mk>>
        BY <1>6, <1>8, <2>1, <2>3, <2>4, <2>5, <2>6, <2>7, <2>8, <3>2
    <3>3. CASE k # Subject /\ k # <<i, mk>>
        BY <1>6, <1>8, <2>1, <2>3, <2>4, <2>5, <2>6, <2>7, <2>8, <3>3
    <3> QED
        BY <3>1, <3>2, <3>3
  <2> QED
      BY <1>1, <1>2, <2>2, <2>9 DEF Balanced, due2, i
<1>20. Covered' /\ OwnReservation'
    BY <1>1, <1>2 DEF EngineInv, Covered, OwnReservation
<1>21. MakersOpposite'
  <2> SUFFICES ASSUME NEW k \in applied' + 1 .. Len(events'), events'[k].kind = "trade",
                      NEW key \in DOMAIN risk'.reservations,
                      key = <<Here', events'[k].resting_order_id>>
               PROVE  risk'.reservations[key].side = Opposite(Req'.side)
      BY DEF MakersOpposite
  <2>1. CASE k \in applied + 1 .. Len(events)
    <3>1. events'[k] = events[k]
        BY <1>4, <1>13, <2>1
    <3> QED
        BY <1>1, <1>2, <2>1, <3>1 DEF EngineInv, MakersOpposite
  <2>2. CASE k = Len(events) + 1
    <3>1. key = <<i, mk>> /\ key[1] = i /\ key[2] = mk
        BY <1>2, <1>13, <2>2 DEF i, mk
    <3>2. Rests(order_books, key)
        BY <1>7, <1>11, <3>1 DEF b
    <3>3. RestingMap(b)[mk].side = risk.reservations[key].side
        BY <1>1, <3>1, <3>2 DEF EngineInv, SameOwner, Agree, b
    <3> QED
        BY <1>1, <1>2, <1>7, <3>3 DEF o
  <2>3. k \in applied + 1 .. Len(events) \/ k = Len(events) + 1
    <3>1. k \in applied + 1 .. Len(events) + 1
        BY <1>1, <1>13
    <3> QED
        BY <1>4, <1>6, <3>1
  <2> QED
      BY <2>1, <2>2, <2>3
<1> QED
    BY <1>11, <1>16, <1>17, <1>18, <1>19, <1>20, <1>21 DEF EngineInv

\* What is left of an order rests with its reservation, or waits for apply to
\* give the reservation back.
LEMMA FinishMatchingKeeps ==
    ASSUME EngineInv, FinishMatching
    PROVE  EngineInv'
<1> DEFINE i  == Here
           o  == Req
           b  == order_books[i]
           b2 == Rest(b, o, remaining)
           joins == o.order_type \in RestingTypes /\ remaining > 0
<1>1. /\ phase = "matching" /\ \A p \in Prices : ~Matchable(b, o, remaining, p)
      /\ order_books' = [order_books EXCEPT ![i] = b2]
      /\ remaining' = 0 /\ phase' = "applying"
      /\ risk' = risk /\ call' = call /\ events' = events /\ applied' = applied
    BY DEF FinishMatching, Here, Req
<1>2. ~Visible /\ ~Visible' /\ Here' = Here /\ Req' = Req /\ Subject' = Subject
    BY <1>1 DEF Visible, Here, Req, Subject
<1>3. /\ i \in DOMAIN order_books /\ i \in Instruments /\ GoodBook(b)
      /\ Subject = <<i, o.order_id>> /\ Subject \in OrderKeys
      /\ o.order_id \in OrderIds /\ call \in Calls
    BY <1>2, RunningCall
<1>4. applied = 0 /\ IsPlacing /\ ~Rests(order_books, Subject)
    BY <1>1 DEF EngineInv, CallShape
<1>5. /\ o \in Orders /\ events[1] = Accepted(o) /\ call.reservation_created
      /\ events[1].kind = "accepted"
    BY <1>4 DEF IsPlacing, Accepted
<1>6. /\ events \in Seq(Events) /\ Len(events) \in Nat
      /\ remaining \in 0 .. MaxQuantity /\ remaining \in Nat
      /\ applied \in 0 .. Len(events)
    BY InvFacts
<1>7. Subject[1] = i /\ Subject[2] = o.order_id
    BY <1>3
<1>8. o.order_id \notin DOMAIN b.order_locations
    BY <1>3, <1>4, <1>7 DEF Rests
<1>9. /\ GoodBook(b2)
      /\ IF o.order_type \in RestingTypes /\ remaining > 0
         THEN JoinsMap(RestingMap(b2), RestingMap(b), o.order_id,
                [side |-> o.side, price |-> o.price,
                 remaining_quantity |-> remaining,
                 order_type |-> o.order_type, account_id |-> o.account_id])
         ELSE b2 = b
    BY <1>1, <1>3, <1>5, <1>6, <1>8, RestEffect
<1> HIDE DEF i, o, b, b2, joins
<1>10. /\ joins => /\ \A x : RestsIn(b2, x) = RestsIn(b, x)
                                   + (IF x = o.order_id THEN remaining ELSE 0)
                   /\ DOMAIN b2.order_locations =
                        DOMAIN b.order_locations \cup {o.order_id}
                   /\ RestingMap(b2)[o.order_id].account_id = o.account_id
                   /\ RestingMap(b2)[o.order_id].side = o.side
                   /\ \A id \in DOMAIN b.order_locations :
                        RestingMap(b2)[id] = RestingMap(b)[id]
       /\ ~joins => b2 = b
  <2>1. CASE joins
    <3>1. JoinsMap(RestingMap(b2), RestingMap(b), o.order_id,
                [side |-> o.side, price |-> o.price,
                 remaining_quantity |-> remaining,
                 order_type |-> o.order_type, account_id |-> o.account_id])
        BY <1>9, <2>1 DEF joins
    <3> QED
        BY <1>3, <1>6, <1>8, <1>9, <2>1, <3>1, JoinedBook
  <2>2. CASE ~joins
      BY <1>9, <2>2 DEF joins
  <2> QED
      BY <2>1, <2>2
<1>11. /\ DOMAIN order_books' = DOMAIN order_books
       /\ order_books'[i] = b2
       /\ BooksAreGood'
       /\ \A j \in DOMAIN order_books' : IsBook(order_books'[j])
       /\ \A k : k[1] # i =>
            /\ Booked(order_books', k) = Booked(order_books, k)
            /\ Rests(order_books', k) <=> Rests(order_books, k)
            /\ Rests(order_books, k) => order_books'[k[1]] = order_books[k[1]]
       /\ \A k : k[1] = i =>
            /\ Booked(order_books', k) = RestsIn(b2, k[2])
            /\ Booked(order_books, k) = RestsIn(order_books[i], k[2])
            /\ Rests(order_books', k) <=> k[2] \in DOMAIN b2.order_locations
            /\ Rests(order_books, k) <=>
                 k[2] \in DOMAIN order_books[i].order_locations
    BY <1>1, <1>3, <1>9, OneBook
<1>12. \A k \in OrderKeys : Booked(order_books', k) =
            Booked(order_books, k) + (IF joins /\ k = Subject THEN remaining ELSE 0)
  <2> SUFFICES ASSUME NEW k \in OrderKeys
               PROVE  Booked(order_books', k) = Booked(order_books, k)
                        + (IF joins /\ k = Subject THEN remaining ELSE 0)
      OBVIOUS
  <2>1. Booked(order_books, k) \in Nat
      BY InvFacts
  <2>2. CASE k[1] = i
    <3>1. k = Subject <=> k[2] = o.order_id
        BY <1>3, <2>2, KeyFacts
    <3>2. /\ Booked(order_books', k) = RestsIn(b2, k[2])
          /\ Booked(order_books, k) = RestsIn(b, k[2])
        BY <1>11, <2>2 DEF b
    <3>3. CASE joins
        BY <1>10, <3>1, <3>2, <3>3
    <3>4. CASE ~joins
        BY <1>10, <2>1, <3>2, <3>4
    <3> QED
        BY <3>3, <3>4
  <2>3. CASE k[1] # i
    <3>1. k # Subject
        BY <1>7, <2>3
    <3> QED
        BY <1>11, <2>1, <2>3, <3>1
  <2> QED
      BY <2>2, <2>3
<1>13. SameOwner'
  <2> SUFFICES ASSUME NEW k \in DOMAIN risk.reservations, Rests(order_books', k)
               PROVE  LET e == RestingMap(order_books'[k[1]])[k[2]]
                      IN  /\ e.account_id = risk.reservations[k].account_id
                          /\ e.side = risk.reservations[k].side
      BY <1>1 DEF SameOwner, Agree
  <2>1. Agree(risk, order_books) /\ k \in OrderKeys
      BY InvFacts DEF EngineInv, SameOwner
  <2>2. CASE k[1] # i
    <3>1. Rests(order_books, k) /\ order_books'[k[1]] = order_books[k[1]]
        BY <1>11, <2>2
    <3> QED
        BY <2>1, <3>1 DEF Agree
  <2>3. CASE k = Subject /\ joins
    <3>1. /\ risk.reservations[k].account_id = o.account_id
          /\ risk.reservations[k].side = o.side
        BY <1>2, <1>5, <2>3 DEF EngineInv, OwnReservation, o
    <3> QED
        BY <1>7, <1>10, <1>11, <2>3, <3>1
  <2>4. CASE k[1] = i /\ ~(k = Subject /\ joins)
    <3>1. k = Subject <=> k[2] = o.order_id
        BY <1>3, <2>1, <2>4, KeyFacts
    <3>2. /\ k[2] \in DOMAIN b.order_locations
          /\ RestingMap(b2)[k[2]] = RestingMap(b)[k[2]]
        BY <1>10, <1>11, <2>4, <3>1
    <3>3. Rests(order_books, k)
        BY <1>11, <2>4, <3>2 DEF b
    <3> QED
        BY <1>11, <2>1, <2>4, <3>2, <3>3 DEF Agree, b
  <2> QED
      BY <1>7, <2>2, <2>3, <2>4
<1>14. TypeOK'
  <2>1. 0 \in 0 .. MaxQuantity
      BY BookAssumption
  <2> QED
      BY <1>1, <1>11, <2>1 DEF EngineInv, TypeOK, Phases
<1>15. RiskIsSound'
    BY <1>1 DEF EngineInv, RiskIsSound, ReservationLimitsHold
<1>16. CallShape'
  <2>1. IsPlacing'
      BY <1>1, <1>2, <1>4 DEF IsPlacing
  <2>2. o.order_type \notin RestingTypes => ~Rests(order_books', Subject)
      BY <1>4, <1>7, <1>8, <1>10, <1>11 DEF joins
  <2> QED
      BY <1>1, <1>2, <1>11, <2>1, <2>2 DEF EngineInv, CallShape, o
<1>17. Ledger'
  <2> SUFFICES ASSUME NEW k \in OrderKeys PROVE Balanced(k)'
      BY <1>2 DEF Ledger
  <2> DEFINE due == Pending(events, applied, i, k)
  <2>1. due \in Nat /\ Booked(order_books, k) \in Nat
      BY InvFacts
  <2>2. ~Settling(k)
      BY <1>1 DEF Settling
  <2>3. Held(risk, k) = Booked(order_books, k) + Unmatched(k) + due
      BY <1>2, <2>2 DEF EngineInv, Ledger, Balanced, i
  <2>4. /\ Unmatched(k) = IF k = Subject THEN remaining ELSE 0
        /\ Unmatched(k)' = 0
      BY <1>1, <1>2 DEF Unmatched
  <2>5. Settling(k)' <=> k = Subject /\ o.order_type \notin RestingTypes
      BY <1>1, <1>2, <1>5 DEF Settling, o
  <2>6. Booked(order_books', k) =
            Booked(order_books, k) + (IF joins /\ k = Subject THEN remaining ELSE 0)
      BY <1>12
  <2> HIDE DEF due
  <2>7. CASE Settling(k)'
    <3>1. Held(risk, k) >= due
        BY <1>6, <2>1, <2>3, <2>4
    <3> QED
        BY <1>1, <1>2, <2>7, <3>1 DEF Balanced, due, i
  <2>8. CASE ~Settling(k)'
    <3>1. Held(risk, k) = Booked(order_books', k) + 0 + due
      <4>1. CASE k = Subject
        <5>1. o.order_type \in RestingTypes
            BY <2>5, <2>8, <4>1
        <5>2. CASE remaining > 0
            BY <1>6, <2>1, <2>3, <2>4, <2>6, <4>1, <5>1, <5>2 DEF joins
        <5>3. CASE ~(remaining > 0)
            BY <1>6, <2>1, <2>3, <2>4, <2>6, <4>1, <5>3 DEF joins
        <5> QED
            BY <5>2, <5>3
      <4>2. CASE k # Subject
          BY <2>1, <2>3, <2>4, <2>6, <4>2
      <4> QED
          BY <4>1, <4>2
    <3> QED
        BY <1>1, <1>2, <2>4, <2>8, <3>1 DEF Balanced, due, i
  <2> QED
      BY <2>7, <2>8
<1>18. Covered' /\ OwnReservation' /\ MakersOpposite'
    BY <1>1, <1>2 DEF EngineInv, Covered, OwnReservation, MakersOpposite
<1> QED
    BY <1>11, <1>13, <1>14, <1>15, <1>16, <1>17, <1>18 DEF EngineInv

\* apply never adds to a reservation and never touches a book.
ApplyFrame ==
    /\ phase = "applying"
    /\ UNCHANGED <<order_books, call, remaining, events>>
    /\ SoundRisk(risk') /\ Totals(risk')
    /\ ReservationsKept(risk', risk) /\ Eased(risk', risk)
    /\ \A k : Held(risk', k) <= Held(risk, k)

\* A step of apply keeps the invariant when it keeps the ledger.
LEMMA FrameKeeps ==
    ASSUME EngineInv, ApplyFrame, phase' = phase,
           applied' \in 0 .. Len(events), applied' >= applied, Ledger'
    PROVE  EngineInv'
<1>1. /\ phase = "applying" /\ phase' = phase
      /\ order_books' = order_books /\ call' = call /\ remaining' = remaining
      /\ events' = events
      /\ SoundRisk(risk') /\ Totals(risk')
      /\ ReservationsKept(risk', risk) /\ Eased(risk', risk)
      /\ \A k : Held(risk', k) <= Held(risk, k)
    BY DEF ApplyFrame
<1>2. ~Visible /\ ~Visible' /\ Here' = Here /\ Req' = Req /\ Subject' = Subject
    BY <1>1 DEF Visible, Here, Req, Subject
<1>3. TypeOK'
    BY <1>1 DEF EngineInv, TypeOK, SoundRisk
<1>4. RiskIsSound'
    BY <1>1, EasedLimits DEF RiskIsSound
<1>5. BooksAreGood' /\ CallShape'
    BY <1>1, <1>2 DEF EngineInv, BooksAreGood, CallShape, IsPlacing, IsRefused,
                      IsCanceling
<1>6. SameOwner' /\ OwnReservation'
  <2>1. \A key \in DOMAIN risk'.reservations :
            /\ key \in DOMAIN risk.reservations
            /\ risk'.reservations[key].account_id = risk.reservations[key].account_id
            /\ risk'.reservations[key].side = risk.reservations[key].side
      BY <1>1 DEF ReservationsKept
  <2>2. SameOwner'
      BY <1>1, <2>1 DEF EngineInv, SameOwner, Agree
  <2>3. OwnReservation'
      BY <1>1, <1>2, <2>1 DEF EngineInv, OwnReservation
  <2> QED
      BY <2>2, <2>3
<1>7. Covered'
  <2> SUFFICES ASSUME call.reservation_created
               PROVE  Held(risk', Subject) <= Req.quantity
      BY <1>1, <1>2 DEF Covered
  <2>1. Held(risk, Subject) <= Req.quantity
      BY <1>2 DEF EngineInv, Covered
  <2>2. Held(risk', Subject) <= Held(risk, Subject)
      BY <1>1
  <2>3. /\ Held(risk, Subject) \in Nat /\ Held(risk', Subject) \in Nat
        /\ Req.quantity \in Nat
      BY <1>1, <1>2, HeldFacts, InvFacts, RunningCall
  <2> QED
      BY <2>1, <2>2, <2>3
<1>8. MakersOpposite'
  <2>1. applied' + 1 .. Len(events') \subseteq applied + 1 .. Len(events)
      BY <1>1, InvFacts
  <2>2. \A key \in DOMAIN risk'.reservations :
            /\ key \in DOMAIN risk.reservations
            /\ risk'.reservations[key].side = risk.reservations[key].side
      BY <1>1 DEF ReservationsKept
  <2> QED
      BY <1>1, <1>2, <2>1, <2>2 DEF EngineInv, MakersOpposite
<1> QED
    BY <1>3, <1>4, <1>5, <1>6, <1>7, <1>8 DEF EngineInv

\* Doing nothing is within the frame.
LEMMA IdleFrame ==
    ASSUME EngineInv
    PROVE  /\ ReservationsKept(risk, risk) /\ Eased(risk, risk)
           /\ \A k : Held(risk, k) <= Held(risk, k)
<1>1. ReservationsKept(risk, risk)
    BY DEF ReservationsKept
<1>2. Eased(risk, risk)
  <2> SUFFICES ASSUME NEW a \in AccountIds, NEW i \in Instruments
               PROVE  LET st == risk.account_states[<<a, i>>]
                      IN  /\ st.open_order_quantity <= st.open_order_quantity
                          /\ st.reserved_margin <= st.reserved_margin
      BY DEF Eased
  <2>1. risk.account_states[<<a, i>>] \in AccountStates
      BY InvFacts, StateTyped
  <2> QED
      BY <2>1, StateFacts, Widths
<1>3. \A k : Held(risk, k) <= Held(risk, k)
  <2>1. \A k : Held(risk, k) \in Nat
      BY InvFacts
  <2> QED
      BY <2>1
<1> QED
    BY <1>1, <1>2, <1>3

\* The next event of the batch.
LEMMA NextEvent ==
    ASSUME EngineInv, phase = "applying", applied < Len(events)
    PROVE  /\ events[applied + 1] \in Events
           /\ applied + 1 \in 0 .. Len(events) /\ applied + 1 >= applied
           /\ \A i, key : Pending(events, applied, i, key) =
                Owed(events[applied + 1], i, key) + Pending(events, applied + 1, i, key)
           /\ \A i, key : Owed(events[applied + 1], i, key) \in Nat
           /\ \A i, key : Pending(events, applied + 1, i, key) \in Nat
<1>1. /\ events \in Seq(Events) /\ Len(events) \in Nat
      /\ applied \in 0 .. Len(events) /\ applied \in Nat
    BY InvFacts
<1>2. applied + 1 \in 0 .. Len(events) /\ applied + 1 >= applied
    BY <1>1
<1>3. /\ events[applied + 1] \in Events
      /\ \A i, key : Pending(events, applied, i, key) =
            Owed(events[applied + 1], i, key) + Pending(events, applied + 1, i, key)
      /\ \A i, key : Owed(events[applied + 1], i, key) \in Nat
    BY <1>1, PendingNext
<1>4. \A i, key : Pending(events, applied + 1, i, key) \in Nat
    BY <1>1, <1>2, PendingSum
<1> QED
    BY <1>2, <1>3, <1>4

\* What the first event says of the call.
LEMMA FirstEvent ==
    ASSUME EngineInv, phase = "applying"
    PROVE  /\ events[1].kind = "accepted" \/ events[1].kind = "rejected"
                \/ events[1].kind = "canceled"
           /\ events[1].kind = "accepted" =>
                /\ IsPlacing
                /\ Req.order_type \notin RestingTypes => ~Rests(order_books, Subject)
           /\ events[1].kind = "rejected" => IsRefused
           /\ events[1].kind = "canceled" => IsCanceling
<1>1. IsPlacing => events[1].kind = "accepted"
    BY DEF IsPlacing, Accepted
<1>2. \/ /\ IsPlacing
         /\ Req.order_type \notin RestingTypes => ~Rests(order_books, Subject)
      \/ IsRefused
      \/ IsCanceling
    BY DEF EngineInv, CallShape
<1> QED
    BY <1>1, <1>2 DEF IsRefused, IsCanceling

\* The acceptance takes nothing.
LEMMA ApplyAcceptedKeeps ==
    ASSUME EngineInv, ApplyNext, events[applied + 1].kind = "accepted"
    PROVE  EngineInv'
<1> DEFINE e == events[applied + 1]
<1>1. /\ phase = "applying" /\ applied < Len(events) /\ applied' = applied + 1
      /\ risk' = ApplyEvent(risk, Here, Req, e, call.reservation_created)
      /\ UNCHANGED <<order_books, phase, call, remaining, events>>
    BY DEF ApplyNext, Here, Req
<1>2. risk' = risk
    BY <1>1 DEF ApplyEvent
<1>3. ~Visible /\ ~Visible' /\ Here' = Here /\ Req' = Req /\ Subject' = Subject
    BY <1>1 DEF Visible, Here, Req, Subject
<1>4. ApplyFrame
    BY <1>1, <1>2, IdleFrame, InvFacts DEF ApplyFrame
<1>5. events[1].kind = "accepted"
  <2>1. Len(events) \in Nat /\ applied \in Nat
      BY InvFacts
  <2>2. Len(events) = 1 => applied + 1 = 1
      BY <1>1, <2>1
  <2>3. events[1].kind # "accepted" => Len(events) = 1
      BY <1>1, FirstEvent DEF IsRefused, IsCanceling
  <2> QED
      BY <2>2, <2>3
<1>6. Ledger'
  <2> SUFFICES ASSUME NEW k \in OrderKeys PROVE Balanced(k)'
      BY <1>3 DEF Ledger
  <2>1. Balanced(k)
      BY <1>3 DEF EngineInv, Ledger
  <2>2. Pending(events', applied', Here', k) = Pending(events, applied, Here, k)
    <3>1. Owed(e, Here, k) = 0
        BY DEF Owed
    <3>2. /\ Pending(events, applied, Here, k) =
               Owed(e, Here, k) + Pending(events, applied + 1, Here, k)
          /\ Pending(events, applied + 1, Here, k) \in Nat
        BY <1>1, NextEvent
    <3>3. Pending(events, applied, Here, k) = Pending(events, applied + 1, Here, k)
        BY <3>1, <3>2
    <3> QED
        BY <1>1, <1>3, <3>3
  <2>3. Settling(k)' <=> Settling(k)
      BY <1>1, <1>3, <1>5 DEF Settling
  <2>4. Unmatched(k)' = Unmatched(k)
      BY <1>1 DEF Unmatched
  <2> QED
      BY <1>1, <1>2, <2>1, <2>2, <2>3, <2>4 DEF Balanced
<1> QED
    BY <1>1, <1>4, <1>6, NextEvent, FrameKeeps

\* Giving back all of the running order's reservation is within the frame.
LEMMA GiveBack ==
    ASSUME EngineInv, phase = "applying", NEW quantity \in Nat,
           Held(risk, Subject) <= quantity,
           risk' = release(risk, Subject, quantity)
    PROVE  /\ SoundRisk(risk') /\ Totals(risk')
           /\ ReservationsKept(risk', risk) /\ Eased(risk', risk)
           /\ \A k : Held(risk', k) = IF k = Subject THEN 0 ELSE Held(risk, k)
           /\ \A k : Held(risk', k) <= Held(risk, k)
           /\ risk' = risk \/ Lowered(risk', risk, Subject, Held(risk, Subject))
<1>1. SoundRisk(risk) /\ Totals(risk) /\ Subject \in OrderKeys
    BY InvFacts, RunningCall DEF Visible
<1>2. /\ SoundRisk(risk') /\ Totals(risk')
      /\ ReservationsKept(risk', risk) /\ Eased(risk', risk)
      /\ \A k : Held(risk', k) = IF k = Subject THEN 0 ELSE Held(risk, k)
      /\ risk' = risk \/ Lowered(risk', risk, Subject, Held(risk, Subject))
    BY <1>1, ReleaseAll
<1>3. \A k : Held(risk', k) <= Held(risk, k)
  <2>1. \A k : Held(risk, k) \in Nat
      BY InvFacts
  <2> QED
      BY <1>2, <2>1
<1> QED
    BY <1>2, <1>3

\* A rejection, or a cancellation, is the only event of its batch; after it the
\* order of the call has nothing reserved.
LEMMA ApplyLastKeeps ==
    ASSUME EngineInv, ApplyNext,
           events[applied + 1].kind = "rejected" \/ events[applied + 1].kind = "canceled"
    PROVE  /\ EngineInv'
           /\ risk' = risk \/ Lowered(risk', risk, Subject, Held(risk, Subject))
<1> DEFINE e     == events[applied + 1]
           frees == e.kind = "canceled" \/ call.reservation_created
<1>1. /\ phase = "applying" /\ applied < Len(events) /\ applied' = applied + 1
      /\ risk' = ApplyEvent(risk, Here, Req, e, call.reservation_created)
      /\ UNCHANGED <<order_books, phase, call, remaining, events>>
    BY DEF ApplyNext, Here, Req
<1>2. ~Visible /\ ~Visible' /\ Here' = Here /\ Req' = Req /\ Subject' = Subject
    BY <1>1 DEF Visible, Here, Req, Subject
<1>3. /\ Subject = <<Here, Req.order_id>> /\ Subject \in OrderKeys
      /\ Req.quantity \in Nat /\ call.reservation_created \in BOOLEAN
    BY <1>2, RunningCall
<1>4. applied = 0 /\ Len(events) = 1 /\ e = events[1]
  <2>1. Len(events) \in Nat /\ applied \in Nat
      BY InvFacts
  <2>2. IsPlacing => applied + 1 = 1 \/ applied + 1 \in 2 .. Len(events)
      BY <1>1, <2>1
  <2>3. IsPlacing => e.kind = "accepted" \/ e.kind = "trade"
      BY <2>2 DEF IsPlacing, Accepted, TradeEvents
  <2>4. Len(events) = 1
      BY <1>1, <2>3, FirstEvent DEF IsRefused, IsCanceling
  <2> QED
      BY <1>1, <2>1, <2>4
<1>5. /\ e.kind = "rejected" => IsRefused
      /\ e.kind = "canceled" => IsCanceling
    BY <1>1, <1>4, FirstEvent
<1>6. frees => ~Rests(order_books, Subject)
    BY <1>5 DEF IsRefused, IsCanceling
<1>7. /\ SoundRisk(risk') /\ Totals(risk')
      /\ ReservationsKept(risk', risk) /\ Eased(risk', risk)
      /\ \A k : Held(risk', k) = IF frees /\ k = Subject THEN 0 ELSE Held(risk, k)
      /\ \A k : Held(risk', k) <= Held(risk, k)
      /\ risk' = risk \/ Lowered(risk', risk, Subject, Held(risk, Subject))
  <2>1. CASE e.kind = "canceled"
    <3>1. risk' = release(risk, Subject, UMax)
      <4>1. e.order_id = Req.order_id
          BY <1>4, <1>5, <2>1 DEF IsCanceling
      <4> QED
          BY <1>1, <1>3, <2>1, <4>1 DEF ApplyEvent
    <3>2. UMax \in Nat /\ Held(risk, Subject) <= UMax
        BY Widths, InvFacts, HeldFacts
    <3> QED
        BY <1>1, <2>1, <3>1, <3>2, GiveBack
  <2>2. CASE e.kind = "rejected" /\ call.reservation_created
    <3>1. risk' = release(risk, Subject, Req.quantity)
        BY <1>1, <1>3, <2>2 DEF ApplyEvent
    <3>2. Held(risk, Subject) <= Req.quantity
        BY <1>2, <2>2 DEF EngineInv, Covered
    <3> QED
        BY <1>1, <1>3, <2>2, <3>1, <3>2, GiveBack
  <2>3. CASE e.kind = "rejected" /\ ~call.reservation_created
    <3>1. risk' = risk
        BY <1>1, <2>3 DEF ApplyEvent
    <3> QED
        BY <2>3, <3>1, IdleFrame, InvFacts
  <2> QED
      BY <2>1, <2>2, <2>3
<1>8. ApplyFrame
    BY <1>1, <1>7 DEF ApplyFrame
<1>9. Ledger'
  <2> SUFFICES ASSUME NEW k \in OrderKeys PROVE Balanced(k)'
      BY <1>2 DEF Ledger
  <2>1. /\ Pending(events, applied, Here, k) = 0
        /\ Pending(events', applied', Here', k) = 0
    <3>1. Owed(e, Here, k) = 0
        BY DEF Owed
    <3>2. Pending(events, 1, Here, k) = 0
        BY <1>4, InvFacts, PendingEnd
    <3>3. Pending(events, applied, Here, k) =
            Owed(e, Here, k) + Pending(events, applied + 1, Here, k)
        BY <1>1, NextEvent
    <3>4. applied + 1 = 1
        BY <1>4
    <3> QED
        BY <1>1, <1>2, <3>1, <3>2, <3>3, <3>4
  <2>2. Unmatched(k) = 0 /\ Unmatched(k)' = 0
      BY <1>1 DEF Unmatched
  <2>3. ~Settling(k)'
    <3>1. applied' # 0
        BY <1>1, <1>4
    <3> QED
        BY <1>1, <1>4, <3>1 DEF Settling
  <2>4. Settling(k) <=> frees /\ k = Subject
      BY <1>1, <1>4 DEF Settling
  <2>5. Booked(order_books, k) \in Nat
      BY InvFacts
  <2>6. Held(risk', k) = Booked(order_books', k) + 0 + 0
    <3>1. CASE frees /\ k = Subject
      <4>1. Booked(order_books, k) = 0
          BY <1>6, <3>1, InvFacts
      <4> QED
          BY <1>1, <1>7, <3>1, <4>1
    <3>2. CASE ~(frees /\ k = Subject)
      <4>1. Held(risk, k) = Booked(order_books, k) + 0 + 0
          BY <1>2, <2>1, <2>2, <2>4, <3>2 DEF EngineInv, Ledger, Balanced
      <4> QED
          BY <1>1, <1>7, <3>2, <4>1
    <3> QED
        BY <3>1, <3>2
  <2> QED
      BY <2>1, <2>2, <2>3, <2>6 DEF Balanced
<1>10. EngineInv'
    BY <1>1, <1>8, <1>9, NextEvent, FrameKeeps
<1> QED
    BY <1>7, <1>10

\* The orders of a trade that is still to be applied have enough reserved.
LEMMA TradeIsCovered ==
    ASSUME EngineInv, phase = "applying", applied < Len(events),
           events[applied + 1].kind = "trade"
    PROVE  LET t == events[applied + 1]
           IN  /\ IsPlacing /\ call.reservation_created
               /\ t \in TradeEvents /\ t.quantity \in Nat
               /\ t.incoming_order_id = Req.order_id
               /\ t.resting_order_id # Req.order_id
               /\ <<Here, t.resting_order_id>> \in OrderKeys
               /\ t.quantity <= Held(risk, Subject)
               /\ t.quantity <= Held(risk, <<Here, t.resting_order_id>>)
<1> DEFINE t     == events[applied + 1]
           maker == <<Here, t.resting_order_id>>
<1>1. ~Visible
    BY DEF Visible
<1>2. /\ Subject = <<Here, Req.order_id>> /\ Subject \in OrderKeys
      /\ Here \in Instruments
    BY <1>1, RunningCall
<1>3. t \in Events /\ Len(events) \in Nat /\ applied \in Nat
    BY NextEvent, InvFacts
<1>4. IsPlacing /\ applied + 1 \in 2 .. Len(events)
  <2>1. applied + 1 = 1 \/ applied + 1 \in 2 .. Len(events)
      BY <1>3
  <2>2. applied + 1 # 1
    <3>1. events[1].kind # "trade"
        BY FirstEvent
    <3> QED
        BY <3>1
  <2>3. Len(events) # 1
      BY <1>3, <2>1, <2>2
  <2> QED
      BY <2>1, <2>2, <2>3, FirstEvent DEF IsRefused, IsCanceling
<1>5. /\ t \in TradeEvents /\ t.incoming_order_id = Req.order_id
      /\ t.resting_order_id # Req.order_id /\ call.reservation_created
    BY <1>4 DEF IsPlacing
<1>6. t.quantity \in Nat /\ t.resting_order_id \in OrderIds
    BY <1>5 DEF TradeEvents, Quantities
<1>7. maker \in OrderKeys /\ maker # Subject
    BY <1>2, <1>5, <1>6 DEF OrderKeys
<1>8. /\ Owed(t, Here, Subject) = t.quantity
      /\ Owed(t, Here, maker) = t.quantity
    BY <1>2, <1>5 DEF Owed
<1> HIDE DEF t, maker
<1>9. ASSUME NEW k \in OrderKeys, Owed(t, Here, k) = t.quantity
      PROVE  t.quantity <= Held(risk, k)
  <2> DEFINE due == Pending(events, applied, Here, k)
  <2>1. /\ due = Owed(t, Here, k) + Pending(events, applied + 1, Here, k)
        /\ Pending(events, applied + 1, Here, k) \in Nat
      BY NextEvent DEF t
  <2>2. Balanced(k)
      BY <1>1 DEF EngineInv, Ledger
  <2>3. /\ Booked(order_books, k) \in Nat /\ Unmatched(k) \in Nat
        /\ Held(risk, k) \in Nat
      BY InvFacts
  <2>4. \/ Held(risk, k) >= due
        \/ Held(risk, k) = Booked(order_books, k) + Unmatched(k) + due
      BY <2>2 DEF Balanced
  <2> HIDE DEF due
  <2> QED
      BY <1>6, <1>9, <2>1, <2>3, <2>4
<1>10. t.quantity <= Held(risk, Subject) /\ t.quantity <= Held(risk, maker)
    BY <1>2, <1>7, <1>8, <1>9
<1> QED
    BY <1>4, <1>5, <1>6, <1>7, <1>10 DEF t, maker

\* A trade is settled for both of its orders.
LEMMA ApplyTradeKeeps ==
    ASSUME EngineInv, ApplyNext, events[applied + 1].kind = "trade"
    PROVE  /\ EngineInv'
           /\ Settled(risk', risk, Here, Req,
                      <<Here, events[applied + 1].resting_order_id>>,
                      events[applied + 1].quantity)
<1> DEFINE t     == events[applied + 1]
           q     == t.quantity
           maker == <<Here, t.resting_order_id>>
<1>1. /\ phase = "applying" /\ applied < Len(events) /\ applied' = applied + 1
      /\ risk' = ApplyEvent(risk, Here, Req, t, call.reservation_created)
      /\ UNCHANGED <<order_books, phase, call, remaining, events>>
    BY DEF ApplyNext, Here, Req
<1>2. ~Visible /\ ~Visible' /\ Here' = Here /\ Req' = Req /\ Subject' = Subject
    BY <1>1 DEF Visible, Here, Req, Subject
<1>3. /\ Subject = <<Here, Req.order_id>> /\ Subject \in OrderKeys
      /\ Here \in Instruments /\ Req \in Requests
    BY <1>2, RunningCall
<1>4. /\ IsPlacing /\ call.reservation_created
      /\ t \in TradeEvents /\ q \in Nat
      /\ t.incoming_order_id = Req.order_id
      /\ t.resting_order_id # Req.order_id
      /\ maker \in OrderKeys
      /\ q <= Held(risk, Subject) /\ q <= Held(risk, maker)
    BY <1>1, TradeIsCovered
<1>5. risk' = ApplyTrade(risk, Here, Req, t, TRUE)
    BY <1>1, <1>4 DEF ApplyEvent
<1>6. /\ SoundRisk(risk') /\ Totals(risk')
      /\ Settled(risk', risk, Here, Req, maker, q)
      /\ ReservationsKept(risk', risk) /\ Eased(risk', risk)
      /\ \A k : Held(risk', k) =
                  Held(risk, k) - (IF k \in {Subject, maker} THEN q ELSE 0)
  <2>1. SoundRisk(risk) /\ Totals(risk)
      BY InvFacts
  <2>2. /\ t.quantity <= Held(risk, <<Here, Req.order_id>>)
        /\ t.quantity <= Held(risk, <<Here, t.resting_order_id>>)
      BY <1>3, <1>4
  <2> DEFINE rs2 == ApplyTrade(risk, Here, Req, t, TRUE)
  <2> HIDE DEF t
  <2>3. /\ SoundRisk(rs2) /\ Totals(rs2)
        /\ Settled(rs2, risk, Here, Req, <<Here, t.resting_order_id>>, t.quantity)
        /\ ReservationsKept(rs2, risk) /\ Eased(rs2, risk)
        /\ \A k : Held(rs2, k) =
              Held(risk, k) - (IF k \in {<<Here, Req.order_id>>,
                                         <<Here, t.resting_order_id>>}
                               THEN t.quantity ELSE 0)
      BY <1>3, <1>4, <2>1, <2>2, TradeSettles
  <2> HIDE DEF rs2
  <2>4. risk' = rs2
      BY <1>5 DEF rs2
  <2> QED
      BY <1>3, <2>3, <2>4
<1>7. \A k : Held(risk, k) \in Nat
    BY InvFacts
<1>8. t.kind = "trade"
    OBVIOUS
<1> HIDE DEF t, q, maker
<1>9. ApplyFrame
  <2>1. ASSUME NEW k PROVE Held(risk', k) <= Held(risk, k)
    <3>1. Held(risk, k) \in Nat
        BY <1>7
    <3>2. Held(risk', k) = Held(risk, k) - q \/ Held(risk', k) = Held(risk, k) - 0
        BY <1>6
    <3> QED
        BY <1>4, <3>1, <3>2
  <2> QED
      BY <1>1, <1>6, <2>1 DEF ApplyFrame
<1>10. Ledger'
  <2> SUFFICES ASSUME NEW k \in OrderKeys PROVE Balanced(k)'
      BY <1>2 DEF Ledger
  <2> DEFINE due  == Pending(events, applied, Here, k)
             due2 == Pending(events, applied + 1, Here, k)
             owed == IF k \in {Subject, maker} THEN q ELSE 0
  <2>1. due = owed + due2 /\ due2 \in Nat /\ owed \in Nat
    <3>1. Owed(t, Here, k) = owed
        BY <1>3, <1>4, <1>8 DEF Owed, q, maker
    <3>2. due = Owed(t, Here, k) + due2 /\ due2 \in Nat /\ Owed(t, Here, k) \in Nat
        BY <1>1, NextEvent DEF t
    <3> QED
        BY <3>1, <3>2
  <2>2. Held(risk', k) = Held(risk, k) - owed /\ Held(risk, k) \in Nat
      BY <1>6, <1>7
  <2>3. Balanced(k)
      BY <1>2 DEF EngineInv, Ledger
  <2>4. Settling(k)' <=> Settling(k)
    <3>1. events[1].kind = "accepted"
        BY <1>4 DEF IsPlacing, Accepted
    <3> QED
        BY <1>1, <1>2, <3>1 DEF Settling
  <2>5. Unmatched(k)' = Unmatched(k) /\ Unmatched(k) \in Nat
        /\ Booked(order_books, k) \in Nat
      BY <1>1, InvFacts DEF Unmatched
  <2>6. Pending(events', applied', Here', k) = due2
      BY <1>1, <1>2
  <2>7. order_books' = order_books
      BY <1>1
  <2> HIDE DEF due, due2, owed
  <2>8. CASE Settling(k)
    <3>1. Held(risk, k) >= due
        BY <2>3, <2>8 DEF Balanced, due
    <3>2. Held(risk', k) >= due2
        BY <2>1, <2>2, <3>1
    <3> QED
        BY <2>4, <2>6, <2>8, <3>2 DEF Balanced
  <2>9. CASE ~Settling(k)
    <3>1. Held(risk, k) = Booked(order_books, k) + Unmatched(k) + due
        BY <2>3, <2>9 DEF Balanced, due
    <3>2. Held(risk', k) = Booked(order_books, k) + Unmatched(k) + due2
        BY <2>1, <2>2, <2>5, <3>1
    <3> QED
        BY <2>4, <2>5, <2>6, <2>7, <2>9, <3>2 DEF Balanced
  <2> QED
      BY <2>8, <2>9
<1>11. EngineInv'
    BY <1>1, <1>9, <1>10, NextEvent, FrameKeeps
<1> QED
    BY <1>6, <1>11 DEF t, q, maker

\* When apply returns every reservation is what rests in the books: what an
\* order that never rests still had is given back.
LEMMA FinishApplyKeeps ==
    ASSUME EngineInv, FinishApply
    PROVE  /\ EngineInv'
           /\ risk' = risk \/ Lowered(risk', risk, Subject, Held(risk, Subject))
<1> DEFINE frees == call.reservation_created /\ Req.order_type \in {"ioc", "market", "fok"}
<1>1. /\ phase = "applying" /\ applied = Len(events) /\ phase' = "publishing"
      /\ risk' = ApplyEnd(risk, Here, Req, call.reservation_created)
      /\ UNCHANGED <<order_books, call, remaining, events, applied>>
    BY DEF FinishApply, Here, Req
<1>2. ~Visible /\ Visible'
    BY <1>1 DEF Visible
<1>3. /\ Subject = <<Here, Req.order_id>> /\ Subject \in OrderKeys
      /\ Req.quantity \in Nat /\ Req \in Requests
    BY <1>2, RunningCall
<1>4. \A k \in OrderKeys : Pending(events, applied, Here, k) = 0
    BY <1>1, InvFacts, PendingEnd
<1>5. /\ SoundRisk(risk') /\ Totals(risk')
      /\ ReservationsKept(risk', risk) /\ Eased(risk', risk)
      /\ \A k : Held(risk', k) = IF frees /\ k = Subject THEN 0 ELSE Held(risk, k)
      /\ risk' = risk \/ Lowered(risk', risk, Subject, Held(risk, Subject))
  <2>1. CASE frees
    <3>1. risk' = release(risk, Subject, Req.quantity)
        BY <1>1, <1>3, <2>1 DEF ApplyEnd
    <3>2. Held(risk, Subject) <= Req.quantity
        BY <1>2, <2>1 DEF EngineInv, Covered
    <3> QED
        BY <1>1, <1>3, <2>1, <3>1, <3>2, GiveBack
  <2>2. CASE ~frees
    <3>1. risk' = risk
        BY <1>1, <2>2 DEF ApplyEnd
    <3> QED
        BY <2>2, <3>1, IdleFrame, InvFacts
  <2> QED
      BY <2>1, <2>2
<1>6. frees => ~Rests(order_books, Subject)
  <2>1. Req.order_type \in {"ioc", "market", "fok"} => Req.order_type \notin RestingTypes
      BY DEF RestingTypes
  <2> QED
      BY <1>1, <2>1, FirstEvent DEF IsRefused, IsCanceling
<1>7. Ledger'
  <2> SUFFICES ASSUME NEW k \in OrderKeys
               PROVE  Held(risk', k) = Booked(order_books', k)
      BY <1>2 DEF Ledger
  <2>1. Balanced(k) /\ Unmatched(k) = 0 /\ Booked(order_books, k) \in Nat
      BY <1>1, <1>2, InvFacts DEF EngineInv, Ledger, Unmatched
  <2>2. CASE frees /\ k = Subject
    <3>1. Booked(order_books, k) = 0
        BY <1>6, <2>2, InvFacts
    <3> QED
        BY <1>1, <1>5, <2>2, <3>1
  <2>3. CASE ~(frees /\ k = Subject)
    <3>1. ~Settling(k)
      <4>1. IsPlacing /\ Req.order_type \notin RestingTypes => frees
          BY <1>3 DEF IsPlacing, Requests, OrderTypes, RestingTypes
      <4>2. events[1].kind = "rejected" \/ events[1].kind = "canceled" => applied = 1
          BY <1>1, FirstEvent DEF IsRefused, IsCanceling
      <4> QED
          BY <1>1, <2>3, <4>1, <4>2, FirstEvent DEF Settling
    <3>2. Held(risk, k) = Booked(order_books, k) + 0 + 0
        BY <1>4, <2>1, <3>1 DEF Balanced
    <3> QED
        BY <1>1, <1>5, <2>1, <2>3, <3>2
  <2> QED
      BY <2>2, <2>3
<1>8. TypeOK'
    BY <1>1, <1>5 DEF EngineInv, TypeOK, SoundRisk, Phases
<1>9. RiskIsSound'
    BY <1>5, EasedLimits DEF RiskIsSound
<1>10. BooksAreGood' /\ CallShape'
    BY <1>1, <1>2 DEF EngineInv, BooksAreGood, CallShape
<1>11. SameOwner'
  <2>1. \A key \in DOMAIN risk'.reservations :
            /\ key \in DOMAIN risk.reservations
            /\ risk'.reservations[key].account_id = risk.reservations[key].account_id
            /\ risk'.reservations[key].side = risk.reservations[key].side
      BY <1>5 DEF ReservationsKept
  <2> QED
      BY <1>1, <2>1 DEF EngineInv, SameOwner, Agree
<1> QED
    BY <1>2, <1>5, <1>7, <1>8, <1>9, <1>10, <1>11, VisibleTrivially DEF EngineInv

\* Applying one event, whatever its kind.
LEMMA ApplyNextKeeps ==
    ASSUME EngineInv, ApplyNext
    PROVE  EngineInv'
<1>1. phase = "applying" /\ applied < Len(events)
    BY DEF ApplyNext
<1>2. events[applied + 1] \in Events
    BY <1>1, NextEvent
<1>3. events[applied + 1].kind \in {"accepted", "rejected", "trade", "canceled"}
    BY <1>2 DEF Events, TradeEvents, CanceledEvents
<1> QED
    BY <1>3, ApplyAcceptedKeeps, ApplyLastKeeps, ApplyTradeKeeps

\* Every step of the engine keeps the invariant.
LEMMA NextEngineInv == EngineInv /\ [Next]_vars => EngineInv'
<1> SUFFICES ASSUME EngineInv, [Next]_vars PROVE EngineInv'
    OBVIOUS
<1>1. ASSUME NEW i \in Instruments, register_instrument(i) PROVE EngineInv'
    BY <1>1, RegisterKeeps
<1>2. ASSUME NEW i \in Instruments, NEW r \in Requests, PlaceRefused(i, r)
      PROVE  EngineInv'
    BY <1>2, PlaceRefusedKeeps
<1>3. ASSUME NEW i \in Instruments, NEW r \in Requests, PlaceRejectedByBook(i, r)
      PROVE  EngineInv'
    BY <1>3, PlaceRejectedKeeps
<1>4. ASSUME NEW i \in Instruments, NEW r \in Requests, PlaceAccepted(i, r)
      PROVE  EngineInv'
    BY <1>4, PlaceAcceptedKeeps
<1>5. ASSUME NEW i \in Instruments, NEW id \in OrderIds, CancelUnknownInstrument(i, id)
      PROVE  EngineInv'
    BY <1>5, CancelUnknownKeeps
<1>6. ASSUME NEW i \in Instruments, NEW id \in OrderIds, NEW account \in AccountIds,
             Cancel(i, id, account)
      PROVE  EngineInv'
    BY <1>6, CancelKeeps
<1>7. ASSUME NEW p \in Prices, MatchAt(p) PROVE EngineInv'
    BY <1>7, MatchKeeps
<1>8. CASE FinishMatching
    BY <1>8, FinishMatchingKeeps
<1>9. CASE ApplyNext
    BY <1>9, ApplyNextKeeps
<1>10. CASE FinishApply
    BY <1>10, FinishApplyKeeps
<1>11. CASE Publish
    BY <1>11, PublishKeeps
<1>12. CASE UNCHANGED vars
  <2> USE <1>12 DEF vars
  <2>1. Here' = Here /\ Req' = Req /\ Subject' = Subject /\ Visible' = Visible
      BY DEF Here, Req, Subject, Visible
  <2>2. TypeOK' /\ RiskIsSound' /\ BooksAreGood' /\ SameOwner'
      BY DEF EngineInv, TypeOK, RiskIsSound, ReservationLimitsHold, BooksAreGood,
             SameOwner
  <2>3. CallShape'
      BY <2>1 DEF EngineInv, CallShape, IsPlacing, IsRefused, IsCanceling
  <2>4. Ledger'
      BY <2>1 DEF EngineInv, Ledger, Balanced, Settling, Unmatched
  <2>5. Covered' /\ OwnReservation' /\ MakersOpposite'
      BY <2>1 DEF EngineInv, Covered, OwnReservation, MakersOpposite
  <2> QED
      BY <2>2, <2>3, <2>4, <2>5 DEF EngineInv
<1> QED
    BY <1>1, <1>2, <1>3, <1>4, <1>5, <1>6, <1>7, <1>8, <1>9, <1>10, <1>11, <1>12
    DEF Next, CallSteps

----------------------------------------------------------------------------
(* Types, limits and reservations                                           *)

\* The inductive invariant holds of every behaviour of the engine.
THEOREM EngineInvHolds == Spec => []EngineInv
    BY InitEngineInv, NextEngineInv, PTL DEF Spec

\* TypeOK: the members of the engine and the locals of the running call keep
\* their types, and only an order the checks let through is matched.
THEOREM EngineTypeCorrect == Spec => []TypeOK
<1>1. EngineInv => TypeOK
    BY DEF EngineInv
<1> QED
    BY <1>1, EngineInvHolds, PTL

\* ReservationLimitsHold: no account ever has more open quantity or more
\* reserved margin in an instrument than the configuration allows.
THEOREM ReservationsStayWithinLimits == Spec => []ReservationLimitsHold
<1>1. EngineInv => ReservationLimitsHold
    BY DEF EngineInv, RiskIsSound
<1> QED
    BY <1>1, EngineInvHolds, PTL

\* ReservationsMatchBooks: whenever a client or the sink can look, the
\* reservations are the open orders, order by order and unit by unit.
THEOREM ReservationsFollowBooks == Spec => []ReservationsMatchBooks
<1>1. EngineInv => ReservationsMatchBooks
  <2> SUFFICES ASSUME EngineInv, Visible
               PROVE  /\ DOMAIN risk.reservations = OpenOrders
                      /\ \A key \in OpenOrders :
                           LET res == risk.reservations[key]
                           IN  [account_id |-> res.account_id, side |-> res.side,
                                remaining_quantity |-> res.remaining_quantity]
                                 = OpenEntry(key)
      BY DEF ReservationsMatchBooks
  <2>1. \A key \in OrderKeys : key \in OpenOrders <=> Rests(order_books, key)
    <3>1. ASSUME NEW key \in OrderKeys, key \in OpenOrders
          PROVE  Rests(order_books, key)
      <4>1. PICK i \in DOMAIN order_books :
                key \in {<<i, id>> : id \in DOMAIN order_books[i].order_locations}
          BY <3>1 DEF OpenOrders
      <4>2. PICK id \in DOMAIN order_books[i].order_locations : key = <<i, id>>
          BY <4>1
      <4> QED
          BY <4>2 DEF Rests
    <3>2. ASSUME NEW key \in OrderKeys, Rests(order_books, key)
          PROVE  key \in OpenOrders
      <4>1. key = <<key[1], key[2]>>
          BY KeyFacts
      <4>2. /\ key[1] \in DOMAIN order_books
            /\ key[2] \in DOMAIN order_books[key[1]].order_locations
          BY <3>2 DEF Rests
      <4> QED
          BY <4>1, <4>2 DEF OpenOrders
    <3> QED
        BY <3>1, <3>2
  <2>2. OpenOrders \subseteq OrderKeys
    <3> SUFFICES ASSUME NEW key \in OpenOrders PROVE key \in OrderKeys
        OBVIOUS
    <3>1. PICK i \in DOMAIN order_books :
              key \in {<<i, id>> : id \in DOMAIN order_books[i].order_locations}
        BY DEF OpenOrders
    <3>2. PICK id \in DOMAIN order_books[i].order_locations : key = <<i, id>>
        BY <3>1
    <3>3. i \in Instruments /\ GoodBook(order_books[i])
        BY InvFacts
    <3>4. id \in OrderIds
        BY <3>3, RestingTyped DEF GoodBook, IsSound
    <3> QED
        BY <3>2, <3>3, <3>4 DEF OrderKeys
  <2>3. DOMAIN risk.reservations = OpenOrders
    <3>1. \A key \in OrderKeys :
            key \in DOMAIN risk.reservations <=> Rests(order_books, key)
        BY VisibleLedger, InvFacts
    <3>2. DOMAIN risk.reservations \subseteq OrderKeys
        BY InvFacts
    <3> QED
        BY <2>1, <2>2, <3>1, <3>2
  <2>4. ASSUME NEW key \in OpenOrders
        PROVE  LET res == risk.reservations[key]
               IN  [account_id |-> res.account_id, side |-> res.side,
                    remaining_quantity |-> res.remaining_quantity] = OpenEntry(key)
    <3> DEFINE res == risk.reservations[key]
               b   == order_books[key[1]]
               e   == RestingEntry(b, key[2])
    <3>1. /\ key \in OrderKeys /\ key \in DOMAIN risk.reservations
          /\ Rests(order_books, key)
        BY <2>1, <2>2, <2>3
    <3>2. RestingMap(b)[key[2]] = e
        BY <3>1 DEF Rests, RestingMap
    <3>3. res.remaining_quantity = e.remaining_quantity
      <4>1. Held(risk, key) = Booked(order_books, key)
          BY <3>1, VisibleLedger
      <4>2. Held(risk, key) = res.remaining_quantity
          BY <3>1 DEF Held
      <4>3. Booked(order_books, key) = RestingMap(b)[key[2]].remaining_quantity
          BY <3>1 DEF Booked, RestsIn, Rests
      <4> QED
          BY <3>2, <4>1, <4>2, <4>3
    <3>4. e.account_id = res.account_id /\ e.side = res.side
        BY <3>1, <3>2 DEF EngineInv, SameOwner, Agree
    <3> HIDE DEF e, res
    <3> QED
        BY <3>3, <3>4 DEF OpenEntry, e, b, res
  <2> QED
      BY <2>3, <2>4
<1> QED
    BY <1>1, EngineInvHolds, PTL

\* The sums TotalsAreSums speaks of are the ones the invariant keeps.
LEMMA SameSums ==
    ASSUME EngineInv, NEW a \in AccountIds, NEW i \in Instruments
    PROVE  LET keys     == KeysOf(a, i)
               margin   == [key \in keys |-> risk.reservations[key].reserved_margin]
               quantity == [key \in keys |-> risk.reservations[key].remaining_quantity]
           IN  /\ SumFunction(margin) = MarginOf(risk.reservations, a, i)
               /\ \A s : SumFunctionOnSet(quantity,
                            {key \in keys : risk.reservations[key].side = s})
                           = ReservedOn(risk.reservations, a, i, s)
<1> DEFINE R        == risk.reservations
           keys     == KeysOf(a, i)
           margin   == [key \in keys |-> R[key].reserved_margin]
           quantity == [key \in keys |-> R[key].remaining_quantity]
           part(s)  == {key \in keys : R[key].side = s}
<1>1. IsReserved(R)
    BY InvFacts, RiskFacts
<1>2. keys = OfAccount(R, a, i)
    BY DEF KeysOf, OfAccount
<1>3. \A s : part(s) = OfSide(R, a, i, s)
    BY <1>2 DEF OfSide
<1>4. /\ IsFiniteSet(keys) /\ keys \subseteq DOMAIN R
      /\ \A s : IsFiniteSet(OfSide(R, a, i, s)) /\ OfSide(R, a, i, s) \subseteq keys
      /\ \A key \in DOMAIN R :
            /\ ReservedQuantities(R)[key] = R[key].remaining_quantity
            /\ ReservedMargins(R)[key] = R[key].reserved_margin
  <2>1. /\ IsFiniteSet(OfAccount(R, a, i)) /\ OfAccount(R, a, i) \subseteq DOMAIN R
        /\ \A s : IsFiniteSet(OfSide(R, a, i, s))
        /\ \A key \in DOMAIN R :
              /\ ReservedQuantities(R)[key] = R[key].remaining_quantity
              /\ ReservedMargins(R)[key] = R[key].reserved_margin
      BY <1>1, ReservedSums
  <2>2. \A s : OfSide(R, a, i, s) \subseteq OfAccount(R, a, i)
      BY DEF OfSide
  <2> QED
      BY <1>2, <2>1, <2>2
<1>5. /\ DOMAIN margin = keys
      /\ \A key \in keys : margin[key] = ReservedMargins(R)[key]
      /\ \A key \in keys : quantity[key] = ReservedQuantities(R)[key]
    BY <1>4
<1>6. SumFunction(margin) = SumFunctionOnSet(margin, DOMAIN margin)
    BY DEF SumFunction
<1> HIDE DEF keys, margin, quantity, part, R
<1>7. SumFunction(margin) = MarginOf(R, a, i)
  <2>1. SumFunctionOnSet(margin, keys) = SumFunctionOnSet(ReservedMargins(R), keys)
      BY <1>4, <1>5, SumAgree
  <2> QED
      BY <1>2, <1>5, <1>6, <2>1 DEF MarginOf
<1>8. ASSUME NEW s
      PROVE  SumFunctionOnSet(quantity, part(s)) = ReservedOn(R, a, i, s)
  <2> DEFINE S == OfSide(R, a, i, s)
  <2>1. IsFiniteSet(S) /\ \A key \in S : quantity[key] = ReservedQuantities(R)[key]
      BY <1>4, <1>5
  <2>2. part(s) = S
      BY <1>3
  <2> HIDE DEF S
  <2>3. SumFunctionOnSet(quantity, S) = SumFunctionOnSet(ReservedQuantities(R), S)
      BY <2>1, SumAgree
  <2> QED
      BY <2>2, <2>3 DEF ReservedOn, S
<1> QED
    BY <1>7, <1>8 DEF keys, margin, quantity, part, R

\* TotalsAreSums: at every moment the reserved totals of every account are the
\* sums over its reservations; neither the rounding of proportional_release nor
\* an unsigned subtraction ever loses a unit.
THEOREM ReservedTotalsAreSums == Spec => []TotalsAreSums
<1>1. EngineInv => TotalsAreSums
  <2> SUFFICES ASSUME EngineInv, NEW a \in AccountIds, NEW i \in Instruments
               PROVE  LET state  == risk.account_states[<<a, i>>]
                          margin == [key \in KeysOf(a, i) |->
                                        risk.reservations[key].reserved_margin]
                          quantity(side) ==
                            SumFunctionOnSet(
                              [key \in KeysOf(a, i) |->
                                  risk.reservations[key].remaining_quantity],
                              {key \in KeysOf(a, i) :
                                  risk.reservations[key].side = side})
                      IN  /\ state.buy_reserved_quantity = quantity("buy")
                          /\ state.sell_reserved_quantity = quantity("sell")
                          /\ state.open_order_quantity =
                               quantity("buy") + quantity("sell")
                          /\ state.reserved_margin = SumFunction(margin)
      BY DEF TotalsAreSums
  <2> DEFINE R == risk.reservations
             margin == [key \in KeysOf(a, i) |-> R[key].reserved_margin]
             quantity == [key \in KeysOf(a, i) |-> R[key].remaining_quantity]
             part(s) == {key \in KeysOf(a, i) : R[key].side = s}
  <2>1. /\ SumFunction(margin) = MarginOf(R, a, i)
        /\ \A s : SumFunctionOnSet(quantity, part(s)) = ReservedOn(R, a, i, s)
      BY SameSums
  <2>2. Totals(risk)
      BY InvFacts
  <2>3. LET st == risk.account_states[<<a, i>>]
        IN  /\ st.buy_reserved_quantity = ReservedOn(R, a, i, "buy")
            /\ st.sell_reserved_quantity = ReservedOn(R, a, i, "sell")
            /\ st.open_order_quantity =
                 ReservedOn(R, a, i, "buy") + ReservedOn(R, a, i, "sell")
            /\ st.reserved_margin = MarginOf(R, a, i)
      BY <2>2 DEF Totals
  <2> HIDE DEF margin, quantity, part, R
  <2>4. LET st == risk.account_states[<<a, i>>]
        IN  /\ st.buy_reserved_quantity = SumFunctionOnSet(quantity, part("buy"))
            /\ st.sell_reserved_quantity = SumFunctionOnSet(quantity, part("sell"))
            /\ st.open_order_quantity = SumFunctionOnSet(quantity, part("buy"))
                                        + SumFunctionOnSet(quantity, part("sell"))
            /\ st.reserved_margin = SumFunction(margin)
      BY <2>1, <2>3
  <2> QED
      BY <2>4 DEF margin, quantity, part, R
<1> QED
    BY <1>1, EngineInvHolds, PTL

----------------------------------------------------------------------------
(* Positions                                                                *)

\* What a step does to the account state.
RiskStep ==
    \/ risk' = risk
    \/ \E i \in Instruments, r \in Requests :
          /\ RiskRejection(r) = "none" /\ r.quantity > 0
          /\ WithinLimits(risk, i, r) /\ Raised(risk', risk, i, r)
    \/ Lowered(risk', risk, Subject, Held(risk, Subject))
    \/ /\ phase = "applying" /\ applied < Len(events)
       /\ events[applied + 1].kind = "trade"
       /\ Settled(risk', risk, Here, Req,
                  <<Here, events[applied + 1].resting_order_id>>,
                  events[applied + 1].quantity)

\* Every step of the engine is one of these.
LEMMA RiskSteps == EngineInv /\ [Next]_vars => RiskStep
<1> SUFFICES ASSUME EngineInv, [Next]_vars PROVE RiskStep
    OBVIOUS
<1>1. ASSUME NEW i \in Instruments, NEW r \in Requests, Admitted(i, r)
      PROVE  RiskStep
  <2>1. CASE IsDuplicate(i, r)
      BY <1>1, <2>1, AdmittedMeans DEF RiskStep
  <2>2. CASE ~IsDuplicate(i, r)
    <3>1. /\ WithinLimits(risk, i, r) /\ Raised(risk', risk, i, r)
          /\ r.quantity > 0
        BY <1>1, <2>2, AdmittedMeans
    <3>2. RiskRejection(r) = "none"
        BY <1>1, CheckedRequest DEF Admitted
    <3> QED
        BY <3>1, <3>2 DEF RiskStep
  <2> QED
      BY <2>1, <2>2
<1>2. CASE ApplyNext
  <2>1. phase = "applying" /\ applied < Len(events)
      BY <1>2 DEF ApplyNext
  <2>2. events[applied + 1] \in Events
      BY <2>1, NextEvent
  <2>3. events[applied + 1].kind \in {"accepted", "rejected", "trade", "canceled"}
      BY <2>2 DEF Events, TradeEvents, CanceledEvents
  <2>4. CASE events[applied + 1].kind = "accepted"
    <3>1. risk' = risk
        BY <1>2, <2>4 DEF ApplyNext, ApplyEvent
    <3> QED
        BY <3>1 DEF RiskStep
  <2>5. CASE events[applied + 1].kind \in {"rejected", "canceled"}
      BY <1>2, <2>5, ApplyLastKeeps DEF RiskStep
  <2>6. CASE events[applied + 1].kind = "trade"
      BY <1>2, <2>1, <2>6, ApplyTradeKeeps DEF RiskStep
  <2> QED
      BY <2>3, <2>4, <2>5, <2>6
<1>3. CASE FinishApply
    BY <1>3, FinishApplyKeeps DEF RiskStep
<1>4. ASSUME risk' = risk PROVE RiskStep
    BY <1>4 DEF RiskStep
<1>5. ASSUME NEW i \in Instruments, NEW r \in Requests,
             PlaceRejectedByBook(i, r) \/ PlaceAccepted(i, r)
      PROVE  RiskStep
    BY <1>1, <1>5 DEF PlaceRejectedByBook, PlaceAccepted
<1>6. ASSUME NEW i \in Instruments, register_instrument(i) PROVE RiskStep
    BY <1>4, <1>6 DEF register_instrument
<1>7. ASSUME NEW i \in Instruments, NEW r \in Requests, PlaceRefused(i, r)
      PROVE  RiskStep
    BY <1>4, <1>7 DEF PlaceRefused
<1>8. ASSUME NEW i \in Instruments, NEW id \in OrderIds, CancelUnknownInstrument(i, id)
      PROVE  RiskStep
    BY <1>4, <1>8 DEF CancelUnknownInstrument
<1>9. ASSUME NEW i \in Instruments, NEW id \in OrderIds, NEW account \in AccountIds,
             Cancel(i, id, account)
      PROVE  RiskStep
    BY <1>4, <1>9 DEF Cancel
<1>10. ASSUME NEW p \in Prices, MatchAt(p) PROVE RiskStep
    BY <1>4, <1>10 DEF MatchAt
<1>11. CASE FinishMatching \/ Publish \/ UNCHANGED vars
    BY <1>4, <1>11 DEF FinishMatching, Publish, vars
<1> QED
    BY <1>2, <1>3, <1>5, <1>6, <1>7, <1>8, <1>9, <1>10, <1>11 DEF Next, CallSteps

\* A configuration whose limits fit the width: the sums that evaluate forms
\* stay within std::int64_t.  Without it the position test may overflow.
LimitsFit ==
    /\ maximum_position_quantity + maximum_order_quantity <= IntMax
    /\ maximum_open_order_quantity <= IntMax

\* The position limit holds of an account whose open buy, or sell, orders are
\* all filled.
PositionsFit(rs) ==
    \A a \in AccountIds, i \in Instruments :
        LET st == rs.account_states[<<a, i>>]
        IN  /\ st.position + st.buy_reserved_quantity <= maximum_position_quantity
            /\ st.position - st.sell_reserved_quantity >= -maximum_position_quantity

\* The position of one account in one instrument moved by d, and no other.
PositionBy(rs2, rs, account, i, d) ==
    \A a \in AccountIds, j \in Instruments :
        rs2.account_states[<<a, j>>].position =
            rs.account_states[<<a, j>>].position
                + (IF a = account /\ j = i THEN d ELSE 0)

\* The configured limits are integers.
LEMMA LimitFacts ==
    /\ IntMax \in Int /\ maximum_position_quantity \in Nat
    /\ maximum_order_quantity \in Nat /\ maximum_open_order_quantity \in Nat
    BY RiskAssumption, Widths

\* Settling one side of a trade keeps the position limit, and moves the position
\* by exactly what was traded: the signed addition does not overflow.
LEMMA HalfKeepsPositions ==
    ASSUME LimitsFit, NEW rs, SoundRisk(rs), PositionsFit(rs), NEW rs3, SoundRisk(rs3),
           NEW key \in DOMAIN rs.reservations, NEW n \in Nat, n <= IntMax,
           NEW account, account = rs.reservations[key].account_id,
           NEW side, side = rs.reservations[key].side,
           HalfSettled(rs3, rs, key, account, side, n)
    PROVE  /\ PositionsFit(rs3)
           /\ PositionBy(rs3, rs, account, key[1], Direction(side) * n)
<1> DEFINE d == Direction(side) * n
<1>1. PICK rs2 : /\ SoundRisk(rs2) /\ Totals(rs2) /\ Lowered(rs2, rs, key, n)
                 /\ Repositioned(rs3, rs2, account, key[1], Direction(side) * Signed(n))
    BY DEF HalfSettled
<1>2. side \in Sides
    BY RiskFacts
<1>3. n \in (-IntMax - 1) .. IntMax
    BY Widths
<1>4. Signed(n) = n
    BY <1>3, SignedFacts
<1>5. Repositioned(rs3, rs2, account, key[1], d)
    BY <1>1, <1>4
<1>6. d = (IF side = "buy" THEN n ELSE -n) /\ d \in Int
    BY DEF Direction
<1>7. ASSUME NEW a \in AccountIds, NEW i \in Instruments
      PROVE  LET st  == rs.account_states[<<a, i>>]
                 st3 == rs3.account_states[<<a, i>>]
             IN  /\ st3.position = st.position
                      + (IF a = account /\ i = key[1] THEN d ELSE 0)
                 /\ st3.position + st3.buy_reserved_quantity
                      <= maximum_position_quantity
                 /\ st3.position - st3.sell_reserved_quantity
                      >= -maximum_position_quantity
  <2> DEFINE st  == rs.account_states[<<a, i>>]
             st2 == rs2.account_states[<<a, i>>]
             st3 == rs3.account_states[<<a, i>>]
             here == a = account /\ i = key[1]
             P   == st.position
             B   == st.buy_reserved_quantity
             S   == st.sell_reserved_quantity
             B2  == st2.buy_reserved_quantity
             S2  == st2.sell_reserved_quantity
  <2>1. st \in AccountStates /\ st2 \in AccountStates /\ st3 \in AccountStates
      BY <1>1, StateTyped
  <2>2. /\ P \in Int /\ B \in Nat /\ S \in Nat /\ B2 \in Nat /\ S2 \in Nat
        /\ P \in (-IntMax - 1) .. IntMax
    <3> HIDE DEF st, st2
    <3> QED
        BY <2>1, StateFacts, Widths
  <2>3. P + B <= maximum_position_quantity /\ P - S >= -maximum_position_quantity
      BY DEF PositionsFit
  <2>4. /\ st2.position = P
        /\ B2 = B - (IF here /\ side = "buy" THEN n ELSE 0)
        /\ S2 = S - (IF here /\ side = "sell" THEN n ELSE 0)
    <3>1. LET own(s) == a = rs.reservations[key].account_id /\ i = key[1]
                          /\ s = rs.reservations[key].side
          IN  /\ st2.position = st.position
              /\ B2 = B - (IF own("buy") THEN n ELSE 0)
              /\ S2 = S - (IF own("sell") THEN n ELSE 0)
        BY <1>1 DEF Lowered
    <3> QED
        BY <3>1
  <2>5. /\ st3.buy_reserved_quantity = B2 /\ st3.sell_reserved_quantity = S2
        /\ st3.position = IF here THEN Signed(st2.position + d) ELSE st2.position
      BY <1>5 DEF Repositioned
  <2> HIDE DEF st, st2, st3, here, P, B, S, B2, S2, d
  <2>6. here => P + d \in (-IntMax - 1) .. IntMax
    <3>1. CASE here /\ side = "buy"
      <4>1. d = n /\ B2 = B - n
          BY <1>6, <2>4, <3>1
      <4> QED
          BY <2>2, <2>3, <4>1, LimitFacts DEF LimitsFit
    <3>2. CASE here /\ side = "sell"
      <4>1. d = -n /\ S2 = S - n
          BY <1>6, <2>4, <3>2
      <4> QED
          BY <2>2, <2>3, <4>1, LimitFacts DEF LimitsFit
    <3> QED
        BY <1>2, <3>1, <3>2 DEF Sides
  <2>7. st3.position = P + (IF here THEN d ELSE 0)
    <3>1. CASE here
        BY <2>4, <2>5, <2>6, <3>1, SignedFacts
    <3>2. CASE ~here
        BY <2>2, <2>4, <2>5, <3>2
    <3> QED
        BY <3>1, <3>2
  <2>8. /\ st3.position + st3.buy_reserved_quantity <= maximum_position_quantity
        /\ st3.position - st3.sell_reserved_quantity >= -maximum_position_quantity
    <3>1. CASE here /\ side = "buy"
      <4>1. st3.position = P + n /\ B2 = B - n /\ S2 = S - 0
          BY <1>6, <2>4, <2>7, <3>1
      <4> QED
          BY <2>2, <2>3, <2>5, <4>1, LimitFacts
    <3>2. CASE here /\ side = "sell"
      <4>1. st3.position = P + (-n) /\ S2 = S - n /\ B2 = B - 0
          BY <1>6, <2>4, <2>7, <3>2
      <4> QED
          BY <2>2, <2>3, <2>5, <4>1, LimitFacts
    <3>3. CASE ~here
      <4>1. st3.position = P /\ S2 = S /\ B2 = B
          BY <2>2, <2>4, <2>7, <3>3
      <4> QED
          BY <2>2, <2>3, <2>5, <4>1, LimitFacts
    <3> QED
        BY <1>2, <3>1, <3>2, <3>3 DEF Sides
  <2> QED
      BY <2>7, <2>8 DEF st, st3, P, here
<1>8. PositionsFit(rs3)
    BY <1>7 DEF PositionsFit
<1>9. PositionBy(rs3, rs, account, key[1], d)
    BY <1>7 DEF PositionBy
<1> QED
    BY <1>8, <1>9

\* The reserved quantities of either side are part of the open quantity, so they
\* fit the width.
LEMMA ReservedFit ==
    ASSUME LimitsFit, EngineInv, NEW a \in AccountIds, NEW i \in Instruments
    PROVE  LET st == risk.account_states[<<a, i>>]
           IN  /\ st.position \in Int
               /\ st.buy_reserved_quantity \in 0 .. IntMax
               /\ st.sell_reserved_quantity \in 0 .. IntMax
<1> DEFINE st == risk.account_states[<<a, i>>]
<1>1. st \in AccountStates
    BY InvFacts, StateTyped
<1>2. /\ st.open_order_quantity = st.buy_reserved_quantity + st.sell_reserved_quantity
    BY InvFacts DEF Totals
<1>3. st.open_order_quantity <= maximum_open_order_quantity
    BY InvFacts DEF ReservationLimitsHold
<1> HIDE DEF st
<1>4. /\ st.position \in Int /\ st.buy_reserved_quantity \in Nat
      /\ st.sell_reserved_quantity \in Nat
    BY <1>1, StateFacts, Widths
<1>5. /\ st.position \in Int
      /\ st.buy_reserved_quantity \in 0 .. IntMax
      /\ st.sell_reserved_quantity \in 0 .. IntMax
    BY <1>2, <1>3, <1>4, LimitFacts DEF LimitsFit
<1> QED
    BY <1>5 DEF st

\* An order of the admitted size is below its own limit.
LEMMA AdmittedQuantity ==
    ASSUME NEW r \in Requests, RiskRejection(r) = "none"
    PROVE  r.quantity \in Nat /\ r.quantity <= maximum_order_quantity
<1>1. r.quantity \in Nat
    BY BookAssumption DEF Requests
<1>2. ~(r.quantity > maximum_order_quantity)
    BY DEF RiskRejection
<1> QED
    BY <1>1, <1>2, LimitFacts

\* When the sums of evaluate fit the width its position test is exact.
LEMMA PositionTestIsExact ==
    ASSUME LimitsFit, NEW st, NEW r \in Requests, RiskRejection(r) = "none",
           st.position \in Int,
           st.buy_reserved_quantity \in 0 .. IntMax,
           st.sell_reserved_quantity \in 0 .. IntMax,
           st.position + st.buy_reserved_quantity <= maximum_position_quantity,
           st.position - st.sell_reserved_quantity >= -maximum_position_quantity,
           NEW exceeded \in PositionLimitExceeded(st, r), ~exceeded
    PROVE  LET buying  == IF r.side = "buy"  THEN r.quantity ELSE 0
               selling == IF r.side = "sell" THEN r.quantity ELSE 0
           IN  /\ st.position + st.buy_reserved_quantity + buying
                    <= maximum_position_quantity
               /\ st.position - st.sell_reserved_quantity - selling
                    >= -maximum_position_quantity
<1> DEFINE buying  == IF r.side = "buy"  THEN r.quantity ELSE 0
           selling == IF r.side = "sell" THEN r.quantity ELSE 0
           P == st.position
           B == st.buy_reserved_quantity
           S == st.sell_reserved_quantity
           L == maximum_position_quantity
           x == P + B + buying
           y == P - S - selling
           buys  == SignedOutcomes(P + Signed(B) + buying)
           sells == SignedOutcomes(P - Signed(S) - selling)
<1>1. /\ r.quantity \in Nat /\ r.quantity <= maximum_order_quantity
      /\ r.quantity <= IntMax
    BY AdmittedQuantity, LimitFacts DEF LimitsFit
<1>2. /\ buying \in Nat /\ buying <= maximum_order_quantity
      /\ selling \in Nat /\ selling <= maximum_order_quantity
    BY <1>1, LimitFacts
<1>3. Signed(B) = B /\ Signed(S) = S
  <2>1. B \in (-IntMax - 1) .. IntMax /\ S \in (-IntMax - 1) .. IntMax
      BY Widths
  <2> QED
      BY <2>1, SignedFacts
<1>4. configured_position_limit = L
    BY LimitFacts DEF configured_position_limit, LimitsFit
<1>5. ~(r.quantity > IntMax)
    BY <1>1, LimitFacts
<1> DEFINE tests == {buy > configured_position_limit
                       \/ sell < -configured_position_limit :
                        buy \in buys, sell \in sells}
<1>6. exceeded \in tests
  <2>1. PositionLimitExceeded(st, r) = IF r.quantity > IntMax THEN {TRUE} ELSE tests
      BY SMT DEF PositionLimitExceeded
  <2> HIDE DEF tests
  <2> QED
      BY <1>5, <2>1
<1> HIDE DEF buys, sells
<1>7. PICK buy \in buys : \E sell \in sells :
          exceeded = (buy > configured_position_limit
                        \/ sell < -configured_position_limit)
    BY <1>6, SMT
<1>8. PICK sell \in sells :
          exceeded = (buy > configured_position_limit
                        \/ sell < -configured_position_limit)
    BY <1>7
<1> HIDE DEF P, B, S, buying, selling, L
<1>9. /\ P \in Int /\ B \in 0 .. IntMax /\ S \in 0 .. IntMax
      /\ P + B <= L /\ P - S >= -L /\ L \in Nat
      /\ L + maximum_order_quantity <= IntMax
    BY LimitFacts DEF P, B, S, L, LimitsFit
<1>10. x \in (-IntMax - 1) .. IntMax /\ y \in (-IntMax - 1) .. IntMax
    BY <1>2, <1>9, LimitFacts
<1>11. buy = x /\ sell = y
  <2>1. buys = {x} /\ sells = {y}
      BY <1>3, <1>10 DEF SignedOutcomes, buys, sells
  <2> QED
      BY <2>1
<1>12. ~(x > L) /\ ~(y < -L)
    BY <1>4, <1>8, <1>11
<1>13. x <= L /\ y >= -L
    BY <1>9, <1>10, <1>12, LimitFacts
<1> QED
    BY <1>13 DEF P, B, S, buying, selling, L

\* Reserving for an order that passed the test keeps the position limit.
LEMMA RaisedKeepsPositions ==
    ASSUME LimitsFit, EngineInv, PositionsFit(risk),
           NEW i \in Instruments, NEW r \in Requests,
           RiskRejection(r) = "none", WithinLimits(risk, i, r),
           NEW rs2, Raised(rs2, risk, i, r)
    PROVE  /\ PositionsFit(rs2)
           /\ \A a \in AccountIds, j \in Instruments :
                rs2.account_states[<<a, j>>].position =
                    risk.account_states[<<a, j>>].position
<1> DEFINE key == <<i, r.order_id>>
<1>1. AfterMove(rs2, risk, key, r.account_id, r.side, r.quantity, margin_for(r))
    BY DEF Raised
<1>2. r.quantity \in Nat /\ r.side \in Sides /\ key[1] = i
    BY AdmittedQuantity DEF Requests
<1> HIDE DEF key
<1>3. ASSUME NEW a \in AccountIds, NEW j \in Instruments
      PROVE  LET st  == risk.account_states[<<a, j>>]
                 st2 == rs2.account_states[<<a, j>>]
             IN  /\ st2.position = st.position
                 /\ st2.position + st2.buy_reserved_quantity
                      <= maximum_position_quantity
                 /\ st2.position - st2.sell_reserved_quantity
                      >= -maximum_position_quantity
  <2> DEFINE st  == risk.account_states[<<a, j>>]
             st2 == rs2.account_states[<<a, j>>]
             here == a = r.account_id /\ j = i
  <2>1. /\ st.position \in Int
        /\ st.buy_reserved_quantity \in 0 .. IntMax
        /\ st.sell_reserved_quantity \in 0 .. IntMax
      BY ReservedFit
  <2>2. /\ st.position + st.buy_reserved_quantity <= maximum_position_quantity
        /\ st.position - st.sell_reserved_quantity >= -maximum_position_quantity
      BY DEF PositionsFit
  <2>3. /\ st2.position = st.position
        /\ st2.buy_reserved_quantity = st.buy_reserved_quantity
             + (IF here /\ r.side = "buy" THEN r.quantity ELSE 0)
        /\ st2.sell_reserved_quantity = st.sell_reserved_quantity
             + (IF here /\ r.side = "sell" THEN r.quantity ELSE 0)
      BY <1>1, <1>2 DEF AfterMove
  <2>4. here => \E exceeded \in PositionLimitExceeded(st, r) : ~exceeded
      BY DEF WithinLimits
  <2> HIDE DEF st, st2, here
  <2>5. here =>
          /\ st.position + st.buy_reserved_quantity
               + (IF r.side = "buy" THEN r.quantity ELSE 0) <= maximum_position_quantity
          /\ st.position - st.sell_reserved_quantity
               - (IF r.side = "sell" THEN r.quantity ELSE 0)
               >= -maximum_position_quantity
      BY <2>1, <2>2, <2>4, PositionTestIsExact
  <2>6. /\ st2.position + st2.buy_reserved_quantity <= maximum_position_quantity
        /\ st2.position - st2.sell_reserved_quantity >= -maximum_position_quantity
    <3>1. CASE here /\ r.side = "buy"
        BY <1>2, <2>1, <2>2, <2>3, <2>5, <3>1, LimitFacts
    <3>2. CASE here /\ r.side = "sell"
        BY <1>2, <2>1, <2>2, <2>3, <2>5, <3>2, LimitFacts
    <3>3. CASE ~here
        BY <1>2, <2>1, <2>2, <2>3, <3>3, LimitFacts
    <3> QED
        BY <1>2, <3>1, <3>2, <3>3 DEF Sides
  <2> QED
      BY <2>3, <2>6 DEF st, st2
<1> QED
    BY <1>3 DEF PositionsFit

\* Giving a reservation back without a trade moves no position.
LEMMA LoweredKeepsPositions ==
    ASSUME EngineInv, PositionsFit(risk), NEW rs2, SoundRisk(rs2), NEW key, NEW n,
           n \in Nat, Lowered(rs2, risk, key, n)
    PROVE  /\ PositionsFit(rs2)
           /\ \A a \in AccountIds, j \in Instruments :
                rs2.account_states[<<a, j>>].position =
                    risk.account_states[<<a, j>>].position
<1>1. ASSUME NEW a \in AccountIds, NEW j \in Instruments
      PROVE  LET st  == risk.account_states[<<a, j>>]
                 st2 == rs2.account_states[<<a, j>>]
             IN  /\ st2.position = st.position
                 /\ st2.position + st2.buy_reserved_quantity
                      <= maximum_position_quantity
                 /\ st2.position - st2.sell_reserved_quantity
                      >= -maximum_position_quantity
  <2> DEFINE st  == risk.account_states[<<a, j>>]
             st2 == rs2.account_states[<<a, j>>]
             own(s) == /\ a = risk.reservations[key].account_id /\ j = key[1]
                       /\ s = risk.reservations[key].side
  <2>1. /\ st2.position = st.position
        /\ st2.buy_reserved_quantity =
             st.buy_reserved_quantity - (IF own("buy") THEN n ELSE 0)
        /\ st2.sell_reserved_quantity =
             st.sell_reserved_quantity - (IF own("sell") THEN n ELSE 0)
      BY DEF Lowered
  <2>2. /\ st.position + st.buy_reserved_quantity <= maximum_position_quantity
        /\ st.position - st.sell_reserved_quantity >= -maximum_position_quantity
      BY DEF PositionsFit
  <2>3. st \in AccountStates
      BY InvFacts, StateTyped
  <2> HIDE DEF st, st2, own
  <2>4. /\ st.position \in Int /\ st.buy_reserved_quantity \in Nat
        /\ st.sell_reserved_quantity \in Nat
      BY <2>3, StateFacts, Widths
  <2>5. /\ st2.position + st2.buy_reserved_quantity <= maximum_position_quantity
        /\ st2.position - st2.sell_reserved_quantity >= -maximum_position_quantity
    <3>1. st2.buy_reserved_quantity \in Int
          /\ st2.buy_reserved_quantity <= st.buy_reserved_quantity
        BY <2>1, <2>4
    <3>2. st2.sell_reserved_quantity \in Int
          /\ st2.sell_reserved_quantity <= st.sell_reserved_quantity
        BY <2>1, <2>4
    <3> QED
        BY <2>1, <2>2, <2>4, <3>1, <3>2, LimitFacts
  <2> QED
      BY <2>1, <2>5 DEF st, st2
<1> QED
    BY <1>1 DEF PositionsFit

\* Settling one side of a trade leaves the reservations of the other orders.
LEMMA HalfLeavesOthers ==
    ASSUME NEW rs, NEW rs3, NEW key, NEW account, NEW side, NEW n,
           HalfSettled(rs3, rs, key, account, side, n),
           NEW k \in DOMAIN rs.reservations, k # key
    PROVE  /\ k \in DOMAIN rs3.reservations
           /\ rs3.reservations[k] = rs.reservations[k]
<1>1. PICK rs2 : /\ Lowered(rs2, rs, key, n)
                 /\ Repositioned(rs3, rs2, account, key[1], Direction(side) * Signed(n))
    BY DEF HalfSettled
<1>2. rs3.reservations = rs2.reservations
    BY <1>1 DEF Repositioned
<1>3. OneChange(rs2.reservations, rs.reservations, key)
    BY <1>1 DEF Lowered
<1> QED
    BY <1>2, <1>3 DEF OneChange

\* What is taken from a reservation of an engine within its limits fits the
\* signed width.
LEMMA HalfFits ==
    ASSUME LimitsFit, EngineInv, NEW key \in DOMAIN risk.reservations, NEW n \in Nat,
           NEW rs3, NEW account, NEW side, HalfSettled(rs3, risk, key, account, side, n)
    PROVE  n <= IntMax
<1> DEFINE a   == risk.reservations[key].account_id
           i   == key[1]
           s   == risk.reservations[key].side
<1>1. PICK rs2 : SoundRisk(rs2) /\ Lowered(rs2, risk, key, n)
    BY DEF HalfSettled
<1>2. a \in AccountIds /\ i \in Instruments /\ s \in Sides
    BY InvFacts, RiskFacts
<1> DEFINE st  == risk.account_states[<<a, i>>]
           st2 == rs2.account_states[<<a, i>>]
<1>3. /\ st.buy_reserved_quantity \in 0 .. IntMax
      /\ st.sell_reserved_quantity \in 0 .. IntMax
    BY <1>2, ReservedFit
<1>4. st2 \in AccountStates
    BY <1>1, <1>2, StateTyped
<1>5. /\ st2.buy_reserved_quantity =
           st.buy_reserved_quantity - (IF s = "buy" THEN n ELSE 0)
      /\ st2.sell_reserved_quantity =
           st.sell_reserved_quantity - (IF s = "sell" THEN n ELSE 0)
  <2>1. LET own(t) == a = risk.reservations[key].account_id /\ i = key[1]
                        /\ t = risk.reservations[key].side
        IN  /\ st2.buy_reserved_quantity =
                 st.buy_reserved_quantity - (IF own("buy") THEN n ELSE 0)
            /\ st2.sell_reserved_quantity =
                 st.sell_reserved_quantity - (IF own("sell") THEN n ELSE 0)
      BY <1>1, <1>2 DEF Lowered
  <2> QED
      BY <2>1
<1> HIDE DEF st, st2, s
<1>6. st2.buy_reserved_quantity \in Nat /\ st2.sell_reserved_quantity \in Nat
    BY <1>4, StateFacts, Widths
<1>7. CASE s = "buy"
    BY <1>3, <1>5, <1>6, <1>7, Widths
<1>8. CASE s = "sell"
    BY <1>3, <1>5, <1>6, <1>8, Widths
<1> QED
    BY <1>2, <1>7, <1>8 DEF Sides

\* Applying a trade keeps the position limit and moves the positions of its two
\* sides by the quantity traded, in opposite directions.
LEMMA TradeKeepsPositions ==
    ASSUME LimitsFit, EngineInv, PositionsFit(risk), NEW rs2, SoundRisk(rs2),
           phase = "applying", applied < Len(events),
           events[applied + 1].kind = "trade",
           Settled(rs2, risk, Here, Req, <<Here, events[applied + 1].resting_order_id>>,
                   events[applied + 1].quantity)
    PROVE  /\ PositionsFit(rs2)
           /\ \E mid, other, d :
                /\ SoundRisk(mid) /\ other \in AccountIds /\ d \in Int
                /\ PositionBy(mid, risk, Req.account_id, Here, d)
                /\ PositionBy(rs2, mid, other, Here, -d)
<1> DEFINE t     == events[applied + 1]
           q     == t.quantity
           maker == <<Here, t.resting_order_id>>
           taker == <<Here, Req.order_id>>
           res   == risk.reservations[maker]
           d     == Direction(Req.side) * q
<1>1. ~Visible
    BY DEF Visible
<1>2. /\ Subject = taker /\ Here \in Instruments
      /\ Req.account_id \in AccountIds /\ Req.side \in Sides
    BY <1>1, RunningCall
<1>3. /\ call.reservation_created /\ t \in TradeEvents /\ q \in Nat
      /\ t.resting_order_id # Req.order_id
      /\ q <= Held(risk, Subject) /\ q <= Held(risk, maker)
    BY TradeIsCovered
<1>4. q # 0 /\ taker # maker /\ taker[1] = Here /\ maker[1] = Here
    BY <1>3 DEF TradeEvents, Quantities
<1>5. taker \in DOMAIN risk.reservations /\ maker \in DOMAIN risk.reservations
  <2>1. \A key : /\ Held(risk, key) \in Nat
                 /\ key \in DOMAIN risk.reservations <=> Held(risk, key) # 0
      BY InvFacts
  <2> QED
      BY <1>2, <1>3, <1>4, <2>1
<1>6. /\ risk.reservations[taker].account_id = Req.account_id
      /\ risk.reservations[taker].side = Req.side
    BY <1>1, <1>2, <1>3, <1>5 DEF EngineInv, OwnReservation
<1>7. res.side = Opposite(Req.side) /\ res.account_id \in AccountIds
  <2>1. applied + 1 \in applied + 1 .. Len(events)
      BY InvFacts
  <2>2. res.side = Opposite(Req.side)
      BY <1>1, <1>5, <2>1 DEF EngineInv, MakersOpposite
  <2> QED
      BY <1>5, <2>2, InvFacts, RiskFacts
<1> HIDE DEF q, maker, taker, t
<1>8. PICK mid : /\ SoundRisk(mid)
                 /\ HalfSettled(mid, risk, taker, Req.account_id, Req.side, q)
                 /\ HalfSettled(rs2, mid, maker, res.account_id, res.side, q)
    BY DEF Settled, taker, maker, q, t
<1>9. q <= IntMax
    BY <1>3, <1>5, <1>8, HalfFits
<1>10. PositionsFit(mid) /\ PositionBy(mid, risk, Req.account_id, taker[1], d)
    BY <1>3, <1>5, <1>6, <1>8, <1>9, InvFacts, HalfKeepsPositions
<1>11. maker \in DOMAIN mid.reservations /\ mid.reservations[maker] = res
    BY <1>4, <1>5, <1>8, HalfLeavesOthers
<1> DEFINE e == Direction(res.side) * q
<1>12. PositionsFit(rs2) /\ PositionBy(rs2, mid, res.account_id, maker[1], e)
    BY <1>3, <1>8, <1>9, <1>10, <1>11, HalfKeepsPositions
<1>13. e = -d /\ d \in Int
  <2>1. CASE Req.side = "buy"
      BY <1>3, <1>7, <2>1 DEF Direction, Opposite
  <2>2. CASE Req.side = "sell"
      BY <1>3, <1>7, <2>2 DEF Direction, Opposite
  <2> QED
      BY <1>2, <2>1, <2>2 DEF Sides
<1> HIDE DEF d, e
<1> QED
    BY <1>4, <1>7, <1>8, <1>10, <1>12, <1>13

\* The positions of one instrument add up.
Positions(rs, i) == [a \in AccountIds |-> rs.account_states[<<a, i>>].position]

\* The sum of the positions of an instrument.
Net(rs, i) == SumFunctionOnSet(Positions(rs, i), AccountIds)

\* The net position of an instrument follows the move of one account.
LEMMA NetFollows ==
    ASSUME IsFiniteSet(AccountIds), NEW rs, SoundRisk(rs), NEW rs2,
           NEW account \in AccountIds, NEW i, NEW d \in Int,
           PositionBy(rs2, rs, account, i, d), NEW j \in Instruments
    PROVE  /\ Net(rs, j) \in Int
           /\ Net(rs2, j) = Net(rs, j) + (IF j = i THEN d ELSE 0)
<1> DEFINE f == Positions(rs, j)
           g == Positions(rs2, j)
<1>1. \A a \in AccountIds : f[a] \in Int
  <2> SUFFICES ASSUME NEW a \in AccountIds PROVE f[a] \in Int
      OBVIOUS
  <2>1. rs.account_states[<<a, j>>] \in AccountStates
      BY StateTyped
  <2>2. rs.account_states[<<a, j>>].position \in Int
      BY <2>1, StateFacts, Widths
  <2> QED
      BY <2>2 DEF Positions
<1>2. \A a \in AccountIds : g[a] = f[a] + (IF a = account /\ j = i THEN d ELSE 0)
    BY DEF PositionBy, Positions
<1> HIDE DEF f, g
<1>3. SumFunctionOnSet(f, AccountIds) \in Int
    BY <1>1, SumType
<1>4. CASE j = i
  <2>1. /\ g[account] = f[account] + d /\ g[account] \in Int /\ f[account] \in Int
        /\ \A a \in AccountIds \ {account} : g[a] = f[a]
      BY <1>1, <1>2, <1>4
  <2>2. SumFunctionOnSet(g, AccountIds) =
          SumFunctionOnSet(f, AccountIds) - f[account] + g[account]
      BY <1>1, <2>1, SumChange
  <2>3. SumFunctionOnSet(g, AccountIds) = SumFunctionOnSet(f, AccountIds) + d
      BY <1>3, <2>1, <2>2
  <2> QED
      BY <1>3, <1>4, <2>3 DEF Net, f, g
<1>5. CASE j # i
  <2>1. \A a \in AccountIds : g[a] = f[a]
      BY <1>1, <1>2, <1>5
  <2>2. SumFunctionOnSet(g, AccountIds) = SumFunctionOnSet(f, AccountIds)
      BY <2>1, SumAgree
  <2>3. SumFunctionOnSet(g, AccountIds) = SumFunctionOnSet(f, AccountIds) + 0
      BY <1>3, <2>2
  <2> QED
      BY <1>3, <1>5, <2>3 DEF Net, f, g
<1> QED
    BY <1>4, <1>5

\* What a step of the engine does to positions: none moves, or a trade moves the
\* two of its sides in opposite directions.
PositionStep ==
    \/ \A a \in AccountIds, i \in Instruments :
          risk'.account_states[<<a, i>>].position = risk.account_states[<<a, i>>].position
    \/ \E mid, i : \E account, other \in AccountIds, d \in Int :
          /\ SoundRisk(mid)
          /\ PositionBy(mid, risk, account, i, d)
          /\ PositionBy(risk', mid, other, i, -d)

\* Every step keeps the position limit and moves positions in that way.
LEMMA PositionSteps ==
    ASSUME LimitsFit, EngineInv, PositionLimitHolds, [Next]_vars
    PROVE  PositionLimitHolds' /\ PositionStep
<1>1. RiskStep
    BY RiskSteps
<1>2. PositionsFit(risk)
    BY DEF PositionLimitHolds, PositionsFit
<1>3. SoundRisk(risk') 
  <2>1. EngineInv'
      BY NextEngineInv
  <2> QED
      BY <2>1 DEF EngineInv, RiskIsSound
<1>4. PositionsFit(risk') /\ PositionStep
  <2>1. CASE risk' = risk
      BY <1>2, <2>1 DEF PositionStep
  <2>2. CASE \E i \in Instruments, r \in Requests :
                /\ RiskRejection(r) = "none" /\ r.quantity > 0
                /\ WithinLimits(risk, i, r) /\ Raised(risk', risk, i, r)
      BY <1>2, <2>2, RaisedKeepsPositions DEF PositionStep
  <2>3. CASE Lowered(risk', risk, Subject, Held(risk, Subject))
    <3>1. Held(risk, Subject) \in Nat
        BY InvFacts
    <3> QED
        BY <1>2, <1>3, <2>3, <3>1, LoweredKeepsPositions DEF PositionStep
  <2>4. CASE /\ phase = "applying" /\ applied < Len(events)
             /\ events[applied + 1].kind = "trade"
             /\ Settled(risk', risk, Here, Req,
                        <<Here, events[applied + 1].resting_order_id>>,
                        events[applied + 1].quantity)
    <3>1. ~Visible
        BY <2>4 DEF Visible
    <3>2. Req.account_id \in AccountIds
        BY <3>1, RunningCall
    <3>3. /\ PositionsFit(risk')
          /\ \E mid, other, d :
               /\ SoundRisk(mid) /\ other \in AccountIds /\ d \in Int
               /\ PositionBy(mid, risk, Req.account_id, Here, d)
               /\ PositionBy(risk', mid, other, Here, -d)
        BY <1>2, <1>3, <2>4, TradeKeepsPositions
    <3>4. PositionStep
        BY <3>2, <3>3 DEF PositionStep
    <3> QED
        BY <3>3, <3>4
  <2> QED
      BY <1>1, <2>1, <2>2, <2>3, <2>4 DEF RiskStep
<1> QED
    BY <1>4 DEF PositionLimitHolds, PositionsFit

\* At the start no account has a position or an open order.
LEMMA InitPositions ==
    ASSUME Init
    PROVE  /\ PositionLimitHolds
           /\ IsFiniteSet(AccountIds) => PositionsSumToZero
<1>1. risk = NewRisk
    BY DEF Init
<1>2. PositionLimitHolds
  <2>1. 0 + 0 <= maximum_position_quantity /\ 0 - 0 >= -maximum_position_quantity
      BY LimitFacts
  <2> QED
      BY <1>1, <2>1, NewRiskIsSound DEF PositionLimitHolds
<1>3. ASSUME IsFiniteSet(AccountIds), NEW i \in Instruments
      PROVE  SumFunction(Positions(risk, i)) = 0
  <2> DEFINE f == Positions(risk, i)
  <2>1. DOMAIN f = AccountIds /\ \A a \in AccountIds : f[a] = 0
      BY <1>1, NewRiskIsSound DEF Positions
  <2> HIDE DEF f
  <2>2. SumFunctionOnSet(f, AccountIds) = 0
      BY <1>3, <2>1, SumZero
  <2> QED
      BY <2>1, <2>2 DEF SumFunction, f
<1> QED
    BY <1>2, <1>3 DEF PositionsSumToZero, Positions

\* In a configuration whose limits fit the width, EngineInv and the position
\* limit are inductive together.
LEMMA NextPositions ==
    ASSUME LimitsFit
    PROVE  /\ EngineInv /\ PositionLimitHolds /\ [Next]_vars => PositionLimitHolds'
           /\ IsFiniteSet(AccountIds) =>
                (EngineInv /\ PositionLimitHolds /\ PositionsSumToZero /\ [Next]_vars
                   => PositionsSumToZero')
<1>1. EngineInv /\ PositionLimitHolds /\ [Next]_vars => PositionLimitHolds' /\ PositionStep
    BY PositionSteps
<1>2. ASSUME IsFiniteSet(AccountIds), EngineInv, PositionsSumToZero, PositionStep
      PROVE  PositionsSumToZero'
  <2>1. \A i : /\ SumFunction(Positions(risk, i)) = Net(risk, i)
               /\ SumFunction(Positions(risk', i)) = Net(risk', i)
      BY DEF SumFunction, Net, Positions
  <2>2. \A i \in Instruments : Net(risk, i) = 0
      BY <1>2, <2>1 DEF PositionsSumToZero, Positions
  <2>3. SUFFICES ASSUME NEW i \in Instruments PROVE Net(risk', i) = 0
      BY <2>1 DEF PositionsSumToZero, Positions
  <2>4. SoundRisk(risk)
      BY <1>2, InvFacts
  <2>5. CASE \A a \in AccountIds, j \in Instruments :
               risk'.account_states[<<a, j>>].position =
                   risk.account_states[<<a, j>>].position
    <3>1. \A a \in AccountIds : Positions(risk', i)[a] = Positions(risk, i)[a]
        BY <2>5 DEF Positions
    <3> QED
        BY <1>2, <2>2, <3>1, SumAgree DEF Net
  <2>6. ASSUME NEW mid, NEW h, NEW account \in AccountIds, NEW other \in AccountIds,
               NEW d \in Int, SoundRisk(mid), PositionBy(mid, risk, account, h, d),
               PositionBy(risk', mid, other, h, -d)
        PROVE  Net(risk', i) = 0
    <3>1. Net(mid, i) = Net(risk, i) + (IF i = h THEN d ELSE 0)
        BY <1>2, <2>4, <2>6, NetFollows
    <3>2. -d \in Int
        OBVIOUS
    <3>3. Net(risk', i) = Net(mid, i) + (IF i = h THEN -d ELSE 0)
      <4> DEFINE e == -d
      <4>1. e \in Int /\ PositionBy(risk', mid, other, h, e)
          BY <2>6, <3>2
      <4> HIDE DEF e
      <4>2. Net(risk', i) = Net(mid, i) + (IF i = h THEN e ELSE 0)
          BY <1>2, <2>6, <4>1, NetFollows
      <4> QED
          BY <4>2 DEF e
    <3> QED
        BY <2>2, <3>1, <3>3
  <2> QED
      BY <1>2, <2>5, <2>6 DEF PositionStep
<1> QED
    BY <1>1, <1>2

\* PositionLimitHolds, for every configuration whose limits fit the width: an
\* account whose open buy, or sell, orders were all filled would be within
\* maximum_position_quantity, whatever was accepted, traded, canceled or given
\* back since evaluate looked.
THEOREM PositionsStayWithinLimits ==
    ASSUME LimitsFit
    PROVE  Spec => []PositionLimitHolds
<1>1. Init => PositionLimitHolds
    BY InitPositions
<1>2. EngineInv /\ PositionLimitHolds /\ [Next]_vars => PositionLimitHolds'
    BY NextPositions
<1> QED
    BY <1>1, <1>2, EngineInvHolds, PTL DEF Spec

\* PositionsSumToZero, for the same configurations and any finite set of
\* accounts: every unit one account buys another sells, so the positions of an
\* instrument cancel out between any two steps of apply's loop.
THEOREM PositionsCancelOut ==
    ASSUME LimitsFit, IsFiniteSet(AccountIds)
    PROVE  Spec => []PositionsSumToZero
<1>1. Init => PositionsSumToZero
    BY InitPositions
<1>2. /\ EngineInv /\ PositionLimitHolds /\ PositionsSumToZero /\ [Next]_vars
      => PositionsSumToZero'
    BY NextPositions
<1> QED
    BY <1>1, <1>2, EngineInvHolds, PositionsStayWithinLimits, PTL DEF Spec

----------------------------------------------------------------------------
(* Progress.  That a call returns needs fairness; that no step of it is     *)
(* wasted does not.                                                         *)

\* How many phases of the running call are to come, and what is left to do in
\* the one it is in: units to match, events to apply.
PhasesLeft ==
    CASE phase = "matching"   -> 3
      [] phase = "applying"   -> 2
      [] phase = "publishing" -> 1
      [] OTHER                -> 0

WorkLeft ==
    CASE phase = "matching" -> remaining
      [] phase = "applying" -> Len(events) - applied
      [] OTHER              -> 0

\* A step of a running call gets to a later phase or does some of the work of
\* this one, and what is left to do is never negative.
CallAdvances ==
    phase # "idle" =>
        /\ WorkLeft \in Nat
        /\ \/ PhasesLeft' < PhasesLeft
           \/ PhasesLeft' = PhasesLeft /\ WorkLeft' < WorkLeft

\* place_order and cancel_order have a variant: the pair of the phases left and
\* the work left falls lexicographically with every step of a call, so matching,
\* apply and publish all come to their end, whatever the book and the batch hold.
THEOREM CallVariant == Spec => [][CallAdvances]_vars
<1>1. EngineInv /\ Next => CallAdvances
  <2> SUFFICES ASSUME EngineInv, Next, phase # "idle" PROVE CallAdvances
      BY DEF CallAdvances
  <2>1. /\ remaining \in Nat /\ Len(events) \in Nat
        /\ applied \in 0 .. Len(events) /\ phase \in Phases
      BY InvFacts DEF EngineInv, TypeOK
  <2>2. WorkLeft \in Nat
      BY <2>1 DEF WorkLeft
  <2>3. ASSUME NEW p \in Prices, MatchAt(p) PROVE CallAdvances
    <3> DEFINE b == order_books[Here]
               q == TradeOf(b, Req, remaining, p).quantity
    <3>1. /\ phase = "matching" /\ phase' = "matching"
          /\ Matchable(b, Req, remaining, p)
          /\ remaining' = remaining - q
        BY <2>3 DEF MatchAt, Here, Req
    <3>2. GoodBook(b) /\ Req \in Orders
      <4>1. ~Visible
          BY <3>1 DEF Visible
      <4>2. IsPlacing
          BY <3>1 DEF EngineInv, CallShape
      <4> QED
          BY <4>1, <4>2, RunningCall DEF IsPlacing
    <3>3. q \in 1 .. remaining
      <4>1. remaining \in 0 .. MaxQuantity
          BY InvFacts
      <4> QED
          BY <3>1, <3>2, <4>1, ExecuteEffect
    <3> HIDE DEF q
    <3>4. remaining' < remaining
        BY <2>1, <3>1, <3>3
    <3> QED
        BY <2>2, <3>1, <3>4 DEF CallAdvances, PhasesLeft, WorkLeft
  <2>4. ASSUME FinishMatching PROVE CallAdvances
      BY <2>2, <2>4 DEF FinishMatching, CallAdvances, PhasesLeft
  <2>5. ASSUME ApplyNext PROVE CallAdvances
    <3>1. /\ phase = "applying" /\ phase' = "applying"
          /\ events' = events /\ applied' = applied + 1
        BY <2>5 DEF ApplyNext
    <3>2. Len(events') - applied' < Len(events) - applied
        BY <2>1, <3>1
    <3> QED
        BY <2>2, <3>1, <3>2 DEF CallAdvances, PhasesLeft, WorkLeft
  <2>6. ASSUME FinishApply PROVE CallAdvances
      BY <2>2, <2>6 DEF FinishApply, CallAdvances, PhasesLeft
  <2>7. ASSUME Publish PROVE CallAdvances
      BY <2>2, <2>7 DEF Publish, CallAdvances, PhasesLeft
  <2> QED
      BY <2>3, <2>4, <2>5, <2>6, <2>7
      DEF Next, CallSteps, register_instrument, PlaceRefused, PlaceRejectedByBook,
          PlaceAccepted, Admitted, CancelUnknownInstrument, Cancel
<1>2. EngineInv /\ [Next]_vars => [CallAdvances]_vars
    BY <1>1
<1> HIDE DEF CallAdvances
<1> QED
    BY <1>2, EngineInvHolds, PTL DEF Spec

----------------------------------------------------------------------------
(* Price-time priority of every book of the engine                          *)

\* The book of every instrument is sound, registered or not.
LEMMA BookOfIsSound ==
    ASSUME EngineInv, NEW i PROVE IsSound(BookOf(i))
<1>1. i \in DOMAIN order_books => GoodBook(order_books[i])
    BY InvFacts
<1> QED
    BY <1>1, EmptyBookIsGood DEF BookOf, GoodBook, IsSound

\* Candidates and AheadOf, read off the book of i.
LEMMA QueueOfInstrument ==
    ASSUME NEW i
    PROVE  /\ \A o : PriceTime(i)!Candidates(o) = InReach(BookOf(i), o)
           /\ \A o, j, k : PriceTime(i)!AheadOf(o, j, k)
                             <=> ServedBefore(BookOf(i), o, j, k)
<1>1. \A o : PriceTime(i)!Candidates(o) = InReach(BookOf(i), o)
    BY DEF PriceTime!Candidates, PriceTime!Tradable, InReach
<1>2. \A o, j, k : PriceTime(i)!AheadOf(o, j, k)
                     <=> ServedBefore(BookOf(i), o, j, k)
    BY DEF PriceTime!AheadOf, ServedBefore
<1> QED
    BY <1>1, <1>2

\* NoCall is not an order.
LEMMA OrdersAreCalls == \A o \in Orders : o # NoCall
<1>1. \A o \in Orders : o \in Requests
    BY BookAssumption DEF Orders, Requests, Quantities
<1> QED
    BY <1>1, EngineAssumption

\* A step leaves the book of i, and the order being matched against it, alone.
Untouched(i) ==
    /\ BookOf(i)' = BookOf(i)
    /\ TakerOf(i)' = TakerOf(i)
    /\ LeftOf(i)' = LeftOf(i)

\* Such a step is a stutter of the book of i.
LEMMA UntouchedStutters ==
    ASSUME NEW i, Untouched(i) PROVE UNCHANGED PriceTime(i)!vars
    BY DEF Untouched, PriceTime!vars

\* A step of no call in its matching phase that changes no book touches none.
LEMMA OutsideMatching ==
    ASSUME NEW i, phase # "matching", phase' # "matching",
           BookOf(i)' = BookOf(i)
    PROVE  Untouched(i)
    BY DEF Untouched, TakerOf, LeftOf, MatchingIn

\* register_instrument puts an empty book where there was none.
LEMMA RegisterUntouched ==
    ASSUME NEW i \in Instruments, NEW j \in Instruments, register_instrument(j)
    PROVE  Untouched(i)
<1>1. BookOf(i)' = BookOf(i)
    BY DEF register_instrument, BookOf
<1> QED
    BY <1>1, OutsideMatching DEF register_instrument

\* place_order hands the order to the book of its instrument.
LEMMA EngineSubmits ==
    ASSUME EngineInv, NEW i \in Instruments, NEW j \in Instruments,
           NEW r \in Requests, PlaceAccepted(j, r)
    PROVE  (i = j /\ PriceTime(i)!Submit) \/ Untouched(i)
<1>1. /\ phase = "idle" /\ phase' = "matching" /\ order_books' = order_books
      /\ call'.instrument_id = j /\ call'.request = r /\ remaining' = r.quantity
      /\ PlaceRejection(order_books[j], r) = "none"
    BY DEF PlaceAccepted, Admitted
<1>2. r \in Orders /\ j \in DOMAIN order_books
    BY AdmittedMeans DEF PlaceAccepted
<1>3. BookOf(i)' = BookOf(i) /\ TakerOf(i) = NoCall /\ LeftOf(i) = 0
    BY <1>1 DEF BookOf, TakerOf, LeftOf, MatchingIn
<1>4. CASE i # j
    BY <1>1, <1>3, <1>4 DEF Untouched, TakerOf, LeftOf, MatchingIn
<1>5. CASE i = j
  <2>1. TakerOf(i)' = r /\ LeftOf(i)' = r.quantity
      BY <1>1, <1>5 DEF TakerOf, LeftOf, MatchingIn
  <2>2. IsSound(BookOf(i)) /\ PlaceRejection(BookOf(i), r) = "none"
      BY <1>1, <1>2, <1>5, BookOfIsSound DEF BookOf
  <2>3. /\ r.order_id \notin DOMAIN RestingMap(BookOf(i))
        /\ r.order_type = "post_only" => PriceTime(i)!Candidates(r) = {}
      BY <1>2, <2>2, AcceptedEnters, QueueOfInstrument
  <2>4. /\ RestingMap(BookOf(i))' = RestingMap(BookOf(i))
        /\ ArrivalOrder(BookOf(i))' = ArrivalOrder(BookOf(i))
      BY <1>3
  <2> QED
      BY <1>2, <1>3, <1>5, <2>1, <2>3, <2>4 DEF PriceTime!Submit
<1> QED
    BY <1>4, <1>5

\* What a matching step of the running call finds.
LEMMA MatchingCall ==
    ASSUME EngineInv, phase = "matching"
    PROVE  /\ Here \in DOMAIN order_books /\ BookOf(Here) = order_books[Here]
           /\ Req \in Orders /\ Req # NoCall /\ remaining \in 0 .. MaxQuantity
           /\ Req.order_id \notin DOMAIN order_books[Here].order_locations
           /\ TakerOf(Here) = Req /\ LeftOf(Here) = remaining
           /\ \A i : i # Here => TakerOf(i) = NoCall /\ LeftOf(i) = 0
<1>1. ~Visible
    BY DEF Visible
<1>2. /\ Here \in DOMAIN order_books /\ IsPlacing /\ ~Rests(order_books, Subject)
    BY <1>1 DEF EngineInv, CallShape
<1>3. Req \in Orders /\ Req # NoCall
    BY <1>2, OrdersAreCalls DEF IsPlacing
<1>4. Req.order_id \notin DOMAIN order_books[Here].order_locations
    BY <1>2 DEF Rests, Subject, Here, Req
<1>5. remaining \in 0 .. MaxQuantity
    BY InvFacts
<1> QED
    BY <1>2, <1>3, <1>4, <1>5 DEF BookOf, TakerOf, LeftOf, MatchingIn, Here, Req

\* An iteration of the matching loop trades with the first order of the queue
\* in the book of the call, and touches no other.
LEMMA EngineTrades ==
    ASSUME EngineInv, EngineInv', NEW i \in Instruments, NEW p \in Prices, MatchAt(p)
    PROVE  \/ \E k \in DOMAIN RestingMap(BookOf(i)) : PriceTime(i)!Trade(k)
           \/ Untouched(i)
<1> DEFINE b == order_books[Here]
           q == TradeOf(b, Req, remaining, p).quantity
<1>1. /\ phase = "matching" /\ phase' = "matching" /\ call' = call
      /\ Matchable(b, Req, remaining, p)
      /\ order_books' = [order_books EXCEPT ![Here] = Execute(b, Req, remaining, p)]
      /\ remaining' = remaining - q
    BY DEF MatchAt, Here, Req
<1>2. /\ Here \in DOMAIN order_books /\ BookOf(Here) = b
      /\ Req \in Orders /\ Req # NoCall /\ remaining \in 0 .. MaxQuantity
      /\ TakerOf(Here) = Req /\ LeftOf(Here) = remaining
      /\ \A j : j # Here => TakerOf(j) = NoCall /\ LeftOf(j) = 0
    BY <1>1, MatchingCall
<1>3. Here' = Here /\ Req' = Req
    BY <1>1 DEF Here, Req
<1>4. CASE i # Here
  <2>1. BookOf(i)' = BookOf(i)
      BY <1>1, <1>4 DEF BookOf
  <2>2. TakerOf(i)' = NoCall /\ LeftOf(i)' = 0
      BY <1>1, <1>4 DEF TakerOf, LeftOf, MatchingIn, Here
  <2> QED
      BY <1>2, <1>4, <2>1, <2>2 DEF Untouched
<1>5. CASE i = Here
  <2>1. /\ BookOf(i) = b
        /\ BookOf(i)' = Execute(b, Req, remaining, p)
      BY <1>1, <1>2, <1>5 DEF BookOf
  <2>2. TakerOf(i) = Req /\ TakerOf(i)' = Req /\ LeftOf(i) = remaining
      BY <1>1, <1>2, <1>5 DEF TakerOf, MatchingIn, Here, Req
  <2>3. LeftOf(i)' = remaining - q
      BY <1>1, <1>5 DEF LeftOf, MatchingIn, Here
  <2>4. IsSound(BookOf(i)) /\ IsSound(BookOf(i)')
    <3>1. IsSound(BookOf(i))
        BY BookOfIsSound
    <3>2. IsSound(BookOf(i)')
        BY <2>1, <1>1, <1>2, InvFacts, ExecuteKeepsBook DEF GoodBook, IsSound
    <3> QED
        BY <3>1, <3>2
  <2>5. remaining > 0
      BY <1>1 DEF Matchable
  <2> HIDE DEF b
  <2>6. PICK k \in DOMAIN RestingMap(b) :
          /\ FirstInLine(b, Req, k)
          /\ TradedWith(BookOf(i)', b, k, remaining, remaining - q)
      BY <1>1, <1>2, <2>1, <2>4, ExecuteRefines
  <2> HIDE DEF q
  <2>7. TradedWith(BookOf(i)', BookOf(i), k, LeftOf(i), LeftOf(i)')
      BY <2>1, <2>2, <2>3, <2>6
  <2>8. /\ k \in PriceTime(i)!Candidates(TakerOf(i))
        /\ \A j \in PriceTime(i)!Candidates(TakerOf(i)) :
              ~PriceTime(i)!AheadOf(TakerOf(i), j, k)
      BY <2>1, <2>2, <2>6, QueueOfInstrument DEF FirstInLine
  <2>9. Leaves(BookOf(i)', BookOf(i), k) => PriceTime(i)!Leave(k)
      BY DEF PriceTime!Leave, Leaves, Without
  <2>10. PriceTime(i)!Trade(k)
      BY <1>2, <2>2, <2>5, <2>7, <2>8, <2>9 DEF PriceTime!Trade, TradedWith
  <2> QED
      BY <2>1, <2>6, <2>10
<1> QED
    BY <1>4, <1>5

\* The loops have ended: the remainder rests in the book of the call, behind
\* everyone at its price, or is gone.
LEMMA EngineConcludes ==
    ASSUME EngineInv, EngineInv', NEW i \in Instruments, FinishMatching
    PROVE  PriceTime(i)!Conclude \/ Untouched(i)
<1> DEFINE b == order_books[Here]
<1>1. /\ phase = "matching" /\ phase' = "applying"
      /\ \A p \in Prices : ~Matchable(b, Req, remaining, p)
      /\ order_books' = [order_books EXCEPT ![Here] = Rest(b, Req, remaining)]
    BY DEF FinishMatching, Here, Req
<1>2. /\ Here \in DOMAIN order_books /\ BookOf(Here) = b
      /\ Req \in Orders /\ Req # NoCall /\ remaining \in 0 .. MaxQuantity
      /\ Req.order_id \notin DOMAIN b.order_locations
      /\ TakerOf(Here) = Req /\ LeftOf(Here) = remaining
      /\ \A j : j # Here => TakerOf(j) = NoCall /\ LeftOf(j) = 0
    BY <1>1, MatchingCall
<1>3. TakerOf(i)' = NoCall /\ LeftOf(i)' = 0
    BY <1>1 DEF TakerOf, LeftOf, MatchingIn
<1>4. CASE i # Here
  <2>1. BookOf(i)' = BookOf(i)
      BY <1>1, <1>4 DEF BookOf
  <2> QED
      BY <1>2, <1>3, <1>4, <2>1 DEF Untouched
<1>5. CASE i = Here
  <2>1. BookOf(i) = b /\ BookOf(i)' = Rest(b, Req, remaining)
      BY <1>1, <1>2, <1>5 DEF BookOf
  <2>2. TakerOf(i) = Req /\ LeftOf(i) = remaining
      BY <1>2, <1>5
  <2>3. IsSound(b) /\ IsSound(BookOf(i)')
    <3>1. IsSound(b)
        BY <2>1, BookOfIsSound
    <3>2. IsSound(BookOf(i)')
        BY <2>1, <1>1, <1>2, InvFacts, RestKeepsBook DEF GoodBook, IsSound
    <3> QED
        BY <3>1, <3>2
  <2> HIDE DEF b
  <2>4. remaining = 0 \/ PriceTime(i)!Candidates(TakerOf(i)) = {}
      BY <1>1, <1>2, <2>1, <2>2, <2>3, LoopsEnd, QueueOfInstrument
  <2>5. IF Req.order_type \in RestingTypes /\ remaining > 0
        THEN Joins(BookOf(i)', b, Req.side, Req.price, Remainder(Req, remaining))
        ELSE BookOf(i)' = b
      BY <1>2, <2>1, <2>3, RestRefines
  <2>6. CASE Req.order_type \in RestingTypes /\ remaining > 0
    <3>1. Joins(BookOf(i)', BookOf(i), TakerOf(i).side, TakerOf(i).price,
                Remainder(TakerOf(i), LeftOf(i)))
        BY <2>1, <2>2, <2>5, <2>6
    <3> QED
        BY <1>2, <1>3, <2>2, <2>4, <2>6, <3>1
           DEF PriceTime!Conclude, RestingTypes, Joins, Remainder, EntryOf
  <2>7. CASE ~(Req.order_type \in RestingTypes /\ remaining > 0)
    <3>1. /\ RestingMap(BookOf(i))' = RestingMap(BookOf(i))
          /\ ArrivalOrder(BookOf(i))' = ArrivalOrder(BookOf(i))
        BY <2>1, <2>5, <2>7
    <3> QED
        BY <1>2, <1>3, <2>2, <2>4, <2>7, <3>1 DEF PriceTime!Conclude, RestingTypes
  <2> QED
      BY <2>6, <2>7
<1> QED
    BY <1>4, <1>5

\* cancel_order withdraws the order it names from the book it names.
LEMMA EngineWithdraws ==
    ASSUME EngineInv, EngineInv', NEW i \in Instruments, NEW j \in Instruments,
           NEW id \in OrderIds, NEW account \in AccountIds, Cancel(j, id, account)
    PROVE  \/ \E k \in DOMAIN RestingMap(BookOf(i)) : PriceTime(i)!Withdraw(k)
           \/ Untouched(i)
<1> DEFINE b == order_books[j]
<1>1. phase = "idle" /\ phase' = "applying" /\ j \in DOMAIN order_books
    BY DEF Cancel
<1>2. \/ order_books' = order_books
      \/ /\ CancelRejection(b, id, account) = "none"
         /\ order_books' = [order_books EXCEPT ![j] = CancelIn(b, id)]
    BY DEF Cancel
<1>3. CASE order_books' = order_books
  <2>1. BookOf(i)' = BookOf(i)
      BY <1>3 DEF BookOf
  <2> QED
      BY <1>1, <2>1, OutsideMatching
<1>4. CASE /\ CancelRejection(b, id, account) = "none"
           /\ order_books' = [order_books EXCEPT ![j] = CancelIn(b, id)]
           /\ i # j
  <2>1. BookOf(i)' = BookOf(i)
      BY <1>4 DEF BookOf
  <2> QED
      BY <1>1, <2>1, OutsideMatching
<1>5. CASE /\ CancelRejection(b, id, account) = "none"
           /\ order_books' = [order_books EXCEPT ![j] = CancelIn(b, id)]
           /\ i = j
  <2>1. BookOf(i) = b /\ BookOf(i)' = CancelIn(b, id)
      BY <1>1, <1>5 DEF BookOf
  <2>2. id \in DOMAIN b.order_locations
      BY <1>5, AcceptedMeans
  <2>3. IsSound(b) /\ IsSound(BookOf(i)')
    <3>1. IsSound(b)
        BY <2>1, BookOfIsSound
    <3>2. IsSound(BookOf(i)')
        BY <1>1, <2>1, <2>2, InvFacts, CancelKeepsBook DEF GoodBook, IsSound
    <3> QED
        BY <3>1, <3>2
  <2> HIDE DEF b
  <2>4. id \in DOMAIN RestingMap(b) /\ Leaves(BookOf(i)', b, id)
      BY <2>1, <2>2, <2>3, CancelRefines
  <2>5. /\ TakerOf(i) = NoCall /\ TakerOf(i)' = TakerOf(i)
        /\ LeftOf(i)' = LeftOf(i)
      BY <1>1 DEF TakerOf, LeftOf, MatchingIn
  <2>6. PriceTime(i)!Withdraw(id)
      BY <2>1, <2>4, <2>5
         DEF PriceTime!Withdraw, PriceTime!Leave, Leaves, Without
  <2> QED
      BY <2>1, <2>4, <2>6
<1> QED
    BY <1>2, <1>3, <1>4, <1>5

\* Every step of the engine is, for every instrument, a step of price-time
\* priority or none at all.
LEMMA EngineBooksStep ==
    ASSUME EngineInv, EngineInv', [Next]_vars, NEW i \in Instruments
    PROVE  [PriceTime(i)!Next]_(PriceTime(i)!vars)
<1> DEFINE Goal == PriceTime(i)!Next \/ UNCHANGED PriceTime(i)!vars
<1>0. Untouched(i) => Goal
    BY UntouchedStutters
<1>1. ASSUME NEW j \in Instruments, register_instrument(j) PROVE Goal
    BY <1>0, <1>1, RegisterUntouched
<1>2. ASSUME NEW j \in Instruments, NEW r \in Requests, PlaceAccepted(j, r)
      PROVE  Goal
    BY <1>0, <1>2, EngineSubmits DEF PriceTime!Next
<1>3. ASSUME NEW p \in Prices, MatchAt(p) PROVE Goal
    BY <1>0, <1>3, EngineTrades DEF PriceTime!Next
<1>4. ASSUME FinishMatching PROVE Goal
    BY <1>0, <1>4, EngineConcludes DEF PriceTime!Next
<1>5. ASSUME NEW j \in Instruments, NEW id \in OrderIds, NEW account \in AccountIds,
             Cancel(j, id, account)
      PROVE  Goal
    BY <1>0, <1>5, EngineWithdraws DEF PriceTime!Next
<1>6. ASSUME order_books' = order_books, phase # "matching", phase' # "matching"
      PROVE  Goal
  <2>1. BookOf(i)' = BookOf(i)
      BY <1>6 DEF BookOf
  <2> QED
      BY <1>0, <1>6, <2>1, OutsideMatching
<1>7. ASSUME UNCHANGED vars PROVE Goal
    BY <1>0, <1>7 DEF vars, Untouched, BookOf, TakerOf, LeftOf, MatchingIn
<1>8. ASSUME NEW j \in Instruments, NEW r \in Requests,
             PlaceRefused(j, r) \/ PlaceRejectedByBook(j, r)
      PROVE  Goal
    BY <1>6, <1>8 DEF PlaceRefused, PlaceRejectedByBook, Admitted
<1>9. ASSUME NEW j \in Instruments, NEW id \in OrderIds,
             CancelUnknownInstrument(j, id)
      PROVE  Goal
    BY <1>6, <1>9 DEF CancelUnknownInstrument
<1>10. ASSUME ApplyNext \/ FinishApply \/ Publish PROVE Goal
    BY <1>6, <1>10 DEF ApplyNext, FinishApply, Publish
<1> HIDE DEF Goal
<1>11. Goal
    BY <1>1, <1>2, <1>3, <1>4, <1>5, <1>7, <1>8, <1>9, <1>10 DEF Next, CallSteps
<1> QED
    BY <1>11 DEF Goal

\* Before any instrument is registered every book is empty and idle.
LEMMA EngineBooksInit ==
    ASSUME Init, NEW i PROVE PriceTime(i)!Init
<1>1. BookOf(i) = EmptyBook /\ TakerOf(i) = NoCall /\ LeftOf(i) = 0
    BY DEF Init, BookOf, TakerOf, LeftOf, MatchingIn
<1> QED
    BY <1>1, EmptyMaps DEF PriceTime!Init

\* However calls for many instruments follow each other, each book on its own
\* keeps price-time priority.
THEOREM BooksRefinePriceTime == Spec => BooksImplementPriceTime
<1> DEFINE Starts == \A i \in Instruments : PriceTime(i)!Init
           Steps  == \A i \in Instruments : [PriceTime(i)!Next]_(PriceTime(i)!vars)
<1>1. Init => Starts
    BY EngineBooksInit
<1>2. EngineInv /\ EngineInv' /\ [Next]_vars => Steps
    BY EngineBooksStep
<1>3. BooksImplementPriceTime <=> Starts /\ [][Steps]_vars
    BY DEF BooksImplementPriceTime
<1> HIDE DEF Starts, Steps
<1> QED
    BY <1>1, <1>2, <1>3, EngineInvHolds, PTL DEF Spec

\* The same of one instrument, as the specification of PriceTimePriority.
THEOREM EachBookRefinesPriceTime ==
    ASSUME NEW i \in Instruments PROVE Spec => PriceTime(i)!Spec
<1>1. Init => PriceTime(i)!Init
    BY EngineBooksInit
<1>2. EngineInv /\ EngineInv' /\ [Next]_vars
        => [PriceTime(i)!Next]_(PriceTime(i)!vars)
    BY EngineBooksStep
<1> QED
    BY <1>1, <1>2, EngineInvHolds, PTL DEF Spec, PriceTime!Spec

=============================================================================
