------------------------- MODULE PriceTimePriority -------------------------
(***************************************************************************)
(* What a continuous order book promises, with no deque, no price map and  *)
(* no index: a set of resting orders, who arrived before whom at the same  *)
(* side and price, and the one order that is being matched.  Matching may  *)
(* trade only with the resting order that has the best price and, at that  *)
(* price, the earliest arrival.                                            *)
(***************************************************************************)
EXTENDS Integers

CONSTANTS
    Orders,     \* the orders that may be submitted
    NoOrder     \* no order is being matched

VARIABLES
    resting,    \* order id -> what still rests under that id
    earlier,    \* <<i, j>>: i and j rest at one side and price, i came first
    taker,      \* the order being matched, or NoOrder
    remaining   \* what is left of the taker

vars == <<resting, earlier, taker, remaining>>

Init ==
    /\ resting = [i \in {} |-> NoOrder]
    /\ earlier = {}
    /\ taker = NoOrder
    /\ remaining = 0

----------------------------------------------------------------------------

\* A resting order the order o may trade with.
Tradable(o, i) ==
    /\ resting[i].side # o.side
    /\ \/ o.order_type = "market"
       \/ o.side = "buy"  /\ resting[i].price <= o.price
       \/ o.side = "sell" /\ resting[i].price >= o.price

\* i stands in the queue for o ahead of j.
AheadOf(o, i, j) ==
    \/ o.side = "buy"  /\ resting[i].price < resting[j].price
    \/ o.side = "sell" /\ resting[i].price > resting[j].price
    \/ <<i, j>> \in earlier

Candidates(o) == {i \in DOMAIN resting : Tradable(o, i)}

Leave(i) ==
    /\ resting' = [j \in DOMAIN resting \ {i} |-> resting[j]]
    /\ earlier' = {e \in earlier : e[1] # i /\ e[2] # i}

----------------------------------------------------------------------------

\* An order enters under an id nobody rests under; a post-only order enters
\* only if it has nothing to trade with.
Submit ==
    /\ taker = NoOrder
    /\ taker' \in Orders
    /\ taker'.order_id \notin DOMAIN resting
    /\ taker'.order_type = "post_only" => Candidates(taker') = {}
    /\ remaining' = taker'.quantity
    /\ UNCHANGED <<resting, earlier>>

\* The taker trades with the first order of its queue.
Trade(i) ==
    /\ taker # NoOrder
    /\ remaining > 0
    /\ i \in Candidates(taker)
    /\ \A j \in Candidates(taker) : ~AheadOf(taker, j, i)
    /\ \/ /\ remaining < resting[i].remaining_quantity
          /\ resting' = [resting EXCEPT ![i].remaining_quantity = @ - remaining]
          /\ remaining' = 0
          /\ UNCHANGED earlier
       \/ /\ remaining >= resting[i].remaining_quantity
          /\ remaining' = remaining - resting[i].remaining_quantity
          /\ Leave(i)
    /\ UNCHANGED taker

\* Nothing is left to trade: the remainder of a limit or post-only order
\* starts to rest behind everyone at its price, any other remainder is gone.
Conclude ==
    /\ taker # NoOrder
    /\ remaining = 0 \/ Candidates(taker) = {}
    /\ taker' = NoOrder
    /\ remaining' = 0
    /\ IF taker.order_type \in {"limit", "post_only"} /\ remaining > 0
       THEN LET id == taker.order_id
                peers == {j \in DOMAIN resting :
                            /\ resting[j].side = taker.side
                            /\ resting[j].price = taker.price}
            IN  /\ resting' =
                     [j \in DOMAIN resting \cup {id} |->
                        IF j = id
                        THEN [side |-> taker.side, price |-> taker.price,
                              remaining_quantity |-> remaining,
                              order_type |-> taker.order_type,
                              account_id |-> taker.account_id]
                        ELSE resting[j]]
                /\ earlier' = earlier \cup {<<j, id>> : j \in peers}
       ELSE UNCHANGED <<resting, earlier>>

\* The owner of a resting order withdraws it.
Withdraw(i) ==
    /\ taker = NoOrder
    /\ Leave(i)
    /\ UNCHANGED <<taker, remaining>>

Next ==
    \/ Submit
    \/ \E i \in DOMAIN resting : Trade(i) \/ Withdraw(i)
    \/ Conclude

Spec == Init /\ [][Next]_vars
=============================================================================
