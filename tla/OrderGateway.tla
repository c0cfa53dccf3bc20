---------------------------- MODULE OrderGateway ----------------------------
(***************************************************************************)
(* gateway::OrderGateway with risk::FatFingerValidator.  Commands arrive   *)
(* in any order, any number of times and with any sequence number, which   *)
(* is what retries, duplicates and late commands of a client look like.    *)
(* The gateway reads nothing back from the engine, so a command it admits  *)
(* is only recorded as forwarded.                                          *)
(*                                                                         *)
(* A price that is not positive is 0.  Prices and basis points keep their  *)
(* 64-bit types: IntMax stands for the largest api::Price.                 *)
(***************************************************************************)
EXTENDS Integers, Sequences

CONSTANTS
    ClientIds,          \* ClientId values, without 0
    AccountIds,         \* api::AccountId values, without 0
    Instruments,        \* domain::InstrumentId values, without 0
    OrderPrices,        \* prices of the orders of the instance
    ReferencePrices,    \* reference prices of the instance
    IntMax,             \* std::numeric_limits<api::Price>::max()
    maximum_reference_deviation_basis_points,   \* the field of EngineConfig
    MaxSequence,        \* bound: no command is admitted beyond it
    NoReply             \* no command has been answered yet

\* EngineConfig::is_valid bounds the basis points, and the unsigned type holds
\* their product with any remainder of 10000.
ASSUME GatewayAssumption ==
    /\ IntMax \in Nat
    /\ 9999 * 10000 <= 2 * IntMax + 1
    /\ OrderPrices \subseteq 0 .. IntMax
    /\ ReferencePrices \subseteq 1 .. IntMax
    /\ maximum_reference_deviation_basis_points \in 0 .. 10000
    /\ MaxSequence \in Nat

VARIABLES
    clients,            \* clients_: registered id -> account and next_sequence
    reference_prices,   \* reference_prices_
    reply,              \* the last command and what the gateway answered
    forwarded           \* per client, what reached the engine since the client
                        \* registered: sequence numbers and accounts

vars == <<clients, reference_prices, reply, forwarded>>

Sequences == 1 .. MaxSequence

\* A place command; only a market order is told apart from the other types.
PlaceCommands == [kind: {"place"}, client_id: ClientIds, sequence: Sequences,
                  account_id: AccountIds, instrument_id: Instruments,
                  order_type: {"market", "limit"}, price: OrderPrices]

CancelCommands == [kind: {"cancel"}, client_id: ClientIds, sequence: Sequences,
                   account_id: AccountIds]

\* What a call of place_order or cancel_order leaves for its caller.
Replies == [command: PlaceCommands \cup CancelCommands,
            answer: {"forwarded", "unknown_client", "unauthorized_order",
                     "invalid_request_sequence", "risk_fat_finger_limit",
                     "risk_reference_price_unavailable"}]

ASSUME NoReplyAssumption == NoReply \notin Replies

Put(f, k, v) == [x \in DOMAIN f \cup {k} |-> IF x = k THEN v ELSE f[x]]

Init ==
    /\ clients = [c \in {} |-> <<>>]
    /\ reference_prices = [i \in {} |-> 0]
    /\ reply = NoReply
    /\ forwarded = [c \in ClientIds |-> <<>>]

----------------------------------------------------------------------------
(* FatFingerValidator                                                       *)

Unsigned(x) == x % (2 * (IntMax + 1))

\* Mutant of deviation_amount: the part below 10000 is dropped.
deviation_amount_Whole(reference_price, basis_points) ==
    Unsigned((reference_price \div 10000) * basis_points)

\* The products are taken apart so that they stay within the unsigned type.
deviation_amount(reference_price, basis_points) ==
    Unsigned(Unsigned((reference_price \div 10000) * basis_points)
             + Unsigned((reference_price % 10000) * basis_points) \div 10000)

\* The early returns of evaluate; a market order carries no price to judge.
\* The upper bound saturates at the largest price.
evaluate(order_type, price, reference_price) ==
    LET amount == deviation_amount(reference_price,
                                   maximum_reference_deviation_basis_points)
        upper  == IF amount > IntMax - reference_price
                  THEN IntMax ELSE reference_price + amount
    IN  CASE order_type = "market" -> "accepted"
          [] order_type # "market" /\ reference_price <= 0
             -> "reference_price_unavailable"
          [] OTHER -> IF price >= reference_price - amount /\ price <= upper
                      THEN "accepted" ELSE "outside_reference_band"

----------------------------------------------------------------------------
(* Sessions and reference prices.  A call that is refused (an id that is    *)
(* taken or unknown, a zero, a price that is not positive) changes nothing. *)

\* Mutant of register_client: a known client is bound to the new account.
register_client_Rebinds(c, account) ==
    /\ clients' = Put(clients, c,
                      [account_id |-> account,
                       next_sequence |-> IF c \in DOMAIN clients
                                         THEN clients[c].next_sequence ELSE 1])
    /\ forwarded' = IF c \in DOMAIN clients THEN forwarded
                    ELSE [forwarded EXCEPT ![c] = <<>>]
    /\ UNCHANGED <<reference_prices, reply>>

register_client(c, account) ==
    /\ c \notin DOMAIN clients
    /\ clients' = Put(clients, c, [account_id |-> account, next_sequence |-> 1])
    /\ forwarded' = [forwarded EXCEPT ![c] = <<>>]
    /\ UNCHANGED <<reference_prices, reply>>

unregister_client(c) ==
    /\ c \in DOMAIN clients
    /\ clients' = [x \in DOMAIN clients \ {c} |-> clients[x]]
    /\ UNCHANGED <<reference_prices, reply, forwarded>>

set_reference_price(i, price) ==
    /\ reference_prices' = Put(reference_prices, i, price)
    /\ UNCHANGED <<clients, reply, forwarded>>

----------------------------------------------------------------------------
(* Commands                                                                 *)

\* Mutant of SessionRejection: a sequence number from the past is let through.
SessionRejection_Past(cmd) ==
    CASE cmd.client_id \notin DOMAIN clients -> "unknown_client"
      [] OTHER -> LET client == clients[cmd.client_id]
                  IN  IF client.account_id # cmd.account_id
                      THEN "unauthorized_order"
                      ELSE IF cmd.sequence > client.next_sequence
                           THEN "invalid_request_sequence" ELSE "none"

\* The checks place_order and cancel_order share, in their order.
SessionRejection(cmd) ==
    CASE cmd.client_id \notin DOMAIN clients -> "unknown_client"
      [] OTHER -> LET client == clients[cmd.client_id]
                  IN  IF client.account_id # cmd.account_id
                      THEN "unauthorized_order"
                      ELSE IF cmd.sequence # client.next_sequence
                           THEN "invalid_request_sequence" ELSE "none"

ReferencePrice(i) ==
    IF i \in DOMAIN reference_prices THEN reference_prices[i] ELSE 0

\* A price that is not positive is left to the engine to refuse.
StructurallyValidPrice(cmd) == cmd.order_type = "market" \/ cmd.price > 0

PriceRejection(cmd) ==
    LET result == evaluate(cmd.order_type, cmd.price,
                           ReferencePrice(cmd.instrument_id))
    IN  CASE ~StructurallyValidPrice(cmd) \/ result = "accepted" -> "none"
          [] StructurallyValidPrice(cmd)
             /\ result = "reference_price_unavailable"
             -> "risk_reference_price_unavailable"
          [] OTHER -> "risk_fat_finger_limit"

Answer(cmd, answer) == reply' = [command |-> cmd, answer |-> answer]

Reject(cmd, reason) ==
    /\ Answer(cmd, reason)
    /\ UNCHANGED <<clients, reference_prices, forwarded>>

\* The sequence number is taken before the engine sees the command.
Forward(cmd) ==
    /\ clients' = [clients EXCEPT ![cmd.client_id].next_sequence = @ + 1]
    /\ forwarded' = [forwarded EXCEPT ![cmd.client_id] =
                        Append(@, [sequence |-> cmd.sequence,
                                   account_id |-> cmd.account_id])]
    /\ Answer(cmd, "forwarded")
    /\ UNCHANGED reference_prices

place_order(cmd) ==
    \/ SessionRejection(cmd) # "none" /\ Reject(cmd, SessionRejection(cmd))
    \/ /\ SessionRejection(cmd) = "none"
       /\ PriceRejection(cmd) # "none"
       /\ Reject(cmd, PriceRejection(cmd))
    \/ /\ SessionRejection(cmd) = "none"
       /\ PriceRejection(cmd) = "none"
       /\ Forward(cmd)

cancel_order(cmd) ==
    \/ SessionRejection(cmd) # "none" /\ Reject(cmd, SessionRejection(cmd))
    \/ SessionRejection(cmd) = "none" /\ Forward(cmd)

Next ==
    \/ \E c \in ClientIds :
        \/ unregister_client(c)
        \/ \E account \in AccountIds : register_client(c, account)
    \/ \E i \in Instruments, price \in ReferencePrices : set_reference_price(i, price)
    \/ \E cmd \in PlaceCommands : place_order(cmd)
    \/ \E cmd \in CancelCommands : cancel_order(cmd)

Spec == Init /\ [][Next]_vars

----------------------------------------------------------------------------
(* Properties                                                               *)

\* Type correctness of the members of OrderGateway.
TypeOK ==
    /\ DOMAIN clients \subseteq ClientIds
    /\ clients \in [DOMAIN clients -> [account_id: AccountIds,
                                       next_sequence: 1 .. MaxSequence + 1]]
    /\ DOMAIN reference_prices \subseteq Instruments
    /\ reference_prices \in [DOMAIN reference_prices -> ReferencePrices]
    /\ reply \in Replies \cup {NoReply}
    /\ forwarded \in [ClientIds -> Seq([sequence: Sequences,
                                        account_id: AccountIds])]

\* Whatever a client repeats, delays or sends out of order, the engine sees the
\* commands of a session exactly once, without a gap, in the order of their
\* sequence numbers, and for one account; next_sequence is one past the last.
SessionsInOrder ==
    \A c \in DOMAIN clients :
        LET log == forwarded[c]
        IN  /\ Len(log) = clients[c].next_sequence - 1
            /\ \A k \in DOMAIN log :
                  log[k] = [sequence |-> k, account_id |-> clients[c].account_id]

Distance(p, q) == IF p > q THEN p - q ELSE q - p

BandStep ==
    (reply' # NoReply /\ reply'.command.kind = "place") =>
        LET cmd       == reply'.command
            reference == ReferencePrice(cmd.instrument_id)
            inside    == Distance(cmd.price, reference) <=
                (reference * maximum_reference_deviation_basis_points) \div 10000
        IN  (cmd.order_type # "market" /\ cmd.price > 0 /\ reference > 0) =>
                /\ reply'.answer = "forwarded" => inside
                /\ reply'.answer = "risk_fat_finger_limit" => ~inside

\* No order reaches the engine whose price is further from the reference price
\* than the basis points allow, in exact arithmetic, and no order inside the
\* band is refused for its price: taking the product apart, saturating the
\* upper bound and the width of the types do not move the band.
BandIsExact == [][BandStep]_reply

SequenceStep ==
    \A c \in DOMAIN clients \cap DOMAIN clients' :
        clients'[c] # clients[c] =>
            /\ reply' # NoReply
            /\ reply'.answer = "forwarded"
            /\ reply'.command.client_id = c
            /\ Len(forwarded'[c]) = Len(forwarded[c]) + 1

\* A command the gateway refuses may be sent again under the same number: only
\* a forwarded command moves next_sequence, and only of its own client.
RefusalsKeepTheSequence == [][SequenceStep]_vars
=============================================================================
