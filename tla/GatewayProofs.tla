--------------------------- MODULE GatewayProofs ---------------------------
(***************************************************************************)
(* Proofs of the properties of OrderGateway for every set of clients,      *)
(* accounts, instruments and prices, every width of the price type and     *)
(* every number of commands.                                               *)
(***************************************************************************)
EXTENDS OrderGateway, TLAPS

----------------------------------------------------------------------------
(* Arithmetic of the reference band                                         *)

\* Prices fit the signed type.
LEMMA PriceRanges ==
    /\ \A p \in OrderPrices : p \in 0 .. IntMax
    /\ \A p \in ReferencePrices : p \in 1 .. IntMax
    BY GatewayAssumption

\* A value that the unsigned type holds is not changed by it.
LEMMA UnsignedHolds ==
    ASSUME NEW x \in Nat, x <= 2 * IntMax + 1
    PROVE  Unsigned(x) = x
    BY GatewayAssumption DEF Unsigned

\* The parts of percentage_of: the thousands, the rest, and the exact quotient.
BasisPoints == {n \in Nat : n <= 10000}
Whole(r, bp) == (r \div 10000) * bp
Part(r, bp) == (r % 10000) * bp
Exact(r, bp) == (r * bp) \div 10000

\* Taking the reference price apart at 10000 gives the exact quotient.
LEMMA SplitQuotient ==
    ASSUME NEW r \in Nat, NEW bp \in BasisPoints
    PROVE  /\ Whole(r, bp) \in Nat
           /\ Part(r, bp) \in Nat /\ Part(r, bp) <= 9999 * 10000
           /\ Exact(r, bp) = Whole(r, bp) + Part(r, bp) \div 10000
           /\ Exact(r, bp) \in 0 .. r
<1> DEFINE a == r \div 10000
           b == r % 10000
<1>1. /\ a \in Nat /\ b \in 0 .. 9999
      /\ r = 10000 * a + b
    OBVIOUS
<1>2. /\ Whole(r, bp) = a * bp
      /\ Part(r, bp) = b * bp
    BY DEF Whole, Part
<1> HIDE DEF a, b
<1>3. /\ a * bp \in Nat /\ a * bp <= a * 10000
      /\ b * bp \in Nat /\ b * bp <= b * 10000
    BY <1>1 DEF BasisPoints
<1>4. r * bp = 10000 * (a * bp) + b * bp
    BY <1>1 DEF BasisPoints
<1>5. ASSUME NEW x \in Nat, NEW y \in Nat, NEW z \in Nat,
             z = 10000 * x + y, x <= a * 10000, y <= b * 10000
      PROVE  /\ z \div 10000 = x + y \div 10000
             /\ z \div 10000 \in 0 .. r
             /\ y <= 9999 * 10000
    BY <1>1, <1>5
<1>6. r * bp \in Nat
    BY <1>3, <1>4
<1>7. /\ Exact(r, bp) = a * bp + (b * bp) \div 10000
      /\ Exact(r, bp) \in 0 .. r
      /\ b * bp <= 9999 * 10000
    BY <1>3, <1>4, <1>5, <1>6 DEF Exact
<1> QED
    BY <1>2, <1>3, <1>7

\* The arithmetic of the unsigned type computes the exact amount, which is at
\* most the reference price: nothing wraps.
LEMMA DeviationExact ==
    ASSUME NEW r \in 0 .. IntMax, NEW bp \in BasisPoints
    PROVE  /\ deviation_amount(r, bp) = Exact(r, bp)
           /\ Exact(r, bp) \in 0 .. r
<1>1. r \in Nat /\ r <= IntMax /\ IntMax \in Nat
    BY GatewayAssumption
<1>2. /\ Whole(r, bp) \in Nat
      /\ Part(r, bp) \in Nat /\ Part(r, bp) <= 9999 * 10000
      /\ Exact(r, bp) = Whole(r, bp) + Part(r, bp) \div 10000
      /\ Exact(r, bp) \in 0 .. r
    BY <1>1, SplitQuotient
<1>3. deviation_amount(r, bp) =
        Unsigned(Unsigned(Whole(r, bp)) + Unsigned(Part(r, bp)) \div 10000)
    BY DEF deviation_amount, Whole, Part
<1>4. /\ Part(r, bp) \div 10000 \in Nat
      /\ Whole(r, bp) <= 2 * IntMax + 1
      /\ Part(r, bp) <= 2 * IntMax + 1
      /\ Exact(r, bp) \in Nat /\ Exact(r, bp) <= 2 * IntMax + 1
    BY <1>1, <1>2, GatewayAssumption
<1>5. /\ Unsigned(Whole(r, bp)) = Whole(r, bp)
      /\ Unsigned(Part(r, bp)) = Part(r, bp)
      /\ Unsigned(Exact(r, bp)) = Exact(r, bp)
    BY <1>2, <1>4, UnsignedHolds
<1> QED
    BY <1>2, <1>3, <1>5

\* evaluate accepts a price exactly when its distance from the reference price
\* is within the amount; the saturated upper bound loses nothing.
LEMMA BandDecides ==
    ASSUME NEW type, type # "market",
           NEW p \in 0 .. IntMax, NEW r \in 1 .. IntMax
    PROVE  LET inside == Distance(p, r) <=
                           Exact(r, maximum_reference_deviation_basis_points)
           IN  /\ inside => evaluate(type, p, r) = "accepted"
               /\ ~inside => evaluate(type, p, r) = "outside_reference_band"
<1> DEFINE bp == maximum_reference_deviation_basis_points
           amount == deviation_amount(r, bp)
           exact  == Exact(r, bp)
           upper  == IF amount > IntMax - r THEN IntMax ELSE r + amount
<1>1. r \in 0 .. IntMax /\ bp \in BasisPoints /\ IntMax \in Nat
    BY GatewayAssumption DEF BasisPoints
<1>2. amount = exact /\ exact \in 0 .. r
    BY <1>1, DeviationExact
<1>3. evaluate(type, p, r) =
        IF p >= r - amount /\ p <= upper
        THEN "accepted" ELSE "outside_reference_band"
    BY <1>1 DEF evaluate
<1> HIDE DEF amount, exact
<1>4. (p >= r - amount /\ p <= upper) <=> Distance(p, r) <= exact
    BY <1>1, <1>2 DEF Distance
<1> QED
    BY <1>3, <1>4 DEF exact

----------------------------------------------------------------------------
(* Sessions                                                                 *)

\* SessionsInOrder is inductive together with the types: the log of a client
\* is a sequence that Forward extends.
IndInv == TypeOK /\ SessionsInOrder

\* What a client has had forwarded.
Logs == Seq([sequence: Sequences, account_id: AccountIds])

\* A command that passes the checks comes from a registered client, for the
\* account of the client and with the number that is due.
LEMMA AdmittedCommand ==
    ASSUME NEW cmd, SessionRejection(cmd) = "none"
    PROVE  /\ cmd.client_id \in DOMAIN clients
           /\ clients[cmd.client_id].account_id = cmd.account_id
           /\ clients[cmd.client_id].next_sequence = cmd.sequence
    BY DEF SessionRejection

\* Every answer of the gateway is a reply.
LEMMA AnswersTyped ==
    ASSUME NEW cmd \in PlaceCommands \cup CancelCommands,
           NEW answer \in {"forwarded", SessionRejection(cmd), PriceRejection(cmd)},
           answer # "none", Answer(cmd, answer)
    PROVE  /\ reply' \in Replies
           /\ reply'.command = cmd
           /\ reply'.answer = answer
<1>1. SessionRejection(cmd) \in {"none", "unknown_client", "unauthorized_order",
                                "invalid_request_sequence"}
    BY DEF SessionRejection
<1>2. PriceRejection(cmd) \in {"none", "risk_fat_finger_limit",
                              "risk_reference_price_unavailable"}
    BY DEF PriceRejection
<1> QED
    BY <1>1, <1>2 DEF Answer, Replies

\* The two ways in which place_order and cancel_order end.
Refused(cmd) ==
    \E reason \in {SessionRejection(cmd), PriceRejection(cmd)} :
        reason # "none" /\ Reject(cmd, reason)
Admitted(cmd) == SessionRejection(cmd) = "none" /\ Forward(cmd)

\* Forwarding extends the log of the client by the number that was due.
LEMMA ForwardKeepsSessions ==
    ASSUME IndInv, NEW cmd \in PlaceCommands \cup CancelCommands, Admitted(cmd)
    PROVE  IndInv'
<1> DEFINE c == cmd.client_id
           entry == [sequence |-> cmd.sequence, account_id |-> cmd.account_id]
           old == clients[c]
           new == [old EXCEPT !.next_sequence = @ + 1]
           log == forwarded[c]
<1>1. /\ c \in ClientIds
      /\ cmd.sequence \in 1 .. MaxSequence
      /\ cmd.account_id \in AccountIds
      /\ MaxSequence \in Nat
    BY GatewayAssumption DEF PlaceCommands, CancelCommands, Sequences
<1>2. /\ c \in DOMAIN clients
      /\ old \in [account_id: AccountIds, next_sequence: 1 .. MaxSequence + 1]
      /\ old.account_id = cmd.account_id
      /\ old.next_sequence = cmd.sequence
    BY AdmittedCommand DEF Admitted, IndInv, TypeOK
<1>3. new = [account_id |-> cmd.account_id, next_sequence |-> cmd.sequence + 1]
    BY <1>2
<1>4. /\ DOMAIN clients' = DOMAIN clients
      /\ clients'[c] = [account_id |-> cmd.account_id,
                        next_sequence |-> cmd.sequence + 1]
      /\ \A x \in DOMAIN clients \ {c} : clients'[x] = clients[x]
      /\ clients' = [x \in DOMAIN clients |-> clients'[x]]
    BY <1>2, <1>3 DEF Admitted, Forward, IndInv, TypeOK
<1>5. /\ log \in Logs
      /\ entry \in [sequence: Sequences, account_id: AccountIds]
      /\ Len(log) = cmd.sequence - 1
      /\ \A k \in DOMAIN log : log[k] = [sequence |-> k, account_id |-> cmd.account_id]
    BY <1>1, <1>2 DEF IndInv, TypeOK, SessionsInOrder, Logs, Sequences
<1>6. /\ DOMAIN forwarded' = ClientIds
      /\ forwarded'[c] = Append(log, entry)
      /\ \A x \in ClientIds \ {c} : forwarded'[x] = forwarded[x]
      /\ forwarded' = [x \in ClientIds |-> forwarded'[x]]
    BY <1>1 DEF Admitted, Forward, IndInv, TypeOK
<1>7. /\ Append(log, entry) \in Logs
      /\ Len(Append(log, entry)) = cmd.sequence
      /\ \A k \in DOMAIN Append(log, entry) :
            Append(log, entry)[k] = [sequence |-> k, account_id |-> cmd.account_id]
  <2> HIDE DEF log
  <2> QED
      BY <1>1, <1>5 DEF Logs
<1>8. SessionsInOrder'
  <2> SUFFICES ASSUME NEW x \in DOMAIN clients'
               PROVE  /\ Len(forwarded'[x]) = clients'[x].next_sequence - 1
                      /\ \A k \in DOMAIN forwarded'[x] : forwarded'[x][k] =
                            [sequence |-> k, account_id |-> clients'[x].account_id]
      BY DEF SessionsInOrder
  <2>1. CASE x = c
    <3> HIDE DEF log, entry
    <3> QED
      BY <1>1, <1>4, <1>6, <1>7, <2>1
  <2>2. CASE x # c
    <3>1. x \in DOMAIN clients /\ x \in ClientIds
        BY <1>4 DEF IndInv, TypeOK
    <3> QED
      BY <1>4, <1>6, <2>2, <3>1, ZenonT(60) DEF IndInv, SessionsInOrder
  <2> QED
      BY <2>1, <2>2
<1>9. clients' \in [DOMAIN clients' ->
                     [account_id: AccountIds, next_sequence: 1 .. MaxSequence + 1]]
  <2>1. clients'[c] \in [account_id: AccountIds, next_sequence: 1 .. MaxSequence + 1]
      BY <1>1, <1>4
  <2>2. \A x \in DOMAIN clients :
          clients'[x] \in [account_id: AccountIds, next_sequence: 1 .. MaxSequence + 1]
      BY <1>4, <2>1 DEF IndInv, TypeOK
  <2> QED
      BY <1>4, <2>2
<1>10. forwarded' \in [ClientIds -> Logs]
    BY <1>6, <1>7 DEF IndInv, TypeOK, Logs
<1>11. reply' \in Replies
    BY AnswersTyped DEF Admitted, Forward
<1> QED
    BY <1>4, <1>8, <1>9, <1>10, <1>11 DEF Admitted, Forward, IndInv, TypeOK, Logs

\* Registering, the first time or again, starts an empty log at number 1.
LEMMA RegisterKeepsSessions ==
    ASSUME IndInv, NEW c \in ClientIds, NEW account \in AccountIds,
           register_client(c, account)
    PROVE  IndInv'
<1> DEFINE new == [account_id |-> account, next_sequence |-> 1]
           S == [account_id: AccountIds, next_sequence: 1 .. MaxSequence + 1]
<1>1. new \in S
    BY GatewayAssumption
<1>2. /\ clients \in [DOMAIN clients -> S]
      /\ clients' = Put(clients, c, new)
    BY DEF register_client, IndInv, TypeOK
<1> HIDE DEF new, S
<1>3. /\ DOMAIN clients' = DOMAIN clients \cup {c}
      /\ clients'[c] = new
      /\ \A x \in DOMAIN clients \ {c} : clients'[x] = clients[x]
      /\ clients' \in [DOMAIN clients \cup {c} -> S]
    BY <1>1, <1>2 DEF Put
<1>4. /\ forwarded' \in [ClientIds -> Logs]
      /\ forwarded'[c] = <<>>
      /\ \A x \in ClientIds \ {c} : forwarded'[x] = forwarded[x]
  <2>1. <<>> \in Logs
      BY DEF Logs
  <2>2. /\ forwarded \in [ClientIds -> Logs]
        /\ forwarded' = [forwarded EXCEPT ![c] = <<>>]
      BY DEF register_client, IndInv, TypeOK, Logs
  <2> QED
      BY <2>1, <2>2
<1>5. SessionsInOrder'
  <2> SUFFICES ASSUME NEW x \in DOMAIN clients'
               PROVE  /\ Len(forwarded'[x]) = clients'[x].next_sequence - 1
                      /\ \A k \in DOMAIN forwarded'[x] : forwarded'[x][k] =
                            [sequence |-> k, account_id |-> clients'[x].account_id]
      BY DEF SessionsInOrder
  <2>1. CASE x = c
      BY <1>3, <1>4, <2>1 DEF new
  <2>2. CASE x # c
    <3>1. x \in DOMAIN clients /\ x \in ClientIds
        BY <1>3, <2>2 DEF IndInv, TypeOK
    <3> QED
      BY <1>3, <1>4, <2>2, <3>1 DEF IndInv, SessionsInOrder
  <2> QED
      BY <2>1, <2>2
<1> QED
    BY <1>3, <1>4, <1>5 DEF register_client, IndInv, TypeOK, Logs, S

\* The invariant holds of a gateway without clients.
LEMMA InitIndInv == Init => IndInv
    BY GatewayAssumption DEF Init, IndInv, TypeOK, SessionsInOrder

\* Every step is one of the operations, each seen as a whole.
LEMMA StepCases ==
    ASSUME [Next]_vars
    PROVE  \/ \E c \in ClientIds : unregister_client(c)
           \/ \E c \in ClientIds, account \in AccountIds : register_client(c, account)
           \/ \E i \in Instruments, price \in ReferencePrices :
                 set_reference_price(i, price)
           \/ \E cmd \in PlaceCommands \cup CancelCommands :
                 Refused(cmd) \/ Admitted(cmd)
           \/ UNCHANGED vars
    BY DEF Next, place_order, cancel_order, Refused, Admitted

\* Every step of the gateway keeps the invariant.
LEMMA NextIndInv == IndInv /\ [Next]_vars => IndInv'
<1> SUFFICES ASSUME IndInv, [Next]_vars PROVE IndInv'
    OBVIOUS
<1>1. ASSUME NEW c \in ClientIds, unregister_client(c) PROVE IndInv'
    BY <1>1 DEF unregister_client, IndInv, TypeOK, SessionsInOrder
<1>2. ASSUME NEW c \in ClientIds, NEW account \in AccountIds,
             register_client(c, account)
      PROVE  IndInv'
    BY <1>2, RegisterKeepsSessions
<1>3. ASSUME NEW i \in Instruments, NEW price \in ReferencePrices,
             set_reference_price(i, price)
      PROVE  IndInv'
  <2>1. /\ DOMAIN reference_prices' \subseteq Instruments
        /\ reference_prices' \in [DOMAIN reference_prices' -> ReferencePrices]
      BY <1>3 DEF set_reference_price, IndInv, TypeOK, Put
  <2> QED
      BY <1>3, <2>1 DEF set_reference_price, IndInv, TypeOK, SessionsInOrder
<1>4. ASSUME NEW cmd \in PlaceCommands \cup CancelCommands, Refused(cmd)
      PROVE  IndInv'
  <2>1. reply' \in Replies
      BY <1>4, AnswersTyped DEF Refused, Reject
  <2> QED
      BY <1>4, <2>1 DEF Refused, Reject, IndInv, TypeOK, SessionsInOrder
<1>5. ASSUME NEW cmd \in PlaceCommands \cup CancelCommands, Admitted(cmd)
      PROVE  IndInv'
    BY <1>5, ForwardKeepsSessions
<1>6. CASE UNCHANGED vars
    BY <1>6 DEF vars, IndInv, TypeOK, SessionsInOrder
<1> QED
    BY <1>1, <1>2, <1>3, <1>4, <1>5, <1>6, StepCases

\* The inductive invariant holds in every state of the gateway.
THEOREM IndInvHolds == Spec => []IndInv
    BY InitIndInv, NextIndInv, PTL DEF Spec

\* The members of OrderGateway keep their types, and with them next_sequence
\* its bound.
THEOREM TypeCorrect == Spec => []TypeOK
<1>1. IndInv => TypeOK
    BY DEF IndInv
<1> QED
    BY IndInvHolds, <1>1, PTL

\* Whatever clients repeat, delay or reorder, and however often they register
\* and leave, the engine sees the commands of a session once each, in the
\* order of their numbers, without a gap and for one account.
THEOREM SessionsStayInOrder == Spec => []SessionsInOrder
<1>1. IndInv => SessionsInOrder
    BY DEF IndInv
<1> QED
    BY IndInvHolds, <1>1, PTL

\* A step that moves the sequence number of a session forwarded a command of
\* that session: a refused command can be sent again under its number.
THEOREM RefusalsLeaveSequence == Spec => RefusalsKeepTheSequence
<1>1. ASSUME IndInv, [Next]_vars PROVE SequenceStep
  <2>1. ASSUME NEW c \in ClientIds, unregister_client(c) PROVE SequenceStep
      BY <2>1 DEF unregister_client, SequenceStep
  <2>2. ASSUME NEW c \in ClientIds, NEW account \in AccountIds,
               register_client(c, account)
        PROVE  SequenceStep
      BY <2>2 DEF register_client, SequenceStep, Put
  <2>3. ASSUME NEW i \in Instruments, NEW price \in ReferencePrices,
               set_reference_price(i, price)
        PROVE  SequenceStep
      BY <2>3 DEF set_reference_price, SequenceStep
  <2>4. ASSUME NEW cmd \in PlaceCommands \cup CancelCommands, Refused(cmd)
        PROVE  SequenceStep
      BY <2>4 DEF Refused, Reject, SequenceStep
  <2>5. ASSUME NEW cmd \in PlaceCommands \cup CancelCommands, Admitted(cmd)
        PROVE  SequenceStep
    <3>1. cmd.client_id \in ClientIds
        BY DEF PlaceCommands, CancelCommands
    <3>2. \A x \in DOMAIN clients \ {cmd.client_id} : clients'[x] = clients[x]
        BY <2>5 DEF Admitted, Forward
    <3>3. /\ forwarded[cmd.client_id] \in Logs
          /\ forwarded'[cmd.client_id] =
                Append(forwarded[cmd.client_id],
                       [sequence |-> cmd.sequence, account_id |-> cmd.account_id])
        BY <1>1, <2>5, <3>1 DEF Admitted, Forward, IndInv, TypeOK, Logs
    <3>4. Len(forwarded'[cmd.client_id]) = Len(forwarded[cmd.client_id]) + 1
        BY <3>3 DEF Logs
    <3>5. /\ reply' # NoReply
          /\ reply'.answer = "forwarded"
          /\ reply'.command = cmd
        BY <2>5, AnswersTyped, NoReplyAssumption DEF Admitted, Forward
    <3> QED
        BY <3>2, <3>4, <3>5 DEF SequenceStep
  <2>6. CASE UNCHANGED vars
      BY <2>6 DEF vars, SequenceStep
  <2> QED
      BY <1>1, <2>1, <2>2, <2>3, <2>4, <2>5, <2>6, StepCases
<1> QED
    BY IndInvHolds, <1>1, PTL DEF Spec, RefusalsKeepTheSequence

\* The price check of the code is the exact one: taking the product apart, the
\* unsigned arithmetic and the saturated upper bound let through no order
\* outside the band and refuse none inside it, for every width of the types.
THEOREM PriceBandIsExact == Spec => BandIsExact
<1>1. ASSUME IndInv, [Next]_vars, reply' # reply PROVE BandStep
  <2>1. PICK cmd \in PlaceCommands \cup CancelCommands :
          (\/ SessionRejection(cmd) # "none" /\ Reject(cmd, SessionRejection(cmd))
           \/ PriceRejection(cmd) # "none" /\ Reject(cmd, PriceRejection(cmd))
           \/ Admitted(cmd) /\ (cmd \in PlaceCommands => PriceRejection(cmd) = "none"))
    <3>1. \/ \E cmd \in PlaceCommands : place_order(cmd)
          \/ \E cmd \in CancelCommands : cancel_order(cmd)
        BY <1>1 DEF Next, vars, unregister_client, register_client,
                    set_reference_price
    <3>2. \A cmd \in CancelCommands : cmd \notin PlaceCommands
        BY DEF PlaceCommands, CancelCommands
    <3> QED
        BY <3>1, <3>2 DEF place_order, cancel_order, Admitted
  <2>2. reply'.command = cmd
      BY <2>1 DEF Reject, Admitted, Forward, Answer
  <2> DEFINE reference == ReferencePrice(cmd.instrument_id)
             inside == Distance(cmd.price, reference) <=
                  Exact(reference, maximum_reference_deviation_basis_points)
  <2> SUFFICES ASSUME cmd.kind = "place", cmd.order_type # "market",
                      cmd.price > 0, reference > 0
               PROVE  /\ reply'.answer = "forwarded" => inside
                      /\ reply'.answer = "risk_fat_finger_limit" => ~inside
      BY <2>2 DEF BandStep, Exact
  <2>3. cmd \in PlaceCommands
      BY DEF CancelCommands
  <2>4. /\ cmd.price \in 0 .. IntMax
        /\ reference \in 1 .. IntMax
    <3>1. cmd.instrument_id \in DOMAIN reference_prices
        BY DEF ReferencePrice
    <3>2. reference \in ReferencePrices
        BY <1>1, <3>1 DEF IndInv, TypeOK, ReferencePrice
    <3>3. cmd.price \in OrderPrices
        BY <2>3 DEF PlaceCommands
    <3> HIDE DEF reference
    <3> QED
        BY <3>2, <3>3, PriceRanges
  <2> HIDE DEF reference
  <2>5. /\ inside => evaluate(cmd.order_type, cmd.price, reference) = "accepted"
        /\ ~inside => evaluate(cmd.order_type, cmd.price, reference)
                        = "outside_reference_band"
      BY <2>4, BandDecides
  <2>6. /\ inside => PriceRejection(cmd) = "none"
        /\ ~inside => PriceRejection(cmd) = "risk_fat_finger_limit"
      BY <2>5 DEF PriceRejection, StructurallyValidPrice, reference
  <2> HIDE DEF inside
  <2>7. SessionRejection(cmd) \notin {"forwarded", "risk_fat_finger_limit"}
      BY DEF SessionRejection
  <2>8. Admitted(cmd) => reply'.answer = "forwarded"
      BY DEF Admitted, Forward, Answer
  <2>9. \/ SessionRejection(cmd) # "none" /\ reply'.answer = SessionRejection(cmd)
        \/ PriceRejection(cmd) # "none" /\ reply'.answer = PriceRejection(cmd)
        \/ PriceRejection(cmd) = "none" /\ reply'.answer = "forwarded"
      BY <2>1, <2>3, <2>8 DEF Reject, Answer
  <2> QED
      BY <2>6, <2>7, <2>9
<1>2. IndInv /\ [Next]_vars => [BandStep]_reply
    BY <1>1
<1> QED
    BY IndInvHolds, <1>2, PTL DEF Spec, BandIsExact
=============================================================================
