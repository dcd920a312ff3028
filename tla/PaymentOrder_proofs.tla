------------------------- MODULE PaymentOrder_proofs -------------------------
(***************************************************************************)
(* Payment orders: for any set of orders, any number of processes and any  *)
(* number of faults, an order is credited once, only when it was paid, and *)
(* the handlers implement the abstract purchase.                           *)
(***************************************************************************)
EXTENDS PaymentOrderProperties, TLAPS

\* What a handler knows of its order.  It read the row, so the row exists; it
\* confirms only what the channel holds; once it has confirmed, the order is
\* paid or delivered and stays so.
HandlerInv ==
    \A h \in Handlers :
        /\ pc[h] # "idle" => job[h] \in Orders /\ status[job[h]] # "none"
        /\ pc[h] = "confirm" => channel[job[h]] = "paid"
        /\ pc[h] \in {"read", "deliver"} => status[job[h]] \in {"paid", "fulfilled"}

IInv == TypeOK /\ CreditedOnce /\ PaidBeforeDelivered /\ AckedOnlyDelivered /\ HandlerInv

LEMMA InitHolds == ASSUME Init PROVE IInv
BY PaymentAssumption
   DEF Init, IInv, TypeOK, CreditedOnce, PaidBeforeDelivered, AckedOnlyDelivered,
       HandlerInv, OrderStatus, Payment, PC

\* The end of a request changes the handler, and acknowledges nothing but an
\* order that is delivered.
LEMMA EndsKeeps ==
  ASSUME IInv, NEW h \in Handlers, NEW well \in BOOLEAN, pc[h] # "idle", Ends(h, well),
         well => status'[job[h]] = "fulfilled",
         status' \in [Orders -> OrderStatus],
         grants' \in [Orders -> Nat], tier' \in Nat, faults' \in Nat,
         channel' = channel,
         CreditedOnce', PaidBeforeDelivered',
         \A o \in Orders : /\ status[o] # "none" => status'[o] # "none"
                           /\ status[o] \in {"paid", "fulfilled"}
                                => status'[o] \in {"paid", "fulfilled"}
                           /\ status[o] = "fulfilled" => status'[o] = "fulfilled"
  PROVE  IInv'
<1>1. job[h] \in Orders /\ acked \subseteq Orders
  BY DEF IInv, HandlerInv, TypeOK
<1>2. AckedOnlyDelivered' /\ acked' \subseteq Orders
  BY <1>1 DEF Ends, IInv, AckedOnlyDelivered, TypeOK
<1>3. /\ pc' \in [Handlers -> PC]
      /\ job' \in [Handlers -> Orders \cup {NoOrder}]
      /\ notified' \in [Handlers -> BOOLEAN]
  BY DEF Ends, Goes, IInv, TypeOK, PC
<1>4. TypeOK'
  BY <1>2, <1>3 DEF IInv, TypeOK
<1>5. /\ pc'[h] = "idle"
      /\ \A g \in Handlers : g # h => pc'[g] = pc[g] /\ job'[g] = job[g]
  BY DEF Ends, Goes, IInv, TypeOK
<1>6. HandlerInv'
  BY <1>5 DEF IInv, HandlerInv
<1>. QED BY <1>2, <1>4, <1>6 DEF IInv

\* A request that reads a row starts from what it read.
LEMMA StartKeeps ==
  ASSUME IInv, NEW h \in Handlers, NEW o \in Orders, NEW at \in PC, NEW note \in BOOLEAN,
         Start(h, o, at, note), status[o] # "none",
         at = "confirm" => channel[o] = "paid",
         at \in {"read", "deliver"} => status[o] \in {"paid", "fulfilled"}
  PROVE  IInv'
<1>1. /\ pc' \in [Handlers -> PC]
      /\ job' \in [Handlers -> Orders \cup {NoOrder}]
      /\ notified' \in [Handlers -> BOOLEAN]
  BY DEF Start, IInv, TypeOK
<1>2. UNCHANGED <<rowVars, channel, acked, faults>>
  BY DEF Start
<1>3. TypeOK' /\ CreditedOnce' /\ PaidBeforeDelivered' /\ AckedOnlyDelivered'
  BY <1>1, <1>2 DEF IInv, TypeOK, CreditedOnce, PaidBeforeDelivered, AckedOnlyDelivered, rowVars
<1>4. /\ pc'[h] = at /\ job'[h] = o
      /\ \A g \in Handlers : g # h => pc'[g] = pc[g] /\ job'[g] = job[g]
  BY DEF Start, IInv, TypeOK
<1>5. HandlerInv'
  BY <1>2, <1>4 DEF IInv, HandlerInv, rowVars
<1>. QED BY <1>3, <1>5 DEF IInv

LEMMA StepHolds == ASSUME IInv, [Next]_vars PROVE IInv'
<1>1. ASSUME NEW o \in Orders, CreateOrder(o) PROVE IInv'
  <2>1. \A q \in Orders : q # o => status'[q] = status[q]
    BY <1>1 DEF CreateOrder, IInv, TypeOK
  <2>2. status'[o] = "pending" /\ status[o] = "none"
    BY <1>1 DEF CreateOrder, IInv, TypeOK
  <2>3. TypeOK'
    BY <1>1 DEF CreateOrder, handlerVars, IInv, TypeOK, OrderStatus
  <2>4. CreditedOnce'
    BY <2>1, <2>2, <1>1, PaymentAssumption DEF CreateOrder, IInv, CreditedOnce
  <2>5. PaidBeforeDelivered' /\ AckedOnlyDelivered'
    BY <2>1, <2>2, <1>1
       DEF CreateOrder, IInv, TypeOK, PaidBeforeDelivered, AckedOnlyDelivered
  <2>6. HandlerInv'
    BY <2>1, <2>2, <1>1 DEF CreateOrder, handlerVars, IInv, HandlerInv
  <2>. QED BY <2>3, <2>4, <2>5, <2>6 DEF IInv
<1>2. ASSUME NEW o \in Orders, Pay(o) PROVE IInv'
  <2>1. /\ channel' \in [Orders -> Payment]
        /\ \A q \in Orders : channel[q] = "paid" => channel'[q] = "paid"
    BY <1>2 DEF Pay, IInv, TypeOK, Payment
  <2>2. UNCHANGED <<rowVars, acked, handlerVars, faults>>
    BY <1>2 DEF Pay
  <2>. QED BY <2>1, <2>2
           DEF IInv, TypeOK, CreditedOnce, PaidBeforeDelivered, AckedOnlyDelivered,
               HandlerInv, rowVars, handlerVars
<1>3. ASSUME NEW h \in Handlers, NEW o \in Orders, Notify(h, o) PROVE IInv'
  BY <1>3, StartKeeps DEF Notify, AmountConfirmed, PC
<1>4. ASSUME NEW h \in Handlers, NEW o \in Orders, Sync(h, o) PROVE IInv'
  BY <1>4, StartKeeps DEF Sync, PC
<1>5. ASSUME NEW h \in Handlers, NEW o \in Orders, ReconcilePaid(h, o) PROVE IInv'
  BY <1>5, StartKeeps DEF ReconcilePaid, PC
<1>6. ASSUME NEW h \in Handlers, Answer(h) PROVE IInv'
  <2>0. pc[h] = "query" /\ UNCHANGED <<rowVars, channel, faults>>
    BY <1>6 DEF Answer
  <2>1. CASE Ends(h, FALSE)
    BY <2>0, <2>1, EndsKeeps
       DEF rowVars, IInv, TypeOK, CreditedOnce, PaidBeforeDelivered
  <2>2. CASE channel[job[h]] = "paid" /\ Goes(h, "confirm") /\ UNCHANGED <<job, notified, acked>>
    <3>1. /\ pc' \in [Handlers -> PC] /\ pc'[h] = "confirm"
          /\ \A g \in Handlers : g # h => pc'[g] = pc[g]
      BY <2>2 DEF Goes, IInv, TypeOK, PC
    <3>2. HandlerInv'
      BY <2>0, <2>2, <3>1 DEF IInv, HandlerInv, rowVars
    <3>. QED BY <2>0, <2>2, <3>1, <3>2
             DEF rowVars, IInv, TypeOK, CreditedOnce, PaidBeforeDelivered, AckedOnlyDelivered
  <2>. QED BY <2>1, <2>2, <1>6 DEF Answer, AmountConfirmed
<1>7. ASSUME NEW h \in Handlers, Confirm(h) PROVE IInv'
  <2> DEFINE o == job[h]
  <2>0. /\ pc[h] = "confirm" /\ o \in Orders /\ status[o] # "none" /\ channel[o] = "paid"
        /\ UNCHANGED <<grants, tier, channel, acked, job, notified, faults>>
    BY <1>7 DEF Confirm, IInv, HandlerInv
  <2>1. /\ status' \in [Orders -> OrderStatus]
        /\ \A q \in Orders : q # o => status'[q] = status[q]
        /\ status'[o] = PaidFrom(status[o])
    BY <1>7, <2>0 DEF Confirm, PaidFrom, IInv, TypeOK, OrderStatus
  <2>2. /\ status[o] \in {"pending", "paid", "fulfilled"}
        /\ status'[o] \in {"paid", "fulfilled"}
        /\ status'[o] = "fulfilled" <=> status[o] = "fulfilled"
    BY <2>0, <2>1 DEF PaidFrom, IInv, TypeOK, OrderStatus
  <2>3. /\ pc' \in [Handlers -> PC] /\ pc'[h] = "read"
        /\ \A g \in Handlers : g # h => pc'[g] = pc[g]
    BY <1>7 DEF Confirm, Goes, IInv, TypeOK, PC
  <2>4. TypeOK'
    BY <2>0, <2>1, <2>3 DEF IInv, TypeOK
  <2>5. CreditedOnce' /\ PaidBeforeDelivered' /\ AckedOnlyDelivered'
    BY <2>0, <2>1, <2>2, PaymentAssumption
       DEF IInv, TypeOK, CreditedOnce, PaidBeforeDelivered, AckedOnlyDelivered
  <2>6. HandlerInv'
    BY <2>0, <2>1, <2>2, <2>3 DEF IInv, HandlerInv
  <2>. QED BY <2>4, <2>5, <2>6 DEF IInv
<1>8. ASSUME NEW h \in Handlers, ReadOrder(h) PROVE IInv'
  <2>0. pc[h] = "read" /\ UNCHANGED <<rowVars, channel, faults>>
    BY <1>8 DEF ReadOrder
  <2>1. CASE status[job[h]] = "fulfilled" /\ Ends(h, TRUE)
    BY <2>0, <2>1, EndsKeeps
       DEF rowVars, IInv, TypeOK, CreditedOnce, PaidBeforeDelivered
  <2>2. CASE /\ status[job[h]] = "paid" /\ Goes(h, "deliver")
             /\ UNCHANGED <<job, notified, acked>>
    <3>1. /\ pc' \in [Handlers -> PC] /\ pc'[h] = "deliver"
          /\ \A g \in Handlers : g # h => pc'[g] = pc[g]
      BY <2>2 DEF Goes, IInv, TypeOK, PC
    <3>2. HandlerInv'
      BY <2>0, <2>2, <3>1 DEF IInv, HandlerInv, rowVars
    <3>. QED BY <2>0, <2>2, <3>1, <3>2
             DEF rowVars, IInv, TypeOK, CreditedOnce, PaidBeforeDelivered, AckedOnlyDelivered
  <2>. QED BY <2>1, <2>2, <1>8 DEF ReadOrder
<1>9. ASSUME NEW h \in Handlers, Deliver(h) PROVE IInv'
  <2> DEFINE o == job[h]
  <2>0. /\ pc[h] = "deliver" /\ o \in Orders /\ status[o] \in {"paid", "fulfilled"}
        /\ UNCHANGED <<channel, faults>> /\ Ends(h, TRUE)
    BY <1>9 DEF Deliver, IInv, HandlerInv
  <2>1. /\ status' \in [Orders -> OrderStatus]
        /\ status'[o] = "fulfilled"
        /\ \A q \in Orders : q # o => status'[q] = status[q]
    BY <1>9, <2>0 DEF Deliver, IInv, TypeOK, OrderStatus
  <2>2. /\ grants' \in [Orders -> Nat]
        /\ \A q \in Orders : q # o => grants'[q] = grants[q]
        /\ o \in Addon => grants'[o] = GrantedOnce(grants[o])
    BY <1>9, <2>0 DEF Deliver, GrantedOnce, IInv, TypeOK
  <2>3. tier' \in Nat
    BY <1>9, <2>0, PaymentAssumption DEF Deliver, IInv, TypeOK
  <2>4. CreditedOnce'
    <3>1. o \in Addon => grants'[o] = 1
      BY <2>0, <2>2 DEF IInv, CreditedOnce, GrantedOnce
    <3>. QED BY <3>1, <2>1, <2>2, PaymentAssumption DEF IInv, CreditedOnce
  <2>5. PaidBeforeDelivered'
    BY <2>0, <2>1 DEF IInv, PaidBeforeDelivered
  <2>6. \A q \in Orders : /\ status[q] # "none" => status'[q] # "none"
                          /\ status[q] \in {"paid", "fulfilled"}
                                => status'[q] \in {"paid", "fulfilled"}
                          /\ status[q] = "fulfilled" => status'[q] = "fulfilled"
    BY <2>1
  <2>7. faults' \in Nat
    BY <2>0 DEF IInv, TypeOK
  <2>. QED BY <2>0, <2>1, <2>2, <2>3, <2>4, <2>5, <2>6, <2>7, EndsKeeps
<1>10. ASSUME NEW h \in Handlers, DeliverFails(h) \/ Crash(h) PROVE IInv'
  <2>1. pc[h] # "idle" /\ Ends(h, FALSE) /\ UNCHANGED <<rowVars, channel>> /\ faults' = faults + 1
    BY <1>10 DEF DeliverFails, Crash
  <2>2. /\ status' = status /\ grants' = grants /\ tier' \in Nat /\ faults' \in Nat
        /\ status' \in [Orders -> OrderStatus] /\ grants' \in [Orders -> Nat]
    BY <2>1 DEF rowVars, IInv, TypeOK
  <2>3. CreditedOnce' /\ PaidBeforeDelivered'
    BY <2>1, <2>2 DEF IInv, CreditedOnce, PaidBeforeDelivered
  <2>. QED BY <2>1, <2>2, <2>3, EndsKeeps
<1>11. CASE UNCHANGED vars
  BY <1>11 DEF vars, rowVars, handlerVars, IInv, TypeOK, CreditedOnce,
               PaidBeforeDelivered, AckedOnlyDelivered, HandlerInv
<1>12. CASE Expire
  BY <1>12 DEF Expire, handlerVars, IInv, TypeOK, CreditedOnce,
               PaidBeforeDelivered, AckedOnlyDelivered, HandlerInv
<1>. QED BY <1>1, <1>2, <1>3, <1>4, <1>5, <1>6, <1>7, <1>8, <1>9, <1>10, <1>11, <1>12
         DEF Next, HandlerStep

LEMMA Always == Spec => []IInv
BY InitHolds, StepHolds, PTL DEF Spec

\* The rows, the ledger, the channel and the handlers keep their types.
THEOREM TypeCorrect == Spec => []TypeOK
<1>1. IInv => TypeOK
  BY DEF IInv
<1>. QED BY <1>1, Always, PTL

\* Seconds are credited exactly with the fulfilment, and once.
THEOREM CreditIsOnce == Spec => []CreditedOnce
<1>1. IInv => CreditedOnce
  BY DEF IInv
<1>. QED BY <1>1, Always, PTL

\* Whatever the clients, the webhook and the reconciler report and in whatever
\* order, nothing is delivered that the channel has not been paid for.
THEOREM DeliveredIsPaid == Spec => []PaidBeforeDelivered
<1>1. IInv => PaidBeforeDelivered
  BY DEF IInv
<1>. QED BY <1>1, Always, PTL

\* A notification is acknowledged, and so not sent again, only for an order
\* that has been delivered.
THEOREM AckMeansDelivered == Spec => []AckedOnlyDelivered
<1>1. IInv => AckedOnlyDelivered
  BY DEF IInv
<1>. QED BY <1>1, Always, PTL

-----------------------------------------------------------------------------
(* Steps of the order.                                                     *)

\* An order only goes forward, one status at a time.
THEOREM OrdersOnlyGoForward == Spec => OnlyForward
<1> DEFINE Moves == {<<s, s>> : s \in OrderStatus}
                    \cup {<<"none", "pending">>, <<"pending", "paid">>, <<"paid", "fulfilled">>}
           Moved == \A o \in Orders : <<status[o], status'[o]>> \in Moves
<1>1. ASSUME IInv, [Next]_vars PROVE Moved
  <2>0. status \in [Orders -> OrderStatus]
    BY <1>1 DEF IInv, TypeOK
  <2>1. CASE status' = status
    BY <2>0, <2>1
  <2>2. ASSUME NEW o \in Orders, CreateOrder(o) PROVE Moved
    BY <2>0, <2>2 DEF CreateOrder
  <2>3. ASSUME NEW h \in Handlers, Confirm(h) PROVE Moved
    <3>1. job[h] \in Orders
      BY <1>1, <2>3 DEF Confirm, IInv, HandlerInv
    <3>. QED BY <2>0, <2>3, <3>1 DEF Confirm, PaidFrom
  <2>4. ASSUME NEW h \in Handlers, Deliver(h) PROVE Moved
    <3>1. job[h] \in Orders
      BY <1>1, <2>4 DEF Deliver, IInv, HandlerInv
    <3>. QED BY <2>0, <2>4, <3>1 DEF Deliver
  <2>. QED BY <1>1, <2>1, <2>2, <2>3, <2>4
           DEF Next, HandlerStep, Pay, Expire, Notify, Sync, ReconcilePaid, Start, Answer,
               ReadOrder, DeliverFails, Crash, vars, rowVars
<1>2. IInv /\ [Next]_vars => [Moved]_vars
  BY <1>1
<1>. QED BY <1>2, Always, PTL DEF Spec, OnlyForward

-----------------------------------------------------------------------------
(* The abstract purchase.                                                  *)

\* Where a handler is behind: the order it delivers is settled.
Late(h) == IF Behind(h) THEN job[h] ELSE NoOrder

\* A handler that stays where it is, whose order does not change its status, is
\* behind as before.
LEMMA LateStays ==
  ASSUME NEW h \in Handlers, pc'[h] = pc[h], job'[h] = job[h],
         pc[h] = "deliver" => (status'[job[h]] = "fulfilled" <=> status[job[h]] = "fulfilled")
  PROVE  Late(h)' = Late(h)
BY DEF Late, Behind

\* A handler that delivers nothing is not behind.
LEMMA NotLate ==
  ASSUME NEW h \in Handlers
  PROVE  /\ pc[h] # "deliver" => Late(h) = NoOrder
         /\ pc'[h] # "deliver" => Late(h)' = NoOrder
BY DEF Late, Behind

\* The handlers implement the abstract purchase, whatever tiers are on sale: an
\* order settles in one step, the commit of its delivery, and the tier is
\* written by that step, the expiry and the deliveries it overtook, once each.
THEOREM OrdersSettleOnce == Spec => Settles
<1> DEFINE done == {o \in Orders : status[o] = "fulfilled"}
           behind == [h \in Handlers |-> Late(h)]
           Same == done' = done /\ behind' = behind /\ tier' = tier /\ channel' = channel
<1>0. /\ Settlement!vars = <<channel, done, behind, tier>>
      /\ (Settlement!vars)' = <<channel', done', behind', tier'>>
  BY DEF Settlement!vars, Late
<1>1. Init => Settlement!Init
  BY DEF Init, Settlement!Init, Behind
<1>2. ASSUME IInv, [Next]_vars
      PROVE  [Settlement!Next]_(Settlement!vars)
  <2>0. /\ status \in [Orders -> OrderStatus]
        /\ pc \in [Handlers -> PC] /\ job \in [Handlers -> Orders \cup {NoOrder}]
    BY <1>2 DEF IInv, TypeOK
  <2>a. \A g \in Handlers : pc[g] # "idle" => job[g] \in Orders
    BY <1>2 DEF IInv, HandlerInv
  <2>1. CASE UNCHANGED vars
    <3>1. Same
      BY <2>1, LateStays DEF vars, rowVars, handlerVars
    <3>. QED BY <1>0, <3>1
  <2>2. ASSUME NEW o \in Orders, CreateOrder(o) PROVE Same
    <3>1. done' = done /\ UNCHANGED <<pc, job, tier, channel>>
      BY <2>0, <2>2 DEF CreateOrder, handlerVars
    <3>2. \A q \in Orders : status'[q] = "fulfilled" <=> status[q] = "fulfilled"
      BY <2>0, <2>2 DEF CreateOrder
    <3>3. \A g \in Handlers : Late(g)' = Late(g)
      BY <3>1, <3>2, <2>a, LateStays
    <3>. QED BY <3>1, <3>3
  <2>3. ASSUME NEW o \in Orders, Pay(o) PROVE Settlement!Next
    <3>1. UNCHANGED <<status, tier, pc, job>>
      BY <2>3 DEF Pay, rowVars, handlerVars
    <3>2. done' = done /\ behind' = behind
      BY <3>1, LateStays
    <3>3. Settlement!Pay(o)
      BY <2>3, <3>1, <3>2 DEF Pay, Settlement!Pay, Late
    <3>. QED BY <3>3 DEF Settlement!Next
  <2>4. ASSUME Expire PROVE Settlement!Next
    <3>1. UNCHANGED <<status, channel, pc, job>> /\ tier' = 0
      BY <2>4 DEF Expire, handlerVars
    <3>2. done' = done /\ behind' = behind
      BY <3>1, LateStays
    <3>3. Settlement!Expire
      BY <3>1, <3>2 DEF Settlement!Expire, Late
    <3>. QED BY <3>3 DEF Settlement!Next
  <2>5. ASSUME NEW h \in Handlers, NEW o \in Orders, NEW at \in PC, NEW note \in BOOLEAN,
               Start(h, o, at, note), at # "deliver"
        PROVE  Same
    <3>1. /\ UNCHANGED <<status, tier, channel>> /\ pc[h] # "deliver" /\ pc'[h] # "deliver"
          /\ \A g \in Handlers : g # h => pc'[g] = pc[g] /\ job'[g] = job[g]
      BY <2>0, <2>5 DEF Start, rowVars
    <3>2. \A g \in Handlers : Late(g)' = Late(g)
      BY <3>1, LateStays, NotLate
    <3>. QED BY <3>1, <3>2
  <2>6. ASSUME NEW h \in Handlers, Confirm(h) PROVE Same
    <3>1. /\ UNCHANGED <<tier, channel, job>> /\ pc[h] # "deliver" /\ pc'[h] # "deliver"
          /\ \A g \in Handlers : g # h => pc'[g] = pc[g]
      BY <2>0, <2>6 DEF Confirm, Goes
    <3>2. \A q \in Orders : status'[q] = "fulfilled" <=> status[q] = "fulfilled"
      BY <2>0, <2>6, <2>a DEF Confirm, PaidFrom
    <3>3. \A g \in Handlers : Late(g)' = Late(g)
      BY <3>1, <3>2, <2>a, LateStays, NotLate
    <3>. QED BY <3>1, <3>2, <3>3
  <2>7. ASSUME NEW h \in Handlers, Answer(h) \/ ReadOrder(h) PROVE Same
    <3>1. /\ UNCHANGED <<status, tier, channel>> /\ pc[h] # "deliver"
          /\ pc'[h] = "deliver" => status[job[h]] = "paid" /\ job'[h] = job[h]
          /\ \A g \in Handlers : g # h => pc'[g] = pc[g] /\ job'[g] = job[g]
      BY <2>0, <2>7 DEF Answer, ReadOrder, Ends, Goes, rowVars
    <3>2. Late(h)' = Late(h)
      BY <3>1 DEF Late, Behind
    <3>3. \A g \in Handlers : Late(g)' = Late(g)
      BY <3>1, <3>2, LateStays
    <3>. QED BY <3>1, <3>3
  <2>8. ASSUME NEW h \in Handlers, Deliver(h) PROVE Settlement!Next
    <3> DEFINE o == job[h]
    <3>1. /\ o \in Orders /\ status[o] \in {"paid", "fulfilled"} /\ channel[o] = "paid"
          /\ channel' = channel /\ pc[h] = "deliver" /\ pc'[h] # "deliver"
          /\ \A g \in Handlers : g # h => pc'[g] = pc[g] /\ job'[g] = job[g]
      BY <1>2, <2>0, <2>8
         DEF Deliver, Ends, Goes, IInv, HandlerInv, PaidBeforeDelivered
    <3>2. /\ done' = done \cup {o}
          /\ status'[o] = "fulfilled"
          /\ \A q \in Orders : q # o => status'[q] = status[q]
      BY <2>0, <2>8, <3>1 DEF Deliver
    <3>3. tier' = IF o \in Addon THEN tier ELSE Target[o]
      BY <2>8 DEF Deliver
    <3>4. Late(h)' = NoOrder
      BY <3>1, NotLate
    <3>5. PICK q \in Orders : q = o
      BY <3>1
    <3>6. CASE status[o] = "paid"
      <4> DEFINE overtaken == {g \in Handlers \ {h} : pc[g] = "deliver" /\ job[g] = o}
      <4>1. \A g \in Handlers : g \in overtaken => Late(g) = NoOrder /\ Late(g)' = o
        BY <3>1, <3>2, <3>6 DEF Late, Behind
      <4>2. Late(h) = NoOrder
        BY <3>6 DEF Late, Behind
      <4>3. ASSUME NEW g \in Handlers, g # h, g \notin overtaken PROVE Late(g)' = Late(g)
        <5>1. pc[g] = "deliver" => job[g] \in Orders /\ job[g] # o
          BY <2>a, <4>3
        <5>. QED BY <3>1, <3>2, <4>3, <5>1, LateStays
      <4>4. behind' = [g \in Handlers |-> IF g \in overtaken THEN o ELSE behind[g]]
        BY <3>4, <4>1, <4>2, <4>3
      <4>5. overtaken \in SUBSET {g \in Handlers \ {h} : behind[g] = NoOrder}
        BY <4>1
      <4>6. o \notin done
        BY <3>6
      <4>7. Settlement!Settle(q, h)
        BY <3>1, <3>2, <3>3, <3>5, <4>4, <4>5, <4>6
           DEF Settlement!Settle, Settlement!TierDelivered, Late
      <4>. QED BY <4>7 DEF Settlement!Next
    <3>7. CASE status[o] = "fulfilled"
      <4>1. Late(h) = o /\ o # NoOrder
        BY <3>1, <3>7, PaymentAssumption DEF Late, Behind
      <4>2. \A g \in Orders : status'[g] = "fulfilled" <=> status[g] = "fulfilled"
        BY <3>2, <3>7
      <4>3. \A g \in Handlers : g # h => Late(g)' = Late(g)
        BY <2>a, <3>1, <4>2, LateStays
      <4>4. behind' = [behind EXCEPT ![h] = NoOrder] /\ done' = done
        BY <3>1, <3>2, <3>4, <3>7, <4>3
      <4>5. Settlement!CatchUp(h)
        BY <3>1, <3>3, <4>1, <4>4 DEF Settlement!CatchUp, Settlement!TierDelivered, Late
      <4>. QED BY <4>5 DEF Settlement!Next
    <3>. QED BY <3>1, <3>6, <3>7
  <2>9. ASSUME NEW h \in Handlers, DeliverFails(h) \/ Crash(h)
        PROVE  Settlement!Next \/ Same
    <3>1. /\ UNCHANGED <<status, tier, channel>> /\ pc'[h] # "deliver"
          /\ \A g \in Handlers : g # h => pc'[g] = pc[g] /\ job'[g] = job[g]
      BY <2>0, <2>9 DEF DeliverFails, Crash, Ends, Goes, rowVars
    <3>2. Late(h)' = NoOrder /\ \A g \in Handlers : g # h => Late(g)' = Late(g)
      BY <3>1, LateStays, NotLate
    <3>3. behind' = [behind EXCEPT ![h] = NoOrder] /\ done' = done
      BY <3>1, <3>2
    <3>4. CASE Late(h) = NoOrder
      <4>1. behind' = behind
        BY <3>2, <3>4
      <4>. QED BY <3>1, <3>3, <4>1
    <3>5. CASE Late(h) # NoOrder
      <4>1. Settlement!CatchUp(h)
        BY <3>1, <3>3, <3>5 DEF Settlement!CatchUp, Late
      <4>. QED BY <4>1 DEF Settlement!Next
    <3>. QED BY <3>4, <3>5
  <2>10. \A h \in Handlers, o \in Orders :
           Notify(h, o) \/ Sync(h, o) \/ ReconcilePaid(h, o) => Same
    BY <2>5 DEF Notify, Sync, ReconcilePaid, PC
  <2>. QED BY <1>0, <1>2, <2>1, <2>2, <2>3, <2>4, <2>6, <2>7, <2>8, <2>9, <2>10
           DEF Next, HandlerStep
<1>. QED BY <1>1, <1>2, Always, PTL DEF Spec, Settles, Settlement!Spec
=============================================================================
