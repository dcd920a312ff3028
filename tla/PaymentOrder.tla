---------------------------- MODULE PaymentOrder ----------------------------
(***************************************************************************)
(* Payment orders of one account (app/payments): the order table, the      *)
(* notification, sync and reconcile handlers, and the delivery of what was *)
(* bought.  A handler stands for the synchronous part of a request in one  *)
(* of the server processes (two overlap during a reload, and a second      *)
(* instance runs passively): it is interrupted only between two of its     *)
(* transactions and while it waits for the channel.                        *)
(***************************************************************************)
EXTENDS Naturals

CONSTANTS Orders,     \* order ids
          Addon,      \* the orders of a video add-on; the others buy a tier
          Target,     \* Target[o]: the tier order o buys
          Handlers,
          NoOrder,
          MaxFaults   \* bound: crashes and failed deliveries

ASSUME PaymentAssumption ==
    /\ Addon \subseteq Orders
    /\ Target \in [Orders -> Nat]
    /\ NoOrder \notin Orders
    /\ MaxFaults \in Nat

VARIABLES
    status,   \* payment_orders.status, "none" before the row exists
    grants,   \* grant rows inserted in quota_ledger for the order
    tier,     \* users.tier, 0 is free
    channel,  \* external: what the payment channel holds for the order
    acked,    \* external: the channel got its 2xx and stops notifying
    pc,       \* where a handler stands
    job,      \* the order it handles
    notified, \* it answers a notification
    faults

rowVars     == <<status, grants, tier>>
handlerVars == <<pc, job, notified>>
vars        == <<rowVars, channel, acked, handlerVars, faults>>

OrderStatus == {"none", "pending", "paid", "fulfilled"}
Payment     == {"unpaid", "paid", "mismatch"}
PC          == {"idle", "query", "confirm", "read", "deliver"}

Init ==
    /\ status = [o \in Orders |-> "none"]
    /\ grants = [o \in Orders |-> 0]
    /\ tier = 0
    /\ channel = [o \in Orders |-> "unpaid"]
    /\ acked = {}
    /\ pc = [h \in Handlers |-> "idle"]
    /\ job = [h \in Handlers |-> NoOrder]
    /\ notified = [h \in Handlers |-> FALSE]
    /\ faults = 0

\* the row is committed before the channel is asked for the pay parameters
CreateOrder(o) ==
    /\ status[o] = "none"
    /\ status' = [status EXCEPT ![o] = "pending"]
    /\ UNCHANGED <<grants, tier, channel, acked, handlerVars, faults>>

\* external: the user pays, or pays an amount that is not the order's
Pay(o) ==
    /\ status[o] # "none"
    /\ channel[o] = "unpaid"
    /\ \E amount \in {"paid", "mismatch"} : channel' = [channel EXCEPT ![o] = amount]
    /\ UNCHANGED <<rowVars, acked, handlerVars, faults>>

\* sweep_expired_memberships: the term an administrator gave the tier is over
Expire ==
    /\ tier # 0
    /\ tier' = 0
    /\ UNCHANGED <<status, grants, channel, acked, handlerVars, faults>>

-----------------------------------------------------------------------------
(* A handler starts.                                                       *)

Start(h, o, at, note) ==
    /\ pc[h] = "idle"
    /\ pc' = [pc EXCEPT ![h] = at]
    /\ job' = [job EXCEPT ![h] = o]
    /\ notified' = [notified EXCEPT ![h] = note]
    /\ UNCHANGED <<rowVars, channel, acked, faults>>

\* Mutation: the amount of the notification is not compared.
AmountUnchecked(o) == channel[o] \in {"paid", "mismatch"}

\* apply_confirmed_payment rejects an amount that is not the order's
AmountConfirmed(o) == channel[o] = "paid"

\* _settle_notified_order: the channel repeats the call until it gets a 2xx
Notify(h, o) ==
    /\ status[o] # "none"
    /\ o \notin acked
    /\ AmountConfirmed(o)
    /\ Start(h, o, "confirm", TRUE)

\* sync_order of the user, and sync_order_with_channel of the reconcile round:
\* the order is read, then the channel is asked
Sync(h, o) ==
    /\ status[o] # "none"
    /\ Start(h, o, "query", FALSE)

\* the second half of reconcile_due_orders
ReconcilePaid(h, o) ==
    /\ status[o] = "paid"
    /\ Start(h, o, "read", FALSE)

-----------------------------------------------------------------------------
(* Steps of a handler.                                                     *)

Goes(h, at) == pc' = [pc EXCEPT ![h] = at]

\* the request ends; a notification that went well is acknowledged, unless
\* the answer is lost
Ends(h, well) ==
    /\ Goes(h, "idle")
    /\ job' = [job EXCEPT ![h] = NoOrder]
    /\ notified' = [notified EXCEPT ![h] = FALSE]
    /\ \/ acked' = acked
       \/ /\ well
          /\ notified[h]
          /\ acked' = acked \cup {job[h]}

\* the channel answers the query: paid with the right amount, or not
Answer(h) ==
    /\ pc[h] = "query"
    /\ \/ /\ AmountConfirmed(job[h])
          /\ Goes(h, "confirm")
          /\ UNCHANGED <<job, notified, acked>>
       \/ /\ ~AmountConfirmed(job[h])
          /\ Ends(h, FALSE)
    /\ UNCHANGED <<rowVars, channel, faults>>

\* the compare-and-swap of mark_paid
PaidFrom(s) == IF s = "pending" THEN "paid" ELSE s

\* Mutation: a confirmation that moves nothing is taken for a repetition.
ConfirmFirstOnly(h) ==
    /\ pc[h] = "confirm"
    /\ status' = [status EXCEPT ![job[h]] = PaidFrom(@)]
    /\ IF status[job[h]] = "pending"
       THEN Goes(h, "read") /\ UNCHANGED <<acked, job, notified>>
       ELSE Ends(h, TRUE)
    /\ UNCHANGED <<grants, tier, channel, faults>>

\* mark_paid and its commit
Confirm(h) ==
    /\ pc[h] = "confirm"
    /\ status' = [status EXCEPT ![job[h]] = PaidFrom(@)]
    /\ Goes(h, "read")
    /\ UNCHANGED <<grants, tier, channel, acked, job, notified, faults>>

\* Mutation: an order that is delivered already is delivered once more.
ReadOrderAnyStatus(h) ==
    /\ pc[h] = "read"
    /\ Goes(h, "deliver")
    /\ UNCHANGED <<rowVars, channel, acked, job, notified, faults>>

\* fulfill_order reads the order: to deliver, or delivered already.  Any other
\* status would be refused, but none can be read here: nothing closes an order.
ReadOrder(h) ==
    /\ pc[h] = "read"
    /\ \/ /\ status[job[h]] = "paid"
          /\ Goes(h, "deliver")
          /\ UNCHANGED <<job, notified, acked>>
       \/ /\ status[job[h]] = "fulfilled"
          /\ Ends(h, TRUE)
    /\ UNCHANGED <<rowVars, channel, faults>>

\* grant_video_addon_seconds: the first grant row of the order is the only one
GrantedOnce(n) == IF n = 0 THEN 1 ELSE n

\* _deliver and mark_fulfilled in one transaction.  The delivery does not ask
\* whether the compare-and-swap succeeded: a second delivery of a tier order
\* writes its tier over whatever tier the account has by then.
Deliver(h) ==
    LET o == job[h] IN
    /\ pc[h] = "deliver"
    /\ grants' = IF o \in Addon THEN [grants EXCEPT ![o] = GrantedOnce(@)] ELSE grants
    /\ tier' = IF o \in Addon THEN tier ELSE Target[o]
    /\ status' = [status EXCEPT ![o] = IF @ = "paid" THEN "fulfilled" ELSE @]
    /\ Ends(h, TRUE)
    /\ UNCHANGED <<channel, faults>>

\* Mutation: the order is marked in a transaction of its own.
DeliverFailsMarked(h) ==
    /\ pc[h] = "deliver"
    /\ faults < MaxFaults
    /\ faults' = faults + 1
    /\ status' = [status EXCEPT ![job[h]] = "fulfilled"]
    /\ Ends(h, FALSE)
    /\ UNCHANGED <<grants, tier, channel>>

\* the transaction fails and is rolled back
DeliverFails(h) ==
    /\ pc[h] = "deliver"
    /\ faults < MaxFaults
    /\ faults' = faults + 1
    /\ Ends(h, FALSE)
    /\ UNCHANGED <<rowVars, channel>>

\* the process dies between two transactions
Crash(h) ==
    /\ pc[h] # "idle"
    /\ faults < MaxFaults
    /\ faults' = faults + 1
    /\ Ends(h, FALSE)
    /\ UNCHANGED <<rowVars, channel>>

HandlerStep(h) == Answer(h) \/ Confirm(h) \/ ReadOrder(h) \/ Deliver(h)

Next ==
    \/ \E o \in Orders : CreateOrder(o) \/ Pay(o)
    \/ Expire
    \/ \E h \in Handlers, o \in Orders : Notify(h, o) \/ Sync(h, o) \/ ReconcilePaid(h, o)
    \/ \E h \in Handlers : HandlerStep(h) \/ DeliverFails(h) \/ Crash(h)

\* A handler runs to its end.  The channel repeats a notification until it is
\* acknowledged; a server that is busy now and then still gets it.
Fairness ==
    /\ \A h \in Handlers : WF_vars(HandlerStep(h))
    /\ \A o \in Orders : SF_vars(\E h \in Handlers : Notify(h, o))

Spec == Init /\ [][Next]_vars /\ Fairness

=============================================================================
