----------------------- MODULE PaymentOrderProperties -----------------------
(* What the payment orders promise.                                        *)
EXTENDS PaymentOrder, FiniteSets

TypeOK ==
    /\ status \in [Orders -> OrderStatus]
    /\ grants \in [Orders -> Nat]
    /\ tier \in Nat
    /\ channel \in [Orders -> Payment]
    /\ acked \subseteq Orders
    /\ pc \in [Handlers -> PC]
    /\ job \in [Handlers -> Orders \cup {NoOrder}]
    /\ notified \in [Handlers -> BOOLEAN]
    /\ faults \in Nat

\* The seconds of an add-on are credited exactly when its order is fulfilled,
\* and once: a crash between the payment and the delivery, a repeated
\* notification and a second process delivering at the same time neither
\* lose them nor credit them twice.
CreditedOnce ==
    \A o \in Addon : grants[o] = IF status[o] = "fulfilled" THEN 1 ELSE 0

\* Nothing is delivered for an order the channel does not hold the right
\* amount for.
PaidBeforeDelivered ==
    \A o \in Orders : status[o] \in {"paid", "fulfilled"} => channel[o] = "paid"

\* The channel is told to stop notifying only after the goods are delivered:
\* the notification is the retry of a delivery that failed.
AckedOnlyDelivered ==
    \A o \in acked : status[o] = "fulfilled"

\* An order never goes back, and is never delivered without being paid first.
OnlyForward ==
    [][\A o \in Orders : <<status[o], status'[o]>> \in
          {<<s, s>> : s \in OrderStatus}
          \cup {<<"none", "pending">>, <<"pending", "paid">>, <<"paid", "fulfilled">>}]_vars

\* What the user paid is delivered in the end, without the reconcile loop
\* (which no start-up code registers): the repeated notification does it.
PaidIsDelivered ==
    \A o \in Orders : (channel[o] = "paid") ~> (status[o] = "fulfilled")

\* A handler that read its order as paid when another one has delivered it since.
Behind(h) == pc[h] = "deliver" /\ status[job[h]] = "fulfilled"

\* What the account's tier is after orders of several tiers: the tier is
\* written by the delivery that settles an order, by the expiry, and by nothing
\* else but the late deliveries that were already under way in another process
\* when their order was settled, at most one for each such process.  No repeated
\* notification, query or reconcile round that comes after the settlement writes
\* the tier again, and an add-on never does.  (A late delivery may put a newer
\* tier back to the older one, against fulfillment.py:14, which takes a repeated
\* delivery of a tier for idempotent: the exception is part of Purchase.)
Settlement == INSTANCE Purchase
    WITH settled <- {o \in Orders : status[o] = "fulfilled"},
         behind <- [h \in Handlers |-> IF Behind(h) THEN job[h] ELSE NoOrder]
Settles == Settlement!Spec

=============================================================================
