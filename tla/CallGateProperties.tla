------------------------- MODULE CallGateProperties -------------------------
(* What the gate and its channel promise.                                  *)
EXTENDS CallGate

\* Types, and the bounds of the channel: current stays between one call and
\* the ceiling of the settings, whatever the order of halvings, growth and
\* reloads, and the gate never has a limit above either.
TypeOK ==
    /\ st \in [Requests -> Status]
    /\ ticket \in [Requests -> Nat]
    /\ heap \subseteq Requests
    /\ sequence \in Nat
    /\ limit \in 1 .. MaxLimit
    /\ active \in Nat
    /\ aborted \in BOOLEAN
    /\ hard \in HardLimits
    /\ auto \in BOOLEAN
    /\ current \in 1 .. hard
    /\ hits \in {0, 1}
    /\ cooling \in BOOLEAN
    /\ healthy \in BOOLEAN
    /\ slowStart \in BOOLEAN

\* gate.active counts exactly the requests that run or own a slot they have
\* not used yet: no interleaving of release, resize, wake-up and task
\* cancellation loses a slot or counts one twice.
SlotsCounted == active = Cardinality(Busy)

\* Nobody queues beside a free slot: while a pending future is in the heap,
\* every slot of the limit is taken, also after the limit was raised or a
\* woken request was cancelled.
NoIdleSlot == Live # {} => active >= limit

\* A request that waits is in the heap, where release will find it, and a
\* pending future is never popped and thrown away.
WaitersQueued == \A r \in Requests : st[r] = "waiting" => r \in heap

\* Whoever is let in fits under the limit of that moment: a gate shrunk below
\* its occupancy hands no slot on until it has drained.
AdmitsWithinLimit ==
    [][(Busy' \ Busy) # {} => active' <= limit']_vars

\* Nobody is overtaken: a request let in goes before every request that is
\* left waiting, and one that was never queued finds no queue.
NoOvertaking ==
    [][\A r \in Busy' \ Busy, q \in Live :
            st'[q] = "waiting" => st[r] = "waiting" /\ Before(r, q)]_vars

\* Once one operation of a batch has failed, no other request of the batch
\* starts its operation: the abort is published before the slot moves on.
NoStartAfterAbort ==
    [][\A r \in Batch : aborted /\ st'[r] = "running" => st[r] = "running"]_vars

\* A queued request is served or withdrawn: the slot of a request cancelled
\* between its wake-up and its next step is passed on.
EveryWaiterLeaves ==
    \A r \in Requests : (st[r] = "waiting") ~> (st[r] # "waiting")

=============================================================================
