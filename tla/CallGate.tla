------------------------------ MODULE CallGate ------------------------------
(***************************************************************************)
(* The priority gate in front of the text provider                         *)
(* (generation_concurrency.py) and the adaptive channel that sets its      *)
(* limit (media_pipeline/concurrency.py).  Everything runs on one event    *)
(* loop: a step is what the loop executes between two awaits.  A request   *)
(* is one call of run_with_provider_call_slot, used once.                  *)
(***************************************************************************)
EXTENDS Integers, FiniteSets

CONSTANTS Requests,      \* the calls made of the gate
          Batch,         \* those that share one batch_abort event
          Priority,      \* Priority[r]: 0 interactive, larger is later
          MaxLimit,      \* MAX_TEXT_GENERATION_CONCURRENCY
          HardLimits,    \* the ceilings an operator may configure
          StartLimit     \* CHANNEL_DEFAULTS of the channel

ASSUME GateAssumption ==
    /\ IsFiniteSet(Requests)
    /\ Batch \subseteq Requests
    /\ Priority \in [Requests -> Nat]
    /\ MaxLimit \in Nat \ {0}
    /\ StartLimit \in Nat \ {0}
    /\ HardLimits \subseteq Nat \ {0}

VARIABLES
    st,        \* where the coroutine of a request stands
    ticket,    \* the sequence number its future was queued with
    heap,      \* requests whose future is still in gate.waiters
    sequence,  \* gate.sequence
    limit,     \* gate.limit
    active,    \* gate.active
    aborted,   \* the batch_abort event is set
    hard,      \* channel.hard_limit
    auto,      \* channel.auto
    current,   \* channel.current
    hits,      \* channel.congestion_hits
    cooling,   \* now < channel.cooldown_until
    healthy,   \* channel.healthy_since is set
    slowStart  \* channel.slow_start

gateVars    == <<st, ticket, heap, sequence, limit, active>>
channelVars == <<hard, auto, current, hits, cooling, healthy, slowStart>>
vars        == <<gateVars, aborted, channelVars>>

\* waiting: the future is pending.  cancelled: the future was cancelled with
\* the task.  woken: the future has its result, the coroutine has not run
\* yet.  dropped: woken, and then the task was cancelled.
Status == {"new", "waiting", "cancelled", "woken", "dropped", "running", "done"}

Min2(a, b) == IF a < b THEN a ELSE b
Max2(a, b) == IF a < b THEN b ELSE a

\* the order of the heap: priority, then sequence
Before(a, b) == \/ Priority[a] < Priority[b]
                \/ Priority[a] = Priority[b] /\ ticket[a] < ticket[b]

Live == {r \in heap : st[r] = "waiting"}

\* a slot is counted for these requests
Busy == {r \in Requests : st[r] \in {"woken", "dropped", "running"}}

\* channel_limit, capped as _configured_limit caps it
Desired(cur, ceiling) == Max2(1, Min2(MaxLimit, Max2(1, Min2(cur, ceiling))))

Init ==
    /\ st = [r \in Requests |-> "new"]
    /\ ticket = [r \in Requests |-> 0]
    /\ heap = {}
    /\ sequence = 0
    /\ active = 0
    /\ aborted = FALSE
    /\ hard \in HardLimits
    /\ auto \in BOOLEAN
    /\ current = IF auto THEN Min2(StartLimit, hard) ELSE hard
    /\ limit = Desired(current, hard)
    /\ hits = 0
    /\ cooling = FALSE
    /\ healthy = FALSE
    /\ slowStart = TRUE

-----------------------------------------------------------------------------
(* The heap.  Popping until n pending futures have been set (or the heap   *)
(* is empty) sets those of G and throws the cancelled ones met on the way. *)

\* Mutation: the heap is popped in order of arrival, whatever the priority.
GrantedByArrival(G, n) ==
    /\ G \subseteq Live
    /\ Cardinality(G) = Min2(n, Cardinality(Live))
    /\ \A g \in G, q \in Live \ G : ticket[g] < ticket[q]

Granted(G, n) ==
    /\ G \subseteq Live
    /\ Cardinality(G) = Min2(n, Cardinality(Live))
    /\ \A g \in G, q \in Live \ G : Before(g, q)

HeapAfter(G, n) ==
    IF Cardinality(G) < n THEN {} ELSE {q \in heap : \A g \in G : Before(g, q)}

Wake(status, G) == [r \in Requests |-> IF r \in G THEN "woken" ELSE status[r]]

\* Mutation: a higher limit wakes nobody.
RoomForNobody(new) == 0

\* the slots resize hands out when the limit becomes new
Room(new) == IF new > limit THEN Max2(0, new - active) ELSE 0

\* Mutation: the slot is handed on even when the gate was shrunk below its
\* occupancy.
ReleaseHandsOn(status) ==
    \E G \in SUBSET Live :
        /\ Granted(G, 1)
        /\ st' = Wake(status, G)
        /\ heap' = HeapAfter(G, 1)
        /\ active' = IF G = {} THEN Max2(0, active - 1) ELSE active

\* Mutation: one future is popped, and a cancelled one ends the hand-over.
ReleasePopsOne(status) ==
    \/ /\ active > limit \/ heap = {}
       /\ active' = active - 1
       /\ st' = status
       /\ heap' = heap
    \/ /\ active <= limit
       /\ \E h \in heap :
             /\ \A q \in heap \ {h} : Before(h, q)
             /\ heap' = heap \ {h}
             /\ st' = IF st[h] = "waiting" THEN Wake(status, {h}) ELSE status
             /\ active' = IF st[h] = "waiting" THEN active ELSE active - 1

\* release(), called by a coroutine whose own status is already in status
Release(status) ==
    \/ /\ active > limit
       /\ active' = active - 1
       /\ st' = status
       /\ heap' = heap
    \/ /\ active <= limit
       /\ \E G \in SUBSET Live :
             /\ Granted(G, 1)
             /\ st' = Wake(status, G)
             /\ heap' = HeapAfter(G, 1)
             /\ active' = IF G = {} THEN Max2(0, active - 1) ELSE active

Leaves(r) == [st EXCEPT ![r] = "done"]

Refused(r) == r \in Batch /\ aborted

\* gate_for: resize to the configured limit; then acquire: a free slot and
\* nobody queued, or a place in the heap.  The abort predicate is asked as
\* soon as the slot is taken: a refused request gives it straight back.
Acquire(r) ==
    /\ st[r] = "new"
    /\ LET want == Desired(current, hard) IN
       \E G \in SUBSET Live :
          /\ Granted(G, Room(want))
          /\ limit' = want
          /\ \/ /\ active + Cardinality(G) < want
                /\ HeapAfter(G, Room(want)) = {}
                /\ st' = Wake([st EXCEPT ![r] =
                                 IF Refused(r) THEN "done" ELSE "running"], G)
                /\ active' = active + Cardinality(G)
                                    + (IF Refused(r) THEN 0 ELSE 1)
                /\ heap' = {}
                /\ UNCHANGED <<ticket, sequence>>
             \/ /\ \/ active + Cardinality(G) >= want
                   \/ HeapAfter(G, Room(want)) # {}
                /\ sequence' = sequence + 1
                /\ ticket' = [ticket EXCEPT ![r] = sequence + 1]
                /\ heap' = HeapAfter(G, Room(want)) \cup {r}
                /\ st' = Wake([st EXCEPT ![r] = "waiting"], G)
                /\ active' = active + Cardinality(G)
    /\ UNCHANGED <<aborted, channelVars>>

\* Mutation: the abort predicate is asked only before the slot is awaited.
ResumeUnasked(r) ==
    /\ st[r] = "woken"
    /\ st' = [st EXCEPT ![r] = "running"]
    /\ UNCHANGED <<heap, active, ticket, sequence, limit, aborted, channelVars>>

\* the loop runs a coroutine whose future was set
Resume(r) ==
    /\ st[r] = "woken"
    /\ \/ /\ ~Refused(r)
          /\ st' = [st EXCEPT ![r] = "running"]
          /\ UNCHANGED <<heap, active>>
       \/ /\ Refused(r)
          /\ Release(Leaves(r))
    /\ UNCHANGED <<ticket, sequence, limit, aborted, channelVars>>

\* task.cancel() on a request that waits for its slot
Cancel(r) ==
    /\ st[r] \in {"waiting", "woken"}
    /\ st' = [st EXCEPT ![r] = IF st[r] = "waiting" THEN "cancelled" ELSE "dropped"]
    /\ UNCHANGED <<ticket, heap, sequence, limit, active, aborted, channelVars>>

\* Mutation: acquire lets the exception through without a look at the future.
AbandonKeepsSlot(r) ==
    /\ st[r] = "dropped"
    /\ st' = Leaves(r)
    /\ UNCHANGED <<heap, active, ticket, sequence, limit, aborted, channelVars>>

\* the cancelled coroutine finds its future done: the slot goes on
Abandon(r) ==
    /\ st[r] = "dropped"
    /\ Release(Leaves(r))
    /\ UNCHANGED <<ticket, sequence, limit, aborted, channelVars>>

-----------------------------------------------------------------------------
(* The channel: what an outcome does to the number of calls allowed.       *)

ReportCongestion ==
    /\ \/ /\ cooling
          /\ UNCHANGED <<current, hits, cooling, healthy, slowStart>>
       \/ /\ ~cooling
          /\ hits = 0
          /\ hits' = 1
          /\ UNCHANGED <<current, cooling, healthy, slowStart>>
       \/ /\ ~cooling
          /\ hits > 0
          /\ hits' = 0
          /\ current' = Max2(1, current \div 2)
          /\ slowStart' = FALSE
          /\ cooling' = TRUE
          /\ healthy' = FALSE
    /\ UNCHANGED <<hard, auto>>

\* Mutation: slow start doubles past the ceiling.
ReportHealthyUncapped(elapsed) ==
    /\ \/ /\ cooling
          /\ UNCHANGED <<current, hits, healthy>>
       \/ /\ ~cooling
          /\ hits' = 0
          /\ healthy' = TRUE
          /\ current' = IF healthy /\ elapsed /\ current < hard
                        THEN IF auto /\ slowStart THEN current * 2 ELSE current + 1
                        ELSE current
    /\ UNCHANGED <<cooling, slowStart, hard, auto>>

\* elapsed: the healthy interval of the mode has passed
ReportHealthy(elapsed) ==
    /\ \/ /\ cooling
          /\ UNCHANGED <<current, hits, healthy>>
       \/ /\ ~cooling
          /\ hits' = 0
          /\ healthy' = TRUE
          /\ current' = IF healthy /\ elapsed /\ current < hard
                        THEN Min2(hard, IF auto /\ slowStart THEN current * 2
                                                             ELSE current + 1)
                        ELSE current
    /\ UNCHANGED <<cooling, slowStart, hard, auto>>

Signals == {"healthy", "congested", "none"}

Report(signal) ==
    \/ signal = "healthy"   /\ \E elapsed \in BOOLEAN : ReportHealthy(elapsed)
    \/ signal = "congested" /\ ReportCongestion
    \/ signal = "none"      /\ UNCHANGED channelVars

\* low memory reports congestion even of a call that succeeded
Possible(failed, signal) ==
    /\ failed  => signal # "healthy"
    /\ ~failed => signal # "none"

\* a provider attempt nested in the lease of a structured operation
Attempt(r) ==
    /\ st[r] = "running"
    /\ r \in Batch
    /\ ~aborted
    /\ \E signal \in Signals : Report(signal)
    /\ UNCHANGED <<gateVars, aborted>>

\* the operation returns or raises: on_failure, the report, the release
Finish(r) ==
    /\ st[r] = "running"
    /\ \E failed \in BOOLEAN, signal \in Signals :
          /\ Possible(failed, signal)
          /\ Report(signal)
          /\ aborted' = (aborted \/ (failed /\ r \in Batch))
    /\ Release(Leaves(r))
    /\ UNCHANGED <<ticket, sequence, limit>>

Cooled ==
    /\ cooling
    /\ cooling' = FALSE
    /\ UNCHANGED <<gateVars, aborted, hard, auto, current, hits, healthy, slowStart>>

\* the settings are saved: reload_limits_from_settings, then
\* reload_generation_limits
Reload(ceiling, mode) ==
    LET cur == CASE ceiling < current -> ceiling
                 [] /\ ~mode
                    /\ ceiling > hard
                    /\ current < ceiling
                    /\ ~cooling -> ceiling
                 [] OTHER -> current
        want == Desired(cur, ceiling)
    IN
    /\ hard' = ceiling
    /\ auto' = mode
    /\ current' = cur
    /\ limit' = want
    /\ \E G \in SUBSET Live :
          /\ Granted(G, Room(want))
          /\ st' = Wake(st, G)
          /\ active' = active + Cardinality(G)
          /\ heap' = HeapAfter(G, Room(want))
    /\ UNCHANGED <<ticket, sequence, aborted, hits, cooling, healthy, slowStart>>

Next ==
    \/ \E r \in Requests : Acquire(r) \/ Resume(r) \/ Cancel(r) \/ Abandon(r)
                           \/ Attempt(r) \/ Finish(r)
    \/ Cooled
    \/ \E ceiling \in HardLimits, mode \in BOOLEAN : Reload(ceiling, mode)

\* the event loop runs what is ready, and a provider call ends: every stream
\* is read under the total timeout of the request
Fairness == \A r \in Requests : WF_vars(Resume(r)) /\ WF_vars(Abandon(r))
                                /\ WF_vars(Finish(r))

Spec == Init /\ [][Next]_vars /\ Fairness

=============================================================================
