--------------------------- MODULE CallGate_proofs ---------------------------
(***************************************************************************)
(* The priority gate counts its slots exactly and never lets a request     *)
(* queue beside a free one, for any number of requests, any priorities and *)
(* any settings.                                                           *)
(***************************************************************************)
EXTENDS CallGateProperties, FiniteSetTheorems, TLAPS

\* the requests a slot is counted for, when the statuses are those of s
BusyIn(s) == {r \in Requests : s[r] \in {"woken", "dropped", "running"}}

\* What the gate keeps on every step.  The heap is stronger than its pending
\* futures: even a cancelled future left in it implies that the gate is full,
\* which is what lets acquire look at the heap alone.
GateInv ==
    /\ st \in [Requests -> Status]
    /\ ticket \in [Requests -> Nat]
    /\ heap \subseteq Requests
    /\ sequence \in Nat
    /\ limit \in 1 .. MaxLimit
    /\ active \in Nat
    /\ active = Cardinality(BusyIn(st))
    /\ heap # {} => active >= limit
    /\ \A r \in heap : st[r] \in {"waiting", "cancelled"}
    /\ \A r \in Requests : st[r] = "waiting" => r \in heap

ChannelInv ==
    /\ aborted \in BOOLEAN
    /\ hard \in HardLimits
    /\ auto \in BOOLEAN
    /\ current \in 1 .. hard
    /\ hits \in {0, 1}
    /\ cooling \in BOOLEAN
    /\ healthy \in BOOLEAN
    /\ slowStart \in BOOLEAN

IInv == GateInv /\ ChannelInv

-----------------------------------------------------------------------------
(* Counting.                                                               *)

LEMMA Finite ==
  ASSUME NEW s
  PROVE  /\ IsFiniteSet(BusyIn(s))
         /\ Cardinality(BusyIn(s)) \in Nat
BY GateAssumption, FS_Subset, FS_CardinalityType DEF BusyIn

\* Waking the set G of waiting requests takes exactly one slot for each.
LEMMA WakeCounts ==
  ASSUME NEW s \in [Requests -> Status], NEW G \in SUBSET Requests,
         \A g \in G : s[g] = "waiting"
  PROVE  /\ Wake(s, G) \in [Requests -> Status]
         /\ Cardinality(BusyIn(Wake(s, G))) = Cardinality(BusyIn(s)) + Cardinality(G)
<1>1. Wake(s, G) \in [Requests -> Status]
  BY DEF Wake, Status
<1>2. BusyIn(Wake(s, G)) = BusyIn(s) \cup G
  BY DEF BusyIn, Wake
<1>3. BusyIn(s) \cap G = {}
  BY DEF BusyIn
<1>4. IsFiniteSet(G)
  BY GateAssumption, FS_Subset
<1>5. Cardinality(BusyIn(s) \cap G) = 0
  BY <1>3, FS_EmptySet
<1>6. Cardinality(G) \in Nat /\ Cardinality(BusyIn(s)) \in Nat
  BY <1>4, FS_CardinalityType, Finite
<1>7. Cardinality(BusyIn(s) \cup G)
        = Cardinality(BusyIn(s)) + Cardinality(G) - Cardinality(BusyIn(s) \cap G)
  BY <1>4, Finite, FS_Union
<1>. QED BY <1>1, <1>2, <1>5, <1>6, <1>7

\* One request takes a slot, or gives its slot up.
LEMMA OneCounts ==
  ASSUME NEW s \in [Requests -> Status], NEW r \in Requests, NEW v \in Status
  PROVE  /\ [s EXCEPT ![r] = v] \in [Requests -> Status]
         /\ LET t == [s EXCEPT ![r] = v] IN
              /\ r \notin BusyIn(s) /\ v = "running"
                   => Cardinality(BusyIn(t)) = Cardinality(BusyIn(s)) + 1
              /\ r \in BusyIn(s) /\ v = "done"
                   => Cardinality(BusyIn(t)) = Cardinality(BusyIn(s)) - 1
              /\ (r \in BusyIn(s) <=> v \in {"woken", "dropped", "running"})
                   => BusyIn(t) = BusyIn(s)
<1> DEFINE t == [s EXCEPT ![r] = v]
<1>1. t \in [Requests -> Status]
  OBVIOUS
<1>2. ASSUME r \notin BusyIn(s), v = "running"
      PROVE  Cardinality(BusyIn(t)) = Cardinality(BusyIn(s)) + 1
  <2>1. BusyIn(t) = BusyIn(s) \cup {r}
    BY <1>2 DEF BusyIn
  <2>. QED BY <2>1, <1>2, Finite, FS_AddElement
<1>3. ASSUME r \in BusyIn(s), v = "done"
      PROVE  Cardinality(BusyIn(t)) = Cardinality(BusyIn(s)) - 1
  <2>1. BusyIn(t) = BusyIn(s) \ {r}
    BY <1>3 DEF BusyIn
  <2>. QED BY <2>1, <1>3, Finite, FS_RemoveElement
<1>4. ASSUME r \in BusyIn(s) <=> v \in {"woken", "dropped", "running"}
      PROVE  BusyIn(t) = BusyIn(s)
  BY <1>4 DEF BusyIn
<1>. QED BY <1>1, <1>2, <1>3, <1>4

-----------------------------------------------------------------------------
(* The heap.                                                               *)

\* What popping for n grants leaves: the requests passed over stay in the
\* heap, those granted are out of it, and if anything is left then all n
\* grants were made.
LEMMA GrantFacts ==
  ASSUME GateInv, NEW n \in Nat, NEW G \in SUBSET Live, Granted(G, n)
  PROVE  /\ G \subseteq Requests
         /\ \A g \in G : st[g] = "waiting"
         /\ Cardinality(G) \in Nat
         /\ Cardinality(G) <= n
         /\ HeapAfter(G, n) \subseteq heap
         /\ HeapAfter(G, n) # {} => Cardinality(G) = n
         /\ Live \ G \subseteq HeapAfter(G, n)
         /\ HeapAfter(G, n) \cap G = {}
<1>1. G \subseteq Requests /\ Live \subseteq Requests /\ \A g \in G : st[g] = "waiting"
  BY DEF Live, GateInv
<1>2. IsFiniteSet(Live) /\ IsFiniteSet(G)
  BY <1>1, GateAssumption, FS_Subset
<1>3. Cardinality(G) \in Nat /\ Cardinality(Live) \in Nat
  BY <1>2, FS_CardinalityType
<1>4. Cardinality(G) = Min2(n, Cardinality(Live))
  BY DEF Granted
<1>5. Cardinality(G) <= n
  BY <1>3, <1>4 DEF Min2
<1>6. HeapAfter(G, n) \subseteq heap
  BY DEF HeapAfter
<1>7. HeapAfter(G, n) # {} => Cardinality(G) = n
  BY <1>3, <1>5 DEF HeapAfter
<1>8. Live \ G \subseteq HeapAfter(G, n)
  <2>1. CASE Cardinality(G) < n
    <3>1. Cardinality(G) = Cardinality(Live)
      BY <2>1, <1>3, <1>4 DEF Min2
    <3>2. G = Live
      BY <3>1, <1>2, FS_Subset
    <3>. QED BY <3>2
  <2>2. CASE ~(Cardinality(G) < n)
    BY <2>2 DEF HeapAfter, Granted, Live
  <2>. QED BY <2>1, <2>2
<1>9. HeapAfter(G, n) \cap G = {}
  <2> SUFFICES ASSUME NEW g \in G, g \in HeapAfter(G, n) PROVE FALSE
    OBVIOUS
  <2>1. Before(g, g)
    BY DEF HeapAfter
  <2>2. Priority[g] \in Nat /\ ticket[g] \in Nat
    BY <1>1, GateAssumption DEF GateInv
  <2>. QED BY <2>1, <2>2 DEF Before
<1>. QED BY <1>1, <1>3, <1>5, <1>6, <1>7, <1>8, <1>9

LEMMA RoomFacts ==
  ASSUME GateInv, NEW new \in 1 .. MaxLimit
  PROVE  /\ Room(new) \in Nat
         /\ Room(new) = 0 \/ active + Room(new) = new
         /\ new > limit => active + Room(new) >= new
BY GateAssumption DEF Room, Max2, GateInv

LEMMA ChannelNat ==
  ASSUME ChannelInv
  PROVE  current \in Nat \ {0} /\ hard \in Nat \ {0} /\ current <= hard
<1>1. hard \in Nat \ {0}
  BY GateAssumption DEF ChannelInv
<1>2. current \in 1 .. hard
  BY DEF ChannelInv
<1>. QED BY <1>1, <1>2

LEMMA DesiredType ==
  ASSUME NEW c \in Nat, NEW h \in Nat
  PROVE  Desired(c, h) \in 1 .. MaxLimit
BY GateAssumption DEF Desired, Min2, Max2

\* After a resize to want, an occupied heap means want slots are taken.
LEMMA ResizeFills ==
  ASSUME GateInv, NEW want \in 1 .. MaxLimit, NEW G \in SUBSET Live,
         Granted(G, Room(want)), HeapAfter(G, Room(want)) # {}
  PROVE  active + Cardinality(G) >= want
<1>1. /\ Cardinality(G) = Room(want)
      /\ heap # {}
      /\ Room(want) \in Nat
      /\ want > limit => active + Room(want) >= want
  BY GrantFacts, RoomFacts
<1>2. active >= limit /\ active \in Nat /\ limit \in Nat
  BY <1>1 DEF GateInv
<1>. QED BY <1>1, <1>2

-----------------------------------------------------------------------------
(* Steps of the gate.                                                      *)

\* A request that owns a slot gives it up: to the first pending future, to
\* nobody when the gate is above its limit, or back to the pool.
LEMMA ReleaseKeeps ==
  ASSUME GateInv, NEW r \in Requests, r \in BusyIn(st), Release(Leaves(r)),
         UNCHANGED <<ticket, sequence, limit>>
  PROVE  GateInv'
<1> DEFINE s == Leaves(r)
<1>1. /\ s \in [Requests -> Status]
      /\ Cardinality(BusyIn(s)) = Cardinality(BusyIn(st)) - 1
  BY OneCounts DEF Leaves, GateInv, Status
<1>2. active \in Nat /\ active >= 1 /\ limit \in 1 .. MaxLimit /\ limit \in Nat
  <2>1. Cardinality(BusyIn(s)) \in Nat
    BY Finite
  <2>. QED BY <2>1, <1>1 DEF GateInv
<1>3. \A q \in Requests : q # r => s[q] = st[q]
  BY DEF Leaves, GateInv
<1>4. st[r] \in {"woken", "dropped", "running"} /\ r \notin heap
  BY DEF BusyIn, GateInv
<1>4a. s[r] = "done"
  BY DEF Leaves, GateInv
<1>5. CASE /\ active > limit
           /\ active' = active - 1
           /\ st' = s
           /\ heap' = heap
  <2>1. \A q \in heap : st'[q] \in {"waiting", "cancelled"}
    BY <1>5, <1>3, <1>4 DEF GateInv
  <2>2. \A q \in Requests : st'[q] = "waiting" => q \in heap'
    BY <1>5, <1>3, <1>4a DEF GateInv
  <2>3. heap' # {} => active' >= limit'
    BY <1>5, <1>2
  <2>. QED BY <2>1, <2>2, <2>3, <1>1, <1>2, <1>5 DEF GateInv
<1>6. ASSUME active <= limit,
             NEW G \in SUBSET Live,
             Granted(G, 1),
             st' = Wake(s, G),
             heap' = HeapAfter(G, 1),
             active' = IF G = {} THEN Max2(0, active - 1) ELSE active
      PROVE  GateInv'
  <2>1. /\ G \subseteq Requests
        /\ \A g \in G : st[g] = "waiting"
        /\ Cardinality(G) \in Nat
        /\ Cardinality(G) <= 1
        /\ HeapAfter(G, 1) \subseteq heap
        /\ HeapAfter(G, 1) # {} => Cardinality(G) = 1
        /\ Live \ G \subseteq HeapAfter(G, 1)
        /\ HeapAfter(G, 1) \cap G = {}
    BY <1>6, GrantFacts
  <2>2. r \notin G /\ \A g \in G : s[g] = "waiting"
    BY <2>1, <1>3, <1>4
  <2>3. /\ st' \in [Requests -> Status]
        /\ Cardinality(BusyIn(st')) = active - 1 + Cardinality(G)
    BY <2>1, <2>2, <1>1, <1>6, WakeCounts DEF GateInv
  <2>4. IsFiniteSet(G)
    BY <2>1, GateAssumption, FS_Subset
  <2>5. G = {} => Cardinality(G) = 0
    BY FS_EmptySet
  <2>6. G # {} => Cardinality(G) = 1
    BY <2>1, <2>4, FS_EmptySet
  <2>7. active' \in Nat /\ active' = Cardinality(BusyIn(st'))
    BY <2>3, <2>5, <2>6, <1>2, <1>6 DEF Max2
  <2>8. heap' # {} => active' >= limit'
    <3> SUFFICES ASSUME heap' # {} PROVE active' >= limit'
      OBVIOUS
    <3>1. Cardinality(G) = 1 /\ heap # {}
      BY <2>1, <1>6
    <3>2. G # {}
      BY <3>1, <2>5
    <3>. QED BY <3>1, <3>2, <1>6 DEF GateInv
  <2>9. \A q \in heap' : st'[q] \in {"waiting", "cancelled"}
    <3> SUFFICES ASSUME NEW q \in heap' PROVE st'[q] \in {"waiting", "cancelled"}
      OBVIOUS
    <3>1. q \in heap /\ q \notin G /\ q \in Requests /\ q # r
      BY <2>1, <1>4, <1>6 DEF GateInv
    <3>2. st'[q] = st[q]
      BY <3>1, <1>3, <1>6 DEF Wake
    <3>. QED BY <3>1, <3>2 DEF GateInv
  <2>10. \A q \in Requests : st'[q] = "waiting" => q \in heap'
    <3> SUFFICES ASSUME NEW q \in Requests, st'[q] = "waiting" PROVE q \in heap'
      OBVIOUS
    <3>1. q \notin G /\ s[q] = "waiting"
      BY <1>6 DEF Wake
    <3>2. q # r /\ st[q] = "waiting"
      BY <3>1, <1>3, <1>4a
    <3>3. q \in Live
      BY <3>2 DEF Live, GateInv
    <3>. QED BY <3>1, <3>3, <2>1, <1>6
  <2>11. heap' \subseteq Requests
    BY <2>1, <1>6 DEF GateInv
  <2>. QED BY <2>3, <2>7, <2>8, <2>9, <2>10, <2>11, <1>2 DEF GateInv
<1>. QED BY <1>5, <1>6 DEF Release

\* A new limit wakes those that fit under it.
LEMMA ResizeKeeps ==
  ASSUME GateInv, NEW want \in 1 .. MaxLimit, NEW G \in SUBSET Live,
         Granted(G, Room(want)), UNCHANGED <<ticket, sequence>>,
         limit' = want,
         st' = Wake(st, G),
         active' = active + Cardinality(G),
         heap' = HeapAfter(G, Room(want))
  PROVE  GateInv'
<1>1. /\ G \subseteq Requests
      /\ \A g \in G : st[g] = "waiting"
      /\ Cardinality(G) \in Nat
      /\ heap' \subseteq heap
      /\ Live \ G \subseteq heap'
      /\ heap' \cap G = {}
  BY RoomFacts, GrantFacts
<1>2. /\ st' \in [Requests -> Status]
      /\ Cardinality(BusyIn(st')) = active + Cardinality(G)
  BY <1>1, WakeCounts DEF GateInv
<1>3. heap' # {} => active' >= limit'
  BY ResizeFills
<1>4. \A q \in heap' : st'[q] \in {"waiting", "cancelled"}
  BY <1>1 DEF Wake, GateInv
<1>5. \A q \in Requests : st'[q] = "waiting" => q \in heap'
  BY <1>1 DEF Wake, Live, GateInv
<1>. QED BY <1>1, <1>2, <1>3, <1>4, <1>5 DEF GateInv

LEMMA AcquireKeeps ==
  ASSUME IInv, NEW r \in Requests, Acquire(r)
  PROVE  IInv'
<1> DEFINE want == Desired(current, hard)
<1>0. GateInv /\ ChannelInv /\ r \notin heap /\ r \notin BusyIn(st) /\ r \notin Live
  BY DEF IInv, GateInv, Acquire, BusyIn, Live
<1>1. want \in 1 .. MaxLimit
  BY <1>0, DesiredType, ChannelNat
<1>2. ChannelInv'
  BY <1>0 DEF Acquire, ChannelInv, channelVars
<1>3. PICK G \in SUBSET Live :
          /\ Granted(G, Room(want))
          /\ limit' = want
          /\ \/ /\ active + Cardinality(G) < want
                /\ HeapAfter(G, Room(want)) = {}
                /\ st' = Wake([st EXCEPT ![r] =
                                 IF Refused(r) THEN "done" ELSE "running"], G)
                /\ active' = active + Cardinality(G)
                                    + (IF Refused(r) THEN 0 ELSE 1)
                /\ heap' = {}
                /\ UNCHANGED <<ticket, sequence>>
             \/ /\ \/ active + Cardinality(G) >= want
                   \/ HeapAfter(G, Room(want)) # {}
                /\ sequence' = sequence + 1
                /\ ticket' = [ticket EXCEPT ![r] = sequence + 1]
                /\ heap' = HeapAfter(G, Room(want)) \cup {r}
                /\ st' = Wake([st EXCEPT ![r] = "waiting"], G)
                /\ active' = active + Cardinality(G)
  BY DEF Acquire
<1>4. /\ G \subseteq Requests
      /\ \A g \in G : st[g] = "waiting"
      /\ Cardinality(G) \in Nat
      /\ HeapAfter(G, Room(want)) \subseteq heap
      /\ Live \ G \subseteq HeapAfter(G, Room(want))
      /\ HeapAfter(G, Room(want)) \cap G = {}
      /\ r \notin G
  BY <1>0, <1>1, <1>3, RoomFacts, GrantFacts
<1>5. /\ st \in [Requests -> Status]
      /\ active \in Nat
      /\ active = Cardinality(BusyIn(st))
      /\ want \in Nat
  BY <1>0, <1>1 DEF GateInv
<1>6. CASE /\ active + Cardinality(G) < want
           /\ HeapAfter(G, Room(want)) = {}
           /\ st' = Wake([st EXCEPT ![r] =
                            IF Refused(r) THEN "done" ELSE "running"], G)
           /\ active' = active + Cardinality(G)
                               + (IF Refused(r) THEN 0 ELSE 1)
           /\ heap' = {}
           /\ UNCHANGED <<ticket, sequence>>
  <2> DEFINE v == IF Refused(r) THEN "done" ELSE "running"
             s == [st EXCEPT ![r] = v]
  <2>1. /\ s \in [Requests -> Status]
        /\ Cardinality(BusyIn(s)) = active + (IF Refused(r) THEN 0 ELSE 1)
    <3>1. CASE Refused(r)
      <4>1. BusyIn([st EXCEPT ![r] = "done"]) = BusyIn(st)
        BY <1>0, <1>5, OneCounts DEF Status
      <4>. QED BY <4>1, <3>1, <1>5 DEF Status
    <3>2. CASE ~Refused(r)
      <4>1. Cardinality(BusyIn([st EXCEPT ![r] = "running"])) = active + 1
        BY <1>0, <1>5, OneCounts DEF Status
      <4>. QED BY <4>1, <3>2, <1>5 DEF Status
    <3>. QED BY <3>1, <3>2
  <2>2. \A g \in G : s[g] = "waiting"
    BY <1>4, <1>5
  <2>3. /\ st' \in [Requests -> Status]
        /\ Cardinality(BusyIn(st')) = Cardinality(BusyIn(s)) + Cardinality(G)
    BY <2>1, <2>2, <1>4, <1>6, WakeCounts
  <2>4. active' \in Nat /\ active' = Cardinality(BusyIn(st'))
    BY <2>1, <2>3, <1>4, <1>5, <1>6
  <2>5. \A q \in Requests : st'[q] # "waiting"
    <3> SUFFICES ASSUME NEW q \in Requests, st'[q] = "waiting" PROVE FALSE
      OBVIOUS
    <3>1. q \notin G /\ s[q] = "waiting"
      BY <1>6 DEF Wake
    <3>2. q # r /\ st[q] = "waiting"
      BY <3>1, <1>5
    <3>3. q \in Live \ G
      BY <3>1, <3>2, <1>0 DEF Live, GateInv
    <3>. QED BY <3>3, <1>4, <1>6
  <2>6. limit' \in 1 .. MaxLimit /\ ticket' \in [Requests -> Nat] /\ sequence' \in Nat
    BY <1>0, <1>1, <1>3, <1>6 DEF GateInv
  <2>. QED BY <2>3, <2>4, <2>5, <2>6, <1>2, <1>6 DEF IInv, GateInv
<1>7. CASE /\ \/ active + Cardinality(G) >= want
              \/ HeapAfter(G, Room(want)) # {}
           /\ sequence' = sequence + 1
           /\ ticket' = [ticket EXCEPT ![r] = sequence + 1]
           /\ heap' = HeapAfter(G, Room(want)) \cup {r}
           /\ st' = Wake([st EXCEPT ![r] = "waiting"], G)
           /\ active' = active + Cardinality(G)
  <2> DEFINE s == [st EXCEPT ![r] = "waiting"]
  <2>1. s \in [Requests -> Status] /\ BusyIn(s) = BusyIn(st)
    BY <1>0, <1>5, OneCounts DEF Status
  <2>2. \A g \in G : s[g] = "waiting"
    BY <1>4, <1>5
  <2>3. /\ st' \in [Requests -> Status]
        /\ Cardinality(BusyIn(st')) = active + Cardinality(G)
    BY <2>1, <2>2, <1>4, <1>5, <1>7, WakeCounts
  <2>4. active' >= limit'
    <3>1. active + Cardinality(G) >= want
      BY <1>0, <1>1, <1>3, <1>7, ResizeFills
    <3>. QED BY <3>1, <1>3, <1>7
  <2>5. \A q \in heap' : st'[q] \in {"waiting", "cancelled"}
    <3> SUFFICES ASSUME NEW q \in heap' PROVE st'[q] \in {"waiting", "cancelled"}
      OBVIOUS
    <3>1. CASE q = r
      BY <3>1, <1>4, <1>5, <1>7 DEF Wake
    <3>2. CASE q # r
      <4>1. q \in heap /\ q \in Requests /\ q \notin G
        BY <3>2, <1>0, <1>4, <1>7 DEF GateInv
      <4>2. st'[q] = st[q]
        BY <4>1, <3>2, <1>5, <1>7 DEF Wake
      <4>. QED BY <4>1, <4>2, <1>0 DEF GateInv
    <3>. QED BY <3>1, <3>2
  <2>6. \A q \in Requests : st'[q] = "waiting" => q \in heap'
    <3> SUFFICES ASSUME NEW q \in Requests, st'[q] = "waiting", q # r PROVE q \in heap'
      BY <1>7
    <3>1. q \notin G /\ st[q] = "waiting"
      BY <1>5, <1>7 DEF Wake
    <3>2. q \in Live \ G
      BY <3>1, <1>0 DEF Live, GateInv
    <3>. QED BY <3>2, <1>4, <1>7
  <2>7. /\ limit' \in 1 .. MaxLimit
        /\ ticket' \in [Requests -> Nat]
        /\ sequence' \in Nat
        /\ heap' \subseteq Requests
        /\ active' \in Nat
    BY <1>0, <1>1, <1>3, <1>4, <1>5, <1>7 DEF GateInv
  <2>. QED BY <2>3, <2>4, <2>5, <2>6, <2>7, <1>2, <1>7 DEF IInv, GateInv
<1>. QED BY <1>3, <1>6, <1>7

-----------------------------------------------------------------------------
(* Steps of the channel.                                                   *)

LEMMA ReportKeeps ==
  ASSUME ChannelInv, NEW signal \in Signals, Report(signal), aborted' \in BOOLEAN
  PROVE  ChannelInv'
<1>1. current \in Nat \ {0} /\ hard \in Nat \ {0} /\ current <= hard
  BY ChannelNat
<1>2. ASSUME NEW elapsed \in BOOLEAN, ReportHealthy(elapsed)
      PROVE  ChannelInv'
  <2>1. hard' = hard /\ auto' = auto /\ cooling' = cooling /\ slowStart' = slowStart
    BY <1>2 DEF ReportHealthy
  <2>2. current' \in 1 .. hard
    BY <1>1, <1>2 DEF ReportHealthy, Min2
  <2>3. hits' \in {0, 1} /\ healthy' \in BOOLEAN
    BY <1>2 DEF ReportHealthy, ChannelInv
  <2>. QED BY <2>1, <2>2, <2>3 DEF ChannelInv
<1>3. ASSUME ReportCongestion
      PROVE  ChannelInv'
  <2>1. hard' = hard /\ auto' = auto
    BY <1>3 DEF ReportCongestion
  <2>2. current' \in 1 .. hard
    BY <1>1, <1>3 DEF ReportCongestion, Max2
  <2>3. /\ hits' \in {0, 1}
        /\ healthy' \in BOOLEAN
        /\ cooling' \in BOOLEAN
        /\ slowStart' \in BOOLEAN
    BY <1>3 DEF ReportCongestion, ChannelInv
  <2>. QED BY <2>1, <2>2, <2>3 DEF ChannelInv
<1>4. ASSUME UNCHANGED channelVars
      PROVE  ChannelInv'
  BY <1>4 DEF channelVars, ChannelInv
<1>. QED BY <1>2, <1>3, <1>4 DEF Report

LEMMA ReloadKeeps ==
  ASSUME IInv, NEW ceiling \in HardLimits, NEW mode \in BOOLEAN, Reload(ceiling, mode)
  PROVE  IInv'
<1> DEFINE cur  == CASE ceiling < current -> ceiling
                     [] /\ ~mode
                        /\ ceiling > hard
                        /\ current < ceiling
                        /\ ~cooling -> ceiling
                     [] OTHER -> current
           want == Desired(cur, ceiling)
<1>1. GateInv /\ ChannelInv
  BY DEF IInv
<1>2. current \in Nat \ {0} /\ hard \in Nat \ {0} /\ ceiling \in Nat \ {0}
  BY <1>1, ChannelNat, GateAssumption
<1>3. cur \in 1 .. ceiling /\ cur \in Nat
  BY <1>2
<1>4. want \in 1 .. MaxLimit
  BY <1>2, <1>3, DesiredType
<1>5. /\ hard' = ceiling /\ auto' = mode /\ current' = cur /\ limit' = want
      /\ UNCHANGED <<ticket, sequence, aborted, hits, cooling, healthy, slowStart>>
      /\ \E G \in SUBSET Live :
            /\ Granted(G, Room(want))
            /\ st' = Wake(st, G)
            /\ active' = active + Cardinality(G)
            /\ heap' = HeapAfter(G, Room(want))
  BY DEF Reload
<1>6. ChannelInv'
  BY <1>1, <1>3, <1>5 DEF ChannelInv
<1>7. GateInv'
  BY <1>1, <1>4, <1>5, ResizeKeeps
<1>. QED BY <1>6, <1>7 DEF IInv

-----------------------------------------------------------------------------
(* The inductive invariant.                                                *)

LEMMA InitHolds == ASSUME Init PROVE IInv
<1>1. StartLimit \in Nat \ {0} /\ hard \in Nat \ {0}
  BY GateAssumption DEF Init
<1>2. current \in 1 .. hard
  BY <1>1 DEF Init, Min2
<1>3. ChannelInv
  BY <1>2 DEF Init, ChannelInv
<1>4. limit \in 1 .. MaxLimit
  BY <1>3, ChannelNat, DesiredType DEF Init
<1>5. BusyIn(st) = {}
  BY DEF Init, BusyIn
<1>6. active = Cardinality(BusyIn(st))
  BY <1>5, FS_EmptySet DEF Init
<1>7. GateInv
  BY <1>4, <1>6 DEF Init, GateInv, Status
<1>. QED BY <1>3, <1>7 DEF IInv

LEMMA StepHolds == ASSUME IInv, [Next]_vars PROVE IInv'
<1>0. GateInv /\ ChannelInv
  BY DEF IInv
<1>1. ASSUME NEW r \in Requests, Acquire(r) PROVE IInv'
  BY <1>1, AcquireKeeps
<1>2. ASSUME NEW r \in Requests, Resume(r) PROVE IInv'
  <2>1. ChannelInv'
    BY <1>0, <1>2 DEF Resume, ChannelInv, channelVars
  <2>2. r \in BusyIn(st)
    BY <1>2 DEF Resume, BusyIn
  <2>3. CASE Release(Leaves(r))
    BY <2>1, <2>2, <2>3, <1>0, <1>2, ReleaseKeeps DEF Resume, IInv
  <2>4. CASE st' = [st EXCEPT ![r] = "running"] /\ UNCHANGED <<heap, active>>
    <3>1. st' \in [Requests -> Status] /\ BusyIn(st') = BusyIn(st)
      BY <2>2, <2>4, <1>0, OneCounts DEF GateInv, Status
    <3>2. \A q \in Requests : q # r => st'[q] = st[q]
      BY <2>4, <1>0 DEF GateInv
    <3>3. r \notin heap /\ st'[r] = "running"
      BY <2>4, <1>0, <1>2 DEF Resume, GateInv
    <3>. QED BY <2>1, <2>4, <3>1, <3>2, <3>3, <1>0, <1>2 DEF Resume, IInv, GateInv
  <2>. QED BY <2>3, <2>4, <1>2 DEF Resume
<1>3. ASSUME NEW r \in Requests, Cancel(r) PROVE IInv'
  <2> DEFINE v == IF st[r] = "waiting" THEN "cancelled" ELSE "dropped"
  <2>1. ChannelInv'
    BY <1>0, <1>3 DEF Cancel, ChannelInv, channelVars
  <2>2. v \in Status /\ (r \in BusyIn(st) <=> v \in {"woken", "dropped", "running"})
    BY <1>3 DEF Cancel, BusyIn, Status
  <2>3. st' \in [Requests -> Status] /\ BusyIn(st') = BusyIn(st)
    BY <2>2, <1>0, <1>3, OneCounts DEF Cancel, GateInv
  <2>4. \A q \in Requests : q # r => st'[q] = st[q]
    BY <1>0, <1>3 DEF Cancel, GateInv
  <2>5. st'[r] = v /\ v # "waiting" /\ (r \in heap => v = "cancelled")
    BY <1>0, <1>3 DEF Cancel, GateInv
  <2>. QED BY <2>1, <2>3, <2>4, <2>5, <1>0, <1>3 DEF Cancel, IInv, GateInv
<1>4. ASSUME NEW r \in Requests, Abandon(r) PROVE IInv'
  <2>1. ChannelInv'
    BY <1>0, <1>4 DEF Abandon, ChannelInv, channelVars
  <2>2. r \in BusyIn(st)
    BY <1>4 DEF Abandon, BusyIn
  <2>. QED BY <2>1, <2>2, <1>0, <1>4, ReleaseKeeps DEF Abandon, IInv
<1>5. ASSUME NEW r \in Requests, Attempt(r) PROVE IInv'
  <2>1. ChannelInv'
    BY <1>0, <1>5, ReportKeeps DEF Attempt, ChannelInv
  <2>2. GateInv'
    BY <1>0, <1>5 DEF Attempt, gateVars, GateInv, BusyIn
  <2>. QED BY <2>1, <2>2 DEF IInv
<1>6. ASSUME NEW r \in Requests, Finish(r) PROVE IInv'
  <2>1. ChannelInv'
    <3>1. PICK failed \in BOOLEAN, signal \in Signals :
            Report(signal) /\ aborted' = (aborted \/ (failed /\ r \in Batch))
      BY <1>6 DEF Finish
    <3>2. aborted' \in BOOLEAN
      BY <3>1
    <3>. QED BY <3>1, <3>2, <1>0, ReportKeeps
  <2>2. r \in BusyIn(st)
    BY <1>6 DEF Finish, BusyIn
  <2>. QED BY <2>1, <2>2, <1>0, <1>6, ReleaseKeeps DEF Finish, IInv
<1>7. ASSUME Cooled PROVE IInv'
  BY <1>0, <1>7 DEF Cooled, gateVars, IInv, GateInv, ChannelInv, BusyIn
<1>8. ASSUME NEW ceiling \in HardLimits, NEW mode \in BOOLEAN, Reload(ceiling, mode)
      PROVE  IInv'
  BY <1>8, ReloadKeeps
<1>9. CASE UNCHANGED vars
  BY <1>0, <1>9 DEF vars, gateVars, channelVars, IInv, GateInv, ChannelInv, BusyIn
<1>. QED BY <1>1, <1>2, <1>3, <1>4, <1>5, <1>6, <1>7, <1>8, <1>9 DEF Next

LEMMA Always == Spec => []IInv
BY InitHolds, StepHolds, PTL DEF Spec

\* The types, and the channel between one call and its ceiling.
THEOREM TypeCorrect == Spec => []TypeOK
<1>1. IInv => TypeOK
  BY DEF IInv, GateInv, ChannelInv, TypeOK
<1>. QED BY <1>1, Always, PTL

\* gate.active is the number of requests that own a slot.
THEOREM SlotsAreCounted == Spec => []SlotsCounted
<1>1. IInv => SlotsCounted
  BY DEF IInv, GateInv, SlotsCounted, Busy, BusyIn
<1>. QED BY <1>1, Always, PTL

\* No request queues beside a free slot.
THEOREM NobodyQueuesBesideAFreeSlot == Spec => [](NoIdleSlot /\ WaitersQueued)
<1>1. IInv => NoIdleSlot /\ WaitersQueued
  BY DEF IInv, GateInv, NoIdleSlot, WaitersQueued, Live
<1>. QED BY <1>1, Always, PTL

-----------------------------------------------------------------------------
(* Who a step lets in.                                                     *)

\* What the two action properties say of one step.
LetIn ==
    /\ (Busy' \ Busy) # {} => active' <= limit'
    /\ \A x \in Busy' \ Busy, q \in Live \cap Live' :
          st[x] = "waiting" /\ Before(x, q)

LEMMA NobodyLetIn ==
  ASSUME Busy' \subseteq Busy
  PROVE  LetIn
BY DEF LetIn

\* Those woken by popping are in front of those left waiting.
LEMMA GrantedFirst ==
  ASSUME GateInv, NEW n \in Nat, NEW G \in SUBSET Live, Granted(G, n),
         NEW x \in G, NEW q \in Live \cap Live',
         st'[q] = "waiting" => q \notin G
  PROVE  st[x] = "waiting" /\ Before(x, q)
<1>1. st'[q] = "waiting" /\ q \in Live \ G
  BY DEF Live
<1>. QED BY <1>1 DEF Granted, Live

LEMMA ReleaseLetsIn ==
  ASSUME GateInv, NEW r \in Requests, r \in BusyIn(st), Release(Leaves(r)), limit' = limit
  PROVE  LetIn
<1> DEFINE s == Leaves(r)
<1>1. \A q \in Requests : q # r => s[q] = st[q]
  BY DEF Leaves, GateInv
<1>2. s[r] = "done"
  BY DEF Leaves, GateInv
<1>3. CASE st' = s
  <2>1. Busy' \subseteq Busy
    BY <1>1, <1>2, <1>3 DEF Busy
  <2>. QED BY <2>1, NobodyLetIn
<1>4. ASSUME active <= limit, NEW G \in SUBSET Live, Granted(G, 1), st' = Wake(s, G),
             active' = IF G = {} THEN Max2(0, active - 1) ELSE active
      PROVE  LetIn
  <2>1. Busy' \ Busy \subseteq G
    BY <1>1, <1>2, <1>4 DEF Busy, Wake
  <2>2. active' <= limit'
    BY <1>4 DEF GateInv, Max2
  <2>3. ASSUME NEW x \in G, NEW q \in Live \cap Live'
        PROVE  st[x] = "waiting" /\ Before(x, q)
    <3>1. st'[q] = "waiting" => q \notin G
      BY <1>4 DEF Wake, Live, GateInv
    <3>. QED BY <3>1, <1>4, GrantedFirst
  <2>. QED BY <2>1, <2>2, <2>3 DEF LetIn
<1>. QED BY <1>3, <1>4 DEF Release

\* Any slot a resize hands out is a slot of the new limit.
LEMMA ResizeFits ==
  ASSUME GateInv, NEW want \in 1 .. MaxLimit, NEW G \in SUBSET Live,
         Granted(G, Room(want)), G # {}
  PROVE  active + Cardinality(G) <= want
<1>1. /\ G \subseteq Requests
      /\ Cardinality(G) \in Nat
      /\ Cardinality(G) <= Room(want)
      /\ Room(want) \in Nat
      /\ Room(want) = 0 \/ active + Room(want) = want
  BY RoomFacts, GrantFacts
<1>2. Cardinality(G) # 0
  BY <1>1, GateAssumption, FS_Subset, FS_EmptySet
<1>3. active \in Nat /\ want \in Nat
  BY DEF GateInv
<1>. QED BY <1>1, <1>2, <1>3

LEMMA ReloadLetsIn ==
  ASSUME IInv, NEW ceiling \in HardLimits, NEW mode \in BOOLEAN, Reload(ceiling, mode)
  PROVE  LetIn
<1> DEFINE cur  == CASE ceiling < current -> ceiling
                     [] /\ ~mode
                        /\ ceiling > hard
                        /\ current < ceiling
                        /\ ~cooling -> ceiling
                     [] OTHER -> current
           want == Desired(cur, ceiling)
<1>1. GateInv /\ ChannelInv
  BY DEF IInv
<1>2. current \in Nat /\ ceiling \in Nat
  BY <1>1, ChannelNat, GateAssumption
<1>3. cur \in Nat
  BY <1>2
<1>4. want \in 1 .. MaxLimit
  BY <1>2, <1>3, DesiredType
<1>5. PICK G \in SUBSET Live :
        /\ Granted(G, Room(want))
        /\ st' = Wake(st, G)
        /\ active' = active + Cardinality(G)
        /\ limit' = want
  BY DEF Reload
<1>6. CASE G = {}
  <2>1. Busy' \subseteq Busy
    BY <1>5, <1>6 DEF Busy, Wake
  <2>. QED BY <2>1, NobodyLetIn
<1>7. CASE G # {}
  <2>1. active' <= limit'
    BY <1>1, <1>4, <1>5, <1>7, ResizeFits
  <2>2. Busy' \ Busy \subseteq G
    BY <1>5 DEF Busy, Wake
  <2>3. ASSUME NEW x \in G, NEW q \in Live \cap Live'
        PROVE  st[x] = "waiting" /\ Before(x, q)
    <3>1. st'[q] = "waiting" => q \notin G
      BY <1>1, <1>5 DEF Wake, Live, GateInv
    <3>2. Room(want) \in Nat
      BY <1>1, <1>4, RoomFacts
    <3>. QED BY <3>1, <3>2, <1>1, <1>5, GrantedFirst
  <2>. QED BY <2>1, <2>2, <2>3 DEF LetIn
<1>. QED BY <1>6, <1>7

LEMMA AcquireLetsIn ==
  ASSUME IInv, NEW r \in Requests, Acquire(r)
  PROVE  LetIn
<1> DEFINE want == Desired(current, hard)
<1>0. GateInv /\ ChannelInv /\ r \notin Live /\ st[r] = "new"
  BY DEF IInv, GateInv, Acquire, Live
<1>1. want \in 1 .. MaxLimit /\ Room(want) \in Nat
  BY <1>0, DesiredType, ChannelNat, RoomFacts
<1>2. PICK G \in SUBSET Live :
          /\ Granted(G, Room(want))
          /\ limit' = want
          /\ \/ /\ active + Cardinality(G) < want
                /\ HeapAfter(G, Room(want)) = {}
                /\ active' = active + Cardinality(G)
                                    + (IF Refused(r) THEN 0 ELSE 1)
                /\ heap' = {}
             \/ /\ st' = Wake([st EXCEPT ![r] = "waiting"], G)
                /\ active' = active + Cardinality(G)
  BY DEF Acquire
<1>3. CASE /\ active + Cardinality(G) < want
           /\ active' = active + Cardinality(G) + (IF Refused(r) THEN 0 ELSE 1)
           /\ heap' = {}
  <2>1. Live' = {}
    BY <1>3 DEF Live
  <2>2. active' <= limit'
    <3>1. active \in Nat /\ Cardinality(G) \in Nat /\ want \in Nat
      BY <1>0, <1>1, <1>2, GrantFacts DEF GateInv
    <3>. QED BY <3>1, <1>2, <1>3
  <2>. QED BY <2>1, <2>2 DEF LetIn
<1>4. CASE /\ st' = Wake([st EXCEPT ![r] = "waiting"], G)
           /\ active' = active + Cardinality(G)
  <2>1. Busy' \ Busy \subseteq G
    BY <1>0, <1>4 DEF Busy, Wake, GateInv
  <2>2. CASE G = {}
    BY <2>1, <2>2 DEF LetIn
  <2>3. CASE G # {}
    <3>1. active' <= limit'
      BY <2>3, <1>0, <1>1, <1>2, <1>4, ResizeFits
    <3>2. ASSUME NEW x \in G, NEW q \in Live \cap Live'
          PROVE  st[x] = "waiting" /\ Before(x, q)
      <4>1. st'[q] = "waiting" => q \notin G
        BY <1>0, <1>4 DEF Wake, Live, GateInv
      <4>. QED BY <4>1, <1>0, <1>1, <1>2, GrantedFirst
    <3>. QED BY <3>1, <3>2, <2>1 DEF LetIn
  <2>. QED BY <2>2, <2>3
<1>. QED BY <1>2, <1>3, <1>4

LEMMA StepLetsIn == ASSUME IInv, [Next]_vars PROVE LetIn
<1>0. GateInv
  BY DEF IInv
<1>1. ASSUME NEW r \in Requests, Acquire(r) PROVE LetIn
  BY <1>1, AcquireLetsIn
<1>2. ASSUME NEW r \in Requests, Resume(r) PROVE LetIn
  <2>1. r \in BusyIn(st) /\ r \in Busy /\ limit' = limit
    BY <1>2 DEF Resume, BusyIn, Busy
  <2>2. CASE Release(Leaves(r))
    BY <2>1, <2>2, <1>0, ReleaseLetsIn
  <2>3. CASE st' = [st EXCEPT ![r] = "running"]
    <3>1. Busy' \subseteq Busy
      BY <2>1, <2>3, <1>0 DEF Busy, GateInv
    <3>. QED BY <3>1, NobodyLetIn
  <2>. QED BY <2>2, <2>3, <1>2 DEF Resume
<1>3. ASSUME NEW r \in Requests, Cancel(r) PROVE LetIn
  <2>1. Busy' \subseteq Busy
    BY <1>0, <1>3 DEF Cancel, Busy, GateInv
  <2>. QED BY <2>1, NobodyLetIn
<1>4. ASSUME NEW r \in Requests, Abandon(r) \/ Finish(r) PROVE LetIn
  <2>1. r \in BusyIn(st) /\ limit' = limit /\ Release(Leaves(r))
    BY <1>4 DEF Abandon, Finish, BusyIn
  <2>. QED BY <2>1, <1>0, ReleaseLetsIn
<1>5. ASSUME st' = st PROVE LetIn
  BY <1>5, NobodyLetIn DEF Busy
<1>6. ASSUME NEW ceiling \in HardLimits, NEW mode \in BOOLEAN, Reload(ceiling, mode)
      PROVE  LetIn
  BY <1>6, ReloadLetsIn
<1>. QED BY <1>1, <1>2, <1>3, <1>4, <1>5, <1>6
         DEF Next, Attempt, Cooled, vars, gateVars

\* Whoever is let in fits under the limit of that moment.
THEOREM AdmissionRespectsTheLimit == Spec => AdmitsWithinLimit
<1>1. IInv /\ [Next]_vars => [(Busy' \ Busy) # {} => active' <= limit']_vars
  BY StepLetsIn DEF LetIn
<1>. QED BY <1>1, Always, PTL DEF Spec, AdmitsWithinLimit

\* Nobody is overtaken, by a wake-up, a resize or a newcomer.
THEOREM AdmissionKeepsTheOrder == Spec => NoOvertaking
<1>1. ASSUME IInv, IInv', [Next]_vars, NEW r \in Busy' \ Busy, NEW q \in Live,
             st'[q] = "waiting"
      PROVE  st[r] = "waiting" /\ Before(r, q)
  <2>1. q \in Live'
    BY <1>1 DEF Live, IInv, GateInv
  <2>. QED BY <1>1, <2>1, StepLetsIn DEF LetIn
<1>2. IInv /\ IInv' /\ [Next]_vars =>
        [\A r \in Busy' \ Busy, q \in Live :
            st'[q] = "waiting" => st[r] = "waiting" /\ Before(r, q)]_vars
  BY <1>1
<1>. QED BY <1>2, Always, PTL DEF Spec, NoOvertaking

\* A release starts nobody: it wakes a request, which has yet to ask.
LEMMA ReleaseStartsNobody ==
  ASSUME GateInv, NEW r \in Requests, Release(Leaves(r)),
         NEW b \in Requests, st'[b] = "running"
  PROVE  st[b] = "running"
BY DEF Release, Wake, Leaves, GateInv

\* After a failure of the batch, none of its requests starts.
THEOREM AbortStopsTheBatch == Spec => NoStartAfterAbort
<1>1. ASSUME IInv, [Next]_vars, NEW b \in Batch, aborted, st'[b] = "running"
      PROVE  st[b] = "running"
  <2>0. GateInv /\ b \in Requests /\ Refused(b)
    BY <1>1, GateAssumption DEF IInv, Refused
  <2>1. ASSUME NEW r \in Requests, Acquire(r) PROVE st[b] = "running"
    BY <1>1, <2>0, <2>1 DEF Acquire, Wake, GateInv
  <2>2. ASSUME NEW r \in Requests, Resume(r) PROVE st[b] = "running"
    BY <1>1, <2>0, <2>2, ReleaseStartsNobody DEF Resume, GateInv
  <2>3. ASSUME NEW r \in Requests, Cancel(r) PROVE st[b] = "running"
    BY <1>1, <2>0, <2>3 DEF Cancel, GateInv
  <2>4. ASSUME NEW r \in Requests, Abandon(r) \/ Finish(r) PROVE st[b] = "running"
    BY <1>1, <2>0, <2>4, ReleaseStartsNobody DEF Abandon, Finish
  <2>5. ASSUME NEW ceiling \in HardLimits, NEW mode \in BOOLEAN, Reload(ceiling, mode)
        PROVE  st[b] = "running"
    BY <1>1, <2>0, <2>5 DEF Reload, Wake
  <2>6. CASE st' = st
    BY <1>1, <2>6
  <2>. QED BY <1>1, <2>1, <2>2, <2>3, <2>4, <2>5, <2>6
           DEF Next, Attempt, Cooled, vars, gateVars
<1>2. IInv /\ [Next]_vars =>
        [\A r \in Batch : aborted /\ st'[r] = "running" => st[r] = "running"]_vars
  BY <1>1
<1>. QED BY <1>2, Always, PTL DEF Spec, NoStartAfterAbort
=============================================================================
