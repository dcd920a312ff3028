------------------------- MODULE VideoAttempts_proofs -------------------------
(* Proofs about VideoAttempts, for any attempts, shots, limits and passes. *)
EXTENDS VideoAttemptsProperties, FiniteSetTheorems, TLAPS

\* An attempt exists from its birth on, and its charge with it.
Born ==
    \A j \in Jobs :
        IF status[j] = "none"
        THEN j \notin slot /\ version[j] = "none"
        ELSE charge[j].period # 0

\* What a pass took for ended, or refunded, has ended; or it came back.
LostStaysLost ==
    \A j \in Jobs :
        (\E r \in Passes : j \in found[r]) \/ refund[j] # 0 =>
            /\ status[j] # "none"
            /\ j \in reopened \/ (j \notin slot /\ version[j] # "succeeded")

\* An attempt without a row was charged nothing, and a refund is booked in
\* the period of its charge.
Booked ==
    \A j \in Jobs :
        /\ status[j] = "none" => charge[j] = Uncharged
        /\ refund[j] \in {0, charge[j].period}

\* What the ledger promises: the subscription of each period and the add-on.
SumsInv == PeriodWithinLimit /\ AddonCovered

IInv == TypeOK /\ OneSlotPerShot /\ Born /\ LostStaysLost /\ Booked /\ SumsInv

\* The disjuncts of Next for one attempt.
JobStep(j) ==
    \/ Begin(j)
    \/ Reclaim(j)
    \/ Persist(j)
    \/ CommitResult(j)
    \/ \E as \in {"over", "human"} : End(j, as)
    \/ Downgrade(j)
    \/ Cancel(j)
    \/ StopAccepted(j)
    \/ Retry(j)
    \/ RetryIsolated(j)
    \/ \E retained \in {{}, {j}} : Revise(Shot[j], retained)
    \/ Adopt(j)
    \/ ReleaseQuarantined(j)

LEMMA NextCases ==
    Next <=> \/ NextPeriod \/ Grant \/ Pause \/ Resume
             \/ \E j \in Jobs : JobStep(j)
             \/ \E r \in Passes : ReadEnded(r) \/ Refund(r)
BY DEF Next, JobStep

-----------------------------------------------------------------------------
(* The types.                                                              *)

LEMMA ReserveType ==
    ASSUME TypeOK, NEW j \in Jobs, Reserve(j)
    PROVE  /\ charge' \in [Jobs -> Charge]
           /\ charge'[j].period = period
           /\ \A k \in Jobs \ {j} : charge'[k] = charge[k]
<1>1. PICK sub \in 0..Seconds :
        charge' = [charge EXCEPT ![j] =
            [period |-> period, sub |-> sub, addon |-> Seconds - sub]]
  BY DEF Reserve
<1>2. Seconds - sub \in 0..Seconds
  BY AttemptsAssumption
<1>3. [period |-> period, sub |-> sub, addon |-> Seconds - sub] \in Charge
  BY <1>2, AttemptsAssumption DEF TypeOK, Charge
<1> QED BY <1>1, <1>3 DEF TypeOK

LEMMA TypeJob ==
    ASSUME TypeOK, NEW j \in Jobs, JobStep(j)
    PROVE  TypeOK'
<1> USE DEF TypeOK, Status, Version
<1>1. CASE Begin(j)
  BY <1>1, ReserveType DEF Begin, passVars
<1>2. CASE Reclaim(j)
  BY <1>2 DEF Reclaim, ledgerVars, passVars
<1>3. CASE Persist(j)
  BY <1>3 DEF Persist, ledgerVars, passVars
<1>4. CASE CommitResult(j)
  BY <1>4 DEF CommitResult, ledgerVars, passVars
<1>5. CASE \E as \in {"over", "human"} : End(j, as)
  BY <1>5 DEF End, ledgerVars, passVars
<1>6. CASE Downgrade(j)
  BY <1>6 DEF Downgrade, ledgerVars, passVars
<1>7. CASE Cancel(j)
  BY <1>7 DEF Cancel, ledgerVars, passVars
<1>8. CASE StopAccepted(j) \/ RetryIsolated(j)
  BY <1>8 DEF StopAccepted, RetryIsolated, Isolate, ledgerVars, passVars
<1>9. CASE Retry(j)
  BY <1>9 DEF Retry, ledgerVars, passVars
<1>10. CASE \E retained \in {{}, {j}} : Revise(Shot[j], retained)
  BY <1>10 DEF Revise, ledgerVars, passVars
<1>11. CASE Adopt(j) \/ ReleaseQuarantined(j)
  BY <1>11 DEF Adopt, ReleaseQuarantined, ledgerVars, passVars
<1> QED BY <1>1, <1>2, <1>3, <1>4, <1>5, <1>6, <1>7, <1>8, <1>9, <1>10, <1>11 DEF JobStep

LEMMA TypePass ==
    ASSUME TypeOK, NEW r \in Passes, ReadEnded(r) \/ Refund(r)
    PROVE  TypeOK'
<1> USE DEF TypeOK
<1>1. CASE ReadEnded(r)
  BY <1>1 DEF ReadEnded, WithoutVideo, ledgerVars
<1>2. CASE Refund(r)
  <2>1. \A j \in Jobs : charge[j].period \in 0..MaxPeriod
    BY DEF Charge
  <2> QED BY <1>2, <2>1 DEF Refund
<1> QED BY <1>1, <1>2

LEMMA TypeInductive == TypeOK /\ [Next]_vars => TypeOK'
<1> SUFFICES ASSUME TypeOK, [Next]_vars PROVE TypeOK'
  OBVIOUS
<1>1. CASE NextPeriod
  BY <1>1, AttemptsAssumption DEF NextPeriod, TypeOK, passVars
<1>2. CASE Grant
  BY <1>2, AttemptsAssumption DEF Grant, TypeOK, passVars
<1>3. CASE Pause
  BY <1>3 DEF Pause, TypeOK, Status, Version, ledgerVars, passVars
<1>4. CASE Resume
  BY <1>4 DEF Resume, Paused, TypeOK, Status, ledgerVars, passVars
<1>5. CASE \E j \in Jobs : JobStep(j)
  BY <1>5, TypeJob
<1>6. CASE \E r \in Passes : ReadEnded(r) \/ Refund(r)
  BY <1>6, TypePass
<1>7. CASE UNCHANGED vars
  BY <1>7 DEF vars, ledgerVars, passVars, TypeOK
<1> QED BY <1>1, <1>2, <1>3, <1>4, <1>5, <1>6, <1>7, NextCases

-----------------------------------------------------------------------------
(* One slot per shot: a step that hands slots out looks at the rivals.     *)

LEMMA SlotStep == TypeOK /\ OneSlotPerShot /\ [Next]_vars => OneSlotPerShot'
<1> SUFFICES ASSUME TypeOK, OneSlotPerShot, [Next]_vars PROVE OneSlotPerShot'
  OBVIOUS
<1> USE DEF OneSlotPerShot, TypeOK
<1>1. CASE Resume
  <2> SUFFICES ASSUME NEW j \in slot', NEW k \in slot', Shot[j] = Shot[k], j # k
               PROVE  FALSE
    OBVIOUS
  <2>1. slot' = slot \cup Paused /\ Fits(Paused) /\ Paused \subseteq Jobs
    BY <1>1 DEF Resume, Paused
  <2>2. j \in slot /\ k \in slot => FALSE
    OBVIOUS
  <2>3. k \in Rivals(j) /\ j \in Rivals(k)
    BY <2>1 DEF Rivals
  <2> QED BY <2>1, <2>2, <2>3 DEF Fits
<1>2. ASSUME NEW j \in Jobs, Begin(j) \/ Retry(j) PROVE OneSlotPerShot'
  <2>1. slot' = slot \cup {j} /\ Rivals(j) \cap slot = {}
    BY <1>2 DEF Begin, Retry, Fits
  <2> QED BY <2>1 DEF Rivals
<1>3. ASSUME NEW j \in Jobs, JobStep(j), ~ Begin(j), ~ Retry(j) PROVE slot' \subseteq slot
  BY <1>3 DEF JobStep, Reclaim, Persist, CommitResult, End, Downgrade, Cancel, StopAccepted,
     RetryIsolated, Isolate, Revise, Adopt, ReleaseQuarantined
<1>4. CASE NextPeriod \/ Grant \/ Pause \/ \E r \in Passes : ReadEnded(r) \/ Refund(r)
  BY <1>4 DEF NextPeriod, Grant, Pause, ReadEnded, Refund
<1>5. CASE UNCHANGED vars
  BY <1>5 DEF vars
<1> QED BY <1>1, <1>2, <1>3, <1>4, <1>5, NextCases

-----------------------------------------------------------------------------
(* Every attempt that exists was charged.                                  *)

\* Only its birth charges an attempt, and brings it into being.
LEMMA Quiet ==
    ASSUME TypeOK, Born, NEW j \in Jobs, JobStep(j), ~ Begin(j), NEW k \in Jobs
    PROVE  /\ ledgerVars' = ledgerVars
           /\ charge' = charge /\ refund' = refund
           /\ status[k] = "none" => status'[k] = "none" /\ version'[k] = version[k]
           /\ status'[k] = "none" => status[k] = "none"
           /\ status[k] = "none" /\ k \in slot' => k \in slot
<1> USE DEF TypeOK, Born, ledgerVars
<1>1. CASE Reclaim(j)
  BY <1>1 DEF Reclaim
<1>2. CASE Persist(j)
  BY <1>2 DEF Persist
<1>3. CASE CommitResult(j)
  BY <1>3 DEF CommitResult
<1>4. CASE \E as \in {"over", "human"} : End(j, as)
  BY <1>4 DEF End
<1>5. CASE Downgrade(j) \/ Cancel(j)
  BY <1>5 DEF Downgrade, Cancel
<1>6. CASE StopAccepted(j) \/ RetryIsolated(j)
  BY <1>6 DEF StopAccepted, RetryIsolated, Isolate
<1>7. CASE Retry(j)
  BY <1>7 DEF Retry
<1>8. CASE \E retained \in {{}, {j}} : Revise(Shot[j], retained)
  BY <1>8 DEF Revise
<1>9. CASE Adopt(j) \/ ReleaseQuarantined(j)
  BY <1>9 DEF Adopt, ReleaseQuarantined
<1> QED BY <1>1, <1>2, <1>3, <1>4, <1>5, <1>6, <1>7, <1>8, <1>9 DEF JobStep

LEMMA BornStep == TypeOK /\ Born /\ [Next]_vars => Born'
<1> SUFFICES ASSUME TypeOK, Born, [Next]_vars, NEW k \in Jobs
             PROVE  IF status'[k] = "none"
                    THEN k \notin slot' /\ version'[k] = "none"
                    ELSE charge'[k].period # 0
  BY DEF Born
<1> DEFINE Charged == charge[k].period # 0
<1>0. IF status[k] = "none" THEN k \notin slot /\ version[k] = "none" ELSE Charged
  BY DEF Born
<1>1. ASSUME NEW j \in Jobs, Begin(j)
      PROVE  IF status'[k] = "none"
             THEN k \notin slot' /\ version'[k] = "none"
             ELSE charge'[k].period # 0
  <2>1. charge'[j].period = period /\ \A i \in Jobs \ {j} : charge'[i] = charge[i]
    BY <1>1, ReserveType DEF Begin
  <2>2. period # 0
    BY DEF TypeOK
  <2>3. status' = [status EXCEPT ![j] = "active"] /\ slot' = slot \cup {j} /\ version' = version
    BY <1>1 DEF Begin
  <2>4. CASE k = j
    BY <2>1, <2>2, <2>3, <2>4 DEF TypeOK
  <2>5. CASE k # j
    BY <1>0, <2>1, <2>3, <2>5 DEF TypeOK
  <2> QED BY <2>4, <2>5
<1>2. ASSUME NEW j \in Jobs, JobStep(j), ~ Begin(j)
      PROVE  /\ charge' = charge
             /\ status[k] = "none" => status'[k] = "none" /\ version'[k] = version[k]
             /\ status'[k] = "none" => status[k] = "none"
             /\ status[k] = "none" /\ k \in slot' => k \in slot
  BY <1>2, Quiet
<1>3. CASE Pause
  BY <1>0, <1>3 DEF Pause, TypeOK, ledgerVars
<1>4. CASE Resume
  BY <1>0, <1>4 DEF Resume, Paused, TypeOK, ledgerVars
<1>5. CASE \/ NextPeriod \/ Grant \/ \E r \in Passes : ReadEnded(r) \/ Refund(r)
           \/ UNCHANGED vars
  BY <1>0, <1>5 DEF NextPeriod, Grant, ReadEnded, Refund, vars, ledgerVars
<1> QED BY <1>0, <1>1, <1>2, <1>3, <1>4, <1>5, NextCases

-----------------------------------------------------------------------------
(* What a pass refunds does not come back unnoticed.                       *)

\* a step that is no pass's keeps what is lost lost
LEMMA LostKept ==
    ASSUME TypeOK, Born, LostStaysLost, NEW j \in Jobs, JobStep(j)
    PROVE  LostStaysLost'
<1> SUFFICES ASSUME NEW k \in Jobs, (\E r \in Passes : k \in found'[r]) \/ refund'[k] # 0
             PROVE  /\ status'[k] # "none"
                    /\ k \in reopened' \/ (k \notin slot' /\ version'[k] # "succeeded")
  BY DEF LostStaysLost
<1>0. found' = found /\ refund' = refund
  BY DEF JobStep, Begin, Reclaim, Persist, CommitResult, End, Downgrade, Cancel, StopAccepted,
     Retry, RetryIsolated, Isolate, Revise, Adopt, ReleaseQuarantined, ledgerVars, passVars
<1>1. /\ status[k] # "none"
      /\ k \in reopened \/ (k \notin slot /\ version[k] # "succeeded")
  BY <1>0 DEF LostStaysLost
<1> USE DEF TypeOK
<1>2. CASE Begin(j)
  BY <1>1, <1>2 DEF Begin
<1>3. CASE Reclaim(j)
  BY <1>1, <1>3 DEF Reclaim
<1>4. CASE Persist(j)
  BY <1>1, <1>4 DEF Persist
<1>5. CASE CommitResult(j)
  BY <1>1, <1>5 DEF CommitResult
<1>6. CASE \E as \in {"over", "human"} : End(j, as)
  BY <1>1, <1>6 DEF End
<1>7. CASE Downgrade(j) \/ Cancel(j)
  BY <1>1, <1>7 DEF Downgrade, Cancel
<1>8. CASE StopAccepted(j) \/ RetryIsolated(j)
  BY <1>1, <1>8 DEF StopAccepted, RetryIsolated, Isolate
<1>9. CASE Retry(j)
  BY <1>1, <1>9 DEF Retry
<1>10. CASE \E retained \in {{}, {j}} : Revise(Shot[j], retained)
  BY <1>1, <1>10 DEF Revise
<1>11. CASE Adopt(j) \/ ReleaseQuarantined(j)
  BY <1>1, <1>11 DEF Adopt, ReleaseQuarantined
<1> QED BY <1>2, <1>3, <1>4, <1>5, <1>6, <1>7, <1>8, <1>9, <1>10, <1>11 DEF JobStep

LEMMA LostStep == TypeOK /\ Born /\ LostStaysLost /\ [Next]_vars => LostStaysLost'
<1> SUFFICES ASSUME TypeOK, Born, LostStaysLost, [Next]_vars PROVE LostStaysLost'
  OBVIOUS
<1>1. CASE \E j \in Jobs : JobStep(j)
  BY <1>1, LostKept
<1>2. CASE NextPeriod \/ Grant \/ UNCHANGED vars
  BY <1>2 DEF NextPeriod, Grant, vars, passVars, ledgerVars, LostStaysLost
<1>3. CASE Pause
  BY <1>3 DEF Pause, passVars, ledgerVars, LostStaysLost, TypeOK
<1>4. CASE Resume
  BY <1>4 DEF Resume, Paused, passVars, ledgerVars, LostStaysLost, TypeOK
<1>5. ASSUME NEW r \in Passes, ReadEnded(r) PROVE LostStaysLost'
  BY <1>5 DEF ReadEnded, WithoutVideo, ledgerVars, LostStaysLost, TypeOK
<1>6. ASSUME NEW r \in Passes, Refund(r) PROVE LostStaysLost'
  BY <1>6 DEF Refund, LostStaysLost, TypeOK
<1> QED BY <1>1, <1>2, <1>3, <1>4, <1>5, <1>6, NextCases

-----------------------------------------------------------------------------
(* The sums of the ledger, counted as sets of seconds.                     *)

LEMMA UnitsFinite ==
    ASSUME NEW attempts \in SUBSET Jobs, NEW units \in SUBSET (attempts \X (1..Seconds))
    PROVE  IsFiniteSet(units)
<1>1. IsFiniteSet(attempts)
  BY AttemptsAssumption, FS_Subset
<1>2. IsFiniteSet(1..Seconds)
  BY AttemptsAssumption, FS_Interval
<1>3. IsFiniteSet(attempts \X (1..Seconds))
  BY <1>1, <1>2, FS_Product
<1> QED BY <1>3, FS_Subset

LEMMA DisjointUnion ==
    ASSUME NEW S, IsFiniteSet(S), NEW T, IsFiniteSet(T), S \cap T = {}
    PROVE  Cardinality(S \cup T) = Cardinality(S) + Cardinality(T)
<1>1. Cardinality(S \cap T) = 0
  BY FS_EmptySet
<1>2. Cardinality(S) \in Nat /\ Cardinality(T) \in Nat
  BY FS_CardinalityType
<1>3. Cardinality(S \cup T) = Cardinality(S) + Cardinality(T) - Cardinality(S \cap T)
  BY FS_Union
<1> QED BY <1>1, <1>2, <1>3

\* one more attempt that is charged n seconds
LEMMA OneMoreCharge ==
    ASSUME NEW j \in Jobs, NEW n \in 0..Seconds,
           NEW units, units \subseteq (Jobs \ {j}) \X (1..Seconds)
    PROVE  Cardinality(units \cup ({j} \X (1..n))) = Cardinality(units) + n
<1>1. IsFiniteSet(units)
  <2>1. units \in SUBSET (Jobs \X (1..Seconds))
    OBVIOUS
  <2> QED BY <2>1, UnitsFinite
<1>2. n \in Nat /\ n \in Int /\ 1 \in Int
  BY AttemptsAssumption
<1>3. IsFiniteSet(1..n) /\ Cardinality(1..n) = n
  BY <1>2, FS_Interval
<1>4. IsFiniteSet({j}) /\ Cardinality({j}) = 1
  BY FS_Singleton
<1>5. IsFiniteSet({j} \X (1..n)) /\ Cardinality({j} \X (1..n)) = n
  <2>1. /\ IsFiniteSet({j} \X (1..n))
        /\ Cardinality({j} \X (1..n)) = Cardinality({j}) * Cardinality(1..n)
    BY <1>3, <1>4, FS_Product
  <2> QED BY <2>1, <1>2, <1>3, <1>4
<1>6. units \cap ({j} \X (1..n)) = {}
  OBVIOUS
<1> QED BY <1>1, <1>5, <1>6, DisjointUnion

\* fewer attempts, fewer seconds
LEMMA FewerCharges ==
    ASSUME TypeOK, NEW more \in SUBSET Jobs, NEW fewer \in SUBSET more
    PROVE  /\ Cardinality(SubUnits(fewer)) \in Nat
           /\ Cardinality(SubUnits(more)) \in Nat
           /\ Cardinality(SubUnits(fewer)) <= Cardinality(SubUnits(more))
           /\ Cardinality(AddonUnits(fewer)) \in Nat
           /\ Cardinality(AddonUnits(more)) \in Nat
           /\ Cardinality(AddonUnits(fewer)) <= Cardinality(AddonUnits(more))
<1>1. /\ SubUnits(fewer) \subseteq SubUnits(more)
      /\ AddonUnits(fewer) \subseteq AddonUnits(more)
  BY DEF SubUnits, AddonUnits
<1>2. /\ SubUnits(more) \subseteq more \X (1..Seconds)
      /\ AddonUnits(more) \subseteq more \X (1..Seconds)
  BY DEF SubUnits, AddonUnits
<1>3. IsFiniteSet(SubUnits(more)) /\ IsFiniteSet(AddonUnits(more))
  BY <1>2, UnitsFinite
<1>4. /\ Cardinality(SubUnits(fewer)) <= Cardinality(SubUnits(more))
      /\ Cardinality(AddonUnits(fewer)) <= Cardinality(AddonUnits(more))
      /\ IsFiniteSet(SubUnits(fewer)) /\ IsFiniteSet(AddonUnits(fewer))
  BY <1>1, <1>3, FS_Subset
<1> QED BY <1>3, <1>4, FS_CardinalityType

LEMMA BookedStep == TypeOK /\ Born /\ LostStaysLost /\ Booked /\ [Next]_vars => Booked'
<1> SUFFICES ASSUME TypeOK, Born, LostStaysLost, Booked, [Next]_vars PROVE Booked'
  OBVIOUS
<1>1. ASSUME NEW j \in Jobs, Begin(j) PROVE Booked'
  <2>1. charge'[j].period = period /\ \A k \in Jobs \ {j} : charge'[k] = charge[k]
    BY <1>1, ReserveType DEF Begin
  <2>2. refund' = refund /\ status' = [status EXCEPT ![j] = "active"]
    BY <1>1 DEF Begin
  <2>3. refund[j] = 0
    BY <1>1 DEF Begin, LostStaysLost
  <2> QED BY <2>1, <2>2, <2>3 DEF Booked, TypeOK
<1>2. ASSUME NEW j \in Jobs, JobStep(j), ~ Begin(j)
      PROVE  /\ charge' = charge /\ refund' = refund
             /\ \A k \in Jobs : status'[k] = "none" => status[k] = "none"
  BY <1>2, Quiet
<1>3. CASE Pause
  BY <1>3 DEF Pause, Booked, TypeOK, ledgerVars
<1>4. CASE Resume
  BY <1>4 DEF Resume, Paused, Booked, TypeOK, ledgerVars
<1>5. CASE NextPeriod \/ Grant \/ (\E r \in Passes : ReadEnded(r)) \/ UNCHANGED vars
  BY <1>5 DEF NextPeriod, Grant, ReadEnded, vars, ledgerVars, Booked
<1>6. ASSUME NEW r \in Passes, Refund(r) PROVE Booked'
  BY <1>6 DEF Refund, Booked, TypeOK
<1> QED BY <1>1, <1>2, <1>3, <1>4, <1>5, <1>6, NextCases DEF Booked

ChargedIn(p) == {j \in Jobs : charge[j].period = p}
RefundedIn(p) == {j \in Jobs : refund[j] = p}
NotRefunded == {j \in Jobs : refund[j] = 0}

\* what a period has used are the seconds of its charges, less some of them
LEMMA UsedBounds ==
    ASSUME TypeOK, Booked, NEW p \in 1..MaxPeriod
    PROVE  /\ Used(p) \in Nat
           /\ Used(p) = Cardinality(SubUnits(ChargedIn(p)))
                        - Cardinality(SubUnits(RefundedIn(p)))
           /\ AddonUsed = Cardinality(AddonUnits(NotRefunded))
<1>1. p \in Nat /\ p # 0
  BY AttemptsAssumption
<1>2. RefundedIn(p) \subseteq ChargedIn(p) /\ ChargedIn(p) \in SUBSET Jobs
  BY <1>1 DEF Booked, RefundedIn, ChargedIn
<1>3. /\ Cardinality(SubUnits(RefundedIn(p))) \in Nat
      /\ Cardinality(SubUnits(ChargedIn(p))) \in Nat
      /\ Cardinality(SubUnits(RefundedIn(p))) <= Cardinality(SubUnits(ChargedIn(p)))
  BY <1>2, FewerCharges
<1>4. Used(p) = Cardinality(SubUnits(ChargedIn(p))) - Cardinality(SubUnits(RefundedIn(p)))
  BY DEF Used, ChargedIn, RefundedIn
<1>5. AddonUsed = Cardinality(AddonUnits(NotRefunded))
  BY DEF AddonUsed, NotRefunded
<1> QED BY <1>3, <1>4, <1>5

\* A birth adds to the sums what it is charged, and that was left.
LEMMA SumsBegin ==
    ASSUME TypeOK, Born, LostStaysLost, Booked, SumsInv, NEW j \in Jobs, Begin(j)
    PROVE  SumsInv'
<1>1. PICK sub \in 0..Seconds :
        /\ sub = Lesser(Seconds, SubLeft)
        /\ Seconds - sub <= AddonLeft
        /\ charge' = [charge EXCEPT ![j] =
               [period |-> period, sub |-> sub, addon |-> Seconds - sub]]
  BY DEF Begin, Reserve
<1>2. refund' = refund /\ period' = period /\ packs' = packs /\ status[j] = "none"
  BY DEF Begin
<1>3. charge[j] = Uncharged /\ refund[j] = 0
  BY <1>2 DEF Booked, LostStaysLost
<1>4. Seconds \in Nat /\ Limit \in Nat /\ Pack \in Nat /\ MaxPeriod \in Nat \ {0} /\ sub \in Nat
  BY AttemptsAssumption
<1>5. period \in 1..MaxPeriod /\ period \in Nat /\ period # 0
  BY <1>4 DEF TypeOK
<1>6. /\ charge'[j] = [period |-> period, sub |-> sub, addon |-> Seconds - sub]
      /\ \A k \in Jobs \ {j} : charge'[k] = charge[k]
  BY <1>1 DEF TypeOK
<1>7. Seconds - sub \in 0..Seconds
  BY <1>4
<1>8. ASSUME NEW p \in 1..MaxPeriod PROVE Used(p)' \in 0..Limit
  <2>1. p \in Nat /\ p # 0
    BY <1>4
  <2>2. j \notin ChargedIn(p) /\ ChargedIn(p) \in SUBSET Jobs
    BY <1>3, <2>1 DEF ChargedIn, Uncharged
  <2>3. /\ Used(p) \in 0..Limit
        /\ Used(p) = Cardinality(SubUnits(ChargedIn(p)))
                     - Cardinality(SubUnits(RefundedIn(p)))
        /\ Used(p)' = Cardinality(SubUnits(ChargedIn(p)))'
                      - Cardinality(SubUnits(RefundedIn(p)))'
    BY UsedBounds DEF SumsInv, PeriodWithinLimit, Used, ChargedIn, RefundedIn
  <2>4. SubUnits(RefundedIn(p))' = SubUnits(RefundedIn(p))
    <3>1. j \notin RefundedIn(p) /\ RefundedIn(p)' = RefundedIn(p)
      BY <1>2, <1>3, <2>1 DEF RefundedIn
    <3>2. \A k \in RefundedIn(p) : k \in Jobs \ {j}
      BY <3>1 DEF RefundedIn
    <3> QED BY <1>6, <3>1, <3>2 DEF SubUnits
  <2>5. /\ Cardinality(SubUnits(ChargedIn(p))) \in Nat
        /\ Cardinality(SubUnits(RefundedIn(p))) \in Nat
    BY FewerCharges DEF ChargedIn, RefundedIn
  <2>6. CASE p = period
    <3>1. ChargedIn(p)' = ChargedIn(p) \cup {j}
      BY <1>6, <2>6 DEF ChargedIn
    <3>2. SubUnits(ChargedIn(p))' = SubUnits(ChargedIn(p)) \cup ({j} \X (1..sub))
      <4>1. \A k \in ChargedIn(p) : charge'[k] = charge[k]
        BY <1>6, <2>2 DEF ChargedIn
      <4>2. charge'[j].sub = sub
        BY <1>6
      <4>3. {j} \X (1..sub) = {u \in {j} \X (1..Seconds) : u[2] <= sub}
        BY <1>4
      <4> QED BY <3>1, <4>1, <4>2, <4>3 DEF SubUnits
    <3>3. Cardinality(SubUnits(ChargedIn(p)))' = Cardinality(SubUnits(ChargedIn(p))) + sub
      <4>1. SubUnits(ChargedIn(p)) \subseteq (Jobs \ {j}) \X (1..Seconds)
        BY <2>2 DEF SubUnits
      <4>2. Cardinality(SubUnits(ChargedIn(p)) \cup ({j} \X (1..sub)))
            = Cardinality(SubUnits(ChargedIn(p))) + sub
        BY <4>1, OneMoreCharge
      <4> QED BY <3>2, <4>2
    <3>4. sub <= Limit - Used(p)
      BY <1>1, <1>4, <2>3, <2>6 DEF Lesser, SubLeft
    <3> QED BY <1>4, <2>3, <2>4, <2>5, <3>3, <3>4
  <2>7. CASE p # period
    <3>1. ChargedIn(p)' = ChargedIn(p)
      BY <1>6, <2>2, <2>7 DEF ChargedIn
    <3>2. SubUnits(ChargedIn(p))' = SubUnits(ChargedIn(p))
      BY <1>6, <2>2, <3>1 DEF SubUnits, ChargedIn
    <3> QED BY <2>3, <2>4, <3>2
  <2> QED BY <2>6, <2>7
<1>9. AddonCovered'
  <2>1. AddonUsed = Cardinality(AddonUnits(NotRefunded)) /\ NotRefunded' = NotRefunded
    BY <1>2 DEF AddonUsed, NotRefunded
  <2>2. AddonUsed' = Cardinality(AddonUnits(NotRefunded))'
    BY DEF AddonUsed, NotRefunded
  <2> DEFINE others == NotRefunded \ {j}
  <2>3. j \in NotRefunded /\ NotRefunded \in SUBSET Jobs
    BY <1>3 DEF NotRefunded
  <2>4. AddonUnits(NotRefunded) = AddonUnits(others)
    <3>1. charge[j].addon = 0
      BY <1>3 DEF Uncharged
    <3>2. \A s \in 1..Seconds : ~ (s <= charge[j].addon)
      BY <1>4, <3>1
    <3> QED BY <3>2 DEF AddonUnits
  <2>5. AddonUnits(NotRefunded)' = AddonUnits(others) \cup ({j} \X (1..(Seconds - sub)))
    <3>1. \A k \in others : charge'[k] = charge[k]
      BY <1>6, <2>3
    <3>2. charge'[j].addon = Seconds - sub
      BY <1>6
    <3>3. {j} \X (1..(Seconds - sub)) = {u \in {j} \X (1..Seconds) : u[2] <= Seconds - sub}
      BY <1>4
    <3> QED BY <2>1, <2>3, <3>1, <3>2, <3>3 DEF AddonUnits
  <2>6. AddonUsed' = AddonUsed + (Seconds - sub)
    <3>1. AddonUnits(others) \subseteq (Jobs \ {j}) \X (1..Seconds)
      BY <2>3 DEF AddonUnits
    <3>2. Cardinality(AddonUnits(others) \cup ({j} \X (1..(Seconds - sub))))
          = Cardinality(AddonUnits(others)) + (Seconds - sub)
      BY <1>7, <3>1, OneMoreCharge
    <3> QED BY <2>1, <2>2, <2>4, <2>5, <3>2
  <2>7. AddonUsed \in Nat /\ packs * Pack \in Nat /\ packs \in Nat
    <3>1. AddonUsed \in Nat
      BY <2>1, <2>3, FewerCharges
    <3>2. packs \in Nat
      BY AttemptsAssumption DEF TypeOK
    <3> QED BY <1>4, <3>1, <3>2
  <2>8. AddonUsed <= packs * Pack
    BY DEF SumsInv, AddonCovered
  <2>9. Seconds - sub <= packs * Pack - AddonUsed
    BY <1>1, <1>4, <2>7, <2>8 DEF AddonLeft
  <2>10. AddonUsed' <= packs * Pack
    BY <1>4, <2>6, <2>7, <2>9
  <2> QED BY <1>2, <2>10 DEF AddonCovered
<1> QED BY <1>8, <1>9 DEF SumsInv, PeriodWithinLimit

\* A refund takes seconds back, from the period of the charge.
LEMMA SumsRefund ==
    ASSUME TypeOK, TypeOK', Booked', Booked, SumsInv, NEW r \in Passes, Refund(r)
    PROVE  SumsInv'
<1>1. /\ charge' = charge /\ packs' = packs
      /\ \A k \in Jobs : refund[k] # 0 => refund'[k] = refund[k]
  BY DEF Refund, TypeOK
<1>2. \A attempts : /\ SubUnits(attempts)' = SubUnits(attempts)
                    /\ AddonUnits(attempts)' = AddonUnits(attempts)
  BY <1>1 DEF SubUnits, AddonUnits
<1>3. Limit \in Nat /\ MaxPeriod \in Nat /\ Pack \in Nat
  BY AttemptsAssumption
<1>4. ASSUME NEW p \in 1..MaxPeriod PROVE Used(p)' \in 0..Limit
  <2>1. Used(p)' \in Nat
    <3>1. RefundedIn(p)' \subseteq ChargedIn(p)' /\ ChargedIn(p)' \in SUBSET Jobs
      BY <1>3 DEF Booked, RefundedIn, ChargedIn
    <3>2. ChargedIn(p)' = ChargedIn(p)
      BY <1>1 DEF ChargedIn
    <3>3. /\ Cardinality(SubUnits(RefundedIn(p)')) \in Nat
          /\ Cardinality(SubUnits(ChargedIn(p)')) \in Nat
          /\ Cardinality(SubUnits(RefundedIn(p)')) <= Cardinality(SubUnits(ChargedIn(p)'))
      BY <3>1, <3>2, FewerCharges
    <3>4. Used(p)' = Cardinality(SubUnits(ChargedIn(p)')) - Cardinality(SubUnits(RefundedIn(p)'))
      BY <1>1 DEF Used, ChargedIn, RefundedIn, SubUnits
    <3> QED BY <3>3, <3>4
  <2>2. Used(p)' <= Used(p)
    <3>1. RefundedIn(p) \subseteq RefundedIn(p)' /\ RefundedIn(p)' \in SUBSET Jobs
      BY <1>1, <1>3 DEF RefundedIn
    <3>2. /\ Cardinality(SubUnits(RefundedIn(p))) \in Nat
          /\ Cardinality(SubUnits(RefundedIn(p)')) \in Nat
          /\ Cardinality(SubUnits(RefundedIn(p))) <= Cardinality(SubUnits(RefundedIn(p)'))
      BY <3>1, FewerCharges
    <3>3. Cardinality(SubUnits(ChargedIn(p))) \in Nat
      BY FewerCharges DEF ChargedIn
    <3>4. /\ Used(p) = Cardinality(SubUnits(ChargedIn(p))) - Cardinality(SubUnits(RefundedIn(p)))
          /\ Used(p)' = Cardinality(SubUnits(ChargedIn(p))) - Cardinality(SubUnits(RefundedIn(p)'))
      BY <1>1 DEF Used, ChargedIn, RefundedIn, SubUnits
    <3> QED BY <3>2, <3>3, <3>4
  <2>3. Used(p) \in 0..Limit
    BY DEF SumsInv, PeriodWithinLimit
  <2> QED BY <1>3, <2>1, <2>2, <2>3
<1>5. AddonCovered'
  <2>1. NotRefunded' \subseteq NotRefunded /\ NotRefunded \in SUBSET Jobs
    BY <1>1 DEF NotRefunded
  <2>2. /\ Cardinality(AddonUnits(NotRefunded')) <= Cardinality(AddonUnits(NotRefunded))
        /\ Cardinality(AddonUnits(NotRefunded')) \in Nat
        /\ Cardinality(AddonUnits(NotRefunded)) \in Nat
    BY <2>1, FewerCharges
  <2>3. /\ AddonUsed' = Cardinality(AddonUnits(NotRefunded'))
        /\ AddonUsed = Cardinality(AddonUnits(NotRefunded))
    BY <1>1 DEF AddonUsed, NotRefunded, AddonUnits
  <2>4. AddonUsed <= packs * Pack
    BY DEF SumsInv, AddonCovered
  <2>5. packs * Pack \in Nat
    <3>1. packs \in Nat
      BY AttemptsAssumption DEF TypeOK
    <3> QED BY <1>3, <3>1
  <2> QED BY <1>1, <2>2, <2>3, <2>4, <2>5 DEF AddonCovered
<1> QED BY <1>4, <1>5 DEF SumsInv, PeriodWithinLimit

LEMMA SumsGrant == ASSUME TypeOK, SumsInv, Grant PROVE SumsInv'
<1>1. charge' = charge /\ refund' = refund /\ packs' = packs + 1
  BY DEF Grant
<1>2. AddonUsed' = AddonUsed /\ \A p : Used(p)' = Used(p)
  BY <1>1 DEF AddonUsed, AddonUnits, Used, SubUnits
<1>3. AddonUsed \in Nat
  BY FewerCharges DEF AddonUsed
<1>4. packs \in Nat /\ Pack \in Nat
  BY AttemptsAssumption DEF TypeOK
<1>5. (packs + 1) * Pack = packs * Pack + Pack /\ packs * Pack \in Nat
  BY <1>4
<1>6. AddonUsed <= packs * Pack
  BY DEF SumsInv, AddonCovered
<1>7. AddonUsed <= (packs + 1) * Pack
  BY <1>3, <1>4, <1>5, <1>6
<1> QED BY <1>1, <1>2, <1>7 DEF SumsInv, PeriodWithinLimit, AddonCovered

LEMMA SumsStep ==
    TypeOK /\ Born /\ LostStaysLost /\ Booked /\ SumsInv /\ [Next]_vars => SumsInv'
<1> SUFFICES ASSUME TypeOK, Born, LostStaysLost, Booked, SumsInv, [Next]_vars PROVE SumsInv'
  OBVIOUS
<1>1. ASSUME NEW j \in Jobs, Begin(j) PROVE SumsInv'
  BY <1>1, SumsBegin
<1>2. CASE Grant
  BY <1>2, SumsGrant
<1>3. ASSUME NEW r \in Passes, Refund(r) PROVE SumsInv'
  BY <1>3, SumsRefund, TypeInductive, BookedStep
<1>4. ASSUME charge' = charge, refund' = refund, packs' = packs PROVE SumsInv'
  BY <1>4 DEF SumsInv, PeriodWithinLimit, AddonCovered, Used, AddonUsed, SubUnits, AddonUnits
<1>5. ASSUME NEW j \in Jobs, JobStep(j), ~ Begin(j)
      PROVE  charge' = charge /\ refund' = refund /\ packs' = packs
  BY <1>5, Quiet DEF ledgerVars
<1>6. ASSUME \/ NextPeriod \/ Pause \/ Resume \/ (\E r \in Passes : ReadEnded(r))
             \/ UNCHANGED vars
      PROVE  charge' = charge /\ refund' = refund /\ packs' = packs
  BY <1>6 DEF NextPeriod, Pause, Resume, ReadEnded, vars, ledgerVars
<1> QED BY <1>1, <1>2, <1>3, <1>4, <1>5, <1>6, NextCases

LEMMA SumsInit == Init => Booked /\ SumsInv
<1> SUFFICES ASSUME Init PROVE Booked /\ SumsInv
  OBVIOUS
<1>1. Booked
  BY DEF Init, Booked
<1>2. \A j \in Jobs : charge[j] = Uncharged /\ refund[j] = 0
  BY DEF Init
<1>3. \A attempts \in SUBSET Jobs : SubUnits(attempts) = {} /\ AddonUnits(attempts) = {}
  BY <1>2, AttemptsAssumption DEF SubUnits, AddonUnits, Uncharged
<1>4. Cardinality({}) = 0
  BY FS_EmptySet
<1>5. \A p : Used(p) = 0
  BY <1>3, <1>4 DEF Used
<1>6. AddonUsed = 0
  BY <1>3, <1>4 DEF AddonUsed
<1>7. packs * Pack = 0
  BY AttemptsAssumption DEF Init
<1>8. 0 \in 0..Limit
  BY AttemptsAssumption
<1> QED BY <1>1, <1>5, <1>6, <1>7, <1>8 DEF SumsInv, PeriodWithinLimit, AddonCovered

-----------------------------------------------------------------------------
LEMMA InitInv == Init => IInv
<1>1. Init => TypeOK /\ OneSlotPerShot /\ Born /\ LostStaysLost
  BY AttemptsAssumption DEF Init, TypeOK, OneSlotPerShot, Born, LostStaysLost,
     Status, Version, Charge, Uncharged
<1> QED BY <1>1, SumsInit DEF IInv

LEMMA Inductive == IInv /\ [Next]_vars => IInv'
BY TypeInductive, SlotStep, BornStep, LostStep, BookedStep, SumsStep DEF IInv

LEMMA Invariance == Spec => []IInv
BY InitInv, Inductive, PTL DEF Spec

\* Whatever the attempts, passes and limits, the variables keep their types.
THEOREM TypeCorrect == Spec => []TypeOK
<1>1. IInv => TypeOK
  BY DEF IInv
<1> QED BY <1>1, Invariance, PTL

\* Two attempts never work for one shot: every way to the slot looks at it.
THEOREM ShotsHaveOneSlot == Spec => []OneSlotPerShot
<1>1. IInv => OneSlotPerShot
  BY DEF IInv
<1> QED BY <1>1, Invariance, PTL

\* However many passes overlap and however stale what they read, an attempt
\* that has not come back is refunded only when it ended without a video.
THEOREM PassesRefundTheLost == Spec => []AttemptIsPaid
<1>1. IInv => AttemptIsPaid
  BY DEF IInv, Born, LostStaysLost, AttemptIsPaid, TypeOK
<1> QED BY <1>1, Invariance, PTL

\* However late a refund, however many passes overlap, and whatever the period
\* it runs in: no period is spent beyond its limit nor refunded below zero.
THEOREM PeriodsKeepTheLimit == Spec => []PeriodWithinLimit
<1>1. IInv => PeriodWithinLimit
  BY DEF IInv, SumsInv
<1> QED BY <1>1, Invariance, PTL

\* The add-on pays no second that was not granted: the cut at zero of its
\* balance never hides a debt.
THEOREM AddonIsCovered == Spec => []AddonCovered
<1>1. IInv => AddonCovered
  BY DEF IInv, SumsInv
<1> QED BY <1>1, Invariance, PTL
=============================================================================
