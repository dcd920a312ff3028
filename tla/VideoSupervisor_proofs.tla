------------------------ MODULE VideoSupervisor_proofs ------------------------
(* Proofs about VideoSupervisor, for any shots and any number of runs,      *)
(* starts and faults.                                                      *)
EXTENDS VideoSupervisorProperties, TLAPS

\* What makes CloseoutStopsAll inductive: nobody enqueues for a completion
\* that is closed, and what is about to conclude has stopped the jobs.
ConcludesStopped ==
    \A r \in Runs :
        /\ pc[r] = "plan" => local.phase # "closed"
        /\ pc[r] = "enqueue" => cp.phase # "closed"
        /\ pc[r] = "conclude" => \A s \in Shots : jobs[s] # NoRun => s \in left

Alone == OneSupervisor /\ EndedRunIsSilent

IInv == TypeOK /\ Alone /\ CloseoutStopsAll /\ ConcludesStopped

\* The disjuncts of Next: of a task, of a handler about one run, of the world.
TaskAct(r) == Ticking(r) \/ Closing(r) \/ Fails(r) \/ FailsClosed(r)
RunAct(r) ==
    \/ Start(r) \/ Resume(r) \/ Cancel(r) \/ TaskStops(r)
    \/ Pause(r) \/ Handoff(r) \/ Watchdog(r)
ShotAct(s) == JobEnds(s) \/ Adopt(s) \/ Unadopt(s)
WorldAct == CancelEnds \/ Detach \/ Crash \/ Clock \/ \E s \in Shots : ShotAct(s)

LEMMA NextCases ==
    Next <=> (\E r \in Runs : TaskAct(r) \/ RunAct(r)) \/ WorldAct
BY DEF Next, TaskStep, TaskAct, RunAct, WorldAct, ShotAct

Checkpoint == [run : Runs \cup {NoRun}, phase : Phases, fenced : BOOLEAN]
Memory     == [phase : Phases, fenced : BOOLEAN, last : BOOLEAN, shot : Shots \cup {NoShot}]

\* The types in two parts: the two records, and everything else.
Records ==
    /\ cp \in Checkpoint
    /\ cp.phase # "none" => cp.run \in Runs
    /\ local \in Memory

Others ==
    /\ owner \in Runs \cup {NoRun}
    /\ mode \in BOOLEAN
    /\ control \in {"none", "pause", "handoff"}
    /\ status \in [Runs -> RunStatus]
    /\ origin \in [Runs -> Runs]
    /\ pc \in [Runs -> PC]
    /\ watch \in Runs \cup {NoRun}
    /\ cancel \in Runs \cup {NoRun}
    /\ ending \in BOOLEAN
    /\ jobs \in [Shots -> Runs \cup {NoRun}]
    /\ adopted \subseteq Shots
    /\ due \in BOOLEAN
    /\ left \subseteq Shots
    /\ faults \in Nat

LEMMA Parts == TypeOK <=> Records /\ Others
BY DEF TypeOK, Records, Others, Checkpoint, Memory

LEMMA Constants == NoRun \notin Runs
BY DEF NoRun, Runs

LEMMA Made ==
    ASSUME NEW r \in Runs, NEW phase \in Phases, NEW fenced \in BOOLEAN
    PROVE  [run |-> r, phase |-> phase, fenced |-> fenced] \in Checkpoint
BY DEF Checkpoint

LEMMA Fields ==
    ASSUME NEW c \in Checkpoint, NEW m \in Memory
    PROVE  /\ c.fenced \in BOOLEAN /\ c.phase \in Phases
           /\ m.fenced \in BOOLEAN /\ m.phase \in Phases
BY DEF Checkpoint, Memory

LEMMA Rephased ==
    ASSUME NEW c \in Checkpoint, NEW phase \in Phases
    PROVE  /\ [c EXCEPT !.phase = phase] \in Checkpoint
           /\ [c EXCEPT !.phase = phase].run = c.run
           /\ [c EXCEPT !.phase = phase].phase = phase
BY DEF Checkpoint

LEMMA Retold ==
    ASSUME NEW m \in Memory, NEW phase \in Phases, NEW b \in BOOLEAN
    PROVE  /\ [m EXCEPT !.phase = phase] \in Memory
           /\ [m EXCEPT !.phase = phase, !.fenced = b] \in Memory
           /\ [m EXCEPT !.phase = phase, !.fenced = b, !.last = TRUE] \in Memory
           /\ [m EXCEPT !.last = b] \in Memory
           /\ \A s \in Shots \cup {NoShot} : [m EXCEPT !.shot = s] \in Memory
BY DEF Memory

LEMMA Empty == NoLocal \in Memory
BY DEF NoLocal, Memory, Phases

LEMMA PhaseNames ==
    /\ {"none", "active", "recovering", "closing", "covered", "closed", "failed",
        "cancelled", "paused", "human"} = Phases
    /\ Terminal \subseteq Phases
    /\ "none" \notin Terminal /\ "none" \notin Unfinished /\ "closed" \in Terminal
BY DEF Phases, Unfinished, Terminal

\* A checkpoint of a live run.
SavedBy(r) == \E phase \in Phases, fenced \in BOOLEAN : Save(r, phase, fenced)

LEMMA Saved ==
    ASSUME Records, NEW r \in Runs, SavedBy(r)
    PROVE  Records'
<1>1. PICK phase \in Phases, fenced \in BOOLEAN : Save(r, phase, fenced)
  BY DEF SavedBy
<1>2. cp' = [run |-> r, phase |-> phase, fenced |-> fenced]
  BY <1>1 DEF Save
<1>3. local' = [local EXCEPT !.phase = phase, !.fenced = fenced]
  BY <1>1 DEF Save
<1>4. local' \in Memory
  BY <1>3, Retold, Zenon DEF Records
<1>5. cp' \in Checkpoint /\ cp'.run \in Runs
  BY <1>2, Made
<1> QED BY <1>4, <1>5 DEF Records

LEMMA Saves ==
    ASSUME Records, NEW r \in Runs,
           \/ Planned(r) \/ GrantFails(r) \/ Obey(r) \/ Tick(r) \/ HandsOver(r)
           \/ Fence(r) \/ Conclude(r) \/ Finalize(r) \/ FailsClosed(r)
    PROVE  SavedBy(r)
<1>1. local.phase \in Phases /\ local.fenced \in BOOLEAN
  BY Fields DEF Records
<1> USE <1>1, PhaseNames DEF SavedBy
<1>2. CASE Planned(r)
  BY <1>2 DEF Planned
<1>3. CASE GrantFails(r)
  <2>1. PICK phase \in {"failed", "cancelled", "human"} : Save(r, phase, local.fenced)
    BY <1>3 DEF GrantFails
  <2> QED BY <2>1
<1>4. CASE Obey(r)
  BY <1>4 DEF Obey
<1>5. CASE Tick(r)
  BY <1>5 DEF Tick
<1>6. CASE HandsOver(r)
  <2>1. PICK phase \in {"human", "paused"} : Save(r, phase, local.fenced)
    BY <1>6 DEF HandsOver
  <2> QED BY <2>1
<1>7. CASE Fence(r)
  BY <1>7 DEF Fence
<1>8. CASE Conclude(r) \/ Finalize(r)
  BY <1>8 DEF Conclude, Finalize
<1>9. CASE FailsClosed(r)
  BY <1>9 DEF FailsClosed
<1> QED BY <1>2, <1>3, <1>4, <1>5, <1>6, <1>7, <1>8, <1>9

LEMMA Resumed ==
    ASSUME Records, NEW r \in Runs, Loaded(r)
    PROVE  local' \in Memory
<1>1. cp.phase \in Phases /\ cp.fenced \in BOOLEAN
  BY Fields DEF Records
<1>2. local' = [NoLocal EXCEPT !.phase = cp.phase, !.fenced = cp.fenced]
  BY DEF Loaded
<1> QED BY <1>1, <1>2, Empty, Retold

LEMMA Cancelling ==
    ASSUME Records, Cancelled
    PROVE  /\ cp' \in Checkpoint
           /\ cp'.phase # "none" => cp'.run \in Runs
           /\ cp'.phase = "closed" => cp.phase = "closed"
<1>1. cp.phase \in Phases /\ "cancelled" \in Phases
  BY Fields, PhaseNames DEF Records
<1>2. \E phase \in Phases :
         /\ cp' = [cp EXCEPT !.phase = phase]
         /\ phase = cp.phase \/ (cp.phase # "none" /\ phase = "cancelled")
  BY <1>1 DEF Cancelled
<1>3. PICK phase \in Phases :
         /\ cp' = [cp EXCEPT !.phase = phase]
         /\ phase = cp.phase \/ (cp.phase # "none" /\ phase = "cancelled")
  BY <1>2
<1>4. cp' \in Checkpoint /\ cp'.run = cp.run /\ cp'.phase = phase
  BY <1>3, Rephased DEF Records
<1> QED BY <1>3, <1>4 DEF Records

LEMMA HandedOver ==
    ASSUME Records, cp.phase # "none", cp' = [cp EXCEPT !.phase = "human"]
    PROVE  cp' \in Checkpoint /\ cp'.run \in Runs
BY Rephased, PhaseNames DEF Records

LEMMA InitTypes == Init => TypeOK
<1> SUFFICES ASSUME Init PROVE TypeOK
  OBVIOUS
<1>1. Records
  BY Empty DEF Init, Records, Checkpoint, Phases, NoRun
<1>2. Others
  BY SupervisorAssumption DEF Init, Others, PC, RunStatus, NoRun, Runs
<1> QED BY <1>1, <1>2, Parts

LEMMA InitInv == Init => IInv
<1> SUFFICES ASSUME Init PROVE IInv
  OBVIOUS
<1>1. Alone /\ CloseoutStopsAll /\ ConcludesStopped
    BY DEF Init, Alone, OneSupervisor, EndedRunIsSilent, CloseoutStopsAll,
     ConcludesStopped, Live
<1> QED BY <1>1, InitTypes DEF IInv

-----------------------------------------------------------------------------
(* The types.                                                              *)

LEMMA OthersTask ==
    ASSUME Others, NEW r \in Runs, TaskAct(r)
    PROVE  Others'
<1> USE DEF Others, PC, InThread, RunStatus, ActiveStatus, Goes, rowVars,
   ownerVars, jobVars, taskFrame
<1>1. CASE Begin(r)
  BY <1>1 DEF Begin, Loaded
<1>2. CASE Load(r)
  BY <1>2 DEF Load, Loaded
<1>3. CASE Planned(r)
  BY <1>3 DEF Planned
<1>4. CASE GrantFails(r)
  BY <1>4 DEF GrantFails
<1>5. CASE TimeUp(r)
  BY <1>5 DEF TimeUp
<1>6. CASE Obey(r)
  BY <1>6 DEF Obey
<1>7. CASE Tick(r)
  BY <1>7 DEF Tick
<1>8. CASE Decides(r)
  BY <1>8 DEF Decides
<1>9. CASE HandsOver(r)
  BY <1>9 DEF HandsOver
<1>10. CASE \E s \in Shots : Check(r, s)
  BY <1>10 DEF Check, MayDispatch
<1>11. CASE Enqueue(r)
  BY <1>11 DEF Enqueue
<1>12. CASE Fence(r)
  BY <1>12 DEF Fence
<1>13. CASE Stop(r)
  BY <1>13 DEF Stop, Stopped, PassOver, Busy, Faulty
<1>14. CASE Conclude(r)
  BY <1>14 DEF Conclude
<1>15. CASE Finalize(r)
  BY <1>15 DEF Finalize
<1>16. CASE Release(r)
  BY <1>16 DEF Release
<1>17. CASE End(r)
  BY <1>17 DEF End
<1>18. CASE Fails(r)
  BY <1>18 DEF Fails, Faulty
<1>19. CASE FailsClosed(r)
  BY <1>19 DEF FailsClosed, PassOver, Busy, Faulty
<1> QED BY <1>1, <1>2, <1>3, <1>4, <1>5, <1>6, <1>7, <1>8, <1>9, <1>10, <1>11,
   <1>12, <1>13, <1>14, <1>15, <1>16, <1>17, <1>18, <1>19 DEF TaskAct, Ticking,
   Closing

LEMMA OthersRun ==
    ASSUME Records, Others, NEW r \in Runs, RunAct(r)
    PROVE  Others'
<1> USE DEF Others, PC, InThread, RunStatus, ActiveStatus, Goes, rowVars,
   ownerVars, jobVars, taskFrame, Records, Terminal
<1>1. CASE Start(r)
  BY <1>1 DEF Start, Install
<1>2. CASE Resume(r)
  BY <1>2 DEF Resume, Install, OwnerStatus
<1>3. CASE Cancel(r)
  BY <1>3 DEF Cancel, Cancelled
<1>4. CASE TaskStops(r)
  BY <1>4 DEF TaskStops
<1>5. CASE Pause(r)
  BY <1>5 DEF Pause
<1>6. CASE Handoff(r)
  BY <1>6 DEF Handoff
<1>7. CASE Watchdog(r)
  BY <1>7 DEF Watchdog, Stale, Unfinished
<1> QED BY <1>1, <1>2, <1>3, <1>4, <1>5, <1>6, <1>7 DEF RunAct

LEMMA OthersWorld ==
    ASSUME Records, Others, WorldAct
    PROVE  Others'
<1> USE DEF Others, rowVars, ownerVars, jobVars
<1>1. CASE CancelEnds
  BY <1>1 DEF CancelEnds, Cancelled
<1>2. CASE Detach \/ Clock
  BY <1>2 DEF Detach, Clock, worldFrame, jobVars
<1>4. ASSUME NEW s \in Shots, ShotAct(s) PROVE Others'
  BY <1>4 DEF ShotAct, JobEnds, Adopt, Unadopt, worldFrame
<1>3. CASE Crash
  <2>1. Interrupted \in [Runs -> RunStatus]
    BY DEF Interrupted, RunStatus, ActiveStatus
  <2>2. \A r \in Runs : [Interrupted EXCEPT ![r] = "CREATED"] \in [Runs -> RunStatus]
    BY <2>1 DEF RunStatus, ActiveStatus
  <2>3. status' \in [Runs -> RunStatus]
    BY <1>3, <2>1, <2>2 DEF Crash
  <2>4. pc' \in [Runs -> PC]
    BY <1>3 DEF Crash, PC
  <2>5. owner' \in Runs \cup {NoRun} /\ origin' \in [Runs -> Runs]
    BY <1>3, PhaseNames DEF Crash, Records
  <2>6. /\ watch' = NoRun /\ cancel' = NoRun /\ ending' = FALSE /\ faults' = faults + 1
        /\ control' \in {"none", control}
        /\ UNCHANGED <<mode, jobs, adopted, due, left>>
    BY <1>3 DEF Crash, Faulty, jobVars
  <2>7. faults' \in Nat
    BY <2>6
  <2>8. mode' \in BOOLEAN /\ ending' \in BOOLEAN /\ due' \in BOOLEAN
    BY <2>6
  <2>9. /\ control' \in {"none", "pause", "handoff"}
        /\ watch' \in Runs \cup {NoRun} /\ cancel' \in Runs \cup {NoRun}
        /\ jobs' \in [Shots -> Runs \cup {NoRun}]
        /\ adopted' \subseteq Shots /\ left' \subseteq Shots
    BY <2>6
  <2> QED BY <2>3, <2>4, <2>5, <2>7, <2>8, <2>9
<1> QED BY <1>1, <1>2, <1>3, <1>4 DEF WorldAct

LEMMA RecordsTask ==
    ASSUME Records, NEW r \in Runs, TaskAct(r)
    PROVE  Records'
<1> USE DEF rowVars, ownerVars, jobVars, taskFrame
<1>1. CASE Begin(r)
  <2>1. cp' = cp
    BY <1>1 DEF Begin
  <2>2. local' \in Memory
    <3>1. CASE origin[r] = r
      <4>1. local' = [NoLocal EXCEPT !.phase = "active"]
        BY <1>1, <3>1 DEF Begin
      <4> QED BY <4>1, Empty, Retold, PhaseNames
    <3>2. CASE origin[r] # r
      BY <1>1, <3>2, Resumed DEF Begin
    <3> QED BY <3>1, <3>2
  <2> QED BY <2>1, <2>2 DEF Records
<1>2. CASE Load(r)
  <2>1. cp' = cp /\ local' \in Memory
    BY <1>2, Resumed DEF Load
  <2> QED BY <2>1 DEF Records
<1>3. CASE \/ Planned(r) \/ GrantFails(r) \/ Obey(r) \/ Tick(r) \/ HandsOver(r)
          \/ Fence(r) \/ Conclude(r) \/ Finalize(r) \/ FailsClosed(r)
  <2>1. SavedBy(r)
    BY <1>3, Saves
  <2> QED BY <2>1, Saved
<1>4. CASE TimeUp(r) \/ Decides(r) \/ Stop(r) \/ Release(r)
  <2>1. cp' = cp /\ local' = local
    BY <1>4 DEF TimeUp, Decides, Stop, Release
  <2> QED BY <2>1 DEF Records
<1>7. CASE Enqueue(r) \/ \E s \in Shots : Check(r, s)
  <2>1. cp' = cp /\ \E s \in Shots \cup {NoShot} : local' = [local EXCEPT !.shot = s]
    BY <1>7 DEF Enqueue, Check
  <2>2. local' \in Memory
    BY <2>1, Retold, PhaseNames DEF Records
  <2> QED BY <2>1, <2>2 DEF Records
<1>5. CASE End(r)
  <2>1. cp' = cp /\ local' = NoLocal
    BY <1>5 DEF End
  <2> QED BY <2>1, Empty DEF Records
<1>6. CASE Fails(r)
  <2>1. (cp.run = r /\ cp.fenced) \in BOOLEAN
    OBVIOUS
  <2>2. cp' = [run |-> r, phase |-> "recovering", fenced |-> (cp.run = r /\ cp.fenced)]
    BY <1>6 DEF Fails
  <2>3. cp' \in Checkpoint
    BY <2>1, <2>2, Made, PhaseNames
  <2>4. local' = local \/ local' = [local EXCEPT !.last = TRUE]
    BY <1>6 DEF Fails
  <2>5. local' \in Memory
    BY <2>4, Retold, PhaseNames DEF Records
  <2>6. cp'.run = r
    BY <2>2
  <2> QED BY <2>3, <2>5, <2>6 DEF Records
<1> QED BY <1>1, <1>2, <1>3, <1>4, <1>5, <1>6, <1>7 DEF TaskAct, Ticking, Closing

LEMMA RecordsRun ==
    ASSUME Records, NEW r \in Runs, RunAct(r)
    PROVE  Records'
<1> USE DEF rowVars
<1>1. CASE Start(r) \/ Resume(r) \/ Pause(r)
  <2>1. cp' = cp /\ local' = local
    BY <1>1 DEF Start, Resume, Install, Pause
  <2> QED BY <2>1 DEF Records
<1>2. CASE Cancel(r)
  <2>1. local' = local /\ (cp' = cp \/ Cancelled)
    BY <1>2 DEF Cancel
  <2> QED BY <2>1, Cancelling DEF Records
<1>3. CASE TaskStops(r)
  <2>1. cp' = cp /\ local' = NoLocal
    BY <1>3 DEF TaskStops
  <2> QED BY <2>1, Empty DEF Records
<1>4. CASE Handoff(r)
  <2>1. local' = local
    BY <1>4 DEF Handoff
  <2>2. cp' = cp \/ (cp.phase # "none" /\ cp' = [cp EXCEPT !.phase = "human"])
    BY <1>4 DEF Handoff
  <2>3. cp' = cp \/ (cp' \in Checkpoint /\ cp'.run \in Runs)
    BY <2>2, HandedOver
  <2> QED BY <2>1, <2>3 DEF Records
<1>5. CASE Watchdog(r)
  <2>1. cp.phase \in Unfinished
    BY <1>5 DEF Watchdog, Stale
  <2>2. CASE /\ cp' = cp
             /\ local' = [NoLocal EXCEPT !.phase = "recovering", !.fenced = cp.fenced, !.last = TRUE]
    BY <2>2, Empty, Retold, Fields, PhaseNames DEF Records
  <2>3. CASE local' = local /\ cp' = [cp EXCEPT !.phase = "human"]
    BY <2>1, <2>3, Rephased, PhaseNames DEF Records
  <2> QED BY <1>5, <2>2, <2>3 DEF Watchdog
<1> QED BY <1>1, <1>2, <1>3, <1>4, <1>5 DEF RunAct

LEMMA RecordsWorld ==
    ASSUME Records, WorldAct
    PROVE  Records'
<1>1. CASE CancelEnds
  <2>1. local' = local /\ Cancelled
    BY <1>1 DEF CancelEnds
  <2> QED BY <2>1, Cancelling DEF Records
<1>2. CASE Detach \/ Clock
  <2>1. cp' = cp /\ local' = local
    BY <1>2 DEF Detach, Clock, worldFrame
  <2> QED BY <2>1 DEF Records
<1>4. ASSUME NEW s \in Shots, ShotAct(s) PROVE Records'
  BY <1>4 DEF ShotAct, JobEnds, Adopt, Unadopt, worldFrame, Records
<1>3. CASE Crash
  <2>1. local' = NoLocal
    BY <1>3 DEF Crash
  <2>2. \/ cp' = cp
        \/ /\ cp.phase \in Unfinished \cup {"paused"}
           /\ cp' = [cp EXCEPT !.phase = "human"]
    BY <1>3 DEF Crash
  <2>3. cp' = cp \/ (cp' \in Checkpoint /\ cp'.run \in Runs)
    BY <2>2, HandedOver, PhaseNames
  <2>4. local' \in Memory
    BY <2>1, Empty
  <2> QED BY <2>3, <2>4 DEF Records
<1> QED BY <1>1, <1>2, <1>3, <1>4 DEF WorldAct

LEMMA TypeInductive == TypeOK /\ [Next]_vars => TypeOK'
<1> SUFFICES ASSUME TypeOK, [Next]_vars PROVE TypeOK'
  OBVIOUS
<1>1. Records /\ Others
  BY Parts
<1>2. ASSUME NEW r \in Runs, TaskAct(r) PROVE Records' /\ Others'
  BY <1>1, <1>2, RecordsTask, OthersTask
<1>3. ASSUME NEW r \in Runs, RunAct(r) PROVE Records' /\ Others'
  BY <1>1, <1>3, RecordsRun, OthersRun
<1>4. ASSUME WorldAct PROVE Records' /\ Others'
  BY <1>1, <1>4, RecordsWorld, OthersWorld
<1>5. ASSUME UNCHANGED vars PROVE Records' /\ Others'
  BY <1>1, <1>5 DEF vars, rowVars, ownerVars, jobVars, Records, Others
<1>6. Records' /\ Others'
  BY <1>2, <1>3, <1>4, <1>5, NextCases
<1> QED BY <1>6, Parts, PTL

-----------------------------------------------------------------------------
(* One supervisor, of a run that is not over.                              *)

LEMMA AloneTask ==
    ASSUME TypeOK, Alone, NEW r \in Runs, TaskAct(r)
    PROVE  Alone'
<1> USE DEF TypeOK, Alone, OneSupervisor, EndedRunIsSilent, Goes, Save, Steps, Live,
   Active, ActiveStatus, NoRun, rowVars, ownerVars, jobVars, taskFrame
<1>1. CASE Begin(r)
  BY <1>1 DEF Begin, Loaded
<1>2. CASE Load(r)
  BY <1>2 DEF Load, Loaded
<1>3. CASE Planned(r)
  BY <1>3 DEF Planned
<1>4. CASE GrantFails(r)
  BY <1>4 DEF GrantFails
<1>5. CASE TimeUp(r)
  BY <1>5 DEF TimeUp
<1>6. CASE Obey(r)
  BY <1>6 DEF Obey
<1>7. CASE Tick(r)
  BY <1>7 DEF Tick
<1>8. CASE Decides(r)
  BY <1>8 DEF Decides
<1>9. CASE HandsOver(r)
  BY <1>9 DEF HandsOver
<1>10. CASE \E s \in Shots : Check(r, s)
  BY <1>10 DEF Check, MayDispatch
<1>11. CASE Enqueue(r)
  BY <1>11 DEF Enqueue
<1>12. CASE Fence(r)
  BY <1>12 DEF Fence
<1>13. CASE Stop(r)
  BY <1>13 DEF Stop, Stopped, PassOver, Busy, Faulty
<1>14. CASE Conclude(r)
  BY <1>14 DEF Conclude
<1>15. CASE Finalize(r)
  BY <1>15 DEF Finalize
<1>16. CASE Release(r)
  BY <1>16 DEF Release
<1>17. CASE End(r)
  BY <1>17 DEF End
<1>18. CASE Fails(r)
  BY <1>18 DEF Fails, Faulty
<1>19. CASE FailsClosed(r)
  BY <1>19 DEF FailsClosed, PassOver, Busy, Faulty
<1> QED BY <1>1, <1>2, <1>3, <1>4, <1>5, <1>6, <1>7, <1>8, <1>9, <1>10, <1>11,
   <1>12, <1>13, <1>14, <1>15, <1>16, <1>17, <1>18, <1>19 DEF TaskAct, Ticking,
   Closing

LEMMA AloneRun ==
    ASSUME TypeOK, Alone, NEW r \in Runs, RunAct(r)
    PROVE  Alone'
<1> USE DEF TypeOK, Alone, OneSupervisor, EndedRunIsSilent, Goes, Save, Steps, Live,
   Active, ActiveStatus, NoRun, rowVars, ownerVars, jobVars, taskFrame
<1>1. CASE Start(r)
  BY <1>1 DEF Start, Install
<1>2. CASE Resume(r)
  BY <1>2 DEF Resume, Install, OwnerStatus
<1>3. CASE Cancel(r)
  BY <1>3 DEF Cancel, Cancelled
<1>4. CASE TaskStops(r)
  BY <1>4 DEF TaskStops
<1>5. CASE Pause(r)
  BY <1>5 DEF Pause
<1>6. CASE Handoff(r)
  BY <1>6 DEF Handoff
<1>7. CASE Watchdog(r)
  BY <1>7 DEF Watchdog, Stale, Unfinished
<1> QED BY <1>1, <1>2, <1>3, <1>4, <1>5, <1>6, <1>7 DEF RunAct

LEMMA AloneWorld ==
    ASSUME TypeOK, Alone, WorldAct
    PROVE  Alone'
<1> USE DEF TypeOK, Alone, OneSupervisor, EndedRunIsSilent, Goes, Save, Steps, Live,
   Active, ActiveStatus, NoRun, rowVars, ownerVars, jobVars, taskFrame
<1>1. CASE CancelEnds
  BY <1>1 DEF CancelEnds, Cancelled
<1>2. CASE Detach
  BY <1>2 DEF Detach
<1>3. CASE Crash
  BY <1>3 DEF Crash, Faulty, Interrupted, Unfinished
<1>4. CASE Clock
  BY <1>4 DEF Clock, worldFrame, jobVars
<1>5. ASSUME NEW s \in Shots, ShotAct(s) PROVE Alone'
  BY <1>5 DEF ShotAct, JobEnds, Adopt, Unadopt, worldFrame
<1> QED BY <1>1, <1>2, <1>3, <1>4, <1>5 DEF WorldAct

LEMMA AloneStep == TypeOK /\ Alone /\ [Next]_vars => Alone'
<1> SUFFICES ASSUME TypeOK, Alone, [Next]_vars PROVE Alone'
  OBVIOUS
<1>1. CASE \E r \in Runs : TaskAct(r)
  BY <1>1, AloneTask
<1>2. CASE \E r \in Runs : RunAct(r)
  BY <1>2, AloneRun
<1>3. CASE WorldAct
  BY <1>3, AloneWorld
<1>4. CASE UNCHANGED vars
  BY <1>4 DEF vars, rowVars, ownerVars, jobVars, Alone, OneSupervisor, EndedRunIsSilent, Live
<1> QED BY <1>1, <1>2, <1>3, <1>4, NextCases

-----------------------------------------------------------------------------
(* A closeout stops the jobs.                                              *)

Stops == CloseoutStopsAll /\ ConcludesStopped

LEMMA StopsTask ==
    ASSUME TypeOK, Alone, Stops, NEW r \in Runs, TaskAct(r)
    PROVE  Stops'
<1> USE DEF NoLocal, TypeOK, Stops, CloseoutStopsAll, ConcludesStopped, Alone,
   OneSupervisor, Goes, Save, Steps, Live, Terminal, rowVars, ownerVars, jobVars, taskFrame
<1>1. CASE Begin(r)
  <2>1. /\ pc[r] = "spawned"
        /\ UNCHANGED <<cp, jobs, left>>
        /\ \A q \in Runs : q # r => pc'[q] = pc[q]
        /\ pc'[r] \in {"plan", "end"}
    BY <1>1 DEF Begin, Loaded
  <2>2. pc'[r] = "plan" => local'.phase # "closed"
    <3>1. CASE origin[r] = r
      BY <1>1, <3>1 DEF Begin
    <3>2. CASE origin[r] # r
      <4>1. local' = [NoLocal EXCEPT !.phase = cp.phase, !.fenced = cp.fenced]
        BY <1>1, <3>2 DEF Begin, Loaded
      <4>2. cp.phase = "closed" => pc'[r] = "end"
        BY <1>1, <3>2 DEF Begin, Loaded
      <4> QED BY <4>1, <4>2
    <3> QED BY <3>1, <3>2
  <2>3. \A q \in Runs : q # r => pc[q] = "none"
    BY <2>1
  <2>4. \A q \in Runs : q # r => pc'[q] = "none"
    BY <2>1, <2>3
  <2>5. CloseoutStopsAll'
    BY <2>1
  <2>6. ConcludesStopped'
    BY <2>1, <2>2, <2>4
  <2> QED BY <2>5, <2>6
<1>2. CASE Load(r)
  BY <1>2 DEF Load, Loaded
<1>3. CASE Planned(r)
  BY <1>3 DEF Planned
<1>4. CASE GrantFails(r)
  BY <1>4 DEF GrantFails
<1>5. CASE TimeUp(r)
  BY <1>5 DEF TimeUp
<1>6. CASE Obey(r)
  BY <1>6 DEF Obey
<1>7. CASE Tick(r)
  BY <1>7 DEF Tick
<1>8. CASE Decides(r)
  BY <1>8 DEF Decides
<1>9. CASE HandsOver(r)
  BY <1>9 DEF HandsOver
<1>10. CASE \E s \in Shots : Check(r, s)
  BY <1>10 DEF Check, MayDispatch
<1>11. CASE Enqueue(r)
  BY <1>11 DEF Enqueue
<1>12. CASE Fence(r)
  BY <1>12 DEF Fence
<1>13. CASE Stop(r)
  BY <1>13 DEF Stop, Stopped, PassOver, Busy, Faulty
<1>14. CASE Conclude(r)
  BY <1>14 DEF Conclude
<1>15. CASE Finalize(r)
  BY <1>15 DEF Finalize
<1>16. CASE Release(r)
  BY <1>16 DEF Release
<1>17. CASE End(r)
  BY <1>17 DEF End
<1>18. CASE Fails(r)
  BY <1>18 DEF Fails, Faulty
<1>19. CASE FailsClosed(r)
  BY <1>19 DEF FailsClosed, PassOver, Busy, Faulty
<1> QED BY <1>1, <1>2, <1>3, <1>4, <1>5, <1>6, <1>7, <1>8, <1>9, <1>10, <1>11,
   <1>12, <1>13, <1>14, <1>15, <1>16, <1>17, <1>18, <1>19 DEF TaskAct, Ticking,
   Closing

LEMMA StopsRun ==
    ASSUME TypeOK, Alone, Stops, NEW r \in Runs, RunAct(r)
    PROVE  Stops'
<1> USE DEF NoLocal, TypeOK, Stops, CloseoutStopsAll, ConcludesStopped, Alone,
   OneSupervisor, Goes, Save, Steps, Live, Terminal, rowVars,
   ownerVars, jobVars, taskFrame, Active, EndedRunIsSilent
<1>1. CASE Start(r)
  BY <1>1 DEF Start, Install
<1>2. CASE Resume(r)
  BY <1>2 DEF Resume, Install, OwnerStatus
<1>3. CASE Cancel(r)
  BY <1>3 DEF Cancel, Cancelled
<1>4. CASE TaskStops(r)
  BY <1>4 DEF TaskStops
<1>5. CASE Pause(r)
  BY <1>5 DEF Pause
<1>6. CASE Handoff(r)
  BY <1>6 DEF Handoff
<1>7. CASE Watchdog(r)
  BY <1>7 DEF Watchdog, Stale, Unfinished
<1> QED BY <1>1, <1>2, <1>3, <1>4, <1>5, <1>6, <1>7 DEF RunAct

LEMMA StopsWorld ==
    ASSUME TypeOK, Stops, WorldAct
    PROVE  Stops'
<1> USE DEF NoLocal, TypeOK, Stops, CloseoutStopsAll, ConcludesStopped, Alone,
   OneSupervisor, Goes, Save, Steps, Live, Terminal, rowVars, ownerVars, jobVars, taskFrame
<1>1. CASE CancelEnds
  BY <1>1 DEF CancelEnds, Cancelled
<1>2. CASE Detach
  BY <1>2 DEF Detach
<1>3. CASE Crash
  BY <1>3 DEF Crash, Faulty, Interrupted, Unfinished
<1>4. CASE Clock
  BY <1>4 DEF Clock, worldFrame, jobVars
<1>5. ASSUME NEW s \in Shots, ShotAct(s) PROVE Stops'
  BY <1>5 DEF ShotAct, JobEnds, Adopt, Unadopt, worldFrame
<1> QED BY <1>1, <1>2, <1>3, <1>4, <1>5 DEF WorldAct

LEMMA StopsStep == TypeOK /\ Alone /\ Stops /\ [Next]_vars => Stops'
<1> SUFFICES ASSUME TypeOK, Alone, Stops, [Next]_vars PROVE Stops'
  OBVIOUS
<1>1. CASE \E r \in Runs : TaskAct(r)
  BY <1>1, StopsTask
<1>2. CASE \E r \in Runs : RunAct(r)
  BY <1>2, StopsRun
<1>3. CASE WorldAct
  BY <1>3, StopsWorld
<1>4. CASE UNCHANGED vars
  BY <1>4 DEF vars, rowVars, ownerVars, jobVars, Stops, CloseoutStopsAll, ConcludesStopped
<1> QED BY <1>1, <1>2, <1>3, <1>4, NextCases

-----------------------------------------------------------------------------
LEMMA Inductive == IInv /\ [Next]_vars => IInv'
BY TypeInductive, AloneStep, StopsStep DEF IInv, Stops

LEMMA Invariance == Spec => []IInv
BY InitInv, Inductive, PTL DEF Spec

\* Whatever the runs, starts and faults, the variables keep their types.
THEOREM TypeCorrect == Spec => []TypeOK
<1>1. IInv => TypeOK
  BY DEF IInv, Alone
<1> QED BY <1>1, Invariance, PTL

\* Whatever is started, resumed, cancelled, recovered or closed by the watchdog,
\* one task at most works for the episode, and nobody else owns it.
THEOREM NobodyWorksBeside == Spec => []OneSupervisor
<1>1. IInv => OneSupervisor
  BY DEF IInv, Alone
<1> QED BY <1>1, Invariance, PTL

\* However a run comes to its end, its task is gone by then.
THEOREM ACancelledRunHasLetGo == Spec => []EndedRunIsSilent
<1>1. IInv => EndedRunIsSilent
  BY DEF IInv, Alone
<1> QED BY <1>1, Invariance, PTL

\* However often a closeout is interrupted and by whom it is repeated: a job that
\* is active when it has concluded is one its stop passed over, because it could
\* not be cancelled or its shot had an adopted version by then.
THEOREM ACloseoutStopsEveryJob == Spec => []CloseoutStopsAll
<1>1. IInv => CloseoutStopsAll
  BY DEF IInv, Alone
<1> QED BY <1>1, Invariance, PTL

=============================================================================
