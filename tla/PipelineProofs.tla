--------------------------- MODULE PipelineProofs ---------------------------
(***************************************************************************)
(* Proofs about the composed pipeline, for every plan, every number of     *)
(* runs, requests and restarts, and any set of endpoints.                  *)
(***************************************************************************)
EXTENDS PipelineApi, FiniteSetTheorems, TLAPS

\* The edge after a stage leads to a stage.
LEMMA NextStageType ==
    ASSUME NEW s \in Stages, s # "DEPLOYING"
    PROVE  NextStage[s] \in Stages
BY DEF NextStage, Stages, StageStatuses

\* A plan has a phase, and no phase is numbered 0.
LEMMA PhaseNumbers == FirstPhase \in Phases /\ 0 \notin Phases
BY PlanAssumption DEF FirstPhase

\* Started transactions can be counted.
LEMMA StartedRuns == Cardinality({x \in Runs : began[x] > 0}) \in Nat
BY ApiAssumption, FS_Subset, FS_CardinalityType

-----------------------------------------------------------------------------
(* Types *)

\* A new voyage, and a process that has just started, are well typed.
LEMMA TypeInit == Init => TypeOK
<1> SUFFICES ASSUME Init PROVE TypeOK
    OBVIOUS
<1> USE PhaseNumbers DEF Init, StoreInit, RunsInit
<1>1. StoreTypeOK
  BY DEF StoreTypeOK, VoyageStatus, SettledStatuses, PhaseStatus, Sessions, Free, Main
<1>2. RunsTypeOK
  BY DEF RunsTypeOK, Locations, Stages, StageStatuses, VoyageStatus, SettledStatuses,
         NoShips, ShipStates
<1> QED  BY <1>1, <1>2 DEF TypeOK, Places, VoyageStatus, SettledStatuses, PhaseStatus

\* An edge of the graph leads to a node.
LEMMA AdvanceType ==
    ASSUME RunsTypeOK, NEW r \in Runs, Advance(r)
    PROVE  pc' \in [Runs -> Locations] /\ stage' \in [Runs -> Stages]
<1>1. CASE stage[r] = "DEPLOYING"
  BY <1>1 DEF RunsTypeOK, Advance, Goto, Locations
<1>2. CASE stage[r] # "DEPLOYING"
  <2>1. NextStage[stage[r]] \in Stages
    BY <1>2, NextStageType DEF RunsTypeOK
  <2> QED  BY <1>2, <2>1 DEF RunsTypeOK, Advance, Goto, Locations
<1> QED  BY <1>1, <1>2

\* The steps of a pipeline task.
LEMMA TypeRun ==
    ASSUME TypeOK, NEW r \in Runs, RunStep(r), UNCHANGED apiVars
    PROVE  TypeOK'
<1> USE PhaseNumbers DEF TypeOK, StoreTypeOK, RunsTypeOK, storeVars, rowVars, tableVars,
        runVars, apiVars, Goto, Locations, Stages, StageStatuses, VoyageStatus,
        SettledStatuses, PhaseStatus, Sessions, Main, Free, ShipStates, NoShips
<1>1. CASE StopPaused(r)
  BY <1>1 DEF StopPaused
<1>2. CASE StopCancelled(r)
  BY <1>2 DEF StopCancelled
<1>3. CASE EnterNode(r)
  BY <1>3 DEF EnterNode
<1>4. CASE GuardFails(r)
  BY <1>4 DEF GuardFails
<1>5. CASE SkipStage(r)
  BY <1>5, AdvanceType DEF SkipStage
<1>6. CASE EnterStage(r)
  BY <1>6 DEF EnterStage
<1>7. CASE LoadVoyage(r)
  <2>1. mem' \in [Runs -> VoyageStatus] /\ pc' \in [Runs -> Locations]
    BY <1>7 DEF LoadVoyage
  <2>2. files' \in [Runs -> [Phases -> Nat]] /\ began' \in [Runs -> Nat]
    <3>1. CASE stage[r] # "REVIEWING"
      BY <1>7, <3>1 DEF LoadVoyage
    <3>2. CASE stage[r] = "REVIEWING"
      <4> DEFINE started == Cardinality({x \in Runs : began[x] > 0})
      <4>1. files' = [files EXCEPT ![r] = artifacts]
        BY <1>7, <3>2 DEF LoadVoyage
      <4>2. began' = [began EXCEPT ![r] = started + 1]
        BY <1>7, <3>2 DEF LoadVoyage
      <4>3. started \in Nat
        BY StartedRuns
      <4> HIDE DEF started
      <4> QED  BY <4>1, <4>2, <4>3
    <3> QED  BY <3>1, <3>2
  <2> QED  BY <1>7, <2>1, <2>2 DEF LoadVoyage
<1>8. CASE ClaimRow(r)
  BY <1>8 DEF ClaimRow
<1>9. CASE RefuseDeploy(r)
  BY <1>9 DEF RefuseDeploy
<1>10. CASE ChartCourse(r)
  BY <1>10, AdvanceType DEF ChartCourse, Working, CommitCharted
<1>11. CASE DraftPoneglyphs(r)
  BY <1>11, AdvanceType DEF DraftPoneglyphs, Working, CommitCharted
<1>12. CASE WriteHealthChecks(r)
  BY <1>12, AdvanceType DEF WriteHealthChecks, Working, CommitCharted
<1>13. CASE ValidateCode(r)
  BY <1>13 DEF ValidateCode, Working, CommitCharted
<1>14. CASE Verdict(r)
  <2>1. pc' \in [Runs -> Locations] /\ stage' \in [Runs -> Stages]
    <3>1. CASE Advance(r)
      BY <3>1, AdvanceType
    <3>2. CASE Goto(r, "failing") /\ UNCHANGED stage
      BY <3>2
    <3> QED  BY <1>14, <3>1, <3>2 DEF Verdict
  <2> QED  BY <1>14, <2>1 DEF Verdict
<1>15. CASE Deploy(r)
  <2>1. PICK outcome \in {"completed", "failed"} :
          /\ deployments' = deployments \cup {outcome}
          /\ IF outcome = "completed" THEN Advance(r) ELSE Goto(r, "failing") /\ UNCHANGED stage
    BY <1>15 DEF Deploy, DeployOutcomes
  <2>2. pc' \in [Runs -> Locations] /\ stage' \in [Runs -> Stages]
    <3>1. CASE Advance(r)
      BY <3>1, AdvanceType
    <3>2. CASE Goto(r, "failing") /\ UNCHANGED stage
      BY <3>2
    <3> QED  BY <2>1, <3>1, <3>2
  <2> QED  BY <1>15, <2>1, <2>2 DEF Deploy, CommitCharted
<1>16. CASE ServiceFails(r)
  BY <1>16 DEF ServiceFails
<1>17. CASE FailEnd(r)
  BY <1>17 DEF FailEnd, Unfinished
<1>18. CASE Finalize(r)
  BY <1>18 DEF Finalize
<1>19. CASE Report(r)
  BY <1>19 DEF Report
<1>20. CASE DeliverCancel(r)
  BY <1>20 DEF DeliverCancel, AbandonShips
<1>21. CASE CollectSession(r)
  BY <1>21 DEF CollectSession
<1>22. CASE EnterBuilding(r)
  <2>1. pc' \in [Runs -> Locations] /\ stage' \in [Runs -> Stages]
    <3>1. CASE Advance(r)
      BY <3>1, AdvanceType
    <3>2. CASE Goto(r, "failing") /\ UNCHANGED stage
      BY <3>2
    <3>3. CASE Goto(r, "layer") /\ UNCHANGED stage
      BY <3>3
    <3>4. \/ Advance(r)
          \/ Goto(r, "failing") /\ UNCHANGED stage
          \/ Goto(r, "layer") /\ UNCHANGED stage
      BY <1>22, Zenon DEF EnterBuilding
    <3> QED  BY <3>1, <3>2, <3>3, <3>4
  <2>2. layered' \in [Runs -> SUBSET Phases]
    BY <1>22 DEF EnterBuilding
  <2> QED  BY <1>22, <2>1, <2>2 DEF EnterBuilding
<1>23. CASE StartLayer(r)
  BY <1>23 DEF StartLayer
<1>24. CASE LastLayerBuilt(r)
  BY <1>24, AdvanceType DEF LastLayerBuilt
<1>25. CASE LayerReturned(r)
  <2>1. layered' \in [Runs -> SUBSET Phases]
    BY <1>25 DEF LayerReturned, NextLayer
  <2> QED  BY <1>25, <2>1 DEF LayerReturned
<1>26. CASE LayerRaised(r)
  BY <1>26 DEF LayerRaised, AbandonShips
<1>27. ASSUME NEW n \in Phases, ShipStep(r, n) PROVE TypeOK'
  <2>1. CASE LoadPhase(r, n)
    <3>1. SetShip(r, n, "loaded") \/ SetShip(r, n, "raised")
      BY <2>1 DEF LoadPhase
    <3>2. UNCHANGED <<storeVars, pc, stage, mem, files, began, layered, killed>>
      BY <2>1 DEF LoadPhase
    <3>3. ship' \in [Runs -> [Phases -> ShipStates]]
      <4>1. CASE SetShip(r, n, "loaded")
        BY <4>1 DEF SetShip
      <4>2. CASE SetShip(r, n, "raised")
        BY <4>2 DEF SetShip
      <4> QED  BY <3>1, <4>1, <4>2
    <3> QED  BY <3>2, <3>3
  <2>2. CASE ClaimPhase(r, n)
    BY <2>2 DEF ClaimPhase, SetShip
  <2>3. CASE PhaseBuilt(r, n)
    BY <2>3 DEF PhaseBuilt, SetShip
  <2>4. CASE PhaseFailed(r, n)
    BY <2>4 DEF PhaseFailed, SetShip
  <2> QED  BY <1>27, <2>1, <2>2, <2>3, <2>4 DEF ShipStep
<1>28. CASE ForeignKeyFails(r)
  BY <1>28 DEF ForeignKeyFails
<1> QED
  BY <1>1, <1>2, <1>3, <1>4, <1>5, <1>6, <1>7, <1>8, <1>9, <1>10, <1>11, <1>12, <1>13,
     <1>14, <1>15, <1>16, <1>17, <1>18, <1>19, <1>20, <1>21, <1>22, <1>23, <1>24, <1>25,
     <1>26, <1>27, <1>28
  DEF RunStep, StageStep, BuildStep

\* What a request does, its answer included.
LEMMA TypeRequest ==
    ASSUME TypeOK, NEW q \in Requests, Arrive(q) \/ RequestStep(q)
    PROVE  TypeOK'
<1> USE PhaseNumbers DEF TypeOK, StoreTypeOK, RunsTypeOK, storeVars, rowVars, tableVars,
        runVars, Places, Answer, Refuse, MoveTo, CommitStatus, VoyageStatus, SettledStatuses,
        StageStatuses, PhaseStatus, Sessions, Main, Free
<1>1. CASE Arrive(q)
  <2>1. PICK k \in Kinds, n \in Phases :
            kind' = [kind EXCEPT ![q] = k] /\ target' = [target EXCEPT ![q] = n]
    BY <1>1 DEF Arrive
  <2>2. k \in {"start", "resume", "pause", "cancel", "redirect"}
    BY ApiAssumption
  <2>3. /\ at' = [at EXCEPT ![q] = "decide"] /\ seen' = [seen EXCEPT ![q] = status]
        /\ seenPhases' = [seenPhases EXCEPT ![q] = phaseStatus]
        /\ UNCHANGED <<storeVars, runVars, registry, restarts>>
    BY <1>1 DEF Arrive
  <2> QED  BY <2>1, <2>2, <2>3
<1>2. ASSUME NEW copy, Spawn(q, copy) PROVE TypeOK'
  <2>1. PICK r \in IdleRuns :
            /\ registry' = r
            /\ Goto(r, IF copy \in PlannableStatuses THEN "check" ELSE "report")
            /\ UNCHANGED <<storeVars, stage, mem, files, began, layered, ship, killed>>
            /\ Answer(q) /\ UNCHANGED restarts
    BY <1>2 DEF Spawn
  <2>2. r \in Runs
    BY DEF IdleRuns
  <2>3. pc' \in [Runs -> Locations]
    BY <2>1, <2>2 DEF Goto, Locations
  <2> QED  BY <2>1, <2>2, <2>3
<1>3. CASE StartVoyage(q)
  <2>1. Refuse(q) \/ Spawn(q, seen[q])
    BY <1>3, Zenon DEF StartVoyage
  <2>2. CASE Refuse(q)
    BY <2>2
  <2> QED  BY <1>2, <2>1, <2>2
<1>4. CASE ResumeVoyage(q)
  <2>1. \/ Refuse(q)
        \/ Spawn(q, "CHARTED")
        \/ MoveTo(q, "flip") /\ UNCHANGED <<storeVars, runVars, registry, restarts>>
    BY <1>4, Zenon DEF ResumeVoyage
  <2>2. CASE Refuse(q)
    BY <2>2
  <2>3. CASE MoveTo(q, "flip") /\ UNCHANGED <<storeVars, runVars, registry, restarts>>
    BY <2>3
  <2> QED  BY <1>2, <2>1, <2>2, <2>3
<1>5. CASE ResumeFlip(q)
  BY <1>5 DEF ResumeFlip
<1>6. CASE ResumeSpawn(q)
  BY <1>2, <1>6 DEF ResumeSpawn
<1>7. CASE PauseVoyage(q)
  <2>1. CASE Refuse(q)
    BY <2>1
  <2>2. CASE CommitStatus("PAUSED") /\ Answer(q) /\ UNCHANGED <<registry, restarts>>
    BY <2>2
  <2> QED  BY <1>7, <2>1, <2>2, Zenon DEF PauseVoyage
<1>8. CASE CancelVoyage(q)
  <2>1. MoveTo(q, "kill") /\ UNCHANGED <<registry, restarts>>
    BY <1>8, Zenon DEF CancelVoyage
  <2>2. CASE UNCHANGED <<storeVars, runVars>>
    BY <2>1, <2>2
  <2>3. CASE CommitStatus("CANCELLED")
    BY <2>1, <2>3
  <2> QED  BY <1>8, <2>2, <2>3, Zenon DEF CancelVoyage
<1>9. CASE CancelTask(q)
  <2>1. killed' \in [Runs -> BOOLEAN]
    BY <1>9 DEF CancelTask
  <2> QED  BY <1>9, <2>1 DEF CancelTask
<1>10. CASE RedirectPhase(q)
  <2>1. CASE Refuse(q)
    BY <2>1
  <2>2. CASE /\ rowLock = Free
             /\ phaseStatus' = [seenPhases[q] EXCEPT ![target[q]] = "PENDING"]
             /\ Answer(q)
             /\ UNCHANGED <<status, rowLock, tableVars, runVars, registry, restarts>>
    <3>1. phaseStatus' \in [Phases -> PhaseStatus]
      BY <2>2
    <3> QED  BY <2>2, <3>1
  <2> QED  BY <1>10, <2>1, <2>2, Zenon DEF RedirectPhase
<1> QED
  BY <1>1, <1>3, <1>4, <1>5, <1>6, <1>7, <1>8, <1>9, <1>10 DEF RequestStep

\* What remains of a run that is over.
LEMMA TypeBury ==
    ASSUME RunsTypeOK, NEW S \in SUBSET Runs, Bury(S)
    PROVE  RunsTypeOK'
BY DEF Bury, RunsTypeOK, Locations, Stages, StageStatuses, VoyageStatus, SettledStatuses,
       NoShips, ShipStates

\* Every step keeps the types: one case for each actor.
LEMMA TypeStep == TypeOK /\ [Next]_vars => TypeOK'
<1> SUFFICES ASSUME TypeOK, [Next]_vars PROVE TypeOK'
    OBVIOUS
<1> USE DEF storeVars, rowVars, tableVars
<1>1. ASSUME NEW r \in Runs, TaskStep(r) PROVE TypeOK'
  BY <1>1, TypeRun DEF TaskStep
<1>2. ASSUME NEW r \in Runs, Cleanup(r) PROVE TypeOK'
  <2>1. RunsTypeOK'
    BY <1>2, TypeBury DEF Cleanup, TypeOK
  <2> QED  BY <1>2, <2>1 DEF Cleanup, TypeOK, StoreTypeOK
<1>3. ASSUME NEW q \in Requests, Arrive(q) \/ RequestStep(q) PROVE TypeOK'
  BY <1>3, TypeRequest
<1>4. CASE Restart
  <2>1. RunsTypeOK'
    BY <1>4, TypeBury DEF Restart, TypeOK
  <2>2. StoreTypeOK'
    BY <1>4 DEF Restart, TypeOK, StoreTypeOK, Free, Main, Sessions
  <2> QED
    BY <1>4, <2>1, <2>2, PhaseNumbers
    DEF Restart, TypeOK, Places, VoyageStatus, SettledStatuses, PhaseStatus
<1>5. CASE UNCHANGED vars
  BY <1>5 DEF vars, runVars, apiVars, TypeOK, StoreTypeOK, RunsTypeOK
<1> QED  BY <1>1, <1>2, <1>3, <1>4, <1>5 DEF Next

\* Every reachable state is well typed: in particular the only statuses of the
\* voyages row are those of models/enums.py, whatever was written over whatever.
THEOREM TypeCorrect == Spec => []TypeOK
BY TypeInit, TypeStep, PTL DEF Spec

-----------------------------------------------------------------------------
(* The row lock and the dependency layers.  RowHasOneWriter alone is not       *)
(* inductive: that no shipwright works for a run that is over, whose locals    *)
(* the done-callback drops, is a part of LayerBarrier.                         *)

\* The commit of a stage service frees the row for everyone else.
LEMMA Release ==
    ASSUME TypeOK, RowHasOneWriter, NEW r \in Runs, pc[r] = "work", CommitCharted(r),
           NEW w, w # "work", Goto(r, w)
    PROVE  RowHasOneWriter'
BY PhaseNumbers, RunsAssumption
   DEF TypeOK, StoreTypeOK, RunsTypeOK, RowHasOneWriter, CommitCharted, Goto, Main, Free, Sessions

\* No step of a task lets a second session work on the row.
LEMMA WriterRun ==
    ASSUME TypeOK, RowHasOneWriter, LayerBarrier, NEW r \in Runs, RunStep(r)
    PROVE  RowHasOneWriter'
<1> USE PhaseNumbers, RunsAssumption
    DEF TypeOK, StoreTypeOK, RunsTypeOK, RowHasOneWriter, LayerBarrier, storeVars, rowVars,
        tableVars, runVars, Goto, Main, Free, NoShips, Sessions
<1>1. CASE StopPaused(r)
  BY <1>1 DEF StopPaused
<1>2. CASE StopCancelled(r)
  BY <1>2 DEF StopCancelled
<1>3. CASE EnterNode(r)
  BY <1>3 DEF EnterNode
<1>4. CASE GuardFails(r)
  BY <1>4 DEF GuardFails
<1>5. CASE SkipStage(r)
  BY <1>5 DEF SkipStage, Advance
<1>6. CASE EnterStage(r)
  BY <1>6 DEF EnterStage
<1>7. CASE LoadVoyage(r)
  BY <1>7 DEF LoadVoyage
<1>8. CASE ClaimRow(r)
  BY <1>8 DEF ClaimRow
<1>9. CASE RefuseDeploy(r)
  BY <1>9 DEF RefuseDeploy
<1>10. CASE ChartCourse(r)
  <2>1. pc[r] = "work" /\ CommitCharted(r) /\ (Goto(r, "finalize") \/ Goto(r, "check"))
    BY <1>10 DEF ChartCourse, Working, Advance
  <2> QED  BY <2>1, Release
<1>11. CASE DraftPoneglyphs(r)
  <2>1. pc[r] = "work" /\ CommitCharted(r) /\ (Goto(r, "finalize") \/ Goto(r, "check"))
    BY <1>11 DEF DraftPoneglyphs, Working, Advance
  <2> QED  BY <2>1, Release
<1>12. CASE WriteHealthChecks(r)
  <2>1. pc[r] = "work" /\ CommitCharted(r) /\ (Goto(r, "finalize") \/ Goto(r, "check"))
    BY <1>12 DEF WriteHealthChecks, Working, Advance
  <2> QED  BY <2>1, Release
<1>13. CASE ValidateCode(r)
  BY <1>13 DEF ValidateCode, Working, CommitCharted
<1>14. CASE Verdict(r)
  BY <1>14 DEF Verdict, Advance
<1>15. CASE Deploy(r)
  <2>1. /\ pc[r] = "work" /\ CommitCharted(r)
        /\ Goto(r, "finalize") \/ Goto(r, "check") \/ Goto(r, "failing")
    BY <1>15 DEF Deploy, Working, Advance
  <2>2. CASE Goto(r, "failing")
    BY <2>1, <2>2, Release
  <2>3. CASE Goto(r, "finalize")
    BY <2>1, <2>3, Release
  <2>4. CASE Goto(r, "check")
    BY <2>1, <2>4, Release
  <2> QED  BY <2>1, <2>2, <2>3, <2>4
<1>16. CASE ServiceFails(r)
  BY <1>16 DEF ServiceFails
<1>17. CASE FailEnd(r)
  BY <1>17 DEF FailEnd, Unfinished
<1>18. CASE Finalize(r)
  BY <1>18 DEF Finalize
<1>19. CASE Report(r)
  BY <1>19 DEF Report
<1>20. CASE DeliverCancel(r)
  BY <1>20 DEF DeliverCancel, AbandonShips
<1>21. CASE CollectSession(r)
  <2>1. /\ rowLock = Main(r) /\ rowLock' = Free /\ UNCHANGED <<pc, ship, layered>>
        /\ pc[r] # "work"
    BY <1>21 DEF CollectSession, Alive
  <2> QED  BY <2>1
<1>22. CASE EnterBuilding(r)
  BY <1>22 DEF EnterBuilding, Advance
<1>23. CASE StartLayer(r)
  BY <1>23 DEF StartLayer
<1>24. CASE LastLayerBuilt(r)
  BY <1>24 DEF LastLayerBuilt, Advance
<1>25. CASE LayerReturned(r)
  BY <1>25 DEF LayerReturned
<1>26. CASE LayerRaised(r)
  BY <1>26 DEF LayerRaised, AbandonShips
<1>27. ASSUME NEW n \in Phases, ShipStep(r, n) PROVE RowHasOneWriter'
  <2>1. CASE LoadPhase(r, n)
    <3>1. SetShip(r, n, "loaded") \/ SetShip(r, n, "raised")
      BY <2>1 DEF LoadPhase
    <3>2. ship[r][n] = "queued" /\ UNCHANGED <<rowLock, pc, layered>>
      BY <2>1 DEF LoadPhase
    <3>3. CASE SetShip(r, n, "loaded")
      BY <3>2, <3>3 DEF SetShip
    <3>4. CASE SetShip(r, n, "raised")
      BY <3>2, <3>4 DEF SetShip
    <3> QED  BY <3>1, <3>3, <3>4
  <2>2. CASE ClaimPhase(r, n)
    BY <2>2 DEF ClaimPhase, SetShip
  <2>3. CASE PhaseBuilt(r, n)
    BY <2>3 DEF PhaseBuilt, SetShip
  <2>4. CASE PhaseFailed(r, n)
    BY <2>4 DEF PhaseFailed, SetShip
  <2> QED  BY <1>27, <2>1, <2>2, <2>3, <2>4 DEF ShipStep
<1>28. CASE ForeignKeyFails(r)
  BY <1>28 DEF ForeignKeyFails
<1> QED
  BY <1>1, <1>2, <1>3, <1>4, <1>5, <1>6, <1>7, <1>8, <1>9, <1>10, <1>11, <1>12, <1>13,
     <1>14, <1>15, <1>16, <1>17, <1>18, <1>19, <1>20, <1>21, <1>22, <1>23, <1>24, <1>25,
     <1>26, <1>27, <1>28
  DEF RunStep, StageStep, BuildStep

\* Layers are built one after the other.
LEMMA BarrierRun ==
    ASSUME TypeOK, RowHasOneWriter, LayerBarrier, NEW r \in Runs, RunStep(r)
    PROVE  LayerBarrier'
<1> USE PhaseNumbers, RunsAssumption
    DEF TypeOK, StoreTypeOK, RunsTypeOK, RowHasOneWriter, LayerBarrier, storeVars, rowVars,
        tableVars, runVars, Goto, Main, Free, NoShips, Sessions
<1>1. CASE StopPaused(r)
  BY <1>1 DEF StopPaused
<1>2. CASE StopCancelled(r)
  BY <1>2 DEF StopCancelled
<1>3. CASE EnterNode(r)
  BY <1>3 DEF EnterNode
<1>4. CASE GuardFails(r)
  BY <1>4 DEF GuardFails
<1>5. CASE SkipStage(r)
  BY <1>5 DEF SkipStage, Advance
<1>6. CASE EnterStage(r)
  BY <1>6 DEF EnterStage
<1>7. CASE LoadVoyage(r)
  BY <1>7 DEF LoadVoyage
<1>8. CASE ClaimRow(r)
  BY <1>8 DEF ClaimRow
<1>9. CASE RefuseDeploy(r)
  BY <1>9 DEF RefuseDeploy
<1>10. CASE ChartCourse(r)
  BY <1>10 DEF ChartCourse, Working, CommitCharted, Advance
<1>11. CASE DraftPoneglyphs(r)
  BY <1>11 DEF DraftPoneglyphs, Working, CommitCharted, Advance
<1>12. CASE WriteHealthChecks(r)
  BY <1>12 DEF WriteHealthChecks, Working, CommitCharted, Advance
<1>13. CASE ValidateCode(r)
  BY <1>13 DEF ValidateCode, Working, CommitCharted
<1>14. CASE Verdict(r)
  BY <1>14 DEF Verdict, Advance
<1>15. CASE Deploy(r)
  BY <1>15 DEF Deploy, Working, CommitCharted, Advance
<1>16. CASE ServiceFails(r)
  BY <1>16 DEF ServiceFails
<1>17. CASE FailEnd(r)
  BY <1>17 DEF FailEnd, Unfinished
<1>18. CASE Finalize(r)
  BY <1>18 DEF Finalize
<1>19. CASE Report(r)
  BY <1>19 DEF Report
<1>20. CASE DeliverCancel(r)
  BY <1>20 DEF DeliverCancel, AbandonShips
<1>21. CASE CollectSession(r)
  BY <1>21 DEF CollectSession
<1>22. CASE EnterBuilding(r)
  BY <1>22 DEF EnterBuilding, Advance
<1>23. CASE StartLayer(r)
  <2>1. \A n \in Phases : ship'[r][n] # "none" => DependsOn[n] \subseteq layered[r]
    BY <1>23 DEF StartLayer, NextLayer
  <2>2. /\ pc'[r] = "gather" /\ UNCHANGED layered
        /\ \A s \in Runs \ {r} : pc'[s] = pc[s] /\ ship'[s] = ship[s]
    BY <1>23 DEF StartLayer
  <2>3. \A n \in Phases : ship'[r][n] # "none" => DependsOn[n] \subseteq layered'[r]
    BY <2>1, <2>2
  <2>4. \A s \in Runs \ {r}, n \in Phases : ship'[s][n] # "none" =>
            pc'[s] = "gather" /\ DependsOn[n] \subseteq layered'[s]
    BY <2>2
  <2> HIDE DEF TypeOK, StoreTypeOK, RunsTypeOK, RowHasOneWriter
  <2> QED  BY <2>2, <2>3, <2>4
<1>24. CASE LastLayerBuilt(r)
  BY <1>24 DEF LastLayerBuilt, Advance
<1>25. CASE LayerReturned(r)
  BY <1>25 DEF LayerReturned
<1>26. CASE LayerRaised(r)
  BY <1>26 DEF LayerRaised, AbandonShips
<1>27. ASSUME NEW n \in Phases, ShipStep(r, n) PROVE LayerBarrier'
  <2>1. CASE LoadPhase(r, n)
    <3>1. SetShip(r, n, "loaded") \/ SetShip(r, n, "raised")
      BY <2>1 DEF LoadPhase
    <3>2. ship[r][n] = "queued" /\ UNCHANGED <<rowLock, pc, layered>>
      BY <2>1 DEF LoadPhase
    <3>3. CASE SetShip(r, n, "loaded")
      BY <3>2, <3>3 DEF SetShip
    <3>4. CASE SetShip(r, n, "raised")
      BY <3>2, <3>4 DEF SetShip
    <3> QED  BY <3>1, <3>3, <3>4
  <2>2. CASE ClaimPhase(r, n)
    BY <2>2 DEF ClaimPhase, SetShip
  <2>3. CASE PhaseBuilt(r, n)
    BY <2>3 DEF PhaseBuilt, SetShip
  <2>4. CASE PhaseFailed(r, n)
    BY <2>4 DEF PhaseFailed, SetShip
  <2> QED  BY <1>27, <2>1, <2>2, <2>3, <2>4 DEF ShipStep
<1>28. CASE ForeignKeyFails(r)
  BY <1>28 DEF ForeignKeyFails
<1> QED
  BY <1>1, <1>2, <1>3, <1>4, <1>5, <1>6, <1>7, <1>8, <1>9, <1>10, <1>11, <1>12, <1>13,
     <1>14, <1>15, <1>16, <1>17, <1>18, <1>19, <1>20, <1>21, <1>22, <1>23, <1>24, <1>25,
     <1>26, <1>27, <1>28
  DEF RunStep, StageStep, BuildStep

\* A request never takes the row lock over a step, nor moves a shipwright.
LEMMA RequestKeepsLock ==
    ASSUME TypeOK, RowHasOneWriter, LayerBarrier,
           NEW q \in Requests, Arrive(q) \/ RequestStep(q)
    PROVE  RowHasOneWriter' /\ LayerBarrier'
<1> USE DEF storeVars, rowVars, tableVars, runVars
<1>1. /\ UNCHANGED <<rowLock, ship, layered>>
      /\ \/ UNCHANGED pc
         \/ \E r \in IdleRuns, w \in {"check", "report"} : pc' = [pc EXCEPT ![r] = w]
  <2>1. ASSUME NEW copy, Spawn(q, copy)
        PROVE  /\ UNCHANGED <<rowLock, ship, layered>>
               /\ \E r \in IdleRuns, w \in {"check", "report"} : pc' = [pc EXCEPT ![r] = w]
    BY <2>1, Zenon DEF Spawn, Goto
  <2>2. CASE Arrive(q)
    BY <2>2, Zenon DEF Arrive
  <2>3. CASE StartVoyage(q) \/ ResumeVoyage(q) \/ ResumeSpawn(q)
    BY <2>1, <2>3, Zenon DEF StartVoyage, ResumeVoyage, ResumeSpawn, Refuse
  <2>4. CASE ResumeFlip(q) \/ PauseVoyage(q) \/ CancelVoyage(q)
    BY <2>4, Zenon DEF ResumeFlip, PauseVoyage, CancelVoyage, Refuse, CommitStatus
  <2>5. CASE CancelTask(q) \/ RedirectPhase(q)
    BY <2>5, Zenon DEF CancelTask, RedirectPhase, Refuse
  <2> QED  BY <2>2, <2>3, <2>4, <2>5 DEF RequestStep
<1>2. CASE UNCHANGED pc
  BY <1>1, <1>2 DEF RowHasOneWriter, LayerBarrier
<1>3. ASSUME NEW r \in IdleRuns, NEW w \in {"check", "report"}, pc' = [pc EXCEPT ![r] = w]
      PROVE  RowHasOneWriter' /\ LayerBarrier'
  <2>1. r \in Runs /\ pc[r] = "idle" /\ \A s \in Runs \ {r} : pc'[s] = pc[s]
    BY <1>3 DEF IdleRuns, TypeOK, RunsTypeOK
  <2>2. pc'[r] = w
    BY <1>3, <2>1 DEF TypeOK, RunsTypeOK
  <2> QED  BY <1>1, <2>1, <2>2 DEF RowHasOneWriter, LayerBarrier
<1> QED  BY <1>1, <1>2, <1>3

\* What the process restarts or the done-callback drops held neither.
LEMMA BuryKeepsLock ==
    ASSUME TypeOK, RowHasOneWriter, LayerBarrier, NEW S \in SUBSET Runs, Bury(S),
           \/ rowLock' = Free /\ \A r \in Runs \ S : pc[r] = "idle"
           \/ UNCHANGED rowLock /\ \A r \in S : pc[r] = "ended"
    PROVE  RowHasOneWriter' /\ LayerBarrier'
<1>1. /\ \A r \in S : pc'[r] = "gone" /\ \A n \in Phases : ship'[r][n] = "none"
      /\ \A r \in Runs \ S : pc'[r] = pc[r] /\ ship'[r] = ship[r] /\ layered'[r] = layered[r]
  BY DEF Bury, NoShips
<1>2. LayerBarrier'
  BY <1>1 DEF LayerBarrier
<1>3. CASE rowLock' = Free /\ \A r \in Runs \ S : pc[r] = "idle"
  BY <1>1, <1>3, PhaseNumbers, RunsAssumption DEF RowHasOneWriter, LayerBarrier, Main, Free
<1>4. CASE UNCHANGED rowLock /\ \A r \in S : pc[r] = "ended"
  <2>1. \A r \in S, n \in Phases : ship[r][n] = "none"
    BY <1>4 DEF LayerBarrier
  <2> QED  BY <1>1, <1>2, <1>4, <2>1 DEF RowHasOneWriter, Main
<1> QED  BY <1>2, <1>3, <1>4

\* One writer and the order of the layers are kept together by every step: a
\* shipwright holds no row once its run left the gather.
LEMMA WriterStep ==
    TypeOK /\ RowHasOneWriter /\ LayerBarrier /\ [Next]_vars => RowHasOneWriter' /\ LayerBarrier'
<1> SUFFICES ASSUME TypeOK, RowHasOneWriter, LayerBarrier, [Next]_vars
             PROVE  RowHasOneWriter' /\ LayerBarrier'
    OBVIOUS
<1> USE DEF storeVars
<1>1. ASSUME NEW r \in Runs, TaskStep(r) PROVE RowHasOneWriter' /\ LayerBarrier'
  BY <1>1, WriterRun, BarrierRun DEF TaskStep
<1>2. ASSUME NEW r \in Runs, Cleanup(r) PROVE RowHasOneWriter' /\ LayerBarrier'
  <2>1. Bury({r}) /\ UNCHANGED rowLock /\ \A s \in {r} : pc[s] = "ended"
    BY <1>2 DEF Cleanup
  <2> QED  BY <2>1, BuryKeepsLock
<1>3. ASSUME NEW q \in Requests, Arrive(q) \/ RequestStep(q)
      PROVE  RowHasOneWriter' /\ LayerBarrier'
  BY <1>3, RequestKeepsLock
<1>4. CASE Restart
  <2> DEFINE S == {r \in Runs : pc[r] # "idle"}
  <2>1. Bury(S) /\ rowLock' = Free /\ \A r \in Runs \ S : pc[r] = "idle"
    BY <1>4 DEF Restart
  <2> QED  BY <2>1, BuryKeepsLock
<1>5. CASE UNCHANGED vars
  BY <1>5 DEF vars, runVars, RowHasOneWriter, LayerBarrier
<1> QED  BY <1>1, <1>2, <1>3, <1>4, <1>5 DEF Next

\* Nobody works before the first request.
LEMMA WriterInit == Init => RowHasOneWriter /\ LayerBarrier
BY PhaseNumbers, RunsAssumption
   DEF Init, StoreInit, RunsInit, RowHasOneWriter, LayerBarrier, NoShips, Main, Free

\* However many runs of the pipeline are alive, whichever of them is cancelled
\* or dies with the process: the session that works on the voyage is the one
\* that holds its row, and no other works meanwhile.
THEOREM OneWriter == Spec => []RowHasOneWriter
BY TypeCorrect, WriterInit, WriterStep, PTL DEF Spec

\* For every acyclic plan and every bound on the parallelism, a run starts a
\* shipwright only when those of its dependencies have been waited for.
THEOREM LayersInOrder == Spec => []LayerBarrier
BY TypeCorrect, WriterInit, WriterStep, PTL DEF Spec

-----------------------------------------------------------------------------
(* The crew's documents.  A redirect writes back a phase_status it read        *)
(* earlier, so that BUILT implies artifacts also of those copies.              *)

\* What a task may write to the documents, and to the status of the phases.
LEMMA RunWrites ==
    ASSUME TypeOK, NEW r \in Runs, RunStep(r)
    PROVE  /\ plan => plan'
           /\ poneglyphs' = poneglyphs \/ poneglyphs' = Phases
           /\ deployments \subseteq deployments'
           /\ \/ UNCHANGED <<phaseStatus, artifacts>>
              \/ \E n \in Phases : PhaseBuilt(r, n) \/ PhaseFailed(r, n)
<1> USE DEF storeVars, rowVars, tableVars
<1>1. ASSUME \/ StopPaused(r) \/ StopCancelled(r) \/ EnterNode(r)
             \/ GuardFails(r) \/ SkipStage(r)
      PROVE  UNCHANGED <<phaseStatus, tableVars>>
  BY <1>1, Zenon DEF StopPaused, StopCancelled, EnterNode, GuardFails, SkipStage
<1>2. ASSUME \/ EnterStage(r) \/ LoadVoyage(r) \/ ClaimRow(r)
             \/ RefuseDeploy(r) \/ Verdict(r)
      PROVE  UNCHANGED <<phaseStatus, tableVars>>
  BY <1>2, Zenon DEF EnterStage, LoadVoyage, ClaimRow, RefuseDeploy, Verdict
<1>3. ASSUME \/ ServiceFails(r) \/ ForeignKeyFails(r) \/ Finalize(r) \/ Report(r)
             \/ DeliverCancel(r) \/ CollectSession(r)
      PROVE  UNCHANGED <<phaseStatus, tableVars>>
  BY <1>3, Zenon DEF ServiceFails, ForeignKeyFails, Finalize, Report, DeliverCancel,
                     CollectSession
<1>4. ASSUME \/ EnterBuilding(r) \/ StartLayer(r) \/ LastLayerBuilt(r)
             \/ LayerReturned(r) \/ LayerRaised(r)
      PROVE  UNCHANGED <<phaseStatus, tableVars>>
  BY <1>4, Zenon DEF EnterBuilding, StartLayer, LastLayerBuilt, LayerReturned, LayerRaised
<1>5. CASE ChartCourse(r)
  BY <1>5 DEF ChartCourse, CommitCharted
<1>6. CASE DraftPoneglyphs(r)
  BY <1>6 DEF DraftPoneglyphs, CommitCharted
<1>7. CASE WriteHealthChecks(r)
  BY <1>7 DEF WriteHealthChecks, CommitCharted
<1>8. CASE ValidateCode(r)
  BY <1>8 DEF ValidateCode, CommitCharted
<1>9. CASE Deploy(r)
  BY <1>9 DEF Deploy, CommitCharted
<1>10. CASE FailEnd(r)
  BY <1>10 DEF FailEnd
<1>11. ASSUME NEW n \in Phases, LoadPhase(r, n) \/ ClaimPhase(r, n)
      PROVE  UNCHANGED <<plan, poneglyphs, deployments, phaseStatus, artifacts>>
  BY <1>11, Zenon DEF LoadPhase, ClaimPhase
<1>12. ASSUME NEW n \in Phases, PhaseBuilt(r, n) \/ PhaseFailed(r, n)
      PROVE  UNCHANGED <<plan, poneglyphs, deployments>>
  BY <1>12, Zenon DEF PhaseBuilt, PhaseFailed
<1> QED
  BY <1>1, <1>2, <1>3, <1>4, <1>5, <1>6, <1>7, <1>8, <1>9, <1>10, <1>11, <1>12
  DEF RunStep, StageStep, BuildStep, ShipStep

\* Requests write statuses, never documents.
LEMMA RequestWrites ==
    ASSUME NEW q \in Requests, Arrive(q) \/ RequestStep(q)
    PROVE  UNCHANGED tableVars
<1> USE DEF storeVars
<1>1. ASSUME NEW copy, Spawn(q, copy) PROVE UNCHANGED tableVars
  BY <1>1, Zenon DEF Spawn
<1>2. CASE Arrive(q)
  BY <1>2, Zenon DEF Arrive
<1>3. CASE StartVoyage(q) \/ ResumeVoyage(q) \/ ResumeSpawn(q)
  BY <1>1, <1>3, Zenon DEF StartVoyage, ResumeVoyage, ResumeSpawn, Refuse
<1>4. CASE ResumeFlip(q) \/ PauseVoyage(q) \/ CancelVoyage(q)
  BY <1>4, Zenon DEF ResumeFlip, PauseVoyage, CancelVoyage, Refuse, CommitStatus
<1>5. CASE CancelTask(q) \/ RedirectPhase(q)
  BY <1>5, Zenon DEF CancelTask, RedirectPhase, Refuse
<1> QED  BY <1>2, <1>3, <1>4, <1>5 DEF RequestStep

\* What a step of the system may do to the documents.
Kept == /\ plan => plan'
        /\ poneglyphs \subseteq poneglyphs'
        /\ \A n \in Phases : artifacts[n] <= artifacts'[n]

\* Every step keeps the documents that exist.
LEMMA KeptStep == TypeOK /\ [Next]_vars => Kept
<1> SUFFICES ASSUME TypeOK, [Next]_vars PROVE Kept
    OBVIOUS
<1>1. CASE UNCHANGED tableVars
  BY <1>1 DEF tableVars, Kept, TypeOK, StoreTypeOK
<1>2. ASSUME NEW r \in Runs, RunStep(r) PROVE Kept
  <2>1. (plan => plan') /\ poneglyphs \subseteq poneglyphs'
    BY <1>2, RunWrites DEF TypeOK, StoreTypeOK
  <2>2. artifacts' = artifacts \/ \E n \in Phases : artifacts' = [artifacts EXCEPT ![n] = @ + 1]
    <3>1. ASSUME NEW n \in Phases, PhaseBuilt(r, n) \/ PhaseFailed(r, n)
          PROVE  artifacts' = artifacts \/ artifacts' = [artifacts EXCEPT ![n] = @ + 1]
      BY <3>1, Zenon DEF PhaseBuilt, PhaseFailed, tableVars
    <3> QED  BY <1>2, <3>1, RunWrites
  <2>3. ASSUME NEW n \in Phases, artifacts' = [artifacts EXCEPT ![n] = @ + 1]
        PROVE  \A m \in Phases : artifacts[m] <= artifacts'[m]
    BY <2>3 DEF TypeOK, StoreTypeOK
  <2>4. CASE artifacts' = artifacts
    BY <2>1, <2>4 DEF Kept, TypeOK, StoreTypeOK
  <2> QED  BY <2>1, <2>2, <2>3, <2>4 DEF Kept
<1>3. ASSUME NEW q \in Requests, Arrive(q) \/ RequestStep(q) PROVE UNCHANGED tableVars
  BY <1>3, RequestWrites
<1>4. ASSUME NEW r \in Runs, Cleanup(r) PROVE UNCHANGED tableVars
  BY <1>4, Zenon DEF Cleanup, storeVars
<1>5. CASE Restart
  BY <1>1, <1>5, Zenon DEF Restart
<1>6. CASE UNCHANGED vars
  BY <1>1, <1>6, Zenon DEF vars, storeVars
<1> QED  BY <1>1, <1>2, <1>3, <1>4, <1>5, <1>6 DEF Next, TaskStep

\* The plan, the poneglyphs and the code of every phase survive all that
\* follows: replacements by the Navigator, builds that fail, cancelled and
\* crashed runs.
THEOREM FinishedWorkIsKept == Spec => WorkIsKept
<1>1. TypeOK /\ [Next]_vars => [Kept]_vars
  BY KeptStep
<1> QED  BY <1>1, TypeCorrect, PTL DEF Spec, WorkIsKept, Kept

BuiltInv == BuiltHasArtifact /\ CopiesHaveArtifact

\* A step that calls a phase BUILT, or copies that it is, finds its artifacts.
LEMMA BuiltStep == TypeOK /\ BuiltInv /\ [Next]_vars => BuiltInv'
<1> SUFFICES ASSUME TypeOK, BuiltInv, [Next]_vars PROVE BuiltInv'
    OBVIOUS
<1> USE DEF BuiltInv, BuiltHasArtifact, CopiesHaveArtifact
<1>1. \A n \in Phases : artifacts[n] > 0 => artifacts'[n] > 0
  <2>1. TypeOK' /\ Kept
    BY TypeStep, KeptStep
  <2> QED  BY <2>1 DEF Kept, TypeOK, StoreTypeOK
<1>2. CASE /\ UNCHANGED phaseStatus
           /\ \A q \in Requests : \/ seenPhases'[q] = seenPhases[q]
                                 \/ seenPhases'[q] = phaseStatus
                                 \/ \A n \in Phases : seenPhases'[q][n] = "absent"
  BY <1>1, <1>2
<1>3. ASSUME NEW r \in Runs, TaskStep(r) PROVE BuiltInv'
  <2>1. UNCHANGED seenPhases
    BY <1>3 DEF TaskStep, apiVars
  <2>2. CASE UNCHANGED <<phaseStatus, artifacts>>
    BY <2>1, <2>2, <1>2
  <2>3. ASSUME NEW n \in Phases, PhaseBuilt(r, n) \/ PhaseFailed(r, n) PROVE BuiltInv'
    <3>1. CASE PhaseBuilt(r, n)
      <4>1. phaseStatus' = [phaseStatus EXCEPT ![n] = "BUILT"] /\ artifacts'[n] > 0
        BY <3>1 DEF PhaseBuilt, TypeOK, StoreTypeOK
      <4> QED  BY <1>1, <2>1, <4>1 DEF TypeOK, StoreTypeOK
    <3>2. CASE PhaseFailed(r, n)
      <4>1. phaseStatus' = [phaseStatus EXCEPT ![n] = "FAILED"]
        BY <3>2 DEF PhaseFailed
      <4> QED  BY <1>1, <2>1, <4>1 DEF TypeOK, StoreTypeOK
    <3> QED  BY <2>3, <3>1, <3>2
  <2> QED  BY <1>3, <2>2, <2>3, RunWrites DEF TaskStep
<1>4. ASSUME NEW q \in Requests, Arrive(q) PROVE BuiltInv'
  <2>1. UNCHANGED phaseStatus /\ seenPhases' = [seenPhases EXCEPT ![q] = phaseStatus]
    BY <1>4 DEF Arrive, storeVars, rowVars
  <2> QED  BY <1>2, <2>1 DEF TypeOK
<1>5. ASSUME NEW q \in Requests, Answer(q), UNCHANGED phaseStatus PROVE BuiltInv'
  BY <1>2, <1>5 DEF Answer, TypeOK
<1>6. ASSUME NEW q \in Requests, RequestStep(q) PROVE BuiltInv'
  <2> USE DEF storeVars, rowVars
  <2>1. CASE StartVoyage(q) \/ ResumeSpawn(q)
    <3>1. Answer(q) /\ UNCHANGED phaseStatus
      BY <2>1, Zenon DEF StartVoyage, ResumeSpawn, Spawn, Refuse
    <3> QED  BY <1>5, <3>1
  <2>2. CASE ResumeVoyage(q) \/ ResumeFlip(q) \/ CancelVoyage(q) \/ CancelTask(q) \/ PauseVoyage(q)
    <3>1. UNCHANGED phaseStatus /\ (Answer(q) \/ UNCHANGED seenPhases)
      BY <2>2, Zenon DEF ResumeVoyage, ResumeFlip, CancelVoyage, CancelTask, PauseVoyage, Spawn,
                         Refuse, CommitStatus, MoveTo
    <3>2. CASE UNCHANGED seenPhases
      BY <1>2, <3>1, <3>2
    <3> QED  BY <1>5, <3>1, <3>2
  <2>3. CASE RedirectPhase(q)
    <3>1. CASE Refuse(q)
      BY <1>5, <3>1 DEF Refuse
    <3>2. CASE Answer(q) /\ phaseStatus' = [seenPhases[q] EXCEPT ![target[q]] = "PENDING"]
      BY <1>1, <3>2 DEF Answer, TypeOK
    <3> QED  BY <2>3, <3>1, <3>2, Zenon DEF RedirectPhase
  <2> QED  BY <1>6, <2>1, <2>2, <2>3 DEF RequestStep
<1>7. ASSUME NEW r \in Runs, Cleanup(r) PROVE BuiltInv'
  <2>1. UNCHANGED <<phaseStatus, seenPhases>>
    BY <1>7 DEF Cleanup, storeVars, rowVars
  <2> QED  BY <1>2, <2>1
<1>8. CASE Restart
  <2>1. UNCHANGED phaseStatus /\ seenPhases' = [q \in Requests |-> [n \in Phases |-> "absent"]]
    BY <1>8 DEF Restart, rowVars
  <2> QED  BY <1>2, <2>1
<1>9. CASE UNCHANGED vars
  <2>1. UNCHANGED <<phaseStatus, seenPhases>>
    BY <1>9 DEF vars, storeVars, rowVars, apiVars
  <2> QED  BY <1>2, <2>1
<1> QED  BY <1>3, <1>4, <1>6, <1>7, <1>8, <1>9 DEF Next

\* A phase that is called BUILT has code, whatever copies of phase_status were
\* written back over builds and whatever builds were cut short.
THEOREM BuiltPhasesHaveArtifacts == Spec => []BuiltHasArtifact
<1>1. Init => BuiltInv
  BY DEF Init, StoreInit, BuiltInv, BuiltHasArtifact, CopiesHaveArtifact
<1>2. BuiltInv => BuiltHasArtifact
  BY DEF BuiltInv
<1> QED  BY <1>1, <1>2, BuiltStep, TypeCorrect, PTL DEF Spec

-----------------------------------------------------------------------------
(* The way to COMPLETED.  Where a run is in the graph tells what has been      *)
(* stored: every stage left behind, by work or by skipping, is satisfied.      *)

Passed(r) == /\ stage[r] # "PLANNING" => plan
             /\ stage[r] \notin {"PLANNING", "PDD"} => poneglyphs = Phases
             /\ pc[r] = "finalize" => stage[r] = "DEPLOYING" /\ "completed" \in deployments
             /\ pc[r] \in {"layer", "gather"} => stage[r] = "BUILDING"
             /\ pc[r] = "verdict" => stage[r] = "REVIEWING"

PathInv == CompletedMeansDeployed /\ \A r \in Runs : Passed(r)

\* The documents of a stage are still there after any step of the system.
LEMMA PathKept ==
    ASSUME TypeOK, [Next]_vars, deployments \subseteq deployments'
    PROVE  /\ plan => plan'
           /\ poneglyphs = Phases => poneglyphs' = Phases
           /\ "completed" \in deployments => "completed" \in deployments'
<1>1. Kept /\ TypeOK'
  BY KeptStep, TypeStep
<1> QED  BY <1>1 DEF Kept, TypeOK, StoreTypeOK

\* The edges of the graph, one stage at a time.
LEMMA AdvanceEdge ==
    ASSUME TypeOK, NEW r \in Runs, Advance(r)
    PROVE  /\ \A s \in Runs \ {r} : pc'[s] = pc[s] /\ stage'[s] = stage[s]
           /\ stage[r] = "PLANNING"  => stage'[r] = "PDD"
           /\ stage[r] = "PDD"       => stage'[r] = "TDD"
           /\ stage'[r] \notin {"PLANNING", "PDD"} \/ stage[r] \in {"PLANNING", "PDD"}
           /\ stage'[r] = "PDD" => stage[r] = "PLANNING"
           /\ stage'[r] # "PLANNING"
           /\ pc'[r] \in {"check", "finalize"}
           /\ pc'[r] = "finalize" => stage[r] = "DEPLOYING" /\ stage'[r] = "DEPLOYING"
<1> USE DEF TypeOK, RunsTypeOK, Goto
<1>1. CASE stage[r] = "DEPLOYING"
  BY <1>1 DEF Advance
<1>2. CASE stage[r] # "DEPLOYING"
  <2>1. /\ pc' = [pc EXCEPT ![r] = "check"]
        /\ stage' = [stage EXCEPT ![r] = NextStage[stage[r]]]
    BY <1>2 DEF Advance
  <2>2. /\ NextStage["PLANNING"] = "PDD" /\ NextStage["PDD"] = "TDD"
        /\ NextStage["TDD"] = "BUILDING" /\ NextStage["BUILDING"] = "REVIEWING"
        /\ NextStage["REVIEWING"] = "DEPLOYING"
    BY DEF NextStage
  <2>3. stage[r] \in {"PLANNING", "PDD", "TDD", "BUILDING", "REVIEWING"}
    BY <1>2 DEF Stages, StageStatuses
  <2> QED  BY <2>1, <2>2, <2>3
<1> QED  BY <1>1, <1>2

\* A task that moves on leaves behind what its new place stands for.
LEMMA PathRun ==
    ASSUME TypeOK, PathInv, NEW r \in Runs, TaskStep(r)
    PROVE  PathInv'
<1>1. /\ plan => plan'
      /\ poneglyphs = Phases => poneglyphs' = Phases
      /\ "completed" \in deployments => "completed" \in deployments'
  BY PathKept, RunWrites DEF TaskStep, Next
<1>2. ASSUME /\ \A s \in Runs \ {r} : pc'[s] = pc[s] /\ stage'[s] = stage[s]
             /\ status' = "COMPLETED" => status = "COMPLETED", Passed(r)'
      PROVE  PathInv'
  BY <1>1, <1>2 DEF PathInv, Passed, CompletedMeansDeployed
<1>3. ASSUME UNCHANGED stage,
             pc'[r] = pc[r] \/ pc'[r] \notin {"finalize", "layer", "gather", "verdict"},
             \A s \in Runs \ {r} : pc'[s] = pc[s],
             status' = "COMPLETED" => status = "COMPLETED"
      PROVE  PathInv'
  BY <1>1, <1>3 DEF PathInv, Passed, CompletedMeansDeployed
<1> USE DEF TypeOK, RunsTypeOK, storeVars, rowVars, runVars, Goto
<1>4. CASE StopPaused(r)
  BY <1>3, <1>4 DEF StopPaused
<1>5. CASE StopCancelled(r)
  BY <1>3, <1>5 DEF StopCancelled
<1>6. CASE EnterNode(r)
  BY <1>3, <1>6 DEF EnterNode
<1>7. CASE GuardFails(r)
  BY <1>3, <1>7 DEF GuardFails
<1>8. CASE EnterStage(r)
  BY <1>3, <1>8 DEF EnterStage
<1>9. CASE LoadVoyage(r)
  <2>1. Goto(r, "claim") /\ UNCHANGED <<stage, status>>
    BY <1>9, Zenon DEF LoadVoyage
  <2> QED  BY <1>3, <2>1
<1>10. CASE ClaimRow(r)
  BY <1>3, <1>10 DEF ClaimRow
<1>11. CASE RefuseDeploy(r)
  BY <1>3, <1>11 DEF RefuseDeploy
<1>12. CASE ServiceFails(r)
  BY <1>3, <1>12 DEF ServiceFails
<1>13. CASE FailEnd(r)
  BY <1>3, <1>13 DEF FailEnd
<1>14. CASE Report(r)
  BY <1>3, <1>14 DEF Report
<1>15. CASE DeliverCancel(r)
  BY <1>3, <1>15 DEF DeliverCancel
<1>16. CASE CollectSession(r)
  BY <1>3, <1>16 DEF CollectSession
<1>17. CASE LayerRaised(r)
  BY <1>3, <1>17 DEF LayerRaised
<1>18. CASE SkipStage(r)
  <2>1. Advance(r) /\ (status' = "COMPLETED" => status = "COMPLETED")
    BY <1>18, Zenon DEF SkipStage
  <2>2. /\ stage[r] = "PLANNING" => plan
        /\ stage[r] = "PDD" => poneglyphs = Phases
        /\ stage[r] # "DEPLOYING"
    BY <1>18 DEF PathInv, Passed, SkipStage, StoreTypeOK, Satisfied, CanEnterTdd
  <2> QED  BY <1>1, <1>2, <2>1, <2>2, AdvanceEdge DEF PathInv, Passed
<1>19. CASE ChartCourse(r)
  <2>1. Advance(r) /\ (status' = "COMPLETED" => status = "COMPLETED")
    BY <1>19, Zenon DEF ChartCourse, Working, CommitCharted
  <2>2. stage[r] = "PLANNING" /\ plan'
    BY <1>19 DEF PathInv, Passed, ChartCourse, Working, CommitCharted
  <2> QED  BY <1>1, <1>2, <2>1, <2>2, AdvanceEdge DEF PathInv, Passed
<1>20. CASE DraftPoneglyphs(r)
  <2>1. Advance(r) /\ (status' = "COMPLETED" => status = "COMPLETED")
    BY <1>20, Zenon DEF DraftPoneglyphs, Working, CommitCharted
  <2>2. stage[r] = "PDD" /\ poneglyphs' = Phases
    BY <1>20 DEF PathInv, Passed, DraftPoneglyphs, Working, CommitCharted
  <2> QED  BY <1>1, <1>2, <2>1, <2>2, AdvanceEdge DEF PathInv, Passed
<1>21. CASE WriteHealthChecks(r)
  <2>1. Advance(r) /\ (status' = "COMPLETED" => status = "COMPLETED")
    BY <1>21, Zenon DEF WriteHealthChecks, Working, CommitCharted
  <2>2. stage[r] = "TDD"
    BY <1>21 DEF PathInv, Passed, WriteHealthChecks, Working, CommitCharted
  <2> QED  BY <1>1, <1>2, <2>1, <2>2, AdvanceEdge DEF PathInv, Passed
<1>22. CASE LastLayerBuilt(r)
  <2>1. Advance(r) /\ (status' = "COMPLETED" => status = "COMPLETED")
    BY <1>22, Zenon DEF LastLayerBuilt
  <2>2. stage[r] = "BUILDING"
    BY <1>22 DEF PathInv, Passed, LastLayerBuilt
  <2> QED  BY <1>1, <1>2, <2>1, <2>2, AdvanceEdge DEF PathInv, Passed
<1>23. CASE ValidateCode(r)
  <2>1. /\ stage[r] = "REVIEWING" /\ Goto(r, "verdict") /\ UNCHANGED stage
        /\ status' = "CHARTED"
    BY <1>23 DEF ValidateCode, Working, CommitCharted
  <2> QED  BY <1>1, <1>2, <2>1 DEF PathInv, Passed
<1>24. CASE Verdict(r)
  <2>1. /\ stage[r] = "REVIEWING"
        /\ status' = "COMPLETED" => status = "COMPLETED"
    BY <1>24 DEF Verdict, PathInv, Passed
  <2>2. CASE Advance(r)
    BY <1>1, <1>2, <2>1, <2>2, AdvanceEdge DEF PathInv, Passed
  <2>3. CASE (Goto(r, "failing")) /\ UNCHANGED stage
    BY <1>1, <1>2, <2>1, <2>3 DEF PathInv, Passed
  <2> QED  BY <1>24, <2>2, <2>3 DEF Verdict
<1>25. CASE Deploy(r)
  <2>1. /\ stage[r] = "DEPLOYING"
        /\ status' = "COMPLETED" => status = "COMPLETED"
    BY <1>25 DEF Deploy, PathInv, Passed, Working, CommitCharted
  <2>2. CASE Advance(r) /\ "completed" \in deployments'
    BY <1>1, <1>2, <2>1, <2>2, AdvanceEdge DEF PathInv, Passed
  <2>3. CASE (Goto(r, "failing")) /\ UNCHANGED stage
    BY <1>1, <1>2, <2>1, <2>3 DEF PathInv, Passed
  <2> QED  BY <1>25, <2>2, <2>3 DEF Deploy, Working, CommitCharted
<1>26. CASE EnterBuilding(r)
  <2>1. /\ stage[r] = "BUILDING"
        /\ status' = "COMPLETED" => status = "COMPLETED"
    BY <1>26 DEF EnterBuilding, PathInv, Passed
  <2>2. CASE Advance(r)
    BY <1>1, <1>2, <2>1, <2>2, AdvanceEdge DEF PathInv, Passed
  <2>3. CASE (Goto(r, "failing") \/ Goto(r, "layer")) /\ UNCHANGED stage
    BY <1>1, <1>2, <2>1, <2>3 DEF PathInv, Passed
  <2> QED  BY <1>26, <2>2, <2>3 DEF EnterBuilding
<1>27. CASE StartLayer(r)
  BY <1>1, <1>2, <1>27 DEF StartLayer, PathInv, Passed
<1>28. CASE LayerReturned(r)
  BY <1>1, <1>2, <1>28 DEF LayerReturned, PathInv, Passed
<1>29. CASE Finalize(r)
  <2>1. Passed(r) /\ pc[r] = "finalize" /\ Goto(r, "report") /\ UNCHANGED stage
    BY <1>29 DEF Finalize, PathInv
  <2> QED  BY <1>1, <2>1 DEF PathInv, Passed, CompletedMeansDeployed
<1>30. ASSUME NEW n \in Phases, ShipStep(r, n) PROVE PathInv'
  <2>1. UNCHANGED <<pc, stage, status>>
    BY <1>30, Zenon DEF ShipStep, LoadPhase, ClaimPhase, PhaseBuilt, PhaseFailed
  <2> QED  BY <1>3, <2>1
<1>31. CASE ForeignKeyFails(r)
  BY <1>3, <1>31 DEF ForeignKeyFails
<1> QED
  BY <1>4, <1>5, <1>6, <1>7, <1>8, <1>9, <1>10, <1>11, <1>12, <1>13, <1>14, <1>15, <1>16,
     <1>17, <1>18, <1>19, <1>20, <1>21, <1>22, <1>23, <1>24, <1>25, <1>26, <1>27, <1>28,
     <1>29, <1>30, <1>31
  DEF TaskStep, RunStep, StageStep, BuildStep

\* So does every step of the system.
LEMMA PathStep == TypeOK /\ PathInv /\ [Next]_vars => PathInv'
<1> SUFFICES ASSUME TypeOK, PathInv, [Next]_vars PROVE PathInv'
    OBVIOUS
<1>1. ASSUME NEW r \in Runs, TaskStep(r) PROVE PathInv'
  BY <1>1, PathRun
<1>2. ASSUME UNCHANGED <<tableVars, stage>>, status' = "COMPLETED" => status = "COMPLETED",
             \A r \in Runs : pc'[r] = pc[r] \/ pc'[r] \in {"check", "report", "gone"}
      PROVE  PathInv'
  BY <1>2 DEF PathInv, Passed, CompletedMeansDeployed, tableVars
<1>3. ASSUME NEW q \in Requests, Arrive(q) \/ RequestStep(q) PROVE PathInv'
  <2> USE DEF storeVars, rowVars, runVars
  <2>1. UNCHANGED tableVars
    BY <1>3, RequestWrites
  <2>2. ASSUME NEW copy, Spawn(q, copy)
        PROVE  /\ UNCHANGED <<stage, status>>
               /\ \E r \in Runs, w \in {"check", "report"} : pc' = [pc EXCEPT ![r] = w]
    BY <2>2, Zenon DEF Spawn, Goto, IdleRuns
  <2>3. /\ UNCHANGED stage /\ (status' = "COMPLETED" => status = "COMPLETED")
        /\ \/ UNCHANGED pc
           \/ \E r \in Runs, w \in {"check", "report"} : pc' = [pc EXCEPT ![r] = w]
    <3>1. CASE Arrive(q)
      BY <3>1, Zenon DEF Arrive
    <3>2. CASE StartVoyage(q) \/ ResumeVoyage(q) \/ ResumeSpawn(q)
      BY <2>2, <3>2, Zenon DEF StartVoyage, ResumeVoyage, ResumeSpawn, Refuse
    <3>3. CASE ResumeFlip(q) \/ PauseVoyage(q) \/ CancelVoyage(q)
      BY <3>3 DEF ResumeFlip, PauseVoyage, CancelVoyage, Refuse, CommitStatus
    <3>4. CASE CancelTask(q) \/ RedirectPhase(q)
      BY <3>4, Zenon DEF CancelTask, RedirectPhase, Refuse
    <3> QED  BY <1>3, <3>1, <3>2, <3>3, <3>4 DEF RequestStep
  <2>4. \A r \in Runs : pc'[r] = pc[r] \/ pc'[r] \in {"check", "report", "gone"}
    BY <2>3 DEF TypeOK, RunsTypeOK
  <2> QED  BY <1>2, <2>1, <2>3, <2>4
<1>4. ASSUME NEW S \in SUBSET Runs, Bury(S), UNCHANGED <<rowVars, tableVars>> PROVE PathInv'
  BY <1>4 DEF Bury, PathInv, Passed, CompletedMeansDeployed, rowVars, tableVars
<1>5. ASSUME NEW r \in Runs, Cleanup(r) PROVE PathInv'
  <2>1. Bury({r}) /\ UNCHANGED <<rowVars, tableVars>>
    BY <1>5 DEF Cleanup, storeVars
  <2> QED  BY <1>4, <2>1
<1>6. CASE Restart
  <2> DEFINE S == {r \in Runs : pc[r] # "idle"}
  <2>1. Bury(S) /\ UNCHANGED <<rowVars, tableVars>>
    BY <1>6 DEF Restart
  <2> QED  BY <1>4, <2>1
<1>7. CASE UNCHANGED vars
  BY <1>2, <1>7 DEF vars, storeVars, rowVars, runVars
<1> QED  BY <1>1, <1>3, <1>5, <1>6, <1>7 DEF Next

\* COMPLETED is never written over a voyage that lacks a plan, a poneglyph of a
\* phase or a completed deployment, in whatever order its runs were started,
\* paused, cancelled, resumed or killed.
THEOREM CompletedIsDeployed == Spec => []CompletedMeansDeployed
<1>1. Init => PathInv
  BY DEF Init, StoreInit, RunsInit, PathInv, Passed, CompletedMeansDeployed
<1>2. PathInv => CompletedMeansDeployed
  BY DEF PathInv
<1> QED  BY <1>1, <1>2, PathStep, TypeCorrect, PTL DEF Spec

-----------------------------------------------------------------------------
(* What a step of a task does to the places of the runs, the row and the       *)
(* status.                                                                     *)

\* A commit of a service frees the row and leaves CHARTED.
Moves(r) ==
    /\ \A s \in Runs \ {r} : pc'[s] = pc[s] /\ stage'[s] = stage[s] /\ files'[s] = files[s]
    /\ \A s \in Runs \ {r} : rowLock' = Main(s) => rowLock = Main(s)
    /\ pc'[r] = pc[r] \/ pc'[r] \notin {"idle", "gone"}
    /\ status' \in {status, "CHARTED", "FAILED", "COMPLETED"}

LEMMA RunMoves ==
    ASSUME TypeOK, NEW r \in Runs, RunStep(r)
    PROVE  Moves(r)
<1>1. ASSUME NEW w \in Locations \ {"idle", "gone"}, Goto(r, w), UNCHANGED <<stage, files>>,
             rowLock' \in {rowLock, Free, Main(r)},
             status' \in {status, "CHARTED", "FAILED", "COMPLETED"}
      PROVE  Moves(r)
  BY <1>1, RunsAssumption DEF Moves, Goto, TypeOK, RunsTypeOK, Main, Free
<1>2. ASSUME Advance(r), UNCHANGED files, rowLock' \in {rowLock, Free},
             status' \in {status, "CHARTED"}
      PROVE  Moves(r)
  BY <1>2, AdvanceEdge, RunsAssumption DEF Moves, Main, Free
<1>3. ASSUME UNCHANGED <<pc, stage, files, status>>,
             \A s \in Runs \ {r} : rowLock' = Main(s) => rowLock = Main(s)
      PROVE  Moves(r)
  BY <1>3 DEF Moves
<1>4. {"check", "skip", "load", "claim", "work", "verdict", "layer", "gather", "failing",
       "finalize", "report", "ended"} \subseteq Locations \ {"idle", "gone"}
  BY DEF Locations
<1>5. \A s \in Runs \ {r} : Free # Main(s) /\ \A n \in Phases : <<r, n>> # Main(s)
  BY RunsAssumption DEF Main, Free
<1> USE DEF storeVars, rowVars, tableVars, runVars
<1>6. ASSUME StopPaused(r) \/ StopCancelled(r) \/ EnterNode(r) \/ GuardFails(r) \/ EnterStage(r)
      PROVE  Moves(r)
  <2>1. UNCHANGED <<stage, files, rowLock, status>>
    BY <1>6, Zenon DEF StopPaused, StopCancelled, EnterNode, GuardFails, EnterStage
  <2>2. Goto(r, "ended") \/ Goto(r, "failing") \/ Goto(r, "skip") \/ Goto(r, "load")
    BY <1>6, Zenon DEF StopPaused, StopCancelled, EnterNode, GuardFails, EnterStage
  <2> QED  BY <1>1, <1>4, <2>1, <2>2
<1>7. CASE LoadVoyage(r)
  <2>1. /\ Goto(r, "claim") /\ UNCHANGED <<stage, rowLock, status>>
        /\ \A s \in Runs \ {r} : files'[s] = files[s]
    <3>1. Goto(r, "claim") /\ UNCHANGED <<stage, rowLock, status>>
      BY <1>7, Zenon DEF LoadVoyage
    <3>2. files' = files \/ files' = [files EXCEPT ![r] = artifacts]
      BY <1>7, Zenon DEF LoadVoyage
    <3> QED  BY <3>1, <3>2 DEF TypeOK, RunsTypeOK
  <2> QED  BY <2>1 DEF Moves, Goto, TypeOK, RunsTypeOK
<1>8. CASE ClaimRow(r)
  BY <1>1, <1>4, <1>8 DEF ClaimRow
<1>9. CASE RefuseDeploy(r) \/ ServiceFails(r)
  <2>1. Goto(r, "failing") /\ UNCHANGED <<stage, files, rowLock, status>>
    BY <1>9, Zenon DEF RefuseDeploy, ServiceFails
  <2> QED  BY <1>1, <1>4, <2>1
<1>10. ASSUME SkipStage(r) \/ LastLayerBuilt(r) PROVE Moves(r)
  <2>1. Advance(r) /\ UNCHANGED <<files, rowLock, status>>
    BY <1>10, Zenon DEF SkipStage, LastLayerBuilt
  <2> QED  BY <1>2, <2>1
<1>11. ASSUME ChartCourse(r) \/ DraftPoneglyphs(r) \/ WriteHealthChecks(r) PROVE Moves(r)
  <2>1. Advance(r) /\ CommitCharted(r)
    BY <1>11, Zenon DEF ChartCourse, DraftPoneglyphs, WriteHealthChecks
  <2> QED  BY <1>2, <2>1 DEF CommitCharted
<1>12. CASE ValidateCode(r)
  BY <1>1, <1>4, <1>12 DEF ValidateCode, CommitCharted
<1>13. CASE Verdict(r)
  <2>1. Advance(r) \/ (Goto(r, "failing") /\ UNCHANGED stage)
    BY <1>13, Zenon DEF Verdict
  <2>2. UNCHANGED <<files, rowLock, status>>
    BY <1>13, Zenon DEF Verdict
  <2> QED  BY <1>1, <1>2, <1>4, <2>1, <2>2
<1>14. CASE Deploy(r)
  <2>1. Advance(r) \/ (Goto(r, "failing") /\ UNCHANGED stage)
    BY <1>14, Zenon DEF Deploy
  <2>2. CommitCharted(r)
    BY <1>14, Zenon DEF Deploy
  <2>3. UNCHANGED files /\ rowLock' = Free /\ status' = "CHARTED"
    BY <2>2 DEF CommitCharted
  <2> QED  BY <1>1, <1>2, <1>4, <2>1, <2>3
<1>15. CASE FailEnd(r)
  BY <1>1, <1>4, <1>15 DEF FailEnd
<1>16. CASE Finalize(r) \/ Report(r)
  <2>1. /\ UNCHANGED <<stage, files, rowLock>> /\ status' \in {status, "COMPLETED"}
        /\ Goto(r, "report") \/ Goto(r, "ended")
    BY <1>16 DEF Finalize, Report
  <2> QED  BY <1>1, <1>4, <2>1
<1>17. CASE DeliverCancel(r)
  <2>1. Goto(r, "ended") /\ UNCHANGED <<stage, files, status>> /\ rowLock' \in {rowLock, Free}
    BY <1>17 DEF DeliverCancel, AbandonShips
  <2> QED  BY <1>1, <1>4, <2>1
<1>18. CASE CollectSession(r)
  <2>1. UNCHANGED <<pc, stage, files, status>> /\ rowLock' = Free
    BY <1>18, Zenon DEF CollectSession
  <2> QED  BY <1>3, <1>5, <2>1
<1>19. CASE EnterBuilding(r)
  <2>1. Advance(r) \/ ((Goto(r, "failing") \/ Goto(r, "layer")) /\ UNCHANGED stage)
    BY <1>19, Zenon DEF EnterBuilding
  <2>2. UNCHANGED <<files, rowLock, status>>
    BY <1>19, Zenon DEF EnterBuilding
  <2> QED  BY <1>1, <1>2, <1>4, <2>1, <2>2
<1>20. CASE StartLayer(r) \/ LayerReturned(r)
  <2>1. UNCHANGED <<stage, files, rowLock, status>> /\ (Goto(r, "gather") \/ Goto(r, "layer"))
    BY <1>20, Zenon DEF StartLayer, LayerReturned
  <2> QED  BY <1>1, <1>4, <2>1
<1>21. CASE LayerRaised(r)
  <2>1. Goto(r, "failing") /\ UNCHANGED <<stage, files, status>> /\ rowLock' \in {rowLock, Free}
    BY <1>21 DEF LayerRaised, AbandonShips
  <2> QED  BY <1>1, <1>4, <2>1
<1>22. ASSUME NEW n \in Phases, ShipStep(r, n) PROVE Moves(r)
  <2>1. UNCHANGED <<pc, stage, files, status>>
    BY <1>22, Zenon DEF ShipStep, LoadPhase, ClaimPhase, PhaseBuilt, PhaseFailed
  <2>2. rowLock' \in {rowLock, Free, <<r, n>>}
    BY <1>22 DEF ShipStep, LoadPhase, ClaimPhase, PhaseBuilt, PhaseFailed
  <2> QED  BY <1>3, <1>5, <2>1, <2>2
<1>23. CASE ForeignKeyFails(r)
  <2>1. Goto(r, "ended") /\ UNCHANGED <<stage, files, status>> /\ rowLock' = Free
    BY <1>23, Zenon DEF ForeignKeyFails
  <2> QED  BY <1>1, <1>4, <2>1
<1> QED
  BY <1>6, <1>7, <1>8, <1>9, <1>10, <1>11, <1>12, <1>13, <1>14, <1>15, <1>16, <1>17, <1>18,
     <1>19, <1>20, <1>21, <1>22, <1>23
  DEF RunStep, StageStep, BuildStep

\* What a request does to them: it may spawn a run, which it registers, and write a status that
\* is settled.
LEMMA RequestMoves ==
    ASSUME NEW q \in Requests, Arrive(q) \/ RequestStep(q)
    PROVE  /\ UNCHANGED <<stage, files, rowLock>>
           /\ status' \in {status, "CHARTED", "PAUSED", "CANCELLED"}
           /\ \/ UNCHANGED <<pc, registry>>
              \/ \E r \in IdleRuns, w \in {"check", "report"} :
                    pc' = [pc EXCEPT ![r] = w] /\ registry' = r
<1> USE DEF storeVars, rowVars, tableVars, runVars
<1> DEFINE Result == /\ UNCHANGED <<stage, files, rowLock>>
                     /\ status' \in {status, "CHARTED", "PAUSED", "CANCELLED"}
                     /\ \/ UNCHANGED <<pc, registry>>
                        \/ \E r \in IdleRuns, w \in {"check", "report"} :
                              pc' = [pc EXCEPT ![r] = w] /\ registry' = r
<1>1. ASSUME NEW copy, Spawn(q, copy) PROVE Result
  <2>1. UNCHANGED <<stage, files, rowLock, status>>
    BY <1>1, Zenon DEF Spawn
  <2>2. \E r \in IdleRuns, w \in {"check", "report"} :
            pc' = [pc EXCEPT ![r] = w] /\ registry' = r
    BY <1>1, Zenon DEF Spawn, Goto
  <2> QED  BY <2>1, <2>2
<1>2. ASSUME UNCHANGED <<stage, files, rowLock, status, pc, registry>> PROVE Result
  BY <1>2
<1>3. ASSUME NEW new \in {"CHARTED", "PAUSED", "CANCELLED"}, CommitStatus(new), UNCHANGED registry
      PROVE  Result
  BY <1>3 DEF CommitStatus
<1> SUFFICES Result
  OBVIOUS
<1> HIDE DEF Result
<1>4. CASE Arrive(q)
  <2>1. UNCHANGED <<stage, files, rowLock, status, pc, registry>>
    BY <1>4, Zenon DEF Arrive
  <2> QED  BY <1>2, <2>1
<1>5. CASE StartVoyage(q) \/ ResumeVoyage(q) \/ ResumeSpawn(q)
  <2>1. \/ Spawn(q, seen[q]) \/ Spawn(q, "CHARTED")
        \/ UNCHANGED <<stage, files, rowLock, status, pc, registry>>
    BY <1>5, Zenon DEF StartVoyage, ResumeVoyage, ResumeSpawn, Refuse
  <2> QED  BY <1>1, <1>2, <2>1
<1>6. CASE ResumeFlip(q) \/ PauseVoyage(q) \/ CancelVoyage(q)
  <2>1. \/ UNCHANGED <<stage, files, rowLock, status, pc, registry>>
        \/ /\ UNCHANGED registry
           /\ CommitStatus("CHARTED") \/ CommitStatus("PAUSED") \/ CommitStatus("CANCELLED")
    BY <1>6, Zenon DEF ResumeFlip, PauseVoyage, CancelVoyage, Refuse
  <2> QED  BY <1>2, <1>3, <2>1
<1>7. CASE CancelTask(q) \/ RedirectPhase(q)
  <2>1. UNCHANGED <<stage, files, rowLock, status, pc, registry>>
    BY <1>7, Zenon DEF CancelTask, RedirectPhase, Refuse
  <2> QED  BY <1>2, <2>1
<1> QED  BY <1>4, <1>5, <1>6, <1>7 DEF RequestStep

-----------------------------------------------------------------------------
(* What is left in the row and in the registry *)

\* The voyage is never left in a stage: what a task flushes is seen by nobody before its commit
\* has put CHARTED, FAILED or COMPLETED in its place (the error paths of the crew services,
\* pipeline_graph.py fail_end, PipelineService.pause and cancel).
THEOREM NoStageIsStranded == Spec => []NoStrandedStage
<1>1. Init => NoStrandedStage
  BY DEF Init, StoreInit, NoStrandedStage, SettledStatuses
<1>2. TypeOK /\ NoStrandedStage /\ [Next]_vars => NoStrandedStage'
  <2> SUFFICES ASSUME TypeOK, NoStrandedStage, [Next]_vars PROVE NoStrandedStage'
    OBVIOUS
  <2>1. ASSUME NEW r \in Runs, TaskStep(r) PROVE NoStrandedStage'
    BY <2>1, RunMoves DEF TaskStep, Moves, NoStrandedStage, SettledStatuses
  <2>2. ASSUME NEW q \in Requests, Arrive(q) \/ RequestStep(q) PROVE NoStrandedStage'
    BY <2>2, RequestMoves DEF NoStrandedStage, SettledStatuses
  <2>3. CASE UNCHANGED status
    BY <2>3 DEF NoStrandedStage
  <2>4. ASSUME NEW r \in Runs, Cleanup(r) PROVE UNCHANGED status
    BY <2>4 DEF Cleanup, storeVars, rowVars
  <2>5. CASE Restart
    BY <2>3, <2>5 DEF Restart, rowVars
  <2>6. CASE UNCHANGED vars
    BY <2>3, <2>6 DEF vars, storeVars, rowVars
  <2> QED  BY <2>1, <2>2, <2>3, <2>4, <2>5, <2>6 DEF Next
<1> QED  BY <1>1, <1>2, TypeCorrect, PTL DEF Spec

\* The registry names a run that was spawned and whose done-callback has not run, although the
\* callback of an older run pops the entry of a newer one (_spawn_pipeline_task).
THEOREM RegistryIsLive == Spec => []RegistryEntryIsLive
<1>1. Init => RegistryEntryIsLive
  BY DEF Init, RegistryEntryIsLive
<1>2. TypeOK /\ RegistryEntryIsLive /\ [Next]_vars => RegistryEntryIsLive'
  <2> SUFFICES ASSUME TypeOK, RegistryEntryIsLive, [Next]_vars PROVE RegistryEntryIsLive'
    OBVIOUS
  <2>1. ASSUME NEW r \in Runs, TaskStep(r) PROVE RegistryEntryIsLive'
    <3>1. Moves(r) /\ UNCHANGED registry
      BY <2>1, RunMoves DEF TaskStep, apiVars
    <3> QED  BY <3>1 DEF Moves, RegistryEntryIsLive, TypeOK
  <2>2. ASSUME NEW q \in Requests, Arrive(q) \/ RequestStep(q) PROVE RegistryEntryIsLive'
    <3>1. CASE UNCHANGED <<pc, registry>>
      BY <3>1 DEF RegistryEntryIsLive
    <3>2. ASSUME NEW r \in IdleRuns, NEW w \in {"check", "report"},
                 pc' = [pc EXCEPT ![r] = w], registry' = r
          PROVE  RegistryEntryIsLive'
      BY <3>2 DEF RegistryEntryIsLive, IdleRuns, TypeOK, RunsTypeOK
    <3> QED  BY <2>2, <3>1, <3>2, RequestMoves
  <2>3. CASE registry' = NoRun
    BY <2>3 DEF RegistryEntryIsLive
  <2>4. ASSUME NEW r \in Runs, Cleanup(r) PROVE registry' = NoRun
    BY <2>4 DEF Cleanup
  <2>5. CASE Restart
    BY <2>3, <2>5 DEF Restart
  <2>6. CASE UNCHANGED vars
    BY <2>6 DEF vars, runVars, apiVars, RegistryEntryIsLive
  <2> QED  BY <2>1, <2>2, <2>3, <2>4, <2>5, <2>6 DEF Next
<1> QED  BY <1>1, <1>2, TypeCorrect, PTL DEF Spec

-----------------------------------------------------------------------------
(* The way to a deployment.  What was validated is the code a reviewing run    *)
(* loaded, which was complete then and has only been replaced by newer since.  *)

Covered == \A n \in Phases : 0 < validated[n] /\ validated[n] <= artifacts[n]

Reviewed(r) ==
    /\ stage[r] = "REVIEWING" /\ pc[r] = "load" => \A n \in Phases : artifacts[n] > 0
    /\ stage[r] = "REVIEWING" /\ pc[r] \in {"claim", "work"} =>
         \A n \in Phases : 0 < files[r][n] /\ files[r][n] <= artifacts[n]
    /\ stage[r] = "DEPLOYING" /\ (pc[r] \in {"load", "claim", "work"} \/ rowLock = Main(r)) =>
         Covered

ReviewInv == /\ validation = "passed" \/ deployments # {} => Covered
             /\ \A r \in Runs : Reviewed(r)

\* The versions of the code only grow, and are what they were while nothing is reviewed.
LEMMA CoveredKept ==
    ASSUME TypeOK, [Next]_vars
    PROVE  /\ \A n \in Phases : artifacts[n] \in Nat /\ artifacts'[n] \in Nat
           /\ \A n \in Phases : artifacts[n] <= artifacts'[n]
           /\ Covered /\ UNCHANGED validated => Covered'
<1>1. Kept /\ TypeOK'
  BY KeptStep, TypeStep
<1>2. \A n \in Phases : artifacts[n] \in Nat /\ artifacts'[n] \in Nat /\ validated[n] \in Nat
  BY <1>1 DEF TypeOK, StoreTypeOK
<1> QED  BY <1>1, <1>2 DEF Kept, Covered

\* A step that moves no run into a review or a deployment keeps the invariant.
LEMMA ReviewKept ==
    ASSUME TypeOK, ReviewInv, [Next]_vars, UNCHANGED validated,
           validation' = validation, deployments' \subseteq deployments,
           \A r \in Runs :
             \/ Reviewed(r)'
             \/ /\ pc'[r] = pc[r] /\ stage'[r] = stage[r] /\ files'[r] = files[r]
                /\ rowLock' = Main(r) => rowLock = Main(r)
             \/ /\ pc'[r] \notin {"load", "claim", "work"}
                /\ stage'[r] # "DEPLOYING" \/ rowLock' # Main(r)
    PROVE  ReviewInv'
<1>1. /\ \A n \in Phases : artifacts[n] \in Nat /\ artifacts'[n] \in Nat
      /\ \A n \in Phases : artifacts[n] <= artifacts'[n]
      /\ Covered => Covered'
  BY CoveredKept
<1>2. validation' = "passed" \/ deployments' # {} => Covered'
  BY <1>1 DEF ReviewInv
<1>3. ASSUME NEW r \in Runs PROVE Reviewed(r)'
  <2>1. Reviewed(r) /\ \A n \in Phases : files[r][n] \in Nat
    BY DEF ReviewInv, TypeOK, RunsTypeOK
  <2>2. CASE /\ pc'[r] = pc[r] /\ stage'[r] = stage[r] /\ files'[r] = files[r]
             /\ rowLock' = Main(r) => rowLock = Main(r)
    <3>1. stage'[r] = "REVIEWING" /\ pc'[r] = "load" => \A n \in Phases : artifacts'[n] > 0
      BY <1>1, <2>1, <2>2 DEF Reviewed
    <3>2. stage'[r] = "REVIEWING" /\ pc'[r] \in {"claim", "work"} =>
            \A n \in Phases : 0 < files'[r][n] /\ files'[r][n] <= artifacts'[n]
      BY <1>1, <2>1, <2>2 DEF Reviewed
    <3>3. stage'[r] = "DEPLOYING" /\ (pc'[r] \in {"load", "claim", "work"} \/ rowLock' = Main(r))
            => Covered'
      BY <1>1, <2>1, <2>2 DEF Reviewed
    <3>4. Main(r)' = Main(r)
      BY DEF Main
    <3> QED  BY <3>1, <3>2, <3>3, <3>4 DEF Reviewed
  <2>3. CASE /\ pc'[r] \notin {"load", "claim", "work"}
             /\ stage'[r] # "DEPLOYING" \/ rowLock' # Main(r)
    BY <2>3 DEF Reviewed, Main
  <2> QED  BY <2>2, <2>3
<1> QED  BY <1>2, <1>3 DEF ReviewInv

\* The steps of a task.
LEMMA ReviewRun ==
    ASSUME TypeOK, RowHasOneWriter, PathInv, ReviewInv, NEW r \in Runs, TaskStep(r)
    PROVE  ReviewInv'
<1>1. Moves(r) /\ [Next]_vars
  BY RunMoves DEF TaskStep, Next
<1>2. /\ \A n \in Phases : artifacts[n] \in Nat /\ artifacts'[n] \in Nat
      /\ \A n \in Phases : artifacts[n] <= artifacts'[n]
      /\ Covered /\ UNCHANGED validated => Covered'
  BY <1>1, CoveredKept
<1>3. Reviewed(r) /\ Passed(r)
  BY DEF ReviewInv, PathInv
<1>4. rowLock = Main(r) => pc[r] \in {"work", "failing", "ended", "gone"}
  BY DEF RowHasOneWriter
<1>5. ASSUME UNCHANGED <<validation, validated, deployments>>,
             \/ Reviewed(r)'
             \/ /\ pc'[r] = pc[r] /\ stage'[r] = stage[r] /\ files'[r] = files[r]
                /\ rowLock' = Main(r) => rowLock = Main(r)
             \/ /\ pc'[r] \notin {"load", "claim", "work"}
                /\ stage'[r] # "DEPLOYING" \/ rowLock' # Main(r)
      PROVE  ReviewInv'
  BY <1>1, <1>5, ReviewKept DEF Moves
<1>6. ASSUME \/ Reviewed(r)'
             \/ /\ pc'[r] \notin {"load", "claim", "work"}
                /\ stage'[r] # "DEPLOYING" \/ rowLock' # Main(r),
             UNCHANGED <<validation, validated>>, Covered
      PROVE  ReviewInv'
  <2>1. Covered'
    BY <1>2, <1>6
  <2>2. ASSUME NEW s \in Runs \ {r} PROVE Reviewed(s)'
    <3>1. /\ pc'[s] = pc[s] /\ stage'[s] = stage[s] /\ files'[s] = files[s]
          /\ Reviewed(s) /\ \A n \in Phases : files[s][n] \in Nat
      BY <1>1 DEF Moves, ReviewInv, TypeOK, RunsTypeOK
    <3> QED  BY <1>2, <2>1, <3>1 DEF Reviewed
  <2>3. Reviewed(r)'
    BY <1>6 DEF Reviewed, Main
  <2> QED  BY <2>1, <2>2, <2>3 DEF ReviewInv
<1>7. \A w \in Locations : Goto(r, w) => pc'[r] = w
  BY DEF Goto, TypeOK, RunsTypeOK
<1>8. {"check", "skip", "load", "claim", "work", "verdict", "layer", "gather", "failing",
       "finalize", "report", "ended"} \subseteq Locations
  BY DEF Locations
<1>9. Free # Main(r)
  BY RunsAssumption DEF Main, Free
<1> USE DEF storeVars, rowVars, tableVars, runVars
<1>10. ASSUME StopPaused(r) \/ StopCancelled(r) \/ EnterNode(r) \/ GuardFails(r) PROVE ReviewInv'
  <2>1. UNCHANGED <<validation, validated, deployments, stage, rowLock>>
    BY <1>10, Zenon DEF StopPaused, StopCancelled, EnterNode, GuardFails
  <2>2. /\ pc[r] \in {"check", "skip"}
        /\ Goto(r, "ended") \/ Goto(r, "failing") \/ Goto(r, "skip")
    BY <1>10 DEF StopPaused, StopCancelled, EnterNode, GuardFails
  <2> QED  BY <1>4, <1>5, <1>7, <1>8, <2>1, <2>2
<1>11. CASE EnterStage(r)
  <2>1. UNCHANGED <<validation, validated, deployments, stage, rowLock, artifacts>>
    BY <1>11, Zenon DEF EnterStage
  <2>2. pc[r] = "skip" /\ pc'[r] = "load" /\ Guard(stage[r])
    BY <1>7, <1>8, <1>11 DEF EnterStage
  <2>3. stage[r] = "REVIEWING" => \A n \in Phases : artifacts[n] > 0
    BY <2>2 DEF Guard, CanEnterReviewing
  <2>4. stage[r] = "DEPLOYING" => Covered
    BY <2>2 DEF Guard, CanEnterDeploying, ReviewInv
  <2>5. Reviewed(r)'
    BY <1>2, <2>1, <2>2, <2>3, <2>4 DEF Reviewed
  <2> QED  BY <1>5, <2>1, <2>5
<1>12. CASE LoadVoyage(r)
  <2>1. UNCHANGED <<validation, validated, deployments, stage, rowLock, artifacts>>
    BY <1>12, Zenon DEF LoadVoyage
  <2>2. pc[r] = "load" /\ pc'[r] = "claim"
    BY <1>7, <1>8, <1>12 DEF LoadVoyage
  <2>3. stage[r] = "REVIEWING" => files'[r] = artifacts
    BY <1>12 DEF LoadVoyage, TypeOK, RunsTypeOK
  <2>4. Reviewed(r)'
    <3>1. stage'[r] = "REVIEWING" =>
            \A n \in Phases : 0 < files'[r][n] /\ files'[r][n] <= artifacts'[n]
      BY <1>2, <1>3, <2>1, <2>2, <2>3 DEF Reviewed
    <3>2. stage'[r] = "DEPLOYING" => Covered'
      BY <1>2, <1>3, <2>1, <2>2 DEF Reviewed
    <3> QED  BY <2>2, <3>1, <3>2 DEF Reviewed
  <2> QED  BY <1>5, <2>1, <2>4
<1>13. CASE ClaimRow(r)
  <2>1. UNCHANGED <<validation, validated, deployments, stage, files, artifacts>>
    BY <1>13, Zenon DEF ClaimRow
  <2>2. pc[r] = "claim" /\ pc'[r] = "work"
    BY <1>7, <1>8, <1>13 DEF ClaimRow
  <2>3. Reviewed(r)'
    <3>1. stage'[r] = "REVIEWING" =>
            \A n \in Phases : 0 < files'[r][n] /\ files'[r][n] <= artifacts'[n]
      BY <1>3, <2>1, <2>2 DEF Reviewed
    <3>2. stage'[r] = "DEPLOYING" => Covered'
      BY <1>2, <1>3, <2>1, <2>2 DEF Reviewed
    <3> QED  BY <2>2, <3>1, <3>2 DEF Reviewed
  <2> QED  BY <1>5, <2>1, <2>3
<1>14. CASE RefuseDeploy(r)
  <2>1. UNCHANGED <<validation, validated, deployments, rowLock>>
    BY <1>14, Zenon DEF RefuseDeploy
  <2>2. pc[r] = "claim" /\ pc'[r] = "failing"
    BY <1>7, <1>8, <1>14 DEF RefuseDeploy
  <2> QED  BY <1>4, <1>5, <2>1, <2>2
<1>15. CASE ServiceFails(r)
  <2>1. UNCHANGED <<validation, validated, deployments, stage, rowLock, artifacts>>
    BY <1>15, Zenon DEF ServiceFails
  <2>2. pc[r] = "work" /\ pc'[r] = "failing"
    BY <1>7, <1>8, <1>15 DEF ServiceFails
  <2>3. Reviewed(r)'
    BY <1>2, <1>3, <2>1, <2>2 DEF Reviewed
  <2> QED  BY <1>5, <2>1, <2>3
<1>16. ASSUME Advance(r) \/ Goto(r, "failing"), rowLock' = Free \/ pc[r] \notin {"work", "failing"},
             rowLock' \in {rowLock, Free}, pc[r] # "ended", pc[r] # "gone"
       PROVE  pc'[r] \notin {"load", "claim", "work"} /\ rowLock' # Main(r)
  <2>1. pc'[r] \in {"check", "finalize", "failing"}
    BY <1>7, <1>8, <1>16, AdvanceEdge
  <2> QED  BY <1>4, <1>9, <1>16, <2>1
<1>17. ASSUME SkipStage(r) \/ LastLayerBuilt(r) \/ Verdict(r) PROVE ReviewInv'
  <2>1. UNCHANGED <<validation, validated, deployments, rowLock>>
    BY <1>17, Zenon DEF SkipStage, LastLayerBuilt, Verdict
  <2>2. (Advance(r) \/ Goto(r, "failing")) /\ pc[r] \in {"skip", "layer", "verdict"}
    BY <1>17 DEF SkipStage, LastLayerBuilt, Verdict
  <2> QED  BY <1>5, <1>16, <2>1, <2>2
<1>18. ASSUME ChartCourse(r) \/ DraftPoneglyphs(r) \/ WriteHealthChecks(r) PROVE ReviewInv'
  <2>1. UNCHANGED <<validation, validated, deployments>> /\ Advance(r) /\ CommitCharted(r)
    BY <1>18, Zenon DEF ChartCourse, DraftPoneglyphs, WriteHealthChecks
  <2>2. rowLock' = Free /\ pc[r] = "work"
    BY <1>18, <2>1 DEF ChartCourse, DraftPoneglyphs, WriteHealthChecks, Working, CommitCharted
  <2> QED  BY <1>5, <1>16, <2>1, <2>2
<1>19. CASE ValidateCode(r)
  <2>1. /\ stage[r] = "REVIEWING" /\ pc[r] = "work" /\ pc'[r] = "verdict"
        /\ UNCHANGED <<stage, artifacts, deployments>>
    BY <1>7, <1>8, <1>19 DEF ValidateCode, Working
  <2>2. \A n \in Phases : 0 < files[r][n] /\ files[r][n] <= artifacts[n]
    BY <1>3, <2>1 DEF Reviewed
  <2>3. stage'[r] # "DEPLOYING"
    BY <2>1
  <2>4. \/ UNCHANGED <<validation, validated>>
        \/ validation' = "failed" /\ UNCHANGED validated
        \/ validated' = files[r]
    BY <1>19 DEF ValidateCode
  <2>5. CASE UNCHANGED <<validation, validated>>
    BY <1>5, <2>1, <2>3, <2>5
  <2>6. CASE validation' = "failed" /\ UNCHANGED validated
    <3>1. deployments' # {} => Covered'
      BY <1>2, <2>1, <2>6 DEF ReviewInv
    <3>2. ASSUME NEW s \in Runs \ {r} PROVE Reviewed(s)'
      <4>1. /\ pc'[s] = pc[s] /\ stage'[s] = stage[s] /\ files'[s] = files[s]
            /\ rowLock' = Main(s) => rowLock = Main(s)
            /\ Reviewed(s)
        BY <1>1 DEF Moves, ReviewInv
      <4>2. Covered => Covered'
        BY <1>2, <2>6
      <4> QED  BY <2>1, <4>1, <4>2 DEF Reviewed, Main
    <3>3. Reviewed(r)'
      BY <2>1, <2>3 DEF Reviewed
    <3> QED  BY <2>6, <3>1, <3>2, <3>3 DEF ReviewInv
  <2>7. CASE validated' = files[r]
    <3>1. Covered'
      BY <2>1, <2>2, <2>7 DEF Covered
    <3>2. ASSUME NEW s \in Runs \ {r} PROVE Reviewed(s)'
      <4>1. /\ pc'[s] = pc[s] /\ stage'[s] = stage[s] /\ files'[s] = files[s] /\ Reviewed(s)
        BY <1>1 DEF Moves, ReviewInv
      <4> QED  BY <2>1, <3>1, <4>1 DEF Reviewed
    <3>3. Reviewed(r)'
      BY <2>1, <2>3 DEF Reviewed
    <3> QED  BY <3>1, <3>2, <3>3 DEF ReviewInv
  <2> QED  BY <2>4, <2>5, <2>6, <2>7
<1>20. CASE Deploy(r)
  <2>1. /\ stage[r] = "DEPLOYING" /\ pc[r] = "work" /\ rowLock' = Free
        /\ UNCHANGED <<validation, validated>> /\ (Advance(r) \/ Goto(r, "failing"))
    BY <1>20 DEF Deploy, Working, CommitCharted
  <2>2. Covered
    BY <1>3, <2>1 DEF Reviewed
  <2>3. pc'[r] \notin {"load", "claim", "work"} /\ rowLock' # Main(r)
    BY <1>16, <2>1
  <2> QED  BY <1>6, <2>1, <2>2, <2>3
<1>21. CASE FailEnd(r)
  <2>1. /\ UNCHANGED <<validation, validated>> /\ pc'[r] = "report"
        /\ deployments' = deployments \cup Unfinished(r) /\ rowLock' # Main(r)
    BY <1>7, <1>8, <1>9, <1>21 DEF FailEnd
  <2>2. CASE Unfinished(r) = {}
    BY <1>5, <2>1, <2>2
  <2>3. CASE Unfinished(r) # {}
    <3>1. Covered
      BY <1>3, <2>3 DEF Unfinished, Reviewed
    <3> QED  BY <1>6, <2>1, <3>1
  <2> QED  BY <2>2, <2>3
<1>22. CASE Finalize(r)
  <2>1. UNCHANGED <<validation, validated, deployments, stage, rowLock>>
    BY <1>22, Zenon DEF Finalize
  <2>2. pc[r] = "finalize" /\ pc'[r] = "report"
    BY <1>7, <1>8, <1>22 DEF Finalize
  <2> QED  BY <1>4, <1>5, <2>1, <2>2
<1>23. CASE Report(r)
  <2>1. UNCHANGED <<validation, validated, deployments, stage, rowLock>>
    BY <1>23, Zenon DEF Report
  <2>2. pc[r] = "report" /\ pc'[r] = "ended"
    BY <1>7, <1>8, <1>23 DEF Report
  <2> QED  BY <1>4, <1>5, <2>1, <2>2
<1>24. CASE DeliverCancel(r)
  <2>1. UNCHANGED <<validation, validated, deployments, stage, files, artifacts>>
    BY <1>24, Zenon DEF DeliverCancel
  <2>2. pc'[r] = "ended" /\ (rowLock' = Main(r) => rowLock = Main(r))
    BY <1>7, <1>8, <1>9, <1>24 DEF DeliverCancel, AbandonShips
  <2>3. Covered => Covered'
    BY <1>2, <2>1
  <2>4. Reviewed(r)'
    BY <1>3, <2>1, <2>2, <2>3 DEF Reviewed, Main
  <2> QED  BY <1>5, <2>1, <2>4
<1>25. CASE CollectSession(r)
  <2>1. UNCHANGED <<validation, validated, deployments, pc, stage, files>> /\ rowLock' = Free
    BY <1>25, Zenon DEF CollectSession
  <2> QED  BY <1>5, <1>9, <2>1
<1>26. CASE EnterBuilding(r)
  <2>1. UNCHANGED <<validation, validated, deployments, rowLock>>
    BY <1>26, Zenon DEF EnterBuilding
  <2>2. pc[r] = "check" /\ (Advance(r) \/ Goto(r, "failing") \/ Goto(r, "layer"))
    BY <1>26 DEF EnterBuilding
  <2>3. CASE Goto(r, "layer")
    BY <1>4, <1>5, <1>7, <1>8, <2>1, <2>2, <2>3
  <2> QED  BY <1>5, <1>16, <2>1, <2>2, <2>3
<1>27. ASSUME StartLayer(r) \/ LayerReturned(r) \/ LayerRaised(r) PROVE ReviewInv'
  <2>1. UNCHANGED <<validation, validated, deployments, stage>>
    BY <1>27, Zenon DEF StartLayer, LayerReturned, LayerRaised
  <2>2. /\ Goto(r, "layer") \/ Goto(r, "gather") \/ Goto(r, "failing")
        /\ pc[r] \in {"layer", "gather"}
    BY <1>27 DEF StartLayer, LayerReturned, LayerRaised
  <2>3. stage'[r] # "DEPLOYING"
    BY <1>3, <2>1, <2>2 DEF Passed
  <2> QED  BY <1>5, <1>7, <1>8, <2>1, <2>2, <2>3
<1>28. ASSUME NEW n \in Phases, ShipStep(r, n) PROVE ReviewInv'
  <2>1. UNCHANGED <<pc, stage, files, validation, validated, deployments>>
    BY <1>28, Zenon DEF ShipStep, LoadPhase, ClaimPhase, PhaseBuilt, PhaseFailed
  <2>2. rowLock' \in {rowLock, Free, <<r, n>>}
    BY <1>28 DEF ShipStep, LoadPhase, ClaimPhase, PhaseBuilt, PhaseFailed
  <2>3. rowLock' = Main(r) => rowLock = Main(r)
    BY <1>9, <2>2, PhaseNumbers DEF Main
  <2> QED  BY <1>5, <2>1, <2>3
<1>29. CASE ForeignKeyFails(r)
  <2>1. UNCHANGED <<validation, validated, deployments, stage, artifacts>> /\ rowLock' = Free
    BY <1>29, Zenon DEF ForeignKeyFails
  <2>2. pc'[r] = "ended"
    BY <1>7, <1>8, <1>29 DEF ForeignKeyFails
  <2> QED  BY <1>4, <1>5, <1>9, <2>1, <2>2
<1> QED
  BY <1>10, <1>11, <1>12, <1>13, <1>14, <1>15, <1>17, <1>18, <1>19, <1>20, <1>21, <1>22,
     <1>23, <1>24, <1>25, <1>26, <1>27, <1>28, <1>29
  DEF TaskStep, RunStep, StageStep, BuildStep

LEMMA ReviewStep ==
    TypeOK /\ RowHasOneWriter /\ PathInv /\ ReviewInv /\ [Next]_vars => ReviewInv'
<1> SUFFICES ASSUME TypeOK, RowHasOneWriter, PathInv, ReviewInv, [Next]_vars PROVE ReviewInv'
    OBVIOUS
<1>1. ASSUME NEW r \in Runs, TaskStep(r) PROVE ReviewInv'
  BY <1>1, ReviewRun
<1>2. ASSUME UNCHANGED tableVars, rowLock' \in {rowLock, Free},
             \A r \in Runs :
               \/ pc'[r] = pc[r] /\ stage'[r] = stage[r] /\ files'[r] = files[r]
               \/ pc'[r] = "gone" /\ stage'[r] = "PLANNING"
               \/ pc'[r] \in {"check", "report"} /\ rowLock' # Main(r)
      PROVE  ReviewInv'
  <2>1. UNCHANGED <<validation, validated, deployments>>
    BY <1>2 DEF tableVars
  <2>2. \A r \in Runs : rowLock' = Main(r) => rowLock = Main(r)
    BY <1>2, RunsAssumption DEF Main, Free
  <2> QED  BY <1>2, <2>1, <2>2, ReviewKept
<1>3. ASSUME NEW q \in Requests, Arrive(q) \/ RequestStep(q) PROVE ReviewInv'
  <2>1. /\ UNCHANGED tableVars /\ UNCHANGED <<stage, files, rowLock>>
        /\ \/ UNCHANGED pc
           \/ \E r \in IdleRuns, w \in {"check", "report"} : pc' = [pc EXCEPT ![r] = w]
    BY <1>3, RequestWrites, RequestMoves
  <2>2. ASSUME NEW s \in IdleRuns, NEW w \in {"check", "report"}, pc' = [pc EXCEPT ![s] = w]
        PROVE  \A r \in Runs : \/ pc'[r] = pc[r]
                               \/ pc'[r] \in {"check", "report"} /\ rowLock' # Main(r)
    <3>1. s \in Runs /\ pc[s] = "idle" /\ rowLock # Main(s)
      BY DEF IdleRuns, RowHasOneWriter
    <3> QED  BY <2>1, <2>2, <3>1 DEF TypeOK, RunsTypeOK
  <2>3. \A r \in Runs : \/ pc'[r] = pc[r]
                        \/ pc'[r] \in {"check", "report"} /\ rowLock' # Main(r)
    BY <2>1, <2>2
  <2> QED  BY <1>2, <2>1, <2>3
<1>4. ASSUME NEW S \in SUBSET Runs, Bury(S), UNCHANGED tableVars, rowLock' \in {rowLock, Free}
      PROVE  ReviewInv'
  <2>1. \A r \in Runs : \/ pc'[r] = pc[r] /\ stage'[r] = stage[r] /\ files'[r] = files[r]
                        \/ pc'[r] = "gone" /\ stage'[r] = "PLANNING"
    BY <1>4 DEF Bury
  <2> QED  BY <1>2, <1>4, <2>1
<1>5. ASSUME NEW r \in Runs, Cleanup(r) PROVE ReviewInv'
  <2>1. Bury({r}) /\ UNCHANGED tableVars /\ UNCHANGED rowLock
    BY <1>5 DEF Cleanup, storeVars
  <2> QED  BY <1>4, <2>1
<1>6. CASE Restart
  <2> DEFINE S == {r \in Runs : pc[r] # "idle"}
  <2>1. Bury(S) /\ UNCHANGED tableVars /\ rowLock' = Free
    BY <1>6 DEF Restart
  <2> QED  BY <1>4, <2>1
<1>7. CASE UNCHANGED vars
  BY <1>2, <1>7 DEF vars, storeVars, runVars
<1> QED  BY <1>1, <1>3, <1>5, <1>6, <1>7 DEF Next

\* Nothing is deployed, not even by a deployment that fails, before a validation passed over code
\* for every phase: however reviews, builds and deployments of overlapping runs interleave
\* (DoctorService.validate_code, deploying_node).
THEOREM DeployedIsValidated == Spec => []DeployedMeansValidated
<1>1. Init => ReviewInv
  BY RunsAssumption DEF Init, StoreInit, RunsInit, ReviewInv, Reviewed
<1>2. Init => PathInv
  BY DEF Init, StoreInit, RunsInit, PathInv, Passed, CompletedMeansDeployed
<1>3. ReviewInv => DeployedMeansValidated
  BY DEF ReviewInv, Covered, DeployedMeansValidated
<1> QED  BY <1>1, <1>2, <1>3, ReviewStep, PathStep, OneWriter, TypeCorrect, PTL DEF Spec
-----------------------------------------------------------------------------
(* The order of the documents.  PathInv and ReviewInv say what each stage left *)
(* behind, but for the health checks, which the Doctor may write for some of   *)
(* the phases and replace while others build.                                  *)

CheckedInv == \A r \in Runs : stage[r] \notin {"PLANNING", "PDD", "TDD"} => healthChecks # {}

\* The steps of a task that write a document, or the status COMPLETED; it is done with a stage
\* when it moves on.
LEMMA RunChanges ==
    ASSUME NEW r \in Runs, RunStep(r)
    PROVE  /\ \/ ChartCourse(r) \/ DraftPoneglyphs(r) \/ WriteHealthChecks(r)
              \/ ValidateCode(r) \/ Deploy(r) \/ FailEnd(r) \/ Finalize(r)
              \/ \E n \in Phases : PhaseBuilt(r, n)
              \/ UNCHANGED tableVars /\ status' \in {status, "CHARTED"}
           /\ \/ UNCHANGED stage
              \/ /\ Advance(r)
                 /\ \/ SkipStage(r) \/ ChartCourse(r) \/ DraftPoneglyphs(r) \/ WriteHealthChecks(r)
                    \/ Verdict(r) \/ Deploy(r) \/ EnterBuilding(r) \/ LastLayerBuilt(r)
<1> USE DEF storeVars, rowVars, runVars
<1>1. ASSUME StopPaused(r) \/ StopCancelled(r) \/ EnterNode(r) \/ GuardFails(r) \/ EnterStage(r)
      PROVE  UNCHANGED <<tableVars, status, stage>>
  BY <1>1, Zenon DEF StopPaused, StopCancelled, EnterNode, GuardFails, EnterStage
<1>2. ASSUME LoadVoyage(r) \/ ClaimRow(r) \/ RefuseDeploy(r) \/ ServiceFails(r)
      PROVE  UNCHANGED <<tableVars, status, stage>>
  BY <1>2, Zenon DEF LoadVoyage, ClaimRow, RefuseDeploy, ServiceFails
<1>3. ASSUME Report(r) \/ DeliverCancel(r) \/ CollectSession(r) \/ ForeignKeyFails(r)
      PROVE  UNCHANGED <<tableVars, status, stage>>
  BY <1>3, Zenon DEF Report, DeliverCancel, CollectSession, ForeignKeyFails
<1>4. ASSUME StartLayer(r) \/ LayerReturned(r) \/ LayerRaised(r)
      PROVE  UNCHANGED <<tableVars, status, stage>>
  BY <1>4, Zenon DEF StartLayer, LayerReturned, LayerRaised
<1>5. ASSUME SkipStage(r) \/ Verdict(r) \/ EnterBuilding(r) \/ LastLayerBuilt(r)
      PROVE  UNCHANGED <<tableVars, status>> /\ (Advance(r) \/ UNCHANGED stage)
  BY <1>5, Zenon DEF SkipStage, Verdict, EnterBuilding, LastLayerBuilt
<1>6. ASSUME ChartCourse(r) \/ DraftPoneglyphs(r) \/ WriteHealthChecks(r) \/ Deploy(r)
      PROVE  Advance(r) \/ UNCHANGED stage
  BY <1>6, Zenon DEF ChartCourse, DraftPoneglyphs, WriteHealthChecks, Deploy
<1>7. ASSUME ValidateCode(r) \/ FailEnd(r) \/ Finalize(r)
      PROVE  UNCHANGED stage
  BY <1>7, Zenon DEF ValidateCode, FailEnd, Finalize
<1>8. ASSUME NEW n \in Phases, LoadPhase(r, n) \/ ClaimPhase(r, n) \/ PhaseFailed(r, n)
      PROVE  UNCHANGED <<tableVars, status, stage>>
  BY <1>8, Zenon DEF LoadPhase, ClaimPhase, PhaseFailed
<1>9. ASSUME NEW n \in Phases, PhaseBuilt(r, n)
      PROVE  UNCHANGED stage
  BY <1>9, Zenon DEF PhaseBuilt
<1> QED
  BY <1>1, <1>2, <1>3, <1>4, <1>5, <1>6, <1>7, <1>8, <1>9
  DEF RunStep, StageStep, BuildStep, ShipStep

\* The edge out of TDD is taken with some health checks, and they are only replaced by others.
LEMMA CheckedRun ==
    ASSUME TypeOK, PathInv, CheckedInv, NEW r \in Runs, TaskStep(r)
    PROVE  CheckedInv'
<1> USE DEF storeVars, rowVars, tableVars
<1>1. /\ RunStep(r) /\ Moves(r) /\ Passed(r)
      /\ stage[r] \notin {"PLANNING", "PDD", "TDD"} => healthChecks # {}
  BY RunMoves DEF TaskStep, PathInv, CheckedInv
<1>2. WriteHealthChecks(r) => healthChecks' # {}
  BY Zenon DEF WriteHealthChecks, DoctorAnswers
<1>3. WriteHealthChecks(r) \/ healthChecks' = healthChecks
  <2>1. ASSUME ChartCourse(r) \/ DraftPoneglyphs(r) \/ ValidateCode(r) \/ Deploy(r) \/ FailEnd(r)
        PROVE  UNCHANGED healthChecks
    BY <2>1, Zenon DEF ChartCourse, DraftPoneglyphs, ValidateCode, Deploy, FailEnd
  <2>2. CASE Finalize(r)
    BY <2>2, Zenon DEF Finalize
  <2>3. ASSUME NEW n \in Phases, PhaseBuilt(r, n) PROVE UNCHANGED healthChecks
    BY <2>3, Zenon DEF PhaseBuilt
  <2> QED  BY <1>1, <2>1, <2>2, <2>3, RunChanges
<1>4. stage'[r] \notin {"PLANNING", "PDD", "TDD"} => healthChecks' # {}
  <2>1. CASE WriteHealthChecks(r)
    BY <1>2, <2>1
  <2>2. CASE UNCHANGED stage
    BY <1>1, <1>2, <1>3, <2>2
  <2>3. CASE ChartCourse(r) /\ Advance(r)
    BY <2>3, AdvanceEdge DEF ChartCourse, Working
  <2>4. CASE DraftPoneglyphs(r) /\ Advance(r)
    BY <2>4, AdvanceEdge DEF DraftPoneglyphs, Working
  <2>5. CASE SkipStage(r) /\ Advance(r)
    <3>1. stage[r] = "TDD" => healthChecks # {}
      <4>1. Satisfied("TDD") => Phases \subseteq healthChecks
        BY DEF Satisfied, CanEnterBuilding
      <4> QED  BY <2>5, <4>1, PhaseNumbers DEF SkipStage
    <3>2. healthChecks' = healthChecks
      BY <2>5, Zenon DEF SkipStage
    <3> QED  BY <1>1, <2>5, <3>1, <3>2, AdvanceEdge
  <2>6. CASE Verdict(r) \/ Deploy(r) \/ EnterBuilding(r) \/ LastLayerBuilt(r)
    <3>1. stage[r] \in {"REVIEWING", "DEPLOYING", "BUILDING"}
      BY <1>1, <2>6 DEF Passed, Verdict, Deploy, Working, EnterBuilding, LastLayerBuilt
    <3> QED  BY <1>1, <1>2, <1>3, <3>1
  <2> QED  BY <1>1, <2>1, <2>2, <2>3, <2>4, <2>5, <2>6, RunChanges
<1>5. healthChecks # {} => healthChecks' # {}
  BY <1>2, <1>3
<1>6. \A s \in Runs \ {r} : stage'[s] = stage[s]
  BY <1>1 DEF Moves
<1> QED  BY <1>4, <1>5, <1>6 DEF CheckedInv

LEMMA CheckedStep == TypeOK /\ PathInv /\ CheckedInv /\ [Next]_vars => CheckedInv'
<1> SUFFICES ASSUME TypeOK, PathInv, CheckedInv, [Next]_vars PROVE CheckedInv'
    OBVIOUS
<1>1. ASSUME NEW r \in Runs, TaskStep(r) PROVE CheckedInv'
  BY <1>1, CheckedRun
<1>2. ASSUME UNCHANGED tableVars,
             \A r \in Runs : stage'[r] = stage[r] \/ stage'[r] = "PLANNING"
      PROVE  CheckedInv'
  BY <1>2 DEF CheckedInv, tableVars
<1>3. ASSUME NEW q \in Requests, Arrive(q) \/ RequestStep(q) PROVE CheckedInv'
  BY <1>2, <1>3, RequestWrites, RequestMoves
<1>4. ASSUME NEW r \in Runs, Cleanup(r) PROVE CheckedInv'
  BY <1>2, <1>4 DEF Cleanup, Bury, storeVars
<1>5. CASE Restart
  BY <1>2, <1>5 DEF Restart, Bury
<1>6. CASE UNCHANGED vars
  BY <1>2, <1>6 DEF vars, storeVars, runVars
<1> QED  BY <1>1, <1>3, <1>4, <1>5, <1>6 DEF Next

\* What the refinement rests on.
LifeInv == TypeOK /\ RowHasOneWriter /\ LayerBarrier /\ PathInv /\ ReviewInv /\ CheckedInv

LEMMA LifeInvHolds == Spec => []LifeInv
<1>1. Init => PathInv
  BY DEF Init, StoreInit, RunsInit, PathInv, Passed, CompletedMeansDeployed
<1>2. Init => ReviewInv
  BY RunsAssumption DEF Init, StoreInit, RunsInit, ReviewInv, Reviewed
<1>3. Init => CheckedInv
  BY DEF Init, RunsInit, CheckedInv
<1> QED
  BY <1>1, <1>2, <1>3, CheckedStep, ReviewStep, PathStep, OneWriter, LayersInOrder, TypeCorrect,
     PTL DEF Spec, LifeInv

-----------------------------------------------------------------------------
(* The pipeline implements VoyageLife *)

\* A new voyage has no documents.
LEMMA LifeInit == Init => Life!Init
BY DEF Init, StoreInit, Life!Init

\* What leaves the documents alone does not complete a voyage either.
LEMMA LifeStutters ==
    ASSUME UNCHANGED tableVars, status' = "COMPLETED" => status = "COMPLETED"
    PROVE  [Life!Next]_(Life!lifeVars)
<1>1. UNCHANGED Life!documents
  BY DEF tableVars, Life!documents
<1>2. (status = "COMPLETED")' = FALSE \/ (status = "COMPLETED")' = (status = "COMPLETED")
  OBVIOUS
<1> QED  BY <1>1, <1>2 DEF Life!Next, Life!lifeVars

\* The commit of a service leaves CHARTED.
LEMMA LifeWorks ==
    ASSUME Life!Work, status' = "COMPLETED" => status = "COMPLETED"
    PROVE  Life!Next
<1>1. (status = "COMPLETED")' \in {status = "COMPLETED", FALSE}
  OBVIOUS
<1> QED  BY <1>1 DEF Life!Next

\* Each commit of a crew service is one step in the life of the voyage.
LEMMA LifeRun ==
    ASSUME LifeInv, NEW r \in Runs, TaskStep(r)
    PROVE  [Life!Next]_(Life!lifeVars)
<1>1. /\ RunStep(r) /\ TypeOK /\ Passed(r) /\ Reviewed(r)
      /\ stage[r] \notin {"PLANNING", "PDD", "TDD"} => healthChecks # {}
  BY DEF LifeInv, TaskStep, PathInv, ReviewInv, CheckedInv
<1>2. CASE UNCHANGED tableVars /\ status' \in {status, "CHARTED"}
  BY <1>2, LifeStutters
<1>3. CASE ChartCourse(r)
  <2>1. Life!Chart
    BY <1>3, Zenon DEF ChartCourse, Life!Chart
  <2> QED  BY <1>3, <2>1, LifeWorks DEF ChartCourse, CommitCharted, Life!Work
<1>4. CASE DraftPoneglyphs(r)
  <2>1. plan
    BY <1>1, <1>4 DEF DraftPoneglyphs, Working, Passed
  <2>2. Life!Draft
    BY <1>4, <2>1, Zenon DEF DraftPoneglyphs, Life!Draft
  <2> QED  BY <1>4, <2>2, LifeWorks DEF DraftPoneglyphs, CommitCharted, Life!Work
<1>5. CASE WriteHealthChecks(r)
  <2>1. plan /\ poneglyphs = Phases
    BY <1>1, <1>5 DEF WriteHealthChecks, Working, Passed
  <2>2. healthChecks' \in (SUBSET Phases) \ {{}}
    BY <1>5, Zenon DEF WriteHealthChecks, DoctorAnswers
  <2>3. Life!WriteChecks
    BY <1>5, <2>1, <2>2, Zenon DEF WriteHealthChecks, Life!WriteChecks, Life!Drafted
  <2> QED  BY <1>5, <2>3, LifeWorks DEF WriteHealthChecks, CommitCharted, Life!Work
<1>6. ASSUME NEW n \in Phases, PhaseBuilt(r, n) PROVE [Life!Next]_(Life!lifeVars)
  <2>1. pc[r] = "gather"
    BY <1>6 DEF LifeInv, LayerBarrier, PhaseBuilt
  <2>2. plan /\ poneglyphs = Phases /\ healthChecks # {}
    BY <1>1, <2>1 DEF Passed
  <2>3. Life!Build(n)
    BY <1>6, <2>2, Zenon DEF PhaseBuilt, Life!Build, Life!Drafted
  <2>4. Life!Work /\ status' = status
    BY <1>6, <2>3, Zenon DEF Life!Work, PhaseBuilt
  <2> QED  BY <2>4, LifeWorks
<1>7. CASE ValidateCode(r)
  <2>1. /\ stage[r] = "REVIEWING" /\ pc[r] = "work" /\ status' = "CHARTED"
        /\ UNCHANGED <<plan, poneglyphs, healthChecks, artifacts, deployments>>
    BY <1>7 DEF ValidateCode, Working, CommitCharted
  <2>2. \A n \in Phases : 0 < files[r][n] /\ files[r][n] <= artifacts[n]
    BY <1>1, <2>1 DEF Reviewed
  <2>3. files[r] \in [Phases -> Nat] /\ \A n \in Phases : artifacts[n] \in Nat
    BY <1>1 DEF TypeOK, StoreTypeOK, RunsTypeOK
  <2>4. \A n \in Phases : artifacts[n] > 0
    BY <2>2, <2>3
  <2>5. \/ UNCHANGED <<validation, validationBegan, validated>>
        \/ validation' = "failed" /\ UNCHANGED validated
        \/ validation' = "passed" /\ validated' = files[r]
    BY <1>7, Zenon DEF ValidateCode
  <2>6. CASE UNCHANGED <<validation, validationBegan, validated>>
    BY <2>1, <2>6, LifeStutters DEF tableVars
  <2>7. CASE validation' = "failed" /\ UNCHANGED validated
    <3>1. Life!Validate
      BY <2>1, <2>4, <2>7 DEF Life!Validate
    <3> QED  BY <2>1, <3>1, LifeWorks DEF Life!Work
  <2>8. CASE validation' = "passed" /\ validated' = files[r]
    <3>1. validated' \in [Phases -> Nat] /\ Life!Covers(validated')
      BY <2>2, <2>3, <2>8 DEF Life!Covers
    <3>2. Life!Validate
      BY <2>1, <2>4, <2>8, <3>1 DEF Life!Validate
    <3> QED  BY <2>1, <3>2, LifeWorks DEF Life!Work
  <2> QED  BY <2>5, <2>6, <2>7, <2>8
\* A failed deployment is one, and so is the row a backend that raised left behind.
<1>8. ASSUME Covered, status' # "COMPLETED",
             NEW outcome \in {"running", "completed", "failed"},
             deployments' = deployments \cup {outcome},
             UNCHANGED <<plan, poneglyphs, healthChecks, artifacts, validation, validated>>
      PROVE  [Life!Next]_(Life!lifeVars)
  <2>1. Life!Deploy
    BY <1>8 DEF Life!Deploy, Life!Covers, Covered
  <2> QED  BY <1>8, <2>1, LifeWorks DEF Life!Work
<1>9. CASE Deploy(r)
  <2>1. stage[r] = "DEPLOYING" /\ pc[r] = "work" /\ status' = "CHARTED"
    BY <1>9 DEF Deploy, Working, CommitCharted
  <2>2. PICK outcome \in DeployOutcomes : deployments' = deployments \cup {outcome}
    BY <1>9 DEF Deploy
  <2>3. UNCHANGED <<plan, poneglyphs, healthChecks, artifacts, validation, validated>>
    BY <1>9 DEF Deploy
  <2>4. Covered
    BY <1>1, <2>1 DEF Reviewed
  <2> QED  BY <1>8, <2>1, <2>2, <2>3, <2>4 DEF DeployOutcomes
<1>10. CASE FailEnd(r)
  <2>1. /\ status' = "FAILED" /\ deployments' = deployments \cup Unfinished(r)
        /\ UNCHANGED <<plan, poneglyphs, healthChecks, artifacts, validation, validationBegan,
                       validated>>
    BY <1>10 DEF FailEnd
  <2>2. CASE Unfinished(r) = {"running"}
    <3>1. Covered
      BY <1>1, <2>2 DEF Unfinished, Reviewed
    <3> QED  BY <1>8, <2>1, <2>2, <3>1
  <2>3. CASE Unfinished(r) = {}
    <3>1. deployments' = deployments
      BY <2>1, <2>3
    <3> QED  BY <2>1, <3>1, LifeStutters DEF tableVars
  <2> QED  BY <2>2, <2>3 DEF Unfinished
<1>11. CASE Finalize(r)
  <2>1. plan /\ poneglyphs = Phases /\ "completed" \in deployments
    BY <1>1, <1>11 DEF Finalize, Passed
  <2>2. UNCHANGED tableVars /\ status' = "COMPLETED"
    BY <1>11 DEF Finalize
  <2>3. UNCHANGED Life!documents
    BY <2>2 DEF tableVars, Life!documents
  <2>4. Life!Complete
    BY <2>1, <2>2, <2>3 DEF Life!Complete, Life!Drafted
  <2> QED  BY <2>4 DEF Life!Next
<1> QED
  BY <1>1, <1>2, <1>3, <1>4, <1>5, <1>6, <1>7, <1>9, <1>10, <1>11, RunChanges

\* Every step of the system is a step in the life of the voyage, or none.
LEMMA LifeStep == LifeInv /\ [Next]_vars => [Life!Next]_(Life!lifeVars)
<1> SUFFICES ASSUME LifeInv, [Next]_vars PROVE [Life!Next]_(Life!lifeVars)
    OBVIOUS
<1>1. ASSUME NEW r \in Runs, TaskStep(r) PROVE [Life!Next]_(Life!lifeVars)
  BY <1>1, LifeRun
<1>2. ASSUME NEW q \in Requests, Arrive(q) \/ RequestStep(q) PROVE [Life!Next]_(Life!lifeVars)
  BY <1>2, RequestWrites, RequestMoves, LifeStutters
<1>3. ASSUME NEW r \in Runs, Cleanup(r) PROVE [Life!Next]_(Life!lifeVars)
  BY <1>3, LifeStutters DEF Cleanup, storeVars, rowVars
<1>4. CASE Restart
  BY <1>4, LifeStutters DEF Restart, rowVars
<1>5. CASE UNCHANGED vars
  BY <1>5, LifeStutters DEF vars, storeVars, rowVars
<1> QED  BY <1>1, <1>2, <1>3, <1>4, <1>5 DEF Next

\* Runs that overlap, requests that act on copies, failures, cancellations and restarts: every
\* step of the pipeline is one in the orderly life of the voyage's documents, in which each rests
\* on those before it, none is lost, and COMPLETED comes last (crew/pipeline_graph.py,
\* services/pipeline_service.py, services/pipeline_guards.py).
THEOREM PipelineFollowsLife == Spec => FollowsLife
BY LifeInit, LifeStep, LifeInvHolds, PTL DEF Spec, FollowsLife, Life!Spec
=============================================================================
