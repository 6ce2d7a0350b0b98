---------------------------- MODULE PipelineGraph ----------------------------
(***************************************************************************)
(* The master pipeline (crew/pipeline_graph.py) as executed by a pipeline  *)
(* task, together with the effect of each crew service on the database.    *)
(* A run is one asyncio task of PipelineService.start.                     *)
(*                                                                         *)
(* A step ends where the code awaits something another task can observe or *)
(* disturb: a load of the voyage, the flush that takes the row lock, the   *)
(* call of a language model or sandbox, a commit.  Reads that follow each  *)
(* other in one guard are one step.                                        *)
(***************************************************************************)
EXTENDS VoyageStore

CONSTANT MaxParallel   \* max_parallel_shipwrights

ASSUME ParallelAssumption == MaxParallel \in Nat \ {0}

VARIABLES
    pc,          \* where the run is
    stage,       \* the stage node it is in
    mem,         \* status attribute of the Voyage object the node loaded
    files,       \* code versions the reviewing node loaded
    began,       \* order in which the reviewing transactions began, 0 before
    layered,     \* phases of the layers already built in this run
    ship,        \* state of each shipwright task of the current layer
    killed       \* task.cancel() was called and not yet delivered

runVars == <<pc, stage, mem, files, began, layered, ship, killed>>

Stages == StageStatuses \cup {"BUILDING"}
Locations == {"idle",      \* not spawned
              "check",     \* about to load the voyage at the top of a node
              "skip",      \* about to evaluate skip_fn
              "load",      \* run_fn is about to load the voyage
              "claim",     \* the service is about to flush the stage status
              "work",      \* the service works, the row lock is held
              "verdict",   \* reviewing: about to reload the latest validation
              "layer",     \* building node: between two layers
              "gather",    \* building node: shipwrights of a layer at work
              "failing",   \* routed to fail_end
              "finalize",  \* routed to finalize
              "report",    \* graph over: log the outcome, Return Bottle
              "ended",     \* task done, its done-callback not yet run
              "gone"}      \* done-callback has run
ShipStates == {"none", "queued", "loaded", "building", "returned", "raised"}

NextStage == [PLANNING |-> "PDD", PDD |-> "TDD", TDD |-> "BUILDING",
              BUILDING |-> "REVIEWING", REVIEWING |-> "DEPLOYING"]

Alive(r) == pc[r] \notin {"idle", "ended", "gone"}
NoShips == [n \in Phases |-> "none"]

RunsInit ==
    /\ pc = [r \in Runs |-> "idle"] /\ stage = [r \in Runs |-> "PLANNING"]
    /\ mem = [r \in Runs |-> "CHARTED"]
    /\ files = [r \in Runs |-> [n \in Phases |-> 0]] /\ began = [r \in Runs |-> 0]
    /\ layered = [r \in Runs |-> {}] /\ ship = [r \in Runs |-> NoShips]
    /\ killed = [r \in Runs |-> FALSE]

RunsTypeOK ==
    /\ pc \in [Runs -> Locations] /\ stage \in [Runs -> Stages]
    /\ mem \in [Runs -> VoyageStatus]
    /\ files \in [Runs -> [Phases -> Nat]] /\ began \in [Runs -> Nat]
    /\ layered \in [Runs -> SUBSET Phases]
    /\ ship \in [Runs -> [Phases -> ShipStates]]
    /\ killed \in [Runs -> BOOLEAN]

-----------------------------------------------------------------------------
(* Moving between nodes *)

Goto(r, where) == pc' = [pc EXCEPT ![r] = where]

\* The edge to the next node of the linear graph.
Advance(r) ==
    IF stage[r] = "DEPLOYING"
    THEN Goto(r, "finalize") /\ UNCHANGED stage
    ELSE Goto(r, "check") /\ stage' = [stage EXCEPT ![r] = NextStage[stage[r]]]

(* The top of a node *)

\* PAUSED is seen between two stages: pause_end, and start() returns.
StopPaused(r) ==
    /\ pc[r] = "check" /\ status = "PAUSED"
    /\ Goto(r, "ended")
    /\ UNCHANGED <<storeVars, stage, mem, files, began, layered, ship, killed>>

\* CANCELLED is looked for by _run_stage_with_guard, not by the building node.
StopCancelled(r) ==
    /\ pc[r] = "check" /\ stage[r] # "BUILDING" /\ status = "CANCELLED"
    /\ Goto(r, "failing")
    /\ UNCHANGED <<storeVars, stage, mem, files, began, layered, ship, killed>>

EnterNode(r) ==
    /\ pc[r] = "check" /\ stage[r] # "BUILDING" /\ status \notin {"PAUSED", "CANCELLED"}
    /\ Goto(r, "skip")
    /\ UNCHANGED <<storeVars, stage, mem, files, began, layered, ship, killed>>

\* What skip_fn requires before it decides (a PipelineError ends the run) ...
Guard(s) == CASE s = "PLANNING"  -> CanEnterPlanning
              [] s = "PDD"       -> CanEnterPdd
              [] s = "TDD"       -> CanEnterTdd
              [] s = "REVIEWING" -> CanEnterReviewing
              [] s = "DEPLOYING" -> CanEnterDeploying

\* ... and the artifacts that make the node a no-op on resume.
Satisfied(s) == CASE s = "PLANNING"  -> plan
                  [] s = "PDD"       -> CanEnterTdd
                  [] s = "TDD"       -> CanEnterBuilding
                  [] s = "REVIEWING" -> validation = "passed"
                  [] s = "DEPLOYING" -> FALSE

GuardFails(r) ==
    /\ pc[r] = "skip" /\ ~ Guard(stage[r])
    /\ Goto(r, "failing")
    /\ UNCHANGED <<storeVars, stage, mem, files, began, layered, ship, killed>>

SkipStage(r) ==
    /\ pc[r] = "skip" /\ Guard(stage[r]) /\ Satisfied(stage[r])
    /\ Advance(r)
    /\ UNCHANGED <<storeVars, mem, files, began, layered, ship, killed>>

EnterStage(r) ==
    /\ pc[r] = "skip" /\ Guard(stage[r]) /\ ~ Satisfied(stage[r])
    /\ Goto(r, "load")
    /\ UNCHANGED <<storeVars, stage, mem, files, began, layered, ship, killed>>

-----------------------------------------------------------------------------
(* A crew service: load, claim the row with the stage status, work, commit *)

\* A load that forgets the artifacts to review.
LoadVoyage_NoArtifacts(r) ==
    /\ pc[r] = "load"
    /\ mem' = [mem EXCEPT ![r] = status]
    /\ IF stage[r] = "REVIEWING"
       THEN began' = [began EXCEPT ![r] = Cardinality({x \in Runs : began[x] > 0}) + 1]
       ELSE UNCHANGED began
    /\ Goto(r, "claim")
    /\ UNCHANGED <<storeVars, stage, files, layered, ship, killed>>

\* run_fn loads the voyage, the first statement of the transaction the service
\* will commit; the reviewing node also loads the artifacts it will test.
LoadVoyage(r) ==
    /\ pc[r] = "load"
    /\ mem' = [mem EXCEPT ![r] = status]
    /\ IF stage[r] = "REVIEWING"
       THEN /\ files' = [files EXCEPT ![r] = artifacts]
            /\ began' = [began EXCEPT ![r] = Cardinality({x \in Runs : began[x] > 0}) + 1]
       ELSE UNCHANGED <<files, began>>
    /\ Goto(r, "claim")
    /\ UNCHANGED <<storeVars, stage, layered, ship, killed>>

\* The flush of a service that does not wait for the row.
ClaimRow_NoWait(r) ==
    /\ pc[r] = "claim"
    /\ stage[r] = "DEPLOYING" => mem[r] = "CHARTED"
    /\ rowLock' = Main(r) /\ mem' = [mem EXCEPT ![r] = stage[r]]
    /\ Goto(r, "work")
    /\ UNCHANGED <<rowVars, tableVars, stage, files, began, layered, ship, killed>>

\* voyage.status = <stage>; flush.  Only the Helmsman looks at the status.
ClaimRow(r) ==
    /\ pc[r] = "claim" /\ rowLock = Free
    /\ stage[r] = "DEPLOYING" => mem[r] = "CHARTED"
    /\ rowLock' = Main(r) /\ mem' = [mem EXCEPT ![r] = stage[r]]
    /\ Goto(r, "work")
    /\ UNCHANGED <<rowVars, tableVars, stage, files, began, layered, ship, killed>>

\* HelmsmanError before the flush: status not CHARTED, production deploy not
\* approved, git ref that does not resolve.
RefuseDeploy(r) ==
    /\ pc[r] = "claim" /\ stage[r] = "DEPLOYING"
    /\ Goto(r, "failing")
    /\ UNCHANGED <<storeVars, stage, mem, files, began, layered, ship, killed>>

\* A commit that leaves the stage status in the row.
CommitCharted_NotRestored(r) ==
    /\ rowLock = Main(r)
    /\ status' = mem[r] /\ rowLock' = Free
    /\ UNCHANGED <<mem, phaseStatus, files, began, layered, ship, killed>>

\* The commit of a service: CHARTED again, and the row released.
CommitCharted(r) ==
    /\ rowLock = Main(r)
    /\ mem' = [mem EXCEPT ![r] = "CHARTED"]
    /\ status' = "CHARTED" /\ rowLock' = Free
    /\ UNCHANGED <<phaseStatus, files, began, layered, ship, killed>>

Working(r, s) == pc[r] = "work" /\ stage[r] = s

\* CaptainService.chart_course inserts the plan.
ChartCourse(r) ==
    /\ Working(r, "PLANNING") /\ CommitCharted(r) /\ Advance(r)
    /\ plan' = TRUE
    /\ UNCHANGED <<poneglyphs, healthChecks, artifacts, validation, validationBegan,
                   validated, deployments>>

\* What the Navigator's graph may answer: poneglyphs for some of the phases, at least one and
\* none twice.  An answer that cannot be parsed is an error (ServiceFails).
NavigatorAnswers == (SUBSET Phases) \ {{}}

\* A Navigator that stores whatever phases the model answered with.
DraftPoneglyphs_Unmatched(r) ==
    /\ Working(r, "PDD") /\ CommitCharted(r) /\ Advance(r)
    /\ poneglyphs' \in NavigatorAnswers
    /\ UNCHANGED <<plan, healthChecks, artifacts, validation, validationBegan,
                   validated, deployments>>

\* NavigatorService.draft_poneglyphs replaces all rows, which it can while no health check refers
\* to them; an answer for other phases than the plan's is an error (ServiceFails).
DraftPoneglyphs(r) ==
    /\ Working(r, "PDD") /\ healthChecks = {} /\ CommitCharted(r) /\ Advance(r)
    /\ \E answer \in NavigatorAnswers : answer = Phases /\ poneglyphs' = answer
    /\ UNCHANGED <<plan, healthChecks, artifacts, validation, validationBegan,
                   validated, deployments>>

\* What the Doctor's graph may answer: at least one test file, each for some phase.
DoctorAnswers == (SUBSET Phases) \ {{}}

\* DoctorService.write_health_checks replaces all rows by the checks of the answer; an answer
\* for a phase without a poneglyph is an error (ServiceFails).
WriteHealthChecks(r) ==
    /\ Working(r, "TDD") /\ CommitCharted(r) /\ Advance(r)
    /\ \E answer \in DoctorAnswers : answer \subseteq poneglyphs /\ healthChecks' = answer
    /\ UNCHANGED <<plan, poneglyphs, artifacts, validation, validationBegan,
                   validated, deployments>>

\* The run that is recorded is the latest one unless another has a later created_at.
IsLatest(r) == began[r] > validationBegan

\* DoctorService.validate_code runs the health checks on the files loaded at
\* the start and records the run.
ValidateCode(r) ==
    /\ Working(r, "REVIEWING") /\ CommitCharted(r)
    /\ \E outcome \in {"passed", "failed"} :
         IF IsLatest(r)
         THEN /\ validation' = outcome /\ validationBegan' = began[r]
              /\ validated' = IF outcome = "passed" THEN files[r] ELSE validated
         ELSE UNCHANGED <<validation, validationBegan, validated>>
    /\ Goto(r, "verdict")
    /\ UNCHANGED <<stage, plan, poneglyphs, healthChecks, artifacts, deployments>>

\* The reviewing node reloads the latest run: anything but "passed" is
\* VALIDATION_FAILED.
Verdict(r) ==
    /\ pc[r] = "verdict"
    /\ IF validation = "passed" THEN Advance(r) ELSE Goto(r, "failing") /\ UNCHANGED stage
    /\ UNCHANGED <<storeVars, mem, files, began, layered, ship, killed>>

\* How the Helmsman's graph ends: the backend's answer, or its DeploymentError.  A failure is
\* diagnosed, which cannot change it.
DeployOutcomes == {"completed", "failed"}

\* A deploying node for which a recorded deployment is good enough.
Deploy_AnyOutcome(r) ==
    /\ Working(r, "DEPLOYING") /\ CommitCharted(r) /\ Advance(r)
    /\ \E outcome \in DeployOutcomes : deployments' = deployments \cup {outcome}
    /\ UNCHANGED <<plan, poneglyphs, healthChecks, artifacts, validation,
                   validationBegan, validated>>

\* HelmsmanService._run_deployment records the deployment; a failed one is
\* committed too and then raised.
Deploy(r) ==
    /\ Working(r, "DEPLOYING") /\ CommitCharted(r)
    /\ \E outcome \in DeployOutcomes :
         /\ deployments' = deployments \cup {outcome}
         /\ IF outcome = "completed" THEN Advance(r) ELSE Goto(r, "failing") /\ UNCHANGED stage
    /\ UNCHANGED <<plan, poneglyphs, healthChecks, artifacts, validation,
                   validationBegan, validated>>

\* The model, the sandbox or the backend raises, or its answer is refused:
\* the status is flushed back to CHARTED (a sandbox error leaves REVIEWING)
\* and the error is routed to fail_end inside the same open transaction.
ServiceFails(r) ==
    /\ pc[r] = "work"
    /\ mem' = IF stage[r] = "REVIEWING" THEN mem ELSE [mem EXCEPT ![r] = "CHARTED"]
    /\ Goto(r, "failing")
    /\ UNCHANGED <<storeVars, stage, files, began, layered, ship, killed>>

\* PostgreSQL refuses a change that would break a foreign key: the Navigator's delete of
\* poneglyphs that health checks refer to, or the Doctor's insert of checks for poneglyphs that
\* another run has replaced since they were loaded (which ones were loaded is not followed).  The
\* transaction is rolled back, and neither fail_end nor _mark_failed can use the session after
\* that: the run ends with an exception, and the voyage keeps its status.
ForeignKeyFails(r) ==
    /\ \/ Working(r, "PDD") /\ healthChecks # {}
       \/ Working(r, "TDD") /\ \E s \in Runs \ {r} : pc[s] # "idle"
    /\ rowLock = Main(r) /\ rowLock' = Free
    /\ Goto(r, "ended")
    /\ UNCHANGED <<rowVars, tableVars, stage, mem, files, began, layered, ship, killed>>

-----------------------------------------------------------------------------
(* The building node *)

EnterBuilding(r) ==
    /\ pc[r] = "check" /\ stage[r] = "BUILDING" /\ status # "PAUSED"
    /\ layered' = [layered EXCEPT ![r] = {}]
    /\ IF ~ CanEnterBuilding THEN Goto(r, "failing") /\ UNCHANGED stage
       ELSE IF CanEnterReviewing THEN Advance(r)
       ELSE Goto(r, "layer") /\ UNCHANGED stage
    /\ UNCHANGED <<storeVars, mem, files, began, ship, killed>>

\* Reload phase_status and create one shipwright task for each phase of the
\* layer that is not BUILT.
StartLayer(r) ==
    LET layer == NextLayer(layered[r])
        pending == {n \in layer : phaseStatus[n] # "BUILT"}
    IN /\ pc[r] = "layer" /\ layer # {}
       /\ ship' = [ship EXCEPT ![r] = [n \in Phases |-> IF n \in pending THEN "queued" ELSE "none"]]
       /\ Goto(r, "gather")
       /\ UNCHANGED <<storeVars, stage, mem, files, began, layered, killed>>

LastLayerBuilt(r) ==
    /\ pc[r] = "layer" /\ NextLayer(layered[r]) = {}
    /\ Advance(r)
    /\ UNCHANGED <<storeVars, mem, files, began, layered, ship, killed>>

SetShip(r, n, state) == ship' = [ship EXCEPT ![r][n] = state]

\* Past the semaphore, the shipwright loads the voyage on its own session and
\* checks that the phase may be built.
LoadPhase(r, n) ==
    /\ ship[r][n] = "queued"
    /\ Cardinality({m \in Phases : ship[r][m] \in {"loaded", "building"}}) < MaxParallel
    /\ \/ Buildable(n) /\ SetShip(r, n, "loaded")
       \/ SetShip(r, n, "raised")   \* PHASE_NOT_BUILDABLE, VITEST_NOT_SUPPORTED
    /\ UNCHANGED <<storeVars, pc, stage, mem, files, began, layered, killed>>

\* jsonb_set(phase_status, n, BUILDING): takes the row lock and keeps it until
\* the build commits.
ClaimPhase(r, n) ==
    /\ ship[r][n] = "loaded" /\ rowLock = Free
    /\ rowLock' = <<r, n>>
    /\ SetShip(r, n, "building")
    /\ UNCHANGED <<rowVars, tableVars, pc, stage, mem, files, began, layered, killed>>

\* A build that marks the phase before it stores what it built.
PhaseBuilt_NoArtifacts(r, n) ==
    /\ ship[r][n] = "building" /\ rowLock = <<r, n>>
    /\ phaseStatus' = [phaseStatus EXCEPT ![n] = "BUILT"] /\ rowLock' = Free
    /\ SetShip(r, n, "returned")
    /\ UNCHANGED <<status, tableVars, pc, stage, mem, files, began, layered, killed>>

\* The tests pass: the artifacts of the phase are replaced and BUILT commits
\* with them.
PhaseBuilt(r, n) ==
    /\ ship[r][n] = "building" /\ rowLock = <<r, n>>
    /\ phaseStatus' = [phaseStatus EXCEPT ![n] = "BUILT"] /\ rowLock' = Free
    /\ artifacts' = [artifacts EXCEPT ![n] = @ + 1]
    /\ SetShip(r, n, "returned")
    /\ UNCHANGED <<status, plan, poneglyphs, healthChecks, validation, validationBegan,
                   validated, deployments, pc, stage, mem, files, began, layered, killed>>

\* A failed build that sets FAILED and forgets to commit.
PhaseFailed_NoCommit(r, n) ==
    /\ ship[r][n] = "building" /\ rowLock = <<r, n>>
    /\ \E how \in {"returned", "raised"} : SetShip(r, n, how)
    /\ UNCHANGED <<storeVars, pc, stage, mem, files, began, layered, killed>>

\* FAILED commits.  Exhausting the iterations is a normal return; an answer
\* that never parsed, or an exception, is raised.
PhaseFailed(r, n) ==
    /\ ship[r][n] = "building" /\ rowLock = <<r, n>>
    /\ phaseStatus' = [phaseStatus EXCEPT ![n] = "FAILED"] /\ rowLock' = Free
    /\ \E how \in {"returned", "raised"} : SetShip(r, n, how)
    /\ UNCHANGED <<status, tableVars, pc, stage, mem, files, began, layered, killed>>

\* gather returned: every shipwright of the layer did.
LayerReturned(r) ==
    /\ pc[r] = "gather" /\ \A n \in Phases : ship[r][n] \in {"none", "returned"}
    /\ layered' = [layered EXCEPT ![r] = @ \cup NextLayer(@)]
    /\ ship' = [ship EXCEPT ![r] = NoShips]
    /\ Goto(r, "layer")
    /\ UNCHANGED <<storeVars, stage, mem, files, began, killed>>

\* Shipwright sessions that nobody closes.
AbandonShips_NotClosed(r) ==
    ship' = [ship EXCEPT ![r] = NoShips] /\ UNCHANGED rowLock

\* The shipwrights of r are cancelled and their sessions closed: what they
\* had flushed is rolled back.
AbandonShips(r) ==
    /\ ship' = [ship EXCEPT ![r] = NoShips]
    /\ rowLock' = IF \E n \in Phases : rowLock = <<r, n>> THEN Free ELSE rowLock

\* A gather that leaves the rest of the layer running.
LayerRaised_NoCancel(r) ==
    /\ pc[r] = "gather" /\ \E n \in Phases : ship[r][n] = "raised"
    /\ Goto(r, "failing")
    /\ UNCHANGED <<storeVars, stage, mem, files, began, layered, ship, killed>>

\* A gather that waits for all shipwrights to return.
LayerRaised_Never(r) == FALSE /\ UNCHANGED <<storeVars, runVars>>

\* gather raised: the rest of the layer is cancelled and drained.
LayerRaised(r) ==
    /\ pc[r] = "gather" /\ \E n \in Phases : ship[r][n] = "raised"
    /\ AbandonShips(r)
    /\ Goto(r, "failing")
    /\ UNCHANGED <<rowVars, tableVars, stage, mem, files, began, layered, killed>>

-----------------------------------------------------------------------------
(* The ends of a run *)

\* The row a deployment leaves in the open transaction when its backend raises.
Unfinished(r) == IF rowLock = Main(r) /\ stage[r] = "DEPLOYING" THEN {"running"} ELSE {}

\* fail_end: FAILED, whatever the status was (no UPDATE if it already is); its
\* commit is also that of what the failed service had flushed.
FailEnd(r) ==
    /\ pc[r] = "failing"
    /\ rowLock \in {Free, Main(r)} \/ status = "FAILED"
    /\ status' = "FAILED"
    /\ deployments' = deployments \cup Unfinished(r)
    /\ rowLock' = IF rowLock = Main(r) THEN Free ELSE rowLock
    /\ Goto(r, "report")
    /\ UNCHANGED <<phaseStatus, plan, poneglyphs, healthChecks, artifacts, validation,
                   validationBegan, validated, stage, mem, files, began, layered, ship, killed>>

\* finalize: COMPLETED, whatever the status was.
Finalize(r) ==
    /\ pc[r] = "finalize"
    /\ rowLock = Free \/ status = "COMPLETED"
    /\ status' = "COMPLETED"
    /\ Goto(r, "report")
    /\ UNCHANGED <<phaseStatus, rowLock, tableVars, stage, mem, files, began, layered, ship, killed>>

\* The rest of start(): PIPELINE_FAILED or PIPELINE_COMPLETED is recorded and
\* the Return Bottle sent, neither of which can change the outcome.
Report(r) ==
    /\ pc[r] = "report"
    /\ Goto(r, "ended")
    /\ UNCHANGED <<storeVars, stage, mem, files, began, layered, ship, killed>>

\* The CancelledError of task.cancel() is raised at the run's next await; no
\* `except Exception` sees it.  Shipwright sessions are closed on the way out;
\* the main session is nobody's to close.
DeliverCancel(r) ==
    /\ killed[r] /\ Alive(r)
    /\ AbandonShips(r)
    /\ killed' = [killed EXCEPT ![r] = FALSE]
    /\ Goto(r, "ended")
    /\ UNCHANGED <<rowVars, tableVars, stage, mem, files, began, layered>>

\* The main session of a cancelled run keeps its transaction, and the row,
\* until it is garbage collected.
CollectSession(r) ==
    /\ ~ Alive(r) /\ rowLock = Main(r)
    /\ rowLock' = Free
    /\ UNCHANGED <<rowVars, tableVars, runVars>>

StageStep(r) ==
    \/ StopPaused(r) \/ StopCancelled(r) \/ EnterNode(r) \/ GuardFails(r)
    \/ SkipStage(r) \/ EnterStage(r) \/ LoadVoyage(r) \/ ClaimRow(r) \/ RefuseDeploy(r)
    \/ ChartCourse(r) \/ DraftPoneglyphs(r) \/ WriteHealthChecks(r) \/ ValidateCode(r)
    \/ Verdict(r) \/ Deploy(r) \/ ServiceFails(r) \/ ForeignKeyFails(r)
    \/ FailEnd(r) \/ Finalize(r) \/ Report(r) \/ DeliverCancel(r) \/ CollectSession(r)

BuildStep(r) ==
    \/ EnterBuilding(r) \/ StartLayer(r) \/ LastLayerBuilt(r)
    \/ LayerReturned(r) \/ LayerRaised(r)

ShipStep(r, n) == LoadPhase(r, n) \/ ClaimPhase(r, n) \/ PhaseBuilt(r, n) \/ PhaseFailed(r, n)

RunStep(r) == StageStep(r) \/ BuildStep(r) \/ \E n \in Phases : ShipStep(r, n)
=============================================================================
