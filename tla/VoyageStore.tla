----------------------------- MODULE VoyageStore -----------------------------
(***************************************************************************)
(* What PostgreSQL holds of one voyage, and the guards the pipeline        *)
(* evaluates over it (services/pipeline_guards.py).                        *)
(*                                                                         *)
(* A variable is the COMMITTED value: a session that has flushed an UPDATE *)
(* of the voyages row and not yet committed holds the row lock, and what   *)
(* it wrote becomes visible in the step that releases the lock (READ       *)
(* COMMITTED).  An UPDATE of the row by any other session waits for the    *)
(* lock and then applies on top of what was committed.                     *)
(*                                                                         *)
(* The crew's documents are abstracted to what the guards read: that a     *)
(* plan exists, which phases have a poneglyph, a health check, a build.    *)
(* Every plan the Captain charts has the same phases (Phases, DependsOn).  *)
(***************************************************************************)
EXTENDS Naturals, FiniteSets

CONSTANTS Phases,     \* phase numbers of the plan
          DependsOn,  \* depends_on of each phase
          Runs,       \* pipeline tasks that may ever be spawned (a bound)
          NoRun       \* the absence of a run

\* VoyagePlanSpec refuses duplicate numbers, dangling and circular
\* dependencies (schemas/captain.py:26-70).  Number 0 is not a phase: it
\* names a run's main session.
ASSUME PlanAssumption ==
    /\ Phases \subseteq Nat \ {0} /\ IsFiniteSet(Phases) /\ Phases # {}
    /\ DependsOn \in [Phases -> SUBSET Phases]
    /\ \A S \in SUBSET Phases : S # {} => \E n \in S : DependsOn[n] \cap S = {}

ASSUME RunsAssumption == NoRun \notin Runs

VARIABLES
    status,         \* voyages.status
    phaseStatus,    \* voyages.phase_status; "absent" when the key is missing
    rowLock,        \* session that holds the row lock of the voyages row
    plan,           \* a voyage_plans row exists
    poneglyphs,     \* phases with a poneglyphs row
    healthChecks,   \* phases with a health_checks row
    artifacts,      \* build_artifacts of each phase: 0, or a version of the code
    validation,     \* status of the latest validation_runs row
    validationBegan,\* when the transaction that wrote that row began: rows are
                    \* ordered by created_at, a server default of now()
    validated,      \* the code versions the latest passed row was obtained on
    deployments     \* statuses found among the deployments rows

rowVars   == <<status, phaseStatus>>
tableVars == <<plan, poneglyphs, healthChecks, artifacts, validation,
               validationBegan, validated, deployments>>
storeVars == <<rowVars, rowLock, tableVars>>

SettledStatuses == {"CHARTED", "PAUSED", "FAILED", "CANCELLED", "COMPLETED"}
StageStatuses   == {"PLANNING", "PDD", "TDD", "REVIEWING", "DEPLOYING"}
VoyageStatus    == SettledStatuses \cup StageStatuses \cup {"BUILDING"}
PhaseStatus     == {"absent", "PENDING", "BUILT", "FAILED"}

TerminalStatuses     == {"COMPLETED", "FAILED", "CANCELLED"}
PlannableStatuses    == {"CHARTED", "PAUSED", "FAILED"}
ResumableStatuses    == {"PAUSED", "FAILED"}

\* A session: the main one of a run (phase 0) or that of one shipwright.
Sessions == (Runs \cup {NoRun}) \X (Phases \cup {0})
Main(r) == <<r, 0>>
Free == Main(NoRun)

StoreInit ==
    /\ status = "CHARTED" /\ phaseStatus = [n \in Phases |-> "absent"]
    /\ rowLock = Free
    /\ plan = FALSE /\ poneglyphs = {} /\ healthChecks = {}
    /\ artifacts = [n \in Phases |-> 0]
    /\ validation = "none" /\ validationBegan = 0 /\ validated = [n \in Phases |-> 0]
    /\ deployments = {}

StoreTypeOK ==
    /\ status \in VoyageStatus /\ phaseStatus \in [Phases -> PhaseStatus]
    /\ rowLock \in Sessions
    /\ plan \in BOOLEAN /\ poneglyphs \subseteq Phases /\ healthChecks \subseteq Phases
    /\ artifacts \in [Phases -> Nat]
    /\ validation \in {"none", "failed", "passed"} /\ validationBegan \in Nat
    /\ validated \in [Phases -> Nat]
    /\ deployments \subseteq {"running", "completed", "failed"}

-----------------------------------------------------------------------------
(* The guards.  Each one reads the committed rows of its step. *)

CanEnterPlanning == status \in PlannableStatuses
CanEnterPdd      == plan
CanEnterTdd      == plan /\ Phases \subseteq poneglyphs
\* A guard that asks for the plan alone.
CanEnterBuilding_NoChecks == plan
CanEnterBuilding == plan /\ Phases \subseteq healthChecks

CanEnterReviewing == \A n \in Phases : phaseStatus[n] = "BUILT" /\ artifacts[n] > 0

CanEnterDeploying == validation = "passed"

(* topological_layers: the layer that follows the phases already layered.  *)
NextLayer(done) == {n \in Phases \ done : DependsOn[n] \subseteq done}

(* _PHASE_BUILDABLE; a missing key counts as PENDING. *)
Buildable(n) == phaseStatus[n] \in {"absent", "PENDING", "FAILED"}
=============================================================================
