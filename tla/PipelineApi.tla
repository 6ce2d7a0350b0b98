----------------------------- MODULE PipelineApi -----------------------------
(***************************************************************************)
(* The control endpoints of one voyage (api/v1/pipeline.py), the methods   *)
(* of PipelineService behind them, and the in-memory registry of pipeline  *)
(* tasks (app.state.pipeline_tasks), composed with the runs they spawn.    *)
(*                                                                         *)
(* Every request loads the voyage first (get_authorized_voyage) and acts   *)
(* on that copy: what it decides and writes is based on what it saw, while *)
(* the row may have changed since.                                         *)
(***************************************************************************)
EXTENDS PipelineGraph

CONSTANTS Requests,    \* requests that may ever arrive (a bound)
          Kinds,       \* which of the endpoints they may call
          MaxRestarts  \* restarts of the process (a bound)

ASSUME ApiAssumption ==
    /\ Kinds \subseteq {"start", "resume", "pause", "cancel", "redirect"}
    /\ MaxRestarts \in Nat /\ IsFiniteSet(Requests) /\ IsFiniteSet(Runs)

VARIABLES
    registry,    \* the run registered for the voyage, or NoRun
    at,          \* where each request is
    kind,        \* the endpoint it called
    target,      \* phase_number of a redirect
    seen,        \* status of the Voyage it loaded
    seenPhases,  \* phase_status of the Voyage it loaded
    restarts

apiVars == <<registry, at, kind, target, seen, seenPhases, restarts>>
vars == <<storeVars, runVars, apiVars>>

Places == {"unborn",  \* not arrived
           "decide",  \* the endpoint runs, or its UPDATE waits for the row
           "flip",    \* resume: about to commit CHARTED
           "spawn",   \* resume: CHARTED committed, task not yet created
           "kill",    \* cancel: about to look at the registry
           "done"}    \* answered

FirstPhase == CHOOSE n \in Phases : TRUE

Init ==
    /\ StoreInit /\ RunsInit
    /\ registry = NoRun
    /\ at = [q \in Requests |-> "unborn"] /\ kind = [q \in Requests |-> "start"]
    /\ target = [q \in Requests |-> FirstPhase]
    /\ seen = [q \in Requests |-> "CHARTED"]
    /\ seenPhases = [q \in Requests |-> phaseStatus]
    /\ restarts = 0

TypeOK ==
    /\ StoreTypeOK /\ RunsTypeOK
    /\ registry \in Runs \cup {NoRun}
    /\ at \in [Requests -> Places]
    /\ kind \in [Requests -> {"start", "resume", "pause", "cancel", "redirect"}]
    /\ target \in [Requests -> Phases]
    /\ seen \in [Requests -> VoyageStatus]
    /\ seenPhases \in [Requests -> [Phases -> PhaseStatus]]
    /\ restarts \in Nat

-----------------------------------------------------------------------------
(* Helpers *)

MoveTo(q, place) == at' = [at EXCEPT ![q] = place] /\ UNCHANGED <<kind, target, seen, seenPhases>>

\* The answer; the request's own copies die with it (they are reset, so that
\* answered requests are all alike).
Answer(q) ==
    /\ at' = [at EXCEPT ![q] = "done"]
    /\ kind' = [kind EXCEPT ![q] = "start"] /\ target' = [target EXCEPT ![q] = FirstPhase]
    /\ seen' = [seen EXCEPT ![q] = "CHARTED"]
    /\ seenPhases' = [seenPhases EXCEPT ![q] = [n \in Phases |-> "absent"]]
AtEndpoint(q, k) == at[q] = "decide" /\ kind[q] = k

\* _already_running
AlreadyRunning == registry # NoRun /\ Alive(registry)

\* Requests that may still spawn a run, and the runs left for them.
Spawners == {q \in Requests : at[q] \notin {"unborn", "done"} /\ kind[q] \in {"start", "resume"}}
IdleRuns == {r \in Runs : pc[r] = "idle"}

\* _spawn_pipeline_task: create the task and overwrite the registry entry.
\* start() first applies the planning guard to the request's own copy.
Spawn(q, copy) ==
    \E r \in IdleRuns :
        /\ registry' = r
        /\ Goto(r, IF copy \in PlannableStatuses THEN "check" ELSE "report")
        /\ UNCHANGED <<storeVars, stage, mem, files, began, layered, ship, killed>>
        /\ Answer(q) /\ UNCHANGED restarts

Refuse(q) == Answer(q) /\ UNCHANGED <<storeVars, runVars, registry, restarts>>

\* The commit of a request that changes the voyages row: it waits for the row.
CommitStatus(new) ==
    /\ rowLock = Free
    /\ status' = new
    /\ UNCHANGED <<phaseStatus, rowLock, tableVars, runVars>>

-----------------------------------------------------------------------------
(* Requests *)

\* The request arrives and get_authorized_voyage loads the voyage.
Arrive(q) ==
    /\ at[q] = "unborn"
    /\ \E k \in Kinds, n \in Phases :
         /\ k \in {"start", "resume"} => Cardinality(IdleRuns) > Cardinality(Spawners)
         /\ k # "redirect" => n = target[q]
         /\ kind' = [kind EXCEPT ![q] = k] /\ target' = [target EXCEPT ![q] = n]
    /\ seen' = [seen EXCEPT ![q] = status]
    /\ seenPhases' = [seenPhases EXCEPT ![q] = phaseStatus]
    /\ at' = [at EXCEPT ![q] = "decide"]
    /\ UNCHANGED <<storeVars, runVars, registry, restarts>>

\* POST /start, which has no await between its checks and the spawn.
StartVoyage(q) ==
    /\ AtEndpoint(q, "start")
    /\ IF AlreadyRunning \/ seen[q] \in {"COMPLETED", "PAUSED"}
       THEN Refuse(q)
       ELSE Spawn(q, seen[q])

\* POST /resume up to its first await: CHARTED spawns at once, PAUSED and
\* FAILED are flipped first, everything else is a 409.
ResumeVoyage(q) ==
    /\ AtEndpoint(q, "resume")
    /\ IF AlreadyRunning \/ seen[q] \notin ResumableStatuses \cup {"CHARTED"} THEN Refuse(q)
       ELSE IF seen[q] = "CHARTED" THEN Spawn(q, "CHARTED")
       ELSE /\ MoveTo(q, "flip")
            /\ UNCHANGED <<storeVars, runVars, registry, restarts>>

ResumeFlip(q) ==
    /\ at[q] = "flip"
    /\ CommitStatus("CHARTED")
    /\ MoveTo(q, "spawn")
    /\ UNCHANGED <<registry, restarts>>

ResumeSpawn(q) == at[q] = "spawn" /\ Spawn(q, "CHARTED")

\* A pause that writes the name of the endpoint instead of the enum's value.
PauseVoyage_Misspelt(q) ==
    /\ AtEndpoint(q, "pause")
    /\ IF seen[q] \in TerminalStatuses \cup {"PAUSED"} THEN Refuse(q)
       ELSE /\ CommitStatus("pause") /\ Answer(q)
            /\ UNCHANGED <<registry, restarts>>

\* pause: no-op on the terminal statuses; no UPDATE if the copy is PAUSED.
PauseVoyage(q) ==
    /\ AtEndpoint(q, "pause")
    /\ IF seen[q] \in TerminalStatuses \cup {"PAUSED"} THEN Refuse(q)
       ELSE /\ CommitStatus("PAUSED") /\ Answer(q)
            /\ UNCHANGED <<registry, restarts>>

\* cancel: the status commits first, the task is cancelled afterwards, also
\* when the copy was terminal.
CancelVoyage(q) ==
    /\ AtEndpoint(q, "cancel")
    /\ IF seen[q] \in TerminalStatuses
       THEN UNCHANGED <<storeVars, runVars>>
       ELSE CommitStatus("CANCELLED")
    /\ MoveTo(q, "kill")
    /\ UNCHANGED <<registry, restarts>>

CancelTask(q) ==
    /\ at[q] = "kill"
    /\ killed' = IF AlreadyRunning THEN [killed EXCEPT ![registry] = TRUE] ELSE killed
    /\ Answer(q)
    /\ UNCHANGED <<storeVars, pc, stage, mem, files, began, layered, ship,
                   registry, restarts>>

\* A redirect that marks the phase done rather than to be built again.
RedirectPhase_Built(q) ==
    /\ AtEndpoint(q, "redirect")
    /\ IF seen[q] \in TerminalStatuses THEN Refuse(q)
       ELSE /\ rowLock = Free
            /\ phaseStatus' = [seenPhases[q] EXCEPT ![target[q]] = "BUILT"]
            /\ Answer(q)
            /\ UNCHANGED <<status, rowLock, tableVars, runVars, registry, restarts>>

\* redirect writes the whole phase_status dict of its copy, with the target
\* set to PENDING; an equal dict is not a change and issues no UPDATE.
RedirectPhase(q) ==
    /\ AtEndpoint(q, "redirect")
    /\ IF seen[q] \in TerminalStatuses \/ seenPhases[q][target[q]] = "PENDING" THEN Refuse(q)
       ELSE /\ rowLock = Free
            /\ phaseStatus' = [seenPhases[q] EXCEPT ![target[q]] = "PENDING"]
            /\ Answer(q)
            /\ UNCHANGED <<status, rowLock, tableVars, runVars, registry, restarts>>

RequestStep(q) ==
    \/ StartVoyage(q) \/ ResumeVoyage(q) \/ ResumeFlip(q) \/ ResumeSpawn(q)
    \/ PauseVoyage(q) \/ CancelVoyage(q) \/ CancelTask(q) \/ RedirectPhase(q)

-----------------------------------------------------------------------------
(* The registry and the process *)

\* What is left of a run that is over: its locals die with the task.
Bury(S) ==
    /\ pc' = [r \in Runs |-> IF r \in S THEN "gone" ELSE pc[r]]
    /\ stage' = [r \in Runs |-> IF r \in S THEN "PLANNING" ELSE stage[r]]
    /\ mem' = [r \in Runs |-> IF r \in S THEN "CHARTED" ELSE mem[r]]
    /\ files' = [r \in Runs |-> IF r \in S THEN [n \in Phases |-> 0] ELSE files[r]]
    /\ layered' = [r \in Runs |-> IF r \in S THEN {} ELSE layered[r]]
    /\ ship' = [r \in Runs |-> IF r \in S THEN NoShips ELSE ship[r]]
    /\ killed' = [r \in Runs |-> IF r \in S THEN FALSE ELSE killed[r]]
    /\ UNCHANGED began

\* A done-callback that forgets the registry.
Cleanup_Nothing(r) ==
    /\ pc[r] = "ended" /\ Bury({r})
    /\ UNCHANGED <<storeVars, apiVars>>

\* The done-callback of a task pops the voyage's entry, whoever's it is.
Cleanup(r) ==
    /\ pc[r] = "ended" /\ Bury({r})
    /\ registry' = NoRun
    /\ UNCHANGED <<storeVars, at, kind, target, seen, seenPhases, restarts>>

\* The process stops (shutdown or crash) and comes back: tasks, requests and
\* registry are gone, open transactions are rolled back, the rows remain.
Restart ==
    /\ restarts < MaxRestarts
    /\ restarts' = restarts + 1
    /\ Bury({r \in Runs : pc[r] # "idle"})
    /\ registry' = NoRun /\ rowLock' = Free
    /\ at' = [q \in Requests |-> IF at[q] = "unborn" THEN "unborn" ELSE "done"]
    /\ kind' = [q \in Requests |-> "start"] /\ target' = [q \in Requests |-> FirstPhase]
    /\ seen' = [q \in Requests |-> "CHARTED"]
    /\ seenPhases' = [q \in Requests |-> [n \in Phases |-> "absent"]]
    /\ UNCHANGED <<rowVars, tableVars>>

TaskStep(r) == RunStep(r) /\ UNCHANGED apiVars

Next ==
    \/ \E r \in Runs : TaskStep(r) \/ Cleanup(r)
    \/ \E q \in Requests : Arrive(q) \/ RequestStep(q)
    \/ Restart

Spec == Init /\ [][Next]_vars

\* Every task and every request keeps going: the event loop schedules what can
\* run, models and sandboxes answer or time out, and PostgreSQL grants the row
\* lock to a waiter.  Nothing obliges a user to send a request.
Fairness == /\ \A r \in Runs : WF_vars(TaskStep(r)) /\ WF_vars(Cleanup(r))
            /\ \A q \in Requests : WF_vars(RequestStep(q))

FairSpec == Spec /\ Fairness

-----------------------------------------------------------------------------
(* Safety *)

\* Two sessions never work on a voyage at the same time, even when two runs of
\* its pipeline are alive: a stage service or a shipwright at work holds the
\* row, and a held row has such a holder, or a run that was cancelled while it
\* held it and whose session is not collected yet.
RowHasOneWriter ==
    /\ \A r \in Runs : pc[r] = "work" => rowLock = Main(r)
    /\ \A r \in Runs, n \in Phases : ship[r][n] = "building" => rowLock = <<r, n>>
    /\ \A r \in Runs : rowLock = Main(r) => pc[r] \in {"work", "failing", "ended", "gone"}
    /\ \A r \in Runs, n \in Phases : rowLock = <<r, n>> => ship[r][n] = "building"

\* A phase that phase_status calls BUILT has artifacts, although redirects
\* write back whole dicts they read earlier and builds commit in between.
BuiltHasArtifact == \A n \in Phases : phaseStatus[n] = "BUILT" => artifacts[n] > 0

\* The same of the copies a redirect may still write back.
CopiesHaveArtifact ==
    \A q \in Requests, n \in Phases : seenPhases[q][n] = "BUILT" => artifacts[n] > 0

\* A stage in progress is never the committed status: whatever fails, is
\* cancelled or crashes, the voyage is left where /start or /resume take it up
\* or in a terminal status (captain_service.py:99, "so the voyage isn't stuck
\* in PLANNING").
NoStrandedStage == status \in SettledStatuses

\* A COMPLETED voyage went through everything: a plan, a poneglyph for every
\* phase, and a deployment that completed, in whatever order its runs were
\* paused, resumed, restarted or overlapped.
CompletedMeansDeployed ==
    status = "COMPLETED" => plan /\ poneglyphs = Phases /\ "completed" \in deployments

\* Nothing is deployed before some validation passed over code for every phase.
DeployedMeansValidated ==
    deployments # {} => \A n \in Phases : 0 < validated[n] /\ validated[n] <= artifacts[n]

\* Within a run, no shipwright works on a phase before those of the phases it
\* depends on have all been waited for.
LayerBarrier ==
    \A r \in Runs, n \in Phases : ship[r][n] # "none" =>
        pc[r] = "gather" /\ DependsOn[n] \subseteq layered[r]

\* A run leaves no trace in the registry once its done-callback has run, and
\* the registry names no run that was never spawned.
RegistryEntryIsLive == registry # NoRun => pc[registry] \notin {"idle", "gone"}

\* No step loses finished work: the plan, the poneglyphs (which the Navigator
\* deletes and inserts again) and the code of a phase only ever grow.
WorkIsKept ==
    [][/\ plan => plan'
       /\ poneglyphs \subseteq poneglyphs'
       /\ \A n \in Phases : artifacts[n] <= artifacts'[n]]_vars

\* Overlapping runs, requests that act on what they saw earlier, failures and restarts make no
\* difference to the documents: they come in the order of VoyageLife, each resting on those
\* before it, and COMPLETED last.
Life == INSTANCE VoyageLife WITH completed <- (status = "COMPLETED")
FollowsLife == Life!Spec

-----------------------------------------------------------------------------
(* Liveness *)

\* Every request is answered: no UPDATE waits for ever for the row.
RequestsAreAnswered == \A q \in Requests : at[q] # "unborn" ~> at[q] = "done"

\* Every run ends, on every error path of every stage.
RunsEnd == \A r \in Runs : Alive(r) ~> ~ Alive(r)

\* The row is released by whoever took it.
RowIsReleased == rowLock # Free ~> rowLock = Free

=============================================================================
