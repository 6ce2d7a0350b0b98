------------------------------ MODULE VoyageLife ------------------------------
(***************************************************************************)
(* The life of one voyage as its documents tell it, one after the other: a *)
(* plan, a poneglyph for every phase, health checks, code, a validation of *)
(* code for every phase, a deployment, and only then COMPLETED.  Who does  *)
(* it, how often, and what the status is meanwhile is left open: a stage   *)
(* may be done again at any time, but never ahead of those before it, and  *)
(* no document is lost.                                                    *)
(***************************************************************************)
EXTENDS Naturals

CONSTANT Phases   \* phase numbers of the plan

VARIABLES plan,          \* there is a plan
          poneglyphs,    \* phases with a poneglyph
          healthChecks,  \* phases with a health check
          artifacts,     \* the version of the code of each phase, 0 before the first
          validation,    \* outcome of the latest validation
          validated,     \* the versions that passed the latest one that did
          deployments,   \* the outcomes of the deployments
          completed      \* the voyage is COMPLETED

documents == <<plan, poneglyphs, healthChecks, artifacts, validation, validated, deployments>>
lifeVars == <<documents, completed>>

Init ==
    /\ plan = FALSE /\ poneglyphs = {} /\ healthChecks = {}
    /\ artifacts = [n \in Phases |-> 0]
    /\ validation = "none" /\ validated = [n \in Phases |-> 0]
    /\ deployments = {} /\ completed = FALSE

Drafted == plan /\ poneglyphs = Phases

\* The code that was validated: some version of every phase, now or earlier.
Covers(versions) == \A n \in Phases : 0 < versions[n] /\ versions[n] <= artifacts[n]

Chart ==
    /\ plan' = TRUE
    /\ UNCHANGED <<poneglyphs, healthChecks, artifacts, validation, validated, deployments>>

Draft ==
    /\ plan /\ poneglyphs' = Phases
    /\ UNCHANGED <<plan, healthChecks, artifacts, validation, validated, deployments>>

\* Checks of some phases replace those there were.
WriteChecks ==
    /\ Drafted
    /\ healthChecks' \in (SUBSET Phases) \ {{}}
    /\ UNCHANGED <<plan, poneglyphs, artifacts, validation, validated, deployments>>

Build(n) ==
    /\ Drafted /\ healthChecks # {}
    /\ artifacts' = [artifacts EXCEPT ![n] = @ + 1]
    /\ UNCHANGED <<plan, poneglyphs, healthChecks, validation, validated, deployments>>

\* Only code for every phase is validated, and what passes may have been replaced meanwhile.
Validate ==
    /\ \A n \in Phases : artifacts[n] > 0
    /\ \/ validation' = "failed" /\ UNCHANGED validated
       \/ validation' = "passed" /\ validated' \in [Phases -> Nat] /\ Covers(validated')
    /\ UNCHANGED <<plan, poneglyphs, healthChecks, artifacts, deployments>>

Deploy ==
    /\ Covers(validated)
    /\ \E outcome \in {"running", "completed", "failed"} :
         deployments' = deployments \cup {outcome}
    /\ UNCHANGED <<plan, poneglyphs, healthChecks, artifacts, validation, validated>>

Work == Chart \/ Draft \/ WriteChecks \/ (\E n \in Phases : Build(n)) \/ Validate \/ Deploy

Complete ==
    /\ Drafted /\ "completed" \in deployments
    /\ completed' = TRUE
    /\ UNCHANGED documents

\* A voyage that is COMPLETED may be taken up again, as it is or with new work.
Next ==
    \/ Work /\ completed' \in {completed, FALSE}
    \/ Complete
    \/ completed' = FALSE /\ UNCHANGED documents

Spec == Init /\ [][Next]_lifeVars
=============================================================================
