--------------------------- MODULE Interventions ---------------------------
(* The builds of one voyage's phases and the interventions of its user:     *)
(* ShipwrightService.build_code with its at most SHIPWRIGHT_MAX_ITERATIONS  *)
(* iterations, drain_pending_interventions, and PipelineService.inject and  *)
(* redirect.                                                                *)
(*                                                                          *)
(* Every build and every request has a database session of its own at       *)
(* READ COMMITTED.  A build claims its phase with an UPDATE of the voyage's *)
(* row and commits once, at its end: it holds the row's lock all that time, *)
(* and what it writes is seen, or lost, as a whole.  The marks of           *)
(* interventions are part of it.                                            *)
EXTENDS Naturals, FiniteSets, Sequences

CONSTANTS Phases, Builds, Users, SHIPWRIGHT_MAX_ITERATIONS,
          NoOne, Everywhere,  \* nobody holds the row; an injection without a phase
          MaxBuilds, MaxLog   \* bounds: builds begun, interventions recorded

ASSUME NamesAssumption == NoOne \notin Builds /\ Everywhere \notin Phases
ASSUME BoundsAssumption == /\ SHIPWRIGHT_MAX_ITERATIONS \in Nat \ {0}
                           /\ MaxBuilds \in Nat /\ MaxLog \in Nat

VARIABLES
  phase,      \* committed voyage.phase_status; "ABSENT" has no key
  open,       \* the voyage's status is not terminal
  log,        \* committed crew actions of the two types, in order of commit
  owner,      \* the build that holds the lock of the voyage's row
  build,      \* what each build session knows
  request,    \* what each user request knows
  attempts,   \* committed builds, in order: run rows, and exceptions committed
  artifacts,  \* the attempts the committed build_artifacts rows come from
  begun       \* builds begun, for the bound

vars == <<phase, open, log, owner, build, request, attempts, artifacts, begun>>

Buildable == {"ABSENT", "PENDING", "FAILED"}

NoBuild == [pc |-> "idle"]

NoRequest == [pc |-> "idle"]

PhaseStatus == Buildable \cup {"BUILT"}
Outcomes == {"none", "passed", "max_iterations", "failed", "internal"}

(* What a session under way knows. *)
BuildState == [pc : {"claim", "drain", "work", "commit"}, phase : Phases,
               iteration : 1..SHIPWRIGHT_MAX_ITERATIONS, heard : SUBSET Nat, until : Nat,
               outcome : Outcomes]
RequestState == [pc : {"inject"}, target : Phases \cup {Everywhere},
                 copy : [Phases -> PhaseStatus]]
                \cup [pc : {"redirect"}, target : Phases, copy : [Phases -> PhaseStatus]]
Intervention == [kind : {"inject", "redirect"}, target : Phases \cup {Everywhere},
                 applied : SUBSET Phases]
Attempt == [phase : Phases, outcome : Outcomes, heard : SUBSET Nat, until : Nat]

TypeOK ==
  /\ phase \in [Phases -> PhaseStatus]
  /\ open \in BOOLEAN
  /\ log \in Seq(Intervention)
  /\ owner \in Builds \cup {NoOne}
  /\ build \in [Builds -> {NoBuild} \cup BuildState]
  /\ request \in [Users -> {NoRequest} \cup RequestState]
  /\ attempts \in Seq(Attempt)
  /\ artifacts \in [Phases -> SUBSET Nat]
  /\ begun \in 0..MaxBuilds

(* Whether the intervention is for a build of phase p. *)
Targets(i, p) == log[i].target \in {p, Everywhere}

Init ==
  /\ phase = [p \in Phases |-> "ABSENT"]
  /\ open = TRUE
  /\ log = << >>
  /\ owner = NoOne
  /\ build = [b \in Builds |-> NoBuild]
  /\ request = [u \in Users |-> NoRequest]
  /\ attempts = << >>
  /\ artifacts = [p \in Phases |-> {}]
  /\ begun = 0

(***************************************************************************)
(* A build, called by the pipeline or by POST phases/<n>/build.            *)
(***************************************************************************)

(* The gate reads the copy of the voyage the session has loaded. *)
Begin(b, p) ==
  /\ build[b].pc = "idle"
  /\ begun < MaxBuilds
  /\ phase[p] \in Buildable
  /\ begun' = begun + 1
  /\ build' = [build EXCEPT ![b] = [pc |-> "claim", phase |-> p, iteration |-> 1,
                                    heard |-> {}, until |-> 0, outcome |-> "none"]]
  /\ UNCHANGED <<phase, open, log, owner, request, attempts, artifacts>>

(* _set_phase_status(BUILDING): its UPDATE waits for the row. *)
Claim(b) ==
  /\ build[b].pc = "claim"
  /\ owner = NoOne
  /\ owner' = b
  /\ build' = [build EXCEPT ![b].pc = "drain"]
  /\ UNCHANGED <<phase, open, log, request, attempts, artifacts, begun>>

(* Mutation: an intervention is taken as applied once any phase has it. *)
Pending_AnyPhase(b) ==
  {i \in DOMAIN log : Targets(i, build[b].phase) /\ log[i].applied = {}} \ build[b].heard

(* The interventions a drain consumes: for this phase, not marked by it. *)
Pending(b) ==
  {i \in DOMAIN log : /\ Targets(i, build[b].phase)
                      /\ build[b].phase \notin log[i].applied} \ build[b].heard

(* Mutation: the drain commits its marks instead of flushing them. *)
Drain_Commits(b) ==
  /\ build[b].pc = "drain"
  /\ build' = [build EXCEPT ![b].pc = "work", ![b].until = Len(log),
                            ![b].heard = @ \cup Pending(b)]
  /\ log' = [i \in DOMAIN log |-> IF i \in Pending(b)
                                   THEN [log[i] EXCEPT !.applied = @ \cup {build[b].phase}]
                                   ELSE log[i]]
  /\ UNCHANGED <<phase, open, owner, request, attempts, artifacts, begun>>

(* The next model call sees what is drained; the marks stay in the session. *)
Drain(b) ==
  /\ build[b].pc = "drain"
  /\ build' = [build EXCEPT ![b].pc = "work", ![b].until = Len(log),
                            ![b].heard = @ \cup Pending(b)]
  /\ UNCHANGED <<phase, open, log, owner, request, attempts, artifacts, begun>>

(* One generate and run_tests: tests pass, tests fail, or no JSON came. *)
Iterate(b) ==
  /\ build[b].pc = "work"
  /\ \E result \in {"passed", "max_iterations", "failed"} :
       IF result = "passed" \/ build[b].iteration = SHIPWRIGHT_MAX_ITERATIONS
       THEN build' = [build EXCEPT ![b].pc = "commit", ![b].outcome = result]
       ELSE build' = [build EXCEPT ![b].pc = "drain", ![b].iteration = @ + 1]
  /\ UNCHANGED <<phase, open, log, owner, request, attempts, artifacts, begun>>

(* Mutation: the rows of the earlier run are not deleted. *)
Replaced_Kept(p, n) == artifacts[p] \cup {n}

(* The rows of the phase are deleted and those of this run inserted. *)
Replaced(p, n) == {n}

(* The commit that ends a build publishes status, marks, run and files. *)
EndWith(b, outcome) ==
  LET p == build[b].phase IN
  /\ owner' = NoOne
  /\ phase' = [phase EXCEPT ![p] = IF outcome = "passed" THEN "BUILT" ELSE "FAILED"]
  /\ log' = [i \in DOMAIN log |-> IF i \in build[b].heard
                                   THEN [log[i] EXCEPT !.applied = @ \cup {p}]
                                   ELSE log[i]]
  /\ attempts' = Append(attempts, [phase |-> p, outcome |-> outcome,
                                   heard |-> build[b].heard, until |-> build[b].until])
  /\ artifacts' = IF outcome = "passed"
                  THEN [artifacts EXCEPT ![p] = Replaced(p, Len(attempts) + 1)]
                  ELSE artifacts
  /\ build' = [build EXCEPT ![b] = NoBuild]
  /\ UNCHANGED <<open, request, begun>>

Commit(b) == build[b].pc = "commit" /\ EndWith(b, build[b].outcome)

(* An exception of an iteration is committed as FAILED, with the marks. *)
Raise(b) == build[b].pc \in {"drain", "work"} /\ EndWith(b, "internal")

(* A cancelled task, a database error or a crash rolls the session back. *)
Rollback(b) ==
  /\ build[b].pc # "idle"
  /\ owner' = IF owner = b THEN NoOne ELSE owner
  /\ build' = [build EXCEPT ![b] = NoBuild]
  /\ UNCHANGED <<phase, open, log, request, attempts, artifacts, begun>>

(***************************************************************************)
(* The user's requests                                                     *)
(***************************************************************************)

(* The request loads the voyage; a terminal one is refused. *)
Ask(u, kind, target) ==
  /\ request[u].pc = "idle"
  /\ open
  /\ Len(log) + Cardinality({v \in Users : request[v].pc # "idle"}) < MaxLog
  /\ request' = [request EXCEPT ![u] = [pc |-> kind, target |-> target, copy |-> phase]]
  /\ UNCHANGED <<phase, open, log, owner, build, attempts, artifacts, begun>>

Record(u) ==
  /\ log' = Append(log, [kind |-> request[u].pc, target |-> request[u].target, applied |-> {}])
  /\ request' = [request EXCEPT ![u] = NoRequest]
  /\ UNCHANGED <<open, owner, build, attempts, artifacts, begun>>

(* inject inserts one row: it waits for no build. *)
Inject(u) ==
  /\ request[u].pc = "inject"
  /\ Record(u)
  /\ UNCHANGED phase

(* redirect writes the whole phase_status of its copy, once the row is      *)
(* free.  A copy which already says PENDING is unchanged: no UPDATE is sent *)
(* and the row's lock is not needed.                                        *)
Redirect(u) ==
  /\ request[u].pc = "redirect"
  /\ Record(u)
  /\ IF request[u].copy[request[u].target] = "PENDING"
     THEN UNCHANGED phase
     ELSE /\ owner = NoOne
          /\ phase' = [request[u].copy EXCEPT ![request[u].target] = "PENDING"]

(* A cancel or the end of the pipeline makes the voyage terminal. *)
Settle ==
  /\ open
  /\ owner = NoOne
  /\ open' = FALSE
  /\ UNCHANGED <<phase, log, owner, build, request, attempts, artifacts, begun>>

Next ==
  \/ \E b \in Builds :
       \/ \E p \in Phases : Begin(b, p)
       \/ Claim(b)
       \/ Drain(b)
       \/ Iterate(b)
       \/ Commit(b)
       \/ Raise(b)
       \/ Rollback(b)
  \/ \E u \in Users :
       \/ \E p \in Phases \cup {Everywhere} : Ask(u, "inject", p)
       \/ \E p \in Phases : Ask(u, "redirect", p)
       \/ Inject(u)
       \/ Redirect(u)
  \/ Settle

Spec == Init /\ [][Next]_vars

(***************************************************************************)
(* Properties                                                              *)
(***************************************************************************)

(* The committed attempts of phase p that worked with intervention i. *)
HeardBy(i, p) == {n \in DOMAIN attempts : attempts[n].phase = p /\ i \in attempts[n].heard}

(* An intervention is marked as applied to a phase exactly when one         *)
(* committed build of that phase worked with it: a build that was cancelled *)
(* leaves no mark (its successor hears the user again), and two builds of a *)
(* phase that both passed the gate do not both apply it (the marks of       *)
(* drain_pending_interventions and the one commit of build_code).           *)
AppliedOnce ==
  \A i \in DOMAIN log, p \in Phases :
    Cardinality(HeardBy(i, p)) = IF p \in log[i].applied THEN 1 ELSE 0

(* What the user asked before the last drain of a committed build reached   *)
(* it or an earlier one of its phase; an injection without a phase reaches  *)
(* the builds of every phase (drain_pending_interventions).                 *)
NothingSkipped ==
  \A n \in DOMAIN attempts : \A i \in 1..attempts[n].until :
    Targets(i, attempts[n].phase) =>
      \E m \in 1..n : attempts[m].phase = attempts[n].phase /\ i \in attempts[m].heard

(* The numbers of the attempts of phase p whose tests passed. *)
PassedRuns(p) == {n \in DOMAIN attempts : attempts[n].phase = p /\ attempts[n].outcome = "passed"}

(* The files of a phase are those of its last run that passed, all of them  *)
(* and no other, and a phase that says BUILT has some: also after a failed  *)
(* rebuild, after two concurrent builds, and after a redirect wrote an old  *)
(* copy of phase_status over the row (build_code's replacement of rows).    *)
FilesAreOfLastPass ==
  \A p \in Phases :
    /\ artifacts[p] = {n \in PassedRuns(p) : \A m \in PassedRuns(p) : m <= n}
    /\ phase[p] = "BUILT" => artifacts[p] # {}
=============================================================================
