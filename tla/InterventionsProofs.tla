------------------------ MODULE InterventionsProofs ------------------------
(***************************************************************************)
(* Proofs about Interventions, for any phases, builds, requests, and any   *)
(* number of iterations, builds begun and interventions recorded.          *)
(***************************************************************************)
EXTENDS Interventions, FiniteSetTheorems, SequenceTheorems, TLAPS

\* The builds that have claimed their phase and not yet ended.
InWork(b) == build[b].pc \in {"drain", "work", "commit"}

\* They hold the row, one at a time.
LockInv == \A b \in Builds : InWork(b) => owner = b

\* What a build knows: it heard only what its phase has not marked yet, and whatever its drains
\* reached and it did not hear is marked.
BuildInv(b) ==
    /\ build[b].heard \subseteq DOMAIN log
    /\ build[b].until <= Len(log)
    /\ \A i \in build[b].heard : build[b].phase \notin log[i].applied
    /\ build[b].pc = "claim" => build[b].heard = {} /\ build[b].until = 0
    /\ \A i \in 1..build[b].until :
         Targets(i, build[b].phase) =>
             i \in build[b].heard \/ build[b].phase \in log[i].applied

BuildsInv == \A b \in Builds : build[b].pc # "idle" => BuildInv(b)

\* The attempts speak of what is in the log.
HistoryInv ==
    \A n \in DOMAIN attempts :
        attempts[n].heard \subseteq DOMAIN log /\ attempts[n].until <= Len(log)

\* AppliedOnce without counting: the marks are the phases that heard, and one attempt each.
MarkedOnce ==
    \A i \in DOMAIN log, p \in Phases :
        IF p \in log[i].applied THEN \E n \in DOMAIN attempts : HeardBy(i, p) = {n}
                                ELSE HeardBy(i, p) = {}

\* The phases a request read as BUILT have files, which are replaced but never only deleted.
CopiesInv ==
    \A u \in Users : request[u].pc # "idle" =>
        \A p \in Phases : request[u].copy[p] = "BUILT" => artifacts[p] # {}

IInv ==
    /\ TypeOK /\ LockInv /\ BuildsInv /\ HistoryInv /\ MarkedOnce /\ NothingSkipped
    /\ FilesAreOfLastPass /\ CopiesInv

-----------------------------------------------------------------------------
(* The start, and steps of a build before its commit *)

\* A session under way has all the fields of its kind.
LEMMA UnderWay ==
    ASSUME TypeOK
    PROVE  /\ \A b \in Builds : build[b].pc # "idle" => build[b] \in BuildState
           /\ \A u \in Users : request[u].pc # "idle" => request[u] \in RequestState
BY DEF TypeOK, NoBuild, NoRequest

LEMMA InterventionsInit == Init => IInv
<1> SUFFICES ASSUME Init PROVE IInv  OBVIOUS
<1>1. DOMAIN log = {} /\ DOMAIN attempts = {} /\ Len(log) = 0
  BY DEF Init
<1>2. TypeOK
  BY BoundsAssumption
  DEF Init, TypeOK, PhaseStatus, Buildable, NoBuild, NoRequest
<1>3. LockInv /\ BuildsInv /\ CopiesInv
  BY DEF Init, LockInv, BuildsInv, CopiesInv, InWork, NoBuild, NoRequest
<1>4. HistoryInv /\ MarkedOnce /\ NothingSkipped
  BY <1>1 DEF HistoryInv, MarkedOnce, NothingSkipped
<1>5. FilesAreOfLastPass
  BY <1>1 DEF Init, FilesAreOfLastPass, PassedRuns
<1> QED  BY <1>2, <1>3, <1>4, <1>5 DEF IInv

\* A step that publishes nothing leaves what is said of committed state alone.
LEMMA Unpublished ==
    ASSUME IInv, UNCHANGED <<phase, log, request, attempts, artifacts>>
    PROVE  HistoryInv' /\ MarkedOnce' /\ NothingSkipped' /\ FilesAreOfLastPass' /\ CopiesInv'
<1>1. HistoryInv'
  BY DEF IInv, HistoryInv
<1>2. MarkedOnce'
  BY DEF IInv, MarkedOnce, HeardBy
<1>3. NothingSkipped'
  BY DEF IInv, NothingSkipped, Targets
<1>4. FilesAreOfLastPass'
  BY DEF IInv, FilesAreOfLastPass, PassedRuns
<1>5. CopiesInv'
  BY DEF IInv, CopiesInv
<1> QED  BY <1>1, <1>2, <1>3, <1>4, <1>5

LEMMA BeginKeepsInv ==
    ASSUME IInv, NEW b \in Builds, NEW p \in Phases, Begin(b, p)
    PROVE  IInv'
<1> DEFINE new == [pc |-> "claim", phase |-> p, iteration |-> 1,
                   heard |-> {}, until |-> 0, outcome |-> "none"]
<1>1. build' = [build EXCEPT ![b] = new] /\ new \in BuildState
  BY BoundsAssumption DEF Begin, BuildState, Outcomes
<1>2. TypeOK'
  <2>1. build' \in [Builds -> {NoBuild} \cup BuildState]
    BY <1>1 DEF IInv, TypeOK
  <2> QED  BY <2>1, BoundsAssumption DEF IInv, TypeOK, Begin
<1>3. \A c \in Builds : build'[c] = IF c = b THEN new ELSE build[c]
  BY <1>1 DEF IInv, TypeOK
<1>4. LockInv'
  BY <1>3 DEF IInv, LockInv, InWork, Begin
<1>5. BuildsInv'
  <2> SUFFICES ASSUME NEW c \in Builds, build'[c].pc # "idle" PROVE BuildInv(c)'
    BY DEF BuildsInv
  <2>1. CASE c = b
    BY <2>1, <1>3 DEF BuildInv, Begin, IInv, TypeOK
  <2>2. CASE c # b
    BY <2>2, <1>3 DEF BuildInv, BuildsInv, Begin, IInv, Targets
  <2> QED  BY <2>1, <2>2
<1> QED  BY <1>2, <1>4, <1>5, Unpublished DEF Begin, IInv

LEMMA ClaimKeepsInv ==
    ASSUME IInv, NEW b \in Builds, Claim(b)
    PROVE  IInv'
<1>1. build[b] \in BuildState
  BY UnderWay DEF Claim, IInv
<1> DEFINE new == [build[b] EXCEPT !.pc = "drain"]
<1>2. build' = [build EXCEPT ![b] = new] /\ new \in BuildState
  BY <1>1 DEF Claim, BuildState
<1>3. TypeOK'
  <2>1. build' \in [Builds -> {NoBuild} \cup BuildState]
    BY <1>2 DEF IInv, TypeOK
  <2> QED  BY <2>1 DEF IInv, TypeOK, Claim
<1>4. \A c \in Builds : build'[c] = IF c = b THEN new ELSE build[c]
  BY <1>2 DEF IInv, TypeOK
<1>5. LockInv'
  BY <1>4, NamesAssumption DEF IInv, LockInv, InWork, Claim
<1>6. BuildsInv'
  <2> SUFFICES ASSUME NEW c \in Builds, build'[c].pc # "idle" PROVE BuildInv(c)'
    BY DEF BuildsInv
  <2>1. CASE c = b
    <3>1. BuildInv(b)
      BY DEF IInv, BuildsInv, Claim
    <3> QED  BY <3>1, <2>1, <1>1, <1>4 DEF BuildInv, Claim, BuildState, Targets
  <2>2. CASE c # b
    BY <2>2, <1>4 DEF BuildInv, BuildsInv, Claim, IInv, Targets
  <2> QED  BY <2>1, <2>2
<1> QED  BY <1>3, <1>5, <1>6, Unpublished DEF Claim, IInv

LEMMA DrainKeepsInv ==
    ASSUME IInv, NEW b \in Builds, Drain(b)
    PROVE  IInv'
<1>1. build[b] \in BuildState /\ DOMAIN log = 1..Len(log) /\ Len(log) \in Nat
  BY UnderWay, LenProperties DEF Drain, IInv, TypeOK
<1> DEFINE new == [build[b] EXCEPT !.pc = "work", !.until = Len(log),
                                   !.heard = build[b].heard \cup Pending(b)]
<1>2. build' = [build EXCEPT ![b] = new] /\ Pending(b) \subseteq DOMAIN log
  BY <1>1 DEF Drain, BuildState, Pending
<1>3. new \in BuildState
  <2>1. build[b].heard \cup Pending(b) \in SUBSET Nat
    BY <1>1, <1>2 DEF BuildState
  <2> QED  BY <1>1, <2>1 DEF BuildState
<1>4. TypeOK'
  <2>1. build' \in [Builds -> {NoBuild} \cup BuildState]
    BY <1>2, <1>3 DEF IInv, TypeOK
  <2> QED  BY <2>1 DEF IInv, TypeOK, Drain
<1>5. \A c \in Builds : build'[c] = IF c = b THEN new ELSE build[c]
  BY <1>2 DEF IInv, TypeOK
<1>6. LockInv'
  BY <1>5 DEF IInv, LockInv, InWork, Drain
<1>7. BuildsInv'
  <2> SUFFICES ASSUME NEW c \in Builds, build'[c].pc # "idle" PROVE BuildInv(c)'
    BY DEF BuildsInv
  <2>1. CASE c = b
    <3>1. BuildInv(b)
      BY DEF IInv, BuildsInv, Drain
    <3>2. /\ new.heard = build[b].heard \cup Pending(b) /\ new.until = Len(log)
          /\ new.phase = build[b].phase /\ new.pc = "work"
      BY <1>1 DEF BuildState
    <3> HIDE DEF new
    <3>3. build'[b] = new /\ log' = log
      BY <1>5 DEF Drain
    <3>4. new.heard \subseteq DOMAIN log /\ \A i \in new.heard : new.phase \notin log[i].applied
      BY <3>1, <3>2, <1>2 DEF BuildInv, Pending
    <3>5. \A i \in DOMAIN log : Targets(i, new.phase) =>
              i \in new.heard \/ new.phase \in log[i].applied
      BY <3>2 DEF Pending
    <3> QED  BY <2>1, <3>2, <3>3, <3>4, <3>5, <1>1 DEF BuildInv, Targets
  <2>2. CASE c # b
    <3>1. build'[c] = build[c] /\ log' = log
      BY <2>2, <1>5 DEF Drain
    <3>2. BuildInv(c)
      BY <3>1 DEF IInv, BuildsInv
    <3> QED  BY <3>1, <3>2 DEF BuildInv, Targets
  <2> QED  BY <2>1, <2>2
<1> QED  BY <1>4, <1>6, <1>7, Unpublished DEF Drain, IInv

LEMMA IterateKeepsInv ==
    ASSUME IInv, NEW b \in Builds, Iterate(b)
    PROVE  IInv'
<1>1. build[b] \in BuildState
  BY UnderWay DEF Iterate, IInv
<1>2. PICK new \in BuildState :
        /\ build' = [build EXCEPT ![b] = new]
        /\ new.pc \in {"drain", "commit"}
        /\ new.phase = build[b].phase /\ new.heard = build[b].heard
        /\ new.until = build[b].until
  <2>1. PICK result \in {"passed", "max_iterations", "failed"} :
          IF result = "passed" \/ build[b].iteration = SHIPWRIGHT_MAX_ITERATIONS
          THEN build' = [build EXCEPT ![b].pc = "commit", ![b].outcome = result]
          ELSE build' = [build EXCEPT ![b].pc = "drain", ![b].iteration = @ + 1]
    BY DEF Iterate
  <2>2. CASE result = "passed" \/ build[b].iteration = SHIPWRIGHT_MAX_ITERATIONS
    <3> DEFINE ended == [build[b] EXCEPT !.pc = "commit", !.outcome = result]
    <3>1. ended \in BuildState
      BY <1>1 DEF BuildState, Outcomes
    <3>2. /\ ended.pc = "commit" /\ ended.phase = build[b].phase
          /\ ended.heard = build[b].heard /\ ended.until = build[b].until
      BY <1>1 DEF BuildState
    <3>3. build' = [build EXCEPT ![b] = ended]
      BY <2>1, <2>2
    <3> QED  BY <3>1, <3>2, <3>3
  <2>3. CASE ~(result = "passed" \/ build[b].iteration = SHIPWRIGHT_MAX_ITERATIONS)
    <3> DEFINE again == [build[b] EXCEPT !.pc = "drain", !.iteration = build[b].iteration + 1]
    <3>1. build[b].iteration + 1 \in 1..SHIPWRIGHT_MAX_ITERATIONS
      BY <1>1, <2>3, BoundsAssumption DEF BuildState
    <3>2. again \in BuildState
      BY <1>1, <3>1 DEF BuildState
    <3>3. /\ again.pc = "drain" /\ again.phase = build[b].phase
          /\ again.heard = build[b].heard /\ again.until = build[b].until
      BY <1>1 DEF BuildState
    <3>4. build' = [build EXCEPT ![b] = again]
      BY <2>1, <2>3
    <3> QED  BY <3>2, <3>3, <3>4
  <2> QED  BY <2>2, <2>3
<1>3. TypeOK'
  <2>1. build' \in [Builds -> {NoBuild} \cup BuildState]
    BY <1>2 DEF IInv, TypeOK
  <2> QED  BY <2>1 DEF IInv, TypeOK, Iterate
<1>4. \A c \in Builds : build'[c] = IF c = b THEN new ELSE build[c]
  BY <1>2 DEF IInv, TypeOK
<1>5. LockInv'
  BY <1>2, <1>4 DEF IInv, LockInv, InWork, Iterate
<1>6. BuildsInv'
  <2> SUFFICES ASSUME NEW c \in Builds, build'[c].pc # "idle" PROVE BuildInv(c)'
    BY DEF BuildsInv
  <2>1. CASE c = b
    <3>1. BuildInv(b)
      BY DEF IInv, BuildsInv, Iterate
    <3> QED  BY <3>1, <2>1, <1>2, <1>4 DEF BuildInv, Iterate, Targets
  <2>2. CASE c # b
    BY <2>2, <1>4 DEF BuildInv, BuildsInv, Iterate, IInv, Targets
  <2> QED  BY <2>1, <2>2
<1> QED  BY <1>3, <1>5, <1>6, Unpublished DEF Iterate, IInv

LEMMA RollbackKeepsInv ==
    ASSUME IInv, NEW b \in Builds, Rollback(b)
    PROVE  IInv'
<1>1. \A c \in Builds : build'[c] = IF c = b THEN NoBuild ELSE build[c]
  BY DEF IInv, TypeOK, Rollback
<1>2. TypeOK'
  BY DEF IInv, TypeOK, Rollback
<1>3. LockInv'
  BY <1>1 DEF IInv, LockInv, InWork, Rollback, NoBuild
<1>4. BuildsInv'
  <2> SUFFICES ASSUME NEW c \in Builds, build'[c].pc # "idle" PROVE BuildInv(c)'
    BY DEF BuildsInv
  <2>1. c # b
    BY <1>1 DEF NoBuild
  <2> QED  BY <2>1, <1>1 DEF BuildInv, BuildsInv, Rollback, IInv, Targets
<1> QED  BY <1>2, <1>3, <1>4, Unpublished DEF Rollback, IInv

-----------------------------------------------------------------------------
(* The commit of a build *)

\* A sequence rewritten place by place is a sequence as long.
LEMMA Rewritten ==
    ASSUME NEW S, NEW s \in Seq(S), NEW t, t \in [DOMAIN s -> S]
    PROVE  t \in Seq(S) /\ Len(t) = Len(s) /\ DOMAIN t = DOMAIN s
<1>1. Len(s) \in Nat /\ DOMAIN s = 1..Len(s)
  BY LenProperties
<1>2. t \in Seq(S)
  BY <1>1, SeqDef
<1>3. Len(t) \in Nat /\ DOMAIN t = 1..Len(t) /\ DOMAIN t = 1..Len(s)
  BY <1>1, <1>2, LenProperties
<1> QED  BY <1>1, <1>2, <1>3

\* What the commit writes, field by field.
LEMMA Published ==
    ASSUME IInv, NEW b \in Builds, NEW outcome \in Outcomes, InWork(b), EndWith(b, outcome)
    PROVE  /\ build[b] \in BuildState
           /\ log' \in Seq(Intervention) /\ Len(log') = Len(log) /\ DOMAIN log' = DOMAIN log
           /\ DOMAIN log = 1..Len(log) /\ Len(log) \in Nat
           /\ \A i \in DOMAIN log :
                /\ log'[i].target = log[i].target
                /\ log'[i].applied = IF i \in build[b].heard
                                     THEN log[i].applied \cup {build[b].phase}
                                     ELSE log[i].applied
           /\ attempts' \in Seq(Attempt) /\ Len(attempts) \in Nat
           /\ DOMAIN attempts = 1..Len(attempts)
           /\ DOMAIN attempts' = DOMAIN attempts \cup {Len(attempts) + 1}
           /\ \A n \in DOMAIN attempts : attempts'[n] = attempts[n]
           /\ attempts'[Len(attempts) + 1].phase = build[b].phase
           /\ attempts'[Len(attempts) + 1].outcome = outcome
           /\ attempts'[Len(attempts) + 1].heard = build[b].heard
           /\ attempts'[Len(attempts) + 1].until = build[b].until
<1>1. build[b] \in BuildState
  BY UnderWay DEF InWork, IInv
<1>2. /\ log \in Seq(Intervention) /\ DOMAIN log = 1..Len(log) /\ Len(log) \in Nat
      /\ attempts \in Seq(Attempt) /\ DOMAIN attempts = 1..Len(attempts) /\ Len(attempts) \in Nat
  BY LenProperties DEF IInv, TypeOK
<1>3. \A i \in DOMAIN log : log[i] \in Intervention
  BY <1>2, ElementOfSeq
<1>4. \A i \in DOMAIN log :
        [log[i] EXCEPT !.applied = log[i].applied \cup {build[b].phase}] \in Intervention
  BY <1>1, <1>3 DEF Intervention, BuildState
<1>5. log' \in [DOMAIN log -> Intervention]
  BY <1>3, <1>4 DEF EndWith
<1>6. log' \in Seq(Intervention) /\ Len(log') = Len(log) /\ DOMAIN log' = DOMAIN log
  BY <1>2, <1>5, Rewritten
<1>7. \A i \in DOMAIN log :
        /\ log'[i].target = log[i].target
        /\ log'[i].applied = IF i \in build[b].heard
                             THEN log[i].applied \cup {build[b].phase} ELSE log[i].applied
  BY <1>3 DEF EndWith, Intervention
<1> DEFINE row == [phase |-> build[b].phase, outcome |-> outcome,
                   heard |-> build[b].heard, until |-> build[b].until]
<1>8. row \in Attempt /\ attempts' = Append(attempts, row)
  BY <1>1 DEF EndWith, Attempt, BuildState
<1> HIDE DEF row
<1>9. /\ attempts' \in Seq(Attempt) /\ Len(attempts') = Len(attempts) + 1
      /\ \A n \in 1..Len(attempts) : attempts'[n] = attempts[n]
      /\ attempts'[Len(attempts) + 1] = row
  BY <1>2, <1>8, AppendProperties
<1>10. DOMAIN attempts' = 1..(Len(attempts) + 1)
  BY <1>9, LenProperties
<1>11. DOMAIN attempts' = DOMAIN attempts \cup {Len(attempts) + 1}
  BY <1>2, <1>10
<1>12. /\ row.phase = build[b].phase /\ row.outcome = outcome
       /\ row.heard = build[b].heard /\ row.until = build[b].until
  BY DEF row
<1> QED  BY <1>1, <1>2, <1>6, <1>7, <1>9, <1>11, <1>12

\* The attempts with an intervention, and those that passed, before and after the commit.
LEMMA NewAttempt ==
    ASSUME IInv, NEW b \in Builds, NEW outcome \in Outcomes, InWork(b), EndWith(b, outcome),
           NEW p \in Phases
    PROVE  /\ \A i : HeardBy(i, p)' = IF p = build[b].phase /\ i \in build[b].heard
                                      THEN HeardBy(i, p) \cup {Len(attempts) + 1}
                                      ELSE HeardBy(i, p)
           /\ PassedRuns(p)' = IF p = build[b].phase /\ outcome = "passed"
                               THEN PassedRuns(p) \cup {Len(attempts) + 1}
                               ELSE PassedRuns(p)
           /\ PassedRuns(p) \subseteq 1..Len(attempts) /\ Len(attempts) \in Nat
<1>1. /\ Len(attempts) \in Nat /\ DOMAIN attempts = 1..Len(attempts)
      /\ DOMAIN attempts' = DOMAIN attempts \cup {Len(attempts) + 1}
  BY Published
<1>2. \A n \in DOMAIN attempts : attempts'[n] = attempts[n]
  BY Published
<1>3. /\ attempts'[Len(attempts) + 1].phase = build[b].phase
      /\ attempts'[Len(attempts) + 1].heard = build[b].heard
      /\ attempts'[Len(attempts) + 1].outcome = outcome
  BY Published
<1> QED  BY <1>1, <1>2, <1>3 DEF HeardBy, PassedRuns

LEMMA EndKeepsType ==
    ASSUME IInv, NEW b \in Builds, NEW outcome \in Outcomes, InWork(b), EndWith(b, outcome)
    PROVE  TypeOK'
<1>1. phase' \in [Phases -> PhaseStatus]
  BY DEF IInv, TypeOK, EndWith, PhaseStatus, Buildable
<1>2. artifacts' \in [Phases -> SUBSET Nat]
  <2>1. Len(attempts) + 1 \in Nat
    BY Published
  <2> QED  BY <2>1 DEF IInv, TypeOK, EndWith, Replaced
<1>3. build' \in [Builds -> {NoBuild} \cup BuildState]
  BY DEF IInv, TypeOK, EndWith
<1> QED  BY <1>1, <1>2, <1>3, Published DEF IInv, TypeOK, EndWith

LEMMA EndKeepsBuilds ==
    ASSUME IInv, NEW b \in Builds, NEW outcome \in Outcomes, InWork(b), EndWith(b, outcome)
    PROVE  LockInv' /\ BuildsInv'
<1>1. \A c \in Builds : build'[c] = IF c = b THEN NoBuild ELSE build[c]
  BY DEF IInv, TypeOK, EndWith
<1>2. owner = b
  BY DEF IInv, LockInv
<1>3. \A c \in Builds : c # b => ~InWork(c)
  BY <1>2 DEF IInv, LockInv
<1>4. LockInv'
  BY <1>1, <1>3 DEF LockInv, InWork, NoBuild
<1>5. BuildsInv'
  <2> SUFFICES ASSUME NEW c \in Builds, build'[c].pc # "idle" PROVE BuildInv(c)'
    BY DEF BuildsInv
  <2>1. c # b /\ build'[c] = build[c]
    BY <1>1 DEF NoBuild
  <2>2. build[c].pc = "claim"
    BY <2>1, <1>3, UnderWay DEF IInv, InWork, BuildState
  <2>3. build[c].heard = {} /\ build[c].until = 0
    BY <2>2 DEF IInv, BuildsInv, BuildInv
  <2>4. Len(log') \in Nat
    BY Published
  <2> QED  BY <2>1, <2>2, <2>3, <2>4 DEF BuildInv
<1> QED  BY <1>4, <1>5

LEMMA EndKeepsHistory ==
    ASSUME IInv, NEW b \in Builds, NEW outcome \in Outcomes, InWork(b), EndWith(b, outcome)
    PROVE  HistoryInv' /\ MarkedOnce' /\ NothingSkipped'
<1> DEFINE last == Len(attempts) + 1
<1>1. BuildInv(b)
  BY DEF IInv, BuildsInv, InWork
<1>2. /\ Len(attempts) \in Nat /\ DOMAIN attempts = 1..Len(attempts)
      /\ DOMAIN attempts' = DOMAIN attempts \cup {last}
      /\ \A n \in DOMAIN attempts : attempts'[n] = attempts[n]
  BY Published
<1>3. /\ attempts'[last].phase = build[b].phase
      /\ attempts'[last].heard = build[b].heard
      /\ attempts'[last].until = build[b].until
  BY Published
<1>4. /\ DOMAIN log' = DOMAIN log /\ Len(log') = Len(log)
      /\ DOMAIN log = 1..Len(log) /\ Len(log) \in Nat
  BY Published
<1>5. \A i \in DOMAIN log :
        /\ log'[i].target = log[i].target
        /\ log'[i].applied = IF i \in build[b].heard
                             THEN log[i].applied \cup {build[b].phase} ELSE log[i].applied
  BY Published
<1>6. build[b].phase \in Phases /\ build[b].until \in Nat
  BY Published DEF BuildState
<1>7. HistoryInv'
  BY <1>1, <1>2, <1>3, <1>4 DEF IInv, HistoryInv, BuildInv
<1>8. MarkedOnce'
  <2> SUFFICES ASSUME NEW i \in DOMAIN log, NEW p \in Phases
               PROVE  IF p \in log'[i].applied
                      THEN \E n \in DOMAIN attempts' : HeardBy(i, p)' = {n}
                      ELSE HeardBy(i, p)' = {}
    BY <1>4 DEF MarkedOnce
  <2>1. IF p \in log[i].applied THEN \E n \in DOMAIN attempts : HeardBy(i, p) = {n}
                                ELSE HeardBy(i, p) = {}
    BY DEF IInv, MarkedOnce
  <2>2. CASE p = build[b].phase /\ i \in build[b].heard
    <3>1. HeardBy(i, p) = {} /\ p \in log'[i].applied
      BY <2>1, <2>2, <1>1, <1>5 DEF BuildInv
    <3>2. HeardBy(i, p)' = {last}
      BY <3>1, <2>2, NewAttempt
    <3> QED  BY <3>1, <3>2, <1>2
  <2>3. CASE ~(p = build[b].phase /\ i \in build[b].heard)
    <3>1. HeardBy(i, p)' = HeardBy(i, p)
      BY <2>3, NewAttempt
    <3>2. p \in log'[i].applied <=> p \in log[i].applied
      BY <2>3, <1>5
    <3> QED  BY <3>1, <3>2, <2>1, <1>2
  <2> QED  BY <2>2, <2>3
<1>9. NothingSkipped'
  <2> SUFFICES ASSUME NEW n \in DOMAIN attempts', NEW i \in 1..attempts'[n].until,
                      Targets(i, attempts[n].phase)'
               PROVE  \E m \in 1..n : /\ attempts'[m].phase = attempts'[n].phase
                                      /\ i \in attempts'[m].heard
    BY DEF NothingSkipped
  <2>1. CASE n \in DOMAIN attempts
    <3>1. attempts[n].until <= Len(log) /\ attempts[n].until \in Nat /\ attempts'[n] = attempts[n]
      <4>1. attempts \in Seq(Attempt)
        BY DEF IInv, TypeOK
      <4>2. attempts[n] \in Attempt
        BY <4>1, <2>1, <1>2, ElementOfSeq
      <4> QED  BY <4>2, <2>1, <1>2 DEF IInv, HistoryInv, Attempt
    <3>2. i \in 1..attempts[n].until /\ i \in DOMAIN log
      BY <3>1, <1>4
    <3>4. Targets(i, attempts[n].phase)
      BY <3>1, <3>2, <1>5 DEF Targets
    <3>3. PICK m \in 1..n : attempts[m].phase = attempts[n].phase /\ i \in attempts[m].heard
      BY <3>2, <3>4, <2>1 DEF IInv, NothingSkipped
    <3> QED  BY <3>1, <3>3, <2>1, <1>2
  <2>2. CASE n = last
    <3>1. i \in 1..build[b].until /\ i \in DOMAIN log
      BY <2>2, <1>1, <1>3, <1>4, <1>6 DEF BuildInv
    <3>2. Targets(i, build[b].phase)
      BY <3>1, <2>2, <1>3, <1>5 DEF Targets
    <3>3. CASE i \in build[b].heard
      BY <3>3, <2>2, <1>2, <1>3
    <3>4. CASE build[b].phase \in log[i].applied
      <4>1. PICK m \in DOMAIN attempts : HeardBy(i, build[b].phase) = {m}
        BY <3>1, <3>4, <1>6 DEF IInv, MarkedOnce
      <4>2. attempts[m].phase = build[b].phase /\ i \in attempts[m].heard
        BY <4>1 DEF HeardBy
      <4> QED  BY <4>2, <2>2, <1>2, <1>3
    <3> QED  BY <3>1, <3>2, <3>3, <3>4, <1>1 DEF BuildInv
  <2> QED  BY <2>1, <2>2, <1>2
<1> QED  BY <1>7, <1>8, <1>9

LEMMA EndKeepsFiles ==
    ASSUME IInv, NEW b \in Builds, NEW outcome \in Outcomes, InWork(b), EndWith(b, outcome)
    PROVE  FilesAreOfLastPass' /\ CopiesInv'
<1>1. build[b].phase \in Phases
  BY Published DEF BuildState
<1>2. \A p \in Phases :
        artifacts'[p] = IF p = build[b].phase /\ outcome = "passed"
                        THEN {Len(attempts) + 1} ELSE artifacts[p]
  BY <1>1 DEF IInv, TypeOK, EndWith, Replaced
<1>3. \A p \in Phases :
        phase'[p] = IF p = build[b].phase
                    THEN IF outcome = "passed" THEN "BUILT" ELSE "FAILED" ELSE phase[p]
  BY DEF IInv, TypeOK, EndWith
<1>4. FilesAreOfLastPass'
  <2> SUFFICES ASSUME NEW p \in Phases
               PROVE  /\ artifacts'[p] = {n \in PassedRuns(p)' : \A m \in PassedRuns(p)' : m <= n}
                      /\ phase'[p] = "BUILT" => artifacts'[p] # {}
    BY DEF FilesAreOfLastPass
  <2>1. CASE p = build[b].phase /\ outcome = "passed"
    <3>1. PassedRuns(p)' = PassedRuns(p) \cup {Len(attempts) + 1}
      BY <2>1, NewAttempt
    <3>2. PassedRuns(p) \subseteq 1..Len(attempts) /\ Len(attempts) \in Nat
      BY NewAttempt
    <3>3. \A m \in PassedRuns(p)' : m <= Len(attempts) + 1
      BY <3>1, <3>2
    <3>4. \A n \in PassedRuns(p) : ~(Len(attempts) + 1 <= n)
      BY <3>2
    <3> QED  BY <3>1, <3>3, <3>4, <2>1, <1>2
  <2>2. CASE ~(p = build[b].phase /\ outcome = "passed")
    <3>1. PassedRuns(p)' = PassedRuns(p)
      BY <2>2, NewAttempt
    <3>2. artifacts'[p] = artifacts[p] /\ (phase'[p] = "BUILT" => phase[p] = "BUILT")
      BY <2>2, <1>2, <1>3
    <3> QED  BY <3>1, <3>2 DEF IInv, FilesAreOfLastPass
  <2> QED  BY <2>1, <2>2
<1>5. CopiesInv'
  <2>1. request' = request
    BY DEF EndWith
  <2>2. \A p \in Phases : artifacts[p] # {} => artifacts'[p] # {}
    BY <1>2
  <2> QED  BY <2>1, <2>2 DEF IInv, CopiesInv
<1> QED  BY <1>4, <1>5

LEMMA EndKeepsInv ==
    ASSUME IInv, NEW b \in Builds, NEW outcome \in Outcomes, InWork(b), EndWith(b, outcome)
    PROVE  IInv'
BY EndKeepsType, EndKeepsBuilds, EndKeepsHistory, EndKeepsFiles DEF IInv

-----------------------------------------------------------------------------
(* The requests of the users *)

\* What is said of builds and attempts survives a longer log.
LEMMA BuildsUnder ==
    ASSUME UNCHANGED <<owner, build>>, LockInv, BuildsInv, TypeOK, Len(log) \in Nat,
           DOMAIN log = 1..Len(log), Len(log') \in Nat, DOMAIN log' = 1..Len(log'),
           Len(log) <= Len(log'), \A i \in DOMAIN log : log'[i] = log[i]
    PROVE  LockInv' /\ BuildsInv'
<1>1. LockInv'
  BY DEF LockInv, InWork
<1>2. DOMAIN log \subseteq DOMAIN log'
  OBVIOUS
<1>3. BuildsInv'
  <2> SUFFICES ASSUME NEW b \in Builds, build[b].pc # "idle" PROVE BuildInv(b)'
    BY DEF BuildsInv
  <2>1. BuildInv(b) /\ build[b] \in BuildState
    BY UnderWay DEF BuildsInv
  <2>2. 1..build[b].until \subseteq DOMAIN log /\ build[b].until \in Nat
    BY <2>1 DEF BuildInv, BuildState
  <2>3. build'[b] = build[b]
    OBVIOUS
  <2>4. \A i \in DOMAIN log : log'[i] = log[i]
    OBVIOUS
  <2>5. /\ build[b].heard \subseteq DOMAIN log'
        /\ build[b].until <= Len(log')
        /\ \A i \in build[b].heard : build[b].phase \notin log'[i].applied
    BY <2>1, <2>2, <2>4, <1>2 DEF BuildInv
  <2>6. \A i \in 1..build[b].until :
          log'[i].target \in {build[b].phase, Everywhere} =>
              i \in build[b].heard \/ build[b].phase \in log'[i].applied
    BY <2>1, <2>2, <2>4 DEF BuildInv, Targets
  <2> QED  BY <2>1, <2>3, <2>5, <2>6 DEF BuildInv, Targets
<1> QED  BY <1>1, <1>3

LEMMA AskKeepsInv ==
    ASSUME IInv, NEW u \in Users,
           \/ \E p \in Phases \cup {Everywhere} : Ask(u, "inject", p)
           \/ \E p \in Phases : Ask(u, "redirect", p)
    PROVE  IInv'
<1>1. PICK new \in RequestState :
        request' = [request EXCEPT ![u] = new] /\ new.copy = phase
  <2>1. phase \in [Phases -> PhaseStatus]
    BY DEF IInv, TypeOK
  <2> DEFINE new(kind, p) == [pc |-> kind, target |-> p, copy |-> phase]
  <2>2. ASSUME NEW p \in Phases \cup {Everywhere}, Ask(u, "inject", p)
        PROVE  /\ new("inject", p) \in RequestState
               /\ request' = [request EXCEPT ![u] = new("inject", p)]
               /\ new("inject", p).copy = phase
    BY <2>1, <2>2 DEF Ask, RequestState
  <2>3. ASSUME NEW p \in Phases, Ask(u, "redirect", p)
        PROVE  /\ new("redirect", p) \in RequestState
               /\ request' = [request EXCEPT ![u] = new("redirect", p)]
               /\ new("redirect", p).copy = phase
    BY <2>1, <2>3 DEF Ask, RequestState
  <2> HIDE DEF new
  <2> QED  BY <2>2, <2>3
<1>2. UNCHANGED <<phase, open, log, owner, build, attempts, artifacts, begun>>
  BY DEF Ask
<1>3. TypeOK'
  <2>1. request' \in [Users -> {NoRequest} \cup RequestState]
    BY <1>1 DEF IInv, TypeOK
  <2> QED  BY <2>1, <1>2 DEF IInv, TypeOK
<1>4. LockInv' /\ BuildsInv'
  BY <1>2 DEF IInv, LockInv, InWork, BuildsInv, BuildInv, Targets
<1>5. HistoryInv' /\ MarkedOnce' /\ NothingSkipped'
  BY <1>2 DEF IInv, HistoryInv, MarkedOnce, HeardBy, NothingSkipped, Targets
<1>6. FilesAreOfLastPass'
  BY <1>2 DEF IInv, FilesAreOfLastPass, PassedRuns
<1>7. CopiesInv'
  <2> SUFFICES ASSUME NEW v \in Users, request'[v].pc # "idle", NEW p \in Phases,
                      request'[v].copy[p] = "BUILT"
               PROVE  artifacts[p] # {}
    BY <1>2 DEF CopiesInv
  <2>1. request'[v] = IF v = u THEN new ELSE request[v]
    BY <1>1 DEF IInv, TypeOK
  <2>2. CASE v = u
    BY <2>1, <2>2, <1>1 DEF IInv, FilesAreOfLastPass
  <2>3. CASE v # u
    BY <2>1, <2>3 DEF IInv, CopiesInv
  <2> QED  BY <2>2, <2>3
<1> QED  BY <1>3, <1>4, <1>5, <1>6, <1>7 DEF IInv

\* A recorded intervention is the last of the log and no build has heard it.
LEMMA RecordKeeps ==
    ASSUME IInv, NEW u \in Users, request[u].pc # "idle", Record(u)
    PROVE  /\ log' \in Seq(Intervention)
           /\ request' \in [Users -> {NoRequest} \cup RequestState]
           /\ \A v \in Users : request'[v].pc # "idle" => v # u /\ request'[v] = request[v]
           /\ LockInv' /\ BuildsInv' /\ HistoryInv' /\ MarkedOnce' /\ NothingSkipped'
<1> DEFINE row == [kind |-> request[u].pc, target |-> request[u].target, applied |-> {}]
<1>1. request[u] \in RequestState
  BY UnderWay DEF IInv
<1>2. row \in Intervention /\ row.applied = {}
  BY <1>1 DEF RequestState, Intervention
<1>3. log' = Append(log, row) /\ UNCHANGED <<open, owner, build, attempts, artifacts, begun>>
  BY DEF Record
<1> HIDE DEF row
<1>4. log \in Seq(Intervention) /\ Len(log) \in Nat /\ DOMAIN log = 1..Len(log)
  BY LenProperties DEF IInv, TypeOK
<1>5. /\ log' \in Seq(Intervention) /\ Len(log') = Len(log) + 1
      /\ \A i \in 1..Len(log) : log'[i] = log[i]
      /\ log'[Len(log) + 1] = row
  BY <1>2, <1>3, <1>4, AppendProperties
<1>6. DOMAIN log' = 1..Len(log') /\ Len(log') \in Nat
  BY <1>5, LenProperties
<1>7. DOMAIN log' = DOMAIN log \cup {Len(log) + 1}
  BY <1>4, <1>5, <1>6
<1>8. request' \in [Users -> {NoRequest} \cup RequestState]
  BY DEF IInv, TypeOK, Record
<1>9. \A v \in Users : request'[v].pc # "idle" => v # u /\ request'[v] = request[v]
  BY DEF IInv, TypeOK, Record, NoRequest
<1>10. LockInv' /\ BuildsInv'
  BY <1>3, <1>4, <1>5, <1>6, BuildsUnder DEF IInv
<1>11. HistoryInv'
  <2> SUFFICES ASSUME NEW n \in DOMAIN attempts
               PROVE  attempts[n].heard \subseteq DOMAIN log' /\ attempts[n].until <= Len(log')
    BY <1>3 DEF HistoryInv
  <2>1. attempts[n] \in Attempt
    BY LenProperties, ElementOfSeq DEF IInv, TypeOK
  <2> QED  BY <2>1, <1>4, <1>5, <1>7 DEF IInv, HistoryInv, Attempt
<1>12. \A i, p : HeardBy(i, p)' = HeardBy(i, p)
  BY <1>3 DEF HeardBy
<1>13. MarkedOnce'
  <2> SUFFICES ASSUME NEW i \in DOMAIN log', NEW p \in Phases
               PROVE  IF p \in log'[i].applied
                      THEN \E n \in DOMAIN attempts : HeardBy(i, p) = {n}
                      ELSE HeardBy(i, p) = {}
    BY <1>3, <1>12 DEF MarkedOnce
  <2>1. CASE i \in DOMAIN log
    BY <2>1, <1>4, <1>5 DEF IInv, MarkedOnce
  <2>2. CASE i = Len(log) + 1
    <3>1. log'[i].applied = {}
      BY <2>2, <1>2, <1>5
    <3>2. i \notin DOMAIN log
      BY <2>2, <1>4
    <3>3. HeardBy(i, p) = {}
      BY <3>2 DEF HeardBy, IInv, HistoryInv
    <3> QED  BY <3>1, <3>3
  <2> QED  BY <2>1, <2>2, <1>7
<1>14. NothingSkipped'
  <2> SUFFICES ASSUME NEW n \in DOMAIN attempts, NEW i \in 1..attempts[n].until,
                      log'[i].target \in {attempts[n].phase, Everywhere}
               PROVE  \E m \in 1..n : /\ attempts[m].phase = attempts[n].phase
                                      /\ i \in attempts[m].heard
    BY <1>3 DEF NothingSkipped, Targets
  <2>1. attempts[n] \in Attempt
    BY LenProperties, ElementOfSeq DEF IInv, TypeOK
  <2>2. i \in DOMAIN log
    BY <2>1, <1>4 DEF IInv, HistoryInv, Attempt
  <2>3. log'[i] = log[i]
    BY <2>2, <1>4, <1>5
  <2> QED  BY <2>3 DEF IInv, NothingSkipped, Targets
<1> QED  BY <1>5, <1>8, <1>9, <1>10, <1>11, <1>13, <1>14

LEMMA InjectKeepsInv ==
    ASSUME IInv, NEW u \in Users, Inject(u)
    PROVE  IInv'
<1>1. request[u].pc # "idle" /\ Record(u)
  BY DEF Inject
<1>2. UNCHANGED <<phase, open, owner, build, attempts, artifacts, begun>>
  BY DEF Inject, Record
<1>3. TypeOK'
  BY <1>1, <1>2, RecordKeeps DEF IInv, TypeOK
<1>4. FilesAreOfLastPass'
  BY <1>2 DEF IInv, FilesAreOfLastPass, PassedRuns
<1>5. CopiesInv'
  BY <1>1, <1>2, RecordKeeps DEF IInv, CopiesInv
<1> QED  BY <1>1, <1>3, <1>4, <1>5, RecordKeeps DEF IInv

LEMMA RedirectKeepsInv ==
    ASSUME IInv, NEW u \in Users, Redirect(u)
    PROVE  IInv'
<1>1. request[u].pc # "idle" /\ Record(u)
  BY DEF Redirect
<1>2. UNCHANGED <<open, owner, build, attempts, artifacts, begun>>
  BY DEF Redirect, Record
<1>3. request[u].copy \in [Phases -> PhaseStatus]
  BY <1>1, UnderWay DEF IInv, RequestState
<1>4. \/ phase' = phase
      \/ phase' = [request[u].copy EXCEPT ![request[u].target] = "PENDING"]
  BY DEF Redirect
<1>5. phase' \in [Phases -> PhaseStatus]
  BY <1>3, <1>4 DEF IInv, TypeOK, PhaseStatus, Buildable
<1>6. TypeOK'
  BY <1>1, <1>2, <1>5, RecordKeeps DEF IInv, TypeOK
<1>7. \A p \in Phases : phase'[p] = "BUILT" => artifacts[p] # {}
  <2> SUFFICES ASSUME NEW p \in Phases, phase'[p] = "BUILT" PROVE artifacts[p] # {}
    OBVIOUS
  <2>1. phase[p] = "BUILT" \/ request[u].copy[p] = "BUILT"
    BY <1>3, <1>4
  <2> QED  BY <2>1, <1>1 DEF IInv, FilesAreOfLastPass, CopiesInv
<1>8. FilesAreOfLastPass'
  BY <1>2, <1>7 DEF IInv, FilesAreOfLastPass, PassedRuns
<1>9. CopiesInv'
  BY <1>1, <1>2, RecordKeeps DEF IInv, CopiesInv
<1> QED  BY <1>1, <1>6, <1>8, <1>9, RecordKeeps DEF IInv

LEMMA SettleKeepsInv ==
    ASSUME IInv, Settle
    PROVE  IInv'
<1>1. TypeOK'
  BY DEF IInv, TypeOK, Settle
<1>2. LockInv' /\ BuildsInv'
  BY DEF IInv, LockInv, InWork, BuildsInv, BuildInv, Targets, Settle
<1> QED  BY <1>1, <1>2, Unpublished DEF Settle, IInv

-----------------------------------------------------------------------------
(* Theorems *)

\* The invariant holds in every state.
LEMMA InvCorrect == Spec => []IInv
<1>1. IInv /\ [Next]_vars => IInv'
  <2> SUFFICES ASSUME IInv, [Next]_vars PROVE IInv'
    OBVIOUS
  <2>1. ASSUME NEW b \in Builds, NEW p \in Phases, Begin(b, p) PROVE IInv'
    BY <2>1, BeginKeepsInv
  <2>2. ASSUME NEW b \in Builds, Claim(b) PROVE IInv'
    BY <2>2, ClaimKeepsInv
  <2>3. ASSUME NEW b \in Builds, Drain(b) PROVE IInv'
    BY <2>3, DrainKeepsInv
  <2>4. ASSUME NEW b \in Builds, Iterate(b) PROVE IInv'
    BY <2>4, IterateKeepsInv
  <2>5. ASSUME NEW b \in Builds, Commit(b) PROVE IInv'
    <3>1. build[b].outcome \in Outcomes
      BY <2>5, UnderWay DEF Commit, IInv, BuildState
    <3> QED  BY <2>5, <3>1, EndKeepsInv DEF Commit, InWork
  <2>6. ASSUME NEW b \in Builds, Raise(b) PROVE IInv'
    BY <2>6, EndKeepsInv DEF Raise, InWork, Outcomes
  <2>7. ASSUME NEW b \in Builds, Rollback(b) PROVE IInv'
    BY <2>7, RollbackKeepsInv
  <2>8. ASSUME NEW u \in Users,
               \/ \E p \in Phases \cup {Everywhere} : Ask(u, "inject", p)
               \/ \E p \in Phases : Ask(u, "redirect", p)
        PROVE  IInv'
    BY <2>8, AskKeepsInv
  <2>9. ASSUME NEW u \in Users, Inject(u) PROVE IInv'
    BY <2>9, InjectKeepsInv
  <2>10. ASSUME NEW u \in Users, Redirect(u) PROVE IInv'
    BY <2>10, RedirectKeepsInv
  <2>11. CASE Settle
    BY <2>11, SettleKeepsInv
  <2>12. CASE UNCHANGED vars
    <3>1. TypeOK'
      BY <2>12 DEF IInv, TypeOK, vars
    <3>2. LockInv' /\ BuildsInv'
      BY <2>12 DEF IInv, LockInv, InWork, BuildsInv, BuildInv, Targets, vars
    <3> QED  BY <2>12, <3>1, <3>2, Unpublished DEF IInv, vars
  <2> QED
    BY <2>1, <2>2, <2>3, <2>4, <2>5, <2>6, <2>7, <2>8, <2>9, <2>10, <2>11, <2>12 DEF Next
<1> QED  BY InterventionsInit, <1>1, PTL DEF Spec

\* An intervention is marked as applied to a phase exactly when one committed build of that phase
\* worked with it, however many builds, requests and crashes there are (ShipwrightService.build_code
\* and drain_pending_interventions).
THEOREM AppliedExactlyOnce == Spec => []AppliedOnce
<1>1. IInv => AppliedOnce
  <2> SUFFICES ASSUME IInv, NEW i \in DOMAIN log, NEW p \in Phases
               PROVE  Cardinality(HeardBy(i, p)) = IF p \in log[i].applied THEN 1 ELSE 0
    BY DEF AppliedOnce
  <2>1. CASE p \in log[i].applied
    <3>1. PICK n \in DOMAIN attempts : HeardBy(i, p) = {n}
      BY <2>1 DEF IInv, MarkedOnce
    <3> QED  BY <3>1, <2>1, FS_Singleton
  <2>2. CASE p \notin log[i].applied
    BY <2>2, FS_EmptySet DEF IInv, MarkedOnce
  <2> QED  BY <2>1, <2>2
<1> QED  BY InvCorrect, <1>1, PTL

\* What the user asked before the last drain of a committed build reached it or an earlier build of
\* its phase (drain_pending_interventions).
THEOREM NoInterventionIsSkipped == Spec => []NothingSkipped
<1>1. IInv => NothingSkipped
  BY DEF IInv
<1> QED  BY InvCorrect, <1>1, PTL

\* The files of a phase are those of its last run that passed, and a phase that says BUILT has some
\* (the replacement of rows in build_code).
THEOREM FilesOfLastPass == Spec => []FilesAreOfLastPass
<1>1. IInv => FilesAreOfLastPass
  BY DEF IInv
<1> QED  BY InvCorrect, <1>1, PTL
=============================================================================
