------------------------------ MODULE Sandboxes ------------------------------
(***************************************************************************)
(* Sandboxes and the work in them: ExecutionService keeps one sandbox for  *)
(* the user's runs, GitService one with a clone for the voyage, both in    *)
(* dictionaries of the process that are read before an await and used      *)
(* after it.  An operation is the sequence of the calls it awaits.  Of     *)
(* users and voyages one of each is modelled; the files of a phase are one *)
(* member of Works.                                                        *)
(***************************************************************************)
EXTENDS Integers, Sequences, FiniteSets

CONSTANTS Requests,      \* the operations that may be under way at a time
          Kinds,         \* the operations that are asked for
          Members, Works, Author,  \* the crew members, what they build and who built it
          Faults,        \* what may go wrong: "refuse", "exit", "timeout", "die"
          MaxSandboxes, MaxOps     \* bounds: sandboxes made, operations begun

ASSUME AuthorAssumption == Author \in [Works -> Members]
ASSUME WorksAssumption == Works # {}
ASSUME BoundsAssumption == MaxSandboxes \in Nat \ {0} /\ MaxOps \in Nat

Ids == 1..MaxSandboxes
None == 0
Main == "main"
Branches == Members \cup {Main}   \* agent/<member>/<voyage>, and the default branch
ASSUME MainAssumption == Main \notin Members

VARIABLES
    container,   \* the containers: "absent", "created", "running", "exited" or "gone"
    tree,        \* the repository in each
    origin,      \* what the branches of the remote repository hold: <<branch, work>>
    sandbox,     \* _sandboxes and _repos: the sandbox of the user, and of the voyage
    kind, work, todo, hold, result,  \* each operation: the calls it has to make, the
                                     \* sandbox it makes them in
    alone,       \* no other operation of the voyage overlapped it
    left,        \* commands that outlived the call that timed out: <<sandbox, command, work>>
    begun        \* the operations begun

opVars == <<kind, work, todo, hold, result, alone>>
vars == <<container, tree, origin, sandbox, opVars, left, begun>>

Owners == {"user", "voyage"}
NoTree == [stage |-> "empty", head |-> Main, branches |-> {}, on |-> {}, dirty |-> {},
           merging |-> FALSE]

Init ==
    /\ container = [s \in Ids |-> "absent"]
    /\ tree = [s \in Ids |-> NoTree]
    /\ origin = {}
    /\ sandbox = [o \in Owners |-> None]
    /\ kind \in [Requests -> {"none"}]
    /\ work \in {[q \in Requests |-> CHOOSE w \in Works : TRUE]}
    /\ todo = [q \in Requests |-> <<>>]
    /\ hold = [q \in Requests |-> None]
    /\ result = [q \in Requests |-> "ok"]
    /\ alone = [q \in Requests |-> FALSE]
    /\ left = {} /\ begun = 0

-----------------------------------------------------------------------------
(* The operations, each by the calls it awaits *)

CloneRepo == <<"create", "start", "clone", "config">>
CreateBranch == <<"checkout">>
ListBranches == <<"query">>
CommitFiles == <<"put", "commit", "query">>
PushBranch == <<"push">>
ReadRefs == <<"query">>                     \* get_head_sha, get_log
CheckConflicts == <<"query", "switch", "merge", "query", "abort">>
ReadFiles == <<"query">>                    \* list_changed_files, diff, get_file_content
CreatePr == <<"post">>                      \* a request to GitHub, outside the sandbox
Removal == <<"kill", "delete">>             \* destroy
\* _maybe_commit_to_git
CrewCommit == CreateBranch \o CommitFiles \o PushBranch

GitScript ==
    [clone |-> CloneRepo, branch |-> CreateBranch, branches |-> ListBranches,
     commit |-> CommitFiles, push |-> PushBranch, refs |-> ReadRefs,
     conflicts |-> CheckConflicts, files |-> ReadFiles, pr |-> CreatePr,
     cleanup |-> Removal, crew |-> CrewCommit]

OfVoyage(q) == kind[q] \in DOMAIN GitScript
Active(q) == todo[q] # <<>>
At(q, call) == Active(q) /\ Head(todo[q]) = call

\* The calls that begin a method of GitService, which looks the sandbox up anew.
LooksUp == {"checkout", "put", "push"}

Enter(q, k, w, s, calls) ==
    /\ ~Active(q) /\ begun < MaxOps
    /\ kind' = [kind EXCEPT ![q] = k]
    /\ work' = [work EXCEPT ![q] = w]
    /\ todo' = [todo EXCEPT ![q] = calls]
    /\ hold' = [hold EXCEPT ![q] = s]
    /\ result' = [result EXCEPT ![q] = "ok"]
    /\ begun' = begun + 1

Leave(q, how) ==
    /\ todo' = [todo EXCEPT ![q] = <<>>]
    /\ hold' = [hold EXCEPT ![q] = None]
    /\ result' = [result EXCEPT ![q] = how]
    /\ UNCHANGED <<kind, work>>

\* The call returned: the next one, in the sandbox that is the voyage's by now when a
\* method begins with it, or the end of the operation.
GoOn(q, rest) ==
    IF rest = <<>> THEN Leave(q, "ok")
    ELSE IF Head(rest) \in LooksUp /\ sandbox["voyage"] = None THEN Leave(q, "failed")
    ELSE /\ todo' = [todo EXCEPT ![q] = rest]
         /\ hold' = IF Head(rest) \in LooksUp
                      THEN [hold EXCEPT ![q] = sandbox["voyage"]] ELSE hold
         /\ UNCHANGED <<kind, work, result>>

\* Mutation: a clone that fails keeps its sandbox.
Fail_NoRollback(q) == Leave(q, "failed")

\* The call failed: a clone removes its sandbox before it gives up.
Fail(q) ==
    IF kind[q] = "clone" /\ hold[q] # None /\ Head(todo[q]) \in {"clone", "config"}
      THEN /\ todo' = [todo EXCEPT ![q] = Removal]
           /\ result' = [result EXCEPT ![q] = "failed"]
           /\ UNCHANGED <<kind, work, hold>>
      ELSE Leave(q, "failed")

\* Mutation: the sandbox is destroyed and then forgotten.
Popped_Later(k) == sandbox
\* cleanup_branches, destroy_sandbox: the entry is popped before the sandbox is destroyed.
Popped(k) == [sandbox EXCEPT ![IF k = "cleanup" THEN "voyage" ELSE "user"] = None]

\* An endpoint of api/v1/git, or the commit of a crew member.  What the guard refuses answers
\* 409 and changes nothing; so does a clean-up with nothing to clean.
GitRequest(q) ==
    /\ \E k \in Kinds \cap DOMAIN GitScript, w \in Works :
        /\ (k = "clone") = (sandbox["voyage"] = None)
        /\ Enter(q, k, w, sandbox["voyage"], GitScript[k])
        /\ sandbox' = IF k = "cleanup" THEN Popped(k) ELSE sandbox
        /\ alone' = [r \in Requests |->
                       IF r # q THEN alone[r] /\ ~Active(r)
                       ELSE left = {} /\ \A p \in Requests \ {q} : ~(Active(p) /\ OfVoyage(p))]
    /\ UNCHANGED <<container, tree, origin, left>>

\* destroy_sandbox, get_sandbox_status and run, which makes a sandbox when none is registered.
ExecScript(k) ==
    CASE k = "destroy" -> Removal
      [] k = "status" -> <<"status">>
      [] k = "run" /\ sandbox["user"] # None -> <<"status", "exec">>
      [] k = "run" /\ sandbox["user"] = None -> <<"create", "start", "exec">>

\* An endpoint of api/v1/execution, or a test run of the Shipwright.
ExecRequest(q) ==
    /\ \E k \in Kinds \cap {"run", "status", "destroy"} :
        /\ k # "run" => sandbox["user"] # None
        /\ Enter(q, k, work[q], sandbox["user"], ExecScript(k))
        /\ sandbox' = IF k = "destroy" THEN Popped(k) ELSE sandbox
    /\ UNCHANGED <<container, tree, origin, alone, left>>

-----------------------------------------------------------------------------
(* The backend *)

Running(s) == s # None /\ container[s] = "running"
Fresh == {s \in Ids : container[s] = "absent" /\ \A r \in Ids : r < s => container[r] # "absent"}

\* create: the container is created ...
Create(q) ==
    /\ At(q, "create")
    /\ \E s \in Fresh :
        /\ container' = [container EXCEPT ![s] = "created"]
        /\ hold' = [hold EXCEPT ![q] = s]
        /\ todo' = [todo EXCEPT ![q] = Tail(@)]
    /\ UNCHANGED <<tree, origin, sandbox, kind, work, result, alone, left, begun>>

\* ... and started.  A run registers it, whatever is registered by now.
Start(q) ==
    /\ At(q, "start")
    /\ container' = [container EXCEPT ![hold[q]] = "running"]
    /\ todo' = [todo EXCEPT ![q] = Tail(@)]
    /\ sandbox' = IF kind[q] = "run" THEN [sandbox EXCEPT !["user"] = hold[q]] ELSE sandbox
    /\ UNCHANGED <<tree, origin, kind, work, hold, result, alone, left, begun>>

\* create raises: Docker refuses to create the container or to start it.  A container that was
\* created stays behind.
RefuseSandbox(q) ==
    /\ "refuse" \in Faults
    /\ At(q, "create") \/ At(q, "start")
    /\ Leave(q, "failed")
    /\ UNCHANGED <<container, tree, origin, sandbox, alone, left, begun>>

\* status: Docker shows a container that was stopped, too.
HasStatus(s) == container[s] # "gone"

\* get_or_create_sandbox, get_sandbox_status: only a container that was removed has no status.
\* The entry a run deletes then is the one that is there now; without one it is a KeyError.
Status(q) ==
    /\ At(q, "status")
    /\ IF HasStatus(hold[q])
         THEN GoOn(q, Tail(todo[q])) /\ UNCHANGED sandbox
         ELSE IF kind[q] = "run" /\ sandbox["user"] # None
           THEN /\ sandbox' = [sandbox EXCEPT !["user"] = None]
                /\ todo' = [todo EXCEPT ![q] = <<"create", "start", "exec">>]
                /\ UNCHANGED <<kind, work, hold, result>>
           ELSE Leave(q, "failed") /\ UNCHANGED sandbox
    /\ UNCHANGED <<container, tree, origin, alone, left, begun>>

\* destroy: a container that is not running cannot be killed, and then is not deleted either.
Kill(q) ==
    /\ At(q, "kill")
    /\ IF Running(hold[q])
         THEN /\ container' = [container EXCEPT ![hold[q]] = "exited"]
              /\ todo' = [todo EXCEPT ![q] = Tail(@)]
              /\ UNCHANGED <<kind, work, hold, result>>
         ELSE Leave(q, result[q]) /\ UNCHANGED container
    /\ UNCHANGED <<tree, origin, sandbox, alone, left, begun>>

Delete(q) ==
    /\ At(q, "delete")
    /\ container' = [container EXCEPT ![hold[q]] = "gone"]
    /\ Leave(q, result[q])
    /\ UNCHANGED <<tree, origin, sandbox, alone, left, begun>>

-----------------------------------------------------------------------------
(* Commands in a sandbox *)

On(t, b) == {x \in Works : <<b, x>> \in t.on}
Remote(b) == {x \in Works : <<b, x>> \in origin}

\* The repository after a command that succeeds; none when it cannot succeed.
After(t, command, w) ==
    LET b == Author[w] IN
    CASE command = "clone" -> {[t EXCEPT !.stage = "cloned", !.branches = {Main},
                                         !.on = {Main} \X Remote(Main)]}
      [] command = "config" -> {[t EXCEPT !.stage = "ready"]}
      \* fetch && checkout -b: from the base of the remote, with what is in the working tree
      [] command = "checkout" ->
           IF b \in t.branches THEN {}
           ELSE {[t EXCEPT !.head = b, !.branches = @ \cup {b}, !.merging = FALSE,
                           !.on = @ \cup ({b} \X Remote(Main))]}
      [] command = "put" -> {[t EXCEPT !.dirty = @ \cup {w}]}
      \* add -A && commit: all that is in the working tree, on the branch it is at
      [] command = "commit" ->
           {[t EXCEPT !.on = @ \cup ({t.head} \X (t.dirty \cup merged)),
                      !.dirty = {}, !.merging = FALSE] :
              merged \in IF t.merging THEN {Remote(c) : c \in Branches}
                         ELSE IF t.dirty # {} THEN {{}} ELSE {}}
      \* checkout: a branch that is here, or that a fetch found
      [] command = "switch" ->
           {[t EXCEPT !.head = c, !.branches = @ \cup {c}, !.merging = FALSE,
                      !.on = @ \cup (IF c \in t.branches THEN {} ELSE {c} \X Remote(c))] :
              c \in {c \in Branches : c \in t.branches \/ Remote(c) # {}}}
      [] command = "merge" -> {t, [t EXCEPT !.merging = TRUE]}
      [] command = "abort" -> {[t EXCEPT !.merging = FALSE]}
      [] command = "push" -> IF b \in t.branches /\ Remote(b) \subseteq On(t, b)
                               THEN {t} ELSE {}
      [] OTHER -> {t}

Pushed(t, command, w) ==
    IF command = "push" THEN origin \cup ({Author[w]} \X On(t, Author[w])) ELSE origin

Commands == {"clone", "config", "checkout", "put", "commit", "switch", "merge", "abort",
             "push", "query", "exec"}

\* Mutation: the exit code of no command is looked at.
Unchecked_All == Commands
\* check_conflicts goes on when these fail: a merge that fails is the answer.
Unchecked == {"merge", "abort"}
Rest(q) ==
    IF At(q, "merge") THEN {Tail(todo[q]), Tail(Tail(todo[q]))} ELSE {Tail(todo[q])}

\* clone_repo sets the entry when the last command succeeded, whatever is set by now.
RegistersAt == "config"

\* execute, with a command that succeeds
Succeed(q) ==
    /\ Active(q) /\ Head(todo[q]) \in Commands /\ Running(hold[q])
    /\ LET t == tree[hold[q]] command == Head(todo[q]) IN
        /\ \E u \in After(t, command, work[q]) : tree' = [tree EXCEPT ![hold[q]] = u]
        /\ origin' = Pushed(t, command, work[q])
        /\ sandbox' = IF command = RegistersAt
                        THEN [sandbox EXCEPT !["voyage"] = hold[q]] ELSE sandbox
        /\ \E rest \in Rest(q) : GoOn(q, rest)
    /\ UNCHANGED <<container, alone, left, begun>>

\* execute, with a command that fails, in a container that is not running or in one that is.  Of
\* a put only the archive can fail; its command is an echo whose exit code nobody looks at.
Break(q) ==
    /\ Active(q) /\ Head(todo[q]) \in Commands
    /\ \/ ~Running(hold[q]) /\ Fail(q)
       \/ /\ Running(hold[q])
          /\ "exit" \in Faults \/ After(tree[hold[q]], Head(todo[q]), work[q]) = {}
          /\ IF Head(todo[q]) \in Unchecked
               THEN \E rest \in Rest(q) : GoOn(q, rest) ELSE Fail(q)
    /\ UNCHANGED <<container, tree, origin, sandbox, alone, left, begun>>

\* execute closes its stream at the timeout (so does a cancelled pipeline, a put's too): the
\* command runs on.
TimeOut(q) ==
    /\ "timeout" \in Faults
    /\ Active(q) /\ Head(todo[q]) \in Commands /\ Running(hold[q])
    /\ left' = left \cup {<<hold[q], Head(todo[q]), work[q]>>}
    /\ IF Head(todo[q]) \in Unchecked
         THEN \E rest \in Rest(q) : GoOn(q, rest) ELSE Fail(q)
    /\ UNCHANGED <<container, tree, origin, sandbox, alone, begun>>

\* create_pr: GitHub opens a request for a branch with something on it, or refuses.  The
\* sandbox may be gone by then.
Post(q) ==
    /\ At(q, "post")
    /\ \/ Remote(Author[work[q]]) # {} /\ GoOn(q, <<>>)
       \/ Leave(q, "failed")
    /\ UNCHANGED <<container, tree, origin, sandbox, alone, left, begun>>

\* A command that outlived its call ends, with or without effect.
EndLate ==
    /\ \E c \in left :
        /\ left' = left \ {c}
        /\ \/ UNCHANGED <<tree, origin>>
           \/ /\ Running(c[1])
              /\ \E u \in After(tree[c[1]], c[2], c[3]) : tree' = [tree EXCEPT ![c[1]] = u]
              /\ origin' = Pushed(tree[c[1]], c[2], c[3])
    /\ UNCHANGED <<container, sandbox, opVars, begun>>

\* A container dies, of its memory limit say, or is removed from outside.
Die ==
    /\ "die" \in Faults
    /\ \E s \in Ids : Running(s) /\ \E how \in {"exited", "gone"} :
           container' = [container EXCEPT ![s] = how]
    /\ UNCHANGED <<tree, origin, sandbox, opVars, left, begun>>

\* Shutdown: cleanup_all of both services, once the requests have ended.
CleanupAll ==
    /\ \A q \in Requests : ~Active(q)
    /\ container' = [s \in Ids |->
         IF s \in {sandbox[o] : o \in Owners} /\ Running(s) THEN "gone" ELSE container[s]]
    /\ sandbox' = [o \in Owners |-> None]
    /\ begun' = MaxOps
    /\ UNCHANGED <<tree, origin, opVars, left>>

Step(q) == Create(q) \/ Start(q) \/ RefuseSandbox(q) \/ Status(q) \/ Kill(q) \/ Delete(q)
           \/ Succeed(q) \/ Break(q) \/ TimeOut(q) \/ Post(q)

Next ==
    \/ \E q \in Requests : GitRequest(q) \/ ExecRequest(q) \/ Step(q)
    \/ EndLate \/ Die \/ CleanupAll

Spec == Init /\ [][Next]_vars

-----------------------------------------------------------------------------
(* Properties *)

TypeOK ==
    /\ container \in [Ids -> {"absent", "created", "running", "exited", "gone"}]
    /\ tree \in [Ids -> [stage : {"empty", "cloned", "ready"}, head : Branches,
                         branches : SUBSET Branches, on : SUBSET (Branches \X Works),
                         dirty : SUBSET Works, merging : BOOLEAN]]
    /\ origin \subseteq Branches \X Works
    /\ sandbox \in [Owners -> Ids \cup {None}]
    /\ \A q \in Requests : hold[q] \in Ids \cup {None} /\ work[q] \in Works

Registered == {sandbox[o] : o \in Owners}
Holds(q, s) == Active(q) /\ hold[q] = s /\ kind[q] \in {"clone", "cleanup", "destroy"}

\* A running sandbox is forgotten only by an operation that overlapped the one that made it:
\* a clone, or a run that found no sandbox or a removed one, which replaces or deletes the
\* entry of another.  In every other way through the code, the clone that fails included, it
\* stays registered, or with the operation that makes or removes it, until it stops.
SandboxesAreKept ==
    [][\A s \in Ids : Running(s) /\ Running(s)' =>
         /\ s \in Registered =>
              \/ s \in Registered'
              \/ \E q \in Requests : Holds(q, s)'
              \/ \E q \in Requests, o \in Owners :
                   /\ Active(q) /\ hold[q] # s
                   /\ sandbox[o] = s /\ sandbox[o]' \in {None, hold[q]}
         /\ \A q \in Requests : Holds(q, s) => Holds(q, s)' \/ s \in Registered']_vars

\* The sandbox the voyage's operations are sent to holds a clone that is complete, and no
\* operation is about to destroy a sandbox that others are still sent to.
RegisteredRepoIsWhole ==
    /\ sandbox["voyage"] # None => tree[sandbox["voyage"]].stage = "ready"
    /\ \A q \in Requests : (At(q, "kill") \/ At(q, "delete")) => hold[q] \notin Registered

\* A crew member whose branch, commit and push were answered, with no other operation of the
\* voyage in between, has what it built on its branch of the remote repository.
DeliveredWhenAlone ==
    \A q \in Requests :
        kind[q] = "crew" /\ ~Active(q) /\ result[q] = "ok" /\ alone[q] =>
            <<Author[work[q]], work[q]>> \in origin

\* "When it succeeds, it commits the code to the Shipwright's git branch": where no command
\* is made to fail and nothing overlaps.
EveryBuildIsCommitted ==
    \A q \in Requests :
        kind[q] = "crew" /\ ~Active(q) /\ alone[q] => <<Author[work[q]], work[q]>> \in origin

=============================================================================
