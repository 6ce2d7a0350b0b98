-------------------------- MODULE SandboxesProofs --------------------------
(***************************************************************************)
(* The sandboxes and the work in them, for any number of operations,       *)
(* containers and crew members: the proofs of the safety properties of     *)
(* Sandboxes.                                                              *)
(*                                                                         *)
(* What they rest on: an operation has only calls left that belong to its  *)
(* kind; a sandbox that is being made is known to the one operation that   *)
(* makes it; one that is being removed was forgotten; and the commit of a  *)
(* crew member that nothing overlaps finds at each call what the call      *)
(* before it left in the repository.                                       *)
(***************************************************************************)
EXTENDS Sandboxes, SequenceTheorems, TLAPS

\* The calls that make a sandbox, and those that remove one.
MakingCalls == {"start", "clone", "config"}
RemovingCalls == {"kill", "delete"}

PlainKinds == {"branch", "branches", "commit", "push", "refs", "files", "pr"}
GitKinds == PlainKinds \cup {"clone", "cleanup", "conflicts", "crew"}
ExecKinds == {"run", "status", "destroy"}

\* What may be left of an operation that is under way.
TodoOf(k) ==
    CASE k = "clone" -> {CloneRepo, <<"start", "clone", "config">>, <<"clone", "config">>,
                         <<"config">>, Removal, <<"delete">>}
      [] k \in {"cleanup", "destroy"} -> {Removal, <<"delete">>}
      [] k = "run" -> {<<"status", "exec">>, <<"create", "start", "exec">>,
                       <<"start", "exec">>, <<"exec">>}
      [] k = "status" -> {<<"status">>}
      [] k = "conflicts" -> {CheckConflicts, <<"switch", "merge", "query", "abort">>,
                             <<"merge", "query", "abort">>, <<"query", "abort">>, <<"abort">>}
      [] k = "crew" -> {<<"checkout", "put", "commit", "query", "push">>,
                        <<"put", "commit", "query", "push">>, <<"commit", "query", "push">>,
                        <<"query", "push">>, <<"push">>}
      [] k \in PlainKinds -> {<<"checkout">>, <<"query">>, CommitFiles, <<"commit", "query">>,
                              <<"push">>, <<"post">>}
      [] OTHER -> {}

Trees == [stage : {"empty", "cloned", "ready"}, head : Branches, branches : SUBSET Branches,
          on : SUBSET (Branches \X Works), dirty : SUBSET Works, merging : BOOLEAN]

OpsOK ==
    /\ kind \in [Requests -> GitKinds \cup ExecKinds \cup {"none"}]
    /\ work \in [Requests -> Works] /\ hold \in [Requests -> Ids \cup {None}]
    /\ DOMAIN todo = Requests /\ result \in [Requests -> {"ok", "failed"}]
    /\ \A q \in Requests : Active(q) => todo[q] \in TodoOf(kind[q])

TypeInv ==
    /\ container \in [Ids -> {"absent", "created", "running", "exited", "gone"}]
    /\ tree \in [Ids -> Trees]
    /\ origin \subseteq Branches \X Works
    /\ sandbox \in [Owners -> Ids \cup {None}]
    /\ alone \in [Requests -> BOOLEAN]
    /\ left \subseteq Ids \X Commands \X Works
    /\ OpsOK

Making(q) == Active(q) /\ Head(todo[q]) \in MakingCalls
Removing(q) == Active(q) /\ Head(todo[q]) \in RemovingCalls

\* Nobody knows of a container that is yet to be made.
Known ==
    /\ \A o \in Owners : sandbox[o] # None => container[sandbox[o]] # "absent"
    /\ \A q \in Requests : Active(q) /\ hold[q] # None => container[hold[q]] # "absent"
    /\ \A c \in left : container[c[1]] # "absent"

\* A sandbox that is being made is known to the operation that makes it, and to no other.
OwnsWhatItMakes ==
    \A q \in Requests : Making(q) =>
        /\ hold[q] # None /\ hold[q] \notin Registered
        /\ \A r \in Requests \ {q} : Active(r) => hold[r] # hold[q]

\* A sandbox is forgotten before it is removed.
ForgottenFirst ==
    \A q \in Requests : Removing(q) => hold[q] # None /\ hold[q] \notin Registered

\* The user's sandbox is not the voyage's.
Apart == sandbox["user"] = sandbox["voyage"] => sandbox["user"] = None

\* A clone that outlived its call has nobody who would register its sandbox.
LateCloneIsLost ==
    \A c \in left : c[2] = "clone" =>
        c[1] \notin Registered /\ \A q \in Requests : Making(q) => hold[q] # c[1]

\* The voyage's sandbox is a complete clone.
RepoIsReady == sandbox["voyage"] # None => tree[sandbox["voyage"]].stage = "ready"

\* A clone that begins holds nothing yet.
BeginsWithNothing ==
    \A q \in Requests : kind[q] = "clone" /\ At(q, "create") => hold[q] = None

SandboxInv ==
    /\ Known /\ OwnsWhatItMakes /\ ForgottenFirst /\ Apart /\ LateCloneIsLost /\ RepoIsReady
    /\ BeginsWithNothing

\* The commit of a crew member that nothing of the voyage overlapped.
Lone(q) == kind[q] = "crew" /\ alone[q] /\ Active(q)

\* How far it is.
Progress(q) ==
    LET t == tree[hold[q]] b == Author[work[q]] call == Head(todo[q]) IN
    /\ call = "put" => t.head = b
    /\ call = "commit" => t.head = b /\ work[q] \in t.dirty
    /\ call \in {"query", "push"} => <<b, work[q]>> \in t.on

LoneInv ==
    /\ \A q \in Requests : Lone(q) =>
        /\ hold[q] # None /\ hold[q] = sandbox["voyage"]
        /\ \A r \in Requests \ {q} : ~(Active(r) /\ OfVoyage(r))
        /\ \A c \in left : c[2] = "exec"
        /\ Progress(q)
    /\ DeliveredWhenAlone

\* A container about to be started was created, and nothing else was done to it.
Unstarted == \A q \in Requests : At(q, "start") => container[hold[q]] = "created"

IInv == TypeInv /\ SandboxInv /\ LoneInv /\ Unstarted

-----------------------------------------------------------------------------
(* The calls of an operation, one after the other *)

\* The calls that an operation makes.
CallsOf(k) ==
    CASE k = "clone" -> {"create", "start", "clone", "config", "kill", "delete"}
      [] k \in {"cleanup", "destroy"} -> {"kill", "delete"}
      [] k = "run" -> {"status", "create", "start", "exec"}
      [] k = "status" -> {"status"}
      [] k = "conflicts" -> {"query", "switch", "merge", "abort"}
      [] k = "crew" -> {"checkout", "put", "commit", "query", "push"}
      [] k \in PlainKinds -> {"checkout", "query", "put", "commit", "push", "post"}
      [] OTHER -> {}

\* The next of the calls t is c; "end" is none.
NextIs(t, c) == IF c = "end" THEN t = <<>> ELSE t # <<>> /\ Head(t) = c

\* What follows the call of an operation.
LEMMA OneCall == ASSUME NEW a PROVE <<a>> # <<>> /\ Head(<<a>>) = a /\ Tail(<<a>>) = <<>>
BY SMT
LEMMA TwoCalls ==
    ASSUME NEW a, NEW b
    PROVE  <<a, b>> # <<>> /\ Head(<<a, b>>) = a /\ Tail(<<a, b>>) = <<b>>
BY SMT
LEMMA ThreeCalls ==
    ASSUME NEW a, NEW b, NEW c
    PROVE  <<a, b, c>> # <<>> /\ Head(<<a, b, c>>) = a /\ Tail(<<a, b, c>>) = <<b, c>>
BY SMT
LEMMA FourCalls ==
    ASSUME NEW a, NEW b, NEW c, NEW d
    PROVE  <<a, b, c, d>> # <<>> /\ Head(<<a, b, c, d>>) = a
           /\ Tail(<<a, b, c, d>>) = <<b, c, d>>
BY SMT
LEMMA FiveCalls ==
    ASSUME NEW a, NEW b, NEW c, NEW d, NEW e
    PROVE  <<a, b, c, d, e>> # <<>> /\ Head(<<a, b, c, d, e>>) = a
           /\ Tail(<<a, b, c, d, e>>) = <<b, c, d, e>>
BY SMT

LEMMA CloneCalls ==
    ASSUME NEW t \in TodoOf("clone")
    PROVE  /\ t # <<>> /\ Head(t) \in CallsOf("clone")
           /\ Tail(t) = <<>> \/ Tail(t) \in TodoOf("clone")
           /\ Head(t) = "create" => NextIs(Tail(t), "start")
           /\ Head(t) = "start" => NextIs(Tail(t), "clone")
           /\ Head(t) = "clone" => NextIs(Tail(t), "config")
           /\ Head(t) = "config" => NextIs(Tail(t), "end")
           /\ Head(t) = "kill" => NextIs(Tail(t), "delete")
           /\ Head(t) = "delete" => NextIs(Tail(t), "end")
<1>1. TodoOf("clone") = {<<"create", "start", "clone", "config">>,
                    <<"start", "clone", "config">>,
                    <<"clone", "config">>,
                    <<"config">>,
                    <<"kill", "delete">>,
                    <<"delete">>}
  BY DEF TodoOf, PlainKinds, CloneRepo, Removal
<1>2. CallsOf("clone") = {"create", "start", "clone", "config", "kill", "delete"}
  BY DEF CallsOf, PlainKinds
<1>3. CASE t = <<"create", "start", "clone", "config">>
  BY <1>1, <1>2, <1>3, FourCalls, ThreeCalls DEF NextIs
<1>4. CASE t = <<"start", "clone", "config">>
  BY <1>1, <1>2, <1>4, ThreeCalls, TwoCalls DEF NextIs
<1>5. CASE t = <<"clone", "config">>
  BY <1>1, <1>2, <1>5, TwoCalls, OneCall DEF NextIs
<1>6. CASE t = <<"config">>
  BY <1>1, <1>2, <1>6, OneCall DEF NextIs
<1>7. CASE t = <<"kill", "delete">>
  BY <1>1, <1>2, <1>7, TwoCalls, OneCall DEF NextIs
<1>8. CASE t = <<"delete">>
  BY <1>1, <1>2, <1>8, OneCall DEF NextIs
<1> QED BY <1>1, <1>2, <1>3, <1>4, <1>5, <1>6, <1>7, <1>8

LEMMA RunCalls ==
    ASSUME NEW t \in TodoOf("run")
    PROVE  /\ t # <<>> /\ Head(t) \in CallsOf("run")
           /\ Tail(t) = <<>> \/ Tail(t) \in TodoOf("run")
           /\ Head(t) = "status" => NextIs(Tail(t), "exec")
           /\ Head(t) = "create" => NextIs(Tail(t), "start")
           /\ Head(t) = "start" => NextIs(Tail(t), "exec")
           /\ Head(t) = "exec" => NextIs(Tail(t), "end")
<1>1. TodoOf("run") = {<<"status", "exec">>,
                    <<"create", "start", "exec">>,
                    <<"start", "exec">>,
                    <<"exec">>}
  BY DEF TodoOf, PlainKinds
<1>2. CallsOf("run") = {"status", "create", "start", "exec"}
  BY DEF CallsOf, PlainKinds
<1>3. CASE t = <<"status", "exec">>
  BY <1>1, <1>2, <1>3, TwoCalls, OneCall DEF NextIs
<1>4. CASE t = <<"create", "start", "exec">>
  BY <1>1, <1>2, <1>4, ThreeCalls, TwoCalls DEF NextIs
<1>5. CASE t = <<"start", "exec">>
  BY <1>1, <1>2, <1>5, TwoCalls, OneCall DEF NextIs
<1>6. CASE t = <<"exec">>
  BY <1>1, <1>2, <1>6, OneCall DEF NextIs
<1> QED BY <1>1, <1>2, <1>3, <1>4, <1>5, <1>6

LEMMA CrewCalls ==
    ASSUME NEW t \in TodoOf("crew")
    PROVE  /\ t # <<>> /\ Head(t) \in CallsOf("crew")
           /\ Tail(t) = <<>> \/ Tail(t) \in TodoOf("crew")
           /\ Head(t) = "checkout" => NextIs(Tail(t), "put")
           /\ Head(t) = "put" => NextIs(Tail(t), "commit")
           /\ Head(t) = "commit" => NextIs(Tail(t), "query")
           /\ Head(t) = "query" => NextIs(Tail(t), "push")
           /\ Head(t) = "push" => NextIs(Tail(t), "end")
<1>1. TodoOf("crew") = {<<"checkout", "put", "commit", "query", "push">>,
                    <<"put", "commit", "query", "push">>,
                    <<"commit", "query", "push">>,
                    <<"query", "push">>,
                    <<"push">>}
  BY DEF TodoOf, PlainKinds
<1>2. CallsOf("crew") = {"checkout", "put", "commit", "query", "push"}
  BY DEF CallsOf, PlainKinds
<1>3. CASE t = <<"checkout", "put", "commit", "query", "push">>
  BY <1>1, <1>2, <1>3, FiveCalls, FourCalls DEF NextIs
<1>4. CASE t = <<"put", "commit", "query", "push">>
  BY <1>1, <1>2, <1>4, FourCalls, ThreeCalls DEF NextIs
<1>5. CASE t = <<"commit", "query", "push">>
  BY <1>1, <1>2, <1>5, ThreeCalls, TwoCalls DEF NextIs
<1>6. CASE t = <<"query", "push">>
  BY <1>1, <1>2, <1>6, TwoCalls, OneCall DEF NextIs
<1>7. CASE t = <<"push">>
  BY <1>1, <1>2, <1>7, OneCall DEF NextIs
<1> QED BY <1>1, <1>2, <1>3, <1>4, <1>5, <1>6, <1>7

LEMMA ConflictCalls ==
    ASSUME NEW t \in TodoOf("conflicts")
    PROVE  /\ t # <<>> /\ Head(t) \in CallsOf("conflicts")
           /\ Tail(t) = <<>> \/ Tail(t) \in TodoOf("conflicts")
           /\ Head(t) = "merge" => Tail(Tail(t)) \in TodoOf("conflicts")
<1>1. TodoOf("conflicts") = {<<"query", "switch", "merge", "query", "abort">>,
                    <<"switch", "merge", "query", "abort">>,
                    <<"merge", "query", "abort">>,
                    <<"query", "abort">>,
                    <<"abort">>}
  BY DEF TodoOf, PlainKinds, CheckConflicts
<1>2. CallsOf("conflicts") = {"query", "switch", "merge", "abort"}
  BY DEF CallsOf, PlainKinds
<1>3. CASE t = <<"query", "switch", "merge", "query", "abort">>
  BY <1>1, <1>2, <1>3, FiveCalls, FourCalls, ThreeCalls DEF NextIs
<1>4. CASE t = <<"switch", "merge", "query", "abort">>
  BY <1>1, <1>2, <1>4, FourCalls, ThreeCalls, TwoCalls DEF NextIs
<1>5. CASE t = <<"merge", "query", "abort">>
  BY <1>1, <1>2, <1>5, ThreeCalls, TwoCalls, OneCall DEF NextIs
<1>6. CASE t = <<"query", "abort">>
  BY <1>1, <1>2, <1>6, TwoCalls, OneCall DEF NextIs
<1>7. CASE t = <<"abort">>
  BY <1>1, <1>2, <1>7, OneCall DEF NextIs
<1> QED BY <1>1, <1>2, <1>3, <1>4, <1>5, <1>6, <1>7

LEMMA RemovalCalls ==
    ASSUME NEW k \in {"cleanup", "destroy"}, NEW t \in TodoOf(k)
    PROVE  /\ t # <<>> /\ Head(t) \in CallsOf(k)
           /\ Tail(t) = <<>> \/ Tail(t) \in TodoOf(k)
           /\ Head(t) = "kill" => NextIs(Tail(t), "delete")
           /\ Head(t) = "delete" => NextIs(Tail(t), "end")
<1>1. TodoOf(k) = {<<"kill", "delete">>, <<"delete">>}
  BY DEF TodoOf, PlainKinds, Removal
<1>2. CallsOf(k) = {"kill", "delete"}
  BY DEF CallsOf, PlainKinds
<1>3. CASE t = <<"kill", "delete">>
  BY <1>1, <1>2, <1>3, TwoCalls, OneCall DEF NextIs
<1>4. CASE t = <<"delete">>
  BY <1>1, <1>2, <1>4, OneCall DEF NextIs
<1> QED BY <1>1, <1>3, <1>4

LEMMA StatusCalls ==
    ASSUME NEW t \in TodoOf("status")
    PROVE  t # <<>> /\ Head(t) \in CallsOf("status") /\ Tail(t) = <<>>
<1>1. TodoOf("status") = {<<"status">>}
  BY DEF TodoOf, PlainKinds
<1>2. CallsOf("status") = {"status"}
  BY DEF CallsOf, PlainKinds
<1> QED BY <1>1, <1>2, OneCall

LEMMA PlainCalls ==
    ASSUME NEW k \in PlainKinds, NEW t \in TodoOf(k)
    PROVE  /\ t # <<>> /\ Head(t) \in CallsOf(k)
           /\ Tail(t) = <<>> \/ Tail(t) \in TodoOf(k)
<1>1. TodoOf(k) = {<<"checkout">>, <<"query">>, <<"put", "commit", "query">>,
                   <<"commit", "query">>, <<"push">>, <<"post">>}
  BY DEF TodoOf, PlainKinds, CommitFiles
<1>2. CallsOf(k) = {"checkout", "query", "put", "commit", "push", "post"}
  BY DEF CallsOf, PlainKinds
<1>3. CASE t = <<"put", "commit", "query">>
  BY <1>1, <1>2, <1>3, ThreeCalls
<1>4. CASE t = <<"commit", "query">>
  BY <1>1, <1>2, <1>4, TwoCalls
<1>5. CASE t \in {<<"checkout">>, <<"query">>, <<"push">>, <<"post">>}
  <2>1. PICK c \in {"checkout", "query", "push", "post"} : t = <<c>>
    BY <1>5
  <2> QED BY <1>2, <2>1, OneCall
<1> QED BY <1>1, <1>3, <1>4, <1>5

\* Which operations make a call.
LEMMA Callers ==
    ASSUME NEW k, NEW c \in CallsOf(k)
    PROVE  /\ k \in GitKinds \cup ExecKinds
           /\ c \in {"create", "start"} => k \in {"clone", "run"}
           /\ c \in {"clone", "config"} => k = "clone"
           /\ c \in RemovingCalls => k \in {"clone", "cleanup", "destroy"}
           /\ c = "merge" => k = "conflicts"
           /\ c = "status" => k \in {"run", "status"}
           /\ k \in ExecKinds /\ c \in Commands => c = "exec"
BY DEF CallsOf, PlainKinds, GitKinds, ExecKinds, Commands, RemovingCalls

\* What is left of an operation after a call is left of one of its kind.
LEMMA Calls ==
    ASSUME NEW k, NEW t \in TodoOf(k)
    PROVE  /\ t # <<>> /\ Head(t) \in CallsOf(k)
           /\ Tail(t) = <<>> \/ Tail(t) \in TodoOf(k)
           /\ Head(t) = "merge" => Tail(Tail(t)) \in TodoOf(k)
<1>1. k \in {"clone", "cleanup", "destroy", "run", "status", "conflicts", "crew"} \cup PlainKinds
  BY DEF TodoOf
<1>2. /\ t # <<>> /\ Head(t) \in CallsOf(k)
      /\ Tail(t) = <<>> \/ Tail(t) \in TodoOf(k)
  BY <1>1, CloneCalls, RemovalCalls, RunCalls, StatusCalls, ConflictCalls, CrewCalls, PlainCalls
<1>3. Head(t) = "merge" => Tail(Tail(t)) \in TodoOf(k)
  BY <1>2, Callers, ConflictCalls
<1> QED BY <1>2, <1>3

\* The calls of CrewCommit, the concatenation of three methods.
LEMMA CrewCommitCalls == CrewCommit = <<"checkout", "put", "commit", "query", "push">>
<1> DEFINE S == {"checkout", "put", "commit", "query", "push"}
           a == <<"checkout">>
           b == <<"put", "commit", "query">>
           c == <<"push">>
           d == <<"checkout", "put", "commit", "query", "push">>
           ab == a \o b
           abc == ab \o c
<1>1. a \in Seq(S) /\ Len(a) = 1 /\ a[1] = "checkout"
  BY SMT
<1>2. b \in Seq(S) /\ Len(b) = 3 /\ b[1] = "put" /\ b[2] = "commit" /\ b[3] = "query"
  <2>1. b \in Seq(S)
    OBVIOUS
  <2>2. Len(b) = 3 /\ b[1] = "put"
    BY SMT
  <2>3. b[2] = "commit" /\ b[3] = "query"
    BY SMT
  <2> QED BY <2>1, <2>2, <2>3
<1>3. c \in Seq(S) /\ Len(c) = 1 /\ c[1] = "push"
  BY SMT
<1>4. d \in Seq(S) /\ Len(d) = 5 /\ d[1] = "checkout" /\ d[2] = "put"
      /\ d[3] = "commit" /\ d[4] = "query" /\ d[5] = "push"
  <2>1. d \in Seq(S)
    OBVIOUS
  <2>2. Len(d) = 5 /\ d[1] = "checkout"
    BY SMT
  <2>3. d[2] = "put" /\ d[3] = "commit"
    BY SMT
  <2>4. d[4] = "query" /\ d[5] = "push"
    BY SMT
  <2> QED BY <2>1, <2>2, <2>3, <2>4
<1> HIDE DEF S, a, b, c, d
<1>5. /\ ab \in Seq(S) /\ Len(ab) = Len(a) + Len(b)
      /\ \A i \in 1..Len(a) + Len(b) : ab[i] = IF i <= Len(a) THEN a[i] ELSE b[i - Len(a)]
  BY <1>1, <1>2, ConcatProperties
<1> HIDE DEF ab
<1>6. Len(ab) = 4 /\ ab[1] = "checkout" /\ ab[2] = "put" /\ ab[3] = "commit" /\ ab[4] = "query"
  BY <1>1, <1>2, <1>5, SMT
<1>7. /\ abc \in Seq(S) /\ Len(abc) = Len(ab) + Len(c)
      /\ \A i \in 1..Len(ab) + Len(c) : abc[i] = IF i <= Len(ab) THEN ab[i] ELSE c[i - Len(ab)]
  <2>1. ab \in Seq(S) /\ c \in Seq(S)
    BY <1>3, <1>5
  <2> QED BY <2>1, ConcatProperties, Zenon
<1> HIDE DEF abc
<1>8. Len(abc) = 5 /\ abc[1] = "checkout" /\ abc[2] = "put" /\ abc[3] = "commit"
      /\ abc[4] = "query" /\ abc[5] = "push"
  BY <1>3, <1>6, <1>7, SMT
<1>9. abc = d
  BY <1>4, <1>7, <1>8, SMT
<1> QED BY <1>9 DEF a, b, c, d, ab, abc, CrewCommit, CreateBranch, CommitFiles, PushBranch

\* The calls each kind of operation begins with.
LEMMA GitScripts ==
    ASSUME NEW k \in DOMAIN GitScript
    PROVE  /\ k \in GitKinds /\ GitScript[k] \in TodoOf(k)
           /\ k = "clone" => NextIs(GitScript[k], "create")
           /\ k = "crew" => NextIs(GitScript[k], "checkout")
           /\ k = "cleanup" => NextIs(GitScript[k], "kill")
<1>1. k \in GitKinds
  BY DEF GitScript, GitKinds, PlainKinds
<1>2. CASE k = "clone"
  <2>1. GitScript[k] = CloneRepo
    BY <1>2 DEF GitScript
  <2>2. CloneRepo \in TodoOf("clone") /\ Head(CloneRepo) = "create" /\ CloneRepo # <<>>
    BY FourCalls DEF TodoOf, PlainKinds, CloneRepo
  <2> QED BY <1>1, <1>2, <2>1, <2>2 DEF NextIs
<1>3. CASE k = "cleanup"
  <2>1. GitScript[k] = Removal
    BY <1>3 DEF GitScript
  <2>2. Removal \in TodoOf("cleanup") /\ Head(Removal) = "kill" /\ Removal # <<>>
    BY TwoCalls DEF TodoOf, PlainKinds, Removal
  <2> QED BY <1>1, <1>3, <2>1, <2>2 DEF NextIs
<1>4. CASE k = "crew"
  <2>1. GitScript[k] = <<"checkout", "put", "commit", "query", "push">>
    BY <1>4, CrewCommitCalls DEF GitScript
  <2>2. GitScript[k] \in TodoOf("crew")
    BY <2>1 DEF TodoOf, PlainKinds
  <2> QED BY <1>1, <1>4, <2>1, <2>2, FiveCalls DEF NextIs
<1>5. CASE k = "conflicts"
  <2>1. GitScript[k] = CheckConflicts
    BY <1>5 DEF GitScript
  <2> QED BY <1>1, <1>5, <2>1 DEF TodoOf, PlainKinds
<1>6. CASE k \in PlainKinds
  <2>1. TodoOf(k) = {<<"checkout">>, <<"query">>, CommitFiles, <<"commit", "query">>,
                     <<"push">>, <<"post">>}
    BY <1>6 DEF TodoOf, PlainKinds
  <2>2. GitScript[k] \in {<<"checkout">>, <<"query">>, CommitFiles, <<"push">>, <<"post">>}
    BY <1>6 DEF PlainKinds, GitScript, CreateBranch, ListBranches, PushBranch, ReadRefs,
                ReadFiles, CreatePr
  <2> QED BY <1>1, <1>6, <2>1, <2>2 DEF PlainKinds
<1> QED BY <1>1, <1>2, <1>3, <1>4, <1>5, <1>6 DEF GitKinds

-----------------------------------------------------------------------------
(* What a step does to the operations *)

\* The operations but q are where they were.
OthersStay(q) ==
    \A r \in Requests \ {q} :
        /\ kind'[r] = kind[r] /\ work'[r] = work[r] /\ todo'[r] = todo[r]
        /\ hold'[r] = hold[r] /\ result'[r] = result[r]

\* The operation is the same, and is where it is with its todo and its sandbox.
MovesTo(q, t, s, how) ==
    /\ OthersStay(q) /\ kind'[q] = kind[q] /\ work'[q] = work[q]
    /\ todo'[q] = t /\ hold'[q] = s /\ result'[q] = how

LEMMA MovesKeepOps ==
    ASSUME OpsOK, NEW q \in Requests, NEW t, NEW s \in Ids \cup {None}, NEW how \in {"ok", "failed"},
           t = <<>> \/ t \in TodoOf(kind[q]),
           todo' = [todo EXCEPT ![q] = t], hold' = [hold EXCEPT ![q] = s],
           result' = [result EXCEPT ![q] = how], UNCHANGED <<kind, work>>
    PROVE  OpsOK' /\ MovesTo(q, t, s, how)
<1>1. /\ DOMAIN todo' = Requests /\ todo'[q] = t
      /\ \A r \in Requests \ {q} : todo'[r] = todo[r]
  BY DEF OpsOK
<1>2. /\ hold' \in [Requests -> Ids \cup {None}] /\ hold'[q] = s
      /\ \A r \in Requests \ {q} : hold'[r] = hold[r]
  BY DEF OpsOK
<1>3. /\ result' \in [Requests -> {"ok", "failed"}] /\ result'[q] = how
      /\ \A r \in Requests \ {q} : result'[r] = result[r]
  BY DEF OpsOK
<1>4. ASSUME NEW r \in Requests, Active(r)'
      PROVE  todo'[r] \in TodoOf(kind'[r])
  <2>1. CASE r = q
    BY <1>1, <1>4, <2>1 DEF Active
  <2>2. CASE r # q
    BY <1>1, <1>4, <2>2 DEF Active, OpsOK
  <2> QED BY <2>1, <2>2
<1>5. OpsOK'
  BY <1>1, <1>2, <1>3, <1>4 DEF OpsOK
<1> QED BY <1>1, <1>2, <1>3, <1>5 DEF MovesTo, OthersStay

LEMMA LeaveMoves ==
    ASSUME OpsOK, NEW q \in Requests, NEW how \in {"ok", "failed"}, Leave(q, how)
    PROVE  OpsOK' /\ MovesTo(q, <<>>, None, how)
BY MovesKeepOps DEF Leave

\* The next call is made in the same sandbox, or in the voyage's.
LEMMA GoOnMoves ==
    ASSUME OpsOK, sandbox \in [Owners -> Ids \cup {None}], NEW q \in Requests, NEW rest,
           rest = <<>> \/ rest \in TodoOf(kind[q]), GoOn(q, rest)
    PROVE  /\ OpsOK'
           /\ \/ rest = <<>> /\ MovesTo(q, <<>>, None, "ok")
              \/ MovesTo(q, <<>>, None, "failed")
              \/ /\ rest # <<>>
                 /\ IF Head(rest) \in LooksUp
                      THEN sandbox["voyage"] # None
                           /\ MovesTo(q, rest, sandbox["voyage"], result[q])
                      ELSE MovesTo(q, rest, hold[q], result[q])
<1>1. CASE rest = <<>>
  BY <1>1, LeaveMoves DEF GoOn
<1>2. CASE rest # <<>> /\ Head(rest) \in LooksUp /\ sandbox["voyage"] = None
  BY <1>2, LeaveMoves DEF GoOn
<1>3. CASE rest # <<>> /\ ~(Head(rest) \in LooksUp /\ sandbox["voyage"] = None)
  <2> DEFINE s == IF Head(rest) \in LooksUp THEN sandbox["voyage"] ELSE hold[q]
  <2>1. s \in Ids \cup {None} /\ result[q] \in {"ok", "failed"}
    BY DEF OpsOK, Owners
  <2>2. todo' = [todo EXCEPT ![q] = rest] /\ UNCHANGED <<kind, work, result>>
    BY <1>3, Zenon DEF GoOn
  <2>3. hold' = [hold EXCEPT ![q] = s]
    <3>1. hold = [hold EXCEPT ![q] = hold[q]]
      BY DEF OpsOK
    <3>2. hold' = IF Head(rest) \in LooksUp THEN [hold EXCEPT ![q] = sandbox["voyage"]] ELSE hold
      BY <1>3, Zenon DEF GoOn
    <3> QED BY <3>1, <3>2
  <2>4. result' = [result EXCEPT ![q] = result[q]]
    BY <2>2 DEF OpsOK
  <2> HIDE DEF s
  <2>5. OpsOK' /\ MovesTo(q, rest, s, result[q])
    BY <1>3, <2>1, <2>2, <2>3, <2>4, MovesKeepOps
  <2> QED BY <1>3, <2>5 DEF s
<1> QED BY <1>1, <1>2, <1>3

\* A clone that fails in its sandbox removes it; everything else that fails ends.
LEMMA FailMoves ==
    ASSUME OpsOK, NEW q \in Requests, Fail(q)
    PROVE  /\ OpsOK'
           /\ \/ MovesTo(q, <<>>, None, "failed")
              \/ /\ kind[q] = "clone" /\ hold[q] # None /\ Head(todo[q]) \in {"clone", "config"}
                 /\ MovesTo(q, Removal, hold[q], "failed")
<1>1. CASE kind[q] = "clone" /\ hold[q] # None /\ Head(todo[q]) \in {"clone", "config"}
  <2>1. /\ todo' = [todo EXCEPT ![q] = Removal] /\ UNCHANGED <<kind, work, hold>>
        /\ result' = [result EXCEPT ![q] = "failed"]
    BY <1>1 DEF Fail
  <2>2. hold' = [hold EXCEPT ![q] = hold[q]] /\ hold[q] \in Ids \cup {None}
    BY <2>1 DEF OpsOK
  <2>3. Removal \in TodoOf(kind[q])
    BY <1>1 DEF TodoOf, PlainKinds
  <2> QED BY <1>1, <2>1, <2>2, <2>3, MovesKeepOps
<1>2. CASE ~(kind[q] = "clone" /\ hold[q] # None /\ Head(todo[q]) \in {"clone", "config"})
  <2>1. Leave(q, "failed")
    BY <1>2 DEF Fail
  <2> QED BY <2>1, LeaveMoves
<1> QED BY <1>1, <1>2

\* An operation begins.
LEMMA EnterMoves ==
    ASSUME OpsOK, NEW q \in Requests, NEW k \in GitKinds \cup ExecKinds, NEW w \in Works,
           NEW s \in Ids \cup {None}, NEW calls \in TodoOf(k), Enter(q, k, w, s, calls)
    PROVE  /\ OpsOK' /\ OthersStay(q) /\ ~Active(q)
           /\ kind'[q] = k /\ work'[q] = w /\ todo'[q] = calls /\ hold'[q] = s /\ result'[q] = "ok"
<1>1. /\ ~Active(q)
      /\ kind' = [kind EXCEPT ![q] = k] /\ work' = [work EXCEPT ![q] = w]
      /\ todo' = [todo EXCEPT ![q] = calls] /\ hold' = [hold EXCEPT ![q] = s]
      /\ result' = [result EXCEPT ![q] = "ok"]
  BY DEF Enter
<1>2. /\ DOMAIN todo' = Requests /\ todo'[q] = calls
      /\ \A r \in Requests \ {q} : todo'[r] = todo[r]
  BY <1>1 DEF OpsOK
<1>3. /\ kind' \in [Requests -> GitKinds \cup ExecKinds \cup {"none"}] /\ kind'[q] = k
      /\ \A r \in Requests \ {q} : kind'[r] = kind[r]
  BY <1>1 DEF OpsOK
<1>4. /\ work' \in [Requests -> Works] /\ work'[q] = w
      /\ \A r \in Requests \ {q} : work'[r] = work[r]
  BY <1>1 DEF OpsOK
<1>5. /\ hold' \in [Requests -> Ids \cup {None}] /\ hold'[q] = s
      /\ \A r \in Requests \ {q} : hold'[r] = hold[r]
  BY <1>1 DEF OpsOK
<1>6. /\ result' \in [Requests -> {"ok", "failed"}] /\ result'[q] = "ok"
      /\ \A r \in Requests \ {q} : result'[r] = result[r]
  BY <1>1 DEF OpsOK
<1>7. ASSUME NEW r \in Requests, Active(r)'
      PROVE  todo'[r] \in TodoOf(kind'[r])
  <2>1. CASE r = q
    BY <1>2, <1>3, <2>1
  <2>2. CASE r # q
    BY <1>2, <1>3, <1>7, <2>2 DEF Active, OpsOK
  <2> QED BY <2>1, <2>2
<1>8. OpsOK'
  BY <1>2, <1>3, <1>4, <1>5, <1>6, <1>7 DEF OpsOK
<1> QED BY <1>1, <1>2, <1>3, <1>4, <1>5, <1>6, <1>8 DEF OthersStay

-----------------------------------------------------------------------------
(* What a command does to a repository *)

\* What is on a branch is the work of the phases, here and in the remote repository.
LEMMA BranchWork ==
    ASSUME origin \subseteq Branches \X Works, NEW t \in Trees, NEW b
    PROVE  Remote(b) \subseteq Works /\ On(t, b) \subseteq Works
BY DEF Remote, On

LEMMA AuthorsBranch == ASSUME NEW w \in Works PROVE Author[w] \in Branches
BY AuthorAssumption DEF Branches

\* A command leaves a repository, and leaves a clone that is complete so unless it clones.
LEMMA AfterCommand ==
    ASSUME origin \subseteq Branches \X Works, NEW t \in Trees, NEW c \in Commands,
           NEW w \in Works, NEW u \in After(t, c, w)
    PROVE  /\ u \in Trees
           /\ c # "clone" /\ t.stage = "ready" => u.stage = "ready"
           /\ c = "config" => u.stage = "ready"
           /\ c \in {"exec", "query", "push"} => u = t
           /\ c = "checkout" => u.head = Author[w]
           /\ c = "put" => u.head = t.head /\ w \in u.dirty
           /\ c = "commit" => \A x \in t.dirty : <<t.head, x>> \in u.on
<1> DEFINE b == Author[w]
<1>0. /\ b \in Branches /\ Main \in Branches
      /\ \A d : Remote(d) \subseteq Works
      /\ t.stage \in {"empty", "cloned", "ready"} /\ t.head \in Branches
      /\ t.branches \subseteq Branches /\ t.on \subseteq Branches \X Works
      /\ t.dirty \subseteq Works /\ t.merging \in BOOLEAN
  BY AuthorsBranch, BranchWork DEF Branches, Trees
<1>1. CASE c = "clone"
  <2>1. u = [t EXCEPT !.stage = "cloned", !.branches = {Main}, !.on = {Main} \X Remote(Main)]
    BY <1>1 DEF After
  <2>2. {Main} \subseteq Branches /\ {Main} \X Remote(Main) \subseteq Branches \X Works
    BY <1>0
  <2>3. u \in Trees
    BY <2>1, <2>2 DEF Trees
  <2> QED BY <1>1, <2>3
<1>2. CASE c = "config"
  <2>1. u = [t EXCEPT !.stage = "ready"]
    BY <1>2 DEF After
  <2> QED BY <1>2, <2>1 DEF Trees
<1>3. CASE c = "checkout"
  <2>1. u = [t EXCEPT !.head = b, !.branches = @ \cup {b}, !.merging = FALSE,
                      !.on = @ \cup ({b} \X Remote(Main))]
    BY <1>3 DEF After
  <2>2. /\ t.branches \cup {b} \subseteq Branches
        /\ t.on \cup ({b} \X Remote(Main)) \subseteq Branches \X Works
    BY <1>0
  <2>3. /\ u \in Trees /\ u.head = b /\ u.stage = t.stage
    BY <1>0, <2>1, <2>2 DEF Trees
  <2> QED BY <1>3, <2>3
<1>4. CASE c = "put"
  <2>1. u = [t EXCEPT !.dirty = @ \cup {w}]
    BY <1>4 DEF After
  <2>2. t.dirty \cup {w} \subseteq Works
    BY <1>0
  <2>3. u \in Trees /\ u.stage = t.stage /\ u.head = t.head /\ u.dirty = t.dirty \cup {w}
    BY <2>1, <2>2 DEF Trees
  <2> QED BY <1>4, <2>3
<1>5. CASE c = "commit"
  <2>1. PICK merged \in IF t.merging THEN {Remote(d) : d \in Branches}
                         ELSE IF t.dirty # {} THEN {{}} ELSE {} :
           u = [t EXCEPT !.on = @ \cup ({t.head} \X (t.dirty \cup merged)),
                         !.dirty = {}, !.merging = FALSE]
    BY <1>5 DEF After
  <2>2. merged \subseteq Works
    BY <1>0, <2>1
  <2>3. t.on \cup ({t.head} \X (t.dirty \cup merged)) \subseteq Branches \X Works
    BY <1>0, <2>2
  <2>4. /\ u \in Trees /\ u.stage = t.stage
        /\ u.on = t.on \cup ({t.head} \X (t.dirty \cup merged))
    BY <2>1, <2>3 DEF Trees
  <2> QED BY <1>5, <2>4
<1>6. CASE c = "switch"
  <2>1. PICK d \in Branches :
           u = [t EXCEPT !.head = d, !.branches = @ \cup {d}, !.merging = FALSE,
                         !.on = @ \cup (IF d \in t.branches THEN {} ELSE {d} \X Remote(d))]
    BY <1>6 DEF After
  <2>2. /\ t.branches \cup {d} \subseteq Branches
        /\ t.on \cup (IF d \in t.branches THEN {} ELSE {d} \X Remote(d)) \subseteq Branches \X Works
    BY <1>0
  <2>3. u \in Trees /\ u.stage = t.stage
    BY <2>1, <2>2 DEF Trees
  <2> QED BY <1>6, <2>3
<1>7. CASE c = "merge"
  <2>1. u = t \/ u = [t EXCEPT !.merging = TRUE]
    BY <1>7 DEF After
  <2> QED BY <1>7, <2>1 DEF Trees
<1>8. CASE c = "abort"
  <2>1. u = [t EXCEPT !.merging = FALSE]
    BY <1>8 DEF After
  <2> QED BY <1>8, <2>1 DEF Trees
<1>9. CASE c = "push"
  <2>1. u \in IF b \in t.branches /\ Remote(b) \subseteq On(t, b) THEN {t} ELSE {}
    BY <1>9 DEF After
  <2> QED BY <1>9, <2>1
<1>10. CASE c \in {"query", "exec"}
  <2>1. u = t
    BY <1>10 DEF After
  <2> QED BY <1>10, <2>1
<1> QED BY <1>1, <1>2, <1>3, <1>4, <1>5, <1>6, <1>7, <1>8, <1>9, <1>10 DEF Commands

\* Only a push reaches the remote repository, with what is on the branch.
LEMMA AfterPush ==
    ASSUME origin \subseteq Branches \X Works, NEW t \in Trees, NEW c, NEW w \in Works
    PROVE  /\ origin \subseteq Pushed(t, c, w) /\ Pushed(t, c, w) \subseteq Branches \X Works
           /\ c = "push" => \A x \in On(t, Author[w]) : <<Author[w], x>> \in Pushed(t, c, w)
BY AuthorsBranch, BranchWork DEF Pushed

-----------------------------------------------------------------------------
(* Steps that neither make nor register a sandbox *)

\* The operation goes on with its sandbox or the voyage's, or ends; it goes on making or
\* removing a sandbox only as before, or removes the one it was making; it starts none.
Quiet(q) ==
    /\ OthersStay(q) /\ kind'[q] = kind[q] /\ work'[q] = work[q]
    /\ Active(q)' => Active(q) /\ hold'[q] \in {hold[q], sandbox["voyage"]}
    /\ Making(q)' => Making(q) /\ hold'[q] = hold[q]
    /\ Removing(q)' => (Making(q) \/ Removing(q)) /\ hold'[q] = hold[q]
    /\ ~At(q, "start")' /\ (kind[q] = "clone" => ~At(q, "create")')

LEMMA EndIsQuiet ==
    ASSUME NEW q \in Requests, NEW how, MovesTo(q, <<>>, None, how)
    PROVE  Quiet(q)
BY DEF MovesTo, Quiet, Active, Making, Removing, At

\* The rest of an operation is one of its kind.
LEMMA RestOfOperation ==
    ASSUME OpsOK, NEW q \in Requests, Active(q), NEW rest \in Rest(q)
    PROVE  /\ Head(todo[q]) \in CallsOf(kind[q])
           /\ rest = <<>> \/ rest \in TodoOf(kind[q])
           /\ Head(todo[q]) # "merge" => rest = Tail(todo[q])
<1>1. todo[q] \in TodoOf(kind[q])
  BY DEF OpsOK
<1>2. rest = Tail(todo[q]) \/ (Head(todo[q]) = "merge" /\ rest = Tail(Tail(todo[q])))
  BY DEF Rest, At
<1> QED BY <1>1, <1>2, Calls

LEMMA GoOnIsQuiet ==
    ASSUME OpsOK, sandbox \in [Owners -> Ids \cup {None}], NEW q \in Requests, Active(q),
           Head(todo[q]) \in Commands \cup {"status"}, NEW rest \in Rest(q), GoOn(q, rest)
    PROVE  OpsOK' /\ Quiet(q)
<1>1. todo[q] \in TodoOf(kind[q]) /\ Head(todo[q]) \in CallsOf(kind[q])
      /\ (rest = <<>> \/ rest \in TodoOf(kind[q]))
      /\ (Head(todo[q]) # "merge" => rest = Tail(todo[q]))
  BY RestOfOperation DEF OpsOK
<1>2. OpsOK'
  BY <1>1, GoOnMoves
<1>3. CASE \E how : MovesTo(q, <<>>, None, how)
  BY <1>2, <1>3, EndIsQuiet
<1>4. ASSUME rest # <<>>,
             NEW s \in {hold[q], sandbox["voyage"]}, MovesTo(q, rest, s, result[q]),
             Head(rest) \notin LooksUp => s = hold[q]
      PROVE  Quiet(q)
  <2>1. /\ rest \in TodoOf(kind[q]) /\ Head(rest) \in CallsOf(kind[q])
        /\ Head(todo[q]) \notin {"create", "start", "kill", "delete"}
    BY <1>1, <1>4, Calls DEF Commands
  <2>2. Active(q)' /\ Head(todo'[q]) = Head(rest) /\ kind'[q] = kind[q] /\ work'[q] = work[q]
        /\ hold'[q] = s /\ OthersStay(q)
    BY <1>4 DEF MovesTo, Active
  <2>3. CASE kind[q] = "clone"
    <3>1. Head(todo[q]) = "clone" /\ Head(rest) = "config"
      BY <1>1, <1>4, <2>1, <2>3, CloneCalls DEF CallsOf, PlainKinds, Commands, NextIs
    <3> QED BY <1>4, <2>2, <2>3, <3>1
            DEF Quiet, Making, Removing, MakingCalls, RemovingCalls, At, LooksUp
  <2>4. CASE kind[q] = "run"
    <3>1. Head(rest) = "exec"
      BY <1>1, <1>4, <2>1, <2>4, RunCalls DEF NextIs, CallsOf, PlainKinds
    <3> QED BY <1>4, <2>2, <2>4, <3>1
            DEF Quiet, Making, Removing, MakingCalls, RemovingCalls, At
  <2>5. CASE kind[q] \notin {"clone", "run", "cleanup", "destroy"}
    <3>1. Head(rest) \notin MakingCalls \cup RemovingCalls
      BY <2>1, <2>5, Callers DEF MakingCalls, RemovingCalls
    <3> QED BY <1>4, <2>2, <2>5, <3>1 DEF Quiet, Making, MakingCalls, Removing, At
  <2>6. CASE kind[q] \in {"cleanup", "destroy"}
    BY <1>1, <2>1, <2>6 DEF CallsOf, PlainKinds
  <2> QED BY <2>3, <2>4, <2>5, <2>6
<1> QED BY <1>1, <1>2, <1>3, <1>4, GoOnMoves, Zenon

LEMMA FailIsQuiet ==
    ASSUME OpsOK, NEW q \in Requests, Active(q), Fail(q)
    PROVE  OpsOK' /\ Quiet(q) /\ (kind[q] # "clone" => ~Active(q)' /\ result'[q] = "failed")
           /\ ~Making(q)'
<1>1. OpsOK' /\ \/ MovesTo(q, <<>>, None, "failed")
                \/ /\ kind[q] = "clone" /\ hold[q] # None /\ Head(todo[q]) \in {"clone", "config"}
                   /\ MovesTo(q, Removal, hold[q], "failed")
  BY FailMoves
<1>2. CASE MovesTo(q, <<>>, None, "failed")
  BY <1>1, <1>2, EndIsQuiet DEF MovesTo, Active, Making
<1>3. CASE /\ kind[q] = "clone" /\ Head(todo[q]) \in {"clone", "config"}
           /\ MovesTo(q, Removal, hold[q], "failed")
  <2>1. Making(q)
    BY <1>3 DEF Making, MakingCalls
  <2>2. Head(Removal) = "kill" /\ Removal # <<>>
    BY TwoCalls DEF Removal
  <2>3. Active(q)' /\ Head(todo'[q]) = "kill" /\ kind'[q] = kind[q] /\ work'[q] = work[q]
        /\ hold'[q] = hold[q] /\ OthersStay(q)
    BY <1>3, <2>2 DEF MovesTo, Active
  <2> QED BY <1>1, <1>3, <2>1, <2>3 DEF Quiet, Making, Removing, MakingCalls, At
<1> QED BY <1>1, <1>2, <1>3

\* No container that was made is unmade.
NoneUnmade == \A s \in Ids : container[s] # "absent" => container'[s] # "absent"

\* A command outlives its call in the sandbox of the operation; a clone does so only when the
\* operation gives up making the sandbox.
LateFrom(q) ==
    \A c \in left' \ left :
        /\ Active(q) /\ c[1] = hold[q] /\ hold[q] # None
        /\ c[2] = "clone" => Making(q) /\ ~Making(q)'

\* A quiet step keeps what is known of the sandboxes.
LEMMA QuietKeepsSandboxes ==
    ASSUME TypeInv, SandboxInv, NEW q \in Requests, Quiet(q), sandbox' = sandbox, NoneUnmade,
           LateFrom(q), hold' \in [Requests -> Ids \cup {None}], left' \subseteq Ids \X Commands \X Works,
           sandbox["voyage"] # None /\ tree[sandbox["voyage"]].stage = "ready"
               => tree'[sandbox["voyage"]].stage = "ready"
    PROVE  SandboxInv'
<1>1. /\ sandbox["user"] \in Ids \cup {None} /\ sandbox["voyage"] \in Ids \cup {None}
      /\ \A r \in Requests : hold[r] \in Ids \cup {None} /\ hold'[r] \in Ids \cup {None}
      /\ Registered = {sandbox["user"], sandbox["voyage"]} /\ Registered' = Registered
  BY DEF TypeInv, OpsOK, Owners, Registered
<1>2. \A r \in Requests \ {q} :
         /\ Active(r)' = Active(r) /\ Making(r)' = Making(r) /\ Removing(r)' = Removing(r)
         /\ hold'[r] = hold[r] /\ kind'[r] = kind[r] /\ At(r, "create")' = At(r, "create")
  BY DEF Quiet, OthersStay, Active, Making, Removing, At
<1>3. /\ Active(q)' => Active(q) /\ hold'[q] \in {hold[q], sandbox["voyage"]}
      /\ Making(q)' => Making(q) /\ hold'[q] = hold[q]
      /\ Removing(q)' => (Making(q) \/ Removing(q)) /\ hold'[q] = hold[q]
      /\ kind[q] = "clone" => ~At(q, "create")'
      /\ kind'[q] = kind[q]
  BY DEF Quiet
<1>4. Known'
  <2>1. \A o \in Owners : sandbox'[o] # None => container'[sandbox'[o]] # "absent"
    BY <1>1 DEF SandboxInv, Known, NoneUnmade, Owners
  <2>2. ASSUME NEW r \in Requests, Active(r)', hold'[r] # None
        PROVE  container'[hold'[r]] # "absent"
    <3>1. CASE r # q
      BY <1>1, <1>2, <2>2, <3>1 DEF SandboxInv, Known, NoneUnmade
    <3>2. CASE r = q /\ hold'[q] = sandbox["voyage"]
      BY <1>1, <2>2, <3>2 DEF SandboxInv, Known, NoneUnmade, Owners
    <3>3. CASE r = q /\ hold'[q] = hold[q]
      BY <1>1, <1>3, <2>2, <3>3 DEF SandboxInv, Known, NoneUnmade
    <3> QED BY <1>3, <2>2, <3>1, <3>2, <3>3
  <2>3. ASSUME NEW c \in left'
        PROVE  container'[c[1]] # "absent"
    <3>1. c[1] \in Ids
      OBVIOUS
    <3>2. container[c[1]] # "absent"
      <4>1. CASE c \in left
        BY <4>1 DEF SandboxInv, Known
      <4>2. CASE c \notin left
        BY <4>2 DEF SandboxInv, Known, LateFrom
      <4> QED BY <4>1, <4>2
    <3> QED BY <3>1, <3>2 DEF NoneUnmade
  <2> QED BY <2>1, <2>2, <2>3 DEF Known
<1>5. OwnsWhatItMakes'
  <2> SUFFICES ASSUME NEW r \in Requests, Making(r)'
               PROVE  /\ hold'[r] # None /\ hold'[r] \notin Registered
                      /\ \A p \in Requests \ {r} : Active(p)' => hold'[p] # hold'[r]
    BY <1>1 DEF OwnsWhatItMakes
  <2>1. Making(r) /\ hold'[r] = hold[r]
    BY <1>2, <1>3
  <2>2. hold[r] # None /\ hold[r] \notin Registered
        /\ \A p \in Requests \ {r} : Active(p) => hold[p] # hold[r]
    BY <2>1 DEF SandboxInv, OwnsWhatItMakes
  <2>3. ASSUME NEW p \in Requests \ {r}, Active(p)'
        PROVE  hold'[p] # hold[r]
    BY <1>1, <1>2, <1>3, <2>2, <2>3
  <2> QED BY <2>1, <2>2, <2>3
<1>6. ForgottenFirst'
  <2> SUFFICES ASSUME NEW r \in Requests, Removing(r)'
               PROVE  hold'[r] # None /\ hold'[r] \notin Registered
    BY <1>1 DEF ForgottenFirst
  <2>1. (Making(r) \/ Removing(r)) /\ hold'[r] = hold[r]
    BY <1>2, <1>3
  <2> QED BY <2>1 DEF SandboxInv, OwnsWhatItMakes, ForgottenFirst
<1>7. LateCloneIsLost'
  <2> SUFFICES ASSUME NEW c \in left', c[2] = "clone"
               PROVE  c[1] \notin Registered /\ \A r \in Requests : Making(r)' => hold'[r] # c[1]
    BY <1>1 DEF LateCloneIsLost
  <2>1. CASE c \in left
    BY <1>2, <1>3, <2>1 DEF SandboxInv, LateCloneIsLost
  <2>2. CASE c \notin left
    <3>1. Active(q) /\ c[1] = hold[q] /\ Making(q) /\ ~Making(q)'
      BY <2>2 DEF LateFrom
    <3>2. hold[q] \notin Registered /\ \A r \in Requests \ {q} : Active(r) => hold[r] # hold[q]
      BY <3>1 DEF SandboxInv, OwnsWhatItMakes
    <3>3. \A r \in Requests \ {q} : Making(r)' => Active(r) /\ hold'[r] = hold[r]
      BY <1>2 DEF Making
    <3> QED BY <3>1, <3>2, <3>3
  <2> QED BY <2>1, <2>2
<1>8. RepoIsReady' /\ Apart'
  BY <1>1 DEF SandboxInv, RepoIsReady, Apart
<1>9. BeginsWithNothing'
  BY <1>2, <1>3 DEF SandboxInv, BeginsWithNothing
<1> QED BY <1>4, <1>5, <1>6, <1>7, <1>8, <1>9 DEF SandboxInv

-----------------------------------------------------------------------------
(* Operations that begin *)

\* An operation begins with the sandbox that is registered, which is forgotten first if it is
\* to be removed.
LEMMA EnterKeepsSandboxes ==
    ASSUME TypeInv, SandboxInv, NEW q \in Requests, OthersStay(q), ~Active(q), OpsOK',
           NEW o \in Owners, hold'[q] = sandbox[o],
           sandbox' \in {sandbox, [sandbox EXCEPT ![o] = None]},
           ~Making(q)',
           Removing(q)' => hold'[q] # None /\ sandbox' = [sandbox EXCEPT ![o] = None],
           kind'[q] = "clone" => hold'[q] = None,
           UNCHANGED <<container, tree, left>>
    PROVE  SandboxInv'
<1>1. /\ sandbox["user"] \in Ids \cup {None} /\ sandbox["voyage"] \in Ids \cup {None}
      /\ o \in {"user", "voyage"}
      /\ \A r \in Requests : hold[r] \in Ids \cup {None} /\ hold'[r] \in Ids \cup {None}
      /\ Registered = {sandbox["user"], sandbox["voyage"]}
  BY DEF TypeInv, OpsOK, Owners, Registered
<1>2. /\ sandbox'["user"] \in {sandbox["user"], None}
      /\ sandbox'["voyage"] \in {sandbox["voyage"], None}
      /\ sandbox' # sandbox => sandbox'[o] = None
      /\ Registered' = {sandbox'["user"], sandbox'["voyage"]}
  BY DEF TypeInv, Owners, Registered
<1>3. \A r \in Requests \ {q} :
         /\ Active(r)' = Active(r) /\ Making(r)' = Making(r) /\ Removing(r)' = Removing(r)
         /\ hold'[r] = hold[r] /\ kind'[r] = kind[r] /\ At(r, "create")' = At(r, "create")
  BY DEF OthersStay, Active, Making, Removing, At
<1>4. None \notin Ids
  BY BoundsAssumption, SMT DEF Ids, None
<1>5. Known'
  <2>1. \A p \in Owners : sandbox'[p] # None => container[sandbox'[p]] # "absent"
    BY <1>2 DEF SandboxInv, Known, Owners
  <2>2. ASSUME NEW r \in Requests, Active(r)', hold'[r] # None
        PROVE  container[hold'[r]] # "absent"
    BY <1>3, <2>2 DEF SandboxInv, Known
  <2> QED BY <2>1, <2>2 DEF SandboxInv, Known
<1>6. OwnsWhatItMakes'
  <2> SUFFICES ASSUME NEW r \in Requests, Making(r)'
               PROVE  /\ hold'[r] # None /\ hold'[r] \notin Registered'
                      /\ \A p \in Requests \ {r} : Active(p)' => hold'[p] # hold'[r]
    BY DEF OwnsWhatItMakes
  <2>1. r # q /\ Making(r) /\ hold'[r] = hold[r]
    BY <1>3
  <2>2. hold[r] # None /\ hold[r] \notin Registered
        /\ \A p \in Requests \ {r} : Active(p) => hold[p] # hold[r]
    BY <2>1 DEF SandboxInv, OwnsWhatItMakes
  <2>3. hold[r] \notin Registered'
    BY <1>1, <1>2, <2>2
  <2>4. ASSUME NEW p \in Requests \ {r}, Active(p)'
        PROVE  hold'[p] # hold[r]
    BY <1>1, <1>3, <2>2, <2>4
  <2> QED BY <2>1, <2>2, <2>3, <2>4
<1>7. ForgottenFirst'
  <2> SUFFICES ASSUME NEW r \in Requests, Removing(r)'
               PROVE  hold'[r] # None /\ hold'[r] \notin Registered'
    BY DEF ForgottenFirst
  <2>1. CASE r = q
    <3>1. hold'[q] # None /\ hold'[q] = sandbox[o] /\ sandbox' = [sandbox EXCEPT ![o] = None]
      BY <2>1
    <3>2. sandbox["user"] # sandbox["voyage"]
      BY <1>1, <3>1 DEF SandboxInv, Apart
    <3>3. CASE o = "user"
      <4>1. sandbox'["user"] = None /\ sandbox'["voyage"] = sandbox["voyage"]
        BY <3>1, <3>3 DEF TypeInv, Owners
      <4> QED BY <1>2, <2>1, <3>1, <3>2, <3>3, <4>1
    <3>4. CASE o = "voyage"
      <4>1. sandbox'["voyage"] = None /\ sandbox'["user"] = sandbox["user"]
        BY <3>1, <3>4 DEF TypeInv, Owners
      <4> QED BY <1>2, <2>1, <3>1, <3>2, <3>4, <4>1
    <3> QED BY <1>1, <3>3, <3>4
  <2>2. CASE r # q
    BY <1>1, <1>2, <1>3, <2>2 DEF SandboxInv, ForgottenFirst
  <2> QED BY <2>1, <2>2
<1>8. LateCloneIsLost'
  <2> SUFFICES ASSUME NEW c \in left, c[2] = "clone"
               PROVE  c[1] \notin Registered' /\ \A r \in Requests : Making(r)' => hold'[r] # c[1]
    BY DEF LateCloneIsLost
  <2>1. c[1] \in Ids /\ c[1] \notin Registered /\ \A r \in Requests : Making(r) => hold[r] # c[1]
    BY DEF SandboxInv, LateCloneIsLost, TypeInv
  <2> QED BY <1>1, <1>2, <1>3, <1>4, <2>1
<1>9. RepoIsReady' /\ Apart'
  BY <1>1, <1>2 DEF SandboxInv, RepoIsReady, Apart
<1>10. BeginsWithNothing'
  BY <1>3 DEF SandboxInv, BeginsWithNothing
<1> QED BY <1>5, <1>6, <1>7, <1>8, <1>9, <1>10 DEF SandboxInv

LEMMA GitRequestKeepsSandboxes ==
    ASSUME TypeInv, SandboxInv, NEW q \in Requests, GitRequest(q)
    PROVE  TypeInv' /\ SandboxInv'
<1>1. PICK k \in Kinds \cap DOMAIN GitScript, w \in Works :
        /\ (k = "clone") = (sandbox["voyage"] = None)
        /\ Enter(q, k, w, sandbox["voyage"], GitScript[k])
        /\ sandbox' = IF k = "cleanup" THEN Popped(k) ELSE sandbox
        /\ alone' = [r \in Requests |->
                       IF r # q THEN alone[r] /\ ~Active(r)
                       ELSE left = {} /\ \A p \in Requests \ {q} : ~(Active(p) /\ OfVoyage(p))]
  BY DEF GitRequest
<1>2. UNCHANGED <<container, tree, origin, left>>
  BY DEF GitRequest
<1>3. /\ k \in GitKinds /\ GitScript[k] \in TodoOf(k)
      /\ k = "clone" => NextIs(GitScript[k], "create")
      /\ GitScript[k] # <<>> /\ Head(GitScript[k]) \in CallsOf(k)
  BY GitScripts, Calls
<1>4. sandbox["voyage"] \in Ids \cup {None} /\ "voyage" \in Owners
  BY DEF TypeInv, Owners
<1>5. /\ OpsOK' /\ OthersStay(q) /\ ~Active(q)
      /\ kind'[q] = k /\ todo'[q] = GitScript[k] /\ hold'[q] = sandbox["voyage"]
  <2>1. OpsOK /\ k \in GitKinds \cup ExecKinds
    BY <1>3 DEF TypeInv
  <2> QED BY <1>1, <1>3, <1>4, <2>1, EnterMoves
<1>6. alone' \in [Requests -> BOOLEAN]
  BY <1>1 DEF TypeInv
<1>7. sandbox' \in {sandbox, [sandbox EXCEPT !["voyage"] = None]}
      /\ (k = "cleanup" => sandbox' = [sandbox EXCEPT !["voyage"] = None])
  BY <1>1 DEF Popped
<1>8. sandbox' \in [Owners -> Ids \cup {None}]
  BY <1>4, <1>7 DEF TypeInv
<1>9. TypeInv'
  BY <1>2, <1>5, <1>6, <1>8 DEF TypeInv
<1>10. ~Making(q)'
  <2>1. Head(GitScript[k]) \notin MakingCalls
    BY <1>3, Callers DEF NextIs, MakingCalls, GitKinds, PlainKinds
  <2> QED BY <1>5, <2>1 DEF Making
<1>11. Removing(q)' => k = "cleanup"
  BY <1>3, <1>5, Callers DEF Removing, NextIs, GitKinds, PlainKinds, RemovingCalls
<1>12. SandboxInv'
  BY <1>1, <1>2, <1>4, <1>5, <1>7, <1>10, <1>11, EnterKeepsSandboxes
<1> QED BY <1>9, <1>12

LEMMA ExecRequestKeepsSandboxes ==
    ASSUME TypeInv, SandboxInv, NEW q \in Requests, ExecRequest(q)
    PROVE  TypeInv' /\ SandboxInv'
<1>1. PICK k \in Kinds \cap {"run", "status", "destroy"} :
         /\ k # "run" => sandbox["user"] # None
         /\ Enter(q, k, work[q], sandbox["user"], ExecScript(k))
         /\ sandbox' = IF k = "destroy" THEN Popped(k) ELSE sandbox
  BY DEF ExecRequest
<1>2. UNCHANGED <<container, tree, origin, alone, left>>
  BY DEF ExecRequest
<1>3. PICK calls \in TodoOf(k) :
         /\ Enter(q, k, work[q], sandbox["user"], calls)
         /\ calls # <<>> /\ Head(calls) \in {"kill", "status", "create"}
         /\ Head(calls) = "kill" => k = "destroy"
  <2>1. CASE k = "destroy"
    <3>1. Enter(q, k, work[q], sandbox["user"], Removal)
      BY <1>1, <2>1 DEF ExecScript
    <3>2. Removal \in TodoOf(k) /\ Removal # <<>> /\ Head(Removal) = "kill"
      BY <2>1, TwoCalls DEF TodoOf, PlainKinds, Removal
    <3> QED BY <2>1, <3>1, <3>2
  <2>2. CASE k = "status"
    <3>1. Enter(q, k, work[q], sandbox["user"], <<"status">>)
      BY <1>1, <2>2 DEF ExecScript
    <3>2. <<"status">> \in TodoOf(k)
      BY <2>2 DEF TodoOf, PlainKinds
    <3> QED BY <3>1, <3>2, OneCall
  <2>3. CASE k = "run"
    <3>1. \/ Enter(q, k, work[q], sandbox["user"], <<"status", "exec">>)
          \/ Enter(q, k, work[q], sandbox["user"], <<"create", "start", "exec">>)
      BY <1>1, <2>3 DEF ExecScript
    <3>2. <<"status", "exec">> \in TodoOf(k) /\ <<"create", "start", "exec">> \in TodoOf(k)
      BY <2>3 DEF TodoOf, PlainKinds
    <3> QED BY <3>1, <3>2, TwoCalls, ThreeCalls
  <2> QED BY <2>1, <2>2, <2>3
<1>4. sandbox["user"] \in Ids \cup {None} /\ "user" \in Owners /\ k \in ExecKinds
      /\ work[q] \in Works
  BY DEF TypeInv, OpsOK, Owners, ExecKinds
<1>5. /\ OpsOK' /\ OthersStay(q) /\ ~Active(q)
      /\ kind'[q] = k /\ todo'[q] = calls /\ hold'[q] = sandbox["user"]
  BY <1>3, <1>4, EnterMoves DEF TypeInv
<1>6. sandbox' \in {sandbox, [sandbox EXCEPT !["user"] = None]}
      /\ (k = "destroy" => sandbox' = [sandbox EXCEPT !["user"] = None])
  BY <1>1 DEF Popped
<1>7. sandbox' \in [Owners -> Ids \cup {None}]
  BY <1>4, <1>6 DEF TypeInv
<1>8. TypeInv'
  BY <1>2, <1>5, <1>7 DEF TypeInv
<1>9. ~Making(q)' /\ (Removing(q)' => k = "destroy")
  BY <1>3, <1>5 DEF Making, Removing, MakingCalls, RemovingCalls
<1>10. kind'[q] # "clone"
  BY <1>5
<1>11. SandboxInv'
  BY <1>1, <1>2, <1>4, <1>5, <1>6, <1>9, <1>10, EnterKeepsSandboxes
<1> QED BY <1>8, <1>11

-----------------------------------------------------------------------------
(* The backend *)

LEMMA NoneIsNoSandbox == None \notin Ids
BY BoundsAssumption, SMT DEF Ids, None

\* The operation that makes a sandbox is the only one that knows of it.
LEMMA CreateKeepsSandboxes ==
    ASSUME TypeInv, SandboxInv, NEW q \in Requests, Create(q)
    PROVE  TypeInv' /\ SandboxInv'
<1>1. PICK s \in Fresh :
        /\ container' = [container EXCEPT ![s] = "created"]
        /\ hold' = [hold EXCEPT ![q] = s]
        /\ todo' = [todo EXCEPT ![q] = Tail(@)]
  BY DEF Create
<1>2. /\ Active(q) /\ Head(todo[q]) = "create"
      /\ UNCHANGED <<tree, origin, sandbox, kind, work, result, alone, left>>
  BY DEF Create, At
<1>3. s \in Ids /\ container[s] = "absent"
  BY DEF Fresh
<1>4. /\ OpsOK /\ todo[q] \in TodoOf(kind[q])
      /\ Tail(todo[q]) = <<>> \/ Tail(todo[q]) \in TodoOf(kind[q])
      /\ Head(todo[q]) \in CallsOf(kind[q])
  BY <1>2, Calls DEF TypeInv, OpsOK
<1>5. OpsOK' /\ MovesTo(q, Tail(todo[q]), s, result[q])
  <2>1. result' = [result EXCEPT ![q] = result[q]] /\ result[q] \in {"ok", "failed"}
    BY <1>2 DEF TypeInv, OpsOK
  <2>2. todo' = [todo EXCEPT ![q] = Tail(todo[q])]
    BY <1>1
  <2>3. hold' = [hold EXCEPT ![q] = s] /\ s \in Ids \cup {None} /\ UNCHANGED <<kind, work>>
    BY <1>1, <1>2, <1>3
  <2>4. OpsOK /\ (Tail(todo[q]) = <<>> \/ Tail(todo[q]) \in TodoOf(kind[q]))
    BY <1>4
  <2> QED BY <2>1, <2>2, <2>3, <2>4, MovesKeepOps
<1>6. TypeInv'
  <2>1. container' \in [Ids -> {"absent", "created", "running", "exited", "gone"}]
    BY <1>1 DEF TypeInv
  <2> QED BY <1>2, <1>5, <2>1 DEF TypeInv
<1>7. NextIs(Tail(todo[q]), "start")
  <2>1. kind[q] \in {"clone", "run"}
    BY <1>2, <1>4, Callers
  <2> QED BY <1>2, <1>4, <2>1, CloneCalls, RunCalls
<1>8. /\ Active(q)' /\ Head(todo'[q]) = "start" /\ hold'[q] = s
      /\ Making(q)' /\ ~Removing(q)' /\ ~At(q, "create")'
  BY <1>5, <1>7 DEF MovesTo, NextIs, Active, Making, Removing, MakingCalls, RemovingCalls, At
<1>9. \A r \in Requests \ {q} :
         /\ Active(r)' = Active(r) /\ Making(r)' = Making(r) /\ Removing(r)' = Removing(r)
         /\ hold'[r] = hold[r] /\ kind'[r] = kind[r] /\ At(r, "create")' = At(r, "create")
  BY <1>5 DEF MovesTo, OthersStay, Active, Making, Removing, At
\* Nobody else knows of it.
<1>10. /\ \A r \in Requests : Active(r) => hold[r] # s
       /\ \A o \in Owners : sandbox[o] # s
       /\ \A c \in left : c[1] # s
  BY <1>3, NoneIsNoSandbox DEF SandboxInv, Known
<1>11. \A x \in Ids : container[x] # "absent" => container'[x] # "absent"
  BY <1>1 DEF TypeInv
<1>12. container'[s] # "absent" /\ s # None
  BY <1>1, <1>3, NoneIsNoSandbox DEF TypeInv
<1>13. s \notin Registered' /\ Registered' = Registered
  BY <1>2, <1>10 DEF Registered
<1>14. Known'
  <2>1. \A o \in Owners : sandbox[o] # None => container'[sandbox[o]] # "absent"
    BY <1>11 DEF SandboxInv, Known, TypeInv
  <2>2. ASSUME NEW r \in Requests, Active(r)', hold'[r] # None
        PROVE  container'[hold'[r]] # "absent"
    <3>1. CASE r = q
      BY <1>8, <1>12, <3>1
    <3>2. CASE r # q
      BY <1>9, <1>11, <2>2, <3>2 DEF SandboxInv, Known, TypeInv, OpsOK
    <3> QED BY <3>1, <3>2
  <2>3. \A c \in left : container'[c[1]] # "absent"
    BY <1>11 DEF SandboxInv, Known, TypeInv
  <2> QED BY <1>2, <2>1, <2>2, <2>3 DEF Known
<1>15. OwnsWhatItMakes'
  <2> SUFFICES ASSUME NEW r \in Requests, Making(r)'
               PROVE  /\ hold'[r] # None /\ hold'[r] \notin Registered'
                      /\ \A p \in Requests \ {r} : Active(p)' => hold'[p] # hold'[r]
    BY DEF OwnsWhatItMakes
  <2>1. CASE r = q
    BY <1>8, <1>9, <1>10, <1>12, <1>13, <2>1
  <2>2. CASE r # q
    <3>1. Making(r) /\ hold'[r] = hold[r] /\ Active(r)
      BY <1>9, <2>2 DEF Making
    <3>2. hold[r] # None /\ hold[r] \notin Registered
          /\ \A p \in Requests \ {r} : Active(p) => hold[p] # hold[r]
      BY <3>1 DEF SandboxInv, OwnsWhatItMakes
    <3>3. ASSUME NEW p \in Requests \ {r}, Active(p)'
          PROVE  hold'[p] # hold[r]
      BY <1>8, <1>9, <1>10, <3>1, <3>2, <3>3
    <3> QED BY <1>13, <3>1, <3>2, <3>3
  <2> QED BY <2>1, <2>2
<1>16. ForgottenFirst'
  BY <1>8, <1>9, <1>13 DEF SandboxInv, ForgottenFirst
<1>17. LateCloneIsLost'
  BY <1>2, <1>8, <1>9, <1>10, <1>13 DEF SandboxInv, LateCloneIsLost
<1>18. RepoIsReady' /\ Apart'
  BY <1>2 DEF SandboxInv, RepoIsReady, Apart
<1>19. BeginsWithNothing'
  BY <1>8, <1>9 DEF SandboxInv, BeginsWithNothing
<1>20. SandboxInv'
  BY <1>14, <1>15, <1>16, <1>17, <1>18, <1>19 DEF SandboxInv
<1> QED BY <1>6, <1>20

\* The sandbox that q made becomes the one of its owner: nobody else knew of it.
LEMMA RegisterKeepsSandboxes ==
    ASSUME TypeInv, SandboxInv, TypeInv', NEW q \in Requests, NEW o \in Owners,
           Making(q), ~Making(q)', ~Removing(q)', ~At(q, "create")',
           OthersStay(q), Active(q)' => hold'[q] = hold[q], kind'[q] = kind[q],
           sandbox' = [sandbox EXCEPT ![o] = hold[q]], NoneUnmade, UNCHANGED left,
           sandbox'["voyage"] # None => tree'[sandbox'["voyage"]].stage = "ready"
    PROVE  SandboxInv'
<1>1. /\ hold[q] # None /\ hold[q] \notin Registered /\ hold[q] \in Ids /\ Active(q)
      /\ \A r \in Requests \ {q} : Active(r) => hold[r] # hold[q]
  BY NoneIsNoSandbox DEF SandboxInv, OwnsWhatItMakes, Making, TypeInv, OpsOK
<1>2. /\ sandbox'[o] = hold[q] /\ \A p \in Owners \ {o} : sandbox'[p] = sandbox[p]
      /\ Registered' \subseteq Registered \cup {hold[q]}
  BY DEF TypeInv, Registered
<1>3. \A r \in Requests \ {q} :
         /\ Active(r)' = Active(r) /\ Making(r)' = Making(r) /\ Removing(r)' = Removing(r)
         /\ hold'[r] = hold[r] /\ kind'[r] = kind[r] /\ At(r, "create")' = At(r, "create")
  BY DEF OthersStay, Active, Making, Removing, At
<1>4. Known'
  <2>1. ASSUME NEW p \in Owners, sandbox'[p] # None
        PROVE  container'[sandbox'[p]] # "absent"
    <3>1. CASE p = o
      BY <1>1, <1>2, <3>1 DEF SandboxInv, Known, NoneUnmade
    <3>2. CASE p # o
      BY <1>2, <2>1, <3>2 DEF SandboxInv, Known, NoneUnmade, TypeInv
    <3> QED BY <3>1, <3>2
  <2>2. ASSUME NEW r \in Requests, Active(r)', hold'[r] # None
        PROVE  container'[hold'[r]] # "absent"
    <3>1. Active(r) /\ hold'[r] = hold[r] /\ hold[r] \in Ids
      BY <1>1, <1>3, <2>2 DEF TypeInv, OpsOK
    <3> QED BY <2>2, <3>1 DEF SandboxInv, Known, NoneUnmade
  <2>3. \A c \in left : container'[c[1]] # "absent"
    BY DEF SandboxInv, Known, TypeInv, NoneUnmade
  <2> QED BY <2>1, <2>2, <2>3 DEF Known
<1>5. OwnsWhatItMakes'
  <2> SUFFICES ASSUME NEW r \in Requests, Making(r)'
               PROVE  /\ hold'[r] # None /\ hold'[r] \notin Registered'
                      /\ \A p \in Requests \ {r} : Active(p)' => hold'[p] # hold'[r]
    BY DEF OwnsWhatItMakes
  <2>1. r # q /\ Making(r) /\ hold'[r] = hold[r] /\ Active(r)
    BY <1>3 DEF Making
  <2>2. hold[r] # None /\ hold[r] \notin Registered
        /\ \A p \in Requests \ {r} : Active(p) => hold[p] # hold[r]
    BY <2>1 DEF SandboxInv, OwnsWhatItMakes
  <2>3. hold[r] # hold[q]
    BY <1>1, <2>1
  <2>4. ASSUME NEW p \in Requests \ {r}, Active(p)'
        PROVE  hold'[p] # hold[r]
    BY <1>1, <1>3, <2>2, <2>4
  <2> QED BY <1>2, <2>1, <2>2, <2>3, <2>4
<1>6. ForgottenFirst'
  <2> SUFFICES ASSUME NEW r \in Requests, Removing(r)'
               PROVE  hold'[r] # None /\ hold'[r] \notin Registered'
    BY DEF ForgottenFirst
  <2>1. r # q /\ Removing(r) /\ hold'[r] = hold[r] /\ Active(r)
    BY <1>3 DEF Removing
  <2> QED BY <1>1, <1>2, <2>1 DEF SandboxInv, ForgottenFirst
<1>7. LateCloneIsLost'
  <2> SUFFICES ASSUME NEW c \in left, c[2] = "clone"
               PROVE  c[1] \notin Registered' /\ \A r \in Requests : Making(r)' => hold'[r] # c[1]
    BY DEF LateCloneIsLost
  <2>1. c[1] \notin Registered /\ \A r \in Requests : Making(r) => hold[r] # c[1]
    BY DEF SandboxInv, LateCloneIsLost
  <2> QED BY <1>2, <1>3, <2>1
<1>8. Apart'
  <2>1. ASSUME NEW p \in Owners \ {o}
        PROVE  sandbox'[p] # sandbox'[o]
    BY <1>1, <1>2 DEF Registered
  <2> QED BY <1>1, <1>2, <2>1 DEF Apart, Owners
<1>9. RepoIsReady'
  BY DEF RepoIsReady
<1>10. BeginsWithNothing'
  BY <1>3 DEF SandboxInv, BeginsWithNothing
<1> QED BY <1>4, <1>5, <1>6, <1>7, <1>8, <1>9, <1>10 DEF SandboxInv

LEMMA StartKeepsSandboxes ==
    ASSUME TypeInv, SandboxInv, NEW q \in Requests, Start(q)
    PROVE  TypeInv' /\ SandboxInv'
<1>1. /\ Active(q) /\ Head(todo[q]) = "start"
      /\ container' = [container EXCEPT ![hold[q]] = "running"]
      /\ todo' = [todo EXCEPT ![q] = Tail(todo[q])]
      /\ sandbox' = IF kind[q] = "run" THEN [sandbox EXCEPT !["user"] = hold[q]] ELSE sandbox
      /\ UNCHANGED <<tree, origin, kind, work, hold, result, alone, left>>
  BY DEF Start, At
<1>2. /\ OpsOK /\ todo[q] \in TodoOf(kind[q]) /\ hold[q] \in Ids \cup {None}
      /\ Tail(todo[q]) = <<>> \/ Tail(todo[q]) \in TodoOf(kind[q])
      /\ Head(todo[q]) \in CallsOf(kind[q])
  BY <1>1, Calls DEF TypeInv, OpsOK
<1>3. OpsOK' /\ MovesTo(q, Tail(todo[q]), hold[q], result[q])
  <2>1. /\ result' = [result EXCEPT ![q] = result[q]] /\ result[q] \in {"ok", "failed"}
        /\ hold' = [hold EXCEPT ![q] = hold[q]]
    BY <1>1 DEF TypeInv, OpsOK
  <2>2. todo' = [todo EXCEPT ![q] = Tail(todo[q])] /\ UNCHANGED <<kind, work>>
    BY <1>1
  <2> QED BY <1>2, <2>1, <2>2, MovesKeepOps
<1>4. Making(q) /\ hold[q] \in Ids
  <2>1. Making(q)
    BY <1>1 DEF Making, MakingCalls
  <2> QED BY <1>2, <2>1 DEF SandboxInv, OwnsWhatItMakes
<1>5. TypeInv'
  <2>1. container' \in [Ids -> {"absent", "created", "running", "exited", "gone"}]
    BY <1>1 DEF TypeInv
  <2>2. sandbox' \in [Owners -> Ids \cup {None}]
    BY <1>1, <1>2 DEF TypeInv
  <2> QED BY <1>1, <1>3, <2>1, <2>2 DEF TypeInv
<1>6. NoneUnmade
  BY <1>1 DEF NoneUnmade, TypeInv
<1>7. CASE kind[q] = "run"
  <2>1. NextIs(Tail(todo[q]), "exec")
    BY <1>1, <1>2, <1>7, RunCalls
  <2>2. /\ ~Making(q)' /\ ~Removing(q)' /\ ~At(q, "create")'
        /\ OthersStay(q) /\ hold'[q] = hold[q] /\ kind'[q] = kind[q]
    BY <1>3, <2>1 DEF MovesTo, NextIs, Making, Removing, MakingCalls, RemovingCalls, At
  <2>3. sandbox' = [sandbox EXCEPT !["user"] = hold[q]] /\ "user" \in Owners
    BY <1>1, <1>7 DEF Owners
  <2>4. sandbox'["voyage"] = sandbox["voyage"]
    BY <2>3 DEF TypeInv, Owners
  <2>5. sandbox'["voyage"] # None => tree'[sandbox'["voyage"]].stage = "ready"
    BY <1>1, <2>4 DEF SandboxInv, RepoIsReady
  <2> QED BY <1>1, <1>4, <1>5, <1>6, <2>2, <2>3, <2>5, RegisterKeepsSandboxes
<1>8. CASE kind[q] # "run"
  <2>1. kind[q] = "clone"
    BY <1>1, <1>2, <1>8, Callers
  <2>2. NextIs(Tail(todo[q]), "clone")
    BY <1>1, <1>2, <2>1, CloneCalls
  <2>3. Quiet(q)
    BY <1>1, <1>3, <1>4, <2>2
       DEF MovesTo, NextIs, Quiet, Active, Making, Removing, MakingCalls, RemovingCalls, At
  <2>4. LateFrom(q) /\ sandbox' = sandbox
    BY <1>1, <1>8 DEF LateFrom
  <2>5. hold' \in [Requests -> Ids \cup {None}] /\ left' \subseteq Ids \X Commands \X Works
    BY <1>5 DEF TypeInv, OpsOK
  <2> QED BY <1>1, <1>5, <1>6, <2>3, <2>4, <2>5, QuietKeepsSandboxes
<1> QED BY <1>5, <1>7, <1>8

\* A quiet step that leaves the repositories and the entries alone.
LEMMA CallKeepsSandboxes ==
    ASSUME TypeInv, SandboxInv, NEW q \in Requests, OpsOK', Quiet(q), LateFrom(q),
           container' \in [Ids -> {"absent", "created", "running", "exited", "gone"}], NoneUnmade,
           left' \subseteq Ids \X Commands \X Works, UNCHANGED <<tree, origin, sandbox, alone>>
    PROVE  TypeInv' /\ SandboxInv'
<1>1. TypeInv'
  BY DEF TypeInv
<1>2. hold' \in [Requests -> Ids \cup {None}]
  BY DEF OpsOK
<1>3. SandboxInv'
  BY <1>2, QuietKeepsSandboxes
<1> QED BY <1>1, <1>3

LEMMA KillKeepsSandboxes ==
    ASSUME TypeInv, SandboxInv, NEW q \in Requests, Kill(q)
    PROVE  TypeInv' /\ SandboxInv' /\ Quiet(q) /\ (Active(q)' => Removing(q)')
<1>1. /\ Active(q) /\ Head(todo[q]) = "kill" /\ UNCHANGED <<tree, origin, sandbox, alone, left>>
  BY DEF Kill, At
<1>2. /\ OpsOK /\ todo[q] \in TodoOf(kind[q]) /\ result[q] \in {"ok", "failed"}
      /\ hold[q] \in Ids \cup {None}
      /\ Tail(todo[q]) = <<>> \/ Tail(todo[q]) \in TodoOf(kind[q])
      /\ Head(todo[q]) \in CallsOf(kind[q])
  BY <1>1, Calls DEF TypeInv, OpsOK
<1>3. Removing(q)
  BY <1>1 DEF Removing, RemovingCalls
<1>4. /\ OpsOK' /\ Quiet(q) /\ NoneUnmade /\ (Active(q)' => Removing(q)')
      /\ container' \in [Ids -> {"absent", "created", "running", "exited", "gone"}]
  <2>1. CASE Running(hold[q])
    <3>1. /\ container' = [container EXCEPT ![hold[q]] = "exited"]
          /\ todo' = [todo EXCEPT ![q] = Tail(todo[q])]
          /\ UNCHANGED <<kind, work, hold, result>>
      BY <2>1 DEF Kill
    <3>2. OpsOK' /\ MovesTo(q, Tail(todo[q]), hold[q], result[q])
      <4>1. /\ result' = [result EXCEPT ![q] = result[q]]
            /\ hold' = [hold EXCEPT ![q] = hold[q]]
        BY <1>2, <3>1 DEF OpsOK
      <4>2. todo' = [todo EXCEPT ![q] = Tail(todo[q])] /\ UNCHANGED <<kind, work>>
        BY <3>1
      <4> QED BY <1>2, <4>1, <4>2, MovesKeepOps
    <3>3. NextIs(Tail(todo[q]), "delete")
      <4>1. kind[q] \in {"clone", "cleanup", "destroy"}
        BY <1>1, <1>2, Callers DEF RemovingCalls
      <4> QED BY <1>1, <1>2, <4>1, CloneCalls, RemovalCalls
    <3>4. Quiet(q) /\ Removing(q)'
      BY <1>1, <1>3, <3>2, <3>3
         DEF MovesTo, NextIs, Quiet, Active, Making, Removing, MakingCalls, RemovingCalls, At
    <3>5. NoneUnmade /\ container' \in [Ids -> {"absent", "created", "running", "exited", "gone"}]
      BY <3>1 DEF NoneUnmade, TypeInv
    <3> QED BY <3>2, <3>4, <3>5
  <2>2. CASE ~Running(hold[q])
    <3>1. Leave(q, result[q]) /\ UNCHANGED container
      BY <2>2 DEF Kill
    <3>2. OpsOK' /\ MovesTo(q, <<>>, None, result[q])
      BY <1>2, <3>1, LeaveMoves
    <3> QED BY <3>1, <3>2, EndIsQuiet DEF NoneUnmade, TypeInv, MovesTo, Active
  <2> QED BY <2>1, <2>2
<1>5. LateFrom(q) /\ left' \subseteq Ids \X Commands \X Works
  BY <1>1 DEF LateFrom, TypeInv
<1> QED BY <1>1, <1>4, <1>5, CallKeepsSandboxes

LEMMA DeleteKeepsSandboxes ==
    ASSUME TypeInv, SandboxInv, NEW q \in Requests, Delete(q)
    PROVE  TypeInv' /\ SandboxInv' /\ OthersStay(q)
<1>1. /\ Active(q) /\ Head(todo[q]) = "delete"
      /\ container' = [container EXCEPT ![hold[q]] = "gone"] /\ Leave(q, result[q])
      /\ UNCHANGED <<tree, origin, sandbox, alone, left>>
  BY DEF Delete, At
<1>2. OpsOK' /\ MovesTo(q, <<>>, None, result[q])
  BY <1>1, LeaveMoves DEF TypeInv, OpsOK
<1>3. Quiet(q) /\ OthersStay(q)
  BY <1>2, EndIsQuiet DEF MovesTo
<1>4. NoneUnmade /\ container' \in [Ids -> {"absent", "created", "running", "exited", "gone"}]
  BY <1>1 DEF NoneUnmade, TypeInv
<1>5. LateFrom(q) /\ left' \subseteq Ids \X Commands \X Works
  BY <1>1 DEF LateFrom, TypeInv
<1> QED BY <1>1, <1>2, <1>3, <1>4, <1>5, CallKeepsSandboxes

LEMMA PostKeepsSandboxes ==
    ASSUME TypeInv, SandboxInv, NEW q \in Requests, Post(q)
    PROVE  TypeInv' /\ SandboxInv' /\ \E how : MovesTo(q, <<>>, None, how)
<1>1. /\ Active(q) /\ UNCHANGED <<container, tree, origin, sandbox, alone, left>>
      /\ GoOn(q, <<>>) \/ Leave(q, "failed")
  BY DEF Post, At
<1>2. Leave(q, "ok") \/ Leave(q, "failed")
  BY <1>1 DEF GoOn
<1>3. OpsOK' /\ \E how : MovesTo(q, <<>>, None, how)
  BY <1>2, LeaveMoves DEF TypeInv
<1>4. Quiet(q)
  BY <1>3, EndIsQuiet
<1>5. NoneUnmade /\ container' \in [Ids -> {"absent", "created", "running", "exited", "gone"}]
      /\ LateFrom(q) /\ left' \subseteq Ids \X Commands \X Works
  BY <1>1 DEF NoneUnmade, TypeInv, LateFrom
<1> QED BY <1>1, <1>3, <1>4, <1>5, CallKeepsSandboxes

\* Entries are deleted, and no operation gets anything else to hold, to make or to remove.
LEMMA ForgetKeepsSandboxes ==
    ASSUME TypeInv, SandboxInv, TypeInv', UNCHANGED <<tree, hold, left>>, NoneUnmade,
           \A o \in Owners : sandbox'[o] \in {sandbox[o], None},
           \A r \in Requests :
               /\ Active(r)' => Active(r) /\ hold'[r] = hold[r]
               /\ Making(r)' => Making(r)
               /\ Removing(r)' => Removing(r)
               /\ kind'[r] = "clone" /\ At(r, "create")' => hold'[r] = None
    PROVE  SandboxInv'
<1>1. /\ Registered' \subseteq Registered \cup {None}
      /\ \A r \in Requests : hold[r] \in Ids \cup {None}
      /\ \A c \in left : c[1] \in Ids
      /\ "user" \in Owners /\ "voyage" \in Owners
  BY DEF TypeInv, OpsOK, Registered, Owners
<1>2. Known'
  BY <1>1 DEF SandboxInv, Known, NoneUnmade, TypeInv
<1>3. OwnsWhatItMakes' /\ ForgottenFirst'
  BY <1>1 DEF SandboxInv, OwnsWhatItMakes, ForgottenFirst, Making
<1>4. LateCloneIsLost'
  BY <1>1, NoneIsNoSandbox DEF SandboxInv, LateCloneIsLost
<1>5. RepoIsReady' /\ Apart'
  BY <1>1 DEF SandboxInv, RepoIsReady, Apart
<1>6. BeginsWithNothing'
  BY DEF BeginsWithNothing
<1> QED BY <1>2, <1>3, <1>4, <1>5, <1>6 DEF SandboxInv

LEMMA StatusKeepsSandboxes ==
    ASSUME TypeInv, SandboxInv, NEW q \in Requests, Status(q)
    PROVE  TypeInv' /\ SandboxInv' /\ OthersStay(q) /\ kind'[q] = kind[q]
           /\ kind[q] \in {"run", "status"} /\ ~At(q, "start")'
<1>1. /\ Active(q) /\ Head(todo[q]) = "status" /\ UNCHANGED <<container, tree, origin, alone, left>>
      /\ sandbox \in [Owners -> Ids \cup {None}] /\ OpsOK
  BY DEF Status, At, TypeInv
<1>2. todo[q] \in TodoOf(kind[q]) /\ kind[q] \in {"run", "status"}
  BY <1>1, Calls, Callers DEF OpsOK
<1>3. NoneUnmade /\ container' \in [Ids -> {"absent", "created", "running", "exited", "gone"}]
      /\ LateFrom(q) /\ left' \subseteq Ids \X Commands \X Works
  BY <1>1 DEF NoneUnmade, TypeInv, LateFrom
<1>4. CASE (GoOn(q, Tail(todo[q])) \/ Leave(q, "failed")) /\ UNCHANGED sandbox
  <2>1. OpsOK' /\ Quiet(q)
    <3>1. CASE GoOn(q, Tail(todo[q]))
      <4>1. Tail(todo[q]) \in Rest(q)
        BY <1>1 DEF Rest, At
      <4> QED BY <1>1, <3>1, <4>1, GoOnIsQuiet
    <3>2. CASE Leave(q, "failed")
      BY <1>1, <3>2, LeaveMoves, EndIsQuiet
    <3> QED BY <1>4, <3>1, <3>2
  <2> QED BY <1>1, <1>2, <1>3, <1>4, <2>1, CallKeepsSandboxes DEF Quiet
<1>5. CASE /\ kind[q] = "run" /\ sandbox["user"] # None
           /\ sandbox' = [sandbox EXCEPT !["user"] = None]
           /\ todo' = [todo EXCEPT ![q] = <<"create", "start", "exec">>]
           /\ UNCHANGED <<kind, work, hold, result>>
  <2>1. <<"create", "start", "exec">> \in TodoOf(kind[q])
    BY <1>5 DEF TodoOf, PlainKinds
  <2>2. OpsOK' /\ MovesTo(q, <<"create", "start", "exec">>, hold[q], result[q])
    <3>1. /\ hold' = [hold EXCEPT ![q] = hold[q]] /\ result' = [result EXCEPT ![q] = result[q]]
          /\ hold[q] \in Ids \cup {None} /\ result[q] \in {"ok", "failed"}
      BY <1>1, <1>5 DEF OpsOK
    <3>2. /\ todo' = [todo EXCEPT ![q] = <<"create", "start", "exec">>]
          /\ UNCHANGED <<kind, work>>
      BY <1>5
    <3> QED BY <1>1, <2>1, <3>1, <3>2, MovesKeepOps
  <2>3. sandbox' \in [Owners -> Ids \cup {None}] /\ \A o \in Owners : sandbox'[o] \in {sandbox[o], None}
    BY <1>1, <1>5
  <2>4. TypeInv'
    BY <1>1, <2>2, <2>3 DEF TypeInv
  <2>5. Head(<<"create", "start", "exec">>) = "create" /\ <<"create", "start", "exec">> # <<>>
    BY ThreeCalls
  <2>6. \A r \in Requests :
               /\ Active(r)' => Active(r) /\ hold'[r] = hold[r]
               /\ Making(r)' => Making(r)
               /\ Removing(r)' => Removing(r)
               /\ kind'[r] = "clone" /\ At(r, "create")' => hold'[r] = None
    <3> SUFFICES ASSUME NEW r \in Requests
                 PROVE  /\ Active(r)' => Active(r) /\ hold'[r] = hold[r]
                        /\ Making(r)' => Making(r)
                        /\ Removing(r)' => Removing(r)
                        /\ kind'[r] = "clone" /\ At(r, "create")' => hold'[r] = None
      OBVIOUS
    <3>1. CASE r = q
      BY <1>1, <1>5, <2>2, <2>5, <3>1
         DEF MovesTo, Active, Making, Removing, MakingCalls, RemovingCalls
    <3>2. CASE r # q
      <4>1. /\ kind'[r] = kind[r] /\ todo'[r] = todo[r] /\ hold'[r] = hold[r]
        BY <2>2, <3>2 DEF MovesTo, OthersStay
      <4> QED BY <4>1 DEF Active, Making, Removing, At, SandboxInv, BeginsWithNothing
    <3> QED BY <3>1, <3>2
  <2>7. SandboxInv'
    BY <1>1, <1>3, <1>5, <2>3, <2>4, <2>6, ForgetKeepsSandboxes
  <2> QED BY <1>2, <2>2, <2>4, <2>5, <2>7 DEF MovesTo, At
<1> QED BY <1>4, <1>5 DEF Status

-----------------------------------------------------------------------------
(* Commands *)

\* A command that succeeds leaves repositories, in the sandbox it runs in.
LEMMA CommandKeepsTrees ==
    ASSUME TypeInv, NEW s \in Ids, NEW c \in Commands, NEW w \in Works,
           NEW u \in After(tree[s], c, w), tree' = [tree EXCEPT ![s] = u],
           origin' = Pushed(tree[s], c, w)
    PROVE  /\ tree' \in [Ids -> Trees] /\ origin' \subseteq Branches \X Works
           /\ origin \subseteq origin'
           /\ \A x \in Ids : (x = s => c # "clone") /\ tree[x].stage = "ready"
                                => tree'[x].stage = "ready"
           /\ c = "config" => tree'[s].stage = "ready"
           /\ c = "exec" => tree' = tree
<1>1. tree[s] \in Trees /\ tree \in [Ids -> Trees] /\ origin \subseteq Branches \X Works
  BY DEF TypeInv
<1>2. /\ u \in Trees
      /\ c # "clone" /\ tree[s].stage = "ready" => u.stage = "ready"
      /\ c = "config" => u.stage = "ready"
      /\ c = "exec" => u = tree[s]
  BY <1>1, AfterCommand
<1>3. origin' \subseteq Branches \X Works /\ origin \subseteq origin'
  BY <1>1, AfterPush
<1> QED BY <1>1, <1>2, <1>3

LEMMA SucceedKeepsSandboxes ==
    ASSUME TypeInv, SandboxInv, NEW q \in Requests, Succeed(q)
    PROVE  TypeInv' /\ SandboxInv' /\ Quiet(q)
<1> DEFINE c == Head(todo[q])
           s == hold[q]
<1>1. /\ Active(q) /\ c \in Commands /\ Running(s) /\ UNCHANGED <<container, alone, left>>
      /\ sandbox' = IF c = "config" THEN [sandbox EXCEPT !["voyage"] = s] ELSE sandbox
      /\ origin' = Pushed(tree[s], c, work[q])
  BY DEF Succeed, RegistersAt
<1>2. PICK u \in After(tree[s], c, work[q]) : tree' = [tree EXCEPT ![s] = u]
  BY DEF Succeed
<1>3. PICK rest \in Rest(q) : GoOn(q, rest)
  BY DEF Succeed
<1>4. s \in Ids /\ work[q] \in Works /\ OpsOK /\ sandbox \in [Owners -> Ids \cup {None}]
  BY <1>1 DEF TypeInv, OpsOK, Running
<1>5. OpsOK' /\ Quiet(q)
  BY <1>1, <1>3, <1>4, GoOnIsQuiet
<1>6. /\ tree' \in [Ids -> Trees] /\ origin' \subseteq Branches \X Works
      /\ \A x \in Ids : (x = s => c # "clone") /\ tree[x].stage = "ready"
                           => tree'[x].stage = "ready"
      /\ c = "config" => tree'[s].stage = "ready"
  BY <1>1, <1>2, <1>4, CommandKeepsTrees
<1>7. sandbox' \in [Owners -> Ids \cup {None}]
  BY <1>1, <1>4
<1>8. TypeInv'
  BY <1>1, <1>5, <1>6, <1>7 DEF TypeInv
<1>9. NoneUnmade /\ LateFrom(q)
  BY <1>1 DEF NoneUnmade, LateFrom
<1>10. c \in MakingCalls => Making(q) /\ s \notin Registered
  BY <1>1 DEF Making, SandboxInv, OwnsWhatItMakes
<1>11. CASE c = "config"
  <2>1. Making(q) /\ kind[q] = "clone"
    <3>1. todo[q] \in TodoOf(kind[q])
      BY <1>1, <1>4 DEF OpsOK
    <3> QED BY <1>10, <1>11, <3>1, Calls, Callers DEF MakingCalls
  <2>2. NextIs(Tail(todo[q]), "end") /\ rest = Tail(todo[q])
    <3>1. todo[q] \in TodoOf("clone")
      BY <1>1, <1>4, <2>1 DEF OpsOK
    <3> QED BY <1>1, <1>3, <1>4, <1>11, <3>1, CloneCalls, RestOfOperation
  <2>3. Leave(q, "ok")
    BY <1>3, <2>2 DEF NextIs, GoOn
  <2>4. MovesTo(q, <<>>, None, "ok")
    BY <1>4, <2>3, LeaveMoves
  <2>5. /\ ~Active(q)' /\ ~Making(q)' /\ ~Removing(q)' /\ ~At(q, "create")'
        /\ OthersStay(q) /\ kind'[q] = kind[q]
    BY <2>4 DEF MovesTo, Active, Making, Removing, At
  <2>6. sandbox' = [sandbox EXCEPT !["voyage"] = s] /\ "voyage" \in Owners
    BY <1>1, <1>11 DEF Owners
  <2>7. sandbox'["voyage"] # None => tree'[sandbox'["voyage"]].stage = "ready"
    BY <1>4, <1>6, <1>11, <2>6
  <2>8. SandboxInv'
    BY <1>1, <1>8, <1>9, <2>1, <2>5, <2>6, <2>7, RegisterKeepsSandboxes
  <2> QED BY <1>5, <1>8, <2>8
<1>12. CASE c # "config"
  <2>1. sandbox' = sandbox
    BY <1>1, <1>12
  <2>2. sandbox["voyage"] # None /\ tree[sandbox["voyage"]].stage = "ready"
            => tree'[sandbox["voyage"]].stage = "ready"
    <3>1. sandbox["voyage"] \in Registered /\ sandbox["voyage"] \in Ids \cup {None}
      BY <1>4 DEF Registered, Owners
    <3>2. c = "clone" => s # sandbox["voyage"]
      BY <1>10, <3>1 DEF MakingCalls
    <3> QED BY <1>6, <3>1, <3>2
  <2>3. hold' \in [Requests -> Ids \cup {None}] /\ left' \subseteq Ids \X Commands \X Works
    BY <1>8 DEF TypeInv, OpsOK
  <2>4. SandboxInv'
    BY <1>5, <1>9, <2>1, <2>2, <2>3, QuietKeepsSandboxes
  <2> QED BY <1>5, <1>8, <2>4
<1> QED BY <1>11, <1>12

LEMMA RefuseKeepsSandboxes ==
    ASSUME TypeInv, SandboxInv, NEW q \in Requests, RefuseSandbox(q)
    PROVE  TypeInv' /\ SandboxInv' /\ Quiet(q) /\ ~Active(q)' /\ result'[q] = "failed"
<1>1. /\ Active(q) /\ UNCHANGED <<container, tree, origin, sandbox, alone, left>>
      /\ Leave(q, "failed")
  BY DEF RefuseSandbox, At
<1>2. OpsOK' /\ MovesTo(q, <<>>, None, "failed")
  BY <1>1, LeaveMoves DEF TypeInv
<1>3. Quiet(q) /\ ~Active(q)' /\ result'[q] = "failed"
  BY <1>2, EndIsQuiet DEF MovesTo, Active
<1>4. NoneUnmade /\ container' \in [Ids -> {"absent", "created", "running", "exited", "gone"}]
      /\ LateFrom(q) /\ left' \subseteq Ids \X Commands \X Works
  BY <1>1 DEF NoneUnmade, TypeInv, LateFrom
<1> QED BY <1>1, <1>2, <1>3, <1>4, CallKeepsSandboxes

LEMMA BreakKeepsSandboxes ==
    ASSUME TypeInv, SandboxInv, NEW q \in Requests, Break(q)
    PROVE  TypeInv' /\ SandboxInv' /\ Quiet(q)
<1>1. /\ Active(q) /\ Head(todo[q]) \in Commands
      /\ UNCHANGED <<container, tree, origin, sandbox, alone, left>>
      /\ (\E rest \in Rest(q) : GoOn(q, rest)) \/ Fail(q)
  BY DEF Break
<1>2. OpsOK' /\ Quiet(q)
  BY <1>1, GoOnIsQuiet, FailIsQuiet DEF TypeInv
<1>3. NoneUnmade /\ LateFrom(q) /\ left' \subseteq Ids \X Commands \X Works
      /\ container' \in [Ids -> {"absent", "created", "running", "exited", "gone"}]
  BY <1>1 DEF NoneUnmade, LateFrom, TypeInv
<1> QED BY <1>1, <1>2, <1>3, CallKeepsSandboxes

\* A clone that times out is given up: the clone that goes on has nobody to register it.
LEMMA TimeOutKeepsSandboxes ==
    ASSUME TypeInv, SandboxInv, NEW q \in Requests, TimeOut(q)
    PROVE  TypeInv' /\ SandboxInv' /\ Quiet(q)
<1>1. /\ Active(q) /\ Head(todo[q]) \in Commands /\ Running(hold[q])
      /\ left' = left \cup {<<hold[q], Head(todo[q]), work[q]>>}
      /\ IF Head(todo[q]) \in Unchecked
           THEN \E rest \in Rest(q) : GoOn(q, rest) ELSE Fail(q)
      /\ UNCHANGED <<container, tree, origin, sandbox, alone>>
  BY DEF TimeOut
<1>2. OpsOK' /\ Quiet(q)
  BY <1>1, GoOnIsQuiet, FailIsQuiet DEF TypeInv
<1>3. hold[q] \in Ids /\ work[q] \in Works /\ hold[q] # None
  BY <1>1 DEF TypeInv, OpsOK, Running
<1>4. LateFrom(q)
  <2>1. Head(todo[q]) = "clone" => Making(q) /\ ~Making(q)'
    BY <1>1, FailIsQuiet DEF TypeInv, Making, MakingCalls, Unchecked
  <2> QED BY <1>1, <1>3, <2>1 DEF LateFrom
<1>5. NoneUnmade /\ left' \subseteq Ids \X Commands \X Works
      /\ container' \in [Ids -> {"absent", "created", "running", "exited", "gone"}]
  BY <1>1, <1>3 DEF NoneUnmade, TypeInv
<1> QED BY <1>1, <1>2, <1>4, <1>5, CallKeepsSandboxes

-----------------------------------------------------------------------------
(* The backend by itself, and the process that ends *)

\* Nothing happens to the operations and the entries.
LEMMA ElsewhereKeepsSandboxes ==
    ASSUME TypeInv, SandboxInv, UNCHANGED <<opVars, sandbox>>, left' \subseteq left, NoneUnmade,
           sandbox["voyage"] # None /\ tree[sandbox["voyage"]].stage = "ready"
               => tree'[sandbox["voyage"]].stage = "ready"
    PROVE  SandboxInv'
<1>1. /\ kind' = kind /\ todo' = todo /\ hold' = hold /\ sandbox' = sandbox
      /\ Registered' = Registered
      /\ \A r \in Requests : hold[r] \in Ids \cup {None}
      /\ \A c \in left : c[1] \in Ids
      /\ \A o \in Owners : sandbox[o] \in Ids \cup {None}
  BY DEF opVars, Registered, TypeInv, OpsOK
<1>2. \A r \in Requests : /\ Active(r)' = Active(r) /\ Making(r)' = Making(r)
                          /\ Removing(r)' = Removing(r) /\ At(r, "create")' = At(r, "create")
  BY <1>1 DEF Active, Making, Removing, At
<1>3. Known'
  BY <1>1, <1>2 DEF SandboxInv, Known, NoneUnmade
<1>4. OwnsWhatItMakes' /\ ForgottenFirst'
  BY <1>1, <1>2 DEF SandboxInv, OwnsWhatItMakes, ForgottenFirst
<1>5. LateCloneIsLost'
  BY <1>1, <1>2 DEF SandboxInv, LateCloneIsLost
<1>6. RepoIsReady' /\ Apart' /\ BeginsWithNothing'
  BY <1>1, <1>2 DEF SandboxInv, RepoIsReady, Apart, BeginsWithNothing
<1> QED BY <1>3, <1>4, <1>5, <1>6 DEF SandboxInv

\* A clone that outlived its call ends in a sandbox that is registered nowhere.
LEMMA EndLateKeepsSandboxes ==
    ASSUME TypeInv, SandboxInv, EndLate
    PROVE  TypeInv' /\ SandboxInv'
<1>1. PICK c \in left :
        /\ left' = left \ {c}
        /\ \/ UNCHANGED <<tree, origin>>
           \/ /\ Running(c[1])
              /\ \E u \in After(tree[c[1]], c[2], c[3]) : tree' = [tree EXCEPT ![c[1]] = u]
              /\ origin' = Pushed(tree[c[1]], c[2], c[3])
  BY DEF EndLate
<1>2. UNCHANGED <<container, sandbox, opVars>>
  BY DEF EndLate
<1>3. c[1] \in Ids /\ c[2] \in Commands /\ c[3] \in Works
  BY DEF TypeInv
<1>4. /\ tree' \in [Ids -> Trees] /\ origin' \subseteq Branches \X Works
      /\ \A x \in Ids : (x = c[1] => c[2] # "clone") /\ tree[x].stage = "ready"
                           => tree'[x].stage = "ready"
  <2>1. CASE UNCHANGED <<tree, origin>>
    BY <2>1 DEF TypeInv
  <2>2. CASE /\ \E u \in After(tree[c[1]], c[2], c[3]) : tree' = [tree EXCEPT ![c[1]] = u]
             /\ origin' = Pushed(tree[c[1]], c[2], c[3])
    <3>1. PICK u \in After(tree[c[1]], c[2], c[3]) : tree' = [tree EXCEPT ![c[1]] = u]
      BY <2>2
    <3> QED BY <1>3, <2>2, <3>1, CommandKeepsTrees
  <2> QED BY <1>1, <2>1, <2>2
<1>5. c[2] = "clone" => c[1] # sandbox["voyage"]
  BY DEF SandboxInv, LateCloneIsLost, Registered, Owners
<1>6. TypeInv'
  <2>1. left' \subseteq left
    BY <1>1
  <2> QED BY <1>2, <1>4, <2>1 DEF TypeInv, OpsOK, opVars, Active
<1>7. sandbox["voyage"] \in Ids \cup {None}
  BY DEF TypeInv, Owners
<1>8. NoneUnmade /\ left' \subseteq left
  BY <1>1, <1>2 DEF NoneUnmade
<1>9. SandboxInv'
  BY <1>2, <1>4, <1>5, <1>7, <1>8, ElsewhereKeepsSandboxes
<1> QED BY <1>6, <1>9

LEMMA DieKeepsSandboxes ==
    ASSUME TypeInv, SandboxInv, Die
    PROVE  TypeInv' /\ SandboxInv'
<1>1. PICK s \in Ids, how \in {"exited", "gone"} : container' = [container EXCEPT ![s] = how]
  BY DEF Die
<1>2. UNCHANGED <<tree, origin, sandbox, opVars, left>>
  BY DEF Die
<1>3. NoneUnmade /\ container' \in [Ids -> {"absent", "created", "running", "exited", "gone"}]
  BY <1>1 DEF NoneUnmade, TypeInv
<1>4. TypeInv'
  BY <1>2, <1>3 DEF TypeInv, OpsOK, opVars, Active
<1> QED BY <1>2, <1>3, <1>4, ElsewhereKeepsSandboxes

LEMMA CleanupAllKeepsSandboxes ==
    ASSUME TypeInv, SandboxInv, CleanupAll
    PROVE  TypeInv' /\ SandboxInv'
<1>1. /\ \A q \in Requests : ~Active(q)
      /\ container' = [s \in Ids |->
           IF s \in {sandbox[o] : o \in Owners} /\ Running(s) THEN "gone" ELSE container[s]]
      /\ sandbox' = [o \in Owners |-> None]
      /\ UNCHANGED <<tree, origin, opVars, left>>
  BY DEF CleanupAll
<1>2. /\ NoneUnmade
      /\ container' \in [Ids -> {"absent", "created", "running", "exited", "gone"}]
      /\ sandbox' \in [Owners -> Ids \cup {None}]
  BY <1>1 DEF NoneUnmade, TypeInv
<1>3. TypeInv'
  BY <1>1, <1>2 DEF TypeInv, OpsOK, opVars, Active
<1>4. hold' = hold /\ \A r \in Requests : ~Active(r)' /\ ~Making(r)' /\ ~Removing(r)' /\ ~At(r, "create")'
  BY <1>1 DEF opVars, Active, Making, Removing, At
<1>5. SandboxInv'
  BY <1>1, <1>2, <1>3, <1>4, ForgetKeepsSandboxes
<1> QED BY <1>3, <1>5

\* Nothing is under way and nothing is made.
LEMMA InitSandboxes ==
    ASSUME Init
    PROVE  TypeInv /\ SandboxInv
<1>1. \A q \in Requests : ~Active(q)
  BY DEF Init, Active
<1>2. Registered = {None}
  BY DEF Init, Registered, Owners
<1>3. TypeInv
  <2>1. (CHOOSE w \in Works : TRUE) \in Works
    BY WorksAssumption
  <2>2. OpsOK
    BY <1>1, <2>1 DEF Init, OpsOK
  <2>3. NoTree \in Trees
    BY DEF NoTree, Trees, Branches
  <2> QED BY <2>2, <2>3 DEF Init, TypeInv
<1>4. SandboxInv
  BY <1>1, <1>2 DEF Init, SandboxInv, Known, OwnsWhatItMakes, ForgottenFirst, Apart,
       LateCloneIsLost, RepoIsReady, BeginsWithNothing, Making, Removing, At, Owners
<1> QED BY <1>3, <1>4

LEMMA NextKeepsSandboxes ==
    ASSUME TypeInv, SandboxInv, [Next]_vars
    PROVE  TypeInv' /\ SandboxInv'
<1>1. ASSUME NEW q \in Requests, GitRequest(q) \/ ExecRequest(q)
      PROVE  TypeInv' /\ SandboxInv'
  BY <1>1, GitRequestKeepsSandboxes, ExecRequestKeepsSandboxes
<1>2. ASSUME NEW q \in Requests, Step(q)
      PROVE  TypeInv' /\ SandboxInv'
  <2>1. CASE Create(q) \/ Start(q)
    BY <2>1, CreateKeepsSandboxes, StartKeepsSandboxes
  <2>2. CASE Status(q) \/ Kill(q) \/ Delete(q) \/ Post(q)
    BY <2>2, StatusKeepsSandboxes, KillKeepsSandboxes, DeleteKeepsSandboxes, PostKeepsSandboxes
  <2>3. CASE Succeed(q) \/ Break(q) \/ TimeOut(q)
    BY <2>3, SucceedKeepsSandboxes, BreakKeepsSandboxes, TimeOutKeepsSandboxes
  <2>4. CASE RefuseSandbox(q)
    BY <2>4, RefuseKeepsSandboxes
  <2> QED BY <1>2, <2>1, <2>2, <2>3, <2>4 DEF Step
<1>3. CASE EndLate \/ Die \/ CleanupAll
  BY <1>3, EndLateKeepsSandboxes, DieKeepsSandboxes, CleanupAllKeepsSandboxes
<1>4. CASE UNCHANGED vars
  <2>1. UNCHANGED <<container, tree, origin, sandbox, opVars, left>>
    BY <1>4 DEF vars
  <2>2. TypeInv'
    BY <2>1 DEF TypeInv, OpsOK, opVars, Active
  <2>3. NoneUnmade
    BY <2>1 DEF NoneUnmade
  <2> QED BY <2>1, <2>2, <2>3, ElsewhereKeepsSandboxes
<1> QED BY <1>1, <1>2, <1>3, <1>4 DEF Next

-----------------------------------------------------------------------------
(* The commit of a crew member that nothing overlaps *)

LEMMA VoyageKinds == DOMAIN GitScript = GitKinds
BY DEF GitScript, GitKinds, PlainKinds

\* What LoneInv says of one operation under way, and of one that ended.
Undisturbed(q) ==
    /\ hold[q] # None /\ hold[q] = sandbox["voyage"]
    /\ \A r \in Requests \ {q} : ~(Active(r) /\ OfVoyage(r))
    /\ \A c \in left : c[2] = "exec"
    /\ Progress(q)
Ended(q) == kind[q] = "crew" /\ ~Active(q) /\ result[q] = "ok" /\ alone[q]
Delivered(q) == <<Author[work[q]], work[q]>> \in origin

LEMMA LoneInvParts ==
    LoneInv <=> \A q \in Requests : (Lone(q) => Undisturbed(q)) /\ (Ended(q) => Delivered(q))
BY DEF LoneInv, DeliveredWhenAlone, Lone, Undisturbed, Ended, Delivered

\* A step of an operation of the voyage that was under way: no other one was there to be
\* disturbed by it.
LEMMA VoyageStepKeepsLone ==
    ASSUME LoneInv, NEW p \in Requests, Active(p), OfVoyage(p), OthersStay(p),
           kind'[p] = kind[p], work'[p] = work[p], alone' = alone, origin \subseteq origin',
           Lone(p) /\ Active(p)' => Undisturbed(p)',
           Lone(p) /\ ~Active(p)' /\ result'[p] = "ok" => Delivered(p)'
    PROVE  LoneInv'
<1>1. ASSUME NEW q \in Requests \ {p}
      PROVE  ~Lone(q)' /\ (Ended(q)' => Delivered(q)')
  <2>1. /\ kind'[q] = kind[q] /\ todo'[q] = todo[q] /\ work'[q] = work[q]
        /\ result'[q] = result[q] /\ alone'[q] = alone[q]
    BY DEF OthersStay
  <2>2. ~Lone(q)
    BY LoneInvParts DEF Undisturbed
  <2> QED BY <2>1, <2>2, LoneInvParts DEF Lone, Active, Ended, Delivered
<1>2. /\ Lone(p)' => Lone(p) /\ Active(p)'
      /\ Ended(p)' => Lone(p) /\ ~Active(p)' /\ result'[p] = "ok"
  BY DEF Lone, Ended
<1>3. \A q \in Requests : (Lone(q)' => Undisturbed(q)') /\ (Ended(q)' => Delivered(q)')
  BY <1>1, <1>2
<1> QED BY <1>3 DEF LoneInv, DeliveredWhenAlone, Lone, Undisturbed, Ended, Delivered

\* A step of an operation of the user: its sandbox is another one, and it runs only tests.
LEMMA UserStepKeepsLone ==
    ASSUME LoneInv, NEW p \in Requests, kind'[p] \notin GitKinds, OthersStay(p),
           alone' = alone, sandbox'["voyage"] = sandbox["voyage"], UNCHANGED <<tree, origin>>,
           \A c \in left' \ left : c[2] = "exec"
    PROVE  LoneInv'
<1>1. ASSUME NEW q \in Requests
      PROVE  (Lone(q)' => Undisturbed(q)') /\ (Ended(q)' => Delivered(q)')
  <2>1. CASE q = p
    BY <2>1 DEF Lone, Ended, GitKinds
  <2>2. CASE q # p
    <3>1. /\ kind'[q] = kind[q] /\ todo'[q] = todo[q] /\ work'[q] = work[q]
          /\ result'[q] = result[q] /\ alone'[q] = alone[q] /\ hold'[q] = hold[q]
      BY <2>2 DEF OthersStay
    <3>2. Ended(q)' => Delivered(q)'
      BY <3>1, LoneInvParts DEF Active, Ended, Delivered
    <3>3. ASSUME Lone(q)'
          PROVE  Undisturbed(q)'
      <4>1. Undisturbed(q)
        BY <3>1, <3>3, LoneInvParts DEF Lone, Active
      <4>2. \A r \in Requests \ {q} : ~(Active(r)' /\ OfVoyage(r)')
        BY <4>1, VoyageKinds DEF Undisturbed, OthersStay, Active, OfVoyage
      <4>3. Progress(q)'
        BY <3>1, <4>1 DEF Undisturbed, Progress
      <4> QED BY <3>1, <4>1, <4>2, <4>3 DEF Undisturbed
    <3> QED BY <3>2, <3>3
  <2> QED BY <2>1, <2>2
<1> QED BY <1>1 DEF LoneInv, DeliveredWhenAlone, Lone, Undisturbed, Ended, Delivered

LEMMA GitRequestKeepsLone ==
    ASSUME TypeInv, LoneInv, NEW p \in Requests, GitRequest(p)
    PROVE  LoneInv'
<1>1. PICK k \in Kinds \cap DOMAIN GitScript, w \in Works :
        /\ (k = "clone") = (sandbox["voyage"] = None)
        /\ Enter(p, k, w, sandbox["voyage"], GitScript[k])
        /\ sandbox' = IF k = "cleanup" THEN Popped(k) ELSE sandbox
        /\ alone' = [r \in Requests |->
                       IF r # p THEN alone[r] /\ ~Active(r)
                       ELSE left = {} /\ \A r2 \in Requests \ {p} : ~(Active(r2) /\ OfVoyage(r2))]
  BY DEF GitRequest
<1>2. UNCHANGED <<container, tree, origin, left>>
  BY DEF GitRequest
<1>3. /\ k \in GitKinds /\ GitScript[k] \in TodoOf(k) /\ GitScript[k] # <<>>
      /\ k = "crew" => NextIs(GitScript[k], "checkout")
  BY GitScripts, Calls
<1>4. /\ OthersStay(p) /\ ~Active(p)
      /\ kind'[p] = k /\ todo'[p] = GitScript[k] /\ hold'[p] = sandbox["voyage"]
  <2>1. OpsOK /\ k \in GitKinds \cup ExecKinds /\ sandbox["voyage"] \in Ids \cup {None}
    BY <1>3 DEF TypeInv, Owners
  <2> QED BY <1>1, <1>3, <2>1, EnterMoves
<1>5. ASSUME NEW q \in Requests
      PROVE  (Lone(q)' => Undisturbed(q)') /\ (Ended(q)' => Delivered(q)')
  <2>1. CASE q = p
    <3>1. Active(p)'
      BY <1>3, <1>4 DEF Active
    <3>2. ASSUME Lone(p)'
          PROVE  Undisturbed(p)'
      <4>1. k = "crew" /\ left = {} /\ \A r \in Requests \ {p} : ~(Active(r) /\ OfVoyage(r))
        BY <1>1, <1>4, <3>2 DEF Lone
      <4>2. hold'[p] # None /\ hold'[p] = sandbox'["voyage"]
        BY <1>1, <1>4, <4>1
      <4>3. \A r \in Requests \ {p} : ~(Active(r)' /\ OfVoyage(r)')
        BY <1>4, <4>1 DEF OthersStay, Active, OfVoyage
      <4>4. Progress(p)'
        BY <1>3, <1>4, <4>1 DEF Progress, NextIs
      <4> QED BY <1>2, <4>1, <4>2, <4>3, <4>4 DEF Undisturbed
    <3> QED BY <2>1, <3>1, <3>2 DEF Ended
  <2>2. CASE q # p
    <3>1. /\ kind'[q] = kind[q] /\ todo'[q] = todo[q] /\ work'[q] = work[q]
          /\ result'[q] = result[q] /\ alone'[q] = (alone[q] /\ ~Active(q))
      BY <1>1, <1>4, <2>2 DEF OthersStay
    <3>2. ~Lone(q)' /\ (Ended(q)' => Ended(q))
      BY <3>1 DEF Lone, Active, Ended
    <3> QED BY <1>2, <3>1, <3>2, LoneInvParts DEF Delivered
  <2> QED BY <2>1, <2>2
<1> QED BY <1>5 DEF LoneInv, DeliveredWhenAlone, Lone, Undisturbed, Ended, Delivered

LEMMA ExecRequestKeepsLone ==
    ASSUME TypeInv, SandboxInv, LoneInv, NEW p \in Requests, ExecRequest(p)
    PROVE  LoneInv'
<1>1. PICK k \in Kinds \cap {"run", "status", "destroy"} :
         /\ Enter(p, k, work[p], sandbox["user"], ExecScript(k))
         /\ sandbox' = IF k = "destroy" THEN Popped(k) ELSE sandbox
  BY DEF ExecRequest
<1>2. UNCHANGED <<container, tree, origin, alone, left>>
  BY DEF ExecRequest
<1>3. kind'[p] \notin GitKinds /\ OthersStay(p)
  BY <1>1 DEF Enter, TypeInv, OpsOK, OthersStay, GitKinds, PlainKinds
<1>4. sandbox'["voyage"] = sandbox["voyage"]
  BY <1>1 DEF Popped, TypeInv, Owners
<1> QED BY <1>2, <1>3, <1>4, UserStepKeepsLone

\* The steps of an operation are its own.
LEMMA StepsAreOwn ==
    ASSUME TypeInv, SandboxInv, NEW p \in Requests, Step(p)
    PROVE  /\ Active(p) /\ OthersStay(p) /\ kind'[p] = kind[p] /\ work'[p] = work[p]
           /\ alone' = alone
<1>1. CASE Create(p) \/ Start(p)
  <2>1. /\ Active(p) /\ UNCHANGED <<kind, work, result, alone>>
        /\ todo' = [todo EXCEPT ![p] = Tail(todo[p])]
        /\ (\E s : hold' = [hold EXCEPT ![p] = s]) \/ hold' = hold
    BY <1>1 DEF Create, Start, At
  <2> QED BY <2>1 DEF OthersStay, TypeInv, OpsOK
<1>2. CASE Status(p)
  <2>1. Active(p) /\ alone' = alone /\ OpsOK
    BY <1>2 DEF Status, At, TypeInv
  <2>2. work' = work
    BY <1>2 DEF Status, GoOn, Leave
  <2> QED BY <1>2, <2>1, <2>2, StatusKeepsSandboxes
<1>3. CASE Kill(p)
  BY <1>3, KillKeepsSandboxes DEF Quiet, Kill, At
<1>4. CASE Delete(p)
  BY <1>4, DeleteKeepsSandboxes DEF Delete, At, Leave
<1>5. CASE Post(p)
  BY <1>5, PostKeepsSandboxes DEF Post, At, MovesTo
<1>6. CASE Succeed(p)
  BY <1>6, SucceedKeepsSandboxes DEF Quiet, Succeed
<1>7. CASE Break(p)
  BY <1>7, BreakKeepsSandboxes DEF Quiet, Break
<1>8. CASE TimeOut(p)
  BY <1>8, TimeOutKeepsSandboxes DEF Quiet, TimeOut
<1>9. CASE RefuseSandbox(p)
  BY <1>9, RefuseKeepsSandboxes DEF Quiet, RefuseSandbox, At
<1> QED BY <1>1, <1>2, <1>3, <1>4, <1>5, <1>6, <1>7, <1>8, <1>9 DEF Step

LEMMA UserCallKeepsLone ==
    ASSUME TypeInv, SandboxInv, LoneInv, NEW p \in Requests, Step(p), kind[p] \in ExecKinds
    PROVE  LoneInv'
<1>1. /\ Active(p) /\ OthersStay(p) /\ kind'[p] = kind[p] /\ alone' = alone
  BY StepsAreOwn
<1>2. kind'[p] \notin GitKinds
  BY <1>1 DEF ExecKinds, GitKinds, PlainKinds
<1>3. Head(todo[p]) \in CallsOf(kind[p]) /\ (Head(todo[p]) \in Commands => Head(todo[p]) = "exec")
  BY <1>1, Calls, Callers DEF TypeInv, OpsOK
<1>4. CASE \/ Create(p) \/ Start(p) \/ RefuseSandbox(p) \/ Status(p) \/ Kill(p) \/ Delete(p)
           \/ Post(p)
  <2>1. UNCHANGED <<tree, origin, left>>
    BY <1>4 DEF Create, Start, RefuseSandbox, Status, Kill, Delete, Post
  <2>2. sandbox'["voyage"] = sandbox["voyage"]
    BY <1>4 DEF Create, Start, RefuseSandbox, Status, Kill, Delete, Post, TypeInv, Owners
  <2> QED BY <1>1, <1>2, <2>1, <2>2, UserStepKeepsLone
<1>5. CASE Succeed(p)
  <2>1. /\ Head(todo[p]) = "exec" /\ Running(hold[p]) /\ left' = left
    BY <1>3, <1>5 DEF Succeed
  <2>2. sandbox' = sandbox /\ origin' = origin
    BY <1>5, <2>1 DEF Succeed, RegistersAt, Pushed
  <2>3. PICK u \in After(tree[hold[p]], "exec", work[p]) : tree' = [tree EXCEPT ![hold[p]] = u]
    BY <1>5, <2>1 DEF Succeed
  <2>4. hold[p] \in Ids /\ work[p] \in Works /\ "exec" \in Commands
    BY <2>1 DEF TypeInv, OpsOK, Running, Commands
  <2>5. u = tree[hold[p]]
    BY <2>3, <2>4, AfterCommand DEF TypeInv
  <2>6. tree' = tree
    BY <2>3, <2>5 DEF TypeInv
  <2> QED BY <1>1, <1>2, <2>1, <2>2, <2>6, UserStepKeepsLone
<1>6. CASE Break(p) \/ TimeOut(p)
  <2>1. UNCHANGED <<tree, origin, sandbox>> /\ Head(todo[p]) = "exec"
    BY <1>3, <1>6 DEF Break, TimeOut
  <2>2. \A c \in left' \ left : c[2] = "exec"
    BY <1>6, <2>1 DEF Break, TimeOut
  <2> QED BY <1>1, <1>2, <2>1, <2>2, UserStepKeepsLone
<1> QED BY <1>4, <1>5, <1>6 DEF Step

\* A call of a voyage's operation; the next call of the commit finds what the last one left.
LEMMA CrewSucceeds ==
    ASSUME TypeInv, LoneInv, NEW p \in Requests, Lone(p), Succeed(p)
    PROVE  /\ Active(p)' => Undisturbed(p)'
           /\ ~Active(p)' /\ result'[p] = "ok" => Delivered(p)'
<1> DEFINE c == Head(todo[p])
           s == hold[p]
           b == Author[work[p]]
<1>1. /\ kind[p] = "crew" /\ Active(p) /\ c \in Commands /\ Running(s)
      /\ UNCHANGED <<container, alone, left>>
      /\ sandbox' = IF c = "config" THEN [sandbox EXCEPT !["voyage"] = s] ELSE sandbox
      /\ origin' = Pushed(tree[s], c, work[p])
  BY DEF Succeed, RegistersAt, Lone
<1>2. PICK u \in After(tree[s], c, work[p]) : tree' = [tree EXCEPT ![s] = u]
  BY DEF Succeed
<1>3. PICK rest \in Rest(p) : GoOn(p, rest)
  BY DEF Succeed
<1>4. /\ s \in Ids /\ work[p] \in Works /\ OpsOK /\ tree[s] \in Trees
      /\ sandbox \in [Owners -> Ids \cup {None}] /\ origin \subseteq Branches \X Works
  BY <1>1 DEF TypeInv, OpsOK, Running
<1>5. todo[p] \in TodoOf("crew") /\ c \in {"checkout", "put", "commit", "query", "push"}
      /\ (rest = <<>> \/ rest \in TodoOf("crew")) /\ rest = Tail(todo[p])
  <2>1. todo[p] \in TodoOf("crew")
    BY <1>1, <1>4 DEF OpsOK
  <2>2. c \in {"checkout", "put", "commit", "query", "push"}
    BY <2>1, CrewCalls DEF CallsOf, PlainKinds
  <2> QED BY <1>1, <1>3, <1>4, <2>1, <2>2, RestOfOperation
<1>6. /\ c = "checkout" => NextIs(rest, "put")
      /\ c = "put" => NextIs(rest, "commit")
      /\ c = "commit" => NextIs(rest, "query")
      /\ c = "query" => NextIs(rest, "push")
      /\ c = "push" => NextIs(rest, "end")
  BY <1>5, CrewCalls
<1>7. Undisturbed(p)
  BY LoneInvParts
<1>8. /\ sandbox' = sandbox /\ s = sandbox["voyage"] /\ s # None
      /\ \A r \in Requests \ {p} : ~(Active(r) /\ OfVoyage(r))
  BY <1>1, <1>5, <1>7 DEF Undisturbed
<1>9. /\ u \in Trees /\ tree'[s] = u
      /\ c \in {"query", "push"} => u = tree[s]
      /\ c = "checkout" => u.head = b
      /\ c = "put" => u.head = tree[s].head /\ work[p] \in u.dirty
      /\ c = "commit" => \A x \in tree[s].dirty : <<tree[s].head, x>> \in u.on
  <2>1. tree'[s] = u
    BY <1>2, <1>4 DEF TypeInv
  <2> QED BY <1>1, <1>2, <1>4, <2>1, AfterCommand
<1>10. CASE rest = <<>>
  <2>1. c = "push"
    BY <1>5, <1>6, <1>10 DEF NextIs
  <2>2. <<b, work[p]>> \in tree[s].on
    BY <1>7, <2>1 DEF Undisturbed, Progress
  <2>3. <<b, work[p]>> \in origin'
    <3>1. work[p] \in On(tree[s], b)
      BY <1>4, <2>2 DEF On
    <3> QED BY <1>1, <1>4, <2>1, <3>1, AfterPush
  <2>4. ~Active(p)' /\ work'[p] = work[p]
    BY <1>3, <1>4, <1>10, LeaveMoves DEF GoOn, MovesTo, Active
  <2> QED BY <2>3, <2>4 DEF Delivered
<1>11. CASE rest # <<>>
  <2>1. /\ OthersStay(p) /\ Active(p)' /\ kind'[p] = kind[p] /\ work'[p] = work[p]
        /\ todo'[p] = rest /\ hold'[p] = s
    <3>1. OpsOK' /\ \/ MovesTo(p, <<>>, None, "failed")
                    \/ IF Head(rest) \in LooksUp
                         THEN MovesTo(p, rest, sandbox["voyage"], result[p])
                         ELSE MovesTo(p, rest, hold[p], result[p])
      BY <1>1, <1>3, <1>4, <1>5, <1>11, GoOnMoves
    <3>2. hold'[p] # None
      BY <1>3, <1>4, <1>8, <1>11 DEF GoOn, OpsOK
    <3> QED BY <1>8, <1>11, <3>1, <3>2 DEF MovesTo, Active
  <2>2. \A r \in Requests \ {p} : ~(Active(r)' /\ OfVoyage(r)')
    BY <1>8, <2>1 DEF OthersStay, Active, OfVoyage
  <2>3. Progress(p)'
    <3>1. CASE c = "checkout"
      BY <1>6, <1>9, <2>1, <3>1 DEF NextIs, Progress
    <3>2. CASE c = "put"
      BY <1>6, <1>7, <1>9, <2>1, <3>2 DEF NextIs, Progress, Undisturbed
    <3>3. CASE c = "commit"
      BY <1>6, <1>7, <1>9, <2>1, <3>3 DEF NextIs, Progress, Undisturbed
    <3>4. CASE c = "query"
      BY <1>6, <1>7, <1>9, <2>1, <3>4 DEF NextIs, Progress, Undisturbed
    <3> QED BY <1>5, <1>6, <1>11, <3>1, <3>2, <3>3, <3>4 DEF NextIs
  <2>4. \A x \in left' : x[2] = "exec"
    BY <1>1, <1>7 DEF Undisturbed
  <2>5. Undisturbed(p)'
    BY <1>8, <2>1, <2>2, <2>3, <2>4 DEF Undisturbed
  <2> QED BY <2>1, <2>5
<1> QED BY <1>10, <1>11

LEMMA VoyageCallKeepsLone ==
    ASSUME TypeInv, SandboxInv, LoneInv, NEW p \in Requests, Step(p), kind[p] \in GitKinds
    PROVE  LoneInv'
<1>1. /\ Active(p) /\ OthersStay(p) /\ kind'[p] = kind[p] /\ work'[p] = work[p]
      /\ alone' = alone
  BY StepsAreOwn
<1>2. OfVoyage(p)
  BY VoyageKinds DEF OfVoyage
<1>3. origin \subseteq origin'
  <2>1. CASE Succeed(p)
    <3>1. hold[p] \in Ids /\ work[p] \in Works /\ tree \in [Ids -> Trees]
          /\ origin \subseteq Branches \X Works
      BY <2>1 DEF Succeed, TypeInv, OpsOK, Running
    <3> QED BY <2>1, <3>1, AfterPush DEF Succeed
  <2>2. CASE ~Succeed(p)
    BY <2>2 DEF Step, Create, Start, RefuseSandbox, Status, Kill, Delete, Post, Break, TimeOut
  <2> QED BY <2>1, <2>2
<1>4. ASSUME Lone(p)
      PROVE  /\ Active(p)' => Undisturbed(p)'
             /\ ~Active(p)' /\ result'[p] = "ok" => Delivered(p)'
  <2>1. kind[p] = "crew" /\ Head(todo[p]) \in {"checkout", "put", "commit", "query", "push"}
    <3>1. kind[p] = "crew" /\ todo[p] \in TodoOf("crew")
      BY <1>1, <1>4 DEF Lone, TypeInv, OpsOK
    <3> QED BY <3>1, CrewCalls DEF CallsOf, PlainKinds
  <2>2. CASE Succeed(p)
    BY <1>4, <2>2, CrewSucceeds
  <2>3. CASE Break(p) \/ TimeOut(p)
    <3>1. Fail(p)
      BY <2>1, <2>3 DEF Break, TimeOut, Unchecked
    <3>2. ~Active(p)' /\ result'[p] = "failed"
      BY <1>1, <2>1, <3>1, FailIsQuiet DEF TypeInv
    <3> QED BY <3>2
  <2>4. CASE \/ Create(p) \/ Start(p) \/ RefuseSandbox(p) \/ Status(p) \/ Kill(p) \/ Delete(p)
             \/ Post(p)
    BY <2>1, <2>4 DEF Create, Start, RefuseSandbox, Status, Kill, Delete, Post, At
  <2> QED BY <2>2, <2>3, <2>4 DEF Step
<1> QED BY <1>1, <1>2, <1>3, <1>4, VoyageStepKeepsLone

LEMMA NextKeepsLone ==
    ASSUME TypeInv, SandboxInv, LoneInv, [Next]_vars
    PROVE  LoneInv'
<1>1. ASSUME NEW q \in Requests, GitRequest(q) \/ ExecRequest(q)
      PROVE  LoneInv'
  BY <1>1, GitRequestKeepsLone, ExecRequestKeepsLone
<1>2. ASSUME NEW q \in Requests, Step(q)
      PROVE  LoneInv'
  <2>1. Active(q) /\ kind[q] \in GitKinds \cup ExecKinds
    <3>1. Active(q)
      BY <1>2, StepsAreOwn
    <3>2. Head(todo[q]) \in CallsOf(kind[q])
      BY <3>1, Calls DEF TypeInv, OpsOK
    <3> QED BY <3>1, <3>2, Callers
  <2> QED BY <1>2, <2>1, UserCallKeepsLone, VoyageCallKeepsLone
\* What outlived its call while the commit is alone is a test, which changes no repository.
<1>3. CASE EndLate
  <2>1. PICK c \in left :
          /\ left' = left \ {c}
          /\ \/ UNCHANGED <<tree, origin>>
             \/ /\ Running(c[1])
                /\ \E u \in After(tree[c[1]], c[2], c[3]) : tree' = [tree EXCEPT ![c[1]] = u]
                /\ origin' = Pushed(tree[c[1]], c[2], c[3])
    BY <1>3 DEF EndLate
  <2>2. UNCHANGED <<sandbox, opVars>>
    BY <1>3 DEF EndLate
  <2>3. c[1] \in Ids /\ c[2] \in Commands /\ c[3] \in Works
    BY DEF TypeInv
  <2>4. origin \subseteq origin' /\ (c[2] = "exec" => tree' = tree)
    <3>1. CASE UNCHANGED <<tree, origin>>
      BY <3>1
    <3>2. CASE /\ \E u \in After(tree[c[1]], c[2], c[3]) : tree' = [tree EXCEPT ![c[1]] = u]
               /\ origin' = Pushed(tree[c[1]], c[2], c[3])
      <4>1. PICK u \in After(tree[c[1]], c[2], c[3]) : tree' = [tree EXCEPT ![c[1]] = u]
        BY <3>2
      <4> QED BY <2>3, <3>2, <4>1, CommandKeepsTrees
    <3> QED BY <2>1, <3>1, <3>2
  <2>5. ASSUME NEW q \in Requests
        PROVE  (Lone(q)' => Undisturbed(q)') /\ (Ended(q)' => Delivered(q)')
    <3>1. Lone(q)' => Lone(q) /\ Undisturbed(q) /\ tree' = tree
      BY <2>2, <2>4, LoneInvParts DEF Lone, Active, opVars, Undisturbed
    <3>2. Lone(q)' => Undisturbed(q)'
      BY <2>1, <2>2, <3>1 DEF Undisturbed, Progress, Active, OfVoyage, opVars
    <3>3. Ended(q)' => Delivered(q)'
      BY <2>2, <2>4, LoneInvParts DEF Ended, Delivered, Active, opVars
    <3> QED BY <3>2, <3>3
  <2> QED BY <2>5 DEF LoneInv, DeliveredWhenAlone, Lone, Undisturbed, Ended, Delivered
<1>4. CASE Die \/ UNCHANGED vars
  <2>1. UNCHANGED <<tree, origin, sandbox, opVars, left>>
    BY <1>4 DEF Die, vars
  <2> QED BY <2>1 DEF LoneInv, DeliveredWhenAlone, Lone, Progress, Active, OfVoyage, opVars
<1>5. CASE CleanupAll
  <2>1. (\A q \in Requests : ~Active(q)) /\ UNCHANGED <<origin, opVars>>
    BY <1>5 DEF CleanupAll
  <2> QED BY <2>1 DEF LoneInv, DeliveredWhenAlone, Lone, Active, opVars
<1> QED BY <1>1, <1>2, <1>3, <1>4, <1>5 DEF Next

-----------------------------------------------------------------------------
(* The container that is to be started *)

LEMMA RequestKeepsUnstarted ==
    ASSUME TypeInv, Unstarted, NEW p \in Requests, GitRequest(p) \/ ExecRequest(p)
    PROVE  Unstarted'
<1>1. OthersStay(p) /\ ~At(p, "start")' /\ container' = container
  <2>1. CASE GitRequest(p)
    <3>1. PICK k \in DOMAIN GitScript : \E w : Enter(p, k, w, sandbox["voyage"], GitScript[k])
      BY <2>1 DEF GitRequest
    <3>2. Head(GitScript[k]) # "start"
      <4>1. k \in GitKinds /\ Head(GitScript[k]) \in CallsOf(k)
        BY GitScripts, Calls
      <4>2. Head(GitScript[k]) = "start" => k = "clone"
        BY <4>1, Callers DEF GitKinds, PlainKinds
      <4> QED BY <4>2, GitScripts DEF NextIs
    <3> QED BY <2>1, <3>1, <3>2 DEF GitRequest, Enter, OthersStay, At, TypeInv, OpsOK
  <2>2. CASE ExecRequest(p)
    <3>1. PICK k : Enter(p, k, work[p], sandbox["user"], ExecScript(k)) /\ k \in {"run", "status", "destroy"}
      BY <2>2 DEF ExecRequest
    <3>2. ExecScript(k) \in {Removal, <<"status">>, <<"status", "exec">>, <<"create", "start", "exec">>}
      BY <3>1 DEF ExecScript
    <3>3. Head(ExecScript(k)) # "start"
      BY <3>2, OneCall, TwoCalls, ThreeCalls DEF Removal
    <3> QED BY <2>2, <3>1, <3>3 DEF ExecRequest, Enter, OthersStay, At, TypeInv, OpsOK
  <2> QED BY <2>1, <2>2
<1> QED BY <1>1 DEF Unstarted, OthersStay, At, Active

\* The container an operation is about to start is its own, so that no step of another reaches it.
LEMMA StepKeepsUnstarted ==
    ASSUME TypeInv, SandboxInv, Unstarted, NEW p \in Requests, Step(p)
    PROVE  Unstarted'
<1>1. /\ Active(p) /\ OthersStay(p) /\ OpsOK
      /\ todo[p] \in TodoOf(kind[p]) /\ Head(todo[p]) \in CallsOf(kind[p])
      /\ hold \in [Requests -> Ids \cup {None}]
      /\ container \in [Ids -> {"absent", "created", "running", "exited", "gone"}]
  BY StepsAreOwn, Calls DEF TypeInv, OpsOK
<1>2. ASSUME NEW r \in Requests \ {p}, At(r, "start")'
      PROVE  container'[hold'[r]] = "created"
  <2>1. At(r, "start") /\ hold'[r] = hold[r]
    BY <1>1, <1>2 DEF OthersStay, At, Active
  <2>2. container[hold[r]] = "created" /\ hold[r] # hold[p] /\ hold[r] # None
    BY <1>1, <2>1 DEF Unstarted, SandboxInv, OwnsWhatItMakes, Making, MakingCalls, At
  <2>3. CASE UNCHANGED container
    BY <2>1, <2>2, <2>3
  <2>4. CASE ~UNCHANGED container
    <3>1. \E s, how : /\ container' = [container EXCEPT ![s] = how]
                      /\ s = hold[p] \/ container[s] = "absent"
      BY <2>4, Zenon DEF Step, Create, Start, RefuseSandbox, Status, Kill, Delete, Succeed, Break,
                         TimeOut, Post, Fresh
    <3>2. PICK s, how : /\ container' = [container EXCEPT ![s] = how]
                        /\ s = hold[p] \/ container[s] = "absent"
      BY <3>1
    <3>3. s # hold[r] /\ hold[r] \in Ids
      BY <1>1, <2>2, <3>2
    <3> QED BY <1>1, <2>1, <2>2, <3>2, <3>3
  <2> QED BY <2>3, <2>4
<1>3. ASSUME At(p, "start")'
      PROVE  container'[hold'[p]] = "created"
  <2>1. CASE Create(p)
    BY <1>1, <2>1 DEF Create, Fresh
  <2>2. CASE Start(p)
    <3>1. kind[p] \in {"clone", "run"} /\ todo'[p] = Tail(todo[p]) /\ Head(todo[p]) = "start"
      BY <1>1, <2>2, Callers DEF Start, At, OpsOK
    <3>2. NextIs(Tail(todo[p]), "clone") \/ NextIs(Tail(todo[p]), "exec")
      BY <1>1, <3>1, CloneCalls, RunCalls
    <3> QED BY <1>3, <3>1, <3>2 DEF NextIs, At, Active
  <2>3. CASE Status(p)
    BY <1>3, <2>3, StatusKeepsSandboxes
  <2>4. CASE Delete(p)
    BY <1>1, <1>3, <2>4 DEF Delete, Leave, At, Active, OpsOK
  <2>5. CASE Post(p)
    BY <1>3, <2>5, PostKeepsSandboxes DEF MovesTo, At, Active
  <2>6. CASE Kill(p) \/ RefuseSandbox(p)
    BY <1>3, <2>6, KillKeepsSandboxes, RefuseKeepsSandboxes DEF Quiet
  <2>7. CASE Succeed(p) \/ Break(p) \/ TimeOut(p)
    BY <1>3, <2>7, SucceedKeepsSandboxes, BreakKeepsSandboxes, TimeOutKeepsSandboxes DEF Quiet
  <2> QED BY <2>1, <2>2, <2>3, <2>4, <2>5, <2>6, <2>7 DEF Step
<1> QED BY <1>2, <1>3 DEF Unstarted

LEMMA NextKeepsUnstarted ==
    ASSUME TypeInv, SandboxInv, Unstarted, [Next]_vars
    PROVE  Unstarted'
<1>1. ASSUME NEW q \in Requests, GitRequest(q) \/ ExecRequest(q) \/ Step(q)
      PROVE  Unstarted'
  BY <1>1, RequestKeepsUnstarted, StepKeepsUnstarted
<1>2. CASE EndLate \/ UNCHANGED vars
  BY <1>2 DEF EndLate, vars, opVars, Unstarted, At, Active
<1>3. CASE Die
  BY <1>3 DEF Die, Running, opVars, Unstarted, At, Active, TypeInv
<1>4. CASE CleanupAll
  BY <1>4 DEF CleanupAll, opVars, Unstarted, At, Active
<1> QED BY <1>1, <1>2, <1>3, <1>4 DEF Next

-----------------------------------------------------------------------------
(* What becomes of a running sandbox *)

\* A step that leaves the sandbox s running keeps it, or hands it on; it is held on to.
HandedOn(s) ==
    s \in Registered =>
        \/ s \in Registered'
        \/ \E q \in Requests : Holds(q, s)'
        \/ \E q \in Requests, o \in Owners :
             /\ Active(q) /\ hold[q] # s
             /\ sandbox[o] = s /\ sandbox[o]' \in {None, hold[q]}
HeldOn(s) == \A q \in Requests : Holds(q, s) => Holds(q, s)' \/ s \in Registered'
Kept ==
    \A s \in Ids : Running(s) /\ Running(s)' =>
         /\ s \in Registered =>
              \/ s \in Registered'
              \/ \E q \in Requests : Holds(q, s)'
              \/ \E q \in Requests, o \in Owners :
                   /\ Active(q) /\ hold[q] # s
                   /\ sandbox[o] = s /\ sandbox[o]' \in {None, hold[q]}
         /\ \A q \in Requests : Holds(q, s) => Holds(q, s)' \/ s \in Registered'

\* The operations that were not taking the step hold what they held.
LEMMA OthersHold ==
    ASSUME NEW p \in Requests, OthersStay(p), NEW s \in Ids,
           Holds(p, s) => Holds(p, s)' \/ s \in Registered'
    PROVE  HeldOn(s)
BY DEF HeldOn, Holds, OthersStay, Active

LEMMA RequestKeeps ==
    ASSUME TypeInv, SandboxInv, NEW p \in Requests, GitRequest(p) \/ ExecRequest(p), NEW s \in Ids
    PROVE  HandedOn(s) /\ HeldOn(s)
<1>1. PICK o \in Owners : \E k, w, calls :
         /\ Enter(p, k, w, sandbox[o], calls) /\ calls # <<>>
         /\ sandbox' \in {sandbox, [sandbox EXCEPT ![o] = None]}
         /\ sandbox' # sandbox => k \in {"cleanup", "destroy"}
  <2>1. CASE GitRequest(p)
    <3>1. PICK k \in Kinds \cap DOMAIN GitScript, w \in Works :
            /\ Enter(p, k, w, sandbox["voyage"], GitScript[k])
            /\ sandbox' = IF k = "cleanup" THEN Popped(k) ELSE sandbox
      BY <2>1 DEF GitRequest
    <3>2. GitScript[k] # <<>> /\ "voyage" \in Owners
      BY GitScripts, Calls DEF Owners
    <3>3. /\ sandbox' \in {sandbox, [sandbox EXCEPT !["voyage"] = None]}
          /\ sandbox' # sandbox => k \in {"cleanup", "destroy"}
      BY <3>1 DEF Popped
    <3> QED BY <3>1, <3>2, <3>3, Zenon
  <2>2. CASE ExecRequest(p)
    <3>1. PICK k \in Kinds \cap {"run", "status", "destroy"} :
            /\ Enter(p, k, work[p], sandbox["user"], ExecScript(k))
            /\ sandbox' = IF k = "destroy" THEN Popped(k) ELSE sandbox
      BY <2>2 DEF ExecRequest
    <3>2. ExecScript(k) \in {Removal, <<"status">>, <<"status", "exec">>, <<"create", "start", "exec">>}
      BY DEF ExecScript
    <3>3. ExecScript(k) # <<>> /\ "user" \in Owners
      BY <3>2, OneCall, TwoCalls, ThreeCalls DEF Removal, Owners
    <3>4. /\ sandbox' \in {sandbox, [sandbox EXCEPT !["user"] = None]}
          /\ sandbox' # sandbox => k \in {"cleanup", "destroy"}
      BY <3>1 DEF Popped
    <3> QED BY <3>1, <3>3, <3>4, Zenon
  <2> QED BY <2>1, <2>2
<1>2. /\ OthersStay(p) /\ ~Active(p) /\ Active(p)' /\ hold'[p] = sandbox[o]
      /\ sandbox' # sandbox => kind'[p] \in {"cleanup", "destroy"}
  BY <1>1 DEF Enter, OthersStay, TypeInv, OpsOK, Active
<1>3. HandedOn(s)
  <2>1. CASE sandbox' = sandbox
    BY <2>1 DEF HandedOn, Registered
  <2>2. CASE sandbox' # sandbox
    <3>1. s \in Registered => s = sandbox[o] \/ s \in Registered'
      BY <1>1, <2>2 DEF Registered, TypeInv
    <3>2. s = sandbox[o] => Holds(p, s)'
      BY <1>1, <1>2, <2>2 DEF Holds
    <3> QED BY <3>1, <3>2 DEF HandedOn
  <2> QED BY <2>1, <2>2
<1>4. HeldOn(s)
  BY <1>2, OthersHold DEF Holds
<1> QED BY <1>3, <1>4

\* An operation that makes or removes the sandbox goes on with it until it is registered or
\* does not run any more; whoever takes the place of another sandbox had another one.
LEMMA StepKeeps ==
    ASSUME TypeInv, SandboxInv, Unstarted, NEW p \in Requests, Step(p), NEW s \in Ids, Running(s),
           Running(s)'
    PROVE  HandedOn(s) /\ HeldOn(s)
<1>1. /\ Active(p) /\ OthersStay(p) /\ kind'[p] = kind[p]
  BY StepsAreOwn
<1>2. /\ OpsOK /\ todo[p] \in TodoOf(kind[p]) /\ Head(todo[p]) \in CallsOf(kind[p])
      /\ hold[p] \in Ids \cup {None} /\ sandbox \in [Owners -> Ids \cup {None}]
      /\ container \in [Ids -> {"absent", "created", "running", "exited", "gone"}]
  BY <1>1, Calls DEF TypeInv, OpsOK
<1>3. HandedOn(s)
  <2>1. CASE sandbox' = sandbox
    BY <2>1 DEF HandedOn, Registered
  <2>2. CASE \E o \in Owners : /\ sandbox' = [sandbox EXCEPT ![o] = hold[p]]
                               /\ Making(p)
    <3>1. PICK o \in Owners : sandbox' = [sandbox EXCEPT ![o] = hold[p]]
      BY <2>2
    <3>2. hold[p] \notin Registered
      BY <2>2 DEF SandboxInv, OwnsWhatItMakes
    <3>3. s \in Registered => s \in Registered' \/ s = sandbox[o]
      BY <1>2, <3>1 DEF Registered
    <3>4. s = sandbox[o] => hold[p] # s /\ sandbox'[o] = hold[p]
      BY <1>2, <3>1, <3>2 DEF Registered
    <3> QED BY <1>1, <3>3, <3>4 DEF HandedOn
  <2>3. CASE sandbox' = [sandbox EXCEPT !["user"] = None] /\ container[hold[p]] = "gone"
    <3>1. "user" \in Owners /\ hold[p] # s
      BY <2>3 DEF Owners, Running
    <3>2. s \in Registered => s \in Registered' \/ s = sandbox["user"]
      BY <1>2, <2>3 DEF Registered
    <3>3. sandbox'["user"] = None
      BY <1>2, <2>3, <3>1
    <3> QED BY <1>1, <3>1, <3>2, <3>3 DEF HandedOn
  <2>4. CASE Start(p)
    <3>1. Making(p)
      BY <1>1, <2>4 DEF Start, At, Making, MakingCalls
    <3> QED BY <2>1, <2>2, <2>4, <3>1 DEF Start, Owners
  <2>5. CASE Succeed(p)
    <3>1. Head(todo[p]) = "config" => Making(p)
      BY <1>1 DEF Making, MakingCalls
    <3> QED BY <2>1, <2>2, <2>5, <3>1 DEF Succeed, RegistersAt, Owners
  <2>6. CASE Status(p)
    BY <2>1, <2>3, <2>6 DEF Status, HasStatus
  <2>7. CASE ~(Start(p) \/ Succeed(p) \/ Status(p))
    BY <2>1, <2>7 DEF Step, Create, RefuseSandbox, Kill, Delete, Post, Break, TimeOut
  <2> QED BY <2>4, <2>5, <2>6, <2>7
<1>4. ASSUME Holds(p, s)
      PROVE  Holds(p, s)' \/ s \in Registered'
  <2>1. hold[p] = s /\ kind[p] \in {"clone", "cleanup", "destroy"} /\ s # None
    BY <1>4 DEF Holds, Running
  <2>2. Head(todo[p]) \in {"create", "start", "clone", "config", "kill", "delete"}
    BY <1>2, <2>1 DEF CallsOf, PlainKinds
  <2>3. CASE Create(p)
    BY <2>1, <2>3, <1>2, Callers DEF Create, At, SandboxInv, BeginsWithNothing, RemovingCalls, CallsOf, PlainKinds
  <2>4. CASE Start(p)
    <3>1. kind[p] = "clone"
      BY <1>2, <2>1, <2>4, Callers DEF Start, At
    <3>2. NextIs(Tail(todo[p]), "clone")
      BY <1>2, <2>4, <3>1, CloneCalls DEF Start, At
    <3>3. todo'[p] = Tail(todo[p]) /\ hold' = hold
      BY <1>2, <2>4 DEF Start, OpsOK
    <3> QED BY <1>1, <2>1, <3>2, <3>3 DEF Holds, NextIs, Active
  <2>5. CASE Status(p) \/ Post(p)
    BY <2>2, <2>5 DEF Status, Post, At
  <2>6. CASE Kill(p) \/ Delete(p)
    <3>1. container'[s] # "running"
      BY <1>2, <2>1, <2>6 DEF Kill, Delete, Running
    <3> QED BY <3>1 DEF Running
  <2>7. CASE Break(p) \/ TimeOut(p)
    <3>1. Head(todo[p]) \in {"clone", "config"} /\ kind[p] = "clone"
      BY <1>2, <2>1, <2>2, <2>7, Callers DEF Break, TimeOut, Commands
    <3>2. Fail(p)
      BY <2>7, <3>1 DEF Break, TimeOut, Unchecked
    <3>3. /\ todo' = [todo EXCEPT ![p] = Removal] /\ hold' = hold
      BY <2>1, <3>1, <3>2 DEF Fail
    <3>4. Active(p)'
      BY <1>2, <3>3, TwoCalls DEF Removal, Active, OpsOK
    <3> QED BY <1>1, <2>1, <3>3, <3>4 DEF Holds
  <2>8. CASE Succeed(p)
    <3>1. Head(todo[p]) \in {"clone", "config"} /\ kind[p] = "clone"
      BY <1>2, <2>1, <2>2, <2>8, Callers DEF Succeed, Commands
    <3>2. CASE Head(todo[p]) = "config"
      BY <1>2, <2>1, <2>8, <3>2 DEF Succeed, RegistersAt, Registered, Owners
    <3>3. CASE Head(todo[p]) = "clone"
      <4>1. PICK rest \in Rest(p) : GoOn(p, rest)
        BY <2>8 DEF Succeed
      <4>2. rest = Tail(todo[p])
        BY <1>1, <1>2, <3>3, <4>1, RestOfOperation
      <4>3. NextIs(rest, "config")
        BY <1>2, <3>1, <3>3, <4>2, CloneCalls
      <4>4. todo' = [todo EXCEPT ![p] = rest] /\ hold' = hold
        BY <4>1, <4>3 DEF GoOn, NextIs, LooksUp
      <4>5. Active(p)'
        BY <1>2, <4>3, <4>4 DEF NextIs, Active, OpsOK
      <4> QED BY <1>1, <2>1, <4>4, <4>5 DEF Holds
    <3> QED BY <3>1, <3>2, <3>3
  <2>9. CASE RefuseSandbox(p)
    <3>1. CASE At(p, "create")
      BY <2>1, <1>2, <3>1, Callers
         DEF At, SandboxInv, BeginsWithNothing, RemovingCalls, CallsOf, PlainKinds
    <3>2. CASE At(p, "start")
      BY <2>1, <3>2 DEF Unstarted, Running
    <3> QED BY <2>9, <3>1, <3>2 DEF RefuseSandbox
  <2> QED BY <2>3, <2>4, <2>5, <2>6, <2>7, <2>8, <2>9 DEF Step
<1> QED BY <1>1, <1>3, <1>4, OthersHold

LEMMA KeptStep == TypeInv /\ SandboxInv /\ Unstarted /\ [Next]_vars => [Kept]_vars
<1> SUFFICES ASSUME TypeInv, SandboxInv, Unstarted, Next, NEW s \in Ids, Running(s), Running(s)'
             PROVE  HandedOn(s) /\ HeldOn(s)
  BY DEF Kept, HandedOn, HeldOn
<1>1. ASSUME NEW q \in Requests, GitRequest(q) \/ ExecRequest(q)
      PROVE  HandedOn(s) /\ HeldOn(s)
  BY <1>1, RequestKeeps
<1>2. ASSUME NEW q \in Requests, Step(q)
      PROVE  HandedOn(s) /\ HeldOn(s)
  BY <1>2, StepKeeps
<1>3. CASE EndLate \/ Die
  <2>1. UNCHANGED <<sandbox, opVars>>
    BY <1>3 DEF EndLate, Die
  <2> QED BY <2>1 DEF HandedOn, HeldOn, Registered, Holds, Active, opVars
<1>4. CASE CleanupAll
  <2>1. s \notin Registered
    BY <1>4 DEF CleanupAll, Running, Registered
  <2>2. \A q \in Requests : ~Active(q)
    BY <1>4 DEF CleanupAll
  <2> QED BY <2>1, <2>2 DEF HandedOn, HeldOn, Holds
<1> QED BY <1>1, <1>2, <1>3, <1>4 DEF Next

-----------------------------------------------------------------------------
(* The theorems *)

LEMMA InvCorrect == Spec => []IInv
<1>1. Init => IInv
  <2> SUFFICES ASSUME Init PROVE IInv
    OBVIOUS
  <2>1. LoneInv
    BY DEF Init, LoneInv, DeliveredWhenAlone, Lone, Active
  <2>2. Unstarted
    BY DEF Init, Unstarted, At, Active
  <2> QED BY <2>1, <2>2, InitSandboxes DEF IInv
<1>2. IInv /\ [Next]_vars => IInv'
  BY NextKeepsSandboxes, NextKeepsLone, NextKeepsUnstarted DEF IInv
<1> QED BY <1>1, <1>2, PTL DEF Spec

\* Every variable keeps to its type: an operation works in a sandbox that was made or in none,
\* and a repository holds branches of the crew and works of the phases.
THEOREM TypeCorrect == Spec => []TypeOK
<1>1. IInv => TypeOK
  BY DEF IInv, TypeInv, OpsOK, TypeOK, Trees
<1> QED BY InvCorrect, <1>1, PTL

\* For any number of operations, containers and crew members, the sandbox the voyage's
\* operations are sent to holds a complete clone, and no operation is about to kill or delete
\* a sandbox that is still registered: destroy pops the entry before its first await.
THEOREM RepoIsWhole == Spec => []RegisteredRepoIsWhole
<1>1. IInv => RegisteredRepoIsWhole
  BY DEF IInv, SandboxInv, RepoIsReady, ForgottenFirst, RegisteredRepoIsWhole, Removing,
         RemovingCalls, At
<1> QED BY InvCorrect, <1>1, PTL

\* For any number of operations, containers and crew members: where nothing else of the voyage
\* overlapped it, a branch, commit and push that were answered put what the member built on its
\* branch of the remote repository, whatever the user's runs, timeouts and dying containers do.
THEOREM WorkIsDelivered == Spec => []DeliveredWhenAlone
<1>1. IInv => DeliveredWhenAlone
  BY DEF IInv, LoneInv
<1> QED BY InvCorrect, <1>1, PTL

\* For any number of operations, containers and crew members, a sandbox that runs is forgotten
\* only where an operation that overlapped the one that made it puts its own in its place, or
\* finds its own removed; a clone that fails or times out keeps hold of the sandbox it made
\* until it has removed it.
THEOREM RunningSandboxesAreKept == Spec => SandboxesAreKept
<1>1. IInv /\ [Next]_vars => [Kept]_vars
  BY KeptStep DEF IInv
<1> QED BY InvCorrect, <1>1, PTL DEF Spec, SandboxesAreKept, Kept
=============================================================================
