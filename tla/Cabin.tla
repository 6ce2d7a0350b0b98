-------------------------------- MODULE Cabin --------------------------------
(***************************************************************************)
(* The Cabin of one user: the container Docker runs under the user's name, *)
(* the backend's map and the service's record of it, the preview and the   *)
(* terminals inside it, the requests that use them and the reaper          *)
(* (services/cabin_service.py, cabin/gvisor_backend.py,                    *)
(* services/preview_service.py, api/v1/terminal.py, main.py).              *)
(*                                                                         *)
(* A step ends at an await.  A call of Docker takes effect when it returns *)
(* and what follows it up to the next await belongs to the same step.      *)
(* Docker itself answers: its errors are a container that is gone or does  *)
(* not run, and those of creating and starting one (Faults).               *)
(***************************************************************************)
EXTENDS Integers, FiniteSets

CONSTANTS Requests,       \* requests that may be under way at a time
          Kinds,          \* what they may ask for
          Faults,         \* the calls Docker may refuse: "create", "start"
          MaxApps,        \* bound on the previews counted
          MaxRestarts     \* bound on the times the process restarts or is shut down

Reaper == "reaper"
ASSUME RequestsAssumption == IsFiniteSet(Requests) /\ Reaper \notin Requests
ASSUME CabinAssumption ==
    /\ Kinds \subseteq {"use", "destroy", "preview", "stop", "terminal"}
    /\ Faults \subseteq {"create", "start"}
    /\ MaxApps \in Nat /\ MaxRestarts \in Nat

Actors == Requests \cup {Reaper}

VARIABLES
    up,        \* whether the container with the user's name runs
    apps,      \* how many previews run in it, counted up to MaxApps
    cabins,    \* backend._cabins: the container of the user
    record,    \* service._cabins: whether there is a record
    spent,     \* its created_at is past the hard max lifetime
    preview,   \* preview_service._previews, and backend._services: whether there is one
    pc,        \* where each actor is
    kind,      \* what a request asked for
    ensured,   \* how many ensures of it are done
    held,      \* the container it is working on
    orphan,    \* whether it was left running by a former process, or by an ensure that failed
    restarts

dockerVars == <<up, apps>>
recordVars == <<record, spent>>
actorVars == <<pc, kind, ensured, held>>
faultVars == <<orphan, restarts>>
vars == <<dockerVars, cabins, recordVars, preview, actorVars, faultVars>>

\* A container id: none, that of the container with the user's name, or that of one that is gone.
Ids == {"none", "now", "gone"}
Outdated(id) == IF id = "now" THEN "gone" ELSE id

Places == {"idle", "reveal", "show", "create", "start", "status", "exec", "session",
           "kill", "delete", "pkill", "previews", "cleanup"}

TypeOK ==
    /\ cabins \in Ids /\ orphan \in BOOLEAN /\ up \in BOOLEAN /\ record \in BOOLEAN /\ spent \in BOOLEAN
    /\ apps \in 0..MaxApps /\ preview \in BOOLEAN
    /\ pc \in [Actors -> Places] /\ held \in [Actors -> Ids]
    /\ kind \in [Actors -> Kinds \cup {"none", "shutdown"}] /\ ensured \in [Actors -> 0..1]
    /\ restarts \in 0..MaxRestarts

Init ==
    /\ up = FALSE /\ apps = 0
    /\ cabins = "none" /\ record = FALSE /\ spent = FALSE /\ preview = FALSE
    /\ pc = [a \in Actors |-> "idle"] /\ kind = [a \in Actors |-> "none"]
    /\ ensured = [a \in Actors |-> 0] /\ held = [a \in Actors |-> "none"]
    /\ orphan = FALSE /\ restarts = 0

-----------------------------------------------------------------------------
(* Actors *)

Goto(a, place) == pc' = [pc EXCEPT ![a] = place] /\ UNCHANGED <<kind, ensured, held>>
Hold(a, place, c) ==
    /\ pc' = [pc EXCEPT ![a] = place] /\ held' = [held EXCEPT ![a] = c]
    /\ UNCHANGED <<kind, ensured>>

\* A request is answered; the reaper goes on to the previews, a shutdown ends with the process.
Leave(a) ==
    /\ pc' = [pc EXCEPT ![a] = IF a = Reaper /\ kind[a] = "none" THEN "previews" ELSE "idle"]
    /\ kind' = [kind EXCEPT ![a] = "none"] /\ ensured' = [ensured EXCEPT ![a] = 0]
Finish(a) == Leave(a) /\ held' = [held EXCEPT ![a] = "none"]

\* Mutation: using a Cabin renews its created_at.
Touch_Renews == record' = TRUE /\ spent' = FALSE

\* _touch, which adds a record when there is none, whatever refresh_only says.
\* last_active is not kept: a record may be found idle at any time.
Touch == record' = TRUE /\ spent' = (record /\ spent)
Forget == record' = FALSE /\ spent' = FALSE

\* The container stops: what runs in it goes with it.
StopContainer == up' = FALSE /\ apps' = 0 /\ orphan' = FALSE

\* With the container it found in the map an actor goes on; without one it has an error.
WithCabin(a, place, c) == IF c = "none" THEN Finish(a) ELSE Hold(a, place, c)

ShuttingDown == kind[Reaper] = "shutdown"

-----------------------------------------------------------------------------
(* Destroying: DELETE cabin, the reaper, cleanup_all *)

\* CabinService.destroy and reap_idle: record and map entry go before the first await.
Discard(a) ==
    /\ Forget
    /\ cabins' = "none"
    /\ WithCabin(a, "kill", cabins)

\* a is about to kill the container.
InHand(a) == pc[a] = "kill" /\ held[a] = "now"

\* Mutation: the entries are removed when the container is killed, not before.
Kill_ForgetsLate(a) ==
    /\ pc[a] = "kill"
    /\ Forget /\ cabins' = "none"
    /\ IF held[a] = "now" /\ up
         THEN StopContainer /\ Goto(a, "delete")
         ELSE UNCHANGED <<dockerVars, orphan>> /\ Finish(a)
    /\ UNCHANGED <<preview, restarts>>

\* container.kill, which fails on a container that is gone or stopped.
Kill(a) ==
    /\ pc[a] = "kill"
    /\ IF held[a] = "now" /\ up
         THEN StopContainer /\ Goto(a, "delete")
         ELSE UNCHANGED <<dockerVars, orphan>> /\ Finish(a)
    /\ UNCHANGED <<cabins, recordVars, preview, restarts>>

\* container.delete, which kills a container that was started again.
Delete(a) ==
    /\ pc[a] = "delete"
    /\ IF held[a] = "now"
         THEN /\ StopContainer
              /\ cabins' = Outdated(cabins)
              /\ held' = [b \in Actors |-> IF b = a THEN "none" ELSE Outdated(held[b])]
         ELSE UNCHANGED <<dockerVars, orphan, cabins>> /\ held' = [held EXCEPT ![a] = "none"]
    /\ Leave(a)
    /\ UNCHANGED <<recordVars, preview, restarts>>

\* PreviewService.stop: its record and the service's go before the await.
StopPreview(a, otherwise) ==
    /\ preview' = FALSE
    /\ IF preview /\ cabins # "none"
         THEN pc' = [pc EXCEPT ![a] = "pkill"] /\ held' = [held EXCEPT ![a] = cabins]
         ELSE pc' = [pc EXCEPT ![a] = otherwise] /\ UNCHANGED held

\* stop_service: what has the port is killed, if the pattern finds it.
Pkill(a) ==
    /\ pc[a] = "pkill"
    /\ (apps' = apps \/ (held[a] = "now" /\ apps' = 0))
    /\ CASE kind[a] = "preview" -> Hold(a, "reveal", "none")
         [] kind[a] = "shutdown" -> Hold(a, "cleanup", "none")
         [] a = Reaper /\ kind[a] = "none" -> Hold(a, "idle", "none")
         [] OTHER -> Finish(a)
    /\ UNCHANGED <<up, cabins, recordVars, preview, faultVars>>

-----------------------------------------------------------------------------
(* Requests *)

\* A request arrives and runs up to its first await.
Arrive(q) ==
    /\ pc[q] = "idle" /\ ~ ShuttingDown
    /\ \E k \in Kinds \ {"destroy"} :
         /\ kind' = [kind EXCEPT ![q] = k]
         /\ \/ k \in {"use", "terminal"} /\ pc' = [pc EXCEPT ![q] = "reveal"] /\ UNCHANGED <<held, preview>>
            \/ k = "preview" /\ StopPreview(q, "reveal")
            \/ k = "stop" /\ preview /\ cabins # "none" /\ StopPreview(q, "pkill")
    /\ UNCHANGED <<dockerVars, cabins, recordVars, ensured, faultVars>>

\* DELETE cabin
Destroy(q) ==
    /\ pc[q] = "idle" /\ "destroy" \in Kinds /\ ~ ShuttingDown
    /\ record
    /\ Discard(q)
    /\ UNCHANGED <<dockerVars, preview, faultVars>>

\* CabinService.ensure: the secrets were read; the backend looks at its map.
Reveal(q) ==
    /\ pc[q] = "reveal"
    /\ IF cabins # "none" THEN Hold(q, "show", cabins) ELSE Goto(q, "create")
    /\ UNCHANGED <<dockerVars, cabins, recordVars, preview, faultVars>>

\* container.show of the one in the map, which shows a stopped one too.  When it is gone the
\* map's entry is popped, which may be another one by now.
Show(q) ==
    /\ pc[q] = "show"
    /\ IF held[q] = "now"
         THEN Touch /\ WithCabin(q, "status", cabins) /\ UNCHANGED cabins
         ELSE cabins' = "none" /\ Hold(q, "create", "none") /\ UNCHANGED recordVars
    /\ UNCHANGED <<dockerVars, preview, faultVars>>

\* create_or_replace: a container with the user's name makes room for the new one.  When it is
\* refused, one that another ensure started may be left out of the map: see Show.
Create(q) ==
    /\ pc[q] = "create"
    /\ \/ /\ StopContainer
          /\ cabins' = Outdated(cabins)
          /\ held' = [a \in Actors |-> IF a = q THEN "now" ELSE Outdated(held[a])]
          /\ pc' = [pc EXCEPT ![q] = "start"] /\ UNCHANGED <<kind, ensured>>
       \/ /\ "create" \in Faults
          /\ Finish(q)
          /\ orphan' = (orphan \/ (up /\ cabins = "none"))
          /\ UNCHANGED <<dockerVars, cabins>>
    /\ UNCHANGED <<recordVars, preview, restarts>>

\* container.start, which fails on a container that was replaced.
Start(q) ==
    /\ pc[q] = "start"
    /\ \/ /\ held[q] = "now"
          /\ up' = TRUE /\ cabins' = held[q] /\ Touch
          /\ Goto(q, "status")
       \/ /\ held[q] # "now" \/ "start" \in Faults
          /\ Finish(q)
          /\ UNCHANGED <<up, cabins, recordVars>>
    /\ UNCHANGED <<apps, preview, faultVars>>

\* A preview ensures the Cabin itself, and start_service does so again.
EnsuresAgain(q) == kind[q] = "preview" /\ ensured[q] = 0

\* The status ends ensure; then a run, a launch or a terminal looks at
\* the map again.
Status(q) ==
    /\ pc[q] = "status"
    /\ CASE held[q] # "now" -> Finish(q)
         [] held[q] = "now" /\ EnsuresAgain(q) ->
              /\ pc' = [pc EXCEPT ![q] = "reveal"] /\ ensured' = [ensured EXCEPT ![q] = 1]
              /\ held' = [held EXCEPT ![q] = "none"] /\ UNCHANGED kind
         [] OTHER -> WithCabin(q, "exec", cabins)
    /\ UNCHANGED <<dockerVars, cabins, recordVars, preview, faultVars>>

\* container.exec, which fails in a container that is gone or stopped: a command, ...
Run(q) ==
    /\ kind[q] = "use" /\ Finish(q)
    /\ UNCHANGED <<apps, preview>>

\* ... start_service and the record of the preview, ...
Launch(q) ==
    /\ kind[q] = "preview" /\ Finish(q)
    /\ apps' = IF apps < MaxApps THEN apps + 1 ELSE apps
    /\ preview' = TRUE

\* ... or open_terminal, which leaves the PTY behind if the client is gone at accept().
Attach(q) ==
    /\ kind[q] = "terminal"
    /\ Goto(q, "session") \/ Finish(q)
    /\ UNCHANGED <<apps, preview>>

Exec(q) ==
    /\ pc[q] = "exec"
    /\ IF held[q] = "now" /\ up
         THEN Touch /\ (Run(q) \/ Launch(q) \/ Attach(q))
         ELSE Finish(q) /\ UNCHANGED <<apps, recordVars, preview>>
    /\ UNCHANGED <<up, cabins, faultVars>>

\* voyage_terminal: the client leaves, the PTY ends, or the time is up.
Hangup(q) ==
    /\ pc[q] = "session"
    /\ Finish(q)
    /\ UNCHANGED <<dockerVars, cabins, recordVars, preview, faultVars>>

-----------------------------------------------------------------------------
(* The reaper and the process *)

\* _cabin_reaper_loop: reap_idle, ...
ReapCabin ==
    /\ pc[Reaper] = "idle"
    /\ \/ record /\ Discard(Reaper)
       \/ ~ (record /\ spent) /\ Goto(Reaper, "previews") /\ UNCHANGED <<cabins, recordVars>>
    /\ UNCHANGED <<dockerVars, preview, faultVars>>

\* ... then reap_expired.
ReapPreview ==
    /\ pc[Reaper] = "previews"
    /\ \/ preview /\ StopPreview(Reaper, "idle") /\ UNCHANGED <<kind, ensured>>
       \/ Goto(Reaper, "idle") /\ UNCHANGED preview
    /\ UNCHANGED <<dockerVars, cabins, recordVars, faultVars>>

\* The shutdown of the process, once its requests ended: the reaper is cancelled wherever it is,
\* and the preview stopped.
Shutdown ==
    /\ restarts < MaxRestarts /\ restarts' = restarts + 1
    /\ \A q \in Requests : pc[q] = "idle"
    /\ ~ ShuttingDown
    /\ kind' = [kind EXCEPT ![Reaper] = "shutdown"]
    /\ orphan' = (orphan \/ (InHand(Reaper) /\ up))
    /\ StopPreview(Reaper, "cleanup")
    /\ UNCHANGED <<dockerVars, cabins, recordVars, ensured>>

\* cleanup_all; the process that follows knows nothing.
CleanupAll ==
    /\ pc[Reaper] = "cleanup"
    /\ Forget /\ cabins' = "none"
    /\ WithCabin(Reaper, "kill", IF record THEN cabins ELSE "none")
    /\ UNCHANGED <<dockerVars, preview, faultVars>>

\* The process dies and is started again; Docker goes on.
Crash ==
    /\ restarts < MaxRestarts /\ restarts' = restarts + 1
    /\ cabins' = "none" /\ Forget /\ preview' = FALSE
    /\ pc' = [a \in Actors |-> "idle"] /\ kind' = [a \in Actors |-> "none"]
    /\ ensured' = [a \in Actors |-> 0] /\ held' = [a \in Actors |-> "none"]
    /\ orphan' = up
    /\ UNCHANGED dockerVars

\* The container stops by itself, and may be removed from outside.
Die ==
    /\ up /\ StopContainer
    /\ \/ UNCHANGED <<cabins, held>>
       \/ cabins' = Outdated(cabins) /\ held' = [a \in Actors |-> Outdated(held[a])]
    /\ UNCHANGED <<pc, kind, ensured, recordVars, preview, restarts>>

\* Time passes for the record of the Cabin.
GrowOld ==
    /\ record /\ ~ spent /\ spent' = TRUE
    /\ UNCHANGED <<dockerVars, cabins, record, preview, actorVars, faultVars>>

ReaperStep ==
    \/ ReapCabin \/ ReapPreview \/ CleanupAll
    \/ Kill(Reaper) \/ Delete(Reaper) \/ Pkill(Reaper)

RequestStep(q) ==
    \/ Reveal(q) \/ Show(q) \/ Create(q) \/ Start(q) \/ Status(q) \/ Exec(q) \/ Hangup(q)
    \/ Kill(q) \/ Delete(q) \/ Pkill(q)

Next ==
    \/ \E q \in Requests : Arrive(q) \/ Destroy(q) \/ RequestStep(q)
    \/ ReaperStep
    \/ Shutdown \/ Crash \/ Die
    \/ GrowOld

\* The reaper's loop goes on, time passes, calls of Docker return, terminals time out.
Fairness ==
    /\ WF_vars(ReaperStep) /\ WF_vars(GrowOld)
    /\ \A q \in Requests : WF_vars(RequestStep(q))

Spec == Init /\ [][Next]_vars /\ Fairness

-----------------------------------------------------------------------------
(* Properties *)

\* A container that runs, with the user's secrets in it, is always in the backend's map and in
\* the service's registry, from which the reaper and the shutdown take it, unless somebody is
\* about to kill it or to replace it, or it was left by a former process or by an ensure that
\* popped its entry and was then refused a new one (cabin_service.py:174, 191,
\* gvisor_backend.py:198, 232).
RunningCabinIsTracked ==
    up => \/ cabins = "now" /\ record
          \/ \E a \in Actors : InHand(a)
          \/ \E q \in Requests : pc[q] = "create"
          \/ orphan

\* Whatever runs in a Cabin ends: previews that a newer start displaced and terminals nobody
\* closed go with the container, which the hard max lifetime ends however often it is used
\* (main.py:36, cabin_service.py:190).
CabinsEnd ==
    up ~> (~ up \/ orphan)
=============================================================================
