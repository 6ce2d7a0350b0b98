------------------------------ MODULE CabinProofs ------------------------------
(***************************************************************************)
(* The container that runs is known to somebody: the proof, for any number *)
(* of requests, crashes and faults, that RunningCabinIsTracked is an       *)
(* invariant of Cabin.  What it rests on beside itself is that the map and *)
(* the record go together, and that the map never names a removed          *)
(* container while another one runs.                                       *)
(***************************************************************************)
EXTENDS Cabin, TLAPS

\* The backend's map has an entry only if the service has a record: whatever forgets the
\* record empties the map in the same step.
MapIsRecorded == cabins # "none" => record

\* A container that runs under the user's name is the one in the map, if there is one: the
\* calls that leave the map with a container that is gone stop the one that ran.
MapIsCurrent == up => cabins # "gone"

IInv == TypeOK /\ MapIsRecorded /\ MapIsCurrent /\ RunningCabinIsTracked

-----------------------------------------------------------------------------
(* What the steps of an actor do to the actors *)

\* The actors but a are where they were, with what they held.
OthersStay(a) ==
    \A b \in Actors \ {a} : pc'[b] = pc[b] /\ held'[b] = held[b]

ActorsOK ==
    /\ pc \in [Actors -> Places] /\ held \in [Actors -> Ids]
    /\ kind \in [Actors -> Kinds \cup {"none", "shutdown"}] /\ ensured \in [Actors -> 0..1]

\* Goto moves one actor, and leaves what it holds.
LEMMA GotoMoves ==
    ASSUME ActorsOK, NEW a \in Actors, NEW place \in Places, Goto(a, place)
    PROVE  ActorsOK' /\ OthersStay(a) /\ pc'[a] = place /\ held'[a] = held[a]
BY SMT DEF ActorsOK, OthersStay, Goto

\* Hold moves one actor, with the container it goes on with.
LEMMA HoldMoves ==
    ASSUME ActorsOK, NEW a \in Actors, NEW place \in Places, NEW c \in Ids, Hold(a, place, c)
    PROVE  ActorsOK' /\ OthersStay(a) /\ pc'[a] = place /\ held'[a] = c
BY SMT DEF ActorsOK, OthersStay, Hold

\* Leave says where one actor goes, not what it holds.
LEMMA LeaveMoves ==
    ASSUME ActorsOK, NEW a \in Actors, Leave(a), held' \in [Actors -> Ids]
    PROVE  /\ ActorsOK' /\ pc'[a] \in {"idle", "previews"}
           /\ \A b \in Actors \ {a} : pc'[b] = pc[b]
<1>1. PICK place \in {"idle", "previews"} : pc' = [pc EXCEPT ![a] = place]
  <2>1. CASE a = Reaper /\ kind[a] = "none"
    BY <2>1, Zenon DEF Leave
  <2>2. CASE ~(a = Reaper /\ kind[a] = "none")
    BY <2>2, Zenon DEF Leave
  <2> QED BY <2>1, <2>2
<1>2. pc' \in [Actors -> Places] /\ pc'[a] = place /\ \A b \in Actors \ {a} : pc'[b] = pc[b]
  BY <1>1, SMT DEF ActorsOK, Places
<1>3. kind' \in [Actors -> Kinds \cup {"none", "shutdown"}]
  <2>1. kind' = [kind EXCEPT ![a] = "none"] /\ "none" \in Kinds \cup {"none", "shutdown"}
    BY DEF Leave
  <2> QED BY <2>1, SMT DEF ActorsOK
<1>4. ensured' \in [Actors -> 0..1]
  BY SMT DEF ActorsOK, Leave
<1> QED BY <1>1, <1>2, <1>3, <1>4 DEF ActorsOK

\* Finish lets go of the container.
LEMMA FinishMoves ==
    ASSUME ActorsOK, NEW a \in Actors, Finish(a)
    PROVE  ActorsOK' /\ OthersStay(a) /\ pc'[a] \in {"idle", "previews"} /\ held'[a] = "none"
<1>1. held' = [held EXCEPT ![a] = "none"] /\ Leave(a)
  BY DEF Finish
<1>2. held' \in [Actors -> Ids]
  BY <1>1, SMT DEF ActorsOK, Ids
<1> QED BY <1>1, <1>2, LeaveMoves, SMT DEF OthersStay, ActorsOK

\* WithCabin goes on with the container, or ends.
LEMMA WithCabinMoves ==
    ASSUME ActorsOK, NEW a \in Actors, NEW place \in Places, NEW c \in Ids, WithCabin(a, place, c)
    PROVE  /\ ActorsOK' /\ OthersStay(a)
           /\ pc'[a] \in {place, "idle", "previews"} /\ held'[a] = c
           /\ c # "none" => pc'[a] = place
<1>1. CASE c = "none"
  BY <1>1, FinishMoves DEF WithCabin
<1>2. CASE c # "none"
  BY <1>2, HoldMoves DEF WithCabin
<1> QED BY <1>1, <1>2

\* An actor that was about neither to kill a container nor to create one may move, when the
\* container, its entry and the record are at least what they were: who knew of it still does.
Unneeded(a) == ~InHand(a) /\ ~(a \in Requests /\ pc[a] = "create")

LEMMA OthersKeepTrack ==
    ASSUME RunningCabinIsTracked, NEW a \in Actors, OthersStay(a), Unneeded(a),
           up' => up, cabins' = cabins, record => record', orphan => orphan'
    PROVE  RunningCabinIsTracked'
<1> SUFFICES ASSUME up'
             PROVE  \/ cabins' = "now" /\ record'
                    \/ \E b \in Actors : InHand(b)'
                    \/ \E q \in Requests : pc'[q] = "create"
                    \/ orphan'
  BY DEF RunningCabinIsTracked
<1>1. CASE cabins = "now" /\ record
  BY <1>1
<1>2. CASE \E b \in Actors : InHand(b)
  <2>1. PICK b \in Actors : InHand(b)
    BY <1>2
  <2>2. b # a
    BY <2>1 DEF Unneeded
  <2>3. InHand(b)'
    BY <2>1, <2>2 DEF InHand, OthersStay
  <2> QED BY <2>3
<1>3. CASE \E q \in Requests : pc[q] = "create"
  <2>1. PICK q \in Requests : pc[q] = "create"
    BY <1>3
  <2>2. q \in Actors /\ q # a
    BY <2>1 DEF Unneeded, Actors
  <2>3. pc'[q] = "create"
    BY <2>1, <2>2 DEF OthersStay
  <2> QED BY <2>3
<1>4. CASE orphan
  BY <1>4
<1> QED BY <1>1, <1>2, <1>3, <1>4 DEF RunningCabinIsTracked

-----------------------------------------------------------------------------
(* The steps of an actor *)

LEMMA KillKeepsInv == ASSUME IInv, NEW a \in Actors, Kill(a) PROVE IInv'
<1>1. ActorsOK
  BY DEF IInv, TypeOK, ActorsOK
<1>2. pc[a] = "kill" /\ UNCHANGED <<cabins, record, spent, preview, restarts>>
  BY DEF Kill, recordVars
<1>3. CASE held[a] = "now" /\ up
  <2>1. up' = FALSE /\ apps' = 0 /\ orphan' = FALSE /\ Goto(a, "delete")
    BY <1>3 DEF Kill, StopContainer
  <2>2. ActorsOK'
    BY <1>1, <2>1, GotoMoves DEF Places
  <2>9. 0 \in 0..MaxApps
    BY CabinAssumption, SMT
  <2> QED BY <1>2, <2>1, <2>2, <2>9
          DEF IInv, TypeOK, ActorsOK, MapIsRecorded, MapIsCurrent, RunningCabinIsTracked
<1>4. CASE ~(held[a] = "now" /\ up)
  <2>1. UNCHANGED <<up, apps, orphan>> /\ Finish(a)
    BY <1>4 DEF Kill, dockerVars
  <2>2. ActorsOK' /\ OthersStay(a)
    BY <1>1, <2>1, FinishMoves
  <2>3. RunningCabinIsTracked'
    <3>1. CASE up
      <4>1. Unneeded(a)
        BY <1>2, <1>4, <3>1 DEF Unneeded, InHand
      <4> QED BY <1>2, <2>1, <2>2, <4>1, OthersKeepTrack DEF IInv
    <3>2. CASE ~up
      BY <2>1, <3>2 DEF RunningCabinIsTracked
    <3> QED BY <3>1, <3>2
  <2> QED BY <1>2, <2>1, <2>2, <2>3
          DEF IInv, TypeOK, ActorsOK, MapIsRecorded, MapIsCurrent
<1> QED BY <1>3, <1>4

LEMMA OutdatedId == ASSUME NEW c \in Ids PROVE Outdated(c) \in Ids \ {"now"}
BY DEF Ids, Outdated

LEMMA DeleteKeepsInv == ASSUME IInv, NEW a \in Actors, Delete(a) PROVE IInv'
<1>1. ActorsOK /\ cabins \in Ids
  BY DEF IInv, TypeOK, ActorsOK
<1>2. pc[a] = "delete" /\ Leave(a) /\ UNCHANGED <<record, spent, preview, restarts>>
  BY DEF Delete, recordVars
<1>3. CASE held[a] = "now"
  <2>1. /\ up' = FALSE /\ apps' = 0 /\ orphan' = FALSE /\ cabins' = Outdated(cabins)
        /\ held' = [b \in Actors |-> IF b = a THEN "none" ELSE Outdated(held[b])]
    BY <1>3 DEF Delete, StopContainer
  <2>2. held' \in [Actors -> Ids]
    BY <1>1, <2>1, OutdatedId DEF ActorsOK, Ids
  <2>3. ActorsOK'
    BY <1>1, <1>2, <2>2, LeaveMoves
  <2>4. cabins' \in Ids /\ (cabins' # "none" => cabins # "none")
    BY <1>1, <2>1 DEF Ids, Outdated
  <2>9. 0 \in 0..MaxApps
    BY CabinAssumption, SMT
  <2> QED BY <1>2, <2>1, <2>3, <2>4, <2>9
          DEF IInv, TypeOK, ActorsOK, MapIsRecorded, MapIsCurrent, RunningCabinIsTracked
<1>4. CASE held[a] # "now"
  <2>1. UNCHANGED <<up, apps, orphan, cabins>> /\ Finish(a)
    BY <1>2, <1>4 DEF Delete, dockerVars, Finish
  <2>2. ActorsOK' /\ OthersStay(a)
    BY <1>1, <2>1, FinishMoves
  <2>3. Unneeded(a)
    BY <1>2 DEF Unneeded, InHand
  <2>4. RunningCabinIsTracked'
    BY <1>2, <2>1, <2>2, <2>3, OthersKeepTrack DEF IInv
  <2> QED BY <1>2, <2>1, <2>2, <2>4
          DEF IInv, TypeOK, ActorsOK, MapIsRecorded, MapIsCurrent
<1> QED BY <1>3, <1>4

\* An actor that holds nothing that matters moves, and touches the container, the map and the
\* record not at all, or makes a record: all is kept.
LEMMA MoveKeepsInv ==
    ASSUME IInv, NEW a \in Actors, ActorsOK', OthersStay(a), Unneeded(a),
           UNCHANGED <<up, cabins, orphan>>, apps' \in 0..MaxApps, restarts' \in 0..MaxRestarts,
           record' \in BOOLEAN, spent' \in BOOLEAN, preview' \in BOOLEAN, record => record'
    PROVE  IInv'
<1>1. RunningCabinIsTracked'
  BY OthersKeepTrack DEF IInv
<1>2. cabins \in Ids /\ orphan \in BOOLEAN /\ up \in BOOLEAN /\ MapIsRecorded /\ MapIsCurrent
  BY DEF IInv, TypeOK
<1>3. MapIsRecorded' /\ MapIsCurrent'
  BY <1>2 DEF MapIsRecorded, MapIsCurrent
<1>4. TypeOK'
  BY <1>2 DEF TypeOK, ActorsOK
<1> QED BY <1>1, <1>3, <1>4 DEF IInv

LEMMA PkillKeepsInv == ASSUME IInv, NEW a \in Actors, Pkill(a) PROVE IInv'
<1>1. ActorsOK /\ apps \in 0..MaxApps /\ restarts \in 0..MaxRestarts
      /\ record \in BOOLEAN /\ spent \in BOOLEAN /\ preview \in BOOLEAN
  BY DEF IInv, TypeOK, ActorsOK
<1>2. pc[a] = "pkill" /\ UNCHANGED <<up, cabins, record, spent, preview, orphan, restarts>>
  BY DEF Pkill, recordVars, faultVars
<1>3. apps' \in 0..MaxApps
  BY <1>1, CabinAssumption, SMT DEF Pkill
<1>4. (\E place \in {"reveal", "cleanup", "idle"} : Hold(a, place, "none")) \/ Finish(a)
  BY DEF Pkill
<1>5. ActorsOK' /\ OthersStay(a)
  <2>1. CASE Finish(a)
    BY <1>1, <2>1, FinishMoves
  <2>2. ASSUME NEW place \in {"reveal", "cleanup", "idle"}, Hold(a, place, "none")
        PROVE  ActorsOK' /\ OthersStay(a)
    <3>1. place \in Places /\ "none" \in Ids
      BY DEF Places, Ids
    <3> QED BY <1>1, <2>2, <3>1, HoldMoves
  <2> QED BY <1>4, <2>1, <2>2
<1>6. Unneeded(a)
  BY <1>2 DEF Unneeded, InHand
<1> QED BY <1>1, <1>2, <1>3, <1>5, <1>6, MoveKeepsInv

\* Stopping a preview moves the actor, and changes nothing but the record of the preview.
LEMMA StopPreviewMoves ==
    ASSUME IInv, NEW a \in Actors, NEW place \in Places, StopPreview(a, place)
    PROVE  /\ pc' \in [Actors -> Places] /\ held' \in [Actors -> Ids] /\ preview' \in BOOLEAN
           /\ OthersStay(a) /\ pc'[a] \in {"pkill", place}
<1>1. pc \in [Actors -> Places] /\ held \in [Actors -> Ids] /\ cabins \in Ids
  BY DEF IInv, TypeOK
<1>2. preview' = FALSE /\ "pkill" \in Places
  BY DEF StopPreview, Places
<1>3. CASE preview /\ cabins # "none"
  <2>1. pc' = [pc EXCEPT ![a] = "pkill"] /\ held' = [held EXCEPT ![a] = cabins]
    BY <1>3, Zenon DEF StopPreview
  <2> QED BY <1>1, <1>2, <2>1 DEF OthersStay
<1>4. CASE ~(preview /\ cabins # "none")
  <2>1. pc' = [pc EXCEPT ![a] = place] /\ held' = held
    BY <1>4, Zenon DEF StopPreview
  <2> QED BY <1>1, <1>2, <2>1 DEF OthersStay
<1> QED BY <1>3, <1>4

\* The map is emptied with the record, and the container is in the hand of the actor that did
\* so: somebody knows of it.
LEMMA DiscardKeepsInv ==
    ASSUME IInv, NEW a \in Actors, ~(a \in Requests /\ pc[a] = "create"),
           Forget, cabins' = "none", WithCabin(a, "kill", IF record THEN cabins ELSE "none"),
           UNCHANGED <<up, apps, preview, orphan, restarts>>, InHand(a) => FALSE
    PROVE  IInv'
<1> DEFINE c == IF record THEN cabins ELSE "none"
<1>1. ActorsOK /\ c \in Ids
  BY DEF IInv, TypeOK, ActorsOK, Ids
<1>2. /\ ActorsOK' /\ OthersStay(a) /\ held'[a] = c
      /\ c # "none" => pc'[a] = "kill"
  <2>1. "kill" \in Places
    BY DEF Places
  <2> QED BY <1>1, <2>1, WithCabinMoves
<1>3. RunningCabinIsTracked'
  <2>1. CASE c = "now"
    BY <1>2, <2>1 DEF RunningCabinIsTracked, InHand
  <2>2. CASE c # "now" /\ up
    <3>1. ~(cabins = "now" /\ record)
      BY <2>2
    <3>2. CASE \E b \in Actors : InHand(b)
      BY <1>2, <3>2 DEF InHand, OthersStay, RunningCabinIsTracked
    <3>3. CASE \E q \in Requests : pc[q] = "create"
      BY <1>2, <3>3 DEF OthersStay, RunningCabinIsTracked, Actors
    <3>4. CASE orphan
      BY <3>4 DEF RunningCabinIsTracked
    <3> QED BY <2>2, <3>1, <3>2, <3>3, <3>4 DEF IInv, RunningCabinIsTracked
  <2>3. CASE ~up
    BY <2>3 DEF RunningCabinIsTracked
  <2> QED BY <2>1, <2>2, <2>3
<1>4. TypeOK'
  BY <1>2 DEF IInv, TypeOK, ActorsOK, Forget, Ids
<1> QED BY <1>3, <1>4 DEF IInv, MapIsRecorded, MapIsCurrent

-----------------------------------------------------------------------------
(* Requests *)

LEMMA ArriveKeepsInv == ASSUME IInv, NEW q \in Requests, Arrive(q) PROVE IInv'
<1>1. q \in Actors /\ pc[q] = "idle" /\ ActorsOK
      /\ UNCHANGED <<up, apps, cabins, record, spent, ensured, orphan, restarts>>
  BY DEF Arrive, Actors, dockerVars, recordVars, faultVars, IInv, TypeOK, ActorsOK
<1>2. PICK k \in Kinds \ {"destroy"} :
         /\ kind' = [kind EXCEPT ![q] = k]
         /\ \/ pc' = [pc EXCEPT ![q] = "reveal"] /\ UNCHANGED <<held, preview>>
            \/ StopPreview(q, "reveal")
            \/ StopPreview(q, "pkill")
  BY Zenon DEF Arrive
<1>3. kind' \in [Actors -> Kinds \cup {"none", "shutdown"}]
  BY <1>1, <1>2 DEF ActorsOK
<1>4. /\ pc' \in [Actors -> Places] /\ held' \in [Actors -> Ids] /\ preview' \in BOOLEAN
      /\ OthersStay(q)
  <2>0. "reveal" \in Places /\ "pkill" \in Places
    BY DEF Places
  <2>1. CASE pc' = [pc EXCEPT ![q] = "reveal"] /\ UNCHANGED <<held, preview>>
    BY <1>1, <2>0, <2>1 DEF ActorsOK, OthersStay, IInv, TypeOK
  <2>2. CASE StopPreview(q, "reveal") \/ StopPreview(q, "pkill")
    BY <1>1, <2>0, <2>2, StopPreviewMoves
  <2> QED BY <1>2, <2>1, <2>2
<1>5. ActorsOK'
  BY <1>1, <1>3, <1>4 DEF ActorsOK
<1>6. Unneeded(q)
  BY <1>1 DEF Unneeded, InHand
<1> QED BY <1>1, <1>4, <1>5, <1>6, MoveKeepsInv DEF IInv, TypeOK

LEMMA DestroyKeepsInv == ASSUME IInv, NEW q \in Requests, Destroy(q) PROVE IInv'
<1>1. /\ q \in Actors /\ pc[q] = "idle" /\ record
      /\ Forget /\ cabins' = "none" /\ WithCabin(q, "kill", cabins)
      /\ UNCHANGED <<up, apps, preview, orphan, restarts>>
  BY DEF Destroy, Discard, Actors, dockerVars, faultVars
<1> QED BY <1>1, DiscardKeepsInv DEF InHand

LEMMA RevealKeepsInv == ASSUME IInv, NEW q \in Requests, Reveal(q) PROVE IInv'
<1>1. q \in Actors /\ pc[q] = "reveal" /\ ActorsOK /\ cabins \in Ids
      /\ UNCHANGED <<up, apps, cabins, record, spent, preview, orphan, restarts>>
  BY DEF Reveal, Actors, dockerVars, recordVars, faultVars, IInv, TypeOK, ActorsOK
<1>2. Hold(q, "show", cabins) \/ Goto(q, "create")
  BY DEF Reveal
<1>3. ActorsOK' /\ OthersStay(q)
  BY <1>1, <1>2, HoldMoves, GotoMoves DEF Places
<1>4. Unneeded(q)
  BY <1>1 DEF Unneeded, InHand
<1> QED BY <1>1, <1>3, <1>4, MoveKeepsInv DEF IInv, TypeOK

\* Popping the entry leaves the container that runs with the request, which is to replace it.
LEMMA ShowKeepsInv == ASSUME IInv, NEW q \in Requests, Show(q) PROVE IInv'
<1>1. q \in Actors /\ pc[q] = "show" /\ ActorsOK /\ cabins \in Ids
      /\ UNCHANGED <<up, apps, preview, orphan, restarts>>
  BY DEF Show, Actors, dockerVars, faultVars, IInv, TypeOK, ActorsOK
<1>2. CASE held[q] = "now"
  <2>1. record' = TRUE /\ spent' = (record /\ spent) /\ WithCabin(q, "status", cabins)
        /\ UNCHANGED cabins
    BY <1>2 DEF Show, Touch
  <2>2. ActorsOK' /\ OthersStay(q)
    BY <1>1, <2>1, WithCabinMoves DEF Places
  <2>3. Unneeded(q)
    BY <1>1 DEF Unneeded, InHand
  <2> QED BY <1>1, <2>1, <2>2, <2>3, MoveKeepsInv DEF IInv, TypeOK
<1>3. CASE held[q] # "now"
  <2>1. cabins' = "none" /\ Hold(q, "create", "none") /\ UNCHANGED <<record, spent>>
    BY <1>3 DEF Show, recordVars
  <2>2. ActorsOK' /\ pc'[q] = "create"
    BY <1>1, <2>1, HoldMoves DEF Places, Ids
  <2> QED BY <1>1, <2>1, <2>2
          DEF IInv, TypeOK, ActorsOK, MapIsRecorded, MapIsCurrent, RunningCabinIsTracked, Ids
<1> QED BY <1>2, <1>3

\* A refused create looks at the map: the entry is the container that runs, or there is none.
LEMMA CreateKeepsInv == ASSUME IInv, NEW q \in Requests, Create(q) PROVE IInv'
<1>1. q \in Actors /\ pc[q] = "create" /\ ActorsOK /\ cabins \in Ids
      /\ UNCHANGED <<record, spent, preview, restarts>>
  BY DEF Create, Actors, recordVars, IInv, TypeOK, ActorsOK
<1>2. CASE /\ StopContainer
           /\ cabins' = Outdated(cabins)
           /\ held' = [a \in Actors |-> IF a = q THEN "now" ELSE Outdated(held[a])]
           /\ pc' = [pc EXCEPT ![q] = "start"] /\ UNCHANGED <<kind, ensured>>
  <2>1. ActorsOK'
    <3>1. held' \in [Actors -> Ids]
      BY <1>1, <1>2, OutdatedId DEF ActorsOK, Ids
    <3>2. pc' \in [Actors -> Places]
      BY <1>1, <1>2 DEF ActorsOK, Places
    <3> QED BY <1>1, <1>2, <3>1, <3>2 DEF ActorsOK
  <2>2. cabins' \in Ids /\ (cabins' # "none" => cabins # "none")
    BY <1>1, <1>2 DEF Ids, Outdated
  <2>3. up' = FALSE /\ apps' = 0 /\ orphan' = FALSE
    BY <1>2 DEF StopContainer
  <2>4. 0 \in 0..MaxApps
    BY CabinAssumption, SMT
  <2> QED BY <1>1, <2>1, <2>2, <2>3, <2>4
          DEF IInv, TypeOK, ActorsOK, MapIsRecorded, MapIsCurrent, RunningCabinIsTracked
<1>3. CASE /\ Finish(q)
           /\ orphan' = (orphan \/ (up /\ cabins = "none"))
           /\ UNCHANGED <<dockerVars, cabins>>
  <2>1. ActorsOK' /\ OthersStay(q) /\ UNCHANGED <<up, apps, cabins>>
    BY <1>1, <1>3, FinishMoves DEF dockerVars
  <2>2. RunningCabinIsTracked'
    <3>1. CASE up /\ cabins = "none"
      BY <1>3, <3>1 DEF RunningCabinIsTracked
    <3>2. CASE up /\ cabins # "none"
      BY <1>1, <2>1, <3>2
         DEF IInv, MapIsCurrent, MapIsRecorded, Ids, RunningCabinIsTracked
    <3>3. CASE ~up
      BY <2>1, <3>3 DEF RunningCabinIsTracked
    <3> QED BY <3>1, <3>2, <3>3
  <2>3. orphan' \in BOOLEAN
    BY <1>3
  <2> QED BY <1>1, <2>1, <2>2, <2>3
          DEF IInv, TypeOK, ActorsOK, MapIsRecorded, MapIsCurrent
<1> QED BY <1>2, <1>3 DEF Create

LEMMA StartKeepsInv == ASSUME IInv, NEW q \in Requests, Start(q) PROVE IInv'
<1>1. q \in Actors /\ pc[q] = "start" /\ ActorsOK
      /\ UNCHANGED <<apps, preview, orphan, restarts>>
  BY DEF Start, Actors, faultVars, IInv, TypeOK, ActorsOK
<1>2. CASE /\ held[q] = "now"
           /\ up' = TRUE /\ cabins' = held[q] /\ Touch
           /\ Goto(q, "status")
  <2>1. ActorsOK'
    BY <1>1, <1>2, GotoMoves DEF Places
  <2> QED BY <1>1, <1>2, <2>1
          DEF IInv, TypeOK, ActorsOK, Touch, MapIsRecorded, MapIsCurrent,
              RunningCabinIsTracked, Ids
<1>3. CASE Finish(q) /\ UNCHANGED <<up, cabins, recordVars>>
  <2>1. ActorsOK' /\ OthersStay(q) /\ UNCHANGED <<up, cabins, record, spent>>
    BY <1>1, <1>3, FinishMoves DEF recordVars
  <2>2. Unneeded(q)
    BY <1>1 DEF Unneeded, InHand
  <2> QED BY <1>1, <2>1, <2>2, MoveKeepsInv DEF IInv, TypeOK
<1> QED BY <1>2, <1>3 DEF Start

LEMMA StatusKeepsInv == ASSUME IInv, NEW q \in Requests, Status(q) PROVE IInv'
<1>1. q \in Actors /\ pc[q] = "status" /\ ActorsOK /\ cabins \in Ids
      /\ UNCHANGED <<up, apps, cabins, record, spent, preview, orphan, restarts>>
  BY DEF Status, Actors, dockerVars, recordVars, faultVars, IInv, TypeOK, ActorsOK
<1>2. \/ Finish(q)
      \/ /\ pc' = [pc EXCEPT ![q] = "reveal"] /\ ensured' = [ensured EXCEPT ![q] = 1]
         /\ held' = [held EXCEPT ![q] = "none"] /\ UNCHANGED kind
      \/ WithCabin(q, "exec", cabins)
  BY Zenon DEF Status
<1>3. ActorsOK' /\ OthersStay(q)
  <2>1. CASE Finish(q) \/ WithCabin(q, "exec", cabins)
    BY <1>1, <2>1, FinishMoves, WithCabinMoves DEF Places
  <2>2. CASE /\ pc' = [pc EXCEPT ![q] = "reveal"] /\ ensured' = [ensured EXCEPT ![q] = 1]
             /\ held' = [held EXCEPT ![q] = "none"] /\ UNCHANGED kind
    BY <1>1, <2>2, SMT DEF ActorsOK, OthersStay, Places, Ids
  <2> QED BY <1>2, <2>1, <2>2
<1>4. Unneeded(q)
  BY <1>1 DEF Unneeded, InHand
<1> QED BY <1>1, <1>3, <1>4, MoveKeepsInv DEF IInv, TypeOK

LEMMA ExecKeepsInv == ASSUME IInv, NEW q \in Requests, Exec(q) PROVE IInv'
<1>1. q \in Actors /\ pc[q] = "exec" /\ ActorsOK /\ UNCHANGED <<up, cabins, orphan, restarts>>
  BY DEF Exec, Actors, faultVars, IInv, TypeOK, ActorsOK
<1>2. \/ Touch /\ (Run(q) \/ Launch(q) \/ Attach(q))
      \/ Finish(q) /\ UNCHANGED <<apps, recordVars, preview>>
  BY DEF Exec
<1>3. Goto(q, "session") \/ Finish(q)
  BY <1>2 DEF Run, Launch, Attach
<1>4. ActorsOK' /\ OthersStay(q)
  BY <1>1, <1>3, GotoMoves, FinishMoves DEF Places
<1>5. record \in BOOLEAN /\ spent \in BOOLEAN /\ preview \in BOOLEAN /\ apps \in 0..MaxApps
  BY DEF IInv, TypeOK
<1>6. record' \in BOOLEAN /\ spent' \in BOOLEAN /\ (record => record')
  BY <1>2, <1>5 DEF Touch, recordVars
<1>7. apps' \in 0..MaxApps
  <2>1. UNCHANGED apps \/ apps' = IF apps < MaxApps THEN apps + 1 ELSE apps
    BY <1>2 DEF Run, Launch, Attach
  <2> QED BY <1>5, <2>1, CabinAssumption, SMT
<1>8. preview' \in BOOLEAN
  BY <1>2, <1>5 DEF Run, Launch, Attach
<1>9. Unneeded(q)
  BY <1>1 DEF Unneeded, InHand
<1> QED BY <1>1, <1>4, <1>6, <1>7, <1>8, <1>9, MoveKeepsInv DEF IInv, TypeOK

LEMMA HangupKeepsInv == ASSUME IInv, NEW q \in Requests, Hangup(q) PROVE IInv'
<1>1. q \in Actors /\ pc[q] = "session" /\ ActorsOK /\ Finish(q)
      /\ UNCHANGED <<up, apps, cabins, record, spent, preview, orphan, restarts>>
  BY DEF Hangup, Actors, dockerVars, recordVars, faultVars, IInv, TypeOK, ActorsOK
<1>2. ActorsOK' /\ OthersStay(q) /\ Unneeded(q)
  BY <1>1, FinishMoves DEF Unneeded, InHand
<1> QED BY <1>1, <1>2, MoveKeepsInv DEF IInv, TypeOK

-----------------------------------------------------------------------------
(* The reaper and the process *)

LEMMA ReapCabinKeepsInv == ASSUME IInv, ReapCabin PROVE IInv'
<1>1. /\ Reaper \in Actors /\ Reaper \notin Requests /\ pc[Reaper] = "idle" /\ ActorsOK
      /\ UNCHANGED <<up, apps, preview, orphan, restarts>>
  BY RequestsAssumption
     DEF ReapCabin, Actors, dockerVars, faultVars, IInv, TypeOK, ActorsOK
<1>2. CASE record /\ Discard(Reaper)
  <2>1. Forget /\ cabins' = "none" /\ WithCabin(Reaper, "kill", cabins)
    BY <1>2 DEF Discard
  <2> QED BY <1>1, <1>2, <2>1, DiscardKeepsInv DEF InHand
<1>3. CASE Goto(Reaper, "previews") /\ UNCHANGED <<cabins, recordVars>>
  <2>1. ActorsOK' /\ OthersStay(Reaper) /\ Unneeded(Reaper)
    BY <1>1, <1>3, GotoMoves DEF Places, Unneeded, InHand
  <2> QED BY <1>1, <1>3, <2>1, MoveKeepsInv DEF IInv, TypeOK, recordVars
<1> QED BY <1>2, <1>3 DEF ReapCabin

LEMMA ReapPreviewKeepsInv == ASSUME IInv, ReapPreview PROVE IInv'
<1>1. /\ Reaper \in Actors /\ pc[Reaper] = "previews" /\ ActorsOK
      /\ UNCHANGED <<up, apps, cabins, record, spent, orphan, restarts>>
  BY DEF ReapPreview, Actors, dockerVars, recordVars, faultVars, IInv, TypeOK, ActorsOK
<1>2. ActorsOK' /\ OthersStay(Reaper) /\ preview' \in BOOLEAN
  <2>0. "idle" \in Places
    BY DEF Places
  <2>1. CASE StopPreview(Reaper, "idle") /\ UNCHANGED <<kind, ensured>>
    BY <1>1, <2>0, <2>1, StopPreviewMoves DEF ActorsOK
  <2>2. CASE Goto(Reaper, "idle") /\ UNCHANGED preview
    BY <1>1, <2>0, <2>2, GotoMoves DEF IInv, TypeOK
  <2> QED BY <2>1, <2>2 DEF ReapPreview
<1>3. Unneeded(Reaper)
  BY <1>1, RequestsAssumption DEF Unneeded, InHand
<1> QED BY <1>1, <1>2, <1>3, MoveKeepsInv DEF IInv, TypeOK

\* The reaper is cancelled where it was about to kill: then the container that runs is one
\* the process has left.
LEMMA ShutdownKeepsInv == ASSUME IInv, Shutdown PROVE IInv'
<1>1. /\ Reaper \in Actors /\ Reaper \notin Requests /\ ActorsOK
      /\ UNCHANGED <<up, apps, cabins, record, spent, ensured>>
      /\ restarts < MaxRestarts /\ restarts' = restarts + 1
      /\ kind' = [kind EXCEPT ![Reaper] = "shutdown"]
      /\ orphan' = (orphan \/ (InHand(Reaper) /\ up))
      /\ StopPreview(Reaper, "cleanup")
  BY RequestsAssumption
     DEF Shutdown, Actors, dockerVars, recordVars, IInv, TypeOK, ActorsOK
<1>2. /\ pc' \in [Actors -> Places] /\ held' \in [Actors -> Ids] /\ preview' \in BOOLEAN
      /\ OthersStay(Reaper)
  BY <1>1, StopPreviewMoves DEF Places
<1>3. kind' \in [Actors -> Kinds \cup {"none", "shutdown"}]
  BY <1>1 DEF ActorsOK
<1>4. RunningCabinIsTracked'
  <2>1. CASE InHand(Reaper) /\ up
    BY <1>1, <2>1 DEF RunningCabinIsTracked
  <2>2. CASE ~InHand(Reaper)
    BY <1>1, <1>2, <2>2, OthersKeepTrack DEF Unneeded, IInv
  <2>3. CASE ~up
    BY <1>1, <2>3 DEF RunningCabinIsTracked
  <2> QED BY <2>1, <2>2, <2>3
<1>5. restarts' \in 0..MaxRestarts
  BY <1>1, CabinAssumption, SMT DEF IInv, TypeOK
<1>6. orphan' \in BOOLEAN
  BY <1>1
<1> QED BY <1>1, <1>2, <1>3, <1>4, <1>5, <1>6
        DEF IInv, TypeOK, ActorsOK, MapIsRecorded, MapIsCurrent

LEMMA CleanupAllKeepsInv == ASSUME IInv, CleanupAll PROVE IInv'
<1>1. /\ Reaper \in Actors /\ Reaper \notin Requests /\ pc[Reaper] = "cleanup"
      /\ Forget /\ cabins' = "none"
      /\ WithCabin(Reaper, "kill", IF record THEN cabins ELSE "none")
      /\ UNCHANGED <<up, apps, preview, orphan, restarts>>
  BY RequestsAssumption DEF CleanupAll, Actors, dockerVars, faultVars
<1> QED BY <1>1, DiscardKeepsInv DEF InHand

LEMMA CrashKeepsInv == ASSUME IInv, Crash PROVE IInv'
<1>1. /\ restarts < MaxRestarts /\ restarts' = restarts + 1
      /\ cabins' = "none" /\ record' = FALSE /\ spent' = FALSE /\ preview' = FALSE
      /\ pc' = [a \in Actors |-> "idle"] /\ kind' = [a \in Actors |-> "none"]
      /\ ensured' = [a \in Actors |-> 0] /\ held' = [a \in Actors |-> "none"]
      /\ orphan' = up /\ up' = up /\ apps' = apps
  BY DEF Crash, Forget, dockerVars
<1>2. restarts' \in 0..MaxRestarts
  BY <1>1, CabinAssumption, SMT DEF IInv, TypeOK
<1>3. ActorsOK'
  BY <1>1, SMT DEF ActorsOK, Places, Ids
<1> QED BY <1>1, <1>2, <1>3
        DEF IInv, TypeOK, ActorsOK, MapIsRecorded, MapIsCurrent, RunningCabinIsTracked, Ids

LEMMA DieKeepsInv == ASSUME IInv, Die PROVE IInv'
<1>1. up' = FALSE /\ apps' = 0 /\ orphan' = FALSE
      /\ UNCHANGED <<pc, kind, ensured, record, spent, preview, restarts>>
  BY DEF Die, StopContainer, recordVars
<1>2. held' \in [Actors -> Ids] /\ cabins' \in Ids /\ (cabins' # "none" => cabins # "none")
  <2>1. held \in [Actors -> Ids] /\ cabins \in Ids
    BY DEF IInv, TypeOK
  <2>2. CASE UNCHANGED <<cabins, held>>
    BY <2>1, <2>2
  <2>3. CASE cabins' = Outdated(cabins) /\ held' = [a \in Actors |-> Outdated(held[a])]
    <3>1. held' \in [Actors -> Ids]
      BY <2>1, <2>3, OutdatedId
    <3>2. cabins' \in Ids /\ (cabins' # "none" => cabins # "none")
      BY <2>1, <2>3 DEF Outdated, Ids
    <3> QED BY <3>1, <3>2
  <2> QED BY <2>2, <2>3 DEF Die
<1>3. 0 \in 0..MaxApps
  BY CabinAssumption, SMT
<1> QED BY <1>1, <1>2, <1>3
        DEF IInv, TypeOK, MapIsRecorded, MapIsCurrent, RunningCabinIsTracked

LEMMA GrowOldKeepsInv == ASSUME IInv, GrowOld PROVE IInv'
<1>1. spent' = TRUE
      /\ UNCHANGED <<up, apps, cabins, record, preview, pc, kind, ensured, held, orphan, restarts>>
  BY DEF GrowOld, dockerVars, actorVars, faultVars
<1> QED BY <1>1
        DEF IInv, TypeOK, MapIsRecorded, MapIsCurrent, RunningCabinIsTracked, InHand

-----------------------------------------------------------------------------
(* The specification *)

LEMMA InitInv == Init => IInv
<1> SUFFICES ASSUME Init PROVE IInv
  OBVIOUS
<1>1. ActorsOK
  BY SMT DEF Init, ActorsOK, Places, Ids
<1>2. 0 \in 0..MaxApps /\ 0 \in 0..MaxRestarts
  BY CabinAssumption, SMT
<1> QED BY <1>1, <1>2
        DEF Init, IInv, TypeOK, ActorsOK, MapIsRecorded, MapIsCurrent, RunningCabinIsTracked, Ids

LEMMA NextInv == IInv /\ [Next]_vars => IInv'
<1> SUFFICES ASSUME IInv, [Next]_vars PROVE IInv'
  OBVIOUS
<1>1. ASSUME NEW q \in Requests, Arrive(q) \/ Destroy(q) \/ RequestStep(q) PROVE IInv'
  <2>1. q \in Actors
    BY DEF Actors
  <2>2. CASE Arrive(q) \/ Destroy(q)
    BY <2>2, ArriveKeepsInv, DestroyKeepsInv
  <2>3. CASE Reveal(q) \/ Show(q) \/ Create(q) \/ Start(q)
    BY <2>3, RevealKeepsInv, ShowKeepsInv, CreateKeepsInv, StartKeepsInv
  <2>4. CASE Status(q) \/ Exec(q) \/ Hangup(q)
    BY <2>4, StatusKeepsInv, ExecKeepsInv, HangupKeepsInv
  <2>5. CASE Kill(q) \/ Delete(q) \/ Pkill(q)
    BY <2>1, <2>5, KillKeepsInv, DeleteKeepsInv, PkillKeepsInv
  <2> QED BY <1>1, <2>2, <2>3, <2>4, <2>5 DEF RequestStep
<1>2. CASE ReaperStep
  <2>1. Reaper \in Actors
    BY DEF Actors
  <2>2. CASE ReapCabin \/ ReapPreview \/ CleanupAll
    BY <2>2, ReapCabinKeepsInv, ReapPreviewKeepsInv, CleanupAllKeepsInv
  <2>3. CASE Kill(Reaper) \/ Delete(Reaper) \/ Pkill(Reaper)
    BY <2>1, <2>3, KillKeepsInv, DeleteKeepsInv, PkillKeepsInv
  <2> QED BY <1>2, <2>2, <2>3 DEF ReaperStep
<1>3. CASE Shutdown \/ Crash \/ Die \/ GrowOld
  BY <1>3, ShutdownKeepsInv, CrashKeepsInv, DieKeepsInv, GrowOldKeepsInv
<1>4. CASE UNCHANGED vars
  <2>1. UNCHANGED <<up, apps, cabins, record, spent, preview, pc, kind, ensured, held, orphan,
                    restarts>>
    BY <1>4 DEF vars, dockerVars, recordVars, actorVars, faultVars
  <2> QED BY <2>1
          DEF IInv, TypeOK, MapIsRecorded, MapIsCurrent, RunningCabinIsTracked, InHand
<1> QED BY <1>1, <1>2, <1>3, <1>4 DEF Next

LEMMA InvHolds == Spec => []IInv
BY InitInv, NextInv, PTL DEF Spec

\* Whatever the requests, the reaper, the shutdown and Docker do, and whatever is lost in a
\* crash: the container that runs is in the map and on record, or somebody is about to kill or
\* replace it, or it was left behind (cabin_service.py, gvisor_backend.py).
THEOREM EveryCabinIsTracked == Spec => []RunningCabinIsTracked
<1>1. IInv => RunningCabinIsTracked
  BY DEF IInv
<1> QED BY <1>1, InvHolds, PTL

\* What the map names is on record, and the map never names a removed container while the one
\* that replaced it runs: an ensure that finds an entry to be outdated has nothing to lose by
\* popping it but an entry that is newer (GVisorCabinBackend.ensure, CabinService.destroy).
THEOREM MapIsTrue == Spec => [](TypeOK /\ MapIsRecorded /\ MapIsCurrent)
<1>1. IInv => TypeOK /\ MapIsRecorded /\ MapIsCurrent
  BY DEF IInv
<1> QED BY <1>1, InvHolds, PTL
================================================================================
