--------------------------- MODULE ObservationDeck ---------------------------
(***************************************************************************)
(* The Observation Deck: what a browser knows of a voyage.  Crew actions   *)
(* are rows that commit with the work they report and are published as     *)
(* events afterwards, at best.  The browser gets the events from a forward *)
(* loop of the server (a WebSocket, or Server-Sent Events once that failed *)
(* three times), which reads the stream from its start through a group of  *)
(* its own, and the rows from a paged listing, newest first.               *)
(* A frame is taken in when it is sent: what a broken connection loses was *)
(* never sent.  The poll of the voyage's status (setStatus) is left out: it *)
(* may show the end earlier, and nothing acts on connectionState.          *)
(***************************************************************************)
EXTENDS Integers, Sequences, SequencesExt, FiniteSets

CONSTANTS Actions,     \* the crew actions of the voyage, by the order of their ids
          Stamp,       \* created_at of each: when its transaction began
          Batch,       \* count of a read (10)
          Ring,        \* RING_BUFFER (5000)
          Limit,       \* limit of a page (200)
          MaxFails,    \* MAX_WS_FAILS (3)
          MaxDrops, MaxListings   \* bounds: connections that break, listings begun

ASSUME ActionsAssumption == IsFiniteSet(Actions) /\ Actions \subseteq Nat \ {0}
ASSUME StampAssumption == Stamp \in [Actions -> Nat]
ASSUME BoundsAssumption ==
    /\ {Batch, Ring, Limit, MaxFails} \subseteq Nat \ {0}
    /\ {MaxDrops, MaxListings} \subseteq Nat

VARIABLES
    rows,       \* the crew actions that are committed
    stream,     \* those that were published, in this order
    status,     \* of the voyage: "running" or "terminal"
    server,     \* where the forward loop is: "off", "read", "send" or "check"
    pos,        \* the last entry its group was given
    batch,      \* what it has read and not yet sent
    initialTerminal,   \* the status when the socket opened
    owed,       \* what had been published by then
    connection, \* connectionState as the stream hook sets it
    transport,  \* "ws" or "sse"
    fails,      \* the handshakes that failed
    order,      \* the events in the buffer of the voyage, oldest first
    pages,      \* the pages the listing has loaded
    more,       \* nextCursor is set on the last of them
    since,      \* the rows there were when it began
    drops, listings    \* counters of the bounds

forwardVars == <<server, pos, batch, initialTerminal, owed>>
clientVars == <<connection, transport, fails, order, drops>>
listVars == <<pages, more, since, listings>>
vars == <<rows, stream, status, forwardVars, clientVars, listVars>>

TypeOK ==
    /\ rows \subseteq Actions /\ stream \in Seq(Actions) /\ ToSet(stream) \subseteq rows
    /\ status \in {"running", "terminal"}
    /\ server \in {"off", "read", "send", "check"}
    /\ pos \in 0..Len(stream) /\ owed \in 0..Len(stream)
    /\ batch \in Seq(Actions) /\ initialTerminal \in BOOLEAN
    /\ connection \in {"idle", "connecting", "open", "reconnecting", "closed", "terminal-idle"}
    /\ transport \in {"ws", "sse"} /\ fails \in 0..MaxFails
    /\ order \in Seq(Actions) /\ pages \in Seq(Seq(Actions)) /\ since \subseteq rows

Init ==
    /\ rows = {} /\ stream = <<>> /\ status = "running"
    /\ server = "off" /\ pos = 0 /\ batch = <<>> /\ initialTerminal = FALSE /\ owed = 0
    /\ connection = "idle" /\ transport = "ws" /\ fails = 0 /\ order = <<>> /\ drops = 0
    /\ pages = <<>> /\ more = FALSE /\ since = {} /\ listings = 0

-----------------------------------------------------------------------------
(* The voyage *)

\* record_action, with the commit of the work: in any order of the transactions' beginnings.
CommitAction ==
    /\ status = "running"
    /\ \E a \in Actions \ rows : rows' = rows \cup {a}
    /\ UNCHANGED <<stream, status, forwardVars, clientVars, listVars>>

\* publish_crew_action_recorded: after the commit, or never.
PublishAction ==
    /\ \E a \in rows \ ToSet(stream) : stream' = Append(stream, a)
    /\ UNCHANGED <<rows, status, forwardVars, clientVars, listVars>>

\* The terminal status commits before the events that tell of it are published.
Terminate ==
    /\ status' = "terminal"
    /\ UNCHANGED <<rows, stream, forwardVars, clientVars, listVars>>

-----------------------------------------------------------------------------
(* The buffer of the store *)

\* Mutation: events are not compared with those that are known.
Ingest_NoDedupe(buffer, e) ==
    LET longer == Append(buffer, e)
    IN  IF Len(longer) > Ring THEN Tail(longer) ELSE longer

\* ingest: an event that is known stays where it is; a new one pushes the oldest out.
Ingest(buffer, e) ==
    LET longer == Append(buffer, e)
    IN  IF Contains(buffer, e) THEN buffer
        ELSE IF Len(longer) > Ring THEN Tail(longer) ELSE longer

-----------------------------------------------------------------------------
(* The connection *)

\* connectWs or connectSse: the store starts a connection, which reads from the start again.
\* The server looks the voyage up before it accepts.
Connect ==
    /\ connection \in {"idle", "reconnecting", "connecting"} /\ server = "off"
    /\ connection' = "open"
    /\ server' = "read" /\ pos' = 0 /\ batch' = <<>>
    /\ initialTerminal' = (transport = "ws" /\ status = "terminal")
    /\ owed' = Len(stream)
    /\ UNCHANGED <<rows, stream, status, transport, fails, order, drops, listVars>>

\* onclose of a socket that never opened: three of them within the window, which earlier ones
\* may have left, and the transport is SSE from now on.
HandshakeFails ==
    /\ connection \in {"idle", "reconnecting"} /\ transport = "ws" /\ drops < MaxDrops
    /\ drops' = drops + 1
    /\ fails' \in {fails + 1, 1}
    /\ IF fails' >= MaxFails
         THEN transport' = "sse" /\ connection' = "connecting"
         ELSE transport' = transport /\ connection' = "reconnecting"
    /\ UNCHANGED <<rows, stream, status, forwardVars, order, listVars>>

\* The server finds the token expired and closes with 1008: the hook refreshes it and connects
\* again, or gives up.
Refuse ==
    /\ connection \in {"idle", "reconnecting"} /\ transport = "ws" /\ drops < MaxDrops
    /\ drops' = drops + 1
    /\ connection' \in {"reconnecting", "closed"}
    /\ UNCHANGED <<rows, stream, status, transport, fails, forwardVars, order, listVars>>

\* The forward loop ends and destroys its group.
Stop == server' = "off" /\ batch' = <<>> /\ UNCHANGED <<pos, initialTerminal, owed>>

\* A socket that breaks is opened again after a while; one that breaks soon, if the token can
\* be refreshed.  The body of an SSE response that breaks is not asked for again.
Disconnect ==
    /\ connection = "open" /\ drops < MaxDrops
    /\ drops' = drops + 1
    /\ connection' \in IF transport = "ws" THEN {"reconnecting", "closed"} ELSE {"closed"}
    /\ Stop
    /\ UNCHANGED <<rows, stream, status, transport, fails, order, listVars>>

\* read: the next entries of the stream, or none within block_ms.
Read ==
    /\ server = "read"
    /\ LET next == IF pos + Batch < Len(stream) THEN pos + Batch ELSE Len(stream)
       IN  /\ batch' = SubSeq(stream, pos + 1, next)
           /\ pos' = next
           /\ server' = IF next > pos THEN "send" ELSE "check"
    /\ UNCHANGED <<rows, stream, status, initialTerminal, owed, clientVars, listVars>>

\* send_json and ack, for one entry.  The frames of SSE carry no type and the hook drops them.
Send ==
    /\ server = "send"
    /\ batch' = Tail(batch)
    /\ order' = IF transport = "ws" THEN Ingest(order, Head(batch)) ELSE order
    /\ server' = IF Tail(batch) = <<>> THEN "check" ELSE "send"
    /\ UNCHANGED <<rows, stream, status, pos, initialTerminal, owed,
                   connection, transport, fails, drops, listVars>>

\* Mutation: the status that was read when the socket opened is used throughout.
Finished_Cached == initialTerminal
\* The status is read anew after every batch.
Finished == status = "terminal" \/ initialTerminal

\* _close_terminal, onclose: no retry.  A body of SSE just ends.
Check ==
    /\ server = "check"
    /\ IF Finished
         THEN /\ Stop
              /\ connection' = IF transport = "ws" THEN "terminal-idle" ELSE "closed"
         ELSE server' = "read" /\ UNCHANGED <<pos, batch, initialTerminal, owed, connection>>
    /\ UNCHANGED <<rows, stream, status, transport, fails, order, drops, listVars>>

\* The user looks at other voyages, so many maybe that the store clears this one's events, and
\* starts with a WebSocket when back.  (GLOBAL_CAP is never exceeded: the three voyages that
\* keep events keep at most RING_BUFFER of them each.)
SwitchAway ==
    /\ connection # "idle" /\ drops < MaxDrops
    /\ drops' = drops + 1
    /\ connection' = "idle" /\ transport' = "ws" /\ fails' = 0
    /\ order' \in {order, <<>>}
    /\ Stop
    /\ UNCHANGED <<rows, stream, status, listVars>>

\* reconnect: the user asks for a WebSocket again, on a voyage that runs.
Reconnect ==
    /\ connection = "closed" /\ status = "running" /\ drops < MaxDrops
    /\ drops' = drops + 1
    /\ connection' = "reconnecting" /\ transport' = "ws" /\ fails' = 0
    /\ UNCHANGED <<rows, stream, status, forwardVars, order, listVars>>

-----------------------------------------------------------------------------
(* The listing *)

\* (created_at, id) as a tuple
Before(a, b) == Stamp[a] < Stamp[b] \/ (Stamp[a] = Stamp[b] /\ a < b)

\* Mutation: the cursor compares the timestamps alone.
After_StampOnly(cursor) == {a \in rows : cursor = 0 \/ Stamp[a] < Stamp[cursor]}
\* The rows past the cursor, the key of the last row of the page before; 0 without a cursor.
After(cursor) == {a \in rows : cursor = 0 \/ Before(a, cursor)}

\* ORDER BY created_at DESC, id DESC LIMIT n: a page has the newest of them, in this order, and
\* leaves out the others only if it is full.
Pages(cursor) ==
    {page \in BoundedSeq(After(cursor), Limit) :
        /\ \A i, k \in DOMAIN page : i < k => Before(page[k], page[i])
        /\ \A a \in After(cursor) \ ToSet(page) :
              Len(page) = Limit /\ \A i \in DOMAIN page : Before(a, page[i])}

HasNext(page) == Len(page) = Limit

\* useCrewActions: the first page, at first and whenever the query is invalidated ...
List ==
    /\ listings < MaxListings
    /\ listings' = listings + 1
    /\ \E page \in Pages(0) : pages' = <<page>> /\ more' = HasNext(page)
    /\ since' = rows
    /\ UNCHANGED <<rows, stream, status, forwardVars, clientVars>>

\* ... and the next one, from the cursor of the last.
ListMore ==
    /\ more
    /\ \E page \in Pages(Last(Last(pages))) :
         pages' = Append(pages, page) /\ more' = HasNext(page)
    /\ UNCHANGED <<rows, stream, status, since, listings, forwardVars, clientVars>>

Forward == Read \/ Send \/ Check

Next ==
    \/ CommitAction \/ PublishAction \/ Terminate
    \/ Connect \/ HandshakeFails \/ Refuse \/ Disconnect \/ SwitchAway \/ Reconnect
    \/ Forward \/ List \/ ListMore

\* The server's loop runs, and the browser's timers fire, while the user stays.
Fairness == WF_vars(Forward) /\ WF_vars(connection # "idle" /\ Connect)

Spec == Init /\ [][Next]_vars /\ Fairness

-----------------------------------------------------------------------------
(* Properties *)

\* However often the connection broke, the events were cleared or the ring overflowed in a
\* replay: once the forward loop has sent the whole stream over a socket, the buffer holds
\* the newest events, in the order of the stream.
BufferIsNewest ==
    connection = "open" /\ transport = "ws" /\ server = "check" /\ pos = Len(stream) =>
        order = SubSeq(stream, IF Len(stream) > Ring THEN Len(stream) - Ring + 1 ELSE 1,
                       Len(stream))

\* A listing that came to its end has each row that was there when it began once, although
\* rows are inserted while it is paged through, before the cursor and behind it; and it has
\* no row twice.
ListedOnce ==
    /\ \A i, j \in DOMAIN pages : \A k \in DOMAIN pages[i], l \in DOMAIN pages[j] :
         pages[i][k] = pages[j][l] => i = j /\ k = l
    /\ pages # <<>> /\ ~more => \A a \in since : \E i \in DOMAIN pages : a \in ToSet(pages[i])

\* When the voyage has ended, the stream tells the browser so, or the browser has given up the
\* connection, or the user has left, whatever broke before.
StreamEnds == status = "terminal" ~> connection \in {"terminal-idle", "closed", "idle"}

\* "Voyage already terminal at connect time: forwards any replayed events then closes": a
\* socket that is closed for the end of the voyage has sent what was published before it.
ReplayIsWhole == connection = "terminal-idle" => pos >= owed

=============================================================================
