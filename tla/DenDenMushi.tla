----------------------------- MODULE DenDenMushi -----------------------------
(***************************************************************************)
(* One stream of Den Den Mushi, read by the consumers of one group         *)
(* (app/den_den_mushi): each runs consume_loop, which claims what another  *)
(* left pending too long, reads what is new, calls the handlers, and       *)
(* acknowledges, retries or dead-letters.  A consumer may die at any time. *)
(* A step is a call of Redis or of a handler: other consumers run between. *)
(***************************************************************************)
EXTENDS Integers, Sequences, FiniteSets

CONSTANTS Consumers,    \* the consumers of the group
          Handlers,     \* how many handlers are registered for an event type
          MaxRetries,   \* MAX_RETRIES
          BatchSize,    \* count: how many messages a call returns
          MaxMessages,  \* bound on the messages published
          MaxCrashes    \* bound on the consumers that die

ASSUME ConsumersAssumption == IsFiniteSet(Consumers) /\ MaxCrashes < Cardinality(Consumers)
ASSUME BusAssumption ==
    /\ Handlers \in Nat \ {0} /\ MaxRetries \in Nat \ {0} /\ BatchSize \in Nat \ {0}
    /\ MaxMessages \in Nat /\ MaxCrashes \in Nat

\* An event has handlers; nobody registered for an "unheard" one; parse_event rejects a
\* "malformed" one.
Kinds == {"event", "unheard", "malformed"}

VARIABLES
    stream,      \* the kinds of the published messages; a message is its position
    delivered,   \* last-delivered-id of the group
    pending,     \* the pending entries of the group: delivered, not acknowledged
    idle,        \* those not delivered to anyone for CLAIM_MIN_IDLE_MS
    deliveries,  \* times_delivered of each entry
    dead,        \* the messages in the dead-letter stream
    heard,       \* the handlers that succeeded on each message
    pc,          \* where each consumer is
    reading,     \* whether it is in read() rather than in claim_stale()
    bad,         \* the malformed messages it has still to discard
    batch,       \* stale + messages, what is left of it: the least comes first
    next         \* the next handler of the first message

redisVars == <<stream, delivered, pending, idle, deliveries, dead>>
loopVars == <<pc, reading, bad, batch, next>>
vars == <<redisVars, heard, loopVars>>

Messages == 1..MaxMessages
Published == 1..Len(stream)
Malformed(ms) == {m \in ms : stream[m] = "malformed"}

Init ==
    /\ stream = <<>> /\ delivered = 0
    /\ pending = {} /\ idle = {} /\ dead = {}
    /\ deliveries = [m \in Messages |-> 0]
    /\ heard = [m \in Messages |-> {}]
    /\ pc = [c \in Consumers |-> "claim"]
    /\ reading = [c \in Consumers |-> FALSE]
    /\ bad = [c \in Consumers |-> {}]
    /\ batch = [c \in Consumers |-> {}]
    /\ next = [c \in Consumers |-> 1]

Goto(c, place) == pc' = [pc EXCEPT ![c] = place]

\* m comes first in ms: messages are taken in the order of their ids.
First(ms, m) == m \in ms /\ \A n \in ms : m <= n

\* taken: as many of ms as a call returns, the oldest.
Oldest(taken, ms) ==
    /\ taken \subseteq ms
    /\ Cardinality(taken) <= BatchSize
    /\ taken = ms \/ Cardinality(taken) = BatchSize
    /\ \A m \in taken, n \in ms \ taken : m < n

\* XADD.
Publish ==
    /\ Len(stream) < MaxMessages
    /\ \E k \in Kinds : stream' = Append(stream, k)
    /\ UNCHANGED <<delivered, pending, idle, deliveries, dead, heard, loopVars>>

\* Time passes for a pending entry, whoever may be working on it.
Age(m) ==
    /\ m \in pending \ idle
    /\ idle' = idle \cup {m}
    /\ UNCHANGED <<stream, delivered, pending, deliveries, dead, heard, loopVars>>

\* A batch arrives: the malformed messages of it are discarded before anything else happens.
Receive(c, taken, rest) ==
    /\ deliveries' = [m \in Messages |->
                        IF m \in taken THEN deliveries[m] + 1 ELSE deliveries[m]]
    /\ batch' = [batch EXCEPT ![c] = @ \cup (taken \ Malformed(taken))]
    /\ bad' = [bad EXCEPT ![c] = Malformed(taken)]
    /\ Goto(c, IF Malformed(taken) # {} THEN "discard" ELSE rest)

\* Where the loop goes on with batch ms: to the handlers, or to the next round.
Work(ms) == IF ms = {} THEN "claim" ELSE "handle"

\* Mutation: nothing that was left pending is ever claimed.
ClaimStale_Nothing(c) ==
    /\ pc[c] = "claim"
    /\ Goto(c, "read")
    /\ UNCHANGED <<redisVars, heard, reading, bad, batch, next>>

\* XAUTOCLAIM: entries that nobody acknowledged in time are delivered to c, its own included.
ClaimStale(c) ==
    /\ pc[c] = "claim"
    /\ \E taken \in SUBSET idle :
         /\ Oldest(taken, idle)
         /\ Receive(c, taken, "read")
         /\ idle' = idle \ taken
    /\ reading' = [reading EXCEPT ![c] = FALSE]
    /\ UNCHANGED <<stream, delivered, pending, dead, heard, next>>

\* XREADGROUP: new messages, or none when the call times out.
Read(c) ==
    /\ pc[c] = "read"
    /\ \E last \in delivered..Len(stream) :
         LET taken == (delivered + 1)..last IN
         /\ Oldest(taken, (delivered + 1)..Len(stream))
         /\ Receive(c, taken, Work(batch[c] \cup taken))
         /\ pending' = pending \cup taken
         /\ delivered' = last
    /\ reading' = [reading EXCEPT ![c] = TRUE]
    /\ UNCHANGED <<stream, idle, dead, heard, next>>

\* XADD to the dead-letter stream of the first malformed message.
Discard(c) ==
    /\ pc[c] = "discard"
    /\ \E m \in bad[c] : First(bad[c], m) /\ dead' = dead \cup {m}
    /\ Goto(c, "forget")
    /\ UNCHANGED <<stream, delivered, pending, idle, deliveries, heard, reading, bad,
                   batch, next>>

\* XACK of it; then the next one, or back to the loop.
Forget(c) ==
    /\ pc[c] = "forget"
    /\ \E m \in bad[c] :
         /\ First(bad[c], m)
         /\ pending' = pending \ {m} /\ idle' = idle \ {m}
         /\ bad' = [bad EXCEPT ![c] = @ \ {m}]
         /\ Goto(c, IF bad[c] # {m} THEN "discard"
                    ELSE IF reading[c] THEN Work(batch[c]) ELSE "read")
    /\ UNCHANGED <<stream, delivered, deliveries, dead, heard, reading, batch, next>>

\* The loop is through with m.
Proceed(c, m) ==
    /\ batch' = [batch EXCEPT ![c] = @ \ {m}]
    /\ next' = [next EXCEPT ![c] = 1]
    /\ Goto(c, Work(batch[c] \ {m}))

\* Mutation: one handler too many is awaited.
HandlerReturns_OffByOne(c, m) ==
    /\ pc[c] = "handle" /\ First(batch[c], m) /\ stream[m] = "event"
    /\ heard' = [heard EXCEPT ![m] = @ \cup {next[c]}]
    /\ IF next[c] > Handlers THEN Goto(c, "ack") /\ UNCHANGED next
                             ELSE next' = [next EXCEPT ![c] = @ + 1] /\ UNCHANGED pc
    /\ UNCHANGED <<redisVars, reading, bad, batch>>

\* The next handler of the first message returns.
HandlerReturns(c, m) ==
    /\ pc[c] = "handle" /\ First(batch[c], m) /\ stream[m] = "event"
    /\ heard' = [heard EXCEPT ![m] = @ \cup {next[c]}]
    /\ IF next[c] = Handlers THEN Goto(c, "ack") /\ UNCHANGED next
                             ELSE next' = [next EXCEPT ![c] = @ + 1] /\ UNCHANGED pc
    /\ UNCHANGED <<redisVars, reading, bad, batch>>

\* Mutation: the loop over the handlers is not broken off.
HandlerRaises_NoBreak(c, m) ==
    /\ pc[c] = "handle" /\ First(batch[c], m) /\ stream[m] = "event"
    /\ IF next[c] = Handlers THEN Goto(c, "examine") /\ UNCHANGED next
                             ELSE next' = [next EXCEPT ![c] = @ + 1] /\ UNCHANGED pc
    /\ UNCHANGED <<redisVars, heard, reading, bad, batch>>

\* It raises: the handlers after it are not called.
HandlerRaises(c, m) ==
    /\ pc[c] = "handle" /\ First(batch[c], m) /\ stream[m] = "event"
    /\ Goto(c, "examine")
    /\ UNCHANGED <<redisVars, heard, reading, bad, batch, next>>

\* times_delivered, as XPENDING reports it: nothing of an entry somebody acknowledged.
TimesDelivered(m) == IF m \in pending THEN deliveries[m] ELSE 0

\* Mutation: one delivery more than MAX_RETRIES is allowed.
Examine_OffByOne(c, m) ==
    /\ pc[c] = "examine" /\ First(batch[c], m)
    /\ \/ TimesDelivered(m) > MaxRetries /\ Goto(c, "bury") /\ UNCHANGED <<batch, next>>
       \/ TimesDelivered(m) <= MaxRetries /\ Proceed(c, m)
    /\ UNCHANGED <<redisVars, heard, reading, bad>>

\* Mutation: the message is acknowledged without a dead letter.
Examine_NotBuried(c, m) ==
    /\ pc[c] = "examine" /\ First(batch[c], m)
    /\ \/ TimesDelivered(m) >= MaxRetries /\ Goto(c, "ack") /\ UNCHANGED <<batch, next>>
       \/ TimesDelivered(m) < MaxRetries /\ Proceed(c, m)
    /\ UNCHANGED <<redisVars, heard, reading, bad>>

\* XPENDING decides whether m is left pending for another delivery.
Examine(c, m) ==
    /\ pc[c] = "examine" /\ First(batch[c], m)
    /\ \/ TimesDelivered(m) >= MaxRetries /\ Goto(c, "bury") /\ UNCHANGED <<batch, next>>
       \/ TimesDelivered(m) < MaxRetries /\ Proceed(c, m)
    /\ UNCHANGED <<redisVars, heard, reading, bad>>

\* XADD to the dead-letter stream.
DeadLetter(c, m) ==
    /\ pc[c] = "bury" /\ First(batch[c], m)
    /\ dead' = dead \cup {m}
    /\ Goto(c, "ack")
    /\ UNCHANGED <<stream, delivered, pending, idle, deliveries, heard, reading, bad,
                   batch, next>>

\* XACK, whoever the entry was last delivered to.
Ack(c, m) ==
    /\ \/ pc[c] = "ack"
       \/ pc[c] = "handle" /\ stream[m] = "unheard"
    /\ First(batch[c], m)
    /\ pending' = pending \ {m} /\ idle' = idle \ {m}
    /\ Proceed(c, m)
    /\ UNCHANGED <<stream, delivered, deliveries, dead, heard, reading, bad>>

\* The task of a consumer dies: a call of Redis failed, or the process stopped.
Crash(c) ==
    /\ pc[c] # "down"
    /\ Cardinality({d \in Consumers : pc[d] = "down"}) < MaxCrashes
    /\ Goto(c, "down")
    /\ batch' = [batch EXCEPT ![c] = {}] /\ bad' = [bad EXCEPT ![c] = {}]
    /\ reading' = [reading EXCEPT ![c] = FALSE] /\ next' = [next EXCEPT ![c] = 1]
    /\ UNCHANGED <<redisVars, heard>>

LoopStep(c) ==
    \/ ClaimStale(c) \/ Read(c) \/ Discard(c) \/ Forget(c)
    \/ \E m \in batch[c] : \/ HandlerReturns(c, m) \/ HandlerRaises(c, m)
                           \/ Examine(c, m) \/ DeadLetter(c, m) \/ Ack(c, m)

Next ==
    \/ Publish
    \/ \E m \in Messages : Age(m)
    \/ \E c \in Consumers : LoopStep(c) \/ Crash(c)

Spec == Init /\ [][Next]_vars

\* Redis answers, handlers end, time passes; nobody has to publish, and nobody has to die.
FairSpec == /\ Spec
            /\ \A c \in Consumers : WF_vars(LoopStep(c))
            /\ \A m \in Messages : WF_vars(Age(m))

-----------------------------------------------------------------------------
Places == {"claim", "read", "discard", "forget", "handle", "examine", "bury", "ack", "down"}

\* Every variable has its type; entries are entries of delivered messages; a consumer that
\* works on a message has one.
TypeOK ==
    /\ stream \in Seq(Kinds) /\ Len(stream) <= MaxMessages
    /\ delivered \in 0..Len(stream)
    /\ pending \subseteq 1..delivered /\ idle \subseteq pending
    /\ dead \subseteq 1..delivered
    /\ deliveries \in [Messages -> Nat]
    /\ heard \in [Messages -> SUBSET (1..Handlers)]
    /\ pc \in [Consumers -> Places]
    /\ reading \in [Consumers -> BOOLEAN]
    /\ batch \in [Consumers -> SUBSET (1..delivered)]
    /\ bad \in [Consumers -> SUBSET (1..delivered)]
    /\ next \in [Consumers -> 1..Handlers]

\* A message that left the pending list was dealt with: all its handlers succeeded, or it is in
\* the dead-letter stream, or nobody registered for it (handlers.py:45-90), although any
\* consumer may acknowledge what another one is still working on.
NothingLost ==
    \A m \in 1..delivered :
      \/ m \in pending
      \/ stream[m] = "unheard" \/ heard[m] = 1..Handlers \/ m \in dead

\* A message that always fails is not retried for ever: once it was delivered MAX_RETRIES
\* times, every other consumer can get it at most once more, in the time it takes the first
\* one to fail or to die (handlers.py:66-83).
RetriesBounded ==
    \A m \in Messages : deliveries[m] <= MaxRetries + Cardinality(Consumers) - 1

\* Every published message leaves the group's hands, whichever consumers die with it and
\* however its handlers fail: the survivors claim what was left pending (handlers.py:40-43).
EventuallySettled ==
    \A m \in Messages : m <= Len(stream) ~> (m <= delivered /\ m \notin pending)

\* The group implements the abstract promise of EventDelivery.
Delivery == INSTANCE EventDelivery WITH
              tries <- deliveries, settled <- (1..delivered) \ pending
DeliversEvents == Delivery!Spec
=============================================================================
