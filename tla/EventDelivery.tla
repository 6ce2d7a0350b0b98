---------------------------- MODULE EventDelivery ----------------------------
(***************************************************************************)
(* What Den Den Mushi promises to a crew role: every event of a stream is  *)
(* heard by all its handlers, or given up, before it leaves the group.     *)
(* How often, by whom and in which order is left open: an event may be     *)
(* heard again, and even after it was given up or settled.                 *)
(***************************************************************************)
EXTENDS Integers, Sequences

CONSTANTS Kinds,        \* what a message can be: see DenDenMushi
          Handlers,     \* how many handlers an event type has
          MaxMessages,  \* bound on the messages published
          MaxRetries    \* deliveries after which an event may be given up

VARIABLES stream,   \* the kinds of the published messages, in order
          tries,    \* how often each was delivered to some consumer
          heard,    \* the handlers that succeeded on it
          dead,     \* the messages in the dead-letter stream
          settled   \* the messages that left the group's hands

evars == <<stream, tries, heard, dead, settled>>

Published == 1..Len(stream)

Send ==
    /\ Len(stream) < MaxMessages
    /\ \E k \in Kinds : stream' = Append(stream, k)
    /\ UNCHANGED <<tries, heard, dead, settled>>

\* Some messages that are not settled reach a consumer.
Deliver ==
    /\ \E ms \in SUBSET (Published \ settled) :
         tries' = [m \in DOMAIN tries |-> IF m \in ms THEN tries[m] + 1 ELSE tries[m]]
    /\ UNCHANGED <<stream, heard, dead, settled>>

\* The handlers run in order: one runs after those before it succeeded.
Hear(m) ==
    /\ stream[m] = "event" /\ tries[m] > 0
    /\ \E h \in 1..Handlers : /\ 1..(h - 1) \subseteq heard[m]
                              /\ heard' = [heard EXCEPT ![m] = @ \cup {h}]
    /\ UNCHANGED <<stream, tries, dead, settled>>

GiveUp(m) ==
    /\ \/ stream[m] = "malformed" /\ tries[m] > 0
       \/ stream[m] = "event" /\ tries[m] >= MaxRetries
    /\ dead' = dead \cup {m}
    /\ UNCHANGED <<stream, tries, heard, settled>>

Settle(m) ==
    /\ \/ stream[m] = "unheard" /\ tries[m] > 0
       \/ heard[m] = 1..Handlers
       \/ m \in dead
    /\ settled' = settled \cup {m}
    /\ UNCHANGED <<stream, tries, heard, dead>>

Init ==
    /\ stream = <<>>
    /\ tries = [m \in 1..MaxMessages |-> 0]
    /\ heard = [m \in 1..MaxMessages |-> {}]
    /\ dead = {} /\ settled = {}

Next ==
    \/ Send
    \/ Deliver
    \/ \E m \in Published : Hear(m) \/ GiveUp(m) \/ Settle(m)

Spec == Init /\ [][Next]_evars
=============================================================================
