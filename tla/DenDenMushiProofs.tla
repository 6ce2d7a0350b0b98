-------------------------- MODULE DenDenMushiProofs --------------------------
(***************************************************************************)
(* Proofs about DenDenMushi, for any number of consumers, handlers,        *)
(* messages, crashes, any batch size and any limit of retries.             *)
(***************************************************************************)
EXTENDS DenDenMushi, FiniteSetTheorems, TLAPS

\* The consumers that still answer for m: they have it, or had it when they died.
Holders(m) == {c \in Consumers : m \in batch[c] \cup bad[c] \/ pc[c] = "down"}

\* Every delivery beyond the last but one is owed by a consumer that still answers for it.
RetriesOwed ==
    \A m \in pending : deliveries[m] <= MaxRetries - 1 + Cardinality(Holders(m))

\* What is delivered was counted.
Counted == \A m \in Messages : deliveries[m] > 0 <=> m <= delivered

\* What the place of a consumer says about the messages it has.
ConsumerInv(c) ==
    /\ \A m \in bad[c] : stream[m] = "malformed"
    /\ \A m \in batch[c] : stream[m] # "malformed"
    /\ pc[c] \notin {"discard", "forget"} => bad[c] = {}
    /\ pc[c] = "claim" => batch[c] = {}
    /\ pc[c] \in {"claim", "read", "discard", "forget", "down"} => next[c] = 1
    /\ pc[c] = "forget" => \A m \in bad[c] : First(bad[c], m) => m \in dead
    /\ \A m \in batch[c] : First(batch[c], m) =>
         /\ pc[c] \in {"examine", "bury", "ack"} => stream[m] = "event"
         /\ pc[c] \in {"handle", "examine", "bury"} => 1..(next[c] - 1) \subseteq heard[m]
         /\ pc[c] = "bury" => deliveries[m] >= MaxRetries
         /\ pc[c] = "ack" => heard[m] = 1..Handlers \/ m \in dead

LoopInv == \A c \in Consumers : ConsumerInv(c)

BusInv == TypeOK /\ Counted /\ LoopInv /\ NothingLost /\ RetriesOwed /\ RetriesBounded

-----------------------------------------------------------------------------
(* Types *)

\* A group that was just created is well typed.
LEMMA BusTypeInit == Init => TypeOK
BY BusAssumption DEF Init, TypeOK, Messages, Places, Kinds

\* A publication and the passing of time.
LEMMA BusTypeOutside ==
    ASSUME TypeOK, Publish \/ \E m \in Messages : Age(m)
    PROVE  TypeOK'
<1>1. CASE Publish
  <2>1. /\ stream' \in Seq(Kinds) /\ Len(stream') = Len(stream) + 1
        /\ Len(stream') <= MaxMessages
    BY <1>1, BusAssumption DEF Publish, TypeOK
  <2> QED  BY <1>1, <2>1 DEF Publish, TypeOK, loopVars
<1>2. CASE \E m \in Messages : Age(m)
  BY <1>2 DEF Age, TypeOK, loopVars
<1> QED  BY <1>1, <1>2

\* A batch is delivered to a consumer.
LEMMA BusTypeReceive ==
    ASSUME TypeOK, NEW c \in Consumers, NEW taken, NEW last \in Nat, NEW rest \in Places,
           delivered <= last, taken \subseteq 1..last, Receive(c, taken, rest)
    PROVE  /\ deliveries' \in [Messages -> Nat] /\ pc' \in [Consumers -> Places]
           /\ batch' \in [Consumers -> SUBSET (1..last)]
           /\ bad' \in [Consumers -> SUBSET (1..last)]
<1>1. 1..delivered \subseteq 1..last
  BY DEF TypeOK
<1>2. Malformed(taken) \subseteq taken
  BY DEF Malformed
<1>3. deliveries' \in [Messages -> Nat] /\ pc' \in [Consumers -> Places]
  BY DEF TypeOK, Receive, Goto, Places
<1>4. batch' \in [Consumers -> SUBSET (1..last)]
  BY <1>1 DEF TypeOK, Receive
<1>5. bad' \in [Consumers -> SUBSET (1..last)]
  BY <1>1, <1>2 DEF TypeOK, Receive
<1> QED  BY <1>3, <1>4, <1>5

\* The steps of a consumer.
LEMMA BusTypeLoop ==
    ASSUME TypeOK, NEW c \in Consumers, LoopStep(c) \/ Crash(c)
    PROVE  TypeOK'
<1> USE BusAssumption DEF Goto, Work, Places
<1>1. CASE ClaimStale(c)
  <2>1. PICK taken \in SUBSET idle : Receive(c, taken, "read") /\ idle' = idle \ taken
    BY <1>1 DEF ClaimStale
  <2>2. taken \subseteq 1..delivered /\ delivered \in Nat /\ delivered <= delivered
    BY DEF TypeOK
  <2> HIDE DEF Places
  <2>3. /\ deliveries' \in [Messages -> Nat] /\ pc' \in [Consumers -> Places]
        /\ batch' \in [Consumers -> SUBSET (1..delivered)]
        /\ bad' \in [Consumers -> SUBSET (1..delivered)]
    BY <2>1, <2>2, BusTypeReceive DEF Places
  <2> QED  BY <1>1, <2>1, <2>3 DEF ClaimStale, TypeOK
<1>2. CASE Read(c)
  <2>1. PICK last \in delivered..Len(stream) :
          /\ Receive(c, (delivered + 1)..last, Work(batch[c] \cup ((delivered + 1)..last)))
          /\ pending' = pending \cup ((delivered + 1)..last)
          /\ delivered' = last
    BY <1>2 DEF Read
  <2>2. /\ last \in Nat /\ delivered \in Nat /\ delivered <= last
        /\ (delivered + 1)..last \subseteq 1..last /\ last \in 0..Len(stream)
        /\ 1..delivered \subseteq 1..last
    BY <2>1 DEF TypeOK
  <2> HIDE DEF Places
  <2>3. /\ deliveries' \in [Messages -> Nat] /\ pc' \in [Consumers -> Places]
        /\ batch' \in [Consumers -> SUBSET (1..last)]
        /\ bad' \in [Consumers -> SUBSET (1..last)]
    BY <2>1, <2>2, BusTypeReceive DEF Places
  <2>4. pending' \subseteq 1..last /\ idle \subseteq pending' /\ dead \subseteq 1..last
    BY <2>1, <2>2 DEF TypeOK
  <2> QED  BY <1>2, <2>1, <2>2, <2>3, <2>4 DEF Read, TypeOK
<1>3. CASE Discard(c)
  BY <1>3 DEF Discard, TypeOK, First
<1>4. CASE Forget(c)
  BY <1>4 DEF Forget, TypeOK
<1>5. CASE \E m \in batch[c] : HandlerReturns(c, m)
  <2>1. PICK m \in batch[c] : HandlerReturns(c, m)
    BY <1>5
  <2>2. m \in Messages
    BY DEF TypeOK, Messages
  <2>3. next' \in [Consumers -> 1..Handlers]
    <3>1. next[c] \in 1..Handlers /\ (next[c] # Handlers => next[c] + 1 \in 1..Handlers)
      BY DEF TypeOK
    <3>2. next' = next \/ (next[c] # Handlers /\ next' = [next EXCEPT ![c] = @ + 1])
      BY <2>1 DEF HandlerReturns
    <3>3. next \in [Consumers -> 1..Handlers]
      BY DEF TypeOK
    <3> QED  BY <3>1, <3>2, <3>3
  <2>4. heard' \in [Messages -> SUBSET (1..Handlers)]
    BY <2>1, <2>2 DEF HandlerReturns, TypeOK
  <2> QED  BY <2>1, <2>3, <2>4 DEF HandlerReturns, TypeOK, redisVars
<1>6. CASE \E m \in batch[c] : HandlerRaises(c, m)
  BY <1>6 DEF HandlerRaises, TypeOK, redisVars
<1>7. CASE \E m \in batch[c] : Examine(c, m)
  <2>1. PICK m \in batch[c] : Examine(c, m)
    BY <1>7
  <2>2. pc' \in [Consumers -> Places]
    BY <2>1 DEF Examine, Proceed, TypeOK
  <2>3. next' = next \/ next' = [next EXCEPT ![c] = 1]
    BY <2>1 DEF Examine, Proceed
  <2>4. batch' = batch \/ batch' = [batch EXCEPT ![c] = @ \ {m}]
    BY <2>1 DEF Examine, Proceed
  <2>5. next' \in [Consumers -> 1..Handlers]
    <3>1. 1 \in 1..Handlers /\ next \in [Consumers -> 1..Handlers]
      BY DEF TypeOK
    <3> QED  BY <2>3, <3>1
  <2>6. batch' \in [Consumers -> SUBSET (1..delivered)]
    BY <2>4 DEF TypeOK
  <2> QED  BY <2>1, <2>2, <2>5, <2>6 DEF Examine, TypeOK, redisVars
<1>8. CASE \E m \in batch[c] : DeadLetter(c, m)
  BY <1>8 DEF DeadLetter, TypeOK, First
<1>9. CASE \E m \in batch[c] : Ack(c, m)
  BY <1>9 DEF Ack, Proceed, TypeOK
<1>10. CASE Crash(c)
  BY <1>10 DEF Crash, TypeOK, redisVars
<1> QED  BY <1>1, <1>2, <1>3, <1>4, <1>5, <1>6, <1>7, <1>8, <1>9, <1>10 DEF LoopStep

\* Every step keeps the types.
LEMMA BusTypeStep == TypeOK /\ [Next]_vars => TypeOK'
<1> SUFFICES ASSUME TypeOK, [Next]_vars PROVE TypeOK'
  OBVIOUS
<1>1. CASE Next
  BY <1>1, BusTypeOutside, BusTypeLoop DEF Next
<1>2. CASE UNCHANGED vars
  BY <1>2 DEF vars, redisVars, loopVars, TypeOK
<1> QED  BY <1>1, <1>2

\* Every reachable state of the group is well typed, and the pending entries, batches and dead
\* letters are of delivered messages (den_den_mushi/handlers.py:27-90).
THEOREM BusTypeCorrect == Spec => []TypeOK
BY BusTypeInit, BusTypeStep, PTL DEF Spec

-----------------------------------------------------------------------------
(* What only grows *)

\* What any step keeps of the messages that were delivered: their kind, the handlers that
\* succeeded, the count of deliveries, the dead letters.
Growth ==
    /\ delivered <= delivered'
    /\ dead \subseteq dead'
    /\ \A m \in 1..delivered : /\ stream'[m] = stream[m]
                               /\ heard[m] \subseteq heard'[m]
                               /\ deliveries[m] <= deliveries'[m]

\* A delivered message is a position of the stream and an index of the counters.
LEMMA DeliveredMessages ==
    ASSUME TypeOK
    PROVE  1..delivered \subseteq Messages /\ 1..delivered \subseteq Published
BY BusAssumption DEF TypeOK, Messages, Published

\* A delivery counts up, for the messages of the batch only.
LEMMA ReceiveCounts ==
    ASSUME TypeOK, NEW c \in Consumers, NEW taken, NEW rest, Receive(c, taken, rest)
    PROVE  /\ \A m \in Messages : m \in taken => deliveries'[m] = deliveries[m] + 1
           /\ \A m \in Messages : m \notin taken => deliveries'[m] = deliveries[m]
           /\ \A m \in Messages : deliveries[m] <= deliveries'[m]
<1>1. \A m \in Messages : deliveries[m] \in Nat
  BY DEF TypeOK
<1> QED  BY <1>1 DEF Receive

\* Every step keeps what Growth names.
LEMMA Grows == ASSUME TypeOK, [Next]_vars PROVE Growth
<1>0. /\ delivered \in Nat /\ 1..delivered \subseteq Messages /\ 1..delivered \subseteq Published
      /\ \A m \in Messages : deliveries[m] \in Nat
  BY DeliveredMessages DEF TypeOK
<1>1. CASE Publish
  <2>1. PICK k \in Kinds : stream' = Append(stream, k)
    BY <1>1 DEF Publish
  <2>2. \A m \in Published : stream'[m] = stream[m]
    BY <2>1 DEF TypeOK, Published
  <2>3. UNCHANGED <<delivered, dead, heard, deliveries>>
    BY <1>1 DEF Publish
  <2> QED  BY <1>0, <2>2, <2>3 DEF Growth
<1>2. CASE \E m \in Messages : Age(m)
  BY <1>0, <1>2 DEF Age, Growth
<1>3. ASSUME NEW c \in Consumers, LoopStep(c) PROVE Growth
  <2>1. CASE ClaimStale(c)
    <3>1. PICK taken : Receive(c, taken, "read")
      BY <2>1 DEF ClaimStale
    <3>2. \A m \in Messages : deliveries[m] <= deliveries'[m]
      BY <3>1, ReceiveCounts
    <3> QED  BY <1>0, <2>1, <3>2 DEF ClaimStale, Growth
  <2>2. CASE Read(c)
    <3>1. PICK last \in delivered..Len(stream) :
            /\ Receive(c, (delivered + 1)..last, Work(batch[c] \cup ((delivered + 1)..last)))
            /\ delivered' = last
      BY <2>2 DEF Read
    <3>2. \A m \in Messages : deliveries[m] <= deliveries'[m]
      BY <3>1, ReceiveCounts
    <3>3. delivered <= delivered'
      BY <1>0, <3>1 DEF TypeOK
    <3> QED  BY <1>0, <2>2, <3>2, <3>3 DEF Read, Growth
  <2>3. CASE Discard(c)
    BY <1>0, <2>3 DEF Discard, Growth
  <2>4. CASE Forget(c)
    BY <1>0, <2>4 DEF Forget, Growth
  <2>5. CASE \E m \in batch[c] : HandlerReturns(c, m)
    <3>1. PICK m \in batch[c] : HandlerReturns(c, m)
      BY <2>5
    <3>2. heard' = [heard EXCEPT ![m] = @ \cup {next[c]}]
      BY <3>1 DEF HandlerReturns
    <3>3. \A n \in Messages : heard[n] \subseteq heard'[n]
      BY <3>2 DEF TypeOK
    <3> QED  BY <1>0, <3>1, <3>3 DEF HandlerReturns, Growth, redisVars
  <2>6. CASE \E m \in batch[c] : HandlerRaises(c, m) \/ Examine(c, m)
    BY <1>0, <2>6 DEF HandlerRaises, Examine, Growth, redisVars
  <2>7. CASE \E m \in batch[c] : DeadLetter(c, m) \/ Ack(c, m)
    BY <1>0, <2>7 DEF DeadLetter, Ack, Growth
  <2> QED  BY <1>3, <2>1, <2>2, <2>3, <2>4, <2>5, <2>6, <2>7 DEF LoopStep
<1>4. ASSUME NEW c \in Consumers, Crash(c) PROVE Growth
  BY <1>0, <1>4 DEF Crash, Growth, redisVars
<1>5. CASE UNCHANGED vars
  BY <1>0, <1>5 DEF vars, redisVars, Growth
<1> QED  BY <1>1, <1>2, <1>3, <1>4, <1>5 DEF Next

\* A message counts as delivered when, and only when, it was.
LEMMA CountedStep == ASSUME TypeOK, Counted, [Next]_vars PROVE Counted'
<1>0. /\ delivered \in Nat /\ 1..delivered \subseteq Messages
      /\ \A m \in Messages : deliveries[m] \in Nat
      /\ idle \subseteq 1..delivered
  BY DeliveredMessages DEF TypeOK
<1>1. ASSUME NEW c \in Consumers, ClaimStale(c) PROVE Counted'
  <2>1. PICK taken \in SUBSET idle : Receive(c, taken, "read")
    BY <1>1 DEF ClaimStale
  <2>2. delivered' = delivered
    BY <1>1 DEF ClaimStale
  <2>3. \A m \in Messages : \/ deliveries'[m] = deliveries[m]
                            \/ m \in taken /\ deliveries'[m] = deliveries[m] + 1
    BY <2>1, ReceiveCounts
  <2> QED  BY <1>0, <2>1, <2>2, <2>3 DEF Counted, Messages
<1>2. ASSUME NEW c \in Consumers, Read(c) PROVE Counted'
  <2>1. PICK last \in delivered..Len(stream) :
          /\ Receive(c, (delivered + 1)..last, Work(batch[c] \cup ((delivered + 1)..last)))
          /\ delivered' = last
    BY <1>2 DEF Read
  <2>2. last \in Nat /\ delivered <= last
    BY <1>0, <2>1 DEF TypeOK
  <2>3. \A m \in Messages : m \in (delivered + 1)..last => deliveries'[m] = deliveries[m] + 1
    BY <2>1, ReceiveCounts
  <2>4. \A m \in Messages : m \notin (delivered + 1)..last => deliveries'[m] = deliveries[m]
    BY <2>1, ReceiveCounts
  <2> QED  BY <1>0, <2>1, <2>2, <2>3, <2>4 DEF Counted, Messages
<1>3. CASE UNCHANGED <<delivered, deliveries>>
  BY <1>3 DEF Counted, Messages
<1>4. ASSUME NEW c \in Consumers, LoopStep(c), ~ ClaimStale(c), ~ Read(c)
      PROVE  UNCHANGED <<delivered, deliveries>>
  BY <1>4 DEF LoopStep, Discard, Forget, HandlerReturns, HandlerRaises, Examine, DeadLetter,
     Ack, redisVars
<1>5. ASSUME NEW c \in Consumers, Crash(c) PROVE UNCHANGED <<delivered, deliveries>>
  BY <1>5 DEF Crash, redisVars
<1>6. CASE Publish \/ \E m \in Messages : Age(m)
  BY <1>3, <1>6 DEF Publish, Age
<1>7. CASE UNCHANGED vars
  BY <1>3, <1>7 DEF vars, redisVars
<1> QED  BY <1>1, <1>2, <1>3, <1>4, <1>5, <1>6, <1>7 DEF Next

-----------------------------------------------------------------------------
(* The consumers *)

\* The locals of a consumer.
Locals(c) == <<pc[c], bad[c], batch[c], next[c]>>

\* A step of one consumer leaves the locals of the others alone.
LEMMA OthersKeepLocals ==
    ASSUME TypeOK, NEW c \in Consumers, NEW d \in Consumers, d # c, LoopStep(c) \/ Crash(c)
    PROVE  UNCHANGED Locals(d)
<1> USE DEF TypeOK, Goto, Locals
<1>1. CASE ClaimStale(c) \/ Read(c)
  BY <1>1 DEF ClaimStale, Read, Receive
<1>2. CASE Discard(c) \/ Forget(c)
  BY <1>2 DEF Discard, Forget
<1>3. CASE \E m \in batch[c] : HandlerReturns(c, m) \/ HandlerRaises(c, m)
  BY <1>3 DEF HandlerReturns, HandlerRaises
<1>4. CASE \E m \in batch[c] : Examine(c, m) \/ DeadLetter(c, m) \/ Ack(c, m)
  BY <1>4 DEF Examine, DeadLetter, Ack, Proceed
<1>5. CASE Crash(c)
  BY <1>5 DEF Crash
<1> QED  BY <1>1, <1>2, <1>3, <1>4, <1>5 DEF LoopStep

\* What a consumer knows of its messages stays true while others work.
LEMMA ConsumerKept ==
    ASSUME TypeOK, TypeOK', Growth, NEW c \in Consumers, ConsumerInv(c), UNCHANGED Locals(c)
    PROVE  ConsumerInv(c)'
<1>1. /\ pc'[c] = pc[c] /\ bad'[c] = bad[c] /\ batch'[c] = batch[c] /\ next'[c] = next[c]
  BY DEF Locals
<1>2. bad[c] \subseteq 1..delivered /\ batch[c] \subseteq 1..delivered
  BY DEF TypeOK
<1>3. \A m \in 1..delivered : m \in Messages
  BY DeliveredMessages
<1>4. \A m \in 1..delivered : heard[m] = 1..Handlers => heard'[m] = 1..Handlers
  BY <1>3 DEF Growth, TypeOK
<1>5. \A m \in 1..delivered : deliveries[m] >= MaxRetries => deliveries'[m] >= MaxRetries
  BY <1>3, BusAssumption DEF Growth, TypeOK
<1>6. /\ \A m \in bad[c] : stream'[m] = "malformed"
      /\ \A m \in batch[c] : stream'[m] # "malformed"
  BY <1>2 DEF Growth, ConsumerInv
<1>7. pc[c] = "forget" => \A m \in bad[c] : First(bad[c], m) => m \in dead'
  BY DEF Growth, ConsumerInv
<1>8. ASSUME NEW m \in batch[c], First(batch[c], m)
      PROVE  /\ pc[c] \in {"examine", "bury", "ack"} => stream'[m] = "event"
             /\ pc[c] \in {"handle", "examine", "bury"} => 1..(next[c] - 1) \subseteq heard'[m]
             /\ pc[c] = "bury" => deliveries'[m] >= MaxRetries
             /\ pc[c] = "ack" => heard'[m] = 1..Handlers \/ m \in dead'
  BY <1>2, <1>4, <1>5, <1>8 DEF Growth, ConsumerInv
<1> QED  BY <1>1, <1>6, <1>7, <1>8 DEF ConsumerInv, First

\* A batch is sorted into malformed messages and the others.
LEMMA ReceiveSorts ==
    ASSUME TypeOK, NEW c \in Consumers, NEW taken, NEW rest, Receive(c, taken, rest),
           UNCHANGED stream
    PROVE  /\ bad'[c] = {m \in taken : stream'[m] = "malformed"}
           /\ batch'[c] = batch[c] \cup {m \in taken : stream'[m] # "malformed"}
           /\ pc'[c] = IF bad'[c] # {} THEN "discard" ELSE rest
BY DEF TypeOK, Receive, Malformed, Goto

\* The consumer that takes the step knows what its new place requires.
LEMMA ConsumerStep ==
    ASSUME TypeOK, TypeOK', Growth, NEW c \in Consumers, ConsumerInv(c),
           LoopStep(c) \/ Crash(c)
    PROVE  ConsumerInv(c)'
<1>0. /\ bad[c] \subseteq Messages /\ batch[c] \subseteq Messages
      /\ next[c] \in 1..Handlers
  BY DeliveredMessages DEF TypeOK
<1>1. CASE ClaimStale(c)
  <2>1. PICK taken \in SUBSET idle : Receive(c, taken, "read")
    BY <1>1 DEF ClaimStale
  <2>2. UNCHANGED <<stream, next>> /\ pc[c] = "claim"
    BY <1>1 DEF ClaimStale
  <2>3. /\ bad'[c] = {m \in taken : stream'[m] = "malformed"}
        /\ batch'[c] = batch[c] \cup {m \in taken : stream'[m] # "malformed"}
        /\ pc'[c] = IF bad'[c] # {} THEN "discard" ELSE "read"
    BY <2>1, <2>2, ReceiveSorts
  <2> QED  BY <2>2, <2>3 DEF ConsumerInv
<1>2. CASE Read(c)
  <2>1. PICK taken : Receive(c, taken, Work(batch[c] \cup taken))
    BY <1>2 DEF Read
  <2>2. UNCHANGED <<stream, next>> /\ pc[c] = "read" /\ next[c] = 1
    BY <1>2 DEF Read, ConsumerInv
  <2>3. /\ bad'[c] = {m \in taken : stream'[m] = "malformed"}
        /\ batch'[c] = batch[c] \cup {m \in taken : stream'[m] # "malformed"}
        /\ pc'[c] = IF bad'[c] # {} THEN "discard" ELSE Work(batch[c] \cup taken)
    BY <2>1, <2>2, ReceiveSorts
  <2>4. bad'[c] = {} => batch'[c] = batch[c] \cup taken
    BY <2>3
  <2>5. 1..(next'[c] - 1) = {}
    BY <2>2
  <2>6. \A m \in batch'[c] : stream'[m] # "malformed"
    BY <2>2, <2>3 DEF ConsumerInv
  <2> QED  BY <2>2, <2>3, <2>4, <2>5, <2>6 DEF ConsumerInv, Work
<1>3. CASE Discard(c)
  <2>1. PICK m \in bad[c] : First(bad[c], m) /\ dead' = dead \cup {m}
    BY <1>3 DEF Discard
  <2>2. \A n : First(bad[c], n) => n = m
    BY <1>0, <2>1 DEF First, Messages
  <2>3. /\ pc'[c] = "forget" /\ pc[c] = "discard"
        /\ UNCHANGED <<stream, bad, batch, next>>
    BY <1>3 DEF Discard, Goto, TypeOK
  <2> QED  BY <2>1, <2>2, <2>3 DEF ConsumerInv, First
<1>4. CASE Forget(c)
  <2>1. PICK m \in bad[c] :
          /\ bad' = [bad EXCEPT ![c] = @ \ {m}]
          /\ Goto(c, IF bad[c] # {m} THEN "discard"
                     ELSE IF reading[c] THEN Work(batch[c]) ELSE "read")
    BY <1>4 DEF Forget
  <2>2. bad'[c] = bad[c] \ {m} /\ UNCHANGED <<stream, batch, next>> /\ pc[c] = "forget"
    BY <1>4, <2>1 DEF Forget, TypeOK
  <2>3. pc'[c] = IF bad[c] # {m} THEN "discard"
                 ELSE IF reading[c] THEN Work(batch[c]) ELSE "read"
    BY <2>1 DEF Goto, TypeOK
  <2>4. 1..(next'[c] - 1) = {}
    BY <2>2 DEF ConsumerInv
  <2>5. pc'[c] \in {"discard", "claim", "handle", "read"}
    BY <2>3 DEF Work
  <2>6. pc'[c] # "discard" => bad'[c] = {}
    BY <2>2, <2>3 DEF Work
  <2>7. pc'[c] = "claim" => batch'[c] = {}
    BY <2>2, <2>3 DEF Work
  <2> QED  BY <2>2, <2>4, <2>5, <2>6, <2>7 DEF ConsumerInv
<1>5. ASSUME NEW m \in batch[c], HandlerReturns(c, m) PROVE ConsumerInv(c)'
  <2>1. \A n : First(batch[c], n) => n = m
    BY <1>0, <1>5 DEF HandlerReturns, First, Messages
  <2>2. /\ UNCHANGED <<stream, dead, deliveries, bad, batch>>
        /\ First(batch[c], m) /\ stream[m] = "event" /\ pc[c] = "handle"
    BY <1>5 DEF HandlerReturns, redisVars
  <2>3. heard'[m] = heard[m] \cup {next[c]}
    BY <1>0, <1>5 DEF HandlerReturns, TypeOK
  <2>4. 1..next[c] = (1..(next[c] - 1)) \cup {next[c]}
    BY <1>0
  <2>5. 1..next[c] \subseteq heard'[m]
    BY <2>2, <2>3, <2>4 DEF ConsumerInv
  <2>6. CASE next[c] = Handlers
    <3>1. pc'[c] = "ack" /\ next'[c] = next[c]
      BY <1>5, <2>6 DEF HandlerReturns, Goto, TypeOK
    <3>2. heard'[m] = 1..Handlers
      BY <1>0, <2>5, <2>6 DEF TypeOK
    <3> QED  BY <2>1, <2>2, <3>1, <3>2 DEF ConsumerInv, First
  <2>7. CASE next[c] # Handlers
    <3>1. pc'[c] = "handle" /\ next'[c] - 1 = next[c]
      BY <1>0, <1>5, <2>2, <2>7 DEF HandlerReturns, TypeOK
    <3> QED  BY <2>1, <2>2, <2>5, <3>1 DEF ConsumerInv, First
  <2> QED  BY <2>6, <2>7
<1>6. ASSUME NEW m \in batch[c], HandlerRaises(c, m) PROVE ConsumerInv(c)'
  <2>1. \A n : First(batch[c], n) => n = m
    BY <1>0, <1>6 DEF HandlerRaises, First, Messages
  <2>2. /\ UNCHANGED <<stream, dead, deliveries, bad, batch, next, heard>>
        /\ First(batch[c], m) /\ stream[m] = "event" /\ pc[c] = "handle"
        /\ pc'[c] = "examine"
    BY <1>6 DEF HandlerRaises, redisVars, Goto, TypeOK
  <2> QED  BY <2>1, <2>2 DEF ConsumerInv, First
<1>7. ASSUME NEW m \in batch[c], Proceed(c, m), UNCHANGED <<stream, bad>>, bad[c] = {}
      PROVE  ConsumerInv(c)'
  <2>1. /\ batch'[c] = batch[c] \ {m} /\ next'[c] = 1
        /\ pc'[c] = Work(batch'[c])
    BY <1>7 DEF Proceed, Goto, TypeOK
  <2>2. 1..(next'[c] - 1) = {}
    BY <2>1
  <2> QED  BY <1>7, <2>1, <2>2 DEF ConsumerInv, Work
<1>8. ASSUME NEW m \in batch[c], Examine(c, m) PROVE ConsumerInv(c)'
  <2>1. \A n : First(batch[c], n) => n = m
    BY <1>0, <1>8 DEF Examine, First, Messages
  <2>2. /\ UNCHANGED <<stream, dead, deliveries, bad, heard>>
        /\ First(batch[c], m) /\ pc[c] = "examine" /\ bad[c] = {}
    BY <1>8 DEF Examine, redisVars, ConsumerInv
  <2>3. CASE Proceed(c, m)
    BY <1>7, <2>2, <2>3
  <2>4. CASE TimesDelivered(m) >= MaxRetries /\ Goto(c, "bury") /\ UNCHANGED <<batch, next>>
    <3>1. deliveries[m] >= MaxRetries
      BY <2>4, BusAssumption DEF TimesDelivered
    <3>2. pc'[c] = "bury"
      BY <2>4 DEF Goto, TypeOK
    <3> QED  BY <2>1, <2>2, <2>4, <3>1, <3>2 DEF ConsumerInv, First
  <2> QED  BY <1>8, <2>3, <2>4 DEF Examine
<1>9. ASSUME NEW m \in batch[c], DeadLetter(c, m) PROVE ConsumerInv(c)'
  <2>1. \A n : First(batch[c], n) => n = m
    BY <1>0, <1>9 DEF DeadLetter, First, Messages
  <2>2. /\ UNCHANGED <<stream, deliveries, bad, batch, next, heard>>
        /\ First(batch[c], m) /\ pc[c] = "bury" /\ pc'[c] = "ack" /\ m \in dead'
    BY <1>9 DEF DeadLetter, Goto, TypeOK
  <2> QED  BY <2>1, <2>2 DEF ConsumerInv, First
<1>10. ASSUME NEW m \in batch[c], Ack(c, m) PROVE ConsumerInv(c)'
  BY <1>7, <1>10 DEF Ack, ConsumerInv
<1>11. CASE Crash(c)
  BY <1>11 DEF Crash, Goto, ConsumerInv, TypeOK
<1> QED
  BY <1>1, <1>2, <1>3, <1>4, <1>5, <1>6, <1>8, <1>9, <1>10, <1>11 DEF LoopStep

\* Every step keeps what every consumer knows.
LEMMA LoopInvStep == ASSUME TypeOK, TypeOK', LoopInv, [Next]_vars PROVE LoopInv'
<1>0. Growth
  BY Grows
<1>1. SUFFICES ASSUME NEW d \in Consumers PROVE ConsumerInv(d)'
  BY DEF LoopInv
<1>2. CASE UNCHANGED Locals(d)
  BY <1>0, <1>2, ConsumerKept DEF LoopInv
<1>3. CASE LoopStep(d) \/ Crash(d)
  BY <1>0, <1>3, ConsumerStep DEF LoopInv
<1>4. ASSUME NEW c \in Consumers, c # d, LoopStep(c) \/ Crash(c) PROVE UNCHANGED Locals(d)
  BY <1>4, OthersKeepLocals
<1>5. CASE Publish \/ \E m \in Messages : Age(m)
  BY <1>2, <1>5 DEF Publish, Age, Locals, loopVars
<1>6. CASE UNCHANGED vars
  BY <1>2, <1>6 DEF vars, Locals, loopVars
<1> QED  BY <1>2, <1>3, <1>4, <1>5, <1>6 DEF Next

-----------------------------------------------------------------------------
(* Nothing is lost *)

\* All that can be done about m was done.
DealtWith(m) == stream[m] = "unheard" \/ heard[m] = 1..Handlers \/ m \in dead

\* Only a message that was dealt with leaves the pending list.
LEMMA OnlyDoneIsAcknowledged ==
    ASSUME TypeOK, LoopInv, [Next]_vars, NEW m \in pending, m \notin pending'
    PROVE  DealtWith(m)
<1>1. PICK c \in Consumers : Forget(c) \/ \E n \in batch[c] : Ack(c, n)
  <2>1. CASE \E c \in Consumers : LoopStep(c)
    BY <2>1 DEF LoopStep, ClaimStale, Read, Discard, HandlerReturns, HandlerRaises,
       Examine, DeadLetter, redisVars
  <2>2. CASE \E c \in Consumers : Crash(c)
    BY <2>2 DEF Crash, redisVars
  <2>3. CASE Publish \/ \E n \in Messages : Age(n)
    BY <2>3 DEF Publish, Age
  <2>4. CASE UNCHANGED vars
    BY <2>4 DEF vars, redisVars
  <2> QED  BY <2>1, <2>2, <2>3, <2>4 DEF Next
<1>2. CASE Forget(c)
  BY <1>2 DEF Forget, LoopInv, ConsumerInv, DealtWith
<1>3. CASE \E n \in batch[c] : Ack(c, n)
  BY <1>3 DEF Ack, LoopInv, ConsumerInv, DealtWith
<1> QED  BY <1>1, <1>2, <1>3

\* What is counted as delivered by a step is pending after it.
LEMMA NewIsPending ==
    ASSUME TypeOK, [Next]_vars, NEW m \in 1..delivered', m \notin 1..delivered
    PROVE  m \in pending'
<1>1. PICK c \in Consumers : Read(c)
  <2>1. ASSUME NEW c \in Consumers, LoopStep(c), ~ Read(c) PROVE delivered' = delivered
    BY <2>1 DEF LoopStep, ClaimStale, Discard, Forget, HandlerReturns, HandlerRaises,
       Examine, DeadLetter, Ack, redisVars
  <2>2. ASSUME NEW c \in Consumers, Crash(c) PROVE delivered' = delivered
    BY <2>2 DEF Crash, redisVars
  <2>3. CASE Publish \/ \E n \in Messages : Age(n)
    BY <2>3 DEF Publish, Age
  <2>4. CASE UNCHANGED vars
    BY <2>4 DEF vars, redisVars
  <2> QED  BY <2>1, <2>2, <2>3, <2>4 DEF Next
<1>2. PICK last \in delivered..Len(stream) :
        pending' = pending \cup ((delivered + 1)..last) /\ delivered' = last
  BY <1>1 DEF Read
<1> QED  BY <1>2 DEF TypeOK

\* Every step keeps NothingLost.
LEMMA NothingLostStep ==
    ASSUME TypeOK, TypeOK', LoopInv, NothingLost, [Next]_vars
    PROVE  NothingLost'
<1>0. Growth
  BY Grows
<1>1. SUFFICES ASSUME NEW m \in 1..delivered', m \notin pending' PROVE DealtWith(m)'
  BY DEF NothingLost, DealtWith
<1>2. m \in 1..delivered
  BY <1>1, NewIsPending
<1>3. DealtWith(m)
  BY <1>1, <1>2, OnlyDoneIsAcknowledged DEF NothingLost, DealtWith
<1>4. heard[m] = 1..Handlers => heard'[m] = 1..Handlers
  BY <1>0, <1>2, DeliveredMessages DEF Growth, TypeOK
<1> QED  BY <1>0, <1>2, <1>3, <1>4 DEF Growth, DealtWith

-----------------------------------------------------------------------------
(* Retries *)

\* Those who answer for a message are consumers, finitely many.
LEMMA HoldersFinite ==
    ASSUME NEW S \in SUBSET Consumers
    PROVE  IsFiniteSet(S) /\ Cardinality(S) \in Nat /\ Cardinality(S) <= Cardinality(Consumers)
BY ConsumersAssumption, FS_Subset, FS_CardinalityType

\* A message delivered no more, for which nobody less answers, is owed as before.
LEMMA OwedAsBefore ==
    ASSUME TypeOK, NEW m \in pending, RetriesOwed,
           deliveries'[m] = deliveries[m], Holders(m) \subseteq Holders(m)'
    PROVE  deliveries'[m] <= MaxRetries - 1 + Cardinality(Holders(m)')
<1>1. Holders(m) \in SUBSET Consumers /\ Holders(m)' \in SUBSET Consumers
  BY DEF Holders
<1>2. /\ Cardinality(Holders(m)) \in Nat /\ Cardinality(Holders(m)') \in Nat
      /\ IsFiniteSet(Holders(m)')
  BY <1>1, HoldersFinite
<1>3. Cardinality(Holders(m)) <= Cardinality(Holders(m)')
  BY <1>2, FS_Subset
<1>4. deliveries[m] \in Nat /\ deliveries[m] <= MaxRetries - 1 + Cardinality(Holders(m))
  BY DeliveredMessages DEF RetriesOwed, TypeOK
<1> QED  BY <1>2, <1>3, <1>4, BusAssumption

\* A message delivered to one consumer more is owed by that one.
LEMMA OwedByOneMore ==
    ASSUME TypeOK, NEW m \in pending, RetriesOwed, NEW c \in Consumers, c \notin Holders(m),
           deliveries'[m] = deliveries[m] + 1, Holders(m) \cup {c} \subseteq Holders(m)'
    PROVE  deliveries'[m] <= MaxRetries - 1 + Cardinality(Holders(m)')
<1>1. Holders(m) \in SUBSET Consumers /\ Holders(m)' \in SUBSET Consumers
  BY DEF Holders
<1>2. /\ Cardinality(Holders(m)) \in Nat /\ Cardinality(Holders(m)') \in Nat
      /\ IsFiniteSet(Holders(m)') /\ IsFiniteSet(Holders(m))
  BY <1>1, HoldersFinite
<1>3. Cardinality(Holders(m) \cup {c}) = Cardinality(Holders(m)) + 1
  BY <1>2, FS_AddElement
<1>4. Cardinality(Holders(m) \cup {c}) <= Cardinality(Holders(m)')
  BY <1>2, FS_Subset
<1>5. deliveries[m] \in Nat /\ deliveries[m] <= MaxRetries - 1 + Cardinality(Holders(m))
  BY DeliveredMessages DEF RetriesOwed, TypeOK
<1> QED  BY <1>2, <1>3, <1>4, <1>5, BusAssumption

\* A message delivered for the first time is owed by its consumer.
LEMMA OwedTheFirstTime ==
    ASSUME NEW m, NEW c \in Consumers, deliveries'[m] = 1, c \in Holders(m)'
    PROVE  deliveries'[m] <= MaxRetries - 1 + Cardinality(Holders(m)')
<1>1. Holders(m)' \in SUBSET Consumers
  BY DEF Holders
<1>2. IsFiniteSet(Holders(m)') /\ Cardinality(Holders(m)') \in Nat
  BY <1>1, HoldersFinite
<1>3. Cardinality(Holders(m)') # 0
  BY <1>2, FS_EmptySet
<1> QED  BY <1>2, <1>3, BusAssumption

\* The deliveries of a step are owed after it.
LEMMA RetriesOwedStep ==
    ASSUME TypeOK, TypeOK', Counted, LoopInv, RetriesOwed, [Next]_vars
    PROVE  RetriesOwed'
<1>1. SUFFICES ASSUME NEW m \in pending'
               PROVE  deliveries'[m] <= MaxRetries - 1 + Cardinality(Holders(m)')
  BY DEF RetriesOwed
<1>2. m \in Messages /\ m \in 1..delivered'
  <2>1. m \in 1..delivered' /\ delivered' \in 0..Len(stream') /\ Len(stream') <= MaxMessages
    BY DEF TypeOK
  <2>2. Len(stream') \in Nat
    BY DEF TypeOK
  <2> QED  BY <2>1, <2>2, BusAssumption DEF Messages
<1>3. CASE m \in pending /\ deliveries'[m] = deliveries[m] /\ UNCHANGED <<pc, bad, batch>>
  <2>1. Holders(m)' = Holders(m)
    BY <1>3 DEF Holders
  <2> QED  BY <1>3, <2>1, OwedAsBefore
<1>4. ASSUME NEW c \in Consumers, ClaimStale(c)
      PROVE  deliveries'[m] <= MaxRetries - 1 + Cardinality(Holders(m)')
  <2>1. PICK taken \in SUBSET idle : Receive(c, taken, "read")
    BY <1>4 DEF ClaimStale
  <2>2. UNCHANGED <<pending, stream>> /\ pc[c] = "claim" /\ bad[c] = {} /\ batch[c] = {}
    BY <1>4 DEF ClaimStale, LoopInv, ConsumerInv
  <2>3. /\ bad'[c] \cup batch'[c] = taken
        /\ pc'[c] # "down"
    BY <2>1, <2>2, ReceiveSorts
  <2>4. \A d \in Consumers : d # c => /\ pc'[d] = pc[d] /\ bad'[d] = bad[d]
                                      /\ batch'[d] = batch[d]
    BY <1>4, OthersKeepLocals DEF LoopStep, Locals
  <2>5. c \notin Holders(m) /\ Holders(m) \subseteq Holders(m)'
    BY <2>2, <2>4 DEF Holders
  <2>6. CASE m \in taken
    BY <1>2, <2>1, <2>2, <2>3, <2>5, <2>6, ReceiveCounts, OwedByOneMore DEF Holders
  <2>7. CASE m \notin taken
    BY <1>2, <2>1, <2>2, <2>5, <2>7, ReceiveCounts, OwedAsBefore
  <2> QED  BY <2>6, <2>7
<1>5. ASSUME NEW c \in Consumers, Read(c)
      PROVE  deliveries'[m] <= MaxRetries - 1 + Cardinality(Holders(m)')
  <2>1. PICK taken : /\ Receive(c, taken, Work(batch[c] \cup taken))
                     /\ pending' = pending \cup taken
                     /\ taken \cap 1..delivered = {}
    <3>1. PICK last \in delivered..Len(stream) :
            /\ Receive(c, (delivered + 1)..last, Work(batch[c] \cup ((delivered + 1)..last)))
            /\ pending' = pending \cup ((delivered + 1)..last)
      BY <1>5 DEF Read
    <3>2. ((delivered + 1)..last) \cap 1..delivered = {}
      BY DEF TypeOK
    <3> QED  BY <3>1, <3>2
  <2>2. UNCHANGED stream /\ pc[c] = "read" /\ bad[c] = {}
    BY <1>5 DEF Read, LoopInv, ConsumerInv
  <2>3. /\ bad'[c] \cup batch'[c] = batch[c] \cup taken
        /\ pc'[c] # "down"
    BY <2>1, <2>2, ReceiveSorts DEF Work
  <2>4. \A d \in Consumers : d # c => /\ pc'[d] = pc[d] /\ bad'[d] = bad[d]
                                      /\ batch'[d] = batch[d]
    BY <1>5, OthersKeepLocals DEF LoopStep, Locals
  <2>5. Holders(m) \subseteq Holders(m)'
    BY <2>2, <2>3, <2>4 DEF Holders
  <2>6. CASE m \in taken
    <3>1. deliveries[m] = 0
      <4>1. m \notin 1..delivered /\ m \in Nat \ {0} /\ delivered \in Nat
        BY <1>2, <2>1, <2>6 DEF Messages, TypeOK
      <4>2. ~ (deliveries[m] > 0) /\ deliveries[m] \in Nat
        BY <1>2, <4>1 DEF Counted, TypeOK
      <4> QED  BY <4>2
    <3>2. deliveries'[m] = 1
      BY <1>2, <2>1, <2>6, <3>1, ReceiveCounts
    <3>3. c \in Holders(m)'
      BY <2>3, <2>6 DEF Holders
    <3> QED  BY <3>2, <3>3, OwedTheFirstTime
  <2>7. CASE m \notin taken
    BY <1>2, <2>1, <2>5, <2>7, ReceiveCounts, OwedAsBefore
  <2> QED  BY <2>6, <2>7
<1>6. ASSUME NEW c \in Consumers, Forget(c)
      PROVE  deliveries'[m] <= MaxRetries - 1 + Cardinality(Holders(m)')
  <2>1. PICK n : pending' = pending \ {n} /\ bad' = [bad EXCEPT ![c] = @ \ {n}]
    BY <1>6 DEF Forget
  <2>2. m \in pending /\ m # n /\ UNCHANGED <<deliveries, batch>>
    BY <1>6, <2>1 DEF Forget
  <2>3. pc[c] = "forget" /\ \A d \in Consumers : d # c => pc'[d] = pc[d]
    BY <1>6 DEF Forget, Goto, TypeOK
  <2>4. Holders(m) \subseteq Holders(m)'
    BY <2>1, <2>2, <2>3 DEF Holders, TypeOK
  <2> QED  BY <2>2, <2>4, OwedAsBefore
<1>7. ASSUME NEW c \in Consumers, NEW n \in batch[c], Proceed(c, n), pc[c] # "down",
             m # n, m \in pending, UNCHANGED <<deliveries, bad>>
      PROVE  deliveries'[m] <= MaxRetries - 1 + Cardinality(Holders(m)')
  <2>1. \A d \in Consumers : d # c => pc'[d] = pc[d]
    BY <1>7 DEF Proceed, Goto, TypeOK
  <2>2. \A d \in Consumers : m \in batch[d] => m \in batch'[d]
    BY <1>7 DEF Proceed, TypeOK
  <2>3. Holders(m) \subseteq Holders(m)'
    BY <1>7, <2>1, <2>2 DEF Holders
  <2> QED  BY <1>7, <2>3, OwedAsBefore
<1>8. ASSUME NEW c \in Consumers, NEW n \in batch[c], Examine(c, n)
      PROVE  deliveries'[m] <= MaxRetries - 1 + Cardinality(Holders(m)')
  <2>1. m \in pending /\ UNCHANGED <<pending, deliveries, bad>> /\ pc[c] = "examine"
    BY <1>8 DEF Examine, redisVars
  <2>2. CASE Goto(c, "bury") /\ UNCHANGED <<batch, next>>
    <3>1. Holders(m) \subseteq Holders(m)'
      BY <2>1, <2>2 DEF Holders, Goto, TypeOK
    <3> QED  BY <2>1, <3>1, OwedAsBefore
  <2>3. CASE TimesDelivered(n) < MaxRetries /\ Proceed(c, n)
    <3>1. CASE m # n
      BY <1>7, <2>1, <2>3, <3>1
    <3>2. CASE m = n
      <4>1. deliveries'[m] < MaxRetries /\ deliveries'[m] \in Nat
        BY <1>2, <2>1, <2>3, <3>2 DEF TimesDelivered, TypeOK
      <4>2. Cardinality(Holders(m)') \in Nat
        BY HoldersFinite DEF Holders
      <4> QED  BY <4>1, <4>2, BusAssumption
    <3> QED  BY <3>1, <3>2
  <2> QED  BY <1>8, <2>2, <2>3 DEF Examine
<1>9. ASSUME NEW c \in Consumers, NEW n \in batch[c], Ack(c, n)
      PROVE  deliveries'[m] <= MaxRetries - 1 + Cardinality(Holders(m)')
  BY <1>7, <1>9 DEF Ack
<1>10. ASSUME NEW c \in Consumers, \/ Discard(c) \/ Crash(c)
                                   \/ \E n \in batch[c] : \/ HandlerReturns(c, n)
                                                          \/ HandlerRaises(c, n)
                                                          \/ DeadLetter(c, n)
       PROVE  deliveries'[m] <= MaxRetries - 1 + Cardinality(Holders(m)')
  <2>1. m \in pending /\ UNCHANGED deliveries
    BY <1>10 DEF Discard, Crash, HandlerReturns, HandlerRaises, DeadLetter, redisVars
  <2>2. \A d \in Consumers : d # c => /\ pc'[d] = pc[d] /\ bad'[d] = bad[d]
                                      /\ batch'[d] = batch[d]
    BY <1>10, OthersKeepLocals DEF LoopStep, Locals
  <2>3. pc'[c] = "down" \/ (pc[c] # "down" /\ UNCHANGED <<bad, batch>>)
    BY <1>10 DEF Discard, Crash, HandlerReturns, HandlerRaises, DeadLetter, Goto, TypeOK
  <2>4. Holders(m) \subseteq Holders(m)'
    BY <2>2, <2>3 DEF Holders
  <2> QED  BY <2>1, <2>4, OwedAsBefore
<1>11. CASE Publish \/ \E n \in Messages : Age(n)
  BY <1>3, <1>11 DEF Publish, Age, loopVars
<1>12. CASE UNCHANGED vars
  BY <1>3, <1>12 DEF vars, redisVars, loopVars
<1> QED
  BY <1>4, <1>5, <1>6, <1>8, <1>9, <1>10, <1>11, <1>12 DEF Next, LoopStep

\* A bound on the deliveries that are owed is a bound on all: only they grow.
LEMMA RetriesBoundedStep ==
    ASSUME TypeOK, TypeOK', RetriesBounded, RetriesOwed', [Next]_vars
    PROVE  RetriesBounded'
<1>1. SUFFICES ASSUME NEW m \in Messages
               PROVE  deliveries'[m] <= MaxRetries + Cardinality(Consumers) - 1
  BY DEF RetriesBounded
<1>2. CASE deliveries'[m] = deliveries[m]
  BY <1>2 DEF RetriesBounded
<1>3. CASE m \in pending'
  <2>1. deliveries'[m] <= MaxRetries - 1 + Cardinality(Holders(m)')
    BY <1>3 DEF RetriesOwed
  <2>2. Holders(m)' \in SUBSET Consumers
    BY DEF Holders
  <2>3. /\ Cardinality(Holders(m)') <= Cardinality(Consumers)
        /\ Cardinality(Holders(m)') \in Nat /\ Cardinality(Consumers) \in Nat
    BY <2>2, HoldersFinite, ConsumersAssumption, FS_CardinalityType
  <2>4. deliveries'[m] \in Nat
    BY DEF TypeOK
  <2> QED  BY <2>1, <2>3, <2>4, BusAssumption
<1>4. ASSUME NEW c \in Consumers, ClaimStale(c)
      PROVE  deliveries'[m] = deliveries[m] \/ m \in pending'
  <2>1. PICK taken \in SUBSET idle : Receive(c, taken, "read")
    BY <1>4 DEF ClaimStale
  <2>2. taken \subseteq pending'
    BY <1>4 DEF ClaimStale, TypeOK
  <2> QED  BY <2>1, <2>2, ReceiveCounts
<1>5. ASSUME NEW c \in Consumers, Read(c)
      PROVE  deliveries'[m] = deliveries[m] \/ m \in pending'
  <2>1. PICK taken : /\ Receive(c, taken, Work(batch[c] \cup taken))
                     /\ pending' = pending \cup taken
    BY <1>5 DEF Read
  <2> QED  BY <2>1, ReceiveCounts
<1>6. ASSUME NEW c \in Consumers, LoopStep(c), ~ ClaimStale(c), ~ Read(c)
      PROVE  deliveries' = deliveries
  BY <1>6 DEF LoopStep, Discard, Forget, HandlerReturns, HandlerRaises, Examine, DeadLetter,
     Ack, redisVars
<1>7. ASSUME NEW c \in Consumers, Crash(c) PROVE deliveries' = deliveries
  BY <1>7 DEF Crash, redisVars
<1>8. CASE Publish \/ \E n \in Messages : Age(n)
  BY <1>2, <1>8 DEF Publish, Age
<1>9. CASE UNCHANGED vars
  BY <1>2, <1>9 DEF vars, redisVars
<1> QED  BY <1>2, <1>3, <1>4, <1>5, <1>6, <1>7, <1>8, <1>9 DEF Next

-----------------------------------------------------------------------------
(* The theorems *)

\* A new group satisfies the inductive invariant.
LEMMA BusInvInit == Init => BusInv
<1> SUFFICES ASSUME Init PROVE BusInv
  OBVIOUS
<1>1. TypeOK
  BY BusTypeInit
<1>2. Counted
  BY DEF Init, Counted, Messages
<1>3. LoopInv
  BY DEF Init, LoopInv, ConsumerInv
<1>4. NothingLost /\ RetriesOwed
  BY DEF Init, NothingLost, RetriesOwed
<1>5. Cardinality(Consumers) \in Nat /\ Cardinality(Consumers) > 0
  BY ConsumersAssumption, BusAssumption, FS_CardinalityType
<1>6. RetriesBounded
  BY <1>5, BusAssumption DEF Init, RetriesBounded
<1> QED  BY <1>1, <1>2, <1>3, <1>4, <1>6 DEF BusInv

\* Every step keeps it.
LEMMA BusInvStep == BusInv /\ [Next]_vars => BusInv'
<1> SUFFICES ASSUME BusInv, [Next]_vars PROVE BusInv'
  OBVIOUS
<1>1. TypeOK'
  BY BusTypeStep DEF BusInv
<1>2. Counted' /\ LoopInv'
  BY <1>1, CountedStep, LoopInvStep DEF BusInv
<1>3. NothingLost' /\ RetriesOwed'
  BY <1>1, NothingLostStep, RetriesOwedStep DEF BusInv
<1>4. RetriesBounded'
  BY <1>1, <1>3, RetriesBoundedStep DEF BusInv
<1> QED  BY <1>1, <1>2, <1>3, <1>4 DEF BusInv

\* No delivered message leaves the pending list before all was done that can be done about it,
\* whichever consumers share it, die with it or acknowledge it for each other.
THEOREM NoMessageIsLost == Spec => []NothingLost
<1>1. BusInv => NothingLost
  BY DEF BusInv
<1> QED  BY <1>1, BusInvInit, BusInvStep, PTL DEF Spec

\* However its handlers fail, a message is delivered at most MAX_RETRIES times and once more for
\* every other consumer of the group.
THEOREM RetriesAreBounded == Spec => []RetriesBounded
<1>1. BusInv => RetriesBounded
  BY DEF BusInv
<1> QED  BY <1>1, BusInvInit, BusInvStep, PTL DEF Spec

-----------------------------------------------------------------------------
(* The group implements EventDelivery *)

\* A new group is a new delivery.
LEMMA DeliveryInit == Init => Delivery!Init
<1> SUFFICES ASSUME Init PROVE Delivery!Init
  OBVIOUS
<1>1. (1..delivered) \ pending = {}
  BY DEF Init
<1> QED  BY <1>1 DEF Init, Delivery!Init, Messages

\* What has left the group's hands.
Settled == (1..delivered) \ pending

\* Every step of the group is a step of the delivery, or none.
LEMMA DeliveryStep ==
    ASSUME BusInv, BusInv', [Next]_vars
    PROVE  Delivery!Next \/ UNCHANGED <<stream, deliveries, heard, dead, Settled>>
<1>0. /\ 1..delivered \subseteq Messages /\ 1..delivered \subseteq Published
      /\ TypeOK /\ TypeOK' /\ LoopInv /\ Counted /\ delivered \in Nat
  <2>1. TypeOK /\ TypeOK' /\ LoopInv /\ Counted
    BY DEF BusInv
  <2>2. delivered \in Nat
    BY <2>1 DEF TypeOK
  <2> QED  BY <2>1, <2>2, DeliveredMessages
<1> USE DEF Published
<1>1. CASE Publish
  BY <1>1 DEF Publish, Delivery!Next, Delivery!Send
<1>2. CASE \E m \in Messages : Age(m)
  BY <1>2 DEF Age, Settled
<1>3. ASSUME NEW c \in Consumers, ClaimStale(c) PROVE Delivery!Deliver
  <2>1. PICK taken \in SUBSET idle : Receive(c, taken, "read")
    BY <1>3 DEF ClaimStale
  <2>2. UNCHANGED <<stream, heard, dead, delivered, pending>>
    BY <1>3 DEF ClaimStale
  <2>3. taken \in SUBSET (Published \ Settled)
    BY <1>0 DEF Settled, TypeOK
  <2>4. deliveries' = [m \in DOMAIN deliveries |->
                         IF m \in taken THEN deliveries[m] + 1 ELSE deliveries[m]]
    BY <1>0, <2>1 DEF Receive, TypeOK
  <2> QED  BY <2>2, <2>3, <2>4 DEF Delivery!Deliver, Delivery!Published, Settled
<1>4. ASSUME NEW c \in Consumers, Read(c) PROVE Delivery!Deliver
  <2>1. PICK last \in delivered..Len(stream) :
          /\ Receive(c, (delivered + 1)..last, Work(batch[c] \cup ((delivered + 1)..last)))
          /\ pending' = pending \cup ((delivered + 1)..last)
          /\ delivered' = last
    BY <1>4 DEF Read
  <2> DEFINE taken == (delivered + 1)..last
  <2>2. UNCHANGED <<stream, heard, dead>>
    BY <1>4 DEF Read
  <2>3. taken \in SUBSET (Published \ Settled)
    BY <1>0, <2>1 DEF Settled, TypeOK
  <2>4. deliveries' = [m \in DOMAIN deliveries |->
                         IF m \in taken THEN deliveries[m] + 1 ELSE deliveries[m]]
    BY <1>0, <2>1 DEF Receive, TypeOK
  <2>5. Settled' = Settled
    <3>1. last \in Nat /\ delivered <= last
      BY <1>0, <2>1 DEF TypeOK
    <3>2. 1..last = (1..delivered) \cup ((delivered + 1)..last)
      BY <1>0, <3>1
    <3>3. (1..delivered) \cap ((delivered + 1)..last) = {}
      BY <1>0
    <3> QED  BY <2>1, <3>2, <3>3 DEF Settled
  <2> QED  BY <2>2, <2>3, <2>4, <2>5 DEF Delivery!Deliver, Delivery!Published, Settled
<1>5. ASSUME NEW c \in Consumers, Discard(c) PROVE Delivery!Next
  <2>1. PICK m \in bad[c] : dead' = dead \cup {m}
    BY <1>5 DEF Discard
  <2>2. stream[m] = "malformed" /\ m \in Published /\ deliveries[m] > 0
    BY <1>0 DEF LoopInv, ConsumerInv, TypeOK, Counted
  <2>3. UNCHANGED <<stream, deliveries, heard, Settled>>
    BY <1>5 DEF Discard, Settled
  <2>4. Delivery!GiveUp(m)
    BY <2>1, <2>2, <2>3 DEF Delivery!GiveUp, Settled
  <2> QED  BY <2>2, <2>4 DEF Delivery!Next, Delivery!Published
<1>6. ASSUME NEW c \in Consumers, NEW m, m \in 1..delivered, pending' = pending \ {m},
             UNCHANGED <<stream, delivered, deliveries, heard, dead>>, DealtWith(m)
      PROVE  Delivery!Next
  <2>1. Settled' = Settled \cup {m}
    BY <1>6 DEF Settled
  <2>2. deliveries[m] > 0 /\ m \in Published
    BY <1>0, <1>6 DEF Counted
  <2>3. Delivery!Settle(m)
    BY <1>6, <2>1, <2>2 DEF Delivery!Settle, DealtWith, Settled
  <2> QED  BY <2>2, <2>3 DEF Delivery!Next, Delivery!Published
<1>7. ASSUME NEW c \in Consumers, Forget(c) PROVE Delivery!Next
  <2>1. PICK m \in bad[c] : First(bad[c], m) /\ pending' = pending \ {m}
    BY <1>7 DEF Forget
  <2>2. m \in 1..delivered /\ DealtWith(m)
    BY <1>0, <1>7, <2>1 DEF Forget, LoopInv, ConsumerInv, DealtWith, TypeOK
  <2> QED  BY <1>6, <1>7, <2>1, <2>2 DEF Forget
<1>8. ASSUME NEW c \in Consumers, NEW m \in batch[c], Ack(c, m) PROVE Delivery!Next
  <2>1. m \in 1..delivered /\ DealtWith(m)
    BY <1>0, <1>8 DEF Ack, LoopInv, ConsumerInv, DealtWith, TypeOK
  <2> QED  BY <1>6, <1>8, <2>1 DEF Ack
<1>9. ASSUME NEW c \in Consumers, NEW m \in batch[c], HandlerReturns(c, m)
      PROVE  Delivery!Next
  <2>1. m \in Published /\ deliveries[m] > 0 /\ stream[m] = "event"
    BY <1>0, <1>9 DEF HandlerReturns, TypeOK, Counted
  <2>2. /\ heard' = [heard EXCEPT ![m] = @ \cup {next[c]}] /\ next[c] \in 1..Handlers
        /\ 1..(next[c] - 1) \subseteq heard[m]
    BY <1>0, <1>9 DEF HandlerReturns, TypeOK, LoopInv, ConsumerInv
  <2>3. UNCHANGED <<stream, deliveries, dead, Settled>>
    BY <1>9 DEF HandlerReturns, redisVars, Settled
  <2>4. Delivery!Hear(m)
    BY <2>1, <2>2, <2>3 DEF Delivery!Hear, Settled
  <2> QED  BY <2>1, <2>4 DEF Delivery!Next, Delivery!Published
<1>10. ASSUME NEW c \in Consumers, NEW m \in batch[c], DeadLetter(c, m)
       PROVE  Delivery!Next
  <2>1. m \in Published /\ stream[m] = "event" /\ deliveries[m] >= MaxRetries
    BY <1>0, <1>10 DEF DeadLetter, TypeOK, LoopInv, ConsumerInv
  <2>2. UNCHANGED <<stream, deliveries, heard, Settled>> /\ dead' = dead \cup {m}
    BY <1>10 DEF DeadLetter, Settled
  <2>3. Delivery!GiveUp(m)
    BY <2>1, <2>2 DEF Delivery!GiveUp, Settled
  <2> QED  BY <2>1, <2>3 DEF Delivery!Next, Delivery!Published
<1>11. ASSUME NEW c \in Consumers,
              Crash(c) \/ \E m \in batch[c] : HandlerRaises(c, m) \/ Examine(c, m)
       PROVE  UNCHANGED <<stream, deliveries, heard, dead, Settled>>
  BY <1>11 DEF Crash, HandlerRaises, Examine, redisVars, Settled
<1>12. CASE UNCHANGED vars
  BY <1>12 DEF vars, redisVars, Settled
<1> QED
  BY <1>1, <1>2, <1>3, <1>4, <1>5, <1>7, <1>8, <1>9, <1>10, <1>11, <1>12
     DEF Next, LoopStep, Delivery!Next

\* consume_loop delivers as EventDelivery promises: every step of a group is one of the abstract
\* delivery, with the acknowledged messages as the settled ones, or invisible to it.
THEOREM GroupDelivers == Spec => DeliversEvents
<1>1. BusInv /\ BusInv' /\ [Next]_vars => [Delivery!Next]_(Delivery!evars)
  BY DeliveryStep DEF Delivery!evars, Settled
<1> QED
  BY <1>1, DeliveryInit, BusInvInit, BusInvStep, PTL DEF Spec, DeliversEvents, Delivery!Spec
=============================================================================
