------------------------- MODULE ObservationDeckProofs -------------------------
(***************************************************************************)
(* The buffer of a browser ends with the newest events, and a listing has  *)
(* every row once: the proofs, for any number of events, any ring, batch   *)
(* and page, that BufferIsNewest and ListedOnce are invariants.            *)
(*                                                                         *)
(* A replay starts at the beginning of the stream while the buffer still   *)
(* holds what an earlier connection left in it, so the buffer is not a     *)
(* window of the stream in between.  What it always is, is a window        *)
(* followed by a beginning of the stream, either of which may be empty.    *)
(*                                                                         *)
(* A listing has every row once: its pages descend, and a row it owes lies *)
(* past its cursor.                                                        *)
(***************************************************************************)
EXTENDS ObservationDeck, TLAPS

\* The buffer o holds stream[i..j], and then stream[1..k].
Holds(o, s, i, j, k) ==
    /\ Len(o) = (j - i + 1) + k
    /\ \A m \in 1..Len(o) :
         o[m] = IF m <= j - i + 1 THEN s[i + m - 1] ELSE s[m - (j - i + 1)]

\* Both come from the stream; nothing was pushed out of a ring that is not full; and between
\* the beginning and the window there is a gap as long as a replay goes on.
Turned(o, s, i, j, k) ==
    /\ i \in 1..Len(s) + 1 /\ j \in 0..Len(s) /\ k \in 0..Len(s) /\ i <= j + 1
    /\ Holds(o, s, i, j, k)
    /\ Len(o) <= Ring /\ (i > 1 => Len(o) = Ring)
    /\ k > 0 => i <= j /\ k + 1 < i

\* A connection that has sent p events is in the part that ends with the last of them.
Reached(p, i, j, k) == IF k > 0 THEN p <= k ELSE p = 0 \/ p \in i..j

\* What the connection has sent over its socket.
Sent == pos - Len(batch)
Sending == server # "off" /\ transport = "ws"

\* The types of what the buffer depends on.
WireOK ==
    /\ rows \subseteq Actions
    /\ stream \in Seq(Actions) /\ batch \in Seq(Actions) /\ order \in Seq(Actions)
    /\ pos \in 0..Len(stream)
    /\ server \in {"off", "read", "send", "check"}

\* No event is published twice, and a batch is the next piece of the stream.
StreamInv ==
    /\ IsInjective(stream)
    /\ Sent \in 0..pos /\ batch = SubSeq(stream, Sent + 1, pos)
    /\ server = "send" <=> batch # <<>>
    /\ server # "off" <=> connection = "open"

BufferInv ==
    \E i, j, k \in Int : Turned(order, stream, i, j, k) /\ (Sending => Reached(Sent, i, j, k))

IInv == WireOK /\ StreamInv /\ BufferInv

-----------------------------------------------------------------------------
(* Taking one event in *)

\* A sequence that a new element pushed the oldest out of.
LEMMA Pushed ==
    ASSUME NEW o \in Seq(Actions), NEW e \in Actions
    PROVE  /\ Append(o, e) \in Seq(Actions) /\ Len(Append(o, e)) = Len(o) + 1
           /\ \A m \in 1..Len(o) + 1 : Append(o, e)[m] = IF m <= Len(o) THEN o[m] ELSE e
           /\ Tail(Append(o, e)) \in Seq(Actions) /\ Len(Tail(Append(o, e))) = Len(o)
           /\ \A m \in 1..Len(o) :
                Tail(Append(o, e))[m] = IF m < Len(o) THEN o[m + 1] ELSE e
<1>1. /\ Append(o, e) \in Seq(Actions) /\ Len(Append(o, e)) = Len(o) + 1 /\ Append(o, e) # <<>>
      /\ \A m \in 1..Len(o) + 1 : Append(o, e)[m] = IF m <= Len(o) THEN o[m] ELSE e
  BY SMT
<1> DEFINE t == Append(o, e)
<1>2. t \in Seq(Actions) /\ t # <<>> /\ Len(t) = Len(o) + 1
      /\ \A m \in 1..Len(o) + 1 : t[m] = IF m <= Len(o) THEN o[m] ELSE e
  BY <1>1
<1> HIDE DEF t
<1>3. Tail(t) \in Seq(Actions) /\ Len(Tail(t)) = Len(o)
  BY <1>2, SMT
<1>4. \A m \in 1..Len(o) : Tail(t)[m] = t[m + 1]
  BY <1>2, SMT
<1>5. \A m \in 1..Len(o) : Tail(t)[m] = IF m < Len(o) THEN o[m + 1] ELSE e
  BY <1>2, <1>4, SMT
<1> QED BY <1>1, <1>3, <1>5 DEF t

\* The next event of a replay: the window with the beginning stays one, and has the event.
LEMMA IngestTurns ==
    ASSUME NEW s \in Seq(Actions), IsInjective(s), NEW o \in Seq(Actions), Ring \in Nat \ {0},
           NEW i \in Int, NEW j \in Int, NEW k \in Int, Turned(o, s, i, j, k),
           NEW p \in 0..Len(s) - 1, Reached(p, i, j, k)
    PROVE  \E i1, j1, k1 \in Int :
              Turned(Ingest(o, s[p + 1]), s, i1, j1, k1) /\ Reached(p + 1, i1, j1, k1)
<1> DEFINE e == s[p + 1]
           w == j - i + 1
           Result == \E i1, j1, k1 \in Int :
                        Turned(Ingest(o, e), s, i1, j1, k1) /\ Reached(p + 1, i1, j1, k1)
<1>0. /\ e \in Actions /\ w \in Nat /\ Len(s) \in Nat /\ Len(o) \in Nat
      /\ i \in 1..Len(s) + 1 /\ j \in 0..Len(s) /\ k \in 0..Len(s) /\ w = j - i + 1
      /\ Len(o) = w + k /\ Len(o) <= Ring /\ (i > 1 => Len(o) = Ring)
      /\ (k > 0 => i <= j /\ k + 1 < i)
      /\ \A m \in 1..Len(o) : o[m] = IF m <= w THEN s[i + m - 1] ELSE s[m - w]
      /\ IF k > 0 THEN p <= k ELSE p = 0 \/ p \in i..j
  BY SMT DEF Turned, Holds, Reached
<1>1. \A x, y \in 1..Len(s) : s[x] = s[y] => x = y
  BY SMT DEF IsInjective
<1>5. \A x \in Actions :
         /\ Len(Append(o, x)) = Len(o) + 1 /\ Len(Tail(Append(o, x))) = Len(o)
         /\ \A m \in 1..Len(o) :
              Tail(Append(o, x))[m] = IF m < Len(o) THEN o[m + 1] ELSE x
  <2> TAKE x \in Actions
  <2> QED BY Pushed
<1> SUFFICES Result
  OBVIOUS
\* The event is known.
<1>2. CASE Contains(o, e)
  <2>1. Ingest(o, e) = o
    BY <1>2 DEF Ingest
  <2>2. PICK m \in 1..Len(o) : o[m] = e
    BY <1>2 DEF Contains
  <2>3. IF m <= w THEN p + 1 = i + m - 1 ELSE p + 1 = m - w
    BY <1>0, <1>1, <2>2, SMT
  <2>4. Reached(p + 1, i, j, k)
    BY <1>0, <2>3, SMT DEF Reached
  <2> QED BY <2>1, <2>4
\* It is new, and the ring is not full: the window is a beginning of the stream itself.
<1>3. CASE ~Contains(o, e) /\ Len(o) < Ring
  <2>1. Ingest(o, e) = Append(o, e)
    BY <1>0, <1>3, Pushed, SMT DEF Ingest
  <2>2. i = 1 /\ k = 0 /\ w = j /\ Len(o) = j
    BY <1>0, <1>3, SMT
  <2>3. p = j
    <3>1. CASE p < j
      <4>1. o[p + 1] = e /\ p + 1 \in 1..Len(o)
        BY <1>0, <2>2, <3>1, SMT
      <4> QED BY <1>3, <4>1 DEF Contains
    <3> QED BY <1>0, <2>2, <3>1, SMT
  <2>4. Turned(Append(o, e), s, 1, j + 1, 0)
    <3>1. \A m \in 1..j + 1 : Append(o, e)[m] = s[m]
      BY <1>0, <2>2, <2>3, Pushed, SMT
    <3>2. Len(Append(o, e)) = j + 1
      BY <1>0, <2>2, Pushed, SMT
    <3> QED BY <1>0, <1>3, <2>2, <2>3, <3>1, <3>2, SMT DEF Turned, Holds
  <2>5. Reached(p + 1, 1, j + 1, 0)
    BY <1>0, <2>3, SMT DEF Reached
  <2> QED BY <1>0, <2>1, <2>4, <2>5, SMT
\* It is new, and pushes the oldest event out.
<1>4. CASE ~Contains(o, e) /\ Len(o) = Ring
  <2> DEFINE o1 == Tail(Append(o, e))
  <2>0. /\ Len(Append(o, e)) = Len(o) + 1 /\ Len(o1) = Len(o)
        /\ \A m \in 1..Len(o) : o1[m] = IF m < Len(o) THEN o[m + 1] ELSE e
    BY <1>0, <1>5
  <2>1. Ingest(o, e) = o1
    <3>1. Len(Append(o, e)) > Ring
      BY <1>0, <1>4, <2>0, SMT
    <3> QED BY <1>4, <3>1, Zenon DEF Ingest
  <2>2. Len(o1) = Len(o) /\ \A m \in 1..Len(o) : o1[m] = IF m < Len(o) THEN o[m + 1] ELSE e
    BY <2>0
  <2> HIDE DEF o1
  \* The event follows the window, of which nothing of a beginning is in the buffer.
  <2>3. CASE k = 0 /\ p = j /\ p >= i
    <3>1. Turned(o1, s, i + 1, j + 1, 0)
      <4>1. Holds(o1, s, i + 1, j + 1, 0)
        <5>1. ASSUME NEW m \in 1..Len(o)
              PROVE  o1[m] = IF m <= w THEN s[i + m] ELSE s[m - (w)]
          <6>1. CASE m = Len(o)
            BY <1>0, <2>2, <2>3, <6>1, SMT
          <6>2. CASE m < Len(o)
            <7>1. o1[m] = o[m + 1] /\ m + 1 \in 1..Len(o)
              <8>1. Len(o) \in Nat
                BY <1>0
              <8>2. m + 1 \in 1..Len(o)
                BY <6>2, <8>1, SMT
              <8> QED BY <2>2, <6>2, <8>2
            <7>2. w = Len(o) /\ m + 1 <= w /\ i + (m + 1) - 1 = i + m
              BY <1>0, <2>3, <6>2, SMT
            <7>3. o[m + 1] = s[i + (m + 1) - 1]
              BY <1>0, <7>1, <7>2
            <7> QED BY <1>0, <6>2, <7>1, <7>2, <7>3, SMT
          <6> QED BY <1>0, <6>1, <6>2, SMT
        <5>2. w = Len(o) /\ (j + 1) - (i + 1) + 1 = w /\ Len(o1) = w + 0
          BY <1>0, <2>2, <2>3, SMT
        <5>3. ASSUME NEW m \in 1..Len(o1)
              PROVE  o1[m] = IF m <= w THEN s[(i + 1) + m - 1] ELSE s[m - w]
          <6>1. m \in 1..Len(o) /\ (i + 1) + m - 1 = i + m
            BY <1>0, <2>2, SMT
          <6> QED BY <5>1, <6>1
        <5> QED BY <5>2, <5>3 DEF Holds
      <4> QED BY <1>0, <1>4, <2>2, <2>3, <4>1, SMT DEF Turned
    <3>2. Reached(p + 1, i + 1, j + 1, 0)
      BY <1>0, <2>3, SMT DEF Reached
    <3> QED BY <1>0, <2>1, <3>1, <3>2, SMT
  \* A replay begins, or goes on, and something of the window is left.
  <2>4. CASE p = k /\ i < j
    <3>1. i > 1
      <4>1. CASE i = 1
        <5>1. k = 0 /\ o[1] = e /\ 1 \in 1..Len(o)
          BY <1>0, <1>4, <2>4, <4>1, SMT
        <5> QED BY <1>4, <5>1 DEF Contains
      <4> QED BY <1>0, <4>1, SMT
    <3>2. k + 2 < i + 1
      BY <1>0, <2>4, <3>1, SMT
    <3>3. Turned(o1, s, i + 1, j, k + 1)
      <4>1. Holds(o1, s, i + 1, j, k + 1)
        <5>1. ASSUME NEW m \in 1..Len(o)
              PROVE  o1[m] = IF m <= w - 1 THEN s[i + m] ELSE s[m - (w - 1)]
          <6>1. CASE m = Len(o)
            <7>1. o1[m] = e
              BY <2>2, <6>1
            <7>2. m - (w - 1) = p + 1 /\ ~(m <= w - 1)
              BY <1>0, <2>4, <6>1, SMT
            <7> QED BY <7>1, <7>2
          <6>2. CASE m < Len(o)
            <7>1. o1[m] = o[m + 1] /\ m + 1 \in 1..Len(o)
              <8>1. Len(o) \in Nat
                BY <1>0
              <8>2. m + 1 \in 1..Len(o)
                BY <6>2, <8>1, SMT
              <8> QED BY <2>2, <6>2, <8>2
            <7>2. m - (w - 1) = m + 1 - w /\ i + (m + 1) - 1 = i + m
              BY <1>0, SMT
            <7>3. CASE m <= w - 1
              BY <1>0, <7>1, <7>2, <7>3, SMT
            <7>4. CASE ~(m <= w - 1)
              BY <1>0, <7>1, <7>2, <7>4, SMT
            <7> QED BY <7>3, <7>4
          <6> QED BY <1>0, <6>1, <6>2, SMT
        <5>2. j - (i + 1) + 1 = w - 1 /\ Len(o1) = (w - 1) + (k + 1)
          <6>1. i \in Int /\ j \in Int /\ k \in Int /\ w = j - i + 1 /\ Len(o1) = w + k
            BY <1>0, <2>2
          <6> QED BY <6>1, SMT
        <5>3. \A m \in 1..Len(o) : i + 1 + m - 1 = i + m
          BY SMT
        <5> QED BY <2>2, <5>1, <5>2, <5>3 DEF Holds
      <4> QED BY <1>0, <1>4, <2>2, <2>4, <3>1, <3>2, <4>1, SMT DEF Turned
    <3>4. Reached(p + 1, i + 1, j, k + 1)
      BY <1>0, <2>4, SMT DEF Reached
    <3> QED BY <1>0, <2>1, <3>3, <3>4, SMT
  \* The last event of the window is pushed out: the beginning is all there is.
  <2>5. CASE p = k /\ i = j
    <3>1. Turned(o1, s, 1, k + 1, 0)
      <4>1. Holds(o1, s, 1, k + 1, 0)
        BY <1>0, <2>2, <2>5, SMT DEF Holds
      <4> QED BY <1>0, <1>4, <2>2, <2>5, <4>1, SMT DEF Turned
    <3>2. Reached(p + 1, 1, k + 1, 0)
      BY <1>0, <2>5, SMT DEF Reached
    <3> QED BY <1>0, <2>1, <3>1, <3>2, SMT
  \* There is no other case.
  <2>6. i <= j
    BY <1>0, <1>4, SMT
  <2>7. CASE k > 0 /\ p < k
    <3>1. o[w + p + 1] = e /\ w + p + 1 \in 1..Len(o)
      BY <1>0, <2>7, SMT
    <3> QED BY <1>4, <3>1 DEF Contains
  <2>8. CASE k = 0 /\ p \in i..j - 1
    <3>1. o[p + 1 - i + 1] = e /\ p + 1 - i + 1 \in 1..Len(o)
      BY <1>0, <2>8, SMT
    <3> QED BY <1>4, <3>1 DEF Contains
  <2> QED BY <1>0, <2>3, <2>4, <2>5, <2>6, <2>7, <2>8, SMT
<1> QED BY <1>0, <1>2, <1>3, <1>4, SMT

\* What was published does not change when more is.
LEMMA StreamGrows ==
    ASSUME NEW s \in Seq(Actions), NEW a \in Actions, NEW o \in Seq(Actions),
           NEW i \in Int, NEW j \in Int, NEW k \in Int, Turned(o, s, i, j, k)
    PROVE  Turned(o, Append(s, a), i, j, k)
<1> DEFINE t == Append(s, a)
<1>1. Len(t) = Len(s) + 1 /\ \A m \in 1..Len(s) : t[m] = s[m]
  BY SMT
<1> HIDE DEF t
<1>2. Holds(o, t, i, j, k)
  <2>1. /\ Len(s) \in Nat /\ Len(o) = (j - i + 1) + k /\ Len(o) \in Nat
        /\ i \in 1..Len(s) + 1 /\ j \in 0..Len(s) /\ k \in 0..Len(s)
    BY SMT DEF Turned, Holds
  <2>2. ASSUME NEW m \in 1..Len(o)
        PROVE  o[m] = IF m <= j - i + 1 THEN t[i + m - 1] ELSE t[m - (j - i + 1)]
    <3>1. CASE m <= j - i + 1
      <4>1. i + m - 1 \in 1..Len(s)
        BY <2>1, <3>1, SMT
      <4> QED BY <1>1, <3>1, <4>1 DEF Turned, Holds
    <3>2. CASE ~(m <= j - i + 1)
      <4>1. m - (j - i + 1) \in 1..Len(s)
        BY <2>1, <3>2, SMT
      <4> QED BY <1>1, <3>2, <4>1 DEF Turned, Holds
    <3> QED BY <3>1, <3>2
  <2> QED BY <2>1, <2>2 DEF Holds
<1>3. i \in 1..Len(t) + 1 /\ j \in 0..Len(t) /\ k \in 0..Len(t)
  BY <1>1, SMT DEF Turned
<1> QED BY <1>2, <1>3 DEF Turned, t

\* A piece of the stream, and what is left of it when its head is gone.
LEMMA Pieces ==
    ASSUME NEW s \in Seq(Actions), NEW m \in 0..Len(s), NEW n \in m..Len(s)
    PROVE  /\ SubSeq(s, m + 1, n) \in Seq(Actions) /\ Len(SubSeq(s, m + 1, n)) = n - m
           /\ n > m => /\ Head(SubSeq(s, m + 1, n)) = s[m + 1]
                       /\ Tail(SubSeq(s, m + 1, n)) = SubSeq(s, m + 2, n)
           /\ \A a \in Actions : SubSeq(Append(s, a), m + 1, n) = SubSeq(s, m + 1, n)
<1>1. m \in Nat /\ n \in Nat /\ Len(s) \in Nat /\ m <= n /\ n <= Len(s)
  BY SMT
<1> DEFINE b == SubSeq(s, m + 1, n)
<1>2. b \in Seq(Actions) /\ Len(b) = n - m /\ \A x \in 1..n - m : b[x] = s[m + x]
  BY <1>1, SMT
<1>3. ASSUME n > m
      PROVE  Head(b) = s[m + 1] /\ Tail(b) = SubSeq(s, m + 2, n)
  <2>1. Head(b) = s[m + 1]
    BY <1>1, <1>2, <1>3, SMT
  <2> DEFINE c == SubSeq(s, m + 2, n)
  <2>2. c \in Seq(Actions) /\ Len(c) = n - m - 1 /\ \A x \in 1..n - m - 1 : c[x] = s[m + 1 + x]
    BY <1>1, <1>3, SMT
  <2>3. /\ Tail(b) \in Seq(Actions) /\ Len(Tail(b)) = n - m - 1
        /\ \A x \in 1..n - m - 1 : Tail(b)[x] = s[m + 1 + x]
    <3> HIDE DEF b
    <3>1. b # <<>> /\ \A x \in 1..n - m - 1 : x + 1 \in 1..n - m /\ m + (x + 1) = m + 1 + x
      BY <1>1, <1>2, <1>3, SMT
    <3>2. Tail(b) \in Seq(Actions) /\ Len(Tail(b)) = n - m - 1
          /\ \A x \in 1..n - m - 1 : Tail(b)[x] = b[x + 1]
      BY <1>1, <1>2, <1>3, <3>1, SMT
    <3> QED BY <1>2, <3>1, <3>2
  <2>4. Tail(b) = c
    <3> DEFINE d == Tail(b)
    <3>1. /\ d \in Seq(Actions) /\ Len(d) = n - m - 1
          /\ \A x \in 1..n - m - 1 : d[x] = s[m + 1 + x]
      BY <2>3
    <3> HIDE DEF b, c, d
    <3>2. d = c
      BY <2>2, <3>1, SMT
    <3> QED BY <3>2 DEF d
  <2> QED BY <2>1, <2>4
<1>4. ASSUME NEW a \in Actions
      PROVE  SubSeq(Append(s, a), m + 1, n) = b
  <2> DEFINE t == Append(s, a)
             c == SubSeq(t, m + 1, n)
  <2>1. t \in Seq(Actions) /\ Len(t) = Len(s) + 1 /\ \A x \in 1..Len(s) : t[x] = s[x]
    BY SMT
  <2> HIDE DEF t
  <2>2. c \in Seq(Actions) /\ Len(c) = n - m /\ \A x \in 1..n - m : c[x] = t[m + x]
    <3>1. m \in Nat /\ n \in m..Len(t) /\ Len(t) \in Nat
      BY <1>1, <2>1, SMT
    <3> HIDE DEF c
    <3>2. c \in Seq(Actions) /\ Len(c) = n - m
      BY <2>1, <3>1, SMT DEF c
    <3>3. \A x \in 1..n - m : c[x] = t[m + x]
      BY <2>1, <3>1, SMT DEF c
    <3> QED BY <3>2, <3>3
  <2>3. \A x \in 1..n - m : c[x] = s[m + x]
    <3>1. \A x \in 1..n - m : m + x \in 1..Len(s)
      BY <1>1, SMT
    <3> QED BY <2>1, <2>2, <3>1
  <2> HIDE DEF b, c
  <2>4. c = b
    BY <1>2, <2>2, <2>3, SMT
  <2> QED BY <2>4 DEF c, t
<1> QED BY <1>2, <1>3, <1>4

-----------------------------------------------------------------------------
(* The steps *)

\* A step that touches neither the stream nor the loop nor the buffer.
LEMMA ElsewhereKeepsInv ==
    ASSUME IInv, rows' \subseteq Actions, UNCHANGED <<stream, order, server, pos, batch>>,
           connection' = "open" <=> connection = "open", Sending' => Sending
    PROVE  IInv'
<1>1. WireOK' /\ Sent' = Sent
  BY DEF IInv, WireOK, Sent
<1>2. StreamInv'
  BY <1>1 DEF IInv, StreamInv
<1>3. BufferInv'
  <2>1. PICK i, j, k \in Int :
          Turned(order, stream, i, j, k) /\ (Sending => Reached(Sent, i, j, k))
    BY DEF IInv, BufferInv
  <2>2. (Turned(order, stream, i, j, k))'
    BY <2>1 DEF Turned, Holds
  <2>3. Sending' => (Reached(Sent, i, j, k))'
    BY <1>1, <2>1 DEF Reached
  <2> QED BY <2>2, <2>3 DEF BufferInv
<1> QED BY <1>1, <1>2, <1>3 DEF IInv

LEMMA PublishActionKeepsInv == ASSUME IInv, PublishAction PROVE IInv'
<1>1. PICK a \in rows \ ToSet(stream) : stream' = Append(stream, a)
  BY DEF PublishAction
<1>2. UNCHANGED <<rows, order, server, pos, batch, connection, transport>>
  BY DEF PublishAction, forwardVars, clientVars
<1>3. a \in Actions /\ stream \in Seq(Actions) /\ order \in Seq(Actions) /\ pos \in 0..Len(stream)
  BY <1>1 DEF IInv, WireOK
<1>4. stream' \in Seq(Actions) /\ Len(stream') = Len(stream) + 1
  BY <1>1, <1>3, SMT
<1>5. WireOK'
  BY <1>2, <1>3, <1>4, SMT DEF IInv, WireOK
<1>6. IsInjective(stream')
  <2>1. \A x \in 1..Len(stream) : stream[x] # a
    BY <1>1, <1>3, SMT DEF ToSet
  <2>2. \A x, y \in 1..Len(stream) : stream[x] = stream[y] => x = y
    BY <1>3, SMT DEF IInv, StreamInv, IsInjective
  <2>3. \A x \in 1..Len(stream) + 1 : stream'[x] = IF x <= Len(stream) THEN stream[x] ELSE a
    BY <1>1, <1>3, SMT
  <2>4. \A x, y \in 1..Len(stream) + 1 : stream'[x] = stream'[y] => x = y
    BY <1>3, <2>1, <2>2, <2>3, SMT
  <2> QED BY <1>4, <2>4, SMT DEF IsInjective
<1>7. Sent' = Sent /\ Sent \in 0..pos
  BY <1>2 DEF Sent, IInv, StreamInv
<1>8. StreamInv'
  <2>1. Sent \in 0..Len(stream) /\ pos \in Sent..Len(stream)
    BY <1>3, <1>7, SMT
  <2>2. SubSeq(stream', Sent + 1, pos) = SubSeq(stream, Sent + 1, pos)
    BY <1>1, <1>3, <2>1, Pieces
  <2> QED BY <1>2, <1>6, <1>7, <2>2 DEF IInv, StreamInv
<1>9. BufferInv'
  <2>1. PICK i, j, k \in Int :
           Turned(order, stream, i, j, k) /\ (Sending => Reached(Sent, i, j, k))
    BY DEF IInv, BufferInv
  <2>2. Turned(order, stream', i, j, k)
    BY <1>1, <1>3, <2>1, StreamGrows
  <2>3. Sending' = Sending
    BY <1>2 DEF Sending
  <2> QED BY <1>2, <1>7, <2>1, <2>2, <2>3 DEF BufferInv
<1> QED BY <1>5, <1>8, <1>9 DEF IInv

\* An empty buffer is the empty beginning of the stream.
LEMMA EmptyBuffer ==
    ASSUME BoundsAssumption, stream \in Seq(Actions)
    PROVE  Turned(<<>>, stream, 1, 0, 0)
BY SMT DEF Turned, Holds, BoundsAssumption

\* A connection that begins has sent nothing, whatever the buffer is.
LEMMA ConnectKeepsInv == ASSUME IInv, Connect PROVE IInv'
<1>1. connection' = "open" /\ server' = "read" /\ pos' = 0 /\ batch' = <<>>
      /\ UNCHANGED <<rows, stream, order>>
  BY DEF Connect
<1>2. WireOK' /\ Sent' = 0
  <2>1. Len(<<>>) = 0 /\ <<>> \in Seq(Actions)
    BY SMT
  <2>2. 0 \in 0..Len(stream)
    BY SMT DEF IInv, WireOK
  <2>3. Sent' = 0 - Len(<<>>)
    BY <1>1 DEF Sent
  <2>4. Sent' = 0
    <3>1. 0 - 0 = 0
      BY SMT
    <3> QED BY <2>1, <2>3, <3>1, Zenon
  <2> QED BY <1>1, <2>1, <2>2, <2>4 DEF IInv, WireOK
<1>3. StreamInv'
  <2>1. SubSeq(stream, 1, 0) = <<>>
    BY SMT DEF IInv, WireOK
  <2> QED BY <1>1, <1>2, <2>1, SMT DEF IInv, StreamInv
<1>4. BufferInv'
  <2>1. PICK i, j, k \in Int : Turned(order, stream, i, j, k)
    BY DEF IInv, BufferInv
  <2>2. Reached(0, i, j, k)
    BY <2>1, SMT DEF Turned, Reached
  <2> QED BY <1>1, <1>2, <2>1, <2>2 DEF BufferInv
<1> QED BY <1>2, <1>3, <1>4 DEF IInv

\* A forward loop that ends leaves the buffer, or the store clears it.
LEMMA StopKeepsInv ==
    ASSUME BoundsAssumption, IInv, Stop, connection' # "open", UNCHANGED <<rows, stream>>,
           order' \in {order, <<>>}
    PROVE  IInv'
<1>1. server' = "off" /\ batch' = <<>> /\ pos' = pos
  BY DEF Stop
<1>2. WireOK' /\ Sent' = pos
  <2>1. Len(<<>>) = 0 /\ <<>> \in Seq(Actions)
    BY SMT
  <2>2. Sent' = pos - Len(<<>>)
    BY <1>1 DEF Sent
  <2>3. Sent' = pos
    <3>1. pos \in Int
      BY SMT DEF IInv, WireOK
    <3> QED BY <2>1, <2>2, <3>1, SMT
  <2> QED BY <1>1, <2>1, <2>3 DEF IInv, WireOK
<1>3. StreamInv'
  <2>1. SubSeq(stream, pos + 1, pos) = <<>> /\ pos \in 0..pos
    BY SMT DEF IInv, WireOK
  <2> QED BY <1>1, <1>2, <2>1, SMT DEF IInv, StreamInv
<1>4. BufferInv'
  <2>1. PICK i, j, k \in Int : Turned(order', stream, i, j, k)
    <3>1. CASE order' = order
      BY <3>1 DEF IInv, BufferInv
    <3>2. CASE order' = <<>>
      BY <3>2, EmptyBuffer DEF IInv, WireOK
    <3> QED BY <3>1, <3>2
  <2>2. ~Sending'
    BY <1>1 DEF Sending
  <2> QED BY <2>1, <2>2 DEF BufferInv
<1> QED BY <1>2, <1>3, <1>4 DEF IInv

LEMMA ReadKeepsInv == ASSUME BoundsAssumption, IInv, Read PROVE IInv'
<1> DEFINE next == IF pos + Batch < Len(stream) THEN pos + Batch ELSE Len(stream)
<1>1. /\ server = "read" /\ batch' = SubSeq(stream, pos + 1, next) /\ pos' = next
      /\ server' = IF next > pos THEN "send" ELSE "check"
      /\ UNCHANGED <<rows, stream, order, connection, transport>>
  BY DEF Read, clientVars
<1>2. /\ stream \in Seq(Actions) /\ pos \in 0..Len(stream) /\ next \in pos..Len(stream)
      /\ pos \in Nat /\ next \in Nat
  BY SMT DEF IInv, WireOK, BoundsAssumption
<1>3. batch = <<>>
  BY <1>1 DEF IInv, StreamInv
<1>4. Sent = pos
  BY <1>2, <1>3, SMT DEF Sent
<1>5. batch' \in Seq(Actions) /\ Len(batch') = next - pos
  BY <1>1, <1>2, Pieces
<1>6. Sent' = pos
  BY <1>1, <1>2, <1>5, SMT DEF Sent
<1>7. WireOK'
  <2>1. pos' \in 0..Len(stream')
    BY <1>1, <1>2, SMT
  <2> QED BY <1>1, <1>5, <2>1 DEF IInv, WireOK
<1>8. StreamInv'
  <2>1. server' = "send" <=> batch' # <<>>
    <3>1. batch' # <<>> <=> next > pos
      <4>1. Len(batch') > 0 <=> next > pos
        BY <1>2, <1>5, SMT
      <4> QED BY <1>5, <4>1, SMT
    <3> QED BY <1>1, <3>1
  <2>2. Sent' \in 0..pos'
    BY <1>1, <1>2, <1>6, SMT
  <2>3. batch' = SubSeq(stream', Sent' + 1, pos')
    BY <1>1, <1>6
  <2>4. IsInjective(stream)' /\ (server' # "off" <=> connection' = "open")
    BY <1>1 DEF IInv, StreamInv
  <2> QED BY <2>1, <2>2, <2>3, <2>4 DEF StreamInv
<1>9. BufferInv'
  <2>1. Sending' = Sending
    BY <1>1, SMT DEF Sending
  <2> QED BY <1>1, <1>4, <1>6, <2>1 DEF IInv, BufferInv
<1> QED BY <1>7, <1>8, <1>9 DEF IInv

\* The next entry of the batch is the next event of the stream.
LEMMA SendKeepsInv == ASSUME BoundsAssumption, IInv, Send PROVE IInv'
<1>1. /\ server = "send" /\ batch' = Tail(batch)
      /\ order' = IF transport = "ws" THEN Ingest(order, Head(batch)) ELSE order
      /\ server' = IF Tail(batch) = <<>> THEN "check" ELSE "send"
      /\ UNCHANGED <<rows, stream, pos, connection, transport>>
  BY DEF Send
<1>2. /\ stream \in Seq(Actions) /\ pos \in 0..Len(stream) /\ Sent \in 0..pos
      /\ batch \in Seq(Actions) /\ order \in Seq(Actions) /\ batch # <<>>
      /\ batch = SubSeq(stream, Sent + 1, pos)
  BY <1>1 DEF IInv, WireOK, StreamInv
<1>3. Sent \in 0..Len(stream) - 1 /\ pos \in Sent..Len(stream) /\ pos > Sent /\ Sent \in 0..Len(stream)
  BY <1>2, SMT DEF Sent
<1>4. Head(batch) = stream[Sent + 1] /\ Tail(batch) = SubSeq(stream, Sent + 2, pos)
  BY <1>2, <1>3, Pieces
<1>5. Tail(batch) \in Seq(Actions) /\ Len(Tail(batch)) = Len(batch) - 1
  BY <1>2, SMT
<1>6. Sent' = Sent + 1
  <2>1. Len(batch) \in Nat /\ pos \in Int
    BY <1>2, SMT
  <2> HIDE DEF Sent
  <2>2. Sent = pos - Len(batch) /\ Sent' = pos - Len(Tail(batch))
    BY <1>1 DEF Sent
  <2> QED BY <1>5, <2>1, <2>2, SMT
<1>7. PICK i, j, k \in Int : Turned(order, stream, i, j, k) /\ (Sending => Reached(Sent, i, j, k))
  BY DEF IInv, BufferInv
<1>8. Ring \in Nat \ {0} /\ IsInjective(stream)
  BY DEF BoundsAssumption, IInv, StreamInv
<1>9. order' \in Seq(Actions)
  <2>1. stream[Sent + 1] \in Actions
    BY <1>2, <1>3, SMT
  <2>2. Ingest(order, stream[Sent + 1]) \in Seq(Actions)
    BY <1>2, <2>1, Pushed DEF Ingest
  <2> QED BY <1>1, <1>2, <1>4, <2>2
<1>10. WireOK'
  BY <1>1, <1>2, <1>5, <1>9 DEF IInv, WireOK
<1>11. StreamInv'
  <2>1. Sent + 1 \in 0..pos /\ Sent + 1 + 1 = Sent + 2
    BY <1>2, <1>3, SMT
  <2> QED BY <1>1, <1>4, <1>6, <2>1 DEF IInv, StreamInv
<1>12. BufferInv'
  <2>1. Sending' <=> transport = "ws"
    BY <1>1 DEF Sending
  <2>2. CASE transport = "ws"
    <3>1. Sending
      BY <1>1, <2>2 DEF Sending
    <3>2. PICK i1, j1, k1 \in Int :
             /\ Turned(Ingest(order, stream[Sent + 1]), stream, i1, j1, k1)
             /\ Reached(Sent + 1, i1, j1, k1)
      BY <1>2, <1>3, <1>7, <1>8, <3>1, IngestTurns
    <3> QED BY <1>1, <1>4, <1>6, <2>2, <3>2 DEF BufferInv
  <2>3. CASE transport # "ws"
    BY <1>1, <1>7, <2>1, <2>3 DEF BufferInv
  <2> QED BY <2>2, <2>3
<1> QED BY <1>10, <1>11, <1>12 DEF IInv

LEMMA CheckKeepsInv == ASSUME BoundsAssumption, IInv, Check PROVE IInv'
<1>1. server = "check" /\ UNCHANGED <<rows, stream, order, transport>>
  BY DEF Check
<1>2. CASE Stop /\ connection' = IF transport = "ws" THEN "terminal-idle" ELSE "closed"
  BY <1>1, <1>2, StopKeepsInv
<1>3. CASE server' = "read" /\ UNCHANGED <<pos, batch, initialTerminal, owed, connection>>
  <2>1. Sent' = Sent /\ WireOK'
    BY <1>1, <1>3 DEF Sent, IInv, WireOK
  <2>2. StreamInv'
    BY <1>1, <1>3, <2>1 DEF IInv, StreamInv
  <2>3. Sending' = Sending
    BY <1>1, <1>3 DEF Sending
  <2>4. BufferInv'
    BY <1>1, <2>1, <2>3 DEF IInv, BufferInv
  <2> QED BY <2>1, <2>2, <2>4 DEF IInv
<1> QED BY <1>2, <1>3 DEF Check

LEMMA OthersKeepInv ==
    ASSUME IInv,
           CommitAction \/ Terminate \/ HandshakeFails \/ Refuse \/ Reconnect \/ List \/ ListMore
    PROVE  IInv'
<1>1. rows \subseteq Actions /\ (server # "off" <=> connection = "open")
  BY DEF IInv, WireOK, StreamInv
<1>2. CASE CommitAction \/ Terminate \/ List \/ ListMore
  <2>1. UNCHANGED <<stream, order, server, pos, batch, connection, transport>>
    BY <1>2 DEF CommitAction, Terminate, List, ListMore, forwardVars, clientVars
  <2>2. rows' \subseteq Actions
    BY <1>1, <1>2 DEF CommitAction, Terminate, List, ListMore
  <2>3. Sending' = Sending
    BY <2>1 DEF Sending
  <2> QED BY <2>1, <2>2, <2>3, ElsewhereKeepsInv
\* The three that concern a connection that is not open.
<1>3. CASE HandshakeFails \/ Refuse \/ Reconnect
  <2>1. UNCHANGED <<rows, stream, order, server, pos, batch>>
    BY <1>3 DEF HandshakeFails, Refuse, Reconnect, forwardVars
  <2>2. connection # "open" /\ connection' # "open"
    BY <1>3 DEF HandshakeFails, Refuse, Reconnect
  <2>3. ~Sending'
    BY <1>1, <2>1, <2>2 DEF Sending
  <2> QED BY <1>1, <2>1, <2>2, <2>3, ElsewhereKeepsInv
<1> QED BY <1>2, <1>3

LEMMA BreaksKeepInv ==
    ASSUME BoundsAssumption, IInv, Disconnect \/ SwitchAway
    PROVE  IInv'
<1>1. Stop /\ connection' # "open" /\ UNCHANGED <<rows, stream>> /\ order' \in {order, <<>>}
  BY DEF Disconnect, SwitchAway
<1> QED BY <1>1, StopKeepsInv

-----------------------------------------------------------------------------
(* The specification *)

LEMMA InitInv == Init => IInv
<1> SUFFICES ASSUME Init PROVE IInv
  OBVIOUS
<1>1. /\ stream = <<>> /\ batch = <<>> /\ order = <<>> /\ pos = 0 /\ server = "off"
      /\ rows = {} /\ connection = "idle"
  BY DEF Init
<1>2. Len(<<>>) = 0 /\ <<>> \in Seq(Actions) /\ SubSeq(<<>>, 1, 0) = <<>>
  BY SMT
<1>3. Sent = 0
  <2>1. Sent = 0 - Len(<<>>)
    BY <1>1 DEF Sent
  <2>2. 0 - 0 = 0
    BY SMT
  <2> QED BY <1>2, <2>1, <2>2, Zenon
<1>4. WireOK
  BY <1>1, <1>2, SMT DEF WireOK
<1>5. IsInjective(<<>>)
  BY SMT DEF IsInjective
<1>6. StreamInv
  BY <1>1, <1>2, <1>3, <1>5, SMT DEF StreamInv
<1>7. BufferInv
  <2>1. Turned(order, stream, 1, 0, 0)
    BY <1>1, <1>2, EmptyBuffer, BoundsAssumption
  <2>2. ~Sending
    BY <1>1 DEF Sending
  <2> QED BY <2>1, <2>2 DEF BufferInv
<1> QED BY <1>4, <1>6, <1>7 DEF IInv

LEMMA NextInv == IInv /\ [Next]_vars => IInv'
<1> SUFFICES ASSUME IInv, [Next]_vars PROVE IInv'
  OBVIOUS
<1>1. CASE CommitAction \/ Terminate \/ HandshakeFails \/ Refuse \/ Reconnect \/ List \/ ListMore
  BY <1>1, OthersKeepInv
<1>2. CASE PublishAction \/ Connect
  BY <1>2, PublishActionKeepsInv, ConnectKeepsInv
<1>3. CASE Disconnect \/ SwitchAway
  BY <1>3, BoundsAssumption, BreaksKeepInv
<1>4. CASE Forward
  BY <1>4, BoundsAssumption, ReadKeepsInv, SendKeepsInv, CheckKeepsInv DEF Forward
<1>5. CASE UNCHANGED vars
  <2>1. UNCHANGED <<rows, stream, order, server, pos, batch, connection, transport>>
    BY <1>5 DEF vars, forwardVars, clientVars
  <2>2. Sending' = Sending
    BY <2>1 DEF Sending
  <2>3. rows' \subseteq Actions
    BY <2>1 DEF IInv, WireOK
  <2> QED BY <2>1, <2>2, <2>3, ElsewhereKeepsInv
<1> QED BY <1>1, <1>2, <1>3, <1>4, <1>5 DEF Next

LEMMA InvHolds == Spec => []IInv
BY InitInv, NextInv, PTL DEF Spec

\* When a replay has come to the end of the stream, there is no gap left: the window ends with
\* the newest event, and began with the oldest if it does not fill the ring.
LEMMA WholeReplay ==
    ASSUME BoundsAssumption, IInv, connection = "open", transport = "ws", server = "check",
           pos = Len(stream)
    PROVE  order = SubSeq(stream, IF Len(stream) > Ring THEN Len(stream) - Ring + 1 ELSE 1,
                          Len(stream))
<1>1. batch = <<>> /\ Sending
  BY DEF IInv, StreamInv, Sending
<1>2. stream \in Seq(Actions) /\ order \in Seq(Actions) /\ Len(stream) \in Nat /\ Ring \in Nat \ {0}
  BY SMT DEF IInv, WireOK, BoundsAssumption
<1>3. Sent = Len(stream)
  BY <1>1, <1>2, SMT DEF Sent
<1>4. PICK i, j, k \in Int : Turned(order, stream, i, j, k) /\ Reached(Len(stream), i, j, k)
  BY <1>1, <1>3 DEF IInv, BufferInv
<1>5. k = 0 /\ j = Len(stream) /\ i \in 1..Len(stream) + 1
      /\ Len(order) = j - i + 1 /\ Len(order) <= Ring /\ (i > 1 => Len(order) = Ring)
  BY <1>2, <1>4, SMT DEF Turned, Holds, Reached
<1>6. i = IF Len(stream) > Ring THEN Len(stream) - Ring + 1 ELSE 1
  BY <1>2, <1>5, SMT
<1>7. \A m \in 1..Len(order) : order[m] = stream[i + m - 1]
  BY <1>2, <1>4, <1>5, SMT DEF Turned, Holds
<1> DEFINE b == SubSeq(stream, i, Len(stream))
<1>8. /\ b \in Seq(Actions) /\ Len(b) = Len(order)
      /\ \A m \in 1..Len(order) : b[m] = stream[i + m - 1]
  BY <1>2, <1>5, SMT
<1> HIDE DEF b
<1>9. order = b
  BY <1>2, <1>7, <1>8, SMT
<1> QED BY <1>6, <1>9 DEF b

\* Whatever was in the buffer when a connection began, however often one broke, and whatever
\* the ring pushed out meanwhile: once the forward loop has sent the stream over a socket, the
\* buffer holds its newest events in their order, none twice (frontend stores/voyage.ts,
\* api/v1/observation_deck.py).
THEOREM BufferEndsNewest == Spec => []BufferIsNewest
<1>1. IInv => BufferIsNewest
  BY WholeReplay, BoundsAssumption DEF BufferIsNewest
<1> QED BY <1>1, InvHolds, PTL
-----------------------------------------------------------------------------
(* The listing *)

\* The rows the pages have, in the order of the listing: each comes Before those above it,
\* on its page and on the pages loaded earlier.
PagesDescend ==
    \A i, j \in DOMAIN pages : \A k \in DOMAIN pages[i], l \in DOMAIN pages[j] :
        i < j \/ (i = j /\ k < l) => Before(pages[j][l], pages[i][k])

IsListed(a) == \E i \in DOMAIN pages : a \in ToSet(pages[i])

\* Where the next page begins.
Cursor == Last(Last(pages))

\* A row that was there at the beginning is on a page, or past the cursor, while there is one.
Reachable ==
    IF more
    THEN /\ pages # <<>> /\ Len(Last(pages)) = Limit
         /\ \A a \in since : IsListed(a) \/ Before(a, Cursor)
    ELSE pages # <<>> => \A a \in since : IsListed(a)

ListTypes == rows \subseteq Actions /\ since \subseteq rows /\ pages \in Seq(Seq(Actions))

ListInv == ListTypes /\ PagesDescend /\ Reachable

\* The key of a row orders the rows strictly, also those with the same timestamp.
LEMMA RowsAreOrdered ==
    /\ \A a \in Actions : ~Before(a, a)
    /\ \A a, b, c \in Actions : Before(a, b) /\ Before(b, c) => Before(a, c)
<1>1. \A a \in Actions : a \in Nat /\ Stamp[a] \in Nat
  BY ActionsAssumption, StampAssumption, SMT
<1> QED BY <1>1, SMT DEF Before

\* A page past a cursor has some of the rows there, in order; one it leaves out comes after it,
\* and then it is full.
LEMMA PageOfRows ==
    ASSUME rows \subseteq Actions, NEW cursor, NEW page \in Pages(cursor)
    PROVE  /\ page \in Seq(Actions)
           /\ \A k \in DOMAIN page : page[k] \in After(cursor) /\ page[k] \in Actions
           /\ \A i, k \in DOMAIN page : i < k => Before(page[k], page[i])
           /\ \A a \in After(cursor) : \/ a \in ToSet(page)
                                       \/ Len(page) = Limit /\ \A i \in DOMAIN page : Before(a, page[i])
<1>1. PICK n \in 0..Limit : page \in [1..n -> After(cursor)]
  BY DEF Pages, BoundedSeq, SeqOf
<1>2. After(cursor) \subseteq Actions
  BY DEF After
<1>3. page \in Seq(Actions)
  BY <1>1, <1>2, BoundsAssumption, SMT DEF BoundsAssumption
<1>4. \A k \in DOMAIN page : page[k] \in After(cursor)
  BY <1>1
<1> QED BY <1>2, <1>3, <1>4 DEF Pages

LEMMA FirstPageKeepsInv ==
    ASSUME ListInv, List
    PROVE  ListInv'
<1>1. rows \subseteq Actions /\ rows' = rows /\ since' = rows
  BY DEF List, ListInv, ListTypes
<1>2. PICK page \in Pages(0) : pages' = <<page>> /\ more' = HasNext(page)
  BY DEF List
<1>3. /\ page \in Seq(Actions)
      /\ \A i, k \in DOMAIN page : i < k => Before(page[k], page[i])
      /\ \A a \in After(0) : \/ a \in ToSet(page)
                             \/ Len(page) = Limit /\ \A i \in DOMAIN page : Before(a, page[i])
  BY <1>1, PageOfRows
<1>4. /\ <<page>> \in Seq(Seq(Actions)) /\ Len(<<page>>) = 1 /\ <<page>>[1] = page
      /\ DOMAIN <<page>> = {1} /\ <<page>> # <<>>
  BY <1>3, SMT
<1>5. ListTypes'
  BY <1>1, <1>2, <1>4 DEF ListTypes
<1>6. PagesDescend'
  <2>1. ASSUME NEW i \in DOMAIN pages', NEW j \in DOMAIN pages',
               NEW k \in DOMAIN pages'[i], NEW l \in DOMAIN pages'[j],
               i < j \/ (i = j /\ k < l)
        PROVE  Before(pages'[j][l], pages'[i][k])
    <3>1. i = 1 /\ j = 1 /\ pages'[i] = page /\ pages'[j] = page
      BY <1>2, <1>4
    <3>2. k < l
      BY <2>1, <3>1, SMT
    <3> QED BY <1>3, <3>1, <3>2
  <2> QED BY <2>1 DEF PagesDescend, Before
<1>7. \A a \in since' : a \in After(0)
  BY <1>1 DEF After
<1>8. \A a : a \in ToSet(page) => IsListed(a)'
  BY <1>2, <1>4 DEF IsListed
<1>9. Reachable'
  <2>1. CASE Len(page) = Limit
    <3>1. Limit \in DOMAIN page
      BY <1>3, <2>1, BoundsAssumption, SMT DEF BoundsAssumption
    <3>2. Last(pages') = page /\ Cursor' = page[Limit]
      BY <1>2, <1>4, <2>1 DEF Last, Cursor
    <3>3. \A a \in since' : IsListed(a)' \/ Before(a, page[Limit])
      BY <1>3, <1>7, <1>8, <3>1
    <3> QED BY <1>2, <1>4, <2>1, <3>2, <3>3 DEF Reachable, HasNext, Before
  <2>2. CASE Len(page) # Limit
    BY <1>2, <1>3, <1>7, <1>8, <2>2 DEF Reachable, HasNext
  <2> QED BY <2>1, <2>2
<1> QED BY <1>5, <1>6, <1>9 DEF ListInv

\* The next page has only rows that come Before the cursor, the last row that is listed.
LEMMA NextPageKeepsInv ==
    ASSUME ListInv, ListMore
    PROVE  ListInv'
<1>1. /\ rows \subseteq Actions /\ since \subseteq rows /\ pages \in Seq(Seq(Actions)) /\ more
      /\ rows' = rows /\ since' = since
  BY DEF ListMore, ListInv, ListTypes
<1>2. PICK page \in Pages(Cursor) : pages' = Append(pages, page) /\ more' = HasNext(page)
  BY DEF ListMore, Cursor
<1>3. /\ page \in Seq(Actions)
      /\ \A k \in DOMAIN page : page[k] \in After(Cursor) /\ page[k] \in Actions
      /\ \A i, k \in DOMAIN page : i < k => Before(page[k], page[i])
      /\ \A a \in After(Cursor) :
           \/ a \in ToSet(page)
           \/ Len(page) = Limit /\ \A i \in DOMAIN page : Before(a, page[i])
  BY <1>1, PageOfRows
<1> DEFINE n == Len(pages)
<1>4. /\ n \in Nat \ {0} /\ pages' \in Seq(Seq(Actions)) /\ DOMAIN pages = 1..n
      /\ Len(pages') = n + 1 /\ DOMAIN pages' = 1..n + 1 /\ pages' # <<>>
      /\ \A i \in 1..n : pages'[i] = pages[i] /\ pages[i] \in Seq(Actions)
      /\ pages'[n + 1] = page
  <2>1. pages # <<>>
    BY <1>1 DEF ListInv, Reachable
  <2> QED BY <1>1, <1>2, <1>3, <2>1, SMT
<1>5. n \in DOMAIN pages /\ Limit \in DOMAIN pages[n] /\ Len(pages[n]) = Limit
      /\ Cursor = pages[n][Limit]
  <2>1. Len(pages[n]) = Limit /\ Cursor = pages[n][Limit]
    BY <1>1 DEF ListInv, Reachable, Last, Cursor
  <2>2. pages[n] \in Seq(Actions) /\ n \in 1..n
    BY <1>4, SMT
  <2>3. Limit \in DOMAIN pages[n]
    BY <2>1, <2>2, BoundsAssumption, SMT DEF BoundsAssumption
  <2> QED BY <1>4, <2>1, <2>2, <2>3
<1>6. Cursor \in Actions /\ Cursor # 0
  <2>1. Cursor \in Actions
    BY <1>4, <1>5, SMT
  <2> QED BY <2>1, ActionsAssumption
<1>7. \A a \in rows : a \in After(Cursor) <=> Before(a, Cursor)
  BY <1>6 DEF After
<1>8. \A a \in After(Cursor) : Before(a, Cursor)
  BY <1>6 DEF After
<1>9. ListTypes'
  BY <1>1, <1>4 DEF ListTypes
<1>10. PagesDescend'
  <2>1. ASSUME NEW i \in DOMAIN pages', NEW j \in DOMAIN pages',
               NEW k \in DOMAIN pages'[i], NEW l \in DOMAIN pages'[j],
               i < j \/ (i = j /\ k < l)
        PROVE  Before(pages'[j][l], pages'[i][k])
    <3>1. i \in 1..n + 1 /\ j \in 1..n + 1 /\ i <= j
      <4>1. i \in 1..n + 1 /\ j \in 1..n + 1
        BY <1>4
      <4> QED BY <1>4, <2>1, <4>1, SMT
    <3>2. CASE j \in 1..n
      <4>1. i \in 1..n
        BY <1>4, <3>1, <3>2, SMT
      <4>2. pages'[i] = pages[i] /\ pages'[j] = pages[j]
        BY <1>4, <3>2, <4>1
      <4> QED BY <1>4, <2>1, <3>2, <4>1, <4>2 DEF ListInv, PagesDescend
    \* A row of the new page, and one of an earlier page: the cursor is between them.
    <3>3. CASE j = n + 1 /\ i \in 1..n
      <4>1. pages'[j] = page /\ pages'[i] = pages[i] /\ pages[i] \in Seq(Actions)
        BY <1>4, <3>3
      <4>2. page[l] \in Actions /\ Before(page[l], Cursor)
        BY <1>3, <1>8, <4>1
      <4>3. pages[i][k] \in Actions /\ k \in 1..Len(pages[i])
        BY <4>1, SMT
      <4>4. pages[i][k] = Cursor \/ Before(Cursor, pages[i][k])
        <5>1. CASE i = n /\ k = Limit
          BY <1>5, <5>1
        <5>2. CASE i < n \/ (i = n /\ k < Limit)
          BY <1>4, <1>5, <3>3, <4>1, <5>2 DEF ListInv, PagesDescend
        <5>3. (i = n /\ k = Limit) \/ i < n \/ (i = n /\ k < Limit)
          <6>1. CASE i = n
            <7>1. k <= Limit /\ k \in Nat /\ Limit \in Nat
              BY <1>5, <4>3, <6>1, BoundsAssumption, SMT DEF BoundsAssumption
            <7> QED BY <6>1, <7>1, SMT
          <6> QED BY <1>4, <3>3, <6>1, SMT
        <5> QED BY <5>1, <5>2, <5>3
      <4> QED BY <1>6, <4>1, <4>2, <4>3, <4>4, RowsAreOrdered
    <3>4. CASE j = n + 1 /\ i = n + 1
      <4>1. pages'[i] = page /\ pages'[j] = page
        BY <1>4, <3>4
      <4>2. k < l
        BY <1>4, <2>1, <3>4, SMT
      <4> QED BY <1>3, <4>1, <4>2
    <3> QED BY <1>4, <3>1, <3>2, <3>3, <3>4, SMT
  <2> QED BY <2>1 DEF PagesDescend, Before
<1>11. \A a : IsListed(a) \/ a \in ToSet(page) => IsListed(a)'
  <2>1. ASSUME NEW a, NEW i \in DOMAIN pages, a \in ToSet(pages[i])
        PROVE  IsListed(a)'
    <3>1. i \in 1..n /\ i \in 1..n + 1
      BY <1>4, SMT
    <3> QED BY <1>4, <2>1, <3>1 DEF IsListed
  <2>2. ASSUME NEW a, a \in ToSet(page)
        PROVE  IsListed(a)'
    <3>1. n + 1 \in 1..n + 1
      BY <1>4, SMT
    <3> QED BY <1>4, <2>2, <3>1 DEF IsListed
  <2> QED BY <2>1, <2>2 DEF IsListed
<1>12. Reachable'
  <2>1. \A a \in since : IsListed(a) \/ a \in After(Cursor)
    BY <1>1, <1>7 DEF ListInv, Reachable
  <2>2. CASE Len(page) = Limit
    <3>1. Limit \in DOMAIN page
      BY <1>3, <2>2, BoundsAssumption, SMT DEF BoundsAssumption
    <3>2. Last(pages') = page /\ Cursor' = page[Limit]
      BY <1>4, <2>2 DEF Last, Cursor
    <3>3. \A a \in since : IsListed(a)' \/ Before(a, page[Limit])
      BY <1>3, <1>11, <2>1, <3>1
    <3> QED BY <1>1, <1>2, <1>4, <2>2, <3>2, <3>3 DEF Reachable, HasNext, Before
  <2>3. CASE Len(page) # Limit
    BY <1>1, <1>2, <1>3, <1>11, <2>1, <2>3 DEF Reachable, HasNext
  <2> QED BY <2>2, <2>3
<1> QED BY <1>9, <1>10, <1>12 DEF ListInv

LEMMA ListInitInv == Init => ListInv
<1> SUFFICES ASSUME Init PROVE ListInv
  OBVIOUS
<1>1. rows = {} /\ since = {} /\ pages = <<>> /\ ~more
  BY DEF Init
<1>2. <<>> \in Seq(Seq(Actions)) /\ DOMAIN <<>> = {}
  BY SMT
<1> QED BY <1>1, <1>2 DEF ListInv, ListTypes, PagesDescend, Reachable

LEMMA ListNextInv == ListInv /\ [Next]_vars => ListInv'
<1> SUFFICES ASSUME ListInv, [Next]_vars PROVE ListInv'
  OBVIOUS
\* Rows are only added.
<1>1. ASSUME UNCHANGED <<pages, more, since>>, rows \subseteq rows', rows' \subseteq Actions
      PROVE  ListInv'
  <2>1. ListTypes'
    BY <1>1 DEF ListInv, ListTypes
  <2>2. PagesDescend'
    BY <1>1 DEF ListInv, PagesDescend, Before
  <2>3. Reachable'
    BY <1>1 DEF ListInv, Reachable, IsListed, Cursor, Before
  <2> QED BY <2>1, <2>2, <2>3 DEF ListInv
<1>2. rows \subseteq Actions
  BY DEF ListInv, ListTypes
<1>3. CASE CommitAction
  BY <1>1, <1>2, <1>3 DEF CommitAction, listVars
<1>4. CASE PublishAction \/ Terminate \/ Connect \/ HandshakeFails \/ Refuse
  BY <1>1, <1>2, <1>4 DEF PublishAction, Terminate, Connect, HandshakeFails, Refuse, listVars
<1>5. CASE Disconnect \/ SwitchAway \/ Reconnect \/ Forward
  BY <1>1, <1>2, <1>5
     DEF Disconnect, SwitchAway, Reconnect, Forward, Read, Send, Check, listVars
<1>6. CASE UNCHANGED vars
  BY <1>1, <1>2, <1>6 DEF vars, listVars
<1> QED BY <1>3, <1>4, <1>5, <1>6, FirstPageKeepsInv, NextPageKeepsInv DEF Next

\* Two places that hold one row are the same place.
LEMMA NoRowTwice ==
    ASSUME ListTypes, PagesDescend,
           NEW i \in DOMAIN pages, NEW j \in DOMAIN pages,
           NEW k \in DOMAIN pages[i], NEW l \in DOMAIN pages[j], pages[i][k] = pages[j][l]
    PROVE  i = j /\ k = l
<1>1. /\ i \in Nat /\ j \in Nat /\ k \in Nat /\ l \in Nat
      /\ pages[i] \in Seq(Actions) /\ pages[i][k] \in Actions
  <2>1. i \in Nat /\ j \in Nat /\ pages[i] \in Seq(Actions) /\ pages[j] \in Seq(Actions)
    BY SMT DEF ListTypes
  <2> QED BY <2>1, SMT
<1>2. ~Before(pages[i][k], pages[i][k])
  BY <1>1, RowsAreOrdered
<1>3. ~(i < j \/ (i = j /\ k < l)) /\ ~(j < i \/ (j = i /\ l < k))
  BY <1>2 DEF PagesDescend
<1> QED BY <1>1, <1>3, SMT

\* However many rows are inserted while the pages are loaded, before the cursor or behind it,
\* and however many share a timestamp: a listing has no row twice, and when it ends it has
\* every row there was when it began (api/v1/observation_deck.py list_crew_actions, _cursor.py,
\* frontend hooks/useCrewActions.ts).
THEOREM EveryRowListedOnce == Spec => []ListedOnce
<1>1. ListInv => ListedOnce
  <2> SUFFICES ASSUME ListInv PROVE ListedOnce
    OBVIOUS
  <2>1. ListTypes /\ PagesDescend
    BY DEF ListInv
  <2>2. \A i, j \in DOMAIN pages : \A k \in DOMAIN pages[i], l \in DOMAIN pages[j] :
          pages[i][k] = pages[j][l] => i = j /\ k = l
    BY <2>1, NoRowTwice
  <2>3. pages # <<>> /\ ~more => \A a \in since : \E i \in DOMAIN pages : a \in ToSet(pages[i])
    BY DEF ListInv, Reachable, IsListed
  <2> QED BY <2>2, <2>3 DEF ListedOnce
<1> QED BY <1>1, ListInitInv, ListNextInv, PTL DEF Spec
================================================================================
