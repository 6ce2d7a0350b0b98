-------------------------- MODULE DialRouterProofs --------------------------
(***************************************************************************)
(* Proofs about DialRouter, for any callers, routers, providers, chains of *)
(* adapters, limits and sizes of answers.                                  *)
(***************************************************************************)
EXTENDS DialRouter, FiniteSetTheorems, SequenceTheorems, WellFoundedInduction, TLAPS

\* A set of naturals has a least element.
LEMMA LeastNat ==
    ASSUME NEW T \in SUBSET Nat, T # {}
    PROVE  \E x \in T : \A y \in T : x <= y
<1>1. IsWellFoundedOn(OpToRel(<, Nat), Nat)   BY NatLessThanWellFounded
<1> DEFINE R == OpToRel(<, Nat)
<1>2. ASSUME NEW x \in Nat, NEW y \in Nat, x < y PROVE <<x, y>> \in R   BY <1>2 DEF OpToRel
<1> HIDE DEF R
<1>3. \E x \in T : \A y \in T : ~ (<<y, x>> \in R)   BY <1>1, WFMin DEF R
<1>4. PICK x \in T : \A y \in T : ~ (<<y, x>> \in R)   BY <1>3
<1>5. ASSUME NEW y \in T PROVE x <= y
  <2>1. ~ (y < x)  BY <1>2, <1>4
  <2> QED BY <2>1
<1> QED BY <1>5

\* Induction: a set with 0 and the successor of every member holds every natural.
LEMMA NatSet ==
    ASSUME NEW T \in SUBSET Nat, 0 \in T, \A n \in T : n + 1 \in T
    PROVE  T = Nat
<1> SUFFICES ASSUME Nat \ T # {} PROVE FALSE  OBVIOUS
<1>1. PICK x \in Nat \ T : \A y \in Nat \ T : x <= y  BY LeastNat
<1>2. x - 1 \in T  BY <1>1
<1> QED  BY <1>2, <1>1

LEMMA MaxOfRange ==
    ASSUME NEW k \in Nat, NEW x \in SUBSET (1..k), k \in x
    PROVE  Max(x) = k
<1>1. \A y \in x : k >= y  OBVIOUS
<1>2. \A m \in x : (\A y \in x : m >= y) => m = k  OBVIOUS
<1> QED  BY <1>1, <1>2 DEF Max

SumOf(s) == FoldLeft(+, 0, s)

\* What FoldLeft(+, 0, s) unfolds to: the sums over the sets of places, up to the k-th.
SumBody(s, g, x) == IF x = {} THEN 0 ELSE g[x \ {Max(x)}] + s[Max(x)]
Sums(s, k, g) == g = [x \in SUBSET (1..k) |-> SumBody(s, g, x)]

\* The recursive function of the fold exists.
LEMMA SumsExist ==
    ASSUME NEW s \in Seq(Nat)
    PROVE  \E g : Sums(s, Len(s), g)
<1> DEFINE T == {k \in Nat : \E g : Sums(s, k, g)}
<1>1. 0 \in T
  <2> DEFINE g == [x \in SUBSET (1..0) |-> 0]
  <2>1. \A x \in SUBSET (1..0) : x = {}  OBVIOUS
  <2>2. g = [x \in SUBSET (1..0) |-> SumBody(s, g, x)]
    BY <2>1 DEF SumBody
  <2> QED  BY <2>2 DEF Sums
<1>2. ASSUME NEW k \in T PROVE k + 1 \in T
  <2>1. PICK g : Sums(s, k, g)  OBVIOUS
  <2> DEFINE K == k + 1
             h == [x \in SUBSET (1..K) |-> IF K \in x THEN g[x \ {K}] + s[K] ELSE g[x]]
  <2>2. k \in Nat /\ K \in Nat  OBVIOUS
  <2>3. ASSUME NEW x \in SUBSET (1..K) PROVE h[x] = SumBody(s, h, x)
    <3>1. CASE K \in x
      <4>1. Max(x) = K  BY <3>1, <2>2, MaxOfRange
      <4>2. x \ {K} \in SUBSET (1..K) /\ K \notin x \ {K}  OBVIOUS
      <4>3. h[x \ {K}] = g[x \ {K}]  BY <4>2
      <4> QED  BY <3>1, <4>1, <4>3 DEF SumBody
    <3>2. CASE K \notin x
      <4>1. x \in SUBSET (1..k)  BY <3>2, <2>2
      <4>2. h[x] = g[x]  BY <3>2
      <4>3. g[x] = SumBody(s, g, x)  BY <2>1, <4>1 DEF Sums
      <4>4. CASE x = {}  BY <4>4, <4>2, <4>3 DEF SumBody
      <4>5. CASE x # {}
        <5>1. K \notin x \ {Max(x)} /\ x \ {Max(x)} \in SUBSET (1..K)  BY <3>2
        <5>2. h[x \ {Max(x)}] = g[x \ {Max(x)}]  BY <5>1
        <5> QED  BY <4>5, <4>2, <4>3, <5>2 DEF SumBody
      <4> QED  BY <4>4, <4>5
    <3> QED  BY <3>1, <3>2
  <2>4. h = [x \in SUBSET (1..K) |-> SumBody(s, h, x)]
    BY <2>3
  <2> QED  BY <2>4, <2>2 DEF Sums
<1>3. T = Nat
  <2>1. T \in SUBSET Nat  OBVIOUS
  <2> HIDE DEF T
  <2> QED  BY <2>1, <1>1, <1>2, NatSet
<1>4. Len(s) \in T
  <2>1. Len(s) \in Nat  OBVIOUS
  <2> HIDE DEF T
  <2> QED  BY <2>1, <1>3
<1> QED  BY <1>4

\* The sum as the last of the sums of the prefixes.
LEMMA SumUnrolled ==
    ASSUME NEW s \in Seq(Nat)
    PROVE  \E g \in [0..Len(s) -> Nat] :
             /\ g[0] = 0
             /\ \A i \in 1..Len(s) : g[i] = g[i - 1] + s[i]
             /\ SumOf(s) = g[Len(s)]
<1> DEFINE f == CHOOSE g : Sums(s, Len(s), g)
           g == [i \in 0..Len(s) |-> f[1..i]]
<1>1. Sums(s, Len(s), f)  BY SumsExist
<1>2. DOMAIN s = 1..Len(s) /\ Len(s) \in Nat  OBVIOUS
<1>3. SumOf(s) = f[1..Len(s)]
  BY <1>2 DEF SumOf, FoldLeft, MapThenFoldSet, Sums, SumBody
<1> HIDE DEF f
<1>4. g[0] = 0
  <2>1. 1..0 = {} /\ 0 \in 0..Len(s) /\ 1..0 \in SUBSET (1..Len(s)) OBVIOUS
  <2> QED  BY <2>1, <1>1 DEF Sums, SumBody
<1>5. ASSUME NEW i \in 1..Len(s) PROVE g[i] = g[i - 1] + s[i]
  <2>1. i \in Nat /\ 1..i \in SUBSET (1..Len(s)) /\ i \in 1..i  BY <1>2
  <2>2. Max(1..i) = i  BY <2>1, MaxOfRange
  <2>3. (1..i) \ {i} = 1..(i - 1)  OBVIOUS
  <2>4. f[1..i] = f[1..(i - 1)] + s[i]  BY <2>1, <2>2, <2>3, <1>1 DEF Sums, SumBody
  <2> QED  BY <2>4
<1>6. \A i \in 0..Len(s) : g[i] \in Nat
  <2> DEFINE T == {i \in Nat : i <= Len(s) => g[i] \in Nat}
  <2> HIDE DEF g
  <2>1. 0 \in T  BY <1>4
  <2>2. ASSUME NEW n \in T PROVE n + 1 \in T
    <3> SUFFICES ASSUME n + 1 <= Len(s) PROVE g[n + 1] \in Nat  OBVIOUS
    <3>1. g[n + 1] = g[n] + s[n + 1]  BY <1>5
    <3>2. g[n] \in Nat /\ s[n + 1] \in Nat  OBVIOUS
    <3> QED  BY <3>1, <3>2
  <2>3. T = Nat  BY <2>1, <2>2, NatSet
  <2> QED  BY <2>3
<1>7. SumOf(s) = g[Len(s)]  BY <1>3, <1>2
<1>8. g \in [0..Len(s) -> Nat]  BY <1>6
<1> HIDE DEF g
<1> QED  BY <1>4, <1>5, <1>7, <1>8

LEMMA SumAppend ==
    ASSUME NEW s \in Seq(Nat), NEW n \in Nat
    PROVE  SumOf(Append(s, n)) = SumOf(s) + n
<1> DEFINE t == Append(s, n)
<1>1. t \in Seq(Nat) /\ Len(t) = Len(s) + 1 /\ t[Len(s) + 1] = n /\ \A i \in 1..Len(s) : t[i] = s[i]
  OBVIOUS
<1> HIDE DEF t
<1>2. PICK g \in [0..Len(s) -> Nat] :
             /\ g[0] = 0
             /\ \A i \in 1..Len(s) : g[i] = g[i - 1] + s[i]
             /\ SumOf(s) = g[Len(s)]
  BY SumUnrolled
<1>3. PICK h \in [0..Len(t) -> Nat] :
             /\ h[0] = 0
             /\ \A i \in 1..Len(t) : h[i] = h[i - 1] + t[i]
             /\ SumOf(t) = h[Len(t)]
  BY <1>1, SumUnrolled
<1> DEFINE T == {i \in Nat : i <= Len(s) => h[i] = g[i]}
<1>4. 0 \in T  BY <1>2, <1>3
<1>5. ASSUME NEW i \in T PROVE i + 1 \in T
  <2> SUFFICES ASSUME i + 1 <= Len(s) PROVE h[i + 1] = g[i + 1]  OBVIOUS
  <2>1. i + 1 \in 1..Len(s) /\ i + 1 \in 1..Len(t)  BY <1>1
  <2> QED  BY <2>1, <1>1, <1>2, <1>3
<1>6. T = Nat  BY <1>4, <1>5, NatSet
<1>7. h[Len(s)] = g[Len(s)]
  <2>1. Len(s) \in T  BY <1>6
  <2> QED  BY <2>1
<1>8. h[Len(t)] = h[Len(s)] + n
  <2>1. Len(s) \in Nat /\ Len(t) \in 1..Len(t)  BY <1>1
  <2>2. h[Len(t)] = h[Len(t) - 1] + t[Len(t)]  BY <2>1, <1>3
  <2> QED  BY <2>1, <2>2, <1>1
<1> QED  BY <1>2, <1>3, <1>7, <1>8 DEF t

LEMMA SumAssociates ==
    ASSUME NEW a \in Nat, NEW b \in Nat, NEW c \in Nat PROVE (a + b) + c = a + (b + c)
OBVIOUS

LEMMA SumTail ==
    ASSUME NEW s \in Seq(Nat), s # <<>>
    PROVE  SumOf(s) = s[1] + SumOf(Tail(s))
<1> DEFINE t == Tail(s)
<1>1. t \in Seq(Nat) /\ Len(t) = Len(s) - 1 /\ Len(s) >= 1 /\ \A i \in 1..Len(t) : t[i] = s[i + 1]
  OBVIOUS
<1> HIDE DEF t
<1>2. PICK g \in [0..Len(s) -> Nat] :
             /\ g[0] = 0
             /\ \A i \in 1..Len(s) : g[i] = g[i - 1] + s[i]
             /\ SumOf(s) = g[Len(s)]
  BY SumUnrolled
<1>3. PICK h \in [0..Len(t) -> Nat] :
             /\ h[0] = 0
             /\ \A i \in 1..Len(t) : h[i] = h[i - 1] + t[i]
             /\ SumOf(t) = h[Len(t)]
  BY <1>1, SumUnrolled
<1> DEFINE T == {i \in Nat : i <= Len(t) => g[i + 1] = s[1] + h[i]}
<1>4. 0 \in T
  <2>1. g[1] = g[0] + s[1] /\ s[1] \in Nat  BY <1>1, <1>2
  <2> QED  BY <2>1, <1>2, <1>3
<1>5. ASSUME NEW i \in T PROVE i + 1 \in T
  <2> SUFFICES ASSUME i + 1 <= Len(t) PROVE g[i + 2] = s[1] + h[i + 1]  OBVIOUS
  <2>1. i + 1 \in 1..Len(t) /\ i + 2 \in 1..Len(s) /\ i \in Nat  BY <1>1
  <2>6. (i + 2) - 1 = i + 1 /\ (i + 1) - 1 = i /\ (i + 1) + 1 = i + 2  BY <2>1
  <2>2. g[i + 2] = g[i + 1] + s[i + 2]  BY <2>1, <2>6, <1>2
  <2>3. h[i + 1] = h[i] + s[i + 2]  BY <2>1, <2>6, <1>1, <1>3
  <2>4. g[i + 1] = s[1] + h[i]
    <3>1. i <= Len(t)  BY <2>1
    <3> QED  BY <3>1
  <2>5. i \in 0..Len(t) /\ 1 \in 1..Len(s) /\ Len(s) \in Nat  BY <2>1, <1>1
  <2>8. \A j \in 1..Len(s) : s[j] \in Nat  BY ElementOfSeq
  <2>7. h[i] \in Nat /\ s[1] \in Nat /\ s[i + 2] \in Nat  BY <2>1, <2>5, <2>8
  <2>9. (s[1] + h[i]) + s[i + 2] = s[1] + (h[i] + s[i + 2])  BY <2>7, SumAssociates
  <2> QED  BY <2>2, <2>3, <2>4, <2>9
<1>6. T = Nat  BY <1>4, <1>5, NatSet
<1>7. g[Len(t) + 1] = s[1] + h[Len(t)]
  <2>1. Len(t) \in T  BY <1>6
  <2> QED  BY <2>1
<1> QED  BY <1>1, <1>2, <1>3, <1>7 DEF t

LEMMA SumNat ==
    ASSUME NEW s \in Seq(Nat)
    PROVE  SumOf(s) \in Nat
<1>1. PICK g \in [0..Len(s) -> Nat] : SumOf(s) = g[Len(s)]  BY SumUnrolled
<1> QED  BY <1>1

LEMMA NoMore == ASSUME NEW a \in Int, NEW b \in Nat, NEW c \in Int, a + b <= c PROVE a <= c
OBVIOUS

-----------------------------------------------------------------------------
(* The invariant *)

\* What a caller has done so far: where it is in the chain, and what it announced on the way.
Resumed(c) == announced[c] = IF link[c] = 1 THEN None ELSE Provider(c)

PlaceInv(c) ==
    /\ pc[c] # "idle" => link[c] \in DOMAIN Chain(c)
    /\ pc[c] = "announce" => link[c] > 1
    /\ pc[c] = "record" => mode[c] = "route"

SwitchInv(c) ==
    /\ link[c] = 1 => announced[c] = None
    /\ mode[c] = "route" /\ pc[c] \notin {"idle", "answered", "cancelled", "raised"} =>
         announced[c] = None
    /\ mode[c] = "route" /\ pc[c] = "raised" => announced[c] = None \/ Resumed(c)
    /\ mode[c] = "stream" /\ pc[c] = "call" => Resumed(c)
    /\ pc[c] = "answered" => Resumed(c)

ProcessInv(c) == c \in alive => pc[c] = "call" \/ (pc[c] = "cancelled" /\ mode[c] = "route")

CallInv(c) == PlaceInv(c) /\ SwitchInv(c) /\ ProcessInv(c)

\* The completions that passed the limiter's check and are not recorded yet.
Unrecorded(p) ==
    {c \in Callers : pc[c] \in {"call", "record"} /\ mode[c] = "route" /\ Provider(c) = p}

WindowInv(p) ==
    /\ Len(recent[p]) + Cardinality(Unrecorded(p)) <= MaxRequests - 1 + Cardinality(Callers)
    /\ Spent(p) + Cardinality(Unrecorded(p)) * MaxAnswer
         <= MaxTokens - 1 + Cardinality(Callers) * MaxAnswer

IInv == TypeOK /\ (\A c \in Callers : CallInv(c)) /\ (\A p \in Providers : WindowInv(p))

-----------------------------------------------------------------------------
(* Facts the steps share *)

LEMMA SpentIsSum ==
    ASSUME NEW p \in Providers
    PROVE  Spent(p) = SumOf(recent[p]) /\ Spent(p)' = SumOf(recent'[p])
<1>1. Spent(p) = SumOf(recent[p])
  BY Zenon DEF Spent, SumOf
<1>2. (Spent(p) = SumOf(recent[p]))'
  BY <1>1, PTL
<1> QED  BY <1>1, <1>2

LEMMA SizesAreNat == Tokens \subseteq Nat /\ MaxAnswer \in Nat /\ Seq(Tokens) \subseteq Seq(Nat)
<1>1. Tokens \subseteq Nat /\ MaxAnswer \in Nat
  BY LimitsAssumption
<1>2. ASSUME NEW s \in Seq(Tokens) PROVE s \in Seq(Nat)
  <2>1. Len(s) \in Nat /\ s = [i \in 1..Len(s) |-> s[i]] /\ \A i \in 1..Len(s) : s[i] \in Nat
    BY <1>1
  <2> QED  BY <2>1
<1> QED  BY <1>1, <1>2

LEMMA SpentNat ==
    ASSUME TypeOK, NEW p \in Providers
    PROVE  Spent(p) \in Nat
BY SpentIsSum, SizesAreNat, SumNat DEF TypeOK

LEMMA MoreOfThem ==
    ASSUME NEW a \in Nat, NEW b \in Nat, a <= b
    PROVE  a * MaxAnswer <= b * MaxAnswer /\ a * MaxAnswer \in Nat
<1>1. MaxAnswer \in Nat
  BY LimitsAssumption
<1>2. PICK d \in Nat : b = a + d
  <2>1. b - a \in Nat /\ b = a + (b - a)  OBVIOUS
  <2> QED  BY <2>1
<1>3. b * MaxAnswer = a * MaxAnswer + d * MaxAnswer
  BY <1>1, <1>2
<1>4. d * MaxAnswer \in Nat /\ a * MaxAnswer \in Nat
  BY <1>1
<1> QED  BY <1>3, <1>4

LEMMA UnrecordedFinite ==
    ASSUME NEW p \in Providers
    PROVE  /\ Cardinality(Callers) \in Nat
           /\ IsFiniteSet(Unrecorded(p)) /\ Cardinality(Unrecorded(p)) \in Nat
           /\ Cardinality(Unrecorded(p)) <= Cardinality(Callers)
<1>1. Unrecorded(p) \subseteq Callers /\ IsFiniteSet(Callers)
  BY CallersAssumption DEF Unrecorded
<1> QED  BY <1>1, FS_Subset, FS_CardinalityType

LEMMA UnrecordedFiniteNext ==
    ASSUME NEW p \in Providers
    PROVE  /\ IsFiniteSet(Unrecorded(p)') /\ Cardinality(Unrecorded(p)') \in Nat
           /\ Cardinality(Unrecorded(p)') <= Cardinality(Callers)
<1>1. Unrecorded(p)' \subseteq Callers /\ IsFiniteSet(Callers)
  BY CallersAssumption DEF Unrecorded
<1> QED  BY <1>1, FS_Subset, FS_CardinalityType

\* A window does not overshoot further while nothing is recorded in it and no completion more
\* has passed the check.
LEMMA WindowKept ==
    ASSUME IInv, TypeOK', NEW p \in Providers,
           Unrecorded(p)' \subseteq Unrecorded(p),
           Len(recent'[p]) <= Len(recent[p]), Spent(p)' <= Spent(p)
    PROVE  WindowInv(p)'
<1>1. Cardinality(Unrecorded(p)') <= Cardinality(Unrecorded(p))
  BY UnrecordedFinite, FS_Subset
<1>2. Cardinality(Unrecorded(p)') * MaxAnswer <= Cardinality(Unrecorded(p)) * MaxAnswer
  BY <1>1, UnrecordedFinite, UnrecordedFiniteNext, MoreOfThem
<1>3. Len(recent[p]) \in Nat /\ Len(recent'[p]) \in Nat
  BY DEF IInv, TypeOK
<1>4. Spent(p) \in Nat /\ Spent(p)' \in Nat
  <2>1. recent[p] \in Seq(Nat) /\ recent'[p] \in Seq(Nat)
    BY SizesAreNat DEF IInv, TypeOK
  <2> QED  BY <2>1, SpentIsSum, SumNat
<1>5. WindowInv(p)
  BY DEF IInv
<1> DEFINE n == Cardinality(Unrecorded(p))
           m == Cardinality(Unrecorded(p)')
           k == Cardinality(Callers)
<1>6. n \in Nat /\ m \in Nat /\ k \in Nat /\ MaxRequests \in Nat /\ MaxTokens \in Nat
  BY UnrecordedFinite, UnrecordedFiniteNext, LimitsAssumption
<1>7. n * MaxAnswer \in Nat /\ m * MaxAnswer \in Nat /\ k * MaxAnswer \in Nat
  BY <1>6, LimitsAssumption
<1>8. Len(recent'[p]) + m <= MaxRequests - 1 + k
  BY <1>1, <1>3, <1>5, <1>6 DEF WindowInv
<1>9. Spent(p)' + m * MaxAnswer <= MaxTokens - 1 + k * MaxAnswer
  BY <1>2, <1>4, <1>5, <1>6, <1>7 DEF WindowInv
<1> QED  BY <1>8, <1>9 DEF WindowInv

LEMMA WindowsKept ==
    ASSUME IInv, TypeOK', UNCHANGED recent,
           \A p \in Providers : Unrecorded(p)' \subseteq Unrecorded(p)
    PROVE  \A p \in Providers : WindowInv(p)'
<1> SUFFICES ASSUME NEW p \in Providers PROVE WindowInv(p)'
  OBVIOUS
<1>1. Spent(p)' = Spent(p) /\ Spent(p) \in Nat
  BY SpentIsSum, SpentNat DEF IInv
<1>2. Len(recent'[p]) = Len(recent[p]) /\ Len(recent[p]) \in Nat
  BY DEF IInv, TypeOK
<1> QED  BY <1>1, <1>2, WindowKept

\* A step of one caller.
StepOf(c) ==
    /\ chain' = chain
    /\ \A d \in Callers \ {c} :
         /\ pc'[d] = pc[d] /\ mode'[d] = mode[d] /\ link'[d] = link[d]
         /\ announced'[d] = announced[d] /\ (d \in alive' <=> d \in alive)

LEMMA OthersKept ==
    ASSUME IInv, NEW c \in Callers, StepOf(c)
    PROVE  /\ \A d \in Callers \ {c} : CallInv(d)'
           /\ \A p \in Providers : Unrecorded(p)' \subseteq Unrecorded(p) \cup {c}
<1>1. ASSUME NEW d \in Callers \ {c} PROVE CallInv(d)'
  <2>1. CallInv(d)
    BY DEF IInv
  <2> QED
    BY <2>1
    DEF StepOf, CallInv, PlaceInv, SwitchInv, ProcessInv, Resumed, Chain, Provider
<1>2. \A p \in Providers : Unrecorded(p)' \subseteq Unrecorded(p) \cup {c}
  BY DEF StepOf, Unrecorded, Provider, Chain
<1> QED  BY <1>1, <1>2

\* A step of one caller keeps the invariant when it keeps the caller's part, records nothing and
\* is not the check that lets a completion through.
LEMMA CallerKeepsInv ==
    ASSUME IInv, NEW c \in Callers, StepOf(c), UNCHANGED recent, TypeOK', CallInv(c)',
           mode'[c] = "route" /\ pc'[c] \in {"call", "record"} =>
               pc[c] = "call" /\ mode[c] = "route" /\ link'[c] = link[c]
    PROVE  IInv'
<1>1. \A d \in Callers : CallInv(d)'
  BY OthersKept
<1>2. ASSUME NEW p \in Providers PROVE Unrecorded(p)' \subseteq Unrecorded(p)
  <2>1. c \in Unrecorded(p)' => c \in Unrecorded(p)
    BY DEF Unrecorded, StepOf, Provider, Chain
  <2> QED  BY <2>1, OthersKept
<1>3. \A p \in Providers : WindowInv(p)'
  BY <1>2, WindowsKept
<1> QED  BY <1>1, <1>3 DEF IInv

\* A chain is a sequence of providers.
LEMMA ChainType ==
    ASSUME TypeOK, NEW c \in Callers
    PROVE  /\ Chain(c) \in Seq(Providers) /\ Len(Chain(c)) \in Nat
           /\ DOMAIN Chain(c) = 1..Len(Chain(c))
           /\ link[c] \in DOMAIN Chain(c) => Provider(c) \in Providers
<1>1. Chain(c) \in Seq(Providers)
  BY CallersAssumption DEF Chain, TypeOK
<1> QED  BY <1>1 DEF Provider

-----------------------------------------------------------------------------
(* The steps *)

LEMMA DialInit == Init => IInv
<1> SUFFICES ASSUME Init PROVE IInv  OBVIOUS
<1>1. TypeOK
  BY DEF Init, TypeOK, Places, Ended
<1>2. ASSUME NEW c \in Callers PROVE CallInv(c)
  BY DEF Init, CallInv, PlaceInv, SwitchInv, ProcessInv
<1>3. ASSUME NEW p \in Providers PROVE WindowInv(p)
  <2>1. Unrecorded(p) = {}
    BY DEF Init, Unrecorded
  <2>2. recent[p] = <<>> /\ Len(recent[p]) = 0
    BY DEF Init
  <2>3. Cardinality(Unrecorded(p)) = 0 /\ Cardinality(Callers) \in Nat
    BY <2>1, FS_EmptySet, UnrecordedFinite
  <2>4. Spent(p) = 0
    <3>1. <<>> \in Seq(Nat)
      OBVIOUS
    <3>2. PICK g \in [0..Len(<<>>) -> Nat] : g[0] = 0 /\ SumOf(<<>>) = g[Len(<<>>)]
      BY <3>1, SumUnrolled
    <3> QED  BY <3>2, <2>2, SpentIsSum
  <2>5. 0 * MaxAnswer = 0 /\ Cardinality(Callers) * MaxAnswer \in Nat
    BY <2>3, LimitsAssumption
  <2> QED  BY <2>2, <2>3, <2>4, <2>5, LimitsAssumption DEF WindowInv
<1> QED  BY <1>1, <1>2, <1>3 DEF IInv

\* The config and the clients say nothing of the calls and the windows.
LEMMA CallsUntouched ==
    ASSUME IInv, TypeOK', UNCHANGED <<chain, recent, callVars>>
    PROVE  IInv'
<1>1. UNCHANGED <<chain, recent, pc, mode, link, announced, alive>>
  BY DEF callVars
<1>2. ASSUME NEW c \in Callers PROVE CallInv(c)'
  BY <1>1
  DEF IInv, CallInv, PlaceInv, SwitchInv, ProcessInv, Resumed, Provider, Chain
<1>3. \A p \in Providers : Unrecorded(p)' \subseteq Unrecorded(p)
  BY <1>1 DEF Unrecorded, Provider, Chain
<1> QED  BY <1>1, <1>2, <1>3, WindowsKept DEF IInv

LEMMA UpdateConfigKeepsInv == ASSUME IInv, UpdateConfig PROVE IInv'
<1>1. TypeOK'
  BY DEF IInv, TypeOK, UpdateConfig, callVars
<1> QED  BY <1>1, CallsUntouched DEF UpdateConfig

LEMMA CloseKeepsInv == ASSUME IInv, NEW r \in Routers, Close(r) PROVE IInv'
<1>1. TypeOK'
  BY DEF IInv, TypeOK, Close, callVars
<1> QED  BY <1>1, CallsUntouched DEF Close

\* A router that is built had no caller under way: each of them has an adapter in its chain.
LEMMA BuildKeepsInv == ASSUME IInv, NEW r \in Routers, Build(r) PROVE IInv'
<1>1. UNCHANGED <<flagged, recent, pc, mode, link, announced, alive>>
  BY DEF Build, callVars
<1>2. chain' = [chain EXCEPT ![r] = config] /\ config \in Seq(Providers) /\ chain[r] = <<>>
  BY DEF Build
<1>3. TypeOK'
  BY <1>1, <1>2 DEF IInv, TypeOK, Build
<1>4. ASSUME NEW c \in Callers, RouterOf[c] = r PROVE pc[c] = "idle"
  <2>1. PlaceInv(c) /\ Chain(c) = <<>>
    BY <1>2, <1>4 DEF IInv, CallInv, Chain
  <2> QED  BY <2>1 DEF PlaceInv
<1>5. ASSUME NEW c \in Callers PROVE pc[c] = "idle" \/ Chain(c)' = Chain(c)
  BY <1>2, <1>4, CallersAssumption DEF Chain, IInv, TypeOK
<1>6. ASSUME NEW c \in Callers PROVE CallInv(c)'
  <2>1. CallInv(c)
    BY DEF IInv
  <2> QED
    BY <2>1, <1>1, <1>5 DEF CallInv, PlaceInv, SwitchInv, ProcessInv, Resumed, Provider
<1>7. \A p \in Providers : Unrecorded(p)' \subseteq Unrecorded(p)
  BY <1>1, <1>5 DEF Unrecorded, Provider
<1> QED  BY <1>1, <1>3, <1>6, <1>7, WindowsKept DEF IInv

LEMMA DropKeepsInv == ASSUME IInv, NEW r \in Routers, Drop(r) PROVE IInv'
<1>1. UNCHANGED <<config, open, recent, mode, link, announced, alive>>
  BY DEF Drop
<1>2. chain' = [chain EXCEPT ![r] = <<>>]
  BY DEF Drop
<1>3. TypeOK'
  <2>1. pc' \in [Callers -> Places]
    BY DEF Drop, IInv, TypeOK, Places, Ended
  <2>2. chain' \in [Routers -> Seq(Providers)]
    BY <1>2 DEF IInv, TypeOK
  <2>3. flagged' \subseteq Routers \X (Nat \ {0})
    BY DEF Drop, IInv, TypeOK
  <2> QED  BY <2>1, <2>2, <2>3, <1>1 DEF IInv, TypeOK
<1>4. ASSUME NEW c \in Callers, RouterOf[c] = r
      PROVE  pc'[c] = "idle" /\ c \notin alive
  BY <1>4 DEF Drop, CallersOf
<1>5. ASSUME NEW c \in Callers, RouterOf[c] # r
      PROVE  pc'[c] = pc[c] /\ Chain(c)' = Chain(c)
  BY <1>2, <1>5, CallersAssumption DEF Drop, CallersOf, Chain, IInv, TypeOK
<1>6. ASSUME NEW c \in Callers PROVE CallInv(c)'
  <2>1. CallInv(c)
    BY DEF IInv
  <2>2. CASE RouterOf[c] = r
    BY <2>1, <2>2, <1>1, <1>4 DEF CallInv, PlaceInv, SwitchInv, ProcessInv
  <2>3. CASE RouterOf[c] # r
    BY <2>1, <2>3, <1>1, <1>5 DEF CallInv, PlaceInv, SwitchInv, ProcessInv, Resumed, Provider
  <2> QED  BY <2>2, <2>3
<1>7. \A p \in Providers : Unrecorded(p)' \subseteq Unrecorded(p)
  BY <1>1, <1>4, <1>5 DEF Unrecorded, Provider
<1> QED  BY <1>1, <1>3, <1>6, <1>7, WindowsKept DEF IInv

LEMMA ExpireKeepsInv == ASSUME IInv, NEW p \in Providers, Expire(p) PROVE IInv'
<1>1. UNCHANGED <<config, chain, open, flagged, pc, mode, link, announced, alive>>
  BY DEF Expire, routerVars, callVars
<1>2. recent' = [recent EXCEPT ![p] = Tail(@)] /\ recent[p] # <<>>
  BY DEF Expire
<1>3. recent[p] \in Seq(Tokens)
  BY DEF IInv, TypeOK
<1>4. TypeOK'
  BY <1>1, <1>2, <1>3 DEF IInv, TypeOK
<1>5. ASSUME NEW c \in Callers PROVE CallInv(c)'
  BY <1>1 DEF IInv, CallInv, PlaceInv, SwitchInv, ProcessInv, Resumed, Provider, Chain
<1>6. ASSUME NEW q \in Providers PROVE WindowInv(q)'
  <2>1. Unrecorded(q)' \subseteq Unrecorded(q)
    BY <1>1 DEF Unrecorded, Provider, Chain
  <2>2. Len(recent'[q]) <= Len(recent[q])
    BY <1>2, <1>3 DEF IInv, TypeOK
  <2>3. Spent(q)' <= Spent(q)
    <3>1. CASE q = p
      <4>1. recent[p] \in Seq(Nat) /\ recent'[p] = Tail(recent[p])
        BY <1>2, <1>3, SizesAreNat DEF IInv, TypeOK
      <4>2. Tail(recent[p]) \in Seq(Nat) /\ recent[p][1] \in Nat
        BY <4>1, <1>2
      <4>3. SumOf(recent[p]) = recent[p][1] + SumOf(Tail(recent[p]))
        BY <4>1, <1>2, SumTail
      <4>4. SumOf(Tail(recent[p])) \in Nat
        BY <4>2, SumNat
      <4>5. SumOf(recent'[p]) <= SumOf(recent[p])
        BY <4>1, <4>2, <4>3, <4>4
      <4> QED  BY <3>1, <4>5, SpentIsSum
    <3>2. CASE q # p
      BY <3>2, <1>2, SpentIsSum, SpentNat DEF IInv, TypeOK
    <3> QED  BY <3>1, <3>2
  <2> QED  BY <1>4, <2>1, <2>2, <2>3, WindowKept
<1> QED  BY <1>4, <1>5, <1>6 DEF IInv

LEMMA BeginKeepsInv == ASSUME IInv, NEW c \in Callers, Begin(c) PROVE IInv'
<1>1. UNCHANGED <<config, chain, open, flagged, recent, alive>>
  BY DEF Begin, routerVars
<1>2. PICK m \in {"route", "stream"} : mode' = [mode EXCEPT ![c] = m]
  BY DEF Begin
<1>3. /\ pc' = [pc EXCEPT ![c] = "flag"] /\ link' = [link EXCEPT ![c] = 1]
      /\ announced' = [announced EXCEPT ![c] = None]
      /\ c \notin alive /\ Chain(c) # <<>>
  BY DEF Begin, Goto
<1>4. TypeOK'
  BY <1>1, <1>2, <1>3 DEF IInv, TypeOK, Places
<1>5. StepOf(c)
  BY <1>1, <1>2, <1>3 DEF StepOf, IInv, TypeOK
<1>6. pc'[c] = "flag" /\ link'[c] = 1 /\ announced'[c] = None /\ c \notin alive'
  BY <1>1, <1>3 DEF IInv, TypeOK
<1>7. 1 \in DOMAIN Chain(c)'
  <2>1. Chain(c)' = Chain(c) /\ Chain(c) \in Seq(Providers)
    BY <1>1, ChainType DEF Chain, IInv
  <2> QED  BY <2>1, <1>3
<1>8. CallInv(c)'
  BY <1>6, <1>7 DEF CallInv, PlaceInv, SwitchInv, ProcessInv
<1> QED  BY <1>1, <1>4, <1>5, <1>6, <1>8, CallerKeepsInv

\* The caller gives up an adapter: its chain has a next one, or it ends.
LEMMA TryNextFacts ==
    ASSUME IInv, NEW c \in Callers, TryNext(c), pc[c] \in {"flag", "window", "call"}
    PROVE  /\ pc' \in [Callers -> Places] /\ link' \in [Callers -> Nat \ {0}]
           /\ \A d \in Callers \ {c} : pc'[d] = pc[d] /\ link'[d] = link[d]
           /\ link'[c] \in DOMAIN Chain(c)
           /\ \/ pc'[c] = "exhausted" /\ link'[c] = link[c]
              \/ pc'[c] = "flag" /\ link'[c] = link[c] + 1
<1>1. link[c] \in DOMAIN Chain(c) /\ link[c] \in Nat \ {0}
  BY DEF IInv, CallInv, PlaceInv, TypeOK
<1>2. DOMAIN Chain(c) = 1..Len(Chain(c)) /\ Len(Chain(c)) \in Nat
  BY ChainType DEF IInv
<1>3. CASE link[c] = Len(Chain(c))
  BY <1>1, <1>3 DEF TryNext, Goto, IInv, TypeOK, Places, Ended
<1>4. CASE link[c] # Len(Chain(c))
  <2>1. pc' = [pc EXCEPT ![c] = "flag"] /\ link' = [link EXCEPT ![c] = link[c] + 1]
    BY <1>4 DEF TryNext, Goto
  <2>2. link[c] + 1 \in DOMAIN Chain(c) /\ link[c] + 1 \in Nat \ {0}
    BY <1>1, <1>2, <1>4
  <2> QED  BY <2>1, <2>2 DEF IInv, TypeOK, Places
<1> QED  BY <1>3, <1>4

LEMMA GiveUpKeepsInv ==
    ASSUME IInv, NEW c \in Callers, TryNext(c), pc[c] \in {"flag", "window", "call"},
           UNCHANGED <<config, chain, open, recent, mode, announced>>,
           flagged' \subseteq Routers \X (Nat \ {0}),
           alive' = alive \ {c}
    PROVE  IInv'
<1>1. /\ pc' \in [Callers -> Places] /\ link' \in [Callers -> Nat \ {0}]
      /\ \A d \in Callers \ {c} : pc'[d] = pc[d] /\ link'[d] = link[d]
      /\ link'[c] \in DOMAIN Chain(c)
      /\ \/ pc'[c] = "exhausted" /\ link'[c] = link[c]
         \/ pc'[c] = "flag" /\ link'[c] = link[c] + 1
  BY TryNextFacts
<1>2. TypeOK'
  BY <1>1 DEF IInv, TypeOK
<1>3. StepOf(c)
  BY <1>1 DEF StepOf
<1>4. CallInv(c)'
  <2>1. CallInv(c) /\ Chain(c)' = Chain(c) /\ link[c] \in Nat \ {0}
    BY DEF IInv, Chain, TypeOK
  <2>2. PlaceInv(c)'
    BY <2>1, <1>1 DEF PlaceInv
  <2>3. SwitchInv(c)'
    BY <2>1, <1>1 DEF CallInv, SwitchInv, Resumed
  <2> QED  BY <2>2, <2>3 DEF CallInv, ProcessInv
<1> QED  BY <1>1, <1>2, <1>3, <1>4, CallerKeepsInv

LEMMA CheckFlagKeepsInv == ASSUME IInv, NEW c \in Callers, CheckFlag(c) PROVE IInv'
<1>1. pc[c] = "flag" /\ UNCHANGED <<config, chain, open, flagged, recent, mode, announced, alive>>
  BY DEF CheckFlag, routerVars
<1>2. c \notin alive
  BY <1>1 DEF IInv, CallInv, ProcessInv
<1>3. CASE TryNext(c)
  <2>1. alive' = alive \ {c} /\ flagged' \subseteq Routers \X (Nat \ {0})
    BY <1>1, <1>2 DEF IInv, TypeOK
  <2> QED  BY <1>1, <1>3, <2>1, GiveUpKeepsInv
<1>4. CASE Goto(c, "window") /\ UNCHANGED link
  <2>1. pc' = [pc EXCEPT ![c] = "window"] /\ link' = link
    BY <1>4 DEF Goto
  <2>2. TypeOK'
    BY <1>1, <2>1 DEF IInv, TypeOK, Places
  <2>3. StepOf(c) /\ pc'[c] = "window"
    BY <1>1, <2>1 DEF StepOf, IInv, TypeOK
  <2>4. CallInv(c)'
    <3>1. CallInv(c)
      BY DEF IInv
    <3> QED
      BY <3>1, <1>1, <1>2, <2>1, <2>3
      DEF CallInv, PlaceInv, SwitchInv, ProcessInv, Chain
  <2> QED  BY <1>1, <2>2, <2>3, <2>4, CallerKeepsInv
<1> QED  BY <1>3, <1>4 DEF CheckFlag

\* The check lets a call through: what is recorded and what is on its way is within the bound.
LEMMA LetThrough ==
    ASSUME IInv, TypeOK', NEW c \in Callers, StepOf(c), UNCHANGED recent,
           ~ WindowFull(Provider(c)), link'[c] = link[c]
    PROVE  \A p \in Providers : WindowInv(p)'
<1> SUFFICES ASSUME NEW p \in Providers PROVE WindowInv(p)'
  OBVIOUS
<1>1. Spent(p)' = Spent(p) /\ Spent(p) \in Nat
  BY SpentIsSum, SpentNat DEF IInv
<1>2. Len(recent'[p]) = Len(recent[p]) /\ Len(recent[p]) \in Nat
  BY DEF IInv, TypeOK
<1>3. CASE p = Provider(c)
  <2>1. Len(recent[p]) <= MaxRequests - 1 /\ Spent(p) <= MaxTokens - 1
    BY <1>1, <1>2, <1>3, LimitsAssumption DEF WindowFull
  <2> DEFINE m == Cardinality(Unrecorded(p)')
             k == Cardinality(Callers)
  <2>2. m \in Nat /\ k \in Nat /\ m <= k
    BY UnrecordedFinite, UnrecordedFiniteNext
  <2>3. m * MaxAnswer <= k * MaxAnswer /\ m * MaxAnswer \in Nat /\ k * MaxAnswer \in Nat
    BY <2>2, MoreOfThem
  <2>4. Len(recent'[p]) + m <= MaxRequests - 1 + k
    BY <1>2, <2>1, <2>2, LimitsAssumption
  <2>5. Spent(p)' + m * MaxAnswer <= MaxTokens - 1 + k * MaxAnswer
    BY <1>1, <2>1, <2>3, LimitsAssumption
  <2> QED  BY <2>4, <2>5 DEF WindowInv
<1>4. CASE p # Provider(c)
  <2>1. c \notin Unrecorded(p)'
    BY <1>4 DEF Unrecorded, Provider, Chain, StepOf
  <2>2. Unrecorded(p)' \subseteq Unrecorded(p)
    BY <2>1, OthersKept
  <2> QED  BY <1>1, <1>2, <2>2, WindowKept
<1> QED  BY <1>3, <1>4

LEMMA CheckWindowKeepsInv == ASSUME IInv, NEW c \in Callers, CheckWindow(c) PROVE IInv'
<1>1. pc[c] = "window" /\ UNCHANGED <<config, chain, open, flagged, recent, mode, announced>>
  BY DEF CheckWindow, routerVars
<1>2. c \notin alive
  BY <1>1 DEF IInv, CallInv, ProcessInv
<1>3. CASE TryNext(c) /\ UNCHANGED alive
  <2>1. alive' = alive \ {c} /\ flagged' \subseteq Routers \X (Nat \ {0})
    BY <1>1, <1>2, <1>3 DEF IInv, TypeOK
  <2> QED  BY <1>1, <1>3, <2>1, GiveUpKeepsInv
<1>4. CASE /\ ~ WindowFull(Provider(c)) /\ UNCHANGED link
           /\ IF mode[c] = "stream" /\ link[c] > 1
                THEN Goto(c, "announce") /\ UNCHANGED alive
                ELSE StartCall(c)
  <2> DEFINE place == IF mode[c] = "stream" /\ link[c] > 1 THEN "announce" ELSE "call"
  <2>1. pc' = [pc EXCEPT ![c] = place] /\ alive' \subseteq alive \cup {c} /\ alive \subseteq alive'
    BY <1>4 DEF StartCall, Goto
  <2>2. place = "announce" => alive' = alive
    BY <1>4
  <2>3. TypeOK'
    BY <1>1, <1>4, <2>1 DEF IInv, TypeOK, Places
  <2>4. StepOf(c) /\ pc'[c] = place
    BY <1>1, <1>4, <2>1 DEF StepOf, IInv, TypeOK
  <2>5. CallInv(c)'
    <3>1. CallInv(c) /\ link[c] \in Nat \ {0} /\ mode[c] \in {"route", "stream"}
      BY DEF IInv, TypeOK
    <3>2. PlaceInv(c)'
      BY <3>1, <1>1, <1>4, <2>4 DEF CallInv, PlaceInv, Chain
    <3>3. SwitchInv(c)'
      BY <3>1, <1>1, <1>4, <2>4 DEF CallInv, SwitchInv, Resumed
    <3>4. ProcessInv(c)'
      BY <1>2, <2>2, <2>4 DEF ProcessInv
    <3> QED  BY <3>2, <3>3, <3>4 DEF CallInv
  <2>6. \A p \in Providers : WindowInv(p)'
    BY <1>1, <1>4, <2>3, <2>4, LetThrough
  <2> QED  BY <2>3, <2>4, <2>5, <2>6, OthersKept DEF IInv
<1> QED  BY <1>3, <1>4 DEF CheckWindow

\* A step of a caller that keeps its adapter and starts no process.
LEMMA StayingKeepsInv ==
    ASSUME IInv, NEW c \in Callers, NEW place \in Places,
           pc' = [pc EXCEPT ![c] = place],
           UNCHANGED <<config, chain, open, flagged, recent, mode, link, announced>>,
           alive' \subseteq alive, \A d \in Callers \ {c} : d \in alive' <=> d \in alive,
           CallInv(c)',
           place \in {"call", "record"} /\ mode[c] = "route" => pc[c] = "call"
    PROVE  IInv'
<1>1. TypeOK'
  BY DEF IInv, TypeOK
<1>2. StepOf(c) /\ pc'[c] = place
  BY DEF StepOf, IInv, TypeOK
<1> QED  BY <1>1, <1>2, CallerKeepsInv

LEMMA AnswerKeepsInv == ASSUME IInv, NEW c \in Callers, Answer(c) PROVE IInv'
<1> DEFINE place == IF mode[c] = "route" THEN "record" ELSE "answered"
<1>1. /\ pc[c] = "call" /\ pc' = [pc EXCEPT ![c] = place] /\ alive' = alive \ {c}
      /\ UNCHANGED <<config, chain, open, flagged, recent, mode, link, announced>>
  BY DEF Answer, Goto, routerVars
<1>2. place \in Places /\ pc'[c] = place
  BY <1>1 DEF Places, Ended, IInv, TypeOK
<1>3. CallInv(c)'
  <2>1. CallInv(c) /\ mode[c] \in {"route", "stream"}
    BY DEF IInv, TypeOK
  <2> QED
    BY <2>1, <1>1, <1>2 DEF CallInv, PlaceInv, SwitchInv, ProcessInv, Resumed, Provider, Chain
<1> QED  BY <1>1, <1>2, <1>3, StayingKeepsInv

LEMMA FailKeepsInv == ASSUME IInv, NEW c \in Callers, Fail(c) PROVE IInv'
<1>1. /\ pc[c] = "call" /\ TryNext(c) /\ alive' = alive \ {c}
      /\ UNCHANGED <<config, chain, open, recent, mode, announced>>
  BY DEF Fail
<1>2. flagged' \subseteq Routers \X (Nat \ {0})
  BY CallersAssumption DEF Fail, Adapter, IInv, TypeOK
<1> QED  BY <1>1, <1>2, GiveUpKeepsInv

LEMMA RaiseKeepsInv == ASSUME IInv, NEW c \in Callers, Raise(c) PROVE IInv'
<1>1. /\ pc[c] \in {"window", "announce", "call", "record"}
      /\ pc' = [pc EXCEPT ![c] = "raised"] /\ alive' = alive \ {c}
      /\ UNCHANGED <<config, chain, open, flagged, recent, mode, link, announced>>
  BY DEF Raise, Goto, routerVars
<1>2. "raised" \in Places /\ pc'[c] = "raised"
  BY <1>1 DEF Places, Ended, IInv, TypeOK
<1>3. CallInv(c)'
  <2>1. CallInv(c)
    BY DEF IInv
  <2> QED
    BY <2>1, <1>1, <1>2 DEF CallInv, PlaceInv, SwitchInv, ProcessInv, Resumed, Provider, Chain
<1> QED  BY <1>1, <1>2, <1>3, StayingKeepsInv

LEMMA CancelKeepsInv == ASSUME IInv, NEW c \in Callers, Cancel(c) PROVE IInv'
<1>1. /\ pc[c] \notin Ended /\ pc' = [pc EXCEPT ![c] = "cancelled"]
      /\ alive' = IF mode[c] = "stream" THEN alive \ {c} ELSE alive
      /\ UNCHANGED <<config, chain, open, flagged, recent, mode, link, announced>>
  BY DEF Cancel, Goto, routerVars
<1>2. "cancelled" \in Places /\ pc'[c] = "cancelled"
  BY <1>1 DEF Places, Ended, IInv, TypeOK
<1>3. CallInv(c)'
  <2>1. CallInv(c) /\ mode[c] \in {"route", "stream"}
    BY DEF IInv, TypeOK
  <2> QED
    BY <2>1, <1>1, <1>2 DEF CallInv, PlaceInv, SwitchInv, ProcessInv, Chain, Ended
<1> QED  BY <1>1, <1>2, <1>3, StayingKeepsInv

LEMMA ProcessExitsKeepsInv == ASSUME IInv, NEW c \in Callers, ProcessExits(c) PROVE IInv'
<1>1. /\ pc[c] = "cancelled" /\ alive' = alive \ {c}
      /\ UNCHANGED <<config, chain, open, flagged, recent, pc, mode, link, announced>>
  BY DEF ProcessExits, routerVars
<1>2. pc' = [pc EXCEPT ![c] = "cancelled"] /\ "cancelled" \in Places
  BY <1>1 DEF Places, Ended, IInv, TypeOK
<1>3. CallInv(c)'
  <2>1. CallInv(c)
    BY DEF IInv
  <2> QED
    BY <2>1, <1>1 DEF CallInv, PlaceInv, SwitchInv, ProcessInv, Chain
<1> QED  BY <1>1, <1>2, <1>3, StayingKeepsInv

LEMMA AnnounceKeepsInv == ASSUME IInv, NEW c \in Callers, Announce(c) PROVE IInv'
<1>1. PICK place \in {IF mode[c] = "stream" THEN "call" ELSE "answered", "raised"} :
      /\ pc[c] = "announce" /\ announced' = [announced EXCEPT ![c] = Provider(c)]
      /\ pc' = [pc EXCEPT ![c] = place]
      /\ alive' \subseteq alive \cup {c} /\ alive \subseteq alive'
      /\ mode[c] # "stream" \/ place = "raised" => alive' = alive
      /\ UNCHANGED <<config, chain, open, flagged, recent, mode, link>>
  BY DEF Announce, StartCall, Goto, routerVars
<1>2. CallInv(c) /\ mode[c] \in {"route", "stream"} /\ link[c] \in Nat \ {0} /\ link[c] > 1
  BY <1>1 DEF IInv, TypeOK, CallInv, PlaceInv
<1>3. Provider(c) \in Providers
  BY <1>1, <1>2, ChainType DEF IInv, CallInv, PlaceInv
<1>4. TypeOK'
  BY <1>1, <1>3 DEF IInv, TypeOK, Places, Ended
<1>5. StepOf(c) /\ pc'[c] = place /\ announced'[c] = Provider(c)
  BY <1>1 DEF StepOf, IInv, TypeOK
<1>6. CallInv(c)'
  <2>1. PlaceInv(c)'
    BY <1>1, <1>2, <1>5 DEF CallInv, PlaceInv, Chain
  <2>2. SwitchInv(c)'
    BY <1>1, <1>2, <1>5 DEF SwitchInv, Resumed, Provider, Chain
  <2>3. ProcessInv(c)'
    BY <1>1, <1>2, <1>5 DEF CallInv, ProcessInv
  <2> QED  BY <2>1, <2>2, <2>3 DEF CallInv
<1> QED  BY <1>1, <1>4, <1>5, <1>6, CallerKeepsInv

\* Recording an answer adds to the window what the caller was allowed for.
LEMMA RecordKeepsInv == ASSUME IInv, NEW c \in Callers, Record(c) PROVE IInv'
<1> DEFINE p == Provider(c)
<1>1. PICK place \in {IF link[c] = 1 THEN "answered" ELSE "announce", "raised"} :
      /\ pc[c] = "record" /\ pc' = [pc EXCEPT ![c] = place]
      /\ UNCHANGED <<config, chain, open, flagged, mode, link, announced, alive>>
  BY DEF Record, Goto, routerVars
<1>2. PICK n \in Tokens : recent' = [recent EXCEPT ![p] = Append(@, n)]
  BY DEF Record, RecordUsage
<1>3. CallInv(c) /\ link[c] \in Nat \ {0} /\ mode[c] = "route"
  BY <1>1 DEF IInv, TypeOK, CallInv, PlaceInv
<1>4. p \in Providers
  BY <1>1, <1>3, ChainType DEF IInv, CallInv, PlaceInv
<1>5. TypeOK'
  BY <1>1, <1>2, <1>4 DEF IInv, TypeOK, Places, Ended
<1>6. StepOf(c) /\ pc'[c] = place
  BY <1>1 DEF StepOf, IInv, TypeOK
<1>7. CallInv(c)'
  BY <1>1, <1>3, <1>6 DEF CallInv, PlaceInv, SwitchInv, ProcessInv, Resumed, Provider, Chain
<1>8. ASSUME NEW q \in Providers PROVE Unrecorded(q)' \subseteq Unrecorded(q)
  BY <1>6, OthersKept DEF Unrecorded
<1>9. ASSUME NEW q \in Providers PROVE WindowInv(q)'
  <2>1. CASE q # p
    <3>1. recent'[q] = recent[q] /\ Len(recent[q]) \in Nat
      BY <1>2, <2>1 DEF IInv, TypeOK
    <3>2. Spent(q)' = Spent(q) /\ Spent(q) \in Nat
      BY <3>1, SpentIsSum, SpentNat DEF IInv
    <3> QED  BY <1>5, <1>8, <3>1, <3>2, WindowKept
  <2>2. CASE q = p
    <3> DEFINE i == Cardinality(Unrecorded(q))
               j == Cardinality(Unrecorded(q)')
               k == Cardinality(Callers)
    <3>1. recent[q] \in Seq(Nat) /\ recent'[q] = Append(recent[q], n) /\ n \in Nat
      BY <1>2, <2>2, SizesAreNat DEF IInv, TypeOK
    <3>2. Len(recent'[q]) = Len(recent[q]) + 1 /\ Len(recent[q]) \in Nat
      BY <3>1
    <3>3. Spent(q)' = Spent(q) + n /\ Spent(q) \in Nat
      BY <3>1, SumAppend, SpentIsSum, SumNat
    <3>4. c \in Unrecorded(q) /\ c \notin Unrecorded(q)'
      BY <1>1, <1>3, <1>6, <2>2 DEF Unrecorded
    <3>5. i \in Nat /\ j \in Nat /\ k \in Nat /\ j + 1 <= i
      <4>1. Unrecorded(q)' \subseteq Unrecorded(q) \ {c}
        BY <1>8, <3>4
      <4>2. IsFiniteSet(Unrecorded(q) \ {c}) /\ Cardinality(Unrecorded(q) \ {c}) = i - 1
        BY <3>4, UnrecordedFinite, FS_RemoveElement
      <4>3. j <= i - 1
        BY <4>1, <4>2, FS_Subset
      <4> QED  BY <4>3, UnrecordedFinite, UnrecordedFiniteNext
    <3>6. (j + 1) * MaxAnswer <= i * MaxAnswer /\ i * MaxAnswer \in Nat
      BY <3>5, MoreOfThem
    <3>7. (j + 1) * MaxAnswer = j * MaxAnswer + MaxAnswer /\ j * MaxAnswer \in Nat
      BY <3>5, LimitsAssumption
    <3>8. k * MaxAnswer \in Nat /\ n <= MaxAnswer /\ MaxAnswer \in Nat
      BY <3>5, LimitsAssumption
    <3>9. /\ Len(recent[q]) + i <= MaxRequests - 1 + k
          /\ Spent(q) + i * MaxAnswer <= MaxTokens - 1 + k * MaxAnswer
      BY DEF IInv, WindowInv
    <3>10. Len(recent'[q]) + j <= MaxRequests - 1 + k
      <4>1. MaxRequests \in Nat
        BY LimitsAssumption
      <4> QED  BY <3>2, <3>5, <3>9, <4>1
    <3>11. Spent(q)' + j * MaxAnswer <= MaxTokens - 1 + k * MaxAnswer
      BY <3>3, <3>6, <3>7, <3>8, <3>9, <3>1, LimitsAssumption
    <3> QED  BY <3>10, <3>11 DEF WindowInv
  <2> QED  BY <2>1, <2>2
<1> QED  BY <1>5, <1>6, <1>7, <1>9, OthersKept DEF IInv

\* Every step keeps the invariant.
LEMMA InvCorrect == Spec => []IInv
<1>1. IInv /\ [Next]_vars => IInv'
  <2> SUFFICES ASSUME IInv, [Next]_vars PROVE IInv'
    OBVIOUS
  <2>1. CASE UpdateConfig
    BY <2>1, UpdateConfigKeepsInv
  <2>2. ASSUME NEW r \in Routers, Build(r) \/ Close(r) \/ Drop(r) PROVE IInv'
    BY <2>2, BuildKeepsInv, CloseKeepsInv, DropKeepsInv
  <2>3. ASSUME NEW p \in Providers, Expire(p) PROVE IInv'
    BY <2>3, ExpireKeepsInv
  <2>4. ASSUME NEW c \in Callers, Begin(c) PROVE IInv'
    BY <2>4, BeginKeepsInv
  <2>5. ASSUME NEW c \in Callers, CheckFlag(c) \/ CheckWindow(c) PROVE IInv'
    BY <2>5, CheckFlagKeepsInv, CheckWindowKeepsInv
  <2>6. ASSUME NEW c \in Callers, Answer(c) \/ Fail(c) \/ Raise(c) PROVE IInv'
    BY <2>6, AnswerKeepsInv, FailKeepsInv, RaiseKeepsInv
  <2>7. ASSUME NEW c \in Callers, Record(c) \/ Announce(c) PROVE IInv'
    BY <2>7, RecordKeepsInv, AnnounceKeepsInv
  <2>8. ASSUME NEW c \in Callers, Cancel(c) \/ ProcessExits(c) PROVE IInv'
    BY <2>8, CancelKeepsInv, ProcessExitsKeepsInv
  <2>9. CASE UNCHANGED vars
    <3>1. TypeOK'
      BY <2>9 DEF IInv, TypeOK, vars, routerVars, callVars
    <3> QED  BY <2>9, <3>1, CallsUntouched DEF vars, routerVars
  <2> QED
    BY <2>1, <2>2, <2>3, <2>4, <2>5, <2>6, <2>7, <2>8, <2>9 DEF Next, Step
<1> QED  BY DialInit, <1>1, PTL DEF Spec

-----------------------------------------------------------------------------
(* Theorems *)

\* The state has its types (app/dial_system): in particular the adapter a caller is at is one of
\* its router's, whatever becomes of the router, and every provider announced is one that exists.
THEOREM TypeCorrect == Spec => []TypeOK
<1>1. IInv => TypeOK
  BY DEF IInv
<1> QED  BY InvCorrect, <1>1, PTL

\* The limiter's window holds at most what the calls under way together add to one less than its
\* limits, in requests and in tokens, for any number of callers and any limits (RateLimiter.check
\* and record_usage, DialSystemRouter.route).
THEOREM OvershootIsBounded == Spec => []OvershootBounded
<1>1. IInv => OvershootBounded
  <2> SUFFICES ASSUME IInv, NEW p \in Providers
               PROVE  /\ Len(recent[p]) <= MaxRequests - 1 + Cardinality(Callers)
                      /\ Spent(p) <= MaxTokens - 1 + Cardinality(Callers) * MaxAnswer
    BY DEF OvershootBounded, RequestsBounded, TokensBounded
  <2> DEFINE n == Cardinality(Unrecorded(p))
             k == Cardinality(Callers)
  <2>1. n \in Nat /\ k \in Nat /\ n * MaxAnswer \in Nat /\ k * MaxAnswer \in Nat
    BY UnrecordedFinite, LimitsAssumption
  <2>2. Len(recent[p]) \in Nat /\ Spent(p) \in Nat
    BY SpentNat DEF IInv, TypeOK
  <2>3. /\ Len(recent[p]) + n <= MaxRequests - 1 + k
        /\ Spent(p) + n * MaxAnswer <= MaxTokens - 1 + k * MaxAnswer
    BY DEF IInv, WindowInv
  <2>4. Len(recent[p]) <= MaxRequests - 1 + k
    <3>1. MaxRequests - 1 + k \in Int
      BY <2>1, LimitsAssumption
    <3> QED  BY <2>1, <2>2, <2>3, <3>1, NoMore
  <2>5. Spent(p) <= MaxTokens - 1 + k * MaxAnswer
    <3>1. MaxTokens - 1 + k * MaxAnswer \in Int
      BY <2>1, LimitsAssumption
    <3> QED  BY <2>1, <2>2, <2>3, <3>1, NoMore
  <2> QED  BY <2>4, <2>5
<1> QED  BY InvCorrect, <1>1, PTL

\* The log of provider switches tells the answers of the fallbacks and no others, through rate
\* limits, failures, routers that are closed and cancelled calls (DialSystemRouter.route and
\* stream, _publish_switch_event).
THEOREM SwitchesAnnounced == Spec => []SwitchIsAnnounced
<1>1. IInv => SwitchIsAnnounced
  <2> SUFFICES ASSUME IInv, NEW c \in Callers
               PROVE  /\ pc[c] = "answered" => announced[c] = IF link[c] = 1 THEN None ELSE Provider(c)
                      /\ pc[c] = "exhausted" /\ mode[c] = "route" => announced[c] = None
                      /\ pc[c] = "raised" /\ mode[c] = "route" =>
                           announced[c] = None \/ (link[c] > 1 /\ announced[c] = Provider(c))
    BY DEF SwitchIsAnnounced
  <2>1. SwitchInv(c) /\ link[c] \in Nat \ {0}
    BY DEF IInv, TypeOK, CallInv
  <2>2. link[c] = 1 \/ link[c] > 1
    BY <2>1
  <2> QED  BY <2>1, <2>2 DEF SwitchInv, Resumed
<1> QED  BY InvCorrect, <1>1, PTL

\* A CLI process lives while its call waits for it, or after its completion was cancelled
\* (claude_code.py).
THEOREM NoProcessStrays == Spec => []NoStrayProcess
<1>1. IInv => NoStrayProcess
  BY DEF IInv, TypeOK, CallInv, ProcessInv, NoStrayProcess
<1> QED  BY InvCorrect, <1>1, PTL
=============================================================================
