----------------------------- MODULE DialRouter ------------------------------
(***************************************************************************)
(* The Dial System (app/dial_system): calls of a language model by the     *)
(* roles of a voyage.  A router is built from the voyage's dial config for *)
(* one request, has adapters of its own, and tries the primary and then    *)
(* the fallbacks of the role.  The limiter's window per provider is in     *)
(* Redis, shared by everyone.  A step ends at an await that others may use *)
(* to run.  Of the roles of a config, one is modelled.                     *)
(***************************************************************************)
EXTENDS Integers, Sequences, SequencesExt, FiniteSets

CONSTANTS Callers,      \* the calls that may be under way at a time
          Routers,      \* the routers that may exist at a time
          RouterOf,     \* the router a caller uses
          Providers,    \* the providers an adapter exists for
          Cli,          \* those that run the Claude Code CLI
          Telling,      \* those whose adapter tells a rate limit: all but Ollama
          Configs,      \* the chains of adapters the dial config may hold
          Tokens,       \* the sizes of an answer
          MaxAnswer,    \* the largest of them
          MaxRequests, MaxTokens   \* the limits per window

ASSUME CallersAssumption == IsFiniteSet(Callers) /\ RouterOf \in [Callers -> Routers]
ASSUME LimitsAssumption ==
    /\ MaxRequests \in Nat \ {0} /\ MaxTokens \in Nat \ {0} /\ MaxAnswer \in Nat
    /\ Tokens \subseteq 0..MaxAnswer
ASSUME ProvidersAssumption == Cli \subseteq Providers /\ Telling \subseteq Providers

Unsupported == "unsupported"  \* a provider create_adapter does not know
None == "none"
ASSUME NamesAssumption == Unsupported \notin Providers /\ None \notin Providers

\* role_mapping[role] and then fallback_chain[role], each by its provider; <<>> when the
\* role is not mapped.
ASSUME ConfigsAssumption == Configs \subseteq Seq(Providers \cup {Unsupported})

VARIABLES
    config,     \* the dial config of the voyage
    chain,      \* the adapters of each router; <<>> when it is not built, or has none
    open,       \* the routers whose clients are open
    flagged,    \* the adapters that met a rate limit: <<router, place in the chain>>
    recent,     \* the usage recorded within the window, by provider, oldest first
    pc,         \* where each caller is
    mode,       \* route or stream
    link,       \* the adapter it is at
    announced,  \* the provider of the last switch it published
    alive       \* the callers whose CLI process is running

routerVars == <<config, chain, open, flagged>>
callVars == <<pc, mode, link, announced, alive>>
vars == <<routerVars, recent, callVars>>

Ended == {"idle", "answered", "exhausted", "raised", "cancelled"}
Places == Ended \cup {"flag", "window", "announce", "call", "record"}

TypeOK ==
    /\ config \in Configs
    /\ chain \in [Routers -> Seq(Providers)]
    /\ open \subseteq Routers
    /\ flagged \subseteq Routers \X (Nat \ {0})
    /\ recent \in [Providers -> Seq(Tokens)]
    /\ pc \in [Callers -> Places]
    /\ mode \in [Callers -> {"route", "stream"}]
    /\ link \in [Callers -> Nat \ {0}]
    /\ announced \in [Callers -> Providers \cup {None}]
    /\ alive \subseteq Callers

Init ==
    /\ config \in Configs
    /\ chain = [r \in Routers |-> <<>>]
    /\ open = {} /\ flagged = {}
    /\ recent = [p \in Providers |-> <<>>]
    /\ pc = [c \in Callers |-> "idle"]
    /\ mode = [c \in Callers |-> "route"]
    /\ link = [c \in Callers |-> 1]
    /\ announced = [c \in Callers |-> None]
    /\ alive = {}

-----------------------------------------------------------------------------
(* Configs and routers *)

\* validate_fallback_chain: the fallbacks must be supported; nothing validates the mapping.
ValidUpdate(new) == \A i \in 2..Len(new) : new[i] \in Providers

\* PUT dial-config: routers that exist keep their adapters.
UpdateConfig ==
    /\ \E new \in Configs : ValidUpdate(new) /\ config' = new
    /\ UNCHANGED <<chain, open, flagged, recent, callVars>>

CallersOf(r) == {c \in Callers : RouterOf[c] = r}

\* Mutation: create_adapter takes any provider.
Build_Unchecked(r) ==
    /\ chain[r] = <<>> /\ r \notin open
    /\ chain' = [chain EXCEPT ![r] = config]
    /\ open' = open \cup {r}
    /\ UNCHANGED <<config, flagged, recent, callVars>>

\* get_dial_router, build_router_from_config: an unsupported provider fails the request.
Build(r) ==
    /\ chain[r] = <<>> /\ r \notin open
    /\ config \in Seq(Providers)
    /\ chain' = [chain EXCEPT ![r] = config]
    /\ open' = open \cup {r}
    /\ UNCHANGED <<config, flagged, recent, callVars>>

\* The request ends and close() closes the clients.  A pipeline it spawned uses the router on.
Close(r) ==
    /\ r \in open
    /\ open' = open \ {r}
    /\ UNCHANGED <<config, chain, flagged, recent, callVars>>

\* Nobody holds the router any more: it is gone with its adapters, what they remember, and its
\* callers.
Drop(r) ==
    /\ r \notin open /\ chain[r] # <<>>
    /\ \A c \in CallersOf(r) : pc[c] \in Ended /\ c \notin alive
    /\ chain' = [chain EXCEPT ![r] = <<>>]
    /\ flagged' = {a \in flagged : a[1] # r}
    /\ pc' = [c \in Callers |-> IF c \in CallersOf(r) THEN "idle" ELSE pc[c]]
    /\ UNCHANGED <<config, open, recent, mode, link, announced, alive>>

-----------------------------------------------------------------------------
(* The limiter *)

\* record_usage: the entry is at the end of the window.
RecordUsage(p, n) == recent' = [recent EXCEPT ![p] = Append(@, n)]

\* The tokens in the window.
Spent(p) == FoldLeft(+, 0, recent[p])

\* Mutation: only the number of requests is limited.
WindowFull_RequestsOnly(p) == Len(recent[p]) >= MaxRequests

\* check
WindowFull(p) == Len(recent[p]) >= MaxRequests \/ Spent(p) >= MaxTokens

\* Time passes: the oldest entry leaves the window.
Expire(p) ==
    /\ recent[p] # <<>>
    /\ recent' = [recent EXCEPT ![p] = Tail(@)]
    /\ UNCHANGED <<routerVars, callVars>>

-----------------------------------------------------------------------------
(* Calls *)

Chain(c) == chain[RouterOf[c]]
Provider(c) == Chain(c)[link[c]]
Adapter(c) == <<RouterOf[c], link[c]>>
Goto(c, place) == pc' = [pc EXCEPT ![c] = place]

\* route, stream: a role without a primary raises ValueError.
\* Bound: a caller whose cancelled call left a process behind waits for it to end.
Begin(c) ==
    /\ pc[c] \in Ended /\ c \notin alive
    /\ Chain(c) # <<>>
    /\ Goto(c, "flag")
    /\ \E m \in {"route", "stream"} : mode' = [mode EXCEPT ![c] = m]
    /\ link' = [link EXCEPT ![c] = 1]
    /\ announced' = [announced EXCEPT ![c] = None]
    /\ UNCHANGED <<routerVars, recent, alive>>

\* Mutation: after the last adapter the first is tried again.
TryNext_Wraps(c) ==
    Goto(c, "flag") /\ link' = [link EXCEPT ![c] = IF @ = Len(Chain(c)) THEN 1 ELSE @ + 1]

\* The next adapter of the chain, or none is left.
TryNext(c) ==
    IF link[c] = Len(Chain(c))
      THEN Goto(c, "exhausted") /\ UNCHANGED link
      ELSE Goto(c, "flag") /\ link' = [link EXCEPT ![c] = @ + 1]

\* check_rate_limit of the adapter.
CheckFlag(c) ==
    /\ pc[c] = "flag"
    /\ IF Adapter(c) \in flagged THEN TryNext(c) ELSE Goto(c, "window") /\ UNCHANGED link
    /\ UNCHANGED <<routerVars, recent, mode, announced, alive>>

\* Starting the call: an SDK client sends, the CLI is spawned (_spawn).
StartCall(c) ==
    /\ Goto(c, "call")
    /\ alive' = IF Provider(c) \in Cli THEN alive \cup {c} ELSE alive

\* The limiter's check.  A stream announces a fallback before it calls it.
CheckWindow(c) ==
    /\ pc[c] = "window"
    /\ \/ WindowFull(Provider(c)) /\ TryNext(c) /\ UNCHANGED alive
       \/ /\ ~ WindowFull(Provider(c))
          /\ IF mode[c] = "stream" /\ link[c] > 1
               THEN Goto(c, "announce") /\ UNCHANGED alive
               ELSE StartCall(c)
          /\ UNCHANGED link
    /\ UNCHANGED <<routerVars, recent, mode, announced>>

\* Whether the provider can be reached: the clients of the SDKs can be closed, the CLI has none.
Reachable(c) == Provider(c) \in Cli \/ RouterOf[c] \in open

\* The provider answers, which a closed client does not let it do: a completion is then
\* recorded, a stream is not.
Answer(c) ==
    /\ pc[c] = "call"
    /\ Reachable(c)
    /\ Goto(c, IF mode[c] = "route" THEN "record" ELSE "answered")
    /\ alive' = alive \ {c}
    /\ UNCHANGED <<routerVars, recent, mode, link, announced>>

\* Mutation: a process that timed out is not killed.
Fail_KeepsProcess(c) ==
    /\ pc[c] = "call"
    /\ TryNext(c)
    /\ UNCHANGED <<routerVars, recent, mode, announced, alive>>

\* A rate limit is remembered by the adapter that met it, for as long as there is the adapter.
TellsLimit(c) == Reachable(c) /\ Provider(c) \in Telling

\* ProviderError: a refusal, a rate limit, a timeout that kills the CLI, a CLI that is missing.
\* A stream may have sent tokens by then.
Fail(c) ==
    /\ pc[c] = "call"
    /\ flagged' = flagged \/ (TellsLimit(c) /\ flagged' = flagged \cup {Adapter(c)})
    /\ TryNext(c)
    /\ alive' = alive \ {c}
    /\ UNCHANGED <<config, chain, open, recent, mode, announced>>

\* Any other exception ends the call: Redis while checking, recording or announcing (which it did
\* not do then), an answer that cannot be read, Ollama's client once it is closed.
Raise(c) ==
    /\ pc[c] \in {"window", "announce", "call", "record"}
    /\ Goto(c, "raised")
    /\ alive' = alive \ {c}
    /\ UNCHANGED <<routerVars, recent, mode, link, announced>>

\* Mutation: the answer of a fallback is not announced.
Record_NoAnnounce(c) ==
    /\ pc[c] = "record"
    /\ \E n \in Tokens : RecordUsage(Provider(c), n)
    /\ Goto(c, "answered")
    /\ UNCHANGED <<routerVars, mode, link, announced, alive>>

\* record_usage, of which Redis's reply may be lost.
Record(c) ==
    /\ pc[c] = "record"
    /\ \E n \in Tokens : RecordUsage(Provider(c), n)
    /\ Goto(c, IF link[c] = 1 THEN "answered" ELSE "announce") \/ Goto(c, "raised")
    /\ UNCHANGED <<routerVars, mode, link, announced, alive>>

\* _publish_switch_event, of which Redis's reply may be lost, too.
Announce(c) ==
    /\ pc[c] = "announce"
    /\ announced' = [announced EXCEPT ![c] = Provider(c)]
    /\ \/ IF mode[c] = "stream" THEN StartCall(c) ELSE Goto(c, "answered") /\ UNCHANGED alive
       \/ Goto(c, "raised") /\ UNCHANGED alive
    /\ UNCHANGED <<routerVars, recent, mode, link>>

\* The task or the connection of the caller is cancelled: a stream kills its process, complete()
\* does not.
Cancel(c) ==
    /\ pc[c] \notin Ended
    /\ Goto(c, "cancelled")
    /\ alive' = IF mode[c] = "stream" THEN alive \ {c} ELSE alive
    /\ UNCHANGED <<routerVars, recent, mode, link, announced>>

\* A process that nobody waits for ends by itself.
ProcessExits(c) ==
    /\ c \in alive /\ pc[c] = "cancelled"
    /\ alive' = alive \ {c}
    /\ UNCHANGED <<routerVars, recent, pc, mode, link, announced>>

\* What an await under way may lead to.
Step(c) ==
    \/ CheckFlag(c) \/ CheckWindow(c) \/ Answer(c) \/ Fail(c)
    \/ Raise(c) \/ Record(c) \/ Announce(c)

Next ==
    \/ UpdateConfig
    \/ \E r \in Routers : Build(r) \/ Close(r) \/ Drop(r)
    \/ \E p \in Providers : Expire(p)
    \/ \E c \in Callers : Begin(c) \/ Step(c) \/ Cancel(c) \/ ProcessExits(c)

\* Every await returns: the clients and the CLI have timeouts.
Fairness == \A c \in Callers : WF_vars(Step(c))

Spec == Init /\ [][Next]_vars /\ Fairness

-----------------------------------------------------------------------------
(* Properties *)

\* The limit is checked before and recorded after a call, and callers do not wait for one
\* another (rate_limiter.py:42, router.py:66): a window can hold more than max_requests and
\* max_tokens, but never by more than what the calls that were under way together add to one
\* less than the limit.
RequestsBounded ==
    \A p \in Providers : Len(recent[p]) <= MaxRequests - 1 + Cardinality(Callers)
TokensBounded ==
    \A p \in Providers : Spent(p) <= MaxTokens - 1 + Cardinality(Callers) * MaxAnswer
OvershootBounded == RequestsBounded /\ TokensBounded

\* The crew's log of provider switches is right whatever fails on the way (router.py:89, 120):
\* an answer of the primary announced no switch, an answer of a fallback was announced last as
\* that fallback's, and a completion that was not answered announced nothing, unless an
\* exception lost the answer of the very fallback it announced.
SwitchIsAnnounced ==
    \A c \in Callers :
      /\ pc[c] = "answered" => announced[c] = IF link[c] = 1 THEN None ELSE Provider(c)
      /\ pc[c] = "exhausted" /\ mode[c] = "route" => announced[c] = None
      /\ pc[c] = "raised" /\ mode[c] = "route" =>
           announced[c] = None \/ (link[c] > 1 /\ announced[c] = Provider(c))

\* Every call of the router ends, with an answer or an error: the chain is walked once, however
\* adapters fail, are limited or are closed under the caller (router.py:59-127).
CallsEnd == \A c \in Callers : pc[c] \notin Ended ~> pc[c] \in Ended

\* No CLI process outlives the call it was spawned for (claude_code.py:189, 304), except that of
\* a completion that was cancelled.
NoStrayProcess ==
    \A c \in alive : pc[c] = "call" \/ (pc[c] = "cancelled" /\ mode[c] = "route")
=============================================================================
