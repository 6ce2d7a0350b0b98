# GrandLine in TLA+

GrandLine turns a task into a deployed application through a crew of agents: the Captain plans, the
Navigator drafts a poneglyph (a prompt artifact) for each phase, the Doctor writes health checks,
Shipwrights build the phases, the Doctor validates, the Helmsman deploys. This directory holds the
specifications of the parts of it that are hard to get right: the voyage pipeline (one asyncio process, several
concurrent tasks and HTTP requests, and PostgreSQL rows as their only durable and shared memory), the
interventions of its user, the message bus, the calls of language models, the containers the crew works in, and
what a browser sees of it all. Paths below are relative to `src/src/backend/app/` unless they say otherwise.

## The system

| component | state | operations | talks to |
|---|---|---|---|
| Control endpoints `api/v1/pipeline.py` | `app.state.pipeline_tasks`, one task for each voyage | start, resume, pause, cancel, inject, redirect, status, SSE | PipelineService, the registry |
| PipelineService `services/pipeline_service.py` | none of its own; a session | start (runs the graph), pause, resume, cancel, inject, redirect, get_status | the voyages row, the graph |
| Pipeline graph `crew/pipeline_graph.py` | a graph state per run; one main session, one session per shipwright | six stage nodes, finalize, fail_end, pause_end | guards, the crew services, the rows |
| Guards `services/pipeline_guards.py` | none | six preconditions | the rows |
| Captain, Navigator, Doctor, Shipwright, Helmsman `services/*_service.py` | none of their own | one stage each | language models, sandboxes, git, the rows |
| Interventions `services/intervention_service.py` | `applied_phases` in crew_actions | drain | a build's transaction |
| Den Den Mushi `den_den_mushi/` | Redis streams, groups, pending lists | publish, read, ack, claim_stale, dead letter | everyone, best effort |
| Dial System `dial_system/` | a router with adapters for each request; flags in adapters; a sliding window per provider in Redis | route, stream, close; dial-config | language models, the CLI's processes |
| Cabin, Preview `services/cabin_service.py`, `preview_service.py` | per user: a record, the backend's map, a preview | ensure, run, destroy, start, stop, reap | Docker |
| Execution, Git `services/execution_service.py`, `git_service.py` | the sandbox of a user, the sandbox with the clone of a voyage | execute, status, destroy; clone, branch, commit, push, conflicts, clean-up | Docker, git, GitHub |
| Observation deck, SSE, terminal `api/v1/` | one forwarder with a group of its own for each connection; a PTY | stream, list from a cursor, attach | Redis, the rows, the Cabin |
| Frontend `src/src/frontend` | per voyage: connection, transport, a ring of events, pages of rows | connect, retry, fall back, ingest, evict | the observation deck |
| Sea Chest, Claude login, vivre cards, triggers, standing orders, log book, return bottle, accounts | single rows | upserts, cleanup | the database |

The parts meet in the rows of a voyage. A request loads the voyage and decides on that copy; a stage
loads it, flushes a stage status (which takes the row lock until its commit, minutes later, after a
language model answered), and commits `CHARTED`; shipwrights claim phases of the same row on sessions
of their own; a done-callback edits the registry. Nothing but the row lock orders them. What is hard
is therefore: copies that are stale when they are used, checks that precede an await, a lock held
over slow calls and released on every error path, a layer of parallel builds of which one fails,
runs that overlap, tasks that are cancelled in the middle, and a process that dies. `PROJECT.json`
lists these hazards with their lines and the properties that cover them.

Elsewhere the shared memory is a dictionary of the process that is read before an await and written
after it, next to something outside that lives on by itself: a container, a command in it, a CLI
process, a working tree, a Redis stream. What is hard there is who still knows of what is running,
and what is told to a caller whose operation others overlapped.

What makes each part correct: the pipeline completes only voyages that went through every stage, keeps
finished work, leaves no voyage in a stage status, answers every request and ends every run; a single
session works on a voyage at a time; a phase is built after what it depends on; a layering schedules
every phase once, as early as possible, and rejects exactly the plans that cannot be layered; an event
is heard by all its handlers or dead-lettered, and after a bounded number of deliveries; an
intervention reaches each phase it is for once, and the files of a phase are those of one build; a call of a model ends,
within the limits up to a bounded overshoot; every container that runs has a record that can end it; a
commit that was answered is delivered; a browser sees the newest events, every row once, and the end.

## Modules

* `TopologicalLayers` is `topological_layers` (`crew/pipeline_graph.py:132-154`), a step for each pass
  of its loop, over every plan. `MCTopologicalLayers` instantiates it, `TopologicalProofs` holds its
  theorems.
* `VoyageStore` is what PostgreSQL holds of one voyage (the `status` and `phase_status` columns, the
  row lock, which documents exist) and the guards as predicates over it.
* `PipelineGraph` extends the store with the runs: where each is (`pc`, `stage`), the status its
  Voyage object was loaded with (`mem`), its shipwrights (`ship`), whether `task.cancel()` was called
  (`killed`). One action for each transition of a node or a crew service.
* `PipelineApi` extends it with the endpoints, the registry, the done-callback and restarts, and
  composes everything: `Next` interleaves `Runs`, `Requests` and `Restart`. It states the properties.
* `VoyageLife` is what all of that promises about the documents of a voyage: a plan, a poneglyph for each
  phase, health checks, code, a validation of code for every phase, a deployment, COMPLETED, each resting
  on those before it. `PipelineApi` implements it (`FollowsLife`) with `completed` as
  `status = "COMPLETED"`; the documents have the same names in both. Runs, requests, locks and the rest of the
  status are not seen there. It lets a completed voyage be reopened at any time, since a resume or a pause that
  loaded the row before the completion writes over it.
* `DenDenMushi` is one stream read by one consumer group: `consume_loop` with the bus methods it calls,
  one action for each call of Redis or of a handler. `EventDelivery` is the abstract promise it
  implements (heard by all handlers, or given up, before it is settled), `DenDenMushiProofs`
  holds its theorems. It shares no state with the pipeline, whose events are published best effort.
* `Interventions` is the builds of a voyage's phases, called by the pipeline or by hand, with the
  iterations inside them, and the requests that inject or redirect. It refines one step of
  `PipelineGraph` (a build) into its transaction, and abstracts the pipeline to "a build may begin".
* `DialRouter` is the router, its adapters and the limiter, with a request that builds and closes it.
* `Cabin` is one user's Cabin: container, backend's map, service's record, preview and terminals in
  it, requests, reaper, shutdown.
* `Sandboxes` is the user's sandbox and the voyage's clone: an operation is the sequence of
  calls it awaits (`GitScript`), in whichever sandbox is registered when a method begins.
* `ObservationDeck` is the forward loop of the server (WebSocket and SSE), the store and hook of the
  browser, and the paged listing of crew actions.
* `MCPipelineApi` gives the plans of the runs, `MCDialRouter`, `MCSandboxes`, `MCObservationDeck` and
  `MCInterventions` the instances of the others. `PipelineProofs` holds the theorems about `PipelineApi`,
  and `InterventionsProofs`, `DialRouterProofs`, `CabinProofs`, `SandboxesProofs` and
  `ObservationDeckProofs` those about the module they are named after.

Definitions whose name continues another's after an underscore (`ClaimRow_NoWait`) are plausible bugs
of the definition that follows; no specification uses them.

### How state and steps correspond to the code

A step ends where the code awaits something another task can observe or disturb: a load of the
voyage, the flush that takes the row lock, a call of a model or a sandbox, a commit. Reads that follow
each other in one guard are one step.

* A variable of the store is the *committed* value. `voyage.status = "PLANNING"; flush` writes
  nothing anyone else can see (READ COMMITTED): it takes `rowLock`. The write shows in the step that
  commits. Hence no stage status is ever committed by the pipeline, and `BUILDING` is never the
  committed status of a phase: both are overwritten in the same transaction.
* An UPDATE by another session waits for `rowLock = Free` and then applies on top of what was
  committed. SQLAlchemy issues one only if the attribute changed with respect to the copy; this is why
  `FailEnd` needs no lock when the row already says FAILED, and a redirect to PENDING of a phase whose
  copy is PENDING writes nothing.
* Shipwrights claim phases of one row, so builds of one voyage serialise on the row lock even when the
  semaphore admits several.
* `seen` and `seenPhases` are what a request loaded; `Arrive` loads, a later step acts.
* A cancelled run (`DeliverCancel`) closes the sessions of its shipwrights (they are opened by
  `async with`), not its main one: the row stays locked until the session is collected
  (`CollectSession`, external).
* A change that would break a foreign key (`ForeignKeyFails`) aborts the transaction: PostgreSQL frees
  the row at once, and every later statement on the session fails, those of `fail_end` and of
  `PipelineService._mark_failed` too. So the run ends there and the voyage keeps its status.
* A backend that raises leaves a deployment in status "running" in the open transaction, which
  `fail_end` commits (`Unfinished`).
* Documents are abstracted to what guards tell apart: a plan exists, which phases have a poneglyph, a
  health check, a build. Code is a version number (`artifacts[n]`, incremented by each build), which is
  enough to ask whether the deployed code is the validated one. Rows of `validation_runs` are ordered
  by `created_at`, the begin of the transaction that wrote them, hence `began`.
* In `DenDenMushi` a message is its position in `stream`, which holds what tells messages apart: an
  event with handlers, one nobody registered for (`unheard`), or one `parse_event` rejects. `pending`,
  `idle`, `deliveries` and `delivered` are what Redis keeps for the group; the owner of a pending entry
  is not, since no call the code makes looks at it. `Age` is the passing of CLAIM_MIN_IDLE_MS, which
  may happen while a handler is still at work. `batch` is `stale + messages`: claimed entries have
  lower ids than new ones, so taking the least first is the order of the list. A consumer that dies
  never returns; another one under its name would be one more consumer.
* In `Interventions` a build holds the row from its claim to its one commit, so what it writes
  (status, marks, run, files) is one step, `EndWith`; until then `heard` is what its drains flushed. The gate
  (`Begin`) and the claim are two steps, hence two builds of a phase may both pass the gate. `attempts` is
  the history the properties are about. A redirect whose copy already says PENDING sends no UPDATE.
* In `DialRouter` the window of a provider is the sequence of what was recorded in it; time is
  `Expire`. `Close` is FastAPI's: a dependency with `yield` is closed when the request ends, and with it the SDK
  clients, while a pipeline the request spawned uses the router on; the CLI adapter has no client to close. A completion is
  recorded and announced after its answer, a stream announces before its call and is never recorded. Redis may
  fail to do either (`Raise`), or do it and its reply is lost: `Record` and `Announce` may end in an exception.
* In `Cabin` a container id is compared only with the one that bears the user's name, so ids are
  "none", "now" and "gone". Record and map entry are popped before the first await of a destroy. `spent`
  is the hard lifetime; idleness needs no variable since a record may be found idle whenever nobody touches
  it. `pkill -f` looks for the port in command lines, where it may or may not be: both are modelled.
* In `Sandboxes` `tree` is what git keeps of a clone as far as the commands tell it apart (branches,
  the checked-out one, what was committed on each, what is uncommitted, an unfinished merge); `After` is what
  a command makes of it and is empty when the command cannot succeed. A timeout closes the stream of the
  command, which runs on (`left`) and may take effect later. `put` is an archive and an `echo` whose exit
  code is not looked at (`services/git_service.py:213`): what fails of it in the model is the archive.
  Docker may refuse to create or to start a container (`RefuseSandbox`).
* In `ObservationDeck` an event is the crew action it reports. Reading, sending one frame and
  looking at the status are steps; the store takes a frame in when it is sent. SSE frames carry no
  `type`, so the hook drops them and they change nothing in the browser. `connection` is what the hook
  of the stream makes of `connectionState`. The page's poll of the status writes it too
  (`src/src/frontend/stores/voyage.ts:189-203`); it is left out, since the label it changes
  (`ConnectionState.tsx`) is all that reads it, and `StreamEnds` is about what the stream tells.
* The copies of a request that was answered, and the locals of a run that is over, are reset: dead
  variables would only multiply the states.

## Runs

| run | instance | shows |
|---|---|---|
| `topological_layers` | 3 phases, 1 foreign number: all 4096 plans | order, exactly once, earliest layer, exact rejection, termination |
| `pipeline_control` | 2 phases in a chain, 2 runs, 3 requests of any of 5 kinds, 1 restart | types, one writer, artifacts of built phases, no stranded stage, completed means deployed, deployed means validated, registry, no lost work, the life of the documents implemented |
| `pipeline_build` | 3 phases, the third joins the two first, 2 parallel shipwrights, 2 runs, 3 requests (start, resume, redirect) | artifacts and layer order with real parallelism and redirects of any phase |
| `pipeline_live` | 3 phases as in `pipeline_build`, 2 parallel shipwrights, 2 runs, 2 requests of any kind, fairness | every request answered, every run ends, the row is released |
| `bus_delivery` | 2 consumers, 1 of which may die, 2 messages of any kind, 2 handlers, 2 retries, fairness | types, nothing lost, retries bounded, the abstract delivery implemented, every message settled |
| `interventions` | 2 phases, 3 builds of which 2 at a time, 2 iterations, 2 requests, 2 interventions | applied once by each phase, none skipped, files of the last passing run |
| `dial_router` | 1 router, 2 callers, a chain of a CLI and an SDK adapter, of one, of an unsupported one and of none, limits of 2 requests and 2 tokens, answers of 2 tokens, fairness | types, overshoot bounded, switches announced right, no process left, calls end |
| `cabin` | 2 requests of any kind, the reaper, 2 previews counted, 1 restart or shutdown, creations and starts that fail, fairness | what runs is tracked, what runs ends |
| `sandboxes` | 3 operations of any of 14 kinds, 2 at a time, 3 sandboxes, 2 crew members with a phase each; containers are refused or die, commands fail or time out | sandboxes are kept, the registered clone is complete, what was pushed is delivered |
| `observation_deck` | 3 actions, two with one timestamp, batches of 2, a ring of 2, pages of 1, 3 broken connections, 1 listing, fairness | buffer is the newest, every row listed once, the end is learnt |
| `second_phase`, `replay_cut` | the smallest that show it | see "Where the code differs" |

The bounds. `Runs` and `Requests` bound what may ever be spawned or sent; two runs are the smallest
number that overlap (resume, resume) or follow each other, three requests are a resume pair and a
third party that pauses, cancels or redirects between them, and one restart falls between any two
steps. `Arrive` takes a start or resume only while a run is left for it, so the bound on runs never
refuses what the code would accept. Two phases in a chain give two layers; three give a parallel
layer followed by a dependent one, in `pipeline_live` too, where builds of one run wait for each other's
row, fail, raise and are cancelled. Two requests and no restart keep the liveness graph small: a third one
waits for the row as the second does, and a crash ends all waits by itself.
Symmetry on runs and requests is used in the safety runs only. Deadlock is not checked in the runs
of the pipeline: when all requests are answered and all runs over, the system rests.

For the bus, two consumers are the smallest number that share a message or survive each other; two
retries tell the first delivery, the last and one beyond it apart; two handlers let a message be half
heard; two messages make a batch with a first and a second, of different kinds. `RetriesBounded` is
tight in this instance. Deadlock is not checked: the consumers that are left may wait for messages
nobody publishes any more.

For the other modules. A call of a router and its window are told from others by two callers (one at
the limit's edge while the other passes) and two adapters (a primary and a fallback, one with a client that can be
closed); limits of two leave room for one call too many. Answers of two tokens reach the limit of
tokens before that of requests, whose bound the theorem covers for all limits. The symmetry of ids in a Cabin needs no bound: it has one name. Two
requests and the reaper give every pair of operations a third party, one restart falls anywhere. Three
sandboxes are one for the user, one for the voyage and one that replaces either; three operations are a clone and two
that overlap in it. Batch, ring and pages of one and two are smaller than the stream, as ten, 5000 and 200 are
in the code; two timestamps agree, as those of one transaction do. Two iterations (three in the code) tell a
drain that may still be acted on from the last. Deadlock is checked in `dial_router`, whose callers can always call again; in the
others operations, builds or connections are counted, and the system rests.

### Fairness

`FairSpec` asks weak fairness of every task, every done-callback and every request. The event loop
schedules what can run; model calls and sandboxes end by answer or timeout; PostgreSQL queues the
waiters of a row lock and grants it to them; a collected session rolls back. Nothing obliges a user to
send a request, and `Restart` is not fair. Weak fairness of the lock waiters is enough in the instance
because every holder releases the row and finitely many sessions ever compete for it.

For the bus, `FairSpec` asks weak fairness of every consumer's loop and of the passing of time: Redis
answers, a handler returns or raises, and a message nobody acknowledges grows idle. Publishing and
dying are not fair. At least one consumer survives (`ConsumersAssumption`), which is what
`claim_stale` is there for; the code itself restarts nobody.

For the router, weak fairness of every caller's step: SDK clients and the CLI have timeouts, Redis
answers or fails. For the Cabin, weak fairness of the reaper's loop, of time (`GrowOld`) and of the calls
a request makes: Docker answers, a terminal has a timeout. For the deck, weak fairness of the forward loop and
of the browser's timers as long as the user stays. Nothing obliges a user to ask, a connection to break or a
provider to answer rather than fail. `Sandboxes` and `Interventions` state safety only.

### Where the code differs from what is said of it

Two are runs that TLC must find violated; `PROJECT.json` quotes the lines.

* `second_phase`: the branch of a Shipwright has one name per voyage and `create_branch` uses
  `checkout -b` (`services/git_service.py:168`), so only the first phase it builds is committed to git.
* `replay_cut`: a socket opened on a finished voyage is closed after the first batch of ten events
  (`api/v1/observation_deck.py:328`).

Met while modelling, and not turned into runs. In the pipeline:

* The done-callback pops the voyage's registry entry even when it is another run's (`api/v1/pipeline.py:122`).
* Two resumes of a paused voyage both pass the check and both spawn a run (`:238`); a resume flips to
  CHARTED a voyage that was cancelled or completed since it was loaded (`services/pipeline_service.py:288`).
* The building node does not look for CANCELLED (`crew/pipeline_graph.py:479`).
* A build that ran out of iterations returns normally, so its dependents are built.
* A redirect restores the whole `phase_status` it loaded and un-builds other phases (`services/pipeline_service.py:369`).
* A stage's commit of CHARTED overwrites a pause that committed while it worked.
* After a redirect of a validated voyage the rebuilt phase is deployed unvalidated
  (`crew/pipeline_graph.py:591` skips the reviewing node as long as the latest validation passed).
* A Navigator that works while another run's Doctor has written health checks, or a Doctor whose
  poneglyphs another run's Navigator replaces, meets a foreign key without cascade (`services/navigator_service.py:109`,
  `doctor_service.py:139-150`): its run ends with an exception, and the voyage is not marked FAILED,
  because what would mark it uses the aborted transaction.
* `start` on a FAILED voyage with only the deployment left is refused by the Helmsman for its
  status, and fails again for ever (`services/helmsman_service.py:118`); only resume gets through. A backend that raises leaves a
  deployment row in status running.
* `den_den_mushi/handlers.py:74` counts deliveries, not failures, so a message whose handlers take
  longer than CLAIM_MIN_IDLE_MS may be dead-lettered at its first failure.

In builds and interventions:

* A redirect of a phase that is being built waits for the row the build holds, so that build does not
  drain it, unless its copy already says PENDING: then nothing waits, and if it lands after the last drain, BUILT
  wins, against `services/pipeline_service.py:356-360` ("the PENDING reset is the durable signal").
* Of two concurrent redirects the second restores, from its copy, the BUILT the first had reset.
* A failed build consumes the interventions it heard; a retry does not hear them.
* `created_at` is the begin of a transaction, so `get_latest_run` may return the earlier of two builds.

In the Dial System:

* The clients of the SDK adapters are closed when the request that spawned a pipeline ends; its later
  calls fail as `ProviderError` and fall through to the CLI, if the chain has it.
* A stream that fails after some tokens starts anew on the fallback: the caller sees both. A stream
  records no usage. An answer is lost when Redis fails to record or announce it, or
  when its reply is lost: then the log of switches may name a fallback whose answer nobody got, the
  exception in `SwitchIsAnnounced`.
* A completion that is cancelled leaves its CLI process running (`dial_system/adapters/claude_code.py:185`); it is the
  exception in `NoStrayProcess`.

In Cabins and sandboxes:

* A slow `show` that finds its container gone pops the map entry another ensure has just set
  (`cabin/gvisor_backend.py:198`); when the creation that follows is refused, a container runs that no map has.
  `RunningCabinIsTracked` names it (`orphan`).
* "One preview per user" (`services/preview_service.py:23`) does not hold under two concurrent starts.
* A terminal's idle timeout is absolute (`api/v1/terminal.py:123` says "no I/O within"); `_touch`
  recreates a record whatever `refresh_only` says; a shutdown that cancels the reaper in the middle of a destroy leaves
  the container, as a crash does (`orphan`).
* A run that finds its sandbox removed while another did so deletes the newer entry, or meets a
  KeyError (`services/execution_service.py:31`). A stopped sandbox still has a status, so runs fail in it until it is
  deleted; killing it fails, so it is then not deleted. Two overlapping clones or first runs lose a sandbox: the exceptions
  `SandboxesAreKept` names.
* Members of the crew share one working tree: a commit takes in what another put there, also between
  the merge and the abort of a conflict check, hence the condition of `DeliveredWhenAlone`.
* No stage of the pipeline clones, so crew commits happen only after `POST clone`.

In the deck: SSE frames have no `type` and the hook drops them all (`schemas/pipeline.py:100-106`);
`GLOBAL_CAP` cannot be reached; `list_voyages` pages on `updated_at`, which changes under it.

None of them breaks the invariants of the passing runs: the row lock still admits one writer, and
`CompletedMeansDeployed` still holds, with the deployment possibly that of an overlapping run.

## Proofs

TLAPS checks, for every value of the constants under the named assumptions (`PhasesAssumption`;
`PlanAssumption`, `RunsAssumption`, `ParallelAssumption`, `ApiAssumption`: plans are finite and
acyclic, `NoRun` is not a run, bounds are natural numbers):

* `TypeCorrect`: `Spec => []TypeOK`, by one lemma for tasks, one for requests, one for burials.
* `OneWriter`, `LayersInOrder`: `RowHasOneWriter` is not inductive alone. A run that leaves the
  gather must have no shipwright at work, or its `Bury` would drop the holder of the row; that is a
  part of `LayerBarrier`. The two are proved together (`WriterStep`). The heart of it: whoever takes
  the row finds it free, and whoever stops working releases it or passes on (`Release`,
  `RequestKeepsLock`, `BuryKeepsLock`).
* `FinishedWorkIsKept`: `Spec => WorkIsKept`, from `TypeOK` and a case for each action (`RunWrites`,
  `RequestWrites`). The Navigator deletes and inserts, which keeps the rows because the phases must match.
* `BuiltPhasesHaveArtifacts`: a redirect writes back a copy, so `BuiltHasArtifact` is strengthened by
  the same statement about the copies requests hold (`CopiesHaveArtifact`), both kept because
  artifacts only grow.
* `CompletedIsDeployed`: `Passed(r)` says what the place of a run implies about the rows: past
  PLANNING there is a plan, past PDD all poneglyphs, at finalize a completed deployment. It survives
  the other actors because of `FinishedWorkIsKept`'s lemmas.
* `PipelineFollowsLife`: every step of `PipelineApi` is one of `VoyageLife` or leaves all it speaks of
  alone. `LifeInv` collects what the proof needs of the earlier ones (`PathInv`, `ReviewInv`,
  `LayerBarrier`) and adds `CheckedInv`: a run that has passed the Doctor finds health checks, which
  are replaced and never only deleted. Then each commit of a stage is the step it is named for, by the
  guard its run passed earlier and what nobody has undone since; there is one lemma for the steps of a run
  that do work and one for all that stutter. `Validate` and `Deploy` need `ReviewInv`, because
  the code may be rebuilt between the load of a review and its verdict.
* `LayersRespectDependencies`, `RejectionIsExact`: from `LoopInv`, which says that `completed` is the
  union of the layers and the complement of `remaining`; a set of remaining phases without a ready
  one is stuck (`NothingReady`), and the phases of a stuck set can never be layered.

* `BusTypeCorrect`, `NoMessageIsLost`, `RetriesAreBounded`, `GroupDelivers` (under `BusAssumption`,
  `ConsumersAssumption`): one inductive invariant, `BusInv`. `ConsumerInv` says what a place of the
  loop implies about the first message of its batch (at `ack` it was dealt with, at `bury` it was
  delivered often enough); it survives the other consumers because what they change of a message only
  grows (`Growth`). The bound on retries is not inductive, since it does not know who may still cause
  a delivery: `RetriesOwed` says that every delivery from the last allowed one on is owed by a
  consumer that still has the message or died (`Holders`), and one that asks for more has nothing.
  `GroupDelivers` maps each step to one of `EventDelivery`, with the acknowledged messages as settled.

* `AppliedExactlyOnce`, `NoInterventionIsSkipped`, `FilesOfLastPass` (under `NamesAssumption`,
  `BoundsAssumption`): one inductive invariant, `IInv`. A build in work holds the row (`LockInv`), so
  nobody else commits meanwhile: what it heard is marked for its phase by no one, and what its drains
  reached and it did not hear is marked (`BuildInv`). Counting attempts is replaced by naming the one
  (`MarkedOnce`). A redirect writes back a copy, so what the copies say of files is part of it
  (`CopiesInv`). Only the commit (`EndWith`) changes what the properties speak of: its four lemmas
  are the heart. A longer log changes nothing that is said of its beginning (`RecordKeeps`).

* `EveryPhaseIsLayeredOnce`, `LayersAreTheEarliest`: `LayerInv` adds to `LoopInv` that layers are
  disjoint and that no phase still waiting could have been in the last layer. That is what the next
  layer needs to be as early as possible.
* `NoStageIsStranded`, `RegistryIsLive`: inductive with `TypeOK`, by the one action that could break
  each. The first says that every write of the row is of a settled status, the second that the
  callback of an old run removes an entry but never leaves one.
* `DeployedIsValidated`: `ReviewInv` follows the code through a review. A run that loads for a review
  finds a build of every phase; the files it holds are complete and no newer than what is stored
  (artifacts only grow, by the lemmas of `FinishedWorkIsKept`); a run that deploys, or still holds the
  row after it, does so over a version that a passed validation covers (`Covered`).

* `TypeCorrect`, `OvershootIsBounded`, `SwitchesAnnounced`, `NoProcessStrays` of `DialRouter` (under
  its five assumptions): a caller's place says where in its chain it is, what it last announced
  (`SwitchInv`) and whether a process may be its own (`ProcessInv`). For the limits, `WindowInv` counts
  for each window what is in it together with what its callers may still add (`Unrecorded`); a call
  that was let through found the window below the limits, and time only shortens it. Tokens are a
  `FoldLeft`. The sum is shown to exist, to grow by what is appended and to shrink by what expires, by
  induction with a least counterexample (`LeastNat`, `NatSet`).
* `EveryCabinIsTracked`, `MapIsTrue` (under `RequestsAssumption`, `CabinAssumption`):
  `RunningCabinIsTracked` is inductive with two facts on the backend's map: what it names is on
  record, since whatever forgets a record empties the map with it; and it does not name a removed
  container while its successor runs. Without the second, a `show` of the old one could lose the new
  one without being about to create another.
* `RepoIsWhole`, `RunningSandboxesAreKept`, `WorkIsDelivered` (under the assumptions of `Sandboxes`):
  `TypeInv` ties what is left of an operation to its kind. `SandboxInv`: a sandbox that is being made
  is known to its maker alone (`OwnsWhatItMakes`), one that is being removed was forgotten
  (`ForgottenFirst`), one whose start may yet be refused does not run (`Unstarted`), a clone that outlives its timeout acts on one nobody registers
  (`LateCloneIsLost`). `LoneInv`: while nothing overlaps a crew member's commit, each of its
  calls finds in the clone what the one before left (`Progress`): the branch checked out, the file
  written, the work committed. What disturbs it is some operation of the voyage, which ends `alone`.
* `BufferEndsNewest` (under `ActionsAssumption`, `BoundsAssumption`): `BufferIsNewest` speaks of the end of
  a replay. In between, the buffer still holds events of an earlier connection, and the ring pushes
  out the oldest while the replay goes over events it has. What is always true is that the buffer is
  a window of the stream followed by a beginning of it (`Turned`), and that the connection has reached
  a place in the part that ends with what it sent last (`Reached`); each event keeps this (`IngestTurns`).
* `EveryRowListedOnce`: the pages descend in the order of the cursor, from one to the next too
  (`PagesDescend`), so no row is there twice; and what was committed when the listing began and is
  not in a page yet lies past the cursor of the last one, or nothing more is fetched (`Reachable`).
  A page is described by what it may be (`Pages`), the rows after a cursor in order, as many as
  fit, not by how it is sorted. That the order is total on rows of different ids (`RowsAreOrdered`) is
  what `id` in the cursor is for: without it, rows of one transaction are left out at a page's end.

TLC checked every inductive invariant on the instance of its module's run (for the deck with a
larger ring and more events too) before it was proved. The proofs showed what the runs had not:
arms of a CASE that overlapped in `Cabin` and `Sandboxes` (TLC takes the first, the logic any), that
`Sandboxes` needs some work to exist (`WorksAssumption`), and that the two tools disagree on
`SUBSET S \ {{}}`, which is therefore parenthesized where it stands.

So every invariant and action property of a passing run is proved, and both refinements. Only
model-checked:

* all liveness (`LoopEnds`, `RequestsAreAnswered`, `RunsEnd`, `RowIsReleased`, `EventuallySettled`,
  `CallsEnd`, `CabinsEnd`, `StreamEnds`): fairness and ENABLED are out of the prover's reach.

## Not modelled, and why

* Errors of the database itself (a lost connection, a refresh that fails after a commit) and the paths
  that only they take, but for the rollback of a build and foreign keys that fail. Which poneglyphs a
  Doctor loaded is not followed: with another run spawned, its insert may be refused or not.
* A resume without any task (`VOYAGE_NO_TASK`), which is refused before anything changes.
* Events published to Den Den Mushi by the pipeline: best effort, no decision reads them.
* Charting a different plan for a voyage that has one: the phases of a voyage are fixed. The direct
  endpoints of the other stages (`api/v1/captain.py` and its like), but for a build's.
* The session of a request used by the background task it spawned: each run has a session of its own.
* `trim`, which nothing calls and which could remove pending messages from a stream; `replay` and
  `get_pending_count`, which only read.
* A second user: Cabins, previews and sandboxes of different users share nothing but the reaper's
  loop over them, whose copy of the list may be stale by the time it comes to the next one. A second role of a dial config.
* Leaks outside the faults modelled for sandboxes: a destroy
  that raises another error than Docker's, any Docker error from status (which makes a run forget a sandbox that lives), a
  run cancelled while it creates, a crash. Nothing in the code finds such a sandbox again.
* What the answer of a commit says (`git log -1` of whatever is checked out by then); the body of a
  pull request; the output of commands.
* Replay mode in the browser (`cutoverMsgId`, `markLive`): it tells a banner when to hide. `msg_id`
  is compared as a string there.
* The components listed as not modelled in `PROJECT.json`, with their reasons.

## Plan

Done: the models above with their runs, a theorem for every safety property a passing run checks, and
the two refinements, of `EventDelivery` by the bus and of `VoyageLife` by the pipeline.

What would be modelled next: the Captain's check of a plan (`schemas/captain.py`), which is what
`PlanAssumption` stands for; the direct stage endpoints next to a pipeline; the pool of database
sessions with two voyages; two plans of one voyage.
