# Verification of the HWM predictor

The program watches a browser battle, reconstructs it from the captured turn
stream, searches for a good move and shows it in the browser. Beside the live
program stands a Python side that replays a corpus of recorded battles, audits
abilities in it and evaluates the damage models fitted to it. This directory
holds TLA+ models of the parts whose errors would be hard to test (what is
believed after lost, late or repeated payloads, what a recommendation refers to
when the battle moves on during the search, which nodes of the search graph
survive, what the replay makes of a long sequence of records and what the audits
and evaluations read from it), TLC configurations that check them on small
instances, and TLAPS proofs of the main safety properties for every value of the
constants.

## 1. Inventory

| Part | Source | State it keeps | Operations and partners | Modelled in |
|---|---|---|---|---|
| Turn-stream gate of the decoder | `cpp/src/protocol.cpp` `decode_initial`, `decode_update` | none: state in, state out | skips applied half-turns, checks continuity, accumulates risk, decides ready and safe; called by the session store | `TurnStream` |
| Session store | `cpp/src/session.cpp` | one battle: id, state, baseline, buffer of early turns, last hash, last capture time, revision | `capture` (HTTP threads), `snapshot` (mutex), `revision` (lock-free), `set_state` (debug) | `SessionStore` |
| Recommendation service | `http_server.cpp` `/recommend`, `planner.cpp` `plan` | search tree under `search_mutex_`; a thread per connection | snapshot, gates, wait for the tree, search with revision polls, final stale test | `PlanService` |
| Page, hook and relay | `extension/src/main_world.ts`, `content.ts`, `service_worker.ts` | none that survives | forward every payload with a `fetch` that is never retried | `PageLoads` (as environment) |
| Search graph | `planner_tree.hpp`, search loop of `planner.cpp` | nodes by state hash, edges with outcomes, key of the graph | acquire, bind outcome, add up, prune to a new root; called by one request at a time | `SearchTree` |
| WebSocket status stream | `http_server.cpp` `websocket_stream` | last revision sent | polls the revision, sends status, heartbeats | `Bridge` |
| Recommendation scheduling | `service_worker.ts`, `schedule_identity.ts` | guard key, epoch, timer, socket, latest answer | status push, debounce, request, release after failures, reconnect | `Bridge` |
| Side panel | `sidepanel.ts` | requests of its own under way; shares the token and `hwmLastRecommendation` with the worker | `recommend`, `pair`, `guardCurrentRecommendation`; also renders the stored answer | `SidePanel`, without the rendering |
| Pairing and authorisation | `pairing.cpp`, request filter of `http_server.cpp` | token, attempts | no influence on the battle state | `Bridge`, as an input of scheduling |
| Command interpreter | `protocol.cpp` `apply_commands` | stacks, deferred move, acting stack | applies the commands of a half-turn | through its Python mirror |
| Battle simulator | `simulator.cpp` | none | legal actions, damage, stack hit points | not modelled |
| Replay parser | `protocol/replay.py` | stacks, acting stack, commands collected so far, effects and their counters | labels, judges and applies the commands of every decision of a recorded battle | `StackHealth`, `Board`, `WireRecords`, `ReplayCommands`, `ReplayEffects`, `ReplayDecisions` |
| Ability evidence scripts | `ability/*_evidence.py` and others | tables over the corpus | each reads decisions of the replay parser, before, commands and after, and classifies them | `Evidence`, `ProcEvidence`, `AreaEvidence`, `SpellEvidence`, `StrikeEvidence`, `EvidenceAudit` |
| Evaluation gates | `evaluation/dynamics_*.py` | predicted hit points along a window, examples | replays decisions with predicted damage, chooses a threshold | `DamageChain`, `Calibration` |
| Corpus collection | `corpus/collector.py`, `urls.py` | payload and metadata files, counters | downloads battles, resumes | `Collector` |
| Learned tables, tools, dataset building, training, catalogue, scripts | `cpp/src/*_model*.cpp`, `cpp/src/*.cpp` tools, `python`, `scripts` | files | offline | see section 8 |

The interaction is: page -> hook -> service worker -> `POST /capture` -> session
store (decoder) -> revision -> WebSocket -> service worker -> `POST /recommend`
-> planner -> service worker -> `hwmLastRecommendation` -> side panel. The panel also asks
`/recommend` itself, on a press of its button and after a pairing, and writes the same key. The
revision number is the only thing that ties the two halves together: `/capture` writes it under
`mu_`, everything else reads it without a lock. Offline the chain is: links -> collector
-> recorded battles -> replay parser -> decisions -> evidence scripts and
evaluation gates; here files are the only shared state.

What makes each part hard, and correct:

* **Decoder gate.** Payloads overlap, repeat and leave gaps. A state may be
  called ready only when it is the complete history 1..n, each command of it is
  known, and `validate()` finds nothing; it may be called safe only when the
  unresolved share of the *whole* history is at most 30 %.
* **Session store.** Turns overtake the static payload, browsers post twice,
  two tabs may show two battles, a page is reloaded, the daemon restarts.
  Correct: never mixes battles, never rolls a vouched-for history back, never
  forgets buffered turns, and can always be brought back by a full stream.
* **Recommendation service.** The search runs for a long time on a snapshot
  while captures publish other states. Correct: an `ok` answer describes the
  state published at that moment, one request at a time is in the tree, and
  each request is answered.
* **Page and relay.** Forwarding is unordered and lossy. Correct: reloading the
  page repairs the session.
* **Search graph.** Nodes are owned by a table, edges hold their addresses, and a
  new root erases what it does not reach. Correct: no edge dangles or leads to another
  state, and neither values of the other side nor moves of another structure are met.
* **Scheduling and side panel.** The guard key must be released by exactly the
  request that claimed it, answers of an older epoch must be dropped, and after
  the last status the newest state must eventually have its recommendation. The panel's
  requests have no epoch: what they write must not hide what the worker found later, which is
  documented but not so (finding 3).
* **Replay parser.** The commands of a decision are collected, labelled and judged
  on the state before them, and applied one after the other to a state that each of
  them changes. Records are overloaded, repeat amounts, and set effects that must last a
  counted number of activations. Correct: the three fields of a stack's hit points stay one
  quantity, nothing is made from nothing, what was judged exact is applied, the label agrees
  with the result.
* **Evidence scripts.** They explain differences of states by records, each in its
  own way. Correct: a difference has its record, and two scripts that look at one
  event agree on it.
* **Evaluation gates.** Predicted and recorded changes are mixed in one chain of hit points. Correct:
  what was not predicted follows the recording, right predictions reproduce it, windows are counted once.
* **Corpus collection.** A run may stop between or inside two writes and is started again. Correct: what is
  described as whole is whole, and the summary accounts for every battle.

`PROJECT.json` lists every hazard with the line where it bites and the
properties aimed at it.

## 2. Modules

| Module | Role |
|---|---|
| `TurnStream` | `decode_initial`/`decode_update` as operators on states and bodies |
| `SessionStore` | the store as a state machine over `TurnStream` |
| `TrustedLog` | abstract promise of the store: no copy, or a growing gapless copy of the current battle |
| `PlanService` | EXTENDS `SessionStore`; concurrent `/recommend` requests and the planner's life cycle |
| `PageLoads` | EXTENDS `SessionStore`; one page, a lossy unordered relay, daemon restarts |
| `Bridge` | service worker and status stream beside a reduced daemon: claim, epochs, timer, requests, stops and pairings |
| `SidePanel` | EXTENDS `Bridge`; the panel's own requests and the storage key both write |
| `SearchTree` | the graph that the planner keeps between requests |
| `StackHealth`, `Board` | hit points of a stack; footprints, adjacency and landing cells |
| `WireRecords`, `ReplayCommands`, `ReplayEffects` | reading a record; what a command means and whether it is exact; what it changes |
| `ReplayDecisions` | EXTENDS these; the replay of a battle as a state machine |
| `Evidence` | EXTENDS `ReplayDecisions`; the decision as the scripts see it, and what they share |
| `ProcEvidence`, `AreaEvidence`, `SpellEvidence`, `StrikeEvidence` | EXTEND `Evidence`; what 33 scripts classify |
| `EvidenceAudit` | EXTENDS all four; what the scripts rely on |
| `Calibration`, `DamageChain` | choice of a threshold; multi-step evaluation over `StackHealth` |
| `Collector` | runs of the collector over a list of links, stopped anywhere |
| `MC*` | constants for TLC |
| `SessionStoreProofs`, `PlanServiceProofs`, `PageLoadsProofs`, `BridgeProofs`, `SearchTreeProofs`, `ReplayProofs`, `DamageChainProofs`, `CollectorProofs` | lemmas and theorems about the module they are named after; the lemmas about `TurnStream` are in `SessionStoreProofs`, those about the evidence scripts in `ReplayProofs` |

An operator whose comment starts with "Faulty:" is a mistaken variant of the
definition that follows it. No specification uses it; substituting it for the
definition makes the property named in `PROJECT.json` fail, which shows that
the property is sensitive to the code.

### TurnStream

What commands do to stacks is a function of the half-turns applied since the
static snapshot, so a `BattleState` is represented by the sequence `log` of
these half-turns, the flags `contig`, `ready`, `safe` and the cumulative
counters. Which half-turns contain an unknown command (`Dirty`) or one with
unresolved semantics (`Rough`), and after which logs `validate()` complains
(`Corrupt`), are constants: the checks and proofs hold for every choice.
`Advance` is the body of `decode_update`: filter of already applied slices
(`Fresh`), continuity (`Continues`, including the sticky `contig` of the state it
starts from), counters, `ready`, `safe`, and the branch that leaves everything
alone when nothing is new. A body is `static`, `turns`, `heartbeat`, `empty`,
or `broken` (static markers but no record that parses).

Assumed of the server, and true of all 866 battles recorded in the repository:
half-turns are printed in ascending order in a body and each carries at least
one record. Hence coverage is 1 exactly when no command is unknown. One unknown
or unresolved command is counted per half-turn. 32-bit counters do not wrap in
a battle.

### SessionStore

| Model | Code |
|---|---|
| `CaptureRefused` | early returns of `capture`: no battle, heartbeat, duplicate hash, out of order |
| `CapturePublished` | reset for another battle, decode, baseline, `++revision_` |
| `CaptureBuffered` | nothing decoded: push to `pending_updates_`, evict the oldest |
| `ReplayPending` | one iteration of the replay loop |
| `SetState` | `set_state`, the demo route; a step of `PlanService` only |
| `Decode` | choice between initial, update and rebuild from the baseline |

A capture is one step, placed at the increment of `revision_`: all it writes is
protected by `mu_`, and the only thing other threads read without the mutex is the
revision itself. The replay loop runs *after* the increment, so its
iterations are steps; `replaying` stands for `mu_` being held and blocks everything that
needs the mutex, and nothing else. Content hashes are taken to be free of
collisions. Diagnostics (warnings, counters of captures, runtime probe, the file
of persisted captures) influence nothing and are left out.

### PlanService

A thread is one request (the server closes each connection after one answer).
`RecommendRefused/Admitted` are the part of the handler before `plan`,
`PlanRefused/Accepted` the gates of `plan`, `Acquire`, `CancelledAfterWait`,
`StartSearch` the wait for `search_mutex_` and the poll after it, `Simulate`,
`SearchCancelled`, `SearchFinished` the search loop, `Answer`, `Discard`,
`AnswerStale` the rest of the handler. `Over`, `Ours` and `NoMoves` say after which
histories the battle is finished, an identified stack of ours is to act, and no
action is legal. The time budget may end the loop after any simulation. The
budget is at least one simulation, so a finished search has a candidate. The
content of the tree is in `SearchTree`.

### PageLoads

`Load` sends the static payload and the full stream; they travel independently
and may be delivered in either order or lost. `Play` sends one further
half-turn; the page polls again only after an answer, so polls do not overtake
each other. `Lose` is a failed `fetch`. `Restart` loses the session. All
payloads of a page are within the tolerance of the ordering check, hence the one
capture time. The game page is not in the repository; its behaviour is taken
from the recorded captures and from how the extension and the decoder treat it.

### Bridge

| Model | Code |
|---|---|
| `Publish`, `Empty`, `Crash`, `Restart` | what the worker can see of the daemon: published state, revision, response to a forwarded capture |
| `PushStatus` | one sending iteration of `websocket_stream`: the revision is read *before* the status, so the status may be newer than the revision remembered as sent |
| `ScheduleClaimed`, `Schedule` | `hwmScheduleRecommendation`: claim, `++epoch`, replaced timer |
| `TimerFires`, `Settle` | `hwmRequestRecommendation` up to the return of `hwmDaemonJson`, with the 401 that removes the token |
| `Discard`, `Pass`, `Store` | the epoch test, the release of the claim, and, after further awaits, `storage.local.set` |
| `Connect`, `ConnectUnpaired`, `Disconnect` | `hwmConnectWebSocket` and its `onclose` |
| `Pair`, `Unauthorized`, `TokenChanged` | the token in storage, written by the panel and removed after a 401 by whoever meets it, and the `onChanged` listener that resets the scheduling |
| `WorkerRestart` | the browser stops the worker; only `chrome.storage` survives |

This is the worker alone: `stored` is what *it* last wrote to `hwmLastRecommendation`, and `NewestStays` and
`EveryDecisionIsAdvised` are about that. What the key really holds is `latest` of `SidePanel`.
Every stretch of the worker between two awaits is one step. Calls of
`hwmScheduleRecommendation` that are due (`events`) happen in any order, since
each comes after awaits of its own. An epoch is only ever compared with the newest one, so a
call remembers whether its epoch is the `last`. The daemon of this module is a reduction of
`PlanService`: `/recommend` answers `ok` for the published state or, if something was published
since the call, `stale`. An `ok` for a battle that was just left (finding 1) is an answer settled before `Empty`.
`Decisions` stands for states that pass the test of `onmessage` and the gates of `/recommend` alike.
Statuses `error` and `offline` have the same effects and are both called `offline`.

Assumed: the storage calls of one worker complete in the order of their issue; requests in
flight when the daemon stops fail; the failures of that moment are handled within the 1500 ms
before the socket is opened again. The last one matters: if a failed request were
handled only after the first status of the new connection, the status would find
the name still claimed, the release would come too late, and nothing would ask again.

### SidePanel

The panel is composed with the worker by conjunction: each of its actions is an action of `Bridge`, or leaves the variables of
`Bridge` alone, and says what the step means to `asks` (the calls of `recommend()` under way), `pushed` (`hwmLastDaemonStatus`) and
`latest` (`hwmLastRecommendation`, whoever wrote it).

| Model | Code |
|---|---|
| `Click`, `PairAndAsk` | the button; `pair()`, which stores the token and then calls `recommend()` |
| `AskSettles` | `POST /recommend` of the panel returns, possibly with the 401 that removes the token (`TokenUsed`); a failed fetch throws and stores nothing |
| `GuardByPushed`, `GuardByFetched` | `guardCurrentRecommendation`, with the pushed status or, when that is 5 s old, with `GET /status` |
| `AskStores` | `storage.local.set` of the result, with no test at all |
| `StoreAnswer`, `StoreStatus` | the worker's writes of the recommendation and of the pushed status |
| `PublishUnder`, `CrashUnder` | what a publication and a stop of the daemon mean to the panel's requests |

The age of the pushed status is not counted: as long as there is one, either guard may be taken. Two states with one hash
are one view. A request is made with the token of the moment it settles. The panel may be
closed at any time, so nothing it does is fair.

Only a weaker promise than that of `Bridge` holds of the shared key. `StepsBackByPanelOnly` says that the key goes back to an older state by a
write of the panel, or by a write of the worker over one of the panel (the panel may have been the newer), but
never from one answer of the worker to another. `PanelKeepsNewest`, the sentence of `docs/LIVE_VALIDATION.md`, is violated (finding 3).

### SearchTree

| Model | Code |
|---|---|
| `nodes` | `nodes_`: a function from addresses to nodes, so that erased nodes and reused addresses can be told apart |
| `key` | battle, perspective and structure fingerprint of the graph |
| `Reuse`, `Anew` | the comparisons, `find` and `prune_to`, or `clear` and `acquire` |
| `Leaf`, `DeadEnd`, `Ended`, `Descend` | the ways through a call of `simulate` up to the recursive call: depth limit, no action, an action that is invalid or ends the battle, or `acquire` and `bind` of the outcome |
| `BackUp` | the return of a call: visits of node, edge and outcome, value of the edge |
| `Cancel`, `Answer` | the end of the loop; `init_node` of the root before candidates are collected |

`path` is the stack of the recursive calls. Which edge a simulation picks and what `sim_.apply`
yields are open (`Moves`, `Results` are any constants), so priors, widening and scores do not matter. The
sum of values is kept as the set of sides from whose view it was computed. `state_hash` leaves out the static
structure (the test of the planner tree says so), hence a state of the model is a hash, and the structure
comes with the request. Hashes are taken to be free of collisions otherwise. `acquire` and `bind` are one
step with the choice of the outcome, since one request at a time holds `search_mutex_` (`SearchExclusive`).

### The replay parser

`StackHealth` has `damage`, `heal` and the hit-point equivalent of `RawEntity`; `Board` the footprints, the
two readings of an m-record (a step or a position) and the landing cell of an attacker. `WireRecords` is
`parse_commands`: which numeric field of which record becomes actor, target, amount, cell. A record is a tag, a
code, its numbers and whether it has the shape of its code; digits and text are left out. `ReplayCommands`
has the validity tests (`ValidRaiseDead`, `ValidManaFeed`, `ValidProc`, ...), the flags of semantic exactness and the
label of a decision (`_action_from_compact`). `ReplayEffects` is `_apply_command`, one operator per branch, and
the wearing off of effects at the end of an activation.

| Action of `ReplayDecisions` | Code of `iter_compact_decisions` |
|---|---|
| `Arrive` | the next chunk of the recording; what is replayed is chosen among the legal actions of the stack to act |
| `Collect` | a command that is no activation joins those of the decision |
| `ActivateIdle` | the first activation, or one that follows another at once: what was collected before the first one is dropped, no decision is made |
| `Decide` | an activation ends the decision of the stack that was active: label, flags, state before |
| `ApplyNext` | one command of the decision is applied |
| `Conclude` | landing cell, effects that wear off, the new active stack; the row is given out |

Numbers of the wire that only give text to a report are left out, and so are the raw values of the rage and
bloodthirst counters. A decision is looked at by the scripts in the state before `Conclude` ends (`Concluding`, `Decision`).

What the environment sends is a record whose numbers are digits (only the last of a psc-record may have a sign), and
an s-record places a stack that is there or summoned in the same decision (`WireOK`, `Playable`).

The assumptions of the module (what a stack and a record look like) were compared with the
866 recorded battles of the repository: all 13,336 stacks of creatures at the start, and 213,665 after
decisions, satisfy `Whole`; heroes do not (their first creature has more hit points than its greatest number),
and the properties exempt them. Each turn but the last of a battle ends with an activation,
so it makes no difference that decisions are cut at activations and not at turns.

### The evidence scripts

Of each script the model keeps the classification: which stacks are carriers, which decisions
it looks at, which records and state differences it pairs, and the facts of a row that its counters tell
apart. The text of the report, the examples, tooltips and tests of significance are left out. Scripts with one purpose (the three that study
crippling wounds, the four that study power strike) are operators next to each other,
which is what `AuditsAgree` compares.

Two properties have conditions that the code needs. `HitPointsAreAccountedFor` speaks of creatures that the records of a decision
change by damage and healing only (`Accountable`): an h- or bom-record removes a stack with whatever it has left, an
s-record sets its number anew, a phantom dies of any damage, and the numbers of a hero are no hit points. `BombsAreDeaths` excepts a carrier that
another record of the same decision heals or places again. What was not of this kind, healing above the greatest number and damage
beyond the last creature, is clipped by the code and bounded by the property.

### DamageChain and Calibration

`Record` makes a recording of any legal deeds; `OpenWindow` and `StepWindow` are the two loops of the
evaluation, every policy carrying its own hit points; `Calibrate` is `choose_threshold` on examples with any
probabilities. Damage is a whole number, the formulas of the models are rates per creature, and a probability is
a number of steps, as the code rounds it to 12 decimals.

As in the code, the candidates for the threshold are 0, 1 and the `Intervals + 1` quantiles of the examples' probabilities, each at its place
between two of the sorted probabilities and rounded to a step (`Quantile`; 101 quantiles in the code, and halves are rounded up here, to
even there). A committed gate has 4365 examples, so most probabilities are no candidates and the chosen threshold need *not* be the best
one. What `CalibratedIsNoWorse` claims is owed to the two ends: it is no worse than always using the generic formula
(threshold 0), nor than never using it (threshold 1) unless a probability is rounded to one, which that threshold still selects.

### Collector

Each write of a file has three outcomes: not begun, cut, whole. `Stop` may come at any step, since nothing around the writes
catches anything; `Start` begins the next run with the files that are there. Servers and links answer or fail freely.

## 3. Runs

| Run | Checks | Instance |
|---|---|---|
| `session_store` | `StoreTypeOK`, `ReadyIsSound`, `SafeIsWithinRisk`, `OneBattle`, `BufferDrained`, `FullStreamRecovers`, `KeepsPromise` | two battles, five half-turns, static, broken, full and partial streams, one dirty and one rough half-turn, one corrupt log, three capture times, buffer of 2, six revisions, no demo route |
| `plan_service` | `PlanTypeOK`, `RevisionNamesState`, `PlansAgree`, `SearchExclusive`, `OkDescribesPublished`, `DemoLeavesNoTrace`, `OkIsTrusted`, `EveryRequestAnswered` | two requests, two battles, two half-turns of which the second is over the risk limit, three revisions, two simulations, a poll before every second one, a time budget, debug routes on |
| `page_loads` | `ReloadRecovers`, `FirstLoadInAnyOrder` | three page loads, three restarts, three half-turns |
| `bridge` | `BridgeTypeOK`, `ClaimIsOwned`, `NewestStays`, `EveryDecisionIsAdvised` | one decision and one state of the enemy's turn, two publications, two concurrent requests, two due events, one fault (a stop of socket, worker or daemon, or a pairing) |
| `side_panel` | `StepsBackByPanelOnly` | as `bridge`, with one call of the panel at a time and one due event |
| `search_tree` | `GraphIsSound`, `GraphFitsRequest`, `ReuseKeepsStatistics` | three requests of two sides under two structures, two simulations each, depth 2; a state reached by two actions, one with a summoned stack, one without actions, one of a battle without an id; five addresses |
| `replay` | `ReplayTypeOK`, `StacksAreWhole`, `TimedEffectsAreCounted`, `ManaIsNeverMade`, `ExactIsApplied`, `MeleeLandsWhereLabelled`, `BashLastsUntilActivation`, `AuditsAgree`, `AuditedEffectsAreExplained`, `HitPointsAreAccountedFor` | four battles (melee, magic, board, abilities) of three to five stacks on a board of 5 x 4, four actions in any legal order |
| `damage_chain` | `WindowsAreCounted`, `CalibratedIsNoWorse`, `RightPredictionsAgree` | three stacks, one a phantom, four decisions, two fitted profiles, horizons 2 and 3, three probabilities, three quantiles (`Intervals` is 2) |
| `corpus` | `DescribedIsWhole`, `RunAccountsForAll` | three battles in four links, one with three candidate addresses, a limit or none, three runs |
| `answer_is_current` | `AnswerIsCurrent` is violated | as `plan_service`, debug routes off |
| `capture_order` | `CaptureOrderIsRobust` is violated | as `page_loads` |
| `side_panel_order` | `PanelKeepsNewest` is violated | two decisions, one request of the worker and one of the panel, no faults |

Deadlock is checked in the run of `MCSessionStore` (a refused capture is always
possible). It is not checked in the others: when every request is answered and the
bound on revisions is reached, when loads and half-turns are used up, or when the worker has
nothing due, when a recording, a list of links or the number of requests is used up, the model stops as it should.

**Bounds.** `MaxRevision` bounds publications. Three are enough to publish,
supersede and supersede again during one search; a fault of cancellation needs two. The
buffer holds 2 instead of 16 so that eviction happens. Half-turns up to 3 to 5
allow a gap, its contiguous continuation, and a full stream over it. Two battles
suffice because the store compares only with the current one. Two requests
exhibit every conflict over the mutex and the same revision. In `Bridge` two publications in two
runs of the daemon give a state that is older, one that is newer, and one that repeats a name; two
requests are one of the last epoch and one it overtook. In `SidePanel` one call of the panel at a time
is enough to meet every order of its answer, guard and write with those of the worker; further ones would only compete with one another. In `SearchTree` the
second request can reuse, restrict or replace the graph of the first, and the third meets the outcome of
that; two simulations of depth 2 give a node with two edges to it, and five addresses for six states of a battle make
an address serve twice. In `replay` four actions are enough for an effect of two activations to be set, to wear off once and to be set
again or end; each kind of record that the model knows occurs in one of the battles, next to
those it occurs with in the recordings. In `damage_chain` a window of three decisions can leave the recording,
kill and revive a target and return, and up to four attacks with three quantiles leave probabilities
that are no candidates. The proofs remove all of these bounds or leave them arbitrary.

**Fairness.** `ReplayPending` is weakly fair: it is a loop in one critical section.
In `PlanService` each thread's steps are weakly fair: an operating-system thread
that can run does run. No strong fairness of the mutexes is assumed: a request
takes `search_mutex_` once, so a waiting one competes with finitely many others, and
`mu_` is kept busy only by publications that carry a new revision. In `Bridge` whatever is due in the
worker or the stream (`Work`: an elapsed timer, a settled or failed fetch, a due listener, a due
reconnect, an unsent status) eventually happens; the browser's event loop and the polling thread
do so, and no due item can be postponed for ever because the world around the worker takes only
boundedly many steps. The daemon need not come back, and the user need not pair. `SidePanel` adds no fairness. Nothing is assumed
about captures or requests occurring at all.

## 4. Proofs

`StoreSpec` is a store without the demo route, and the theorems of `PlanService` have the form
`ASSUME ~DebugEnabled PROVE Spec => P`: the demo route installs a fabricated state, so soundness is promised by a
daemon without debug routes. The exception is `DemoIsForgotten`, which is about those routes and assumes
nothing of them. Other assumptions are the `ASSUME`s of the modules.

* **`SessionStoreProofs`.** Facts about `Fresh`, `Count` and `Advance`: an update preserves
  "the verdicts of the state follow from its whole log"; a sound full stream makes a
  pristine or ready state ready (`FullStreamReady`). The properties of the store are not inductive alone. The strengthening
  `StoreInv` adds (1) that a baseline exists whenever a state does and is the pristine
  `Initial(battleId)`, which is why rebuilding is possible at all; (2) that the counters of the
  state equal the counts over its whole log and its flags follow from them, (3) that
  the buffer contains bodies of the current battle only and is empty of turns unless there is
  no state or the loop runs. From it: `ReadyStatesAreSound`, `SafeStatesAreWithinRisk`,
  `OneBattleOnly`, `NoTurnsLeftBehind`, `RecoveryFromAnyGap`, and the refinement
  `KeepsItsPromise` of `TrustedLog`, each action being a step or a stutter of it.
* **`PlanServiceProofs`.** Whole-store facts are inherited. The strengthening `PlanInv`
  adds: a request's revision is at most the current one; nobody holds the number
  under which a replay is running (readers wait for `mu_`); while the number is current the state is
  the one read, or none. From it: revision uniqueness, agreement of plans,
  exclusive search, trusted recommendations, and that an `ok` answer describes the
  published state. With debug routes `StoreInv` fails, since the demo state has no baseline; `DemoInv`
  keeps the part of it that survives (a session without a battle is empty, a replay has a state and something to replay), and
  that is enough for `DemoIsForgotten`: whatever a demo left, the next battle starts without it.
* **`PageLoadsProofs`.** `PageInv` joins `StoreInv` with what the page knows of the store: why no
  payload of a load is taken for a repetition of an earlier one (`NotRepeated`: otherwise a reload would be refused as a
  duplicate and repair nothing), and how far the session has come since a load that lost nothing
  (`Progress`: with the stream still due the state has everything but that, with the static payload still due the
  stream waits in the buffer alone). From it: `ReloadAlwaysRecovers` and `FirstLoadNeedsNoOrder`, for any number of
  loads, restarts, losses and half-turns.

* **`SearchTreeProofs`.** `GraphIsSound` is not inductive: a call that returns writes to the node it came from, which
  must still be there and hold the same state. `IInv` adds where the simulation is (`Walk`): every call on the path was made for the
  state of its node, and the first for the root. `Retained` is the intersection of all sets that contain the
  root and the children of their members; `RetainedIsClosed` shows that it is one of them and the
  least, which gives both that pruning cuts no edge (`GraphStaysSound`) and that it
  keeps no more than needed (`ReuseIsWhole`). `GraphFits` needs that a node is entered only in its own state, under the key of the graph.
* **`ReplayProofs`.** `IInv` says that every stack of the working and of the recorded state is well formed
  (`StackOK`: a standing creature stack is whole, effects with a counter are there exactly while it runs), and that
  the records still to come and the commands still to be applied are. Each branch of `_apply_command` has a lemma that it preserves
  `StackOK`; they rest on `DamageIsAccounted` and `HealIsAccounted`: damage takes exactly its amount from
  the total of a whole stack, or all of it, and healing gives exactly its amount up to the greatest number the
  stack ever had. Assumed are `SummonsAssumption`, `BattlesAssumption` and `ActionsAssumption`: initial stacks, summoned ones and records are
  of the shape the recordings have, and no S-record is called like an effect that the parser makes itself. From it: `ReplayTypes`,
  `StacksStayWhole` and `EffectsAreCounted`, for every board, battle and record.
  Two action properties need more. For `NoManaIsMade` every branch of `_apply_command` but one is shown to be `Calm` (no stack
  gains mana), and the one that is not, the feed, to take from one stack what it gives to another of its side, which
  rests on the validity test of the feed (`FedIsPaid`). For `BashMarksLast` the danger is a summons that overwrites a marked stack:
  `MarkInv` says that no summons still to be read, collected or applied names a marked stack. It is inductive because the end of
  a decision is the only step that marks a stack, and nothing is left to be read or applied then; the corrections of a decision
  change places and no names (`CorrectedSame`), and no record is decoded as a summons or an activation but M and C (`DecodedKind`).

  The three audits compare the states before and after a decision, so none of them is inductive: in the middle of it
  they say nothing. `DecisionInv` says what holds there. The commands that are still to be applied are the last ones of the row, up to the corrected
  places (`Alike`), and the others have made of every stack what `Follows` says: it kept its owner, traits and spells and lost no effect; stone and
  crippling wound are on it if a valid record put them there, and only if some record names it; a bomb that nothing undoes has killed it; and its hit points
  have changed by the running sums of what the records take and give (`Accounted`). `Accounted` has the exact clause for stacks
  without healing since clipping at nothing adds up over any number of blows, while clipping at the greatest number does not mix with
  blows, so the sums bound the total from both sides only. The steps are `CommandOutcome`, one case per kind of command, from a lemma per branch of
  `_apply_command` about what the branch leaves alone (`Plain`), and `FollowsStep`. The running sum is a recursive function; that it exists
  (`RunningSum`) is proved by induction over intervals. Validity is judged on the state before the decision and again when a record is
  applied: for a proc the two agree because traits and owners never change (`Steadfast`). `DecisionInv` also needs that no summons replaces a stack that is
  there, and that the spell books are those of the battle (`Books`). `Decide` starts the relation at zero commands, because the state before a decision
  is the present one until then; `AfterCommandsLasts` carries it over what `Settled` adds.

  `DecisionsAreFollowed` is this invariant as a theorem. `HitPointsAlwaysAccountedFor` and `AuditedEffectsAlwaysExplained` read their property off `Follows` when nothing is left
  to apply. `AuditsAlwaysAgree` needs that only for bombs; the rest are facts about any sequence of records. Looking back from a wound for the last hit of
  its pair and looking ahead from a hit for the wounds before the pair's next one give the same hit (`WoundsAttributed`). A search over all forced positions and
  one that takes the first alone find the same shove (`FirstShove`), because an I-record that follows a later forced position follows the
  first as well. A wound within a side fails `ValidProc` (`OwnSideOpen`), and a status that the acting stack's book
  explains as a light spell is a status match of the decoder (`LightExact`).
* **`DamageChainProofs`.** `ChainInv` says of a window that it begins with the recorded hit points, that its counters are the
  cardinalities of sets of decisions (the attacks of the window, the starts measured so far for each horizon), and that a threshold is the
  chosen one. `OthersFollowTheRecording` needs that giving back and clipping cancel for a stack that follows the recording;
  `WindowsAreCountedOnce` that no window is cut before a horizon it is long enough for;
  `FittedThresholdIsNoWorse` that 0 is a candidate, that some candidate selects nothing while all probabilities are below one, and that the
  chosen threshold is the least of a finite set in a total order (`NoWorseThanEither`); `RightPredictionsStay` needs no invariant beyond the types. Sums over stacks and examples are folds over finite
  sets; what is needed of them is proved by induction over finite sets.
* **`CollectorProofs`.** `CollectorInv` relates the counters of a run to the files that are on disk, for the places behind it
  (`Counted`). It is inductive because a list has each battle once (`Distinct`, proved of `LoadUrls` by induction over the lines), so that
  the files of the place a run is at are never those of a place it has counted. From it: `DescribedPayloadsAreWhole` and
  `EveryBattleIsCounted`, for any list and any number of runs stopped anywhere.
* **`BridgeProofs`.** `BridgeInv` places the last epoch: it belongs to the timer, to one call, to the
  newest answer on its way to storage or to the stored one, and to only one of them; whoever has it holds the
  claim until it gives it back (`LastHoldsClaim`). `AnswersInOrder` orders all answers that are or will be stored:
  an answer given now is about the newest revision, so it is newer than everything before it in the
  pipeline, and only the last epoch enters the pipeline. Both are needed at once, since it is the
  uniqueness of the last epoch that keeps a second, older answer out. From it: `ClaimsAreOwned` and
  `NewestAnswerStays`, for any number of states, publications, requests and faults. These are theorems about the worker's own
  moves. That the panel does not disturb them is `PanelLeavesWorker`: the composition, without fairness, implies the worker's safety
  specification, because every step of the composition is a step of `Bridge` or a stutter of it (`PanelStepIsBridgeStep`). With the
  invariant carried over, `OnlyThePanelStepsBack` says what is left of the order of answers in the key that both write, for any
  number of requests of the panel, and `PanelTypeCorrect` that the panel never stores a failure to reach the daemon.

Two invariants have a theorem and no run, since the theorem says more than any instance: `UntouchedAreObserved` of
`DamageChain`, a conjunct of `ChainInv`, and `PanelTypeOK`, the type invariant of `SidePanel`.

The only temporal reasoning is the standard invariance rule, and for action properties the
invariant in the current state.

Only model-checked:

* `EveryRequestAnswered` and `EveryDecisionIsAdvised`: liveness and `ENABLED` are beyond the prover.
* `ExactIsApplied` and `MeleeLandsWhereLabelled`: they are not true of arbitrary sequences of records. What was judged exact on the
  state before a decision need not be valid after its other records (a feed announced twice; a cell that another record occupies before a
  big attacker lands on it),
  so they hold because of which records servers send together. The battles of `MCReplay` are chosen for that; a theorem would have to
  assume it.
* The three violations: a counterexample is a trace.

## 5. Findings

1. **A reset does not cancel.** `capture` of the first payload of another battle empties the state
   (`session.cpp:81`) without changing the revision unless that payload decodes to a state.
   A request admitted before is not cancelled and is answered `ok` with a move for
   the old battle (`AnswerIsCurrent`), although SPEC.md:1940 forbids recommendations for a
   stale state. `OkDescribesPublished` is what the code does ensure: the published state is the
   planned one or there is none.
2. **Capture order is robust only for an empty session.** The comment at `session.cpp:136`
   claims it in general. When a state exists, or turns were buffered before a restart, a stream
   that overtakes its static payload leaves the session not ready until a further load
   (`CaptureOrderIsRobust`). `ReloadRecovers` and `FirstLoadInAnyOrder` say what does hold.
3. **The side panel can replace a newer recommendation.** `docs/LIVE_VALIDATION.md:39` says that it must never. `recommend()` compares
   its answer with a status and stores it after further awaits without another test (`sidepanel.ts:38,51`). In the trace of `side_panel_order` the panel's
   move for one state passes the guard, the next state is published, the worker asks and stores its move, and then the panel stores the older one
   (`PanelKeepsNewest`). The window is narrow when the guard and the write follow at once, since the worker waits 250 ms before it asks,
   and the panel's `refresh` guards what it renders again. But the worker does not ask again: its claim holds, so the newer move is lost from the key until
   another state is published. `NewestAnswerStays` and `OnlyThePanelStepsBack` say what does hold.

Observations that no run checks, but that a reader of the scripts should know:

* `six_heads_evidence.py` says in its report (line 350) that its geometry is anchored at the place of the carrier's movement before
  the blow. It looks for commands called `MOVEMENT`, but the parser calls them `MOVE` (`replay.py:1096`), so the place is always the
  one before the decision (`AttackAnchor` in `AreaEvidence`). `teleport_evidence.py:148` has the same filter and never sees a movement.
* The blow that ends a battle is never a decision: what follows the last activation is collected and dropped. 853 of
  the 866 recorded battles have a damage record there, though the comment at the end of `iter_compact_decisions` speaks of result text.
* Within a decision the parser removes no effect but the entrenchment of the mover, and never sets torpor, so
  the removals that the purge, torpor and raging-blood scripts look for cannot appear in its states.
* A stack that is petrified by the retaliation to its own attack loses one activation of the effect at once.
* A payload that a crash cut short is taken as complete by the next run of the collector, keeps no or an old metadata file and is counted as ok.

## 6. Plan

Done: all modules of section 2 and the theorems of section 4. Next, in this order:

1. The assumptions under which `ExactIsApplied` and `MeleeLandsWhereLabelled` hold, checked against the recordings and then proved.
2. The parts of the replay mirror that number turns (`decoder.py`), beside `TurnStream`.
3. The display of the panel (`refresh` and the message of the worker), on top of `SidePanel`: which answer is rendered next to a status that
   may be five seconds old.

## 7. Scope of the models

Out of order payloads older than the tolerance, late payloads of an earlier battle and duplicates are in
`SessionStore`'s environment, which posts any body for any battle at any time. No property says that
the session stays with the *newer* of two battles: the code follows the last payload. A full stream that is
older than a delta already applied can rebuild an untrusted state without that delta; the
store is then ready and behind, which `TrustedLog` allows (a withdrawn copy may come back shorter).

`EveryDecisionIsAdvised` has one exception that the code really has: a restarted daemon counts revisions from one
again, and may publish under a name for which the worker holds a `stale` or `not_ready` answer; the
name is still claimed and is not asked about again until another state or token comes.

## 8. Not modelled

* The simulator and the C++ `apply_commands`: transitions are floating-point formulas over fitted tables, and the
  integer part of them (stacks, records, effects) is modelled from the Python parser of the same records.
* Damage formulas, evaluation functions, priors and learned tables: floating point and fitted numbers.
* Rendering, logging, JSON formats, HTTP parsing: no state that properties are about. Of the side panel what it renders is left out (`renderRecommendation`,
  `refresh`), since no other part reads it.
* Dataset construction, training, fits, bootstraps and significance tests of the evaluation gates, the catalogue and the registry of
  abilities, the HAR import and the manifest, tooltips and texts of the reports: batch conversions of files.
* The parser of the initial state (`parse_initial_entities`): a conversion of text whose result is a constant of `ReplayDecisions`.
* Liveness of captures: the browser owes the daemon nothing.
