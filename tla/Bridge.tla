------------------------------- MODULE Bridge -------------------------------
(***************************************************************************)
(* Recommendation scheduling in the service worker of the extension        *)
(* (service_worker.ts, schedule_identity.ts) between the status stream and *)
(* the /recommend route of the daemon.                                     *)
(*                                                                         *)
(* A status pushed by the daemon, or the response to a forwarded capture,  *)
(* names a published state by battle, revision and hash.  The worker asks  *)
(* for a recommendation 250 ms after the newest name it has not claimed    *)
(* yet, gives every such job an epoch, and drops the answers of all epochs *)
(* but the last.  The daemon is reduced to what the worker can see of it:  *)
(* the published state and its revision.  The worker, the socket and the   *)
(* daemon may each stop and start again.                                   *)
(*                                                                         *)
(* This is the worker alone.  The side panel asks for recommendations of   *)
(* its own and writes the same key of the storage: see SidePanel, which    *)
(* composes the panel with this module.                                    *)
(***************************************************************************)
EXTENDS Integers, FiniteSets, Sequences

CONSTANTS
    Views,          \* (battle_id, state_hash) of canonical states
    Decisions,      \* the views that are ready, safe and ours to act
    NoView,         \* has_state = false
    NoKey,          \* the empty string or undefined
    Pending,        \* the fetch has not settled
    MaxRevision,    \* bound of the model on publications
    MaxCalls,       \* bound of the model on calls running at once
    MaxDue,         \* bound of the model on events that are due at once
    MaxFaults       \* bound of the model on stops, resets and pairings

VARIABLES
    up,         \* the daemon runs
    run,        \* its runs before this one
    view,       \* its canonical state
    revision,   \* its revision_
    published,  \* publications of all its runs
    socket,     \* hwmWs is open
    reconnect,  \* an attempt to open it is due
    sent,       \* last_revision of websocket_stream
    token,      \* the pairing token in storage: none, good, or one the
                \* daemon does not accept
    changed,    \* storage.onChanged is due for the token
    events,     \* calls of hwmScheduleRecommendation that are due
    guard,      \* claimedKey
    timer,      \* the key of the job of hwmRecommendTimer
    calls,      \* hwmRequestRecommendation, up to its epoch test
    storing,    \* the same, after the epoch test
    stored,     \* what the worker last wrote to hwmLastRecommendation
    faults      \* how often something has stopped or been reset

daemonVars == <<up, run, view, revision, published>>
socketVars == <<socket, reconnect, sent>>
tokenVars  == <<token, changed>>
epochVars  == <<guard, timer, calls, storing, stored>>
bridgeVars == <<daemonVars, socketVars, tokenVars, events, epochVars, faults>>

Keys     == [rev : 1..MaxRevision, view : Views]
Events   == [from : {"status", "capture"}, key : Keys]

\* An ok answer is about a state of a run of the daemon.
Words    == {"ok", "not_ready", "stale", "offline", "pairing_required"}
Answers  == [word : Words, run : 0..MaxFaults, about : Keys \cup {NoKey}]

\* Epochs are only compared with the newest: `last' is epoch ===
\* hwmRecommendationEpoch.  `overtaken': published since the call began.
Calls    == [key : Keys, last : BOOLEAN, overtaken : BOOLEAN,
             answer : Answers \cup {Pending}]
Stored   == [key : Keys \cup {NoKey}, last : BOOLEAN, answer : Answers]

ASSUME BridgeAssumption ==
    /\ Decisions \subseteq Views /\ NoView \notin Views
    /\ NoKey \notin Keys /\ Pending \notin Answers
    /\ MaxRevision \in Nat /\ MaxFaults \in Nat /\ {MaxCalls, MaxDue} \subseteq Nat \ {0}

\* What the daemon's present state would be called.
Here == [rev |-> revision, view |-> view]

No(word) == [word |-> word, run |-> 0, about |-> NoKey]

BridgeTypeOK ==
    /\ up \in BOOLEAN /\ socket \in BOOLEAN /\ reconnect \in BOOLEAN
    /\ run \in 0..MaxFaults
    /\ view \in Views \cup {NoView}
    /\ revision \in 0..MaxRevision /\ published \in 0..MaxRevision
    /\ sent \in -1..MaxRevision
    /\ token \in {"none", "good", "bad"} /\ changed \in BOOLEAN
    /\ events \subseteq Events
    /\ guard \in Keys \cup {NoKey} /\ timer \in Keys \cup {NoKey}
    /\ calls \subseteq Calls
    /\ storing \in Seq(Stored)
    /\ stored \in Stored
    /\ faults \in 0..MaxFaults

Init ==
    /\ up = TRUE /\ run = 0 /\ view = NoView /\ revision = 0 /\ published = 0
    /\ socket = FALSE /\ reconnect = TRUE /\ sent = 0
    /\ token \in {"none", "good"} /\ changed = FALSE
    /\ events = {} /\ guard = NoKey /\ timer = NoKey
    /\ calls = {} /\ storing = <<>>
    /\ stored = [key |-> NoKey, last |-> FALSE, answer |-> No("not_ready")]
    /\ faults = 0

Fault == faults < MaxFaults /\ faults' = faults + 1

-----------------------------------------------------------------------------
(* The daemon                                                               *)

\* A forwarded capture publishes a state, and its response names it.
Publish(v) ==
    /\ up /\ token = "good" /\ published < MaxRevision
    /\ Cardinality(events) < MaxDue
    /\ view' = v /\ revision' = revision + 1 /\ published' = published + 1
    /\ events' = events \cup {[from |-> "capture",
                               key |-> [rev |-> revision', view |-> v]]}
    /\ calls' = {[c EXCEPT !.overtaken = (c.answer = Pending)] : c \in calls}
    /\ UNCHANGED <<up, run, socketVars, tokenVars, guard, timer, storing,
                   stored, faults>>

\* A forwarded capture, or a request of the side panel, meets a 401.
Unauthorized ==
    /\ up /\ token = "bad"
    /\ token' = "none" /\ changed' = TRUE
    /\ UNCHANGED <<daemonVars, socketVars, events, epochVars, faults>>

\* Entering another battle empties the session under the same revision.
Empty ==
    /\ up /\ view # NoView /\ view' = NoView
    /\ UNCHANGED <<up, run, revision, published, socketVars, tokenVars, events,
                   epochVars, faults>>

\* Faulty: any status is scheduled.
WantedAlways == TRUE

\* onmessage: protocol_ready, recommendation_safe, ours to act.
Wanted == view \in Decisions

\* One iteration of websocket_stream that sends: the revision was read some
\* time before the status, so that the status may be newer.
PushStatus ==
    /\ up /\ socket /\ Cardinality(events) < MaxDue
    /\ sent' \in (sent + 1)..revision
    /\ events' = IF Wanted
                 THEN events \cup {[from |-> "status", key |-> Here]}
                 ELSE events
    /\ UNCHANGED <<daemonVars, socket, reconnect, tokenVars, epochVars, faults>>

Settled(c, a) == [c EXCEPT !.overtaken = FALSE, !.answer = a]

\* A restarted daemon knows no battle; its token file may have been lost.
Crash ==
    /\ up /\ Fault
    /\ up' = FALSE /\ view' = NoView /\ revision' = 0 /\ run' = run + 1
    /\ socket' = FALSE /\ reconnect' = (reconnect \/ socket)
    /\ token' \in {token, IF token = "none" THEN "none" ELSE "bad"}
    /\ calls' = {IF c.answer = Pending THEN Settled(c, No("offline")) ELSE c
                   : c \in calls}
    /\ UNCHANGED <<published, sent, changed, events, guard, timer, storing, stored>>

Restart ==
    /\ ~up /\ up' = TRUE
    /\ UNCHANGED <<run, view, revision, published, socketVars, tokenVars, events,
                   epochVars, faults>>

-----------------------------------------------------------------------------
(* Scheduling                                                               *)

\* ++hwmRecommendationEpoch, which also replaces the timer.
NewEpoch(key) ==
    /\ timer' = key
    /\ calls' = {[c EXCEPT !.last = FALSE] : c \in calls}
    /\ storing' = [i \in DOMAIN storing |-> [storing[i] EXCEPT !.last = FALSE]]
    /\ stored' = [stored EXCEPT !.last = FALSE]

\* hwmScheduleRecommendation, called with the name of a published state.
ScheduleClaimed(ev) ==
    /\ ev.key = guard
    /\ events' = events \ {ev}
    /\ UNCHANGED <<daemonVars, socketVars, tokenVars, epochVars, faults>>

Schedule(ev) ==
    /\ ev.key # guard
    /\ events' = events \ {ev}
    /\ guard' = ev.key
    /\ NewEpoch(ev.key)
    /\ UNCHANGED <<daemonVars, socketVars, tokenVars, faults>>

\* The 250 ms are over: hwmRequestRecommendation.
TimerFires ==
    /\ timer # NoKey /\ timer' = NoKey
    /\ Cardinality(calls) < MaxCalls
    /\ calls' = calls \cup {[key |-> timer, last |-> TRUE,
                             overtaken |-> FALSE, answer |-> Pending]}
    /\ UNCHANGED <<daemonVars, socketVars, tokenVars, events, guard, storing,
                   stored, faults>>

\* What /recommend may answer now (PlanService: a move is answered for the
\* published state only), or what hwmDaemonJson says without it.
Possible(c) ==
    IF token = "none" THEN {No("pairing_required")}
    ELSE IF ~up THEN {No("offline")}
    ELSE IF token = "bad" THEN {No("pairing_required")}
    ELSE {IF view \in Decisions
          THEN [word |-> "ok", run |-> run, about |-> Here]
          ELSE No("not_ready")}
         \cup (IF c.overtaken THEN {No("stale")} ELSE {})

\* The fetch of a call settles; a 401 removes the token.
Settle(c) ==
    /\ c.answer = Pending
    /\ \E a \in Possible(c) : calls' = (calls \ {c}) \cup {Settled(c, a)}
    /\ token' = IF up /\ token = "bad" THEN "none" ELSE token
    /\ changed' = (changed \/ token' # token)
    /\ UNCHANGED <<daemonVars, socketVars, events, guard, timer, storing, stored,
                   faults>>

\* Faulty: an answer passes whatever was scheduled meanwhile.
SupersededNever(c) == FALSE

\* The epoch test.
Superseded(c) == ~c.last

Discard(c) ==
    /\ c.answer # Pending /\ Superseded(c)
    /\ calls' = calls \ {c}
    /\ UNCHANGED <<daemonVars, socketVars, tokenVars, events, guard, timer,
                   storing, stored, faults>>

\* Faulty: transport failures keep the claim.
RetryableUnpaired(word) == word = "pairing_required"

\* hwmReleaseRetryableSchedule, and the catch clause.
Retryable(word) == word \in {"pairing_required", "offline"}

Pass(c) ==
    /\ c.answer # Pending /\ ~Superseded(c)
    /\ guard' = IF Retryable(c.answer.word) /\ guard = c.key THEN NoKey ELSE guard
    /\ calls' = calls \ {c}
    /\ storing' = Append(storing, [key |-> c.key, last |-> c.last,
                                   answer |-> c.answer])
    /\ UNCHANGED <<daemonVars, socketVars, tokenVars, events, timer, stored,
                   faults>>

\* The answer is stored after one more await; the storage calls of a worker
\* complete in the order of their issue.  Only the worker's writes are here.
Store ==
    /\ storing # <<>>
    /\ stored' = Head(storing) /\ storing' = Tail(storing)
    /\ UNCHANGED <<daemonVars, socketVars, tokenVars, events, guard, timer,
                   calls, faults>>

-----------------------------------------------------------------------------
(* Socket, token and worker                                                 *)

\* The initial last_revision equals no revision: the first status is sent.
NoneSent == revision - 1

\* hwmConnectWebSocket.  The attempt comes 1500 ms after the socket closed,
\* when the failures of that moment have been handled.
Connect ==
    /\ reconnect
    /\ \A c \in calls : c.answer # No("offline")
    /\ ~socket /\ token = "good" /\ up
    /\ socket' = TRUE /\ reconnect' = FALSE /\ sent' = NoneSent
    /\ UNCHANGED <<daemonVars, tokenVars, events, epochVars, faults>>

\* Without a token no attempt is made, and no further one is due.
ConnectUnpaired ==
    /\ reconnect /\ token = "none" /\ reconnect' = FALSE
    /\ UNCHANGED <<daemonVars, socket, sent, tokenVars, events, epochVars, faults>>

Disconnect ==
    /\ socket /\ Fault
    /\ socket' = FALSE /\ reconnect' = TRUE
    /\ UNCHANGED <<daemonVars, sent, tokenVars, events, epochVars>>

\* The user types the code into the side panel, which stores the token.  (The
\* request that the panel then makes is in SidePanel.)
Pair ==
    /\ token # "good" /\ up /\ Fault
    /\ token' = "good" /\ changed' = TRUE
    /\ UNCHANGED <<daemonVars, socketVars, events, epochVars>>

\* Faulty: the claim survives the change of the token.
ClaimKept == guard

\* hwmScheduleGuard.reset()
ClaimReset == NoKey

\* The storage.onChanged listener.
TokenChanged ==
    /\ changed /\ changed' = FALSE
    /\ guard' = ClaimReset /\ NewEpoch(NoKey)
    /\ socket' = FALSE /\ reconnect' = TRUE
    /\ UNCHANGED <<daemonVars, sent, token, events, faults>>

\* The browser stops the worker and starts it again: only storage survives.
WorkerRestart ==
    /\ Fault
    /\ socket' = FALSE /\ reconnect' = TRUE /\ changed' = FALSE
    /\ events' = {} /\ guard' = NoKey /\ timer' = NoKey
    /\ calls' = {} /\ storing' = <<>> /\ stored' = [stored EXCEPT !.last = FALSE]
    /\ UNCHANGED <<daemonVars, sent, token>>

-----------------------------------------------------------------------------

Work ==
    \/ PushStatus \/ TimerFires \/ Store
    \/ Connect \/ ConnectUnpaired \/ TokenChanged
    \/ \E ev \in events : ScheduleClaimed(ev) \/ Schedule(ev)
    \/ \E c \in calls : Settle(c) \/ Discard(c) \/ Pass(c)

Next ==
    \/ Work
    \/ \E v \in Views : Publish(v)
    \/ Unauthorized \/ Empty \/ Crash \/ Restart
    \/ Disconnect \/ Pair \/ WorkerRestart

\* Whatever is due in the worker or the status stream happens; the world
\* around them owes nothing.
Safety == Init /\ [][Next]_bridgeVars
Spec   == Safety /\ WF_bridgeVars(Work)

-----------------------------------------------------------------------------
(* Properties.                                                              *)

\* A claimed name is never orphaned, and never unlocked by another job: it is
\* held by the timer or the call of the last epoch until that call gives it
\* back, and outlives the call only as the name of an answer that needs no
\* retry.  An orphaned claim would suppress its state for ever.
ClaimIsOwned ==
    LET kept == {stored} \cup {storing[i] : i \in DOMAIN storing}
        held == {timer} \cup {c.key : c \in {c \in calls : c.last}}
                \cup {c.key : c \in {c \in kept : c.last /\ ~Retryable(c.answer.word)}}
    IN  held \ {NoKey} = {guard} \ {NoKey}

\* Of the moves the worker stores, none follows a move for a newer state of
\* the same run of the daemon, in whatever order fetches settle and states are
\* claimed.  It says nothing of the panel's writes (SidePanel, PanelKeepsNewest).
NewestStays ==
    [][ LET old == stored.answer  new == stored'.answer
        IN  old.word = "ok" /\ new.word = "ok" /\ old.run = new.run
            => new.about.rev >= old.about.rev ]_bridgeVars

\* While a decision is the published state and the extension is paired, it is
\* eventually advised on by the worker, after lost sockets, failed fetches, late
\* responses and restarts of the worker or the daemon alike.  (What the panel
\* writes over that advice is in SidePanel.)  The exception is a state
\* that a restarted daemon publishes under the very name for which an earlier
\* run has given a stale or not_ready answer: that name stays claimed.
EveryDecisionIsAdvised ==
    \A k \in Keys :
        (up /\ token = "good" /\ Here = k /\ view \in Decisions)
        ~> (\/ stored.answer.word = "ok" /\ stored.answer.about = k
            \/ /\ stored.answer.word \in {"stale", "not_ready"}
               /\ stored.key = k /\ run > 0
            \/ ~(up /\ token = "good" /\ Here = k))
=============================================================================
