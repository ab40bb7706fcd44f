----------------------------- MODULE SidePanel -----------------------------
(***************************************************************************)
(* The requests of the side panel (sidepanel.ts: recommend, pair and       *)
(* guardCurrentRecommendation) beside the service worker of Bridge.  The   *)
(* panel asks /recommend when its button is pressed and after a pairing,   *)
(* compares the hash of an ok answer with a status of the daemon, and      *)
(* writes the result to hwmLastRecommendation, where the worker writes its *)
(* own.  The epochs of the worker do not cover these requests.             *)
(*                                                                         *)
(* The two share the daemon, the token and that one key of the storage.    *)
(***************************************************************************)
EXTENDS Bridge

CONSTANTS
    Asks,       \* bound of the model: calls of recommend() at once
    Idle        \* there is no such call

VARIABLES
    asks,       \* the calls of recommend()
    pushed,     \* hwmLastDaemonStatus: the state it is about, or NoKey
    latest      \* hwmLastRecommendation, whoever wrote it

panelVars == <<bridgeVars, asks, pushed, latest>>

\* `guarded': the answer has been through guardCurrentRecommendation.
Asking == [answer : Answers \cup {Pending}, overtaken : BOOLEAN,
           guarded : BOOLEAN]

Asked == [answer |-> Pending, overtaken |-> FALSE, guarded |-> FALSE]

ASSUME PanelAssumption == Idle \notin Asking /\ Asks # {}

\* The panel stores what the daemon said; only the worker stores that it was
\* not to be reached.
PanelTypeOK ==
    /\ asks \in [Asks -> Asking \cup {Idle}]
    /\ \A p \in Asks : asks[p] # Idle =>
          /\ asks[p].answer # No("offline")
          /\ asks[p].guarded => asks[p].answer # Pending
    /\ pushed \in Views \cup {NoView, NoKey}
    /\ latest \in Answers

PanelInit ==
    /\ Init
    /\ asks = [p \in Asks |-> Idle]
    /\ pushed = NoKey /\ latest = stored.answer

-----------------------------------------------------------------------------
(* The panel                                                                *)

\* The button.
Click(p) ==
    /\ asks[p] = Idle
    /\ asks' = [asks EXCEPT ![p] = Asked]
    /\ UNCHANGED <<bridgeVars, pushed, latest>>

\* pair(): the token is stored, then recommend() is called.
PairAndAsk(p) ==
    /\ Pair
    /\ asks[p] = Idle
    /\ asks' = [asks EXCEPT ![p] = Asked]
    /\ UNCHANGED <<pushed, latest>>

\* A request of the panel is made with this token: a 401 removes it.
TokenUsed == IF up /\ token = "bad" THEN Unauthorized ELSE UNCHANGED bridgeVars

\* fetch() throws: the catch clause renders it and stores nothing.
Throws(a) == a = No("offline")

\* POST /recommend settles.  Only an ok answer is compared with a status.
AskSettles(p) ==
    /\ asks[p] # Idle /\ asks[p].answer = Pending
    /\ \E a \in Possible(asks[p]) :
          asks' = [asks EXCEPT ![p] =
                      IF Throws(a) THEN Idle
                      ELSE [answer |-> a, overtaken |-> FALSE,
                            guarded |-> a.word # "ok"]]
    /\ TokenUsed
    /\ UNCHANGED <<pushed, latest>>

\* guardCurrentRecommendation.  A status without a state has no hash, and
\* neither has the refusal of an unpaired request: both let the answer pass.
Guarded(ask, of) ==
    [ask EXCEPT !.guarded = TRUE,
                !.answer  = IF of \in {NoView, @.about.view} THEN @ ELSE No("stale")]

Unguarded(p) == asks[p] # Idle /\ asks[p].answer # Pending /\ ~asks[p].guarded

\* currentDaemonStatus: the last status that was pushed, while it is younger
\* than 5 s.
GuardByPushed(p) ==
    /\ Unguarded(p) /\ pushed # NoKey
    /\ asks' = [asks EXCEPT ![p] = Guarded(@, pushed)]
    /\ UNCHANGED <<bridgeVars, pushed, latest>>

\* ... or else GET /status.
GuardByFetched(p) ==
    /\ Unguarded(p)
    /\ asks' = [asks EXCEPT ![p] =
                   IF ~up /\ token # "none" THEN Idle
                   ELSE Guarded(@, IF token = "good" THEN view ELSE NoView)]
    /\ TokenUsed
    /\ UNCHANGED <<pushed, latest>>

AskStores(p) ==
    /\ asks[p] # Idle /\ asks[p].guarded
    /\ latest' = asks[p].answer
    /\ asks' = [asks EXCEPT ![p] = Idle]
    /\ UNCHANGED <<bridgeVars, pushed>>

-----------------------------------------------------------------------------
(* The steps of Bridge, and what they mean to the panel                     *)

StoreAnswer == Store /\ latest' = stored'.answer /\ UNCHANGED <<asks, pushed>>

\* onmessage stores the status before it schedules.
StoreStatus == PushStatus /\ pushed' = view /\ UNCHANGED <<asks, latest>>

OtherWork ==
    /\ \/ TimerFires \/ Connect \/ ConnectUnpaired \/ TokenChanged
       \/ \E ev \in events : ScheduleClaimed(ev) \/ Schedule(ev)
       \/ \E c \in calls : Settle(c) \/ Discard(c) \/ Pass(c)
    /\ UNCHANGED <<asks, pushed, latest>>

PublishUnder(v) ==
    /\ Publish(v)
    /\ asks' = [p \in Asks |->
                   IF asks[p] # Idle /\ asks[p].answer = Pending
                   THEN [asks[p] EXCEPT !.overtaken = TRUE] ELSE asks[p]]
    /\ UNCHANGED <<pushed, latest>>

\* The requests of the panel fail with those of the worker.
CrashUnder ==
    /\ Crash
    /\ asks' = [p \in Asks |->
                   IF asks[p] # Idle /\ asks[p].answer = Pending
                   THEN Idle ELSE asks[p]]
    /\ UNCHANGED <<pushed, latest>>

OtherChange ==
    /\ Unauthorized \/ Empty \/ Restart \/ Disconnect \/ WorkerRestart
    /\ UNCHANGED <<asks, pushed, latest>>

PanelWork == StoreAnswer \/ StoreStatus \/ OtherWork

PanelNext ==
    \/ PanelWork
    \/ \E v \in Views : PublishUnder(v)
    \/ CrashUnder \/ OtherChange
    \/ \E p \in Asks :
          \/ Click(p) \/ PairAndAsk(p) \/ AskSettles(p)
          \/ GuardByPushed(p) \/ GuardByFetched(p) \/ AskStores(p)

\* Fair is what is fair in Bridge; the panel owes nothing, it may be closed.
PanelSpec == PanelInit /\ [][PanelNext]_panelVars /\ WF_panelVars(PanelWork)

-----------------------------------------------------------------------------
(* Properties.                                                              *)

\* A move is replaced by a move for an older state of the same run.
StepsBack ==
    /\ latest.word = "ok" /\ latest'.word = "ok" /\ latest'.run = latest.run
    /\ latest'.about.rev < latest.about.rev

PanelStores == \E p \in Asks : AskStores(p)

\* What the epochs of the worker leave of their promise beside the panel:
\* hwmLastRecommendation goes back to an older state only by a write of the
\* panel, or by a write of the worker over one of the panel; never from one
\* answer of the worker to another, whatever the panel asks, whenever it pairs
\* or loses the token for both.
StepsBackByPanelOnly == [][StepsBack => PanelStores \/ latest # stored.answer]_panelVars

\* docs/LIVE_VALIDATION.md: "The side panel must never replace a newer
\* recommendation with an older in-flight one."  Violated: the guard compares
\* the older answer with a status that may be older than the newer one, and
\* nothing is compared when the result is stored.
PanelKeepsNewest ==
    [][ StepsBack /\ latest'.about.view # latest.about.view
        => ~PanelStores ]_panelVars
=============================================================================
