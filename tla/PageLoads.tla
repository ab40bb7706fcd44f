----------------------------- MODULE PageLoads -----------------------------
(***************************************************************************)
(* One battle page feeding the session store.  Loading the page brings two *)
(* payloads at nearly the same time, the static battlefield and the stream *)
(* of all half-turns so far; afterwards the page polls for one half-turn   *)
(* after the other.  The hook in the page, the content script and the      *)
(* service worker forward each payload on its own, without order and       *)
(* without a retry, and the daemon may be restarted under an open page.    *)
(***************************************************************************)
EXTENDS SessionStore

CONSTANTS
    PageBattle,     \* the battle of the page
    LoadTime,       \* capturedAt of its payloads
    MaxHalf,        \* bound of the model on half-turns played
    MaxLoads        \* bound of the model on page loads and restarts

StaticBody == [kind |-> "static", turns |-> <<>>]
Stream(n)  == [kind |-> "turns", turns |-> [i \in 1..n |-> i]]
Poll(n)    == [kind |-> "turns", turns |-> <<n>>]

ASSUME PageLoadsAssumption ==
    /\ PageBattle \in Battles
    /\ LoadTime \in Times
    /\ MaxHalf \in Nat \ {0} /\ 1..MaxHalf \subseteq Turns
    /\ StaticBody \in Bodies
    /\ \A n \in 1..MaxHalf : {Stream(n), Poll(n)} \subseteq Bodies
    /\ MaxLoads \in Nat

VARIABLES
    played,     \* half-turns the server has resolved
    due,        \* payloads captured in the page, not yet at the daemon
    loads,      \* page loads so far
    restarts,   \* daemon restarts so far
    whole,      \* the daemon has run, and nothing was lost, since the last load
    intoEmpty,  \* at that load the daemon held neither a state nor turns
    ordered     \* its static payload arrived before its stream

pageVars == <<played, due, loads, restarts, whole, intoEmpty, ordered>>
pvars    == <<storeVars, pageVars>>

PageInit ==
    /\ StoreInit
    /\ played = 1 /\ due = {} /\ loads = 0 /\ restarts = 0
    /\ whole = FALSE /\ intoEmpty = FALSE /\ ordered = FALSE

\* The user opens or reloads the page.
Load ==
    /\ loads < MaxLoads /\ due = {} /\ ~replaying
    /\ loads' = loads + 1
    /\ due' = {StaticBody, Stream(played)}
    /\ whole' = TRUE
    /\ intoEmpty' = (state = NoState /\ pending = <<>>)
    /\ ordered' = FALSE
    /\ UNCHANGED <<storeVars, played, restarts>>

\* A half-turn is resolved and the open page polls it.  The page sends a
\* poll when the previous answer is in, so polls do not overtake.
Play ==
    /\ loads > 0 /\ played < MaxHalf /\ due = {} /\ ~replaying
    /\ played' = played + 1
    /\ due' = {Poll(played + 1)}
    /\ UNCHANGED <<storeVars, loads, restarts, whole, intoEmpty, ordered>>

\* POST /capture of one of the payloads on their way.
Deliver(body) ==
    /\ body \in due
    /\ LET e == [battle |-> PageBattle, at |-> LoadTime, body |-> body]
       IN  CaptureRefused(e) \/ CapturePublished(e) \/ CaptureBuffered(e)
    /\ due' = due \ {body}
    /\ ordered' = (ordered \/ (body = StaticBody /\ due' # {}))
    /\ UNCHANGED <<played, loads, restarts, whole, intoEmpty>>

\* A failed fetch is traced and forgotten.
Lose(body) ==
    /\ body \in due
    /\ due' = due \ {body}
    /\ whole' = FALSE
    /\ UNCHANGED <<storeVars, played, loads, restarts, intoEmpty, ordered>>

\* The daemon keeps its session in memory only.
Restart ==
    /\ restarts < MaxLoads
    /\ restarts' = restarts + 1
    /\ battleId' = NoBattle /\ state' = NoState /\ initial' = NoState
    /\ pending' = <<>> /\ lastBody' = NoBody /\ lastAt' = 0
    /\ revision' = 0 /\ replaying' = FALSE
    /\ whole' = FALSE
    /\ UNCHANGED <<played, due, loads, intoEmpty, ordered>>

PageNext ==
    \/ Load \/ Play \/ Restart
    \/ \E body \in due : Deliver(body) \/ Lose(body)
    \/ ReplayPending /\ UNCHANGED pageVars

PageSpec == PageInit /\ [][PageNext]_pvars /\ WF_pvars(ReplayPending /\ UNCHANGED pageVars)

-----------------------------------------------------------------------------
(* Properties.                                                              *)

\* The daemon has everything there is and may plan on it.
Complete == /\ state # NoState /\ state.ready
            /\ state.log = [i \in 1..played |-> i]

Settled == loads > 0 /\ due = {} /\ ~replaying /\ whole

\* Every payload since the last load has arrived.  If the static one came
\* first, whatever the session was before (behind a gap, in another order,
\* after a restart), the state is complete and ready.
ReloadRecovers ==
    Settled /\ ordered /\ Sound([i \in 1..played |-> i]) => Complete

\* The same in either order when the load found the daemon empty: the turns
\* wait for the static payload and are replayed.
FirstLoadInAnyOrder ==
    Settled /\ intoEmpty /\ Sound([i \in 1..played |-> i]) => Complete

\* session.cpp: the replay of buffered payloads "makes capture order robust".
CaptureOrderIsRobust ==
    Settled /\ Sound([i \in 1..played |-> i]) => Complete
=============================================================================
