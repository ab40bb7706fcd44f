---------------------------- MODULE BridgeProofs ----------------------------
(***************************************************************************)
(* Proofs about Bridge and SidePanel, for every set of states, number of   *)
(* publications, faults and concurrent calls: the claim of the schedule    *)
(* guard is always owned, no answer of the worker follows a newer answer   *)
(* of the worker, and the requests of the side panel disturb neither; the  *)
(* shared key of the storage goes back only where the panel wrote.         *)
(***************************************************************************)
EXTENDS SidePanel, SequenceTheorems, TLAPS

\* What the daemon counts fits together.
CountsAgree ==
    /\ revision <= published /\ run <= faults
    /\ view # NoView => revision > 0

\* One job has the last epoch, wherever it is.
LastIsUnique ==
    /\ timer # NoKey => \A c \in calls : ~c.last
    /\ \A c, d \in calls : c.last /\ d.last => c = d
    /\ (timer # NoKey \/ \E c \in calls : c.last)
       => ~stored.last /\ \A i \in 1..Len(storing) : ~storing[i].last
    /\ \A i \in 1..Len(storing) : storing[i].last => i = Len(storing)
    /\ stored.last => storing = <<>>

Claim(s) == IF Retryable(s.answer.word) THEN NoKey ELSE s.key

\* The last job holds the claim, until it gives it back.
LastHoldsClaim ==
    /\ timer # NoKey => guard = timer
    /\ \A c \in calls : c.last => guard = c.key
    /\ \A i \in 1..Len(storing) : storing[i].last => guard = Claim(storing[i])
    /\ stored.last => guard = Claim(stored)
    /\ guard # NoKey =>
          \/ timer # NoKey \/ stored.last
          \/ \E c \in calls : c.last
          \/ \E i \in 1..Len(storing) : storing[i].last

\* No move is about a state still to come.
Past(a) == a.word = "ok" =>
    /\ a.about \in Keys /\ a.run <= run
    /\ a.run = run => a.about.rev <= revision

\* a may be replaced by b.
NotNewer(a, b) ==
    a.word = "ok" /\ b.word = "ok" /\ a.run = b.run => a.about.rev <= b.about.rev

\* The worker stores its answers in the order in which the daemon gave them.
AnswersInOrder ==
    /\ \A c \in calls : c.answer # Pending => Past(c.answer)
    /\ \A i \in 1..Len(storing) : Past(storing[i].answer)
    /\ Past(stored.answer)
    /\ \A c \in calls : c.last /\ c.answer # Pending =>
          /\ NotNewer(stored.answer, c.answer)
          /\ \A i \in 1..Len(storing) : NotNewer(storing[i].answer, c.answer)
    /\ \A i \in 1..Len(storing) : NotNewer(stored.answer, storing[i].answer)
    /\ \A i, j \in 1..Len(storing) :
          i < j => NotNewer(storing[i].answer, storing[j].answer)

BridgeInv ==
    /\ BridgeTypeOK /\ CountsAgree
    /\ LastIsUnique /\ LastHoldsClaim /\ AnswersInOrder

-----------------------------------------------------------------------------

\* What the daemon publishes has a name, and its answers are answers.
LEMMA NamesAndAnswers ==
    ASSUME BridgeTypeOK, CountsAgree
    PROVE  /\ view # NoView => Here \in Keys
           /\ \A w \in Words : No(w) \in Answers
           /\ \A c : Possible(c) \subseteq Answers
<1>1. view # NoView => Here \in Keys
    BY DEF BridgeTypeOK, CountsAgree, Here, Keys
<1>2. \A w \in Words : No(w) \in Answers
    BY BridgeAssumption DEF No, Answers
<1>3. \A c : Possible(c) \subseteq Answers
    <2> SUFFICES ASSUME NEW c, NEW a \in Possible(c)
                 PROVE  a \in Answers
        OBVIOUS
    <2>1. CASE \E w \in Words : a = No(w)
        BY <2>1, <1>2
    <2>2. CASE view \in Decisions /\ a = [word |-> "ok", run |-> run, about |-> Here]
        <3>1. view # NoView
            BY <2>2, BridgeAssumption
        <3>. QED BY <2>2, <3>1, <1>1 DEF Answers, Words, BridgeTypeOK
    <2>. QED BY <2>1, <2>2 DEF Possible, Words
<1>. QED BY <1>1, <1>2, <1>3

\* Settling, overtaking and superseding a call leave it a call.
LEMMA CallTypes ==
    ASSUME NEW c \in Calls
    PROVE  /\ \A a \in Answers : Settled(c, a) \in Calls
           /\ [c EXCEPT !.last = FALSE] \in Calls
           /\ [c EXCEPT !.overtaken = (c.answer = Pending)] \in Calls
BY DEF Calls, Settled

\* A new epoch keeps the types of everything it touches.
LEMMA NewEpochTypes ==
    ASSUME BridgeTypeOK, NEW key \in Keys \cup {NoKey}, NewEpoch(key)
    PROVE  /\ timer' \in Keys \cup {NoKey} /\ calls' \subseteq Calls
           /\ storing' \in Seq(Stored) /\ Len(storing') = Len(storing)
           /\ stored' \in Stored
           /\ \A i \in 1..Len(storing) :
                  /\ storing'[i] \in Stored /\ ~storing'[i].last
                  /\ storing'[i].answer = storing[i].answer
           /\ ~stored'.last /\ stored'.answer = stored.answer
           /\ \A c \in calls' : ~c.last
<1>1. calls' \subseteq Calls /\ \A c \in calls' : ~c.last
    <2> SUFFICES ASSUME NEW d \in calls' PROVE d \in Calls /\ ~d.last
        OBVIOUS
    <2>1. PICK c \in calls : d = [c EXCEPT !.last = FALSE]
        BY DEF NewEpoch
    <2>2. c \in Calls
        BY DEF BridgeTypeOK
    <2>. QED BY <2>1, <2>2, CallTypes DEF Calls
<1>2. \A i \in 1..Len(storing) : storing[i] \in Stored
    BY ElementOfSeq DEF BridgeTypeOK
<1>3. DOMAIN storing = 1..Len(storing) /\ Len(storing) \in Nat
    BY LenProperties DEF BridgeTypeOK
<1>4. \A s \in Stored : /\ [s EXCEPT !.last = FALSE] \in Stored
                          /\ ~[s EXCEPT !.last = FALSE].last
                          /\ [s EXCEPT !.last = FALSE].answer = s.answer
    BY DEF Stored
<1>5. storing' = [i \in 1..Len(storing) |-> [storing[i] EXCEPT !.last = FALSE]]
    BY <1>3 DEF NewEpoch
<1>6. storing' \in Seq(Stored) /\ Len(storing') = Len(storing)
    <2>1. \A i \in 1..Len(storing) : [storing[i] EXCEPT !.last = FALSE] \in Stored
        BY <1>2, <1>4
    <2>. QED BY <2>1, <1>3, <1>5
<1>7. \A i \in 1..Len(storing) : storing'[i] = [storing[i] EXCEPT !.last = FALSE]
    BY <1>5
<1>. QED BY <1>1, <1>2, <1>4, <1>6, <1>7 DEF NewEpoch, BridgeTypeOK

\* Every step keeps the types and the counts of the daemon.
LEMMA TypesStep ==
    ASSUME BridgeTypeOK, CountsAgree, [Next]_bridgeVars
    PROVE  BridgeTypeOK' /\ CountsAgree'
<1> USE DEF CountsAgree, daemonVars, socketVars, tokenVars, epochVars
<1>0. UNCHANGED bridgeVars => BridgeTypeOK' /\ CountsAgree'
    BY DEF bridgeVars, BridgeTypeOK
<1>1. ASSUME NEW v \in Views, Publish(v)
      PROVE  BridgeTypeOK' /\ CountsAgree'
    <2>1. calls' \subseteq Calls
        <3> SUFFICES ASSUME NEW d \in calls' PROVE d \in Calls
            OBVIOUS
        <3>1. PICK c \in calls : d = [c EXCEPT !.overtaken = (c.answer = Pending)]
            BY <1>1 DEF Publish
        <3>. QED BY <3>1, CallTypes DEF BridgeTypeOK
    <2>2. events' \subseteq Events
        BY <1>1, BridgeAssumption DEF Publish, BridgeTypeOK, Events, Keys
    <2>. QED BY <1>1, <2>1, <2>2, BridgeAssumption DEF Publish, BridgeTypeOK
<1>2. Unauthorized => BridgeTypeOK' /\ CountsAgree'
    BY DEF Unauthorized, BridgeTypeOK
<1>3. Empty => BridgeTypeOK' /\ CountsAgree'
    BY DEF Empty, BridgeTypeOK
<1>4. PushStatus => BridgeTypeOK' /\ CountsAgree'
    <2> SUFFICES ASSUME PushStatus PROVE BridgeTypeOK' /\ CountsAgree'
        OBVIOUS
    <2>1. events' \subseteq Events
        BY NamesAndAnswers, BridgeAssumption
           DEF PushStatus, Wanted, BridgeTypeOK, Events
    <2>2. sent' \in -1..MaxRevision
        BY BridgeAssumption DEF PushStatus, BridgeTypeOK
    <2>. QED BY <2>1, <2>2 DEF PushStatus, BridgeTypeOK
<1>5. Crash => BridgeTypeOK' /\ CountsAgree'
    <2> SUFFICES ASSUME Crash PROVE BridgeTypeOK' /\ CountsAgree'
        OBVIOUS
    <2>1. calls' \subseteq Calls
        <3> SUFFICES ASSUME NEW d \in calls' PROVE d \in Calls
            OBVIOUS
        <3>1. PICK c \in calls : d \in {c, Settled(c, No("offline"))}
            BY DEF Crash
        <3>. QED BY <3>1, CallTypes, NamesAndAnswers DEF BridgeTypeOK, Words
    <2>2. faults' \in 0..MaxFaults /\ run' \in 0..MaxFaults /\ run' <= faults'
        BY BridgeAssumption DEF Crash, Fault, BridgeTypeOK
    <2>3. token' \in {"none", "good", "bad"}
        BY DEF Crash, BridgeTypeOK
    <2>4. socket' \in BOOLEAN /\ reconnect' \in BOOLEAN /\ up' \in BOOLEAN
        BY DEF Crash, BridgeTypeOK
    <2>5. view' = NoView /\ revision' = 0 /\ 0 \in 0..MaxRevision
        BY BridgeAssumption DEF Crash
    <2>6. UNCHANGED <<published, sent, changed, events, guard, timer, storing, stored>>
        BY DEF Crash
    <2>. QED BY <2>1, <2>2, <2>3, <2>4, <2>5, <2>6 DEF BridgeTypeOK
<1>6. Restart => BridgeTypeOK' /\ CountsAgree'
    BY DEF Restart, BridgeTypeOK
<1>7. ASSUME NEW ev \in events, ScheduleClaimed(ev) \/ Schedule(ev)
      PROVE  BridgeTypeOK' /\ CountsAgree'
    <2>1. ev.key \in Keys
        BY DEF BridgeTypeOK, Events
    <2>2. CASE ScheduleClaimed(ev)
        BY <2>2 DEF ScheduleClaimed, BridgeTypeOK
    <2>3. CASE Schedule(ev)
        BY <2>1, <2>3, NewEpochTypes DEF Schedule, BridgeTypeOK
    <2>. QED BY <1>7, <2>2, <2>3
<1>8. TimerFires => BridgeTypeOK' /\ CountsAgree'
    <2> SUFFICES ASSUME TimerFires PROVE BridgeTypeOK' /\ CountsAgree'
        OBVIOUS
    <2>1. calls' \subseteq Calls
        <3>1. [key |-> timer, last |-> TRUE, overtaken |-> FALSE,
               answer |-> Pending] \in Calls
            BY DEF TimerFires, BridgeTypeOK, Calls
        <3>. QED BY <3>1 DEF TimerFires, BridgeTypeOK
    <2>. QED BY <2>1 DEF TimerFires, BridgeTypeOK
<1>9. ASSUME NEW c \in calls, Settle(c)
      PROVE  BridgeTypeOK' /\ CountsAgree'
    <2>1. calls' \subseteq Calls
        <3>1. PICK a \in Possible(c) : calls' = (calls \ {c}) \cup {Settled(c, a)}
            BY <1>9 DEF Settle
        <3>. QED BY <3>1, CallTypes, NamesAndAnswers DEF BridgeTypeOK
    <2>2. token' \in {"none", "good", "bad"} /\ changed' \in BOOLEAN
        BY <1>9 DEF Settle, BridgeTypeOK
    <2>. QED BY <1>9, <2>1, <2>2 DEF Settle, BridgeTypeOK
<1>10. ASSUME NEW c \in calls, Discard(c)
       PROVE  BridgeTypeOK' /\ CountsAgree'
    BY <1>10 DEF Discard, BridgeTypeOK
<1>11. ASSUME NEW c \in calls, Pass(c)
       PROVE  BridgeTypeOK' /\ CountsAgree'
    <2>1. [key |-> c.key, last |-> c.last, answer |-> c.answer] \in Stored
        BY <1>11 DEF Pass, BridgeTypeOK, Calls, Stored
    <2>2. storing' \in Seq(Stored)
        BY <1>11, <2>1, AppendProperties DEF Pass, BridgeTypeOK
    <2>3. guard' \in Keys \cup {NoKey} /\ calls' \subseteq Calls
        BY <1>11 DEF Pass, BridgeTypeOK
    <2>. QED BY <1>11, <2>2, <2>3 DEF Pass, BridgeTypeOK
<1>12. Store => BridgeTypeOK' /\ CountsAgree'
    BY HeadTailProperties DEF Store, BridgeTypeOK
<1>13. Connect => BridgeTypeOK' /\ CountsAgree'
    <2> SUFFICES ASSUME Connect PROVE BridgeTypeOK' /\ CountsAgree'
        OBVIOUS
    <2>1. sent' \in -1..MaxRevision
        <3>1. sent' = revision - 1 /\ revision \in 0..MaxRevision
            BY DEF Connect, NoneSent, BridgeTypeOK
        <3>. QED BY <3>1, BridgeAssumption
    <2>2. socket' \in BOOLEAN /\ reconnect' \in BOOLEAN
        BY DEF Connect
    <2>. QED BY <2>1, <2>2 DEF Connect, BridgeTypeOK
<1>14. ConnectUnpaired => BridgeTypeOK' /\ CountsAgree'
    BY DEF ConnectUnpaired, BridgeTypeOK
<1>15. Disconnect => BridgeTypeOK' /\ CountsAgree'
    <2> SUFFICES ASSUME Disconnect PROVE BridgeTypeOK' /\ CountsAgree'
        OBVIOUS
    <2>1. faults' \in 0..MaxFaults /\ run <= faults'
        <3>1. /\ faults \in 0..MaxFaults /\ run \in 0..MaxFaults /\ run <= faults
              /\ faults < MaxFaults /\ faults' = faults + 1
            BY DEF Disconnect, Fault, BridgeTypeOK
        <3>. QED BY <3>1, BridgeAssumption
    <2>2. socket' \in BOOLEAN /\ reconnect' \in BOOLEAN
        BY DEF Disconnect
    <2>. QED BY <2>1, <2>2 DEF Disconnect, BridgeTypeOK
<1>16. Pair => BridgeTypeOK' /\ CountsAgree'
    BY BridgeAssumption DEF Pair, Fault, BridgeTypeOK
<1>17. TokenChanged => BridgeTypeOK' /\ CountsAgree'
    BY NewEpochTypes DEF TokenChanged, ClaimReset, BridgeTypeOK
<1>18. WorkerRestart => BridgeTypeOK' /\ CountsAgree'
    <2> SUFFICES ASSUME WorkerRestart PROVE BridgeTypeOK' /\ CountsAgree'
        OBVIOUS
    <2>1. storing' \in Seq(Stored)
        BY EmptySeq DEF WorkerRestart
    <2>2. stored' \in Stored
        BY DEF WorkerRestart, BridgeTypeOK, Stored
    <2>3. faults' \in 0..MaxFaults /\ run <= faults'
        BY BridgeAssumption DEF WorkerRestart, Fault, BridgeTypeOK
    <2>. QED BY <2>1, <2>2, <2>3 DEF WorkerRestart, BridgeTypeOK
<1>. QED BY <1>0, <1>1, <1>2, <1>3, <1>4, <1>5, <1>6, <1>7, <1>8, <1>9, <1>10,
            <1>11, <1>12, <1>13, <1>14, <1>15, <1>16, <1>17, <1>18
         DEF Next, Work

JobsInv == LastIsUnique /\ LastHoldsClaim /\ AnswersInOrder

\* Steps that touch no job, in the same state of the daemon's counters.
LEMMA OtherStep ==
    ASSUME JobsInv, UNCHANGED epochVars, UNCHANGED <<run, revision>>
    PROVE  JobsInv'
BY DEF JobsInv, LastIsUnique, LastHoldsClaim, AnswersInOrder, Past, epochVars

\* Steps that change calls one by one, keeping epoch and key, and no answer
\* that has been given, while the daemon publishes or ends its run.
LEMMA CallsMapped ==
    ASSUME BridgeTypeOK, JobsInv, NEW STATE f, f \in [calls -> Calls],
           calls' = {f[c] : c \in calls},
           \A c \in calls : f[c].last = c.last /\ f[c].key = c.key,
           \A c \in calls : f[c].answer = c.answer \/ f[c].answer = No("offline"),
           UNCHANGED <<guard, timer, storing, stored>>,
           \/ run' = run /\ revision' >= revision
           \/ run' = run + 1,
           revision' \in Nat
    PROVE  JobsInv'
<1>1. \A d \in calls' : \E c \in calls :
          /\ d = f[c] /\ d.last = c.last /\ d.key = c.key
          /\ d.answer = c.answer \/ d.answer = No("offline")
    OBVIOUS
<1>2. (\E d \in calls' : d.last) <=> (\E c \in calls : c.last)
    BY <1>1
<1>3. LastIsUnique'
    BY <1>1, <1>2 DEF JobsInv, LastIsUnique
<1>4. LastHoldsClaim'
    BY <1>1, <1>2 DEF JobsInv, LastHoldsClaim, Claim
<1>5. \A a \in Answers : Past(a) => Past(a)'
    BY DEF Past, Keys, Answers, BridgeTypeOK
<1>6. \A a : NotNewer(a, No("offline")) /\ Past(No("offline"))'
    BY DEF NotNewer, Past, No
<1>7. /\ \A c \in calls : c.answer \in Answers \cup {Pending}
      /\ \A i \in 1..Len(storing) : storing[i].answer \in Answers
      /\ stored.answer \in Answers
    <2>1. \A i \in 1..Len(storing) : storing[i] \in Stored
        BY ElementOfSeq DEF BridgeTypeOK
    <2>2. stored \in Stored /\ calls \subseteq Calls
        BY DEF BridgeTypeOK
    <2>. QED BY <2>1, <2>2 DEF Calls, Stored
<1>8. \A d \in calls' : d.answer # Pending => Past(d.answer)'
    BY <1>1, <1>5, <1>6, <1>7 DEF JobsInv, AnswersInOrder
<1>9. /\ \A i \in 1..Len(storing) : Past(storing[i].answer)'
      /\ Past(stored.answer)'
    BY <1>5, <1>7 DEF JobsInv, AnswersInOrder
<1>10. \A d \in calls' : d.last /\ d.answer # Pending =>
          /\ NotNewer(stored.answer, d.answer)
          /\ \A i \in 1..Len(storing) : NotNewer(storing[i].answer, d.answer)
    BY <1>1, <1>6 DEF JobsInv, AnswersInOrder
<1>. QED BY <1>3, <1>4, <1>8, <1>9, <1>10 DEF JobsInv, AnswersInOrder

\* A new epoch leaves no job of the last one but the timer.
LEMMA NewEpochStep ==
    ASSUME BridgeTypeOK, JobsInv, NEW key \in Keys \cup {NoKey}, NewEpoch(key),
           guard' = key, UNCHANGED <<run, revision>>
    PROVE  JobsInv'
<1>1. /\ timer' = key /\ Len(storing') = Len(storing)
      /\ \A i \in 1..Len(storing') :
            ~storing'[i].last /\ storing'[i].answer = storing[i].answer
      /\ ~stored'.last /\ stored'.answer = stored.answer
      /\ \A c \in calls' : ~c.last
    BY NewEpochTypes DEF NewEpoch
<1>2. \A d \in calls' : \E c \in calls : d.answer = c.answer
    <2> SUFFICES ASSUME NEW d \in calls' PROVE \E c \in calls : d.answer = c.answer
        OBVIOUS
    <2>1. PICK c \in calls : d = [c EXCEPT !.last = FALSE]
        BY DEF NewEpoch
    <2>. QED BY <2>1 DEF BridgeTypeOK, Calls
<1>3. LastIsUnique' /\ LastHoldsClaim'
    BY <1>1 DEF LastIsUnique, LastHoldsClaim
<1>4. AnswersInOrder'
    <2>1. \A a : Past(a)' <=> Past(a)
        BY DEF Past
    <2>. QED BY <1>1, <1>2, <2>1 DEF JobsInv, AnswersInOrder
<1>. QED BY <1>3, <1>4 DEF JobsInv

\* The timer becomes the call of its epoch.
LEMMA TimerStep ==
    ASSUME BridgeTypeOK, JobsInv, TimerFires
    PROVE  JobsInv'
<1> DEFINE new == [key |-> timer, last |-> TRUE, overtaken |-> FALSE,
                   answer |-> Pending]
<1>1. /\ timer # NoKey /\ timer' = NoKey /\ calls' = calls \cup {new}
      /\ UNCHANGED <<guard, storing, stored, run, revision>>
    BY DEF TimerFires, daemonVars
<1>2. new.last /\ new.key = timer /\ new.answer = Pending
    OBVIOUS
<1> HIDE DEF new
<1>3. \A c \in calls : ~c.last
    BY <1>1 DEF JobsInv, LastIsUnique
<1>4. LastIsUnique' /\ LastHoldsClaim'
    BY <1>1, <1>2, <1>3 DEF JobsInv, LastIsUnique, LastHoldsClaim, Claim
<1>5. AnswersInOrder'
    BY <1>1, <1>2, <1>3 DEF JobsInv, AnswersInOrder, Past
<1>. QED BY <1>4, <1>5 DEF JobsInv

\* A call settles: an ok answer is about the present state, the newest.
LEMMA SettleStep ==
    ASSUME BridgeTypeOK, CountsAgree, JobsInv, NEW c \in calls, Settle(c)
    PROVE  JobsInv'
<1>1. PICK a \in Possible(c) : calls' = (calls \ {c}) \cup {Settled(c, a)}
    BY DEF Settle
<1> DEFINE d == Settled(c, a)
<1>2. c \in Calls /\ d.last = c.last /\ d.key = c.key /\ d.answer = a
    BY DEF BridgeTypeOK, Calls, Settled
<1> HIDE DEF d
<1>3. /\ calls' = (calls \ {c}) \cup {d} /\ c.answer = Pending
      /\ UNCHANGED <<guard, timer, storing, stored, run, revision>>
    BY <1>1 DEF Settle, d, daemonVars
<1>4. a \in Answers
    BY NamesAndAnswers
<1>5. a.word = "ok" => a.run = run /\ a.about = Here /\ view \in Decisions
    BY DEF Possible, No
<1>6. LastIsUnique' /\ LastHoldsClaim'
    BY <1>2, <1>3 DEF JobsInv, LastIsUnique, LastHoldsClaim, Claim
<1>7. Past(a) /\ \A b \in Answers : Past(b) => NotNewer(b, a)
    <2> SUFFICES ASSUME a.word = "ok"
                 PROVE  Past(a) /\ \A b \in Answers : Past(b) => NotNewer(b, a)
        BY DEF Past, NotNewer
    <2>1. Here \in Keys /\ Here.rev = revision
        BY <1>5, NamesAndAnswers, BridgeAssumption DEF Here
    <2>2. run \in Int /\ revision \in Int
        BY DEF BridgeTypeOK
    <2>. QED BY <1>5, <2>1, <2>2 DEF Past, NotNewer
<1>8. /\ stored.answer \in Answers
      /\ \A i \in 1..Len(storing) : storing[i].answer \in Answers
    <2>1. \A i \in 1..Len(storing) : storing[i] \in Stored
        BY ElementOfSeq DEF BridgeTypeOK
    <2>. QED BY <2>1 DEF BridgeTypeOK, Stored
<1>9. \A b : Past(b)' <=> Past(b)
    BY <1>3 DEF Past
<1>10. AnswersInOrder'
    BY <1>2, <1>3, <1>7, <1>8, <1>9 DEF JobsInv, AnswersInOrder
<1>. QED BY <1>6, <1>10 DEF JobsInv

\* A superseded answer is dropped.
LEMMA DiscardStep ==
    ASSUME JobsInv, NEW c \in calls, Discard(c)
    PROVE  JobsInv'
<1>1. /\ ~c.last /\ calls' = calls \ {c}
      /\ UNCHANGED <<guard, timer, storing, stored, run, revision>>
    BY DEF Discard, Superseded, daemonVars
<1>2. LastIsUnique' /\ LastHoldsClaim'
    BY <1>1 DEF JobsInv, LastIsUnique, LastHoldsClaim, Claim
<1>3. AnswersInOrder'
    BY <1>1 DEF JobsInv, AnswersInOrder, Past
<1>. QED BY <1>2, <1>3 DEF JobsInv

\* The answer of the last job passes: it is the newest of those to be stored.
LEMMA PassStep ==
    ASSUME BridgeTypeOK, JobsInv, NEW c \in calls, Pass(c)
    PROVE  JobsInv'
<1> DEFINE s == [key |-> c.key, last |-> c.last, answer |-> c.answer]
           n == Len(storing)
<1>1. /\ c.last /\ c.answer # Pending /\ calls' = calls \ {c}
      /\ storing' = Append(storing, s)
      /\ guard' = IF Retryable(c.answer.word) /\ guard = c.key THEN NoKey ELSE guard
      /\ UNCHANGED <<timer, stored, run, revision>>
    BY DEF Pass, Superseded, daemonVars
<1>2. s \in Stored /\ s.last = c.last /\ s.key = c.key /\ s.answer = c.answer
    BY <1>1 DEF BridgeTypeOK, Calls, Stored
<1> HIDE DEF s
<1>3. /\ Len(storing') = n + 1 /\ n \in Nat
      /\ \A i \in 1..n : storing'[i] = storing[i]
      /\ storing'[n + 1] = s
    BY <1>1, <1>2, AppendProperties, LenProperties DEF BridgeTypeOK
<1> HIDE DEF n
<1>4. /\ timer = NoKey /\ guard = c.key /\ ~stored.last
      /\ \A i \in 1..n : ~storing[i].last
      /\ \A d \in calls' : ~d.last
    BY <1>1 DEF JobsInv, LastIsUnique, LastHoldsClaim, n
<1>5. guard' = IF Retryable(c.answer.word) THEN NoKey ELSE c.key
    BY <1>1, <1>4
<1>6. \A i \in 1..(n + 1) : i \in 1..n \/ i = n + 1
    BY <1>3
<1>7. LastIsUnique'
    BY <1>1, <1>2, <1>3, <1>4, <1>6 DEF LastIsUnique
<1>8. LastHoldsClaim'
    <2>1. \A i \in 1..Len(storing)' : storing'[i].last => guard' = Claim(storing'[i])
        BY <1>2, <1>3, <1>4, <1>5, <1>6 DEF Claim
    <2>2. n + 1 \in 1..Len(storing)' /\ storing'[n + 1].last
        <3>1. n + 1 \in 1..Len(storing)'
            BY <1>3
        <3>2. s.last
            BY <1>1, <1>2
        <3>. QED BY <1>3, <3>1, <3>2
    <2>. QED BY <1>1, <1>4, <2>1, <2>2 DEF LastHoldsClaim, Claim
<1>9. \A b : Past(b)' <=> Past(b)
    BY <1>1 DEF Past
<1>10. AnswersInOrder'
    <2>1. \A i \in 1..n : NotNewer(storing[i].answer, s.answer)
        BY <1>1, <1>2 DEF JobsInv, AnswersInOrder, n
    <2>2. \A i, j \in 1..Len(storing)' :
             i < j => NotNewer(storing'[i].answer, storing'[j].answer)
        <3>1. \A i, j \in 1..(n + 1) : i < j => i \in 1..n
            BY <1>3
        <3>. QED BY <1>3, <1>6, <2>1, <3>1 DEF JobsInv, AnswersInOrder, n
    <2>3. \A i \in 1..Len(storing)' :
             Past(storing'[i].answer) /\ NotNewer(stored.answer, storing'[i].answer)
        BY <1>1, <1>2, <1>3, <1>6 DEF JobsInv, AnswersInOrder, n
    <2>. QED BY <1>1, <1>4, <1>9, <2>2, <2>3 DEF JobsInv, AnswersInOrder
<1>. QED BY <1>7, <1>8, <1>10 DEF JobsInv

\* The oldest answer that passed is stored.
LEMMA StoreStep ==
    ASSUME BridgeTypeOK, JobsInv, Store
    PROVE  JobsInv' /\ NotNewer(stored.answer, stored'.answer)
<1> DEFINE n == Len(storing)
<1>1. /\ storing # <<>> /\ stored' = Head(storing) /\ storing' = Tail(storing)
      /\ UNCHANGED <<guard, timer, calls, run, revision>>
    BY DEF Store, daemonVars
<1>2. /\ n \in Nat \ {0} /\ Len(storing') = n - 1 /\ storing' \in Seq(Stored)
      /\ \A i \in 1..Len(storing') : storing'[i] = storing[i + 1]
      /\ stored' = storing[1]
    <2>1. storing \in Seq(Stored)
        BY DEF BridgeTypeOK
    <2>2. n \in Nat \ {0}
        BY <1>1, <2>1, EmptySeq
    <2>. QED BY <1>1, <2>1, <2>2, HeadTailProperties
<1> HIDE DEF n
<1>3. /\ 1 \in 1..n
      /\ \A i \in 1..Len(storing') : i + 1 \in 1..n /\ 1 < i + 1
      /\ \A i \in 1..n : i = 1 \/ i - 1 \in 1..Len(storing')
    BY <1>2
<1>4. ~stored.last
    BY <1>1 DEF JobsInv, LastIsUnique
<1>5. LastIsUnique'
    <2>1. \A i \in 1..Len(storing') : storing'[i].last => i = Len(storing')
        BY <1>2, <1>3 DEF JobsInv, LastIsUnique, n
    <2>2. stored'.last => storing' = <<>>
        <3> SUFFICES ASSUME stored'.last PROVE storing' = <<>>
            OBVIOUS
        <3>1. n = 1
            BY <1>2, <1>3 DEF JobsInv, LastIsUnique, n
        <3>. QED BY <1>2, <3>1, EmptySeq
    <2>3. (timer # NoKey \/ \E c \in calls : c.last)
          => ~stored'.last /\ \A i \in 1..Len(storing') : ~storing'[i].last
        BY <1>2, <1>3 DEF JobsInv, LastIsUnique, n
    <2>. QED BY <1>1, <2>1, <2>2, <2>3 DEF JobsInv, LastIsUnique
<1>6. LastHoldsClaim'
    <2>1. \A i \in 1..Len(storing') : storing'[i].last => guard = Claim(storing'[i])
        BY <1>2, <1>3 DEF JobsInv, LastHoldsClaim, n
    <2>2. stored'.last => guard = Claim(stored')
        BY <1>2, <1>3 DEF JobsInv, LastHoldsClaim, n
    <2>3. (\E i \in 1..n : storing[i].last)
          => stored'.last \/ \E i \in 1..Len(storing') : storing'[i].last
        <3> SUFFICES ASSUME NEW i \in 1..n, storing[i].last
                     PROVE  stored'.last \/ \E k \in 1..Len(storing') : storing'[k].last
            OBVIOUS
        <3>1. CASE i = 1
            BY <1>2, <3>1
        <3>2. CASE i # 1
            <4>1. i - 1 \in 1..Len(storing') /\ storing'[i - 1] = storing[(i - 1) + 1]
                BY <1>2, <1>3, <3>2
            <4>2. (i - 1) + 1 = i
                BY <1>2
            <4>. QED BY <4>1, <4>2
        <3>. QED BY <3>1, <3>2
    <2>. QED BY <1>1, <1>4, <2>1, <2>2, <2>3 DEF JobsInv, LastHoldsClaim, Claim, n
<1>7. \A b : Past(b)' <=> Past(b)
    BY <1>1 DEF Past
<1>8. AnswersInOrder'
    <2>1. \A i \in 1..Len(storing') :
             /\ Past(storing'[i].answer)
             /\ NotNewer(stored'.answer, storing'[i].answer)
        BY <1>2, <1>3 DEF JobsInv, AnswersInOrder, n
    <2>2. Past(stored'.answer)
        BY <1>2, <1>3 DEF JobsInv, AnswersInOrder, n
    <2>3. \A i, j \in 1..Len(storing') :
             i < j => NotNewer(storing'[i].answer, storing'[j].answer)
        <3>1. \A i, j \in 1..Len(storing') : i < j => i + 1 < j + 1
            BY <1>2
        <3>. QED BY <1>2, <1>3, <3>1 DEF JobsInv, AnswersInOrder, n
    <2>4. \A c \in calls : c.last /\ c.answer # Pending =>
             /\ NotNewer(stored'.answer, c.answer)
             /\ \A i \in 1..Len(storing') : NotNewer(storing'[i].answer, c.answer)
        BY <1>2, <1>3 DEF JobsInv, AnswersInOrder, n
    <2>. QED BY <1>1, <1>7, <2>1, <2>2, <2>3, <2>4 DEF JobsInv, AnswersInOrder
<1>9. NotNewer(stored.answer, stored'.answer)
    BY <1>2, <1>3 DEF JobsInv, AnswersInOrder, n
<1>. QED BY <1>5, <1>6, <1>8, <1>9 DEF JobsInv

\* The worker starts again: no job is left, and no claim.
LEMMA WorkerStep ==
    ASSUME BridgeTypeOK, JobsInv, WorkerRestart
    PROVE  JobsInv'
<1>1. /\ calls' = {} /\ storing' = <<>> /\ guard' = NoKey /\ timer' = NoKey
      /\ ~stored'.last /\ stored'.answer = stored.answer
      /\ UNCHANGED <<run, revision>>
    BY DEF WorkerRestart, BridgeTypeOK, Stored, daemonVars
<1>2. Len(storing') = 0 /\ \A i \in 1..Len(storing') : FALSE
    BY <1>1
<1>3. LastIsUnique' /\ LastHoldsClaim'
    BY <1>1, <1>2 DEF LastIsUnique, LastHoldsClaim
<1>4. AnswersInOrder'
    BY <1>1, <1>2 DEF JobsInv, AnswersInOrder, Past
<1>. QED BY <1>3, <1>4 DEF JobsInv

\* The daemon publishes: the calls in flight are overtaken.
LEMMA PublishStep ==
    ASSUME BridgeTypeOK, JobsInv, NEW v \in Views, Publish(v)
    PROVE  JobsInv'
<1> DEFINE f == [c \in calls |-> [c EXCEPT !.overtaken = (c.answer = Pending)]]
<1>1. calls \subseteq Calls
    BY DEF BridgeTypeOK
<1>2. f \in [calls -> Calls] /\ calls' = {f[c] : c \in calls}
    BY <1>1, CallTypes DEF Publish
<1>3. \A c \in calls : /\ f[c].last = c.last /\ f[c].key = c.key
                       /\ f[c].answer = c.answer
    BY <1>1 DEF Calls
<1>4. /\ UNCHANGED <<guard, timer, storing, stored>> /\ run' = run
      /\ revision' >= revision /\ revision' \in Nat
    BY DEF Publish, BridgeTypeOK
<1> HIDE DEF f
<1>. QED BY <1>2, <1>3, <1>4, CallsMapped

\* The daemon stops: the calls in flight fail.
LEMMA CrashStep ==
    ASSUME BridgeTypeOK, CountsAgree, JobsInv, Crash
    PROVE  JobsInv'
<1> DEFINE f == [c \in calls |-> IF c.answer = Pending
                                 THEN Settled(c, No("offline")) ELSE c]
<1>1. calls \subseteq Calls
    BY DEF BridgeTypeOK
<1>2. No("offline") \in Answers
    BY NamesAndAnswers DEF Words
<1>3. f \in [calls -> Calls] /\ calls' = {f[c] : c \in calls}
    BY <1>1, <1>2, CallTypes DEF Crash
<1>4. \A c \in calls : /\ f[c].last = c.last /\ f[c].key = c.key
                       /\ f[c].answer = c.answer \/ f[c].answer = No("offline")
    BY <1>1 DEF Calls, Settled
<1>5. /\ UNCHANGED <<guard, timer, storing, stored>> /\ run' = run + 1
      /\ revision' \in Nat
    BY DEF Crash
<1> HIDE DEF f
<1>. QED BY <1>3, <1>4, <1>5, CallsMapped

\* Every step keeps the jobs, the claim and the order of the answers.
LEMMA JobsStep ==
    ASSUME BridgeTypeOK, CountsAgree, JobsInv, [Next]_bridgeVars
    PROVE  JobsInv'
<1>0. CASE UNCHANGED bridgeVars
    BY <1>0, OtherStep DEF bridgeVars, daemonVars
<1>1. ASSUME NEW v \in Views, Publish(v) PROVE JobsInv'
    BY <1>1, PublishStep
<1>2. CASE Crash
    BY <1>2, CrashStep
<1>3. ASSUME NEW ev \in events, Schedule(ev) PROVE JobsInv'
    <2>1. ev.key \in Keys
        BY DEF BridgeTypeOK, Events
    <2>. QED BY <1>3, <2>1, NewEpochStep DEF Schedule, daemonVars
<1>4. CASE TokenChanged
    BY <1>4, NewEpochStep DEF TokenChanged, ClaimReset, daemonVars
<1>5. CASE TimerFires
    BY <1>5, TimerStep
<1>6. ASSUME NEW c \in calls, Settle(c) \/ Discard(c) \/ Pass(c) PROVE JobsInv'
    BY <1>6, SettleStep, DiscardStep, PassStep
<1>7. CASE Store
    BY <1>7, StoreStep
<1>8. CASE WorkerRestart
    BY <1>8, WorkerStep
<1>9. CASE Unauthorized \/ Empty \/ PushStatus \/ Restart
    BY <1>9, OtherStep
       DEF Unauthorized, Empty, PushStatus, Restart, daemonVars
<1>10. CASE Connect \/ ConnectUnpaired \/ Disconnect \/ Pair
    BY <1>10, OtherStep DEF Connect, ConnectUnpaired, Disconnect, Pair, daemonVars
<1>11. ASSUME NEW ev \in events, ScheduleClaimed(ev) PROVE JobsInv'
    BY <1>11, OtherStep DEF ScheduleClaimed, daemonVars
<1>. QED BY <1>0, <1>1, <1>2, <1>3, <1>4, <1>5, <1>6, <1>7, <1>8, <1>9, <1>10,
            <1>11 DEF Next, Work

\* Nothing is claimed and nothing runs when the worker is first started.
LEMMA InitInv == Init => BridgeInv
<1> SUFFICES ASSUME Init PROVE BridgeInv
    OBVIOUS
<1> USE DEF Init
<1>1. No("not_ready") \in Answers
    BY BridgeAssumption DEF No, Answers, Words
<1>2. stored \in Stored /\ ~stored.last /\ stored.answer = No("not_ready")
    BY <1>1 DEF Stored
<1>3. storing \in Seq(Stored) /\ Len(storing) = 0 /\ \A i \in 1..Len(storing) : FALSE
    BY EmptySeq
<1>4. 0 \in 0..MaxRevision /\ 0 \in -1..MaxRevision /\ 0 \in 0..MaxFaults
    BY BridgeAssumption
<1>5. calls \subseteq Calls /\ events \subseteq Events /\ CountsAgree
    BY DEF CountsAgree
<1>6. BridgeTypeOK
    BY <1>2, <1>3, <1>4, <1>5 DEF BridgeTypeOK
<1>7. LastIsUnique /\ LastHoldsClaim /\ AnswersInOrder
    BY <1>2, <1>3 DEF LastIsUnique, LastHoldsClaim, AnswersInOrder, Past, No
<1>. QED BY <1>5, <1>6, <1>7 DEF BridgeInv

-----------------------------------------------------------------------------

\* What holds of every step, fair or not.
LEMMA SafetyInvariant == Safety => []BridgeInv
<1>1. BridgeInv /\ [Next]_bridgeVars => BridgeInv'
    BY TypesStep, JobsStep DEF BridgeInv, JobsInv
<1>. QED BY InitInv, <1>1, PTL DEF Safety

\* BridgeInv is inductive: the epochs of hwmScheduleRecommendation, the claim
\* of the guard and the order of the answers that the worker stores hold in
\* every reachable state.  (What the panel stores is not among them.)
THEOREM BridgeInvariant == Spec => []BridgeInv
BY SafetyInvariant, PTL DEF Spec

\* The variables of the worker, the status stream and the daemon keep their
\* types.
THEOREM BridgeTypeCorrect == Spec => []BridgeTypeOK
<1>1. BridgeInv => BridgeTypeOK
    BY DEF BridgeInv
<1>. QED BY BridgeInvariant, <1>1, PTL

\* The invariant says whose the claim is.
LEMMA ClaimOfInvariant == BridgeInv => ClaimIsOwned
<1> SUFFICES ASSUME BridgeInv PROVE ClaimIsOwned
    OBVIOUS
<1> DEFINE kept == {stored} \cup {storing[i] : i \in DOMAIN storing}
           held == {timer} \cup {c.key : c \in {c \in calls : c.last}}
                   \cup {c.key : c \in {c \in kept :
                             c.last /\ ~Retryable(c.answer.word)}}
<1>1. BridgeTypeOK /\ LastIsUnique /\ LastHoldsClaim
    BY DEF BridgeInv
<1>2. DOMAIN storing = 1..Len(storing)
    BY <1>1, LenProperties DEF BridgeTypeOK
<1>3. \A c \in calls : c.last => c.key = guard
    BY <1>1 DEF LastHoldsClaim
<1>4. \A c \in kept : c.last /\ ~Retryable(c.answer.word) => c.key = guard
    BY <1>1, <1>2 DEF LastHoldsClaim, Claim
<1>5. held \subseteq {guard, NoKey}
    BY <1>1, <1>3, <1>4 DEF LastHoldsClaim
<1>6. guard # NoKey => guard \in held
    BY <1>1, <1>2 DEF LastHoldsClaim, Claim
<1>. QED BY <1>5, <1>6 DEF ClaimIsOwned

\* claimedKey is always the name of a job that will give it back or of an
\* answer that needs no retry, for any number of states, calls and faults.
THEOREM ClaimsAreOwned == Spec => []ClaimIsOwned
BY BridgeInvariant, ClaimOfInvariant, PTL

\* A step of the worker stores no older answer over a newer one.
LEMMA StoredInOrder ==
    ASSUME BridgeInv, Next
    PROVE  NotNewer(stored.answer, stored'.answer)
<1>1. CASE Store
    BY <1>1, StoreStep DEF BridgeInv, JobsInv
<1>2. stored.answer.word = "ok" => stored.answer.about.rev \in Int
    BY DEF BridgeInv, AnswersInOrder, Past, Keys
<1>3. CASE stored'.answer = stored.answer
    BY <1>2, <1>3 DEF NotNewer
<1>4. CASE \/ TokenChanged \/ WorkerRestart
           \/ \E ev \in events : Schedule(ev)
    BY <1>3, <1>4 DEF TokenChanged, WorkerRestart, Schedule, NewEpoch,
                      BridgeInv, BridgeTypeOK, Stored
<1>5. CASE UNCHANGED stored
    BY <1>3, <1>5
<1>. QED BY <1>1, <1>4, <1>5
     DEF Next, Work, Publish, Unauthorized, Empty, PushStatus, Crash, Restart,
         ScheduleClaimed, TimerFires, Settle, Discard, Pass, Connect,
         ConnectUnpaired, Disconnect, Pair, epochVars

\* In whatever order fetches settle and states are claimed, no move that the
\* worker stores follows a move that it stored for a newer state of the same
\* run of the daemon.  The panel's writes to the same key are not the worker's.
THEOREM NewestAnswerStays == Spec => NewestStays
<1> DEFINE Step == LET old == stored.answer  new == stored'.answer
                   IN  old.word = "ok" /\ new.word = "ok" /\ old.run = new.run
                       => new.about.rev >= old.about.rev
<1>1. ASSUME BridgeInv, Next PROVE Step
    BY <1>1, StoredInOrder DEF NotNewer
<1>2. BridgeInv /\ [Next]_bridgeVars => [Step]_bridgeVars
    BY <1>1
<1>. QED BY SafetyInvariant, <1>2, PTL DEF Spec, Safety, NewestStays

-----------------------------------------------------------------------------
(* The side panel                                                           *)

\* Whatever the panel does is, to the worker, a step of Bridge or none: its
\* 401s and its pairing are the ones Bridge allows, its writes are elsewhere.
LEMMA PanelStepIsBridgeStep ==
    ASSUME [PanelNext]_panelVars
    PROVE  [Next]_bridgeVars
<1>1. CASE UNCHANGED panelVars
    BY <1>1 DEF panelVars
<1>2. CASE PanelWork
    BY <1>2 DEF PanelWork, StoreAnswer, StoreStatus, OtherWork, Next, Work
<1>3. ASSUME NEW v \in Views, PublishUnder(v) PROVE Next
    BY <1>3 DEF PublishUnder, Next
<1>4. CASE CrashUnder \/ OtherChange
    BY <1>4 DEF CrashUnder, OtherChange, Next
<1>5. TokenUsed => [Next]_bridgeVars
    BY DEF TokenUsed, Next
<1>6. ASSUME NEW p \in Asks,
             \/ Click(p) \/ PairAndAsk(p) \/ AskSettles(p)
             \/ GuardByPushed(p) \/ GuardByFetched(p) \/ AskStores(p)
      PROVE  [Next]_bridgeVars
    <2>1. CASE Click(p) \/ GuardByPushed(p) \/ AskStores(p)
        BY <2>1 DEF Click, GuardByPushed, AskStores
    <2>2. CASE PairAndAsk(p)
        BY <2>2 DEF PairAndAsk, Next
    <2>3. CASE AskSettles(p) \/ GuardByFetched(p)
        BY <1>5, <2>3 DEF AskSettles, GuardByFetched
    <2>. QED BY <1>6, <2>1, <2>2, <2>3
<1>. QED BY <1>1, <1>2, <1>3, <1>4, <1>6 DEF PanelNext

\* The worker beside the panel is the worker of Bridge, up to fairness: all
\* that is proved of the worker's claim and of its answers holds beside any
\* number of requests of the panel, pairings and refused tokens.
THEOREM PanelLeavesWorker == PanelSpec => Safety
<1>1. PanelInit => Init
    BY DEF PanelInit
<1>2. [PanelNext]_panelVars => [Next]_bridgeVars
    BY PanelStepIsBridgeStep
<1>. QED BY <1>1, <1>2, PTL DEF PanelSpec, Safety

\* One call of the panel changes.
LEMMA AskChanged ==
    ASSUME PanelTypeOK, NEW p \in Asks, NEW ask \in Asking \cup {Idle},
           ask # Idle => /\ ask.answer # No("offline")
                         /\ ask.guarded => ask.answer # Pending,
           asks' = [asks EXCEPT ![p] = ask],
           pushed' = pushed, latest' \in Answers
    PROVE  PanelTypeOK'
BY DEF PanelTypeOK

\* The calls of the panel, the stored status and hwmLastRecommendation keep
\* their types; the panel stores no failure to reach the daemon.
THEOREM PanelTypeCorrect == PanelSpec => []PanelTypeOK
<1>1. PanelInit => PanelTypeOK
    <2> SUFFICES ASSUME PanelInit PROVE PanelTypeOK
        OBVIOUS
    <2>1. latest \in Answers
        BY InitInv DEF PanelInit, BridgeInv, BridgeTypeOK, Stored
    <2>. QED BY <2>1 DEF PanelInit, PanelTypeOK
<1>2. ASSUME BridgeInv, PanelTypeOK, [PanelNext]_panelVars
      PROVE  PanelTypeOK'
    <2> USE <1>2
    <2>1. BridgeTypeOK /\ CountsAgree /\ BridgeTypeOK'
        BY PanelStepIsBridgeStep, TypesStep DEF BridgeInv
    <2>2. \A w \in Words : No(w) \in Answers
        BY <2>1, NamesAndAnswers
    <2>3. Asked \in Asking /\ Asked # Idle /\ Asked.answer = Pending /\ ~Asked.guarded
        <3>1. Asked \in Asking /\ Asked.answer = Pending /\ ~Asked.guarded
            BY DEF Asked, Asking
        <3>. QED BY <3>1, PanelAssumption
    <2>4. No("offline") \in Answers /\ No("offline") # Pending
        BY <2>2, BridgeAssumption DEF Words
    <2>5. CASE UNCHANGED <<asks, pushed, latest>>
        BY <2>5 DEF PanelTypeOK
    <2>6. CASE StoreAnswer
        BY <2>1, <2>6 DEF StoreAnswer, PanelTypeOK, BridgeTypeOK, Stored
    <2>7. CASE StoreStatus
        BY <2>1, <2>7 DEF StoreStatus, PanelTypeOK, BridgeTypeOK
    <2>8. ASSUME NEW v \in Views, PublishUnder(v) PROVE PanelTypeOK'
        <3>1. \A ask \in Asking : /\ [ask EXCEPT !.overtaken = TRUE] \in Asking
                                  /\ [ask EXCEPT !.overtaken = TRUE].answer = ask.answer
                                  /\ [ask EXCEPT !.overtaken = TRUE].guarded = ask.guarded
            BY DEF Asking
        <3>. QED BY <2>8, <3>1 DEF PublishUnder, PanelTypeOK
    <2>9. CASE CrashUnder
        BY <2>9 DEF CrashUnder, PanelTypeOK
    <2>10. ASSUME NEW p \in Asks, Click(p) \/ PairAndAsk(p) PROVE PanelTypeOK'
        <3>1. asks' = [asks EXCEPT ![p] = Asked] /\ UNCHANGED <<pushed, latest>>
            BY <2>10 DEF Click, PairAndAsk
        <3>. QED BY <2>3, <2>4, <3>1, AskChanged DEF PanelTypeOK
    <2>11. ASSUME NEW p \in Asks, AskSettles(p) PROVE PanelTypeOK'
        <3>1. PICK a \in Possible(asks[p]) :
                 asks' = [asks EXCEPT ![p] =
                             IF Throws(a) THEN Idle
                             ELSE [answer |-> a, overtaken |-> FALSE,
                                   guarded |-> a.word # "ok"]]
            BY <2>11 DEF AskSettles
        <3>2. a \in Answers /\ a # Pending
            BY <2>1, NamesAndAnswers, BridgeAssumption
        <3>3. [answer |-> a, overtaken |-> FALSE, guarded |-> a.word # "ok"] \in Asking
            BY <3>2 DEF Asking
        <3>4. UNCHANGED <<pushed, latest>>
            BY <2>11 DEF AskSettles
        <3>. QED BY <3>1, <3>2, <3>3, <3>4, AskChanged DEF PanelTypeOK, Throws
    <2>12. ASSUME NEW p \in Asks, NEW of, Unguarded(p)
           PROVE  LET ask == Guarded(asks[p], of)
                  IN  /\ ask \in Asking
                      /\ ask.answer # No("offline") /\ ask.answer # Pending
        <3>1. asks[p] \in Asking /\ asks[p].answer # No("offline")
            BY <2>12 DEF Unguarded, PanelTypeOK
        <3>2. No("stale") \in Answers /\ No("stale") # No("offline")
              /\ No("stale") # Pending
            BY <2>2, BridgeAssumption DEF Words, No
        <3>. QED BY <2>12, <3>1, <3>2 DEF Guarded, Unguarded, Asking
    <2>13. ASSUME NEW p \in Asks, GuardByPushed(p) PROVE PanelTypeOK'
        BY <2>12, <2>13, AskChanged DEF GuardByPushed, PanelTypeOK
    <2>14. ASSUME NEW p \in Asks, GuardByFetched(p) PROVE PanelTypeOK'
        BY <2>12, <2>14, AskChanged DEF GuardByFetched, PanelTypeOK
    <2>15. ASSUME NEW p \in Asks, AskStores(p) PROVE PanelTypeOK'
        <3>1. asks[p].answer \in Answers
            BY <2>15 DEF AskStores, PanelTypeOK, Asking
        <3>. QED BY <2>15, <3>1, AskChanged DEF AskStores, PanelTypeOK
    <2>. QED BY <2>5, <2>6, <2>7, <2>8, <2>9, <2>10, <2>11, <2>13, <2>14, <2>15
         DEF PanelNext, PanelWork, OtherWork, OtherChange, panelVars
<1>3. PanelSpec => []BridgeInv
    BY PanelLeavesWorker, SafetyInvariant, PTL
<1>. QED BY <1>1, <1>2, <1>3, PTL DEF PanelSpec

\* hwmLastRecommendation goes back to a move for an older state only where the
\* panel writes or has written: between two answers of the worker it does not,
\* for any number of publications, requests of either, pairings and stops.
THEOREM OnlyThePanelStepsBack == PanelSpec => StepsBackByPanelOnly
<1> DEFINE Step == StepsBack => PanelStores \/ latest # stored.answer
<1>1. ASSUME BridgeInv, BridgeInv', PanelNext, StepsBack, ~PanelStores,
             latest = stored.answer
      PROVE  FALSE
    <2>1. latest' # latest
        <3>1. latest.about.rev \in Int
            BY <1>1 DEF StepsBack, BridgeInv, AnswersInOrder, Past, Keys
        <3>. QED BY <1>1, <3>1 DEF StepsBack
    <2>2. StoreAnswer
        BY <1>1, <2>1
           DEF PanelNext, PanelWork, StoreStatus, OtherWork, PublishUnder, CrashUnder,
               OtherChange, Click, PairAndAsk, AskSettles, GuardByPushed,
               GuardByFetched, PanelStores
    <2>3. NotNewer(stored.answer, stored'.answer)
        BY <1>1, <2>2, StoreStep DEF StoreAnswer, BridgeInv, JobsInv
    <2>4. /\ stored.answer.about.rev \in Int /\ stored'.answer.about.rev \in Int
        BY <1>1, <2>2 DEF StepsBack, StoreAnswer, BridgeInv, AnswersInOrder, Past, Keys
    <2>. QED BY <1>1, <2>2, <2>3, <2>4 DEF StepsBack, StoreAnswer, NotNewer
<1>2. ASSUME BridgeInv, BridgeInv', [PanelNext]_panelVars PROVE [Step]_panelVars
    BY <1>1, <1>2
<1>3. PanelSpec => []BridgeInv
    BY PanelLeavesWorker, SafetyInvariant, PTL
<1>. QED BY <1>2, <1>3, PTL DEF PanelSpec, StepsBackByPanelOnly
=============================================================================
