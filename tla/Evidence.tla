------------------------------ MODULE Evidence ------------------------------
(***************************************************************************)
(* What the scripts in python/hwm_solver/ability share.  Each audits one   *)
(* ability over a corpus of recorded battles: a first pass over the        *)
(* initial states finds the stacks that have the ability, a second pass    *)
(* classifies the decisions of the replay parser.  A decision is looked at *)
(* here when its commands are applied and it is about to be written out.   *)
(* Of the rows that a script collects only the facts are kept that its     *)
(* counters tell apart; names, examples and tooltips are left out.         *)
(***************************************************************************)
EXTENDS ReplayDecisions

Concluding == next # 0 /\ todo = << >>

\* A battle directory as the first pass sees it: its init.txt is there or not, can be
\* parsed or not, is parsed with so many warnings; and turns0.txt is there or not.
Directory(stacks) == [init |-> "read", turns |-> TRUE, warnings |-> 0, stacks |-> stacks]

Decision ==
    [dir |-> Directory(battle.stacks), actor |-> row.actor, type |-> row.type, target |-> row.target,
     cmds |-> row.cmds, vague |-> row.vague, before |-> before, after |-> Settled]

\* The first pass of a script over one directory.
FirstPass(dir, ability) ==
    [carriers |-> IF dir.init # "read" THEN {}
                  ELSE {u \in DOMAIN dir.stacks : ability \in dir.stacks[u].traits},
     errors   |-> CASE dir.init = "read" -> dir.warnings
                    [] dir.init = "broken" -> 1
                    [] OTHER -> 0]

Carriers(d, ability) == FirstPass(d.dir, ability).carriers

\* A row if the condition holds.
When(condition, fact) == IF condition THEN {fact} ELSE {}

Attacks == {"MELEE_ATTACK", "RANGED_ATTACK"}

Mechanical == {"mechanical", "warmachine", "statix"}

Traits(ents, u) == IF u \in DOMAIN ents THEN ents[u].traits ELSE {}

EffectsOf(ents, u) == IF u \in DOMAIN ents THEN ents[u].effects ELSE {}

Added(d, u) == EffectsOf(d.after, u) \ EffectsOf(d.before, u)

Lost(d, u) == EffectsOf(d.before, u) \ EffectsOf(d.after, u)

Alive(ents, u) == u \in DOMAIN ents /\ ents[u].alive

\* Stacks that can be seen on the board.
Visible(ents) == {u \in DOMAIN ents : ents[u].alive /\ "hidden" \notin ents[u].traits}

Relation(ents, u, v) ==
    IF ~({u, v} \subseteq DOMAIN ents) THEN "unknown"
    ELSE IF ents[u].owner = ents[v].owner THEN "same_owner" ELSE "other_owner"

\* The places of the hits of a on t, and of the S-records of a that name t.
Hits(cmds, a, t) ==
    {i \in 1..Len(cmds) : cmds[i].op = "DAMAGE" /\ cmds[i].actor = a /\ cmds[i].target = t}

Marks(cmds, a, t) ==
    {i \in 1..Len(cmds) : t # 0 /\ cmds[i].op = "SPECIAL" /\ cmds[i].actor = a /\ cmds[i].target = t}

Codes(cmds, places) == {cmds[i].code : i \in places}

\* a hits t, and t hits back later.
Answered(cmds, a, t) == \E i \in Hits(cmds, a, t), j \in Hits(cmds, t, a) : i < j

\* The damage that the places up to each of the commands say, and all of them.
Running(cmds, places) ==
    LET add[n \in 0..Len(cmds)] ==
            IF n = 0 THEN 0 ELSE add[n - 1] + (IF n \in places THEN cmds[n].amount ELSE 0)
    IN  add

Dealing(cmds, places) == Running(cmds, places)[Len(cmds)]

Least(S) == CHOOSE i \in S : \A j \in S : i <= j

Greatest(S) == CHOOSE i \in S : \A j \in S : j <= i

\* Number n of an S-record as its digits say it, Nothing if it is shorter.
RawField(c, n) == IF Len(c.raw) >= n THEN c.raw[n] ELSE Nothing
=============================================================================
