------------------------------- MODULE Board -------------------------------
(***************************************************************************)
(* Positions in the replay parser: where a stack stands, what its          *)
(* overloaded m-record means, and where an attacker really landed.  A big  *)
(* stack covers 2x2 cells and is placed by its top left one.  "ents" maps  *)
(* identifiers to stacks; a is the identifier of the stack that moves.     *)
(***************************************************************************)
EXTENDS Integers, FiniteSets

CONSTANTS
    Width,    \* columns of the board (12 in the code)
    Height    \* rows of the board (20 in the code)

ASSUME BoardAssumption == Width \in Nat \ {0} /\ Height \in Nat \ {0}

Abs(n) == IF n < 0 THEN -n ELSE n

Larger(m, n) == IF m < n THEN n ELSE m

\* Moves of a king between two cells.
Distance(p, q) == Larger(Abs(p[1] - q[1]), Abs(p[2] - q[2]))

Size(s) == IF "big" \in s.traits THEN 2 ELSE 1

Cells(s, p) == {<<p[1] + dx, p[2] + dy>> : dx \in 0..(Size(s) - 1), dy \in 0..(Size(s) - 1)}

\* Stack s, placed at p, stands beside stack t.
Adjacent(s, p, t) == \E c \in Cells(s, p), d \in Cells(t, t.pos) : Distance(c, d) <= 1

BlocksBoard(s) == s.alive /\ "hero" \notin s.traits /\ "hidden" \notin s.traits

Blockers(ents, a, p) ==
    {u \in DOMAIN ents \ {a} : /\ BlocksBoard(ents[u])
                               /\ Cells(ents[a], p) \cap Cells(ents[u], ents[u].pos) # {}}

Blocked(ents, a, p) == Blockers(ents, a, p) # {}

OnBoard(s, p) == \A c \in Cells(s, p) : c[1] \in 1..Width /\ c[2] \in 1..Height

CanPlace(ents, a, p) == OnBoard(ents[a], p) /\ ~Blocked(ents, a, p)

\* The four anchors with which a big stack covers cell p, in order of preference.
Anchors(p) == <<p, <<p[1] - 1, p[2]>>, <<p[1], p[2] - 1>>, <<p[1] - 1, p[2] - 1>> >>

\* The anchor among ps that continues best from the stack's position.
Nearest(ps, here, p) ==
    LET rank(i) == <<Distance(Anchors(p)[i], here),
                     Abs(Anchors(p)[i][1] - here[1]) + Abs(Anchors(p)[i][2] - here[2]), i>>
        before(r, q) == \/ r[1] < q[1]
                        \/ r[1] = q[1] /\ r[2] < q[2]
                        \/ r[1] = q[1] /\ r[2] = q[2] /\ r[3] <= q[3]
        ok == {i \in 1..4 : Anchors(p)[i] \in ps}
    IN  Anchors(p)[CHOOSE i \in ok : \A j \in ok : before(rank(i), rank(j))]

\* Where a labelled m-record puts stack a: one of the anchors that fit on the board.
BigAnchor(ents, a, p) ==
    LET fits == {Anchors(p)[i] : i \in {j \in 1..4 : CanPlace(ents, a, Anchors(p)[j])}}
    IN  IF "big" \notin ents[a].traits \/ CanPlace(ents, a, p) \/ fits = {} THEN p
        ELSE Nearest(fits, ents[a].pos, p)

\* Where an applied m-record puts it: only the upper and left edges are tested.
AppliedAnchor(ents, a, p) ==
    LET free(q) == q[1] >= 1 /\ q[2] >= 1 /\ ~Blocked(ents, a, q)
        fits    == {Anchors(p)[i] : i \in {j \in 1..4 : free(Anchors(p)[j])}}
    IN  IF "big" \notin ents[a].traits \/ free(p) \/ fits = {} THEN p
        ELSE Nearest(fits, ents[a].pos, p)

Neighbours(p) == {<<p[1] + dx, p[2] + dy>> : dx \in -1..1, dy \in -1..1} \ {p}

Budget(s) == IF "active" \in s.rune THEN 2 * s.speed ELSE s.speed

\* Cells that stack a can reach in its move; a flyer ignores what is in between.
Reachable(ents, a) ==
    LET here == ents[a].pos
        walk[n \in Nat] ==
            IF n = 0 THEN {here}
            ELSE walk[n - 1] \cup {q \in UNION {Neighbours(p) : p \in walk[n - 1]} :
                                       CanPlace(ents, a, q)}
    IN  IF "flyer" \in ents[a].traits
        THEN {q \in (1..Width) \X (1..Height) :
                  q # here /\ Distance(q, here) <= Budget(ents[a]) /\ CanPlace(ents, a, q)}
        ELSE walk[Larger(0, Budget(ents[a]))] \ {here}

\* Cells beside the target in which the attacker may have ended.
Landings(ents, a, t) ==
    {p \in Reachable(ents, a) \cup {ents[a].pos} :
        /\ p = ents[a].pos => CanPlace(ents, a, p)
        /\ Adjacent(ents[a], p, ents[t])}

Single(S) == CHOOSE q \in S : TRUE

\* Where an attacker a of t landed whose m-record says p.  "special": a SPECIAL
\* record is among the commands; "hit": the stacks that a damaged.  Anything else
\* than the meaning of the record itself must be the only possibility.
MeleeAnchor(ents, a, t, p, special, hit) ==
    LET canonical == BigAnchor(ents, a, p)
        here      == ents[a].pos
        blockers  == Blockers(ents, a, p)
        landings  == Landings(ents, a, t)
        near      == {q \in landings : Distance(q, p) <= 1}
        legal(q)  == CanPlace(ents, a, q) /\ Adjacent(ents[a], q, ents[t])
        friendly  == ents[a].owner > 0 /\ \A u \in blockers : ents[u].owner = ents[a].owner
    IN  IF ~({a, t} \subseteq DOMAIN ents /\ ents[a].alive /\ ents[t].alive) THEN p
        ELSE IF special \/ (blockers = {} /\ hit # {t}) \/ legal(canonical) THEN canonical
        ELSE IF Cardinality(near) = 1 THEN Single(near)
        ELSE IF /\ blockers # {} /\ Cardinality(landings) = 1
                /\ Distance(Single(landings), p) <= 2 THEN Single(landings)
        ELSE IF blockers # {} /\ hit = {t} /\ friendly /\ legal(here) THEN here
        ELSE canonical
=============================================================================
