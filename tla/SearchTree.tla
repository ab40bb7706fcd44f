----------------------------- MODULE SearchTree -----------------------------
(***************************************************************************)
(* The search graph that Planner::plan keeps between requests              *)
(* (cpp/include/hwm/detail/planner_tree.hpp and the search in              *)
(* cpp/src/planner.cpp).  Nodes are owned by a table under the hash of     *)
(* their state; edges refer to nodes by address, and an address is free    *)
(* again when its node is erased.  A new request reuses the part of the    *)
(* graph below its own state, or starts anew.                              *)
(*                                                                         *)
(* Requests search one at a time (PlanService shows it).  A state is its   *)
(* hash, which leaves out the structure of the battle (board, abilities to *)
(* fly or shoot), and a simulation keeps the structure of its request.     *)
(* Which move it picks and what comes of it are left open; of the values   *)
(* that an edge adds up, only the side is kept from whose view they are.   *)
(***************************************************************************)
EXTENDS Integers, Sequences, FiniteSets

CONSTANTS
    States,      \* states of battles: their hashes
    Forms,       \* structures that the hash leaves out
    Moves,       \* environment: the legal actions under each structure in each state
    Results,     \* environment: the states that each action may lead to, NoState for the end
                 \* of the battle or an action that proves invalid
    BattleOf,    \* the battle of each state, NoBattle if it has no id
    Summons,     \* the stacks it has beyond those of the first state
    Sides,       \* whom a request plans for
    Addresses,   \* where nodes can be
    MaxDepth,    \* max_depth
    Budget,      \* simulation_budget
    MaxPlans,    \* bound: number of requests
    NoState, NoKey, NoNode, NoBattle

ASSUME SearchAssumption ==
    /\ MaxDepth \in Nat /\ Budget \in Nat /\ MaxPlans \in Nat
    /\ NoState \notin States /\ NoNode \notin Addresses
    /\ \A f \in Forms, s \in States : \A a \in Moves[f][s] :
          Results[s][a] \subseteq States \cup {NoState}

VARIABLES
    nodes,   \* nodes_: the node at each address in use
    key,     \* graph_battle_id_, graph_perspective_ and graph_structure_fingerprint_
    phase,   \* "idle", "loop", "down" or "up"
    root,    \* the address of the root
    at,      \* the node that the simulation has reached,
    here,    \* and the state it has reached there
    path,    \* what simulate() was called for on the way: node, action, outcome
    sims,    \* simulations of this request
    plans    \* requests so far

vars == <<nodes, key, phase, root, at, here, path, sims, plans>>

\* The fingerprint is of the structure and of the stacks of the state.
Key(s, f, side) == [battle |-> BattleOf[s], side |-> side, print |-> <<f, Summons[s]>>]

Form == key.print[1]

Node(s, visits, initialized, edges) ==
    [hash |-> s, visits |-> visits, initialized |-> initialized, edges |-> edges]

NewNode(s) == Node(s, 0, FALSE, << >>)

Edge(visits, views, outcomes) == [visits |-> visits, views |-> views, outcomes |-> outcomes]

NewEdge == Edge(0, {}, << >>)

Find(s) == {i \in DOMAIN nodes : nodes[i].hash = s}

\* The nodes that the edges of node n refer to.
Children(n) ==
    UNION {{n.edges[a].outcomes[s].child : s \in DOMAIN n.edges[a].outcomes} : a \in DOMAIN n.edges}

\* Faulty: what is two moves away is erased.
RetainedNear(r) == {r} \cup (Children(nodes[r]) \cap DOMAIN nodes)

\* Faulty: nothing is erased.
RetainedAll(r) == DOMAIN nodes

\* Everything below r: what is in each set that has r and the children of its members.
Retained(r) ==
    LET closed(S) == r \in S /\ \A i \in S : Children(nodes[i]) \cap DOMAIN nodes \subseteq S
    IN  {i \in DOMAIN nodes : \A S \in SUBSET DOMAIN nodes : closed(S) => i \in S}

\* Faulty: the structure is not compared, as if the hash held it.
ReusableByHash(s, f, side) ==
    IF key # NoKey /\ key.battle = BattleOf[s] /\ key.side = side THEN Find(s) ELSE {}

Reusable(s, f, side) ==
    IF BattleOf[s] # NoBattle /\ key = Key(s, f, side) THEN Find(s) ELSE {}

\* The edges of a node are made when it is first entered.
Initialized(n) ==
    IF n.initialized THEN n ELSE Node(n.hash, n.visits, TRUE, [a \in Moves[Form][here] |-> NewEdge])

\* An outcome that is known keeps its child.
Bound(e, s, child) ==
    Edge(e.visits, e.views,
         [t \in DOMAIN e.outcomes \cup {s} |->
             IF t \in DOMAIN e.outcomes THEN e.outcomes[t] ELSE [child |-> child, visits |-> 0]])

\* A call of simulate() adds its visit and its value on return.
Counted(e, to) ==
    Edge(e.visits + 1, e.views \cup {key.side},
         [t \in DOMAIN e.outcomes |->
             [child |-> e.outcomes[t].child, visits |-> e.outcomes[t].visits + (IF t = to THEN 1 ELSE 0)]])

-----------------------------------------------------------------------------
Init ==
    /\ nodes = << >> /\ key = NoKey
    /\ phase = "idle" /\ root = NoNode
    /\ at = NoNode /\ here = NoState /\ path = << >>
    /\ sims = 0 /\ plans = 0

Begin(s, f) ==
    /\ phase = "idle" /\ plans < MaxPlans /\ Moves[f][s] # {}
    /\ phase' = "loop" /\ here' = s
    /\ sims' = 0 /\ plans' = plans + 1
    /\ UNCHANGED <<at, path>>

\* The graph below the state of the request is kept,
Reuse(s, f, side) ==
    /\ Begin(s, f)
    /\ \E r \in Reusable(s, f, side) :
          /\ root' = r
          /\ nodes' = [i \in Retained(r) |-> nodes[i]]
    /\ key' = Key(s, f, side)

\* or a new one is begun.
Anew(s, f, side) ==
    /\ Begin(s, f) /\ Reusable(s, f, side) = {}
    /\ key' = Key(s, f, side)
    /\ \E r \in Addresses : root' = r /\ nodes' = [i \in {r} |-> NewNode(s)]

Simulate ==
    /\ phase = "loop" /\ sims < Budget
    /\ phase' = "down" /\ at' = root
    /\ UNCHANGED <<nodes, key, root, here, path, sims, plans>>

\* A node at the depth limit is only valued.
Leaf ==
    /\ phase = "down" /\ Len(path) >= MaxDepth
    /\ phase' = "up"
    /\ UNCHANGED <<nodes, key, root, at, here, path, sims, plans>>

\* So is one where nothing can be done, though its edges are made.
DeadEnd ==
    /\ phase = "down" /\ Len(path) < MaxDepth
    /\ Initialized(nodes[at]).edges = << >>
    /\ nodes' = [nodes EXCEPT ![at] = Initialized(@)]
    /\ phase' = "up"
    /\ UNCHANGED <<key, root, at, here, path, sims, plans>>

\* The action proves invalid or ends the battle.
Ended(a) ==
    /\ phase = "down" /\ Len(path) < MaxDepth
    /\ NoState \in Results[here][a]
    /\ nodes' = [nodes EXCEPT ![at] = Initialized(@)]
    /\ path' = Append(path, [node |-> at, state |-> here, action |-> a, to |-> NoState])
    /\ phase' = "up"
    /\ UNCHANGED <<key, root, at, here, sims, plans>>

\* The action leads to state s: its node is looked up or made, and bound to the edge.
Descend(a, s) ==
    LET entered == Initialized(nodes[at])
        linked(child) == Node(entered.hash, entered.visits, TRUE,
                              [entered.edges EXCEPT ![a] = Bound(@, s, child)])
    IN  /\ phase = "down" /\ Len(path) < MaxDepth
        /\ s \in Results[here][a] \ {NoState}
        /\ \/ \E child \in Find(s) : at' = child /\ nodes' = [nodes EXCEPT ![at] = linked(child)]
           \/ /\ Find(s) = {}
              /\ \E child \in Addresses \ DOMAIN nodes :
                    /\ at' = child
                    /\ nodes' = [i \in DOMAIN nodes \cup {child} |->
                                    IF i = child THEN NewNode(s)
                                    ELSE IF i = at THEN linked(child) ELSE nodes[i]]
        /\ path' = Append(path, [node |-> at, state |-> here, action |-> a, to |-> s])
        /\ here' = s
        /\ UNCHANGED <<key, phase, root, sims, plans>>

BackUp ==
    LET f == path[Len(path)]
        n == nodes[f.node]
    IN  /\ phase = "up" /\ path # << >>
        /\ nodes' = [nodes EXCEPT ![f.node] =
                        Node(n.hash, n.visits + 1, n.initialized,
                             [n.edges EXCEPT ![f.action] = Counted(@, f.to)])]
        /\ path' = SubSeq(path, 1, Len(path) - 1)
        /\ at' = f.node /\ here' = f.state
        /\ UNCHANGED <<key, phase, root, sims, plans>>

Simulated ==
    /\ phase = "up" /\ path = << >>
    /\ phase' = "loop" /\ sims' = sims + 1
    /\ UNCHANGED <<nodes, key, root, at, here, path, plans>>

\* A newer revision: the graph stays as it is.
Cancel ==
    /\ phase = "loop" /\ sims < Budget
    /\ phase' = "idle"
    /\ UNCHANGED <<nodes, key, root, at, here, path, sims, plans>>

\* The budget is used up, or the time.
Answer ==
    /\ phase = "loop" /\ (sims > 0 \/ sims = Budget)
    /\ nodes' = [nodes EXCEPT ![root] = Initialized(@)]
    /\ phase' = "idle"
    /\ UNCHANGED <<key, root, at, here, path, sims, plans>>

Next ==
    \/ \E s \in States, f \in Forms, side \in Sides : Reuse(s, f, side) \/ Anew(s, f, side)
    \/ Simulate \/ Leaf \/ DeadEnd \/ BackUp \/ Simulated \/ Cancel \/ Answer
    \/ phase = "down" /\ \E a \in Moves[Form][here] : Ended(a) \/ \E s \in States : Descend(a, s)

Spec == Init /\ [][Next]_vars

-----------------------------------------------------------------------------
\* No edge refers to an erased node, nor to one that now holds another state, although
\* prune_to erases nodes while edges hold their addresses and these are used again; so
\* bind() never throws and a plan can be read off the edges.  A simulation is always at
\* the node of its own state (the assertion in init_node).
GraphIsSound ==
    /\ \A i \in DOMAIN nodes : \A a \in DOMAIN nodes[i].edges :
          LET outcomes == nodes[i].edges[a].outcomes
          IN  \A s \in DOMAIN outcomes :
                 outcomes[s].child \in DOMAIN nodes /\ nodes[outcomes[s].child].hash = s
    /\ \A i, j \in DOMAIN nodes : nodes[i].hash = nodes[j].hash => i = j
    /\ phase \in {"down", "up"} => at \in DOMAIN nodes /\ nodes[at].hash = here
    /\ phase # "idle" => root \in DOMAIN nodes

\* A request never meets what a search for another side or under another structure left
\* behind: the actions of a node are those that are legal for this request, and the
\* values added up are from its own side's view (the comparisons before graph_.find).
GraphFitsRequest ==
    \A i \in DOMAIN nodes :
        /\ nodes[i].initialized => DOMAIN nodes[i].edges = Moves[Form][nodes[i].hash]
        /\ \A a \in DOMAIN nodes[i].edges : nodes[i].edges[a].views \subseteq {key.side}

\* A request whose state the graph knows under its own key keeps every node below that
\* state, with all it has counted, and no other node (prune_to).
ReuseKeepsStatistics ==
    [][(/\ plans' # plans /\ key' = key /\ key.battle # NoBattle
        /\ \E i \in DOMAIN nodes : nodes[i].hash = here')
       => LET keeps(S) == root' \in S /\ \A i \in S : Children(nodes[i]) \subseteq S
          IN  /\ keeps(DOMAIN nodes') /\ \A i \in DOMAIN nodes' : nodes'[i] = nodes[i]
              /\ \A S \in SUBSET DOMAIN nodes' : keeps(S) => S = DOMAIN nodes']_vars
=============================================================================
