-------------------------- MODULE SearchTreeProofs --------------------------
(***************************************************************************)
(* The search graph is sound, fits its request and is reused whole, for    *)
(* any states, structures, actions, budgets and numbers of requests.       *)
(***************************************************************************)
EXTENDS SearchTree, SequenceTheorems, TLAPS

\* What the edges of node n refer to is in the graph ns, under its own hash.
Hangs(n, ns) ==
    \A a \in DOMAIN n.edges : \A s \in DOMAIN n.edges[a].outcomes :
        /\ n.edges[a].outcomes[s].child \in DOMAIN ns
        /\ ns[n.edges[a].outcomes[s].child].hash = s

\* The actions and values of node n are those of a request with key k.
Fits(n, k) ==
    /\ n.initialized => DOMAIN n.edges = Moves[k.print[1]][n.hash]
    /\ \A a \in DOMAIN n.edges : n.edges[a].views \subseteq {k.side}

\* No hash has two nodes.
Single(ns) == \A i, j \in DOMAIN ns : ns[i].hash = ns[j].hash => i = j

Sound(ns) == \A i \in DOMAIN ns : Hangs(ns[i], ns)

\* The graph nt has the nodes of ns, and maybe more.
Grows(ns, nt) == /\ DOMAIN ns \subseteq DOMAIN nt
                 /\ \A i \in DOMAIN ns : nt[i].hash = ns[i].hash

Acts == UNION {UNION {Moves[f][s] : s \in States} : f \in Forms}

Frame == [node : Addresses, state : States, action : Acts, to : States \cup {NoState}]

\* Where a simulation is: it began at the root, and each call on its way was made for the
\* state of its node.
Walk ==
    /\ DOMAIN nodes \subseteq Addresses
    /\ path \in Seq(Frame)
    /\ phase \in {"idle", "loop", "down", "up"}
    /\ phase \in {"idle", "loop"} => path = << >>
    /\ phase # "idle" => here \in States /\ Form \in Forms
    /\ phase # "idle" => root \in DOMAIN nodes
    /\ phase = "loop" => nodes[root].hash = here
    /\ phase \in {"down", "up"} =>
          /\ at \in DOMAIN nodes /\ nodes[at].hash = here
          /\ IF path = << >> THEN at = root ELSE path[1].node = root
    /\ \A j \in 1..Len(path) : path[j].node \in DOMAIN nodes /\ nodes[path[j].node].hash = path[j].state

IInv ==
    /\ Sound(nodes) /\ Single(nodes)
    /\ \A i \in DOMAIN nodes : Fits(nodes[i], key)
    /\ Walk

-----------------------------------------------------------------------------
\* An edge stays good when the graph grows.
LEMMA HangsOn ==
    ASSUME NEW n, NEW ns, NEW nt, Hangs(n, ns), Grows(ns, nt)
    PROVE  Hangs(n, nt)
  BY DEF Hangs, Grows

\* A new node has no edges.
LEMMA NewNodeIsGood ==
    ASSUME NEW s, NEW ns, NEW k
    PROVE  NewNode(s).hash = s /\ Hangs(NewNode(s), ns) /\ Fits(NewNode(s), k)
<1>1. NewNode(s).edges = << >> /\ NewNode(s).hash = s /\ NewNode(s).initialized = FALSE
  BY DEF Node, NewNode
<1>2. DOMAIN << >> = {}
  OBVIOUS
<1> QED
  BY <1>1, <1>2 DEF Hangs, Fits

\* Entering a node for its own state makes the edges of this request.
LEMMA EnteredIsGood ==
    ASSUME NEW n, NEW ns, Hangs(n, ns), Fits(n, key), n.hash = here
    PROVE  /\ Initialized(n).hash = n.hash /\ DOMAIN Initialized(n).edges = Moves[Form][here]
           /\ Hangs(Initialized(n), ns) /\ Fits(Initialized(n), key)
<1>1. CASE n.initialized
  BY <1>1 DEF Initialized, Fits, Form
<1>2. CASE ~n.initialized
  <2> DEFINE es == [a \in Moves[Form][here] |-> NewEdge]
  <2>1. Initialized(n) = Node(n.hash, n.visits, TRUE, es)
    BY <1>2 DEF Initialized
  <2>2. Initialized(n).hash = n.hash /\ Initialized(n).edges = es
    BY <2>1 DEF Node
  <2>3. \A a \in DOMAIN es : es[a].views = {} /\ DOMAIN es[a].outcomes = {}
    BY DEF Edge, NewEdge
  <2> QED
    BY <2>2, <2>3 DEF Hangs, Fits, Form
<1> QED
  BY <1>1, <1>2

\* Replacing one edge by a good one keeps a node good.
LEMMA EdgeReplaced ==
    ASSUME NEW n, NEW ns, NEW a, NEW e, NEW v, NEW i, NEW k, Hangs(n, ns), Fits(n, k),
           i => DOMAIN n.edges = Moves[k.print[1]][n.hash],
           a \in DOMAIN n.edges => e.views \subseteq {k.side},
           a \in DOMAIN n.edges => \A s \in DOMAIN e.outcomes :
               e.outcomes[s].child \in DOMAIN ns /\ ns[e.outcomes[s].child].hash = s
    PROVE  LET m == Node(n.hash, v, i, [n.edges EXCEPT ![a] = e])
           IN  m.hash = n.hash /\ Hangs(m, ns) /\ Fits(m, k)
<1> DEFINE m == Node(n.hash, v, i, [n.edges EXCEPT ![a] = e])
<1>1. m.hash = n.hash /\ m.initialized = i /\ m.edges = [n.edges EXCEPT ![a] = e]
  BY DEF Node
<1>2. DOMAIN m.edges = DOMAIN n.edges
  BY <1>1
<1>3. \A b \in DOMAIN n.edges : m.edges[b] = IF b = a THEN e ELSE n.edges[b]
  BY <1>1
<1> HIDE DEF m
<1>4. Hangs(m, ns)
  BY <1>2, <1>3 DEF Hangs
<1>5. Fits(m, k)
  BY <1>1, <1>2, <1>3 DEF Fits
<1> QED
  BY <1>1, <1>4, <1>5 DEF m

-----------------------------------------------------------------------------
\* The graph below a node is closed, and nothing smaller is.
LEMMA RetainedIsClosed ==
    ASSUME NEW r, r \in DOMAIN nodes, Sound(nodes)
    PROVE  /\ r \in Retained(r) /\ Retained(r) \subseteq DOMAIN nodes
           /\ \A i \in Retained(r) : Children(nodes[i]) \subseteq Retained(r)
           /\ \A S \in SUBSET DOMAIN nodes :
                 r \in S /\ (\A i \in S : Children(nodes[i]) \subseteq S) => Retained(r) \subseteq S
<1>1. \A i \in DOMAIN nodes : Children(nodes[i]) \subseteq DOMAIN nodes
  BY DEF Sound, Hangs, Children
<1>2. \A i : i \in Retained(r) <=>
          /\ i \in DOMAIN nodes
          /\ \A S \in SUBSET DOMAIN nodes :
                r \in S /\ (\A j \in S : Children(nodes[j]) \cap DOMAIN nodes \subseteq S) => i \in S
  BY DEF Retained
<1>3. r \in Retained(r) /\ Retained(r) \subseteq DOMAIN nodes
  BY <1>2
<1>4. ASSUME NEW i \in Retained(r), NEW c \in Children(nodes[i])
      PROVE  c \in Retained(r)
  <2>1. i \in DOMAIN nodes /\ c \in DOMAIN nodes
    BY <1>1, <1>3, <1>4
  <2>2. ASSUME NEW S \in SUBSET DOMAIN nodes, r \in S,
               \A j \in S : Children(nodes[j]) \cap DOMAIN nodes \subseteq S
        PROVE  c \in S
    <3>1. i \in S
      BY <1>2, <1>4, <2>2
    <3> QED
      BY <1>4, <2>1, <2>2, <3>1
  <2> QED
    BY <1>2, <2>1, <2>2
<1>5. ASSUME NEW S \in SUBSET DOMAIN nodes, r \in S, \A i \in S : Children(nodes[i]) \subseteq S,
             NEW i \in Retained(r)
      PROVE  i \in S
  BY <1>2, <1>5
<1> QED
  BY <1>3, <1>4, <1>5

\* Children of a node, as Hangs sees them.
LEMMA ChildrenOf ==
    ASSUME NEW n, NEW a \in DOMAIN n.edges, NEW s \in DOMAIN n.edges[a].outcomes
    PROVE  n.edges[a].outcomes[s].child \in Children(n)
  BY DEF Children

-----------------------------------------------------------------------------
LEMMA InitGood == Init => IInv
<1> SUFFICES ASSUME Init PROVE IInv
  OBVIOUS
<1>1. DOMAIN nodes = {}
  BY DEF Init
<1>2. path = << >> /\ path \in Seq(Frame) /\ Len(path) = 0 /\ phase = "idle"
  BY DEF Init
<1> QED
  BY <1>1, <1>2 DEF IInv, Sound, Single, Walk

\* A request that reuses the graph.
LEMMA ReuseGood ==
    ASSUME IInv, NEW s \in States, NEW f \in Forms, NEW side \in Sides, Reuse(s, f, side)
    PROVE  IInv'
<1>1. PICK r \in Reusable(s, f, side) : root' = r /\ nodes' = [i \in Retained(r) |-> nodes[i]]
  BY DEF Reuse
<1>2. key = Key(s, f, side) /\ key' = key /\ r \in DOMAIN nodes /\ nodes[r].hash = s
  BY <1>1 DEF Reuse, Reusable, Find
<1>3. /\ r \in Retained(r) /\ Retained(r) \subseteq DOMAIN nodes
      /\ \A i \in Retained(r) : Children(nodes[i]) \subseteq Retained(r)
  BY <1>2, RetainedIsClosed DEF IInv
<1>4. DOMAIN nodes' = Retained(r) /\ \A i \in Retained(r) : nodes'[i] = nodes[i]
  BY <1>1
<1>5. Sound(nodes')
  <2> SUFFICES ASSUME NEW i \in Retained(r), NEW a \in DOMAIN nodes[i].edges,
                      NEW t \in DOMAIN nodes[i].edges[a].outcomes
               PROVE  LET c == nodes[i].edges[a].outcomes[t].child
                      IN  c \in Retained(r) /\ nodes[c].hash = t
    BY <1>3, <1>4 DEF Sound, Hangs
  <2>1. nodes[i].edges[a].outcomes[t].child \in Retained(r)
    BY <1>3, ChildrenOf
  <2> QED
    BY <1>3, <2>1 DEF IInv, Sound, Hangs
<1>6. Single(nodes')
  BY <1>3, <1>4 DEF IInv, Single
<1>7. \A i \in DOMAIN nodes' : Fits(nodes'[i], key')
  BY <1>2, <1>3, <1>4 DEF IInv
<1>8. Form' = f
  BY <1>2 DEF Key, Form
<1>9. Walk'
  <2>1. phase' = "loop" /\ here' = s /\ path' = << >>
    BY DEF Reuse, Begin, IInv, Walk
  <2>2. path' \in Seq(Frame) /\ Len(path') = 0
    BY <2>1
  <2>3. DOMAIN nodes' \subseteq Addresses
    BY <1>3, <1>4 DEF IInv, Walk
  <2>4. root' \in DOMAIN nodes' /\ nodes'[root'].hash = here'
    BY <1>1, <1>2, <1>3, <1>4, <2>1
  <2> QED
    BY <1>8, <2>1, <2>2, <2>3, <2>4 DEF Walk
<1> QED
  BY <1>5, <1>6, <1>7, <1>9 DEF IInv

\* A request that begins a new one.
LEMMA AnewGood ==
    ASSUME IInv, NEW s \in States, NEW f \in Forms, NEW side \in Sides, Anew(s, f, side)
    PROVE  IInv'
<1>1. PICK r \in Addresses : root' = r /\ nodes' = [i \in {r} |-> NewNode(s)]
  BY DEF Anew
<1>2. DOMAIN nodes' = {r} /\ nodes'[r] = NewNode(s)
  BY <1>1
<1>3. NewNode(s).hash = s /\ Hangs(NewNode(s), nodes') /\ Fits(NewNode(s), key')
  BY NewNodeIsGood
<1>4. Form' = f
  BY DEF Anew, Key, Form
<1>5. phase' = "loop" /\ here' = s /\ path' = << >> /\ path' \in Seq(Frame) /\ Len(path') = 0
  BY DEF Anew, Begin, IInv, Walk
<1>6. Walk'
  BY <1>1, <1>2, <1>3, <1>4, <1>5 DEF Walk
<1> QED
  BY <1>2, <1>3, <1>6 DEF IInv, Sound, Single

\* Replacing one node by a good one for the same state keeps the graph good.
LEMMA NodeReplaced ==
    ASSUME Sound(nodes), Single(nodes), \A i \in DOMAIN nodes : Fits(nodes[i], key),
           NEW i \in DOMAIN nodes, NEW m, m.hash = nodes[i].hash, Hangs(m, nodes), Fits(m, key),
           NEW nt, nt = [nodes EXCEPT ![i] = m]
    PROVE  /\ Sound(nt) /\ Single(nt) /\ \A j \in DOMAIN nt : Fits(nt[j], key)
           /\ Grows(nodes, nt) /\ DOMAIN nt = DOMAIN nodes
<1>1. DOMAIN nt = DOMAIN nodes /\ \A j \in DOMAIN nodes : nt[j] = IF j = i THEN m ELSE nodes[j]
  OBVIOUS
<1>2. Grows(nodes, nt)
  BY <1>1 DEF Grows
<1>3. \A j \in DOMAIN nodes : Hangs(nt[j], nodes)
  BY <1>1 DEF Sound
<1>4. Sound(nt)
  BY <1>1, <1>2, <1>3, HangsOn DEF Sound
<1>5. Single(nt)
  BY <1>1 DEF Single
<1>6. \A j \in DOMAIN nt : Fits(nt[j], key)
  BY <1>1
<1> QED
  BY <1>1, <1>2, <1>4, <1>5, <1>6

\* What the walk has behind it stays in a graph that grows.
LEMMA WalkStays ==
    ASSUME Walk, NEW nt, Grows(nodes, nt)
    PROVE  /\ phase # "idle" => root \in DOMAIN nt /\ nt[root].hash = nodes[root].hash
           /\ phase \in {"down", "up"} => at \in DOMAIN nt /\ nt[at].hash = here
           /\ \A j \in 1..Len(path) : path[j].node \in DOMAIN nt /\ nt[path[j].node].hash = path[j].state
  BY DEF Walk, Grows

\* Steps that leave the graph alone.
LEMMA StayGood ==
    ASSUME IInv, Simulate \/ Leaf \/ Simulated \/ Cancel
    PROVE  IInv'
<1>1. nodes' = nodes /\ key' = key /\ path' = path /\ here' = here /\ root' = root
  BY DEF Simulate, Leaf, Simulated, Cancel
<1>2. Form' = Form
  BY <1>1 DEF Form
<1>3. Len(path) \in Nat
  BY DEF IInv, Walk
<1>4. Walk'
  <2>1. CASE Simulate
    BY <1>1, <1>2, <1>3, <2>1 DEF IInv, Walk, Simulate
  <2>2. CASE Leaf
    BY <1>1, <1>2, <1>3, <2>2 DEF IInv, Walk, Leaf
  <2>3. CASE Simulated
    BY <1>1, <1>2, <1>3, <2>3 DEF IInv, Walk, Simulated
  <2>4. CASE Cancel
    BY <1>1, <1>2, <1>3, <2>4 DEF IInv, Walk, Cancel
  <2> QED
    BY <2>1, <2>2, <2>3, <2>4
<1> QED
  BY <1>1, <1>4 DEF IInv

\* Steps that at most enter the node of the current state.
LEMMA EnterGood ==
    ASSUME IInv, NEW i \in DOMAIN nodes, nodes[i].hash = here,
           nodes' = [nodes EXCEPT ![i] = Initialized(nodes[i])], key' = key
    PROVE  /\ Sound(nodes') /\ Single(nodes') /\ \A j \in DOMAIN nodes' : Fits(nodes'[j], key')
           /\ Grows(nodes, nodes') /\ DOMAIN nodes' = DOMAIN nodes
<1>1. Hangs(nodes[i], nodes) /\ Fits(nodes[i], key)
  BY DEF IInv, Sound
<1>2. Initialized(nodes[i]).hash = nodes[i].hash /\ Hangs(Initialized(nodes[i]), nodes)
      /\ Fits(Initialized(nodes[i]), key)
  BY <1>1, EnteredIsGood
<1> DEFINE m == Initialized(nodes[i])
<1>3. m.hash = nodes[i].hash /\ Hangs(m, nodes) /\ Fits(m, key)
  BY <1>2
<1> HIDE DEF m
<1>4. nodes' = [nodes EXCEPT ![i] = m]
  BY DEF m
<1>5. Sound(nodes) /\ Single(nodes) /\ \A j \in DOMAIN nodes : Fits(nodes[j], key)
  BY DEF IInv
<1> QED
  BY <1>3, <1>4, <1>5, NodeReplaced

LEMMA DeadEndGood ==
    ASSUME IInv, DeadEnd
    PROVE  IInv'
<1>1. at \in DOMAIN nodes /\ nodes[at].hash = here
  BY DEF DeadEnd, IInv, Walk
<1>2. nodes' = [nodes EXCEPT ![at] = Initialized(nodes[at])] /\ key' = key
  BY DEF DeadEnd
<1>3. /\ Sound(nodes') /\ Single(nodes') /\ \A j \in DOMAIN nodes' : Fits(nodes'[j], key')
      /\ Grows(nodes, nodes') /\ DOMAIN nodes' = DOMAIN nodes
  BY <1>1, <1>2, EnterGood
<1>4. Form' = Form
  BY <1>2 DEF Form
<1>5. Walk'
  BY <1>3, <1>4, WalkStays DEF IInv, Walk, DeadEnd
<1> QED
  BY <1>3, <1>5 DEF IInv

LEMMA AnswerGood ==
    ASSUME IInv, Answer
    PROVE  IInv'
<1>1. root \in DOMAIN nodes /\ nodes[root].hash = here
  BY DEF Answer, IInv, Walk
<1>2. nodes' = [nodes EXCEPT ![root] = Initialized(nodes[root])] /\ key' = key
  BY DEF Answer
<1>3. /\ Sound(nodes') /\ Single(nodes') /\ \A j \in DOMAIN nodes' : Fits(nodes'[j], key')
      /\ Grows(nodes, nodes') /\ DOMAIN nodes' = DOMAIN nodes
  BY <1>1, <1>2, EnterGood
<1>4. Form' = Form
  BY <1>2 DEF Form
<1>5. Walk'
  BY <1>3, <1>4, WalkStays DEF IInv, Walk, Answer
<1> QED
  BY <1>3, <1>5 DEF IInv

\* A call for the current node is put on the way.
LEMMA PathGrows ==
    ASSUME Walk, phase = "down", NEW a \in Moves[Form][here], NEW s \in States \cup {NoState},
           path' = Append(path, [node |-> at, state |-> here, action |-> a, to |-> s])
    PROVE  /\ path' \in Seq(Frame) /\ Len(path') = Len(path) + 1 /\ path' # << >>
           /\ \A j \in 1..Len(path) : path'[j] = path[j]
           /\ path'[Len(path')].node = at /\ path'[Len(path')].state = here
           /\ path'[1].node = root
<1> DEFINE f == [node |-> at, state |-> here, action |-> a, to |-> s]
<1>1. f \in Frame
  BY DEF Walk, Frame, Acts
<1>2. f.node = at /\ f.state = here
  OBVIOUS
<1> HIDE DEF f
<1>3. path' = Append(path, f) /\ path \in Seq(Frame)
  BY DEF Walk, f
<1>4. path' \in Seq(Frame) /\ Len(path') = Len(path) + 1 /\ Len(path) \in Nat
  BY <1>1, <1>3
<1>5. \A j \in 1..Len(path) : path'[j] = path[j]
  BY <1>1, <1>3
<1>6. path'[Len(path')] = f
  BY <1>1, <1>3
<1>7. path'[1].node = root
  <2>1. CASE path = << >>
    BY <1>2, <1>4, <1>6, <2>1 DEF Walk
  <2>2. CASE path # << >>
    <3>1. Len(path) >= 1
      BY <1>3, <1>4, <2>2
    <3> QED
      BY <1>4, <1>5, <2>2, <3>1 DEF Walk
  <2> QED
    BY <2>1, <2>2
<1>8. path' # << >>
  BY <1>4
<1> QED
  BY <1>2, <1>4, <1>5, <1>6, <1>7, <1>8

LEMMA EndedGood ==
    ASSUME IInv, NEW a \in Moves[Form][here], Ended(a)
    PROVE  IInv'
<1>1. at \in DOMAIN nodes /\ nodes[at].hash = here /\ phase = "down"
  BY DEF Ended, IInv, Walk
<1>2. nodes' = [nodes EXCEPT ![at] = Initialized(nodes[at])] /\ key' = key
  BY DEF Ended
<1>3. /\ Sound(nodes') /\ Single(nodes') /\ \A j \in DOMAIN nodes' : Fits(nodes'[j], key')
      /\ Grows(nodes, nodes') /\ DOMAIN nodes' = DOMAIN nodes
  BY <1>1, <1>2, EnterGood
<1>4. Form' = Form
  BY <1>2 DEF Form
<1>5. path' = Append(path, [node |-> at, state |-> here, action |-> a, to |-> NoState])
  BY DEF Ended
<1>50. NoState \in States \cup {NoState}
  OBVIOUS
<1>6. /\ path' \in Seq(Frame) /\ Len(path') = Len(path) + 1 /\ path' # << >>
      /\ \A j \in 1..Len(path) : path'[j] = path[j]
      /\ path'[Len(path')].node = at /\ path'[Len(path')].state = here
      /\ path'[1].node = root
  BY <1>1, <1>5, <1>50, PathGrows DEF IInv
<1>7. Len(path) \in Nat
  BY DEF IInv, Walk
<1>8. \A j \in 1..Len(path') : path'[j].node \in DOMAIN nodes' /\ nodes'[path'[j].node].hash = path'[j].state
  BY <1>1, <1>3, <1>6, <1>7, WalkStays DEF IInv
<1>9. Walk'
  BY <1>1, <1>3, <1>4, <1>6, <1>8, WalkStays DEF IInv, Walk, Ended
<1> QED
  BY <1>3, <1>9 DEF IInv

\* The node of the current state, entered and with the outcome s of action a bound to child.
Linked(a, s, child) ==
    Node(Initialized(nodes[at]).hash, Initialized(nodes[at]).visits, TRUE,
         [Initialized(nodes[at]).edges EXCEPT ![a] = Bound(Initialized(nodes[at]).edges[a], s, child)])

\* Binding an outcome to a node of its state keeps the node good.
LEMMA LinkedIsGood ==
    ASSUME IInv, phase = "down", NEW a \in Moves[Form][here], NEW s, NEW child, NEW ns,
           Grows(nodes, ns), child \in DOMAIN ns, ns[child].hash = s
    PROVE  /\ Linked(a, s, child).hash = here /\ Hangs(Linked(a, s, child), ns)
           /\ Fits(Linked(a, s, child), key)
<1> DEFINE e == Initialized(nodes[at])
<1>1. at \in DOMAIN nodes /\ nodes[at].hash = here
  BY DEF IInv, Walk
<1>2. Hangs(nodes[at], nodes) /\ Fits(nodes[at], key)
  BY <1>1 DEF IInv, Sound
<1>3. Hangs(nodes[at], ns)
  BY <1>2, HangsOn
<1>4. e.hash = here /\ DOMAIN e.edges = Moves[Form][here] /\ Hangs(e, ns) /\ Fits(e, key)
  BY <1>1, <1>2, <1>3, EnteredIsGood
<1> HIDE DEF e
<1> DEFINE ea == e.edges[a]
           b == Bound(ea, s, child)
<1>5. \A t \in DOMAIN ea.outcomes : ea.outcomes[t].child \in DOMAIN ns /\ ns[ea.outcomes[t].child].hash = t
  BY <1>4 DEF Hangs
<1>50. ea.views \subseteq {key.side}
  BY <1>4 DEF Fits
<1> HIDE DEF ea
<1>6. /\ b.views = ea.views
      /\ \A t \in DOMAIN b.outcomes : b.outcomes[t].child \in DOMAIN ns /\ ns[b.outcomes[t].child].hash = t
  <2> DEFINE os == [t \in DOMAIN ea.outcomes \cup {s} |->
                      IF t \in DOMAIN ea.outcomes THEN ea.outcomes[t] ELSE [child |-> child, visits |-> 0]]
  <2>1. b.views = ea.views /\ b.outcomes = os
    BY DEF Bound, Edge
  <2>2. \A t \in DOMAIN os : os[t].child \in DOMAIN ns /\ ns[os[t].child].hash = t
    BY <1>5
  <2> QED
    BY <2>1, <2>2
<1>7. b.views \subseteq {key.side}
  BY <1>50, <1>6
<1>8. DOMAIN e.edges = Moves[key.print[1]][e.hash]
  BY <1>4 DEF Form
<1> HIDE DEF b
<1> DEFINE m == Node(e.hash, e.visits, TRUE, [e.edges EXCEPT ![a] = b])
<1>9. m.hash = e.hash /\ Hangs(m, ns) /\ Fits(m, key)
  BY <1>4, <1>6, <1>7, <1>8, EdgeReplaced
<1>10. Linked(a, s, child) = m
  BY DEF Linked, m, b, ea, e
<1> HIDE DEF m
<1> QED
  BY <1>4, <1>9, <1>10

LEMMA DescendGood ==
    ASSUME IInv, NEW s \in States, NEW a \in Moves[Form][here], Descend(a, s)
    PROVE  IInv'
<1>1. at \in DOMAIN nodes /\ nodes[at].hash = here /\ phase = "down"
  BY DEF Descend, IInv, Walk
<1>2. \/ \E child \in Find(s) : at' = child /\ nodes' = [nodes EXCEPT ![at] = Linked(a, s, child)]
      \/ /\ Find(s) = {}
         /\ \E child \in Addresses \ DOMAIN nodes :
               /\ at' = child
               /\ nodes' = [i \in DOMAIN nodes \cup {child} |->
                               IF i = child THEN NewNode(s)
                               ELSE IF i = at THEN Linked(a, s, child) ELSE nodes[i]]
  BY DEF Descend, Linked
<1>3. key' = key /\ phase' = "down" /\ root' = root /\ here' = s
      /\ path' = Append(path, [node |-> at, state |-> here, action |-> a, to |-> s])
  BY <1>1 DEF Descend
<1>4. Sound(nodes) /\ Single(nodes) /\ \A i \in DOMAIN nodes : Fits(nodes[i], key)
  BY DEF IInv
<1>5. /\ Sound(nodes') /\ Single(nodes') /\ \A j \in DOMAIN nodes' : Fits(nodes'[j], key)
      /\ Grows(nodes, nodes') /\ DOMAIN nodes' \subseteq Addresses
      /\ at' \in DOMAIN nodes' /\ nodes'[at'].hash = s
  <2>1. CASE \E child \in Find(s) : at' = child /\ nodes' = [nodes EXCEPT ![at] = Linked(a, s, child)]
    <3>1. PICK child \in Find(s) : at' = child /\ nodes' = [nodes EXCEPT ![at] = Linked(a, s, child)]
      BY <2>1
    <3>2. child \in DOMAIN nodes /\ nodes[child].hash = s
      BY DEF Find
    <3>3. Grows(nodes, nodes)
      BY DEF Grows
    <3>4. Linked(a, s, child).hash = nodes[at].hash /\ Hangs(Linked(a, s, child), nodes)
          /\ Fits(Linked(a, s, child), key)
      BY <1>1, <3>2, <3>3, LinkedIsGood
    <3>5. /\ Sound(nodes') /\ Single(nodes') /\ \A j \in DOMAIN nodes' : Fits(nodes'[j], key)
          /\ Grows(nodes, nodes') /\ DOMAIN nodes' = DOMAIN nodes
      BY <1>1, <1>4, <3>1, <3>4, NodeReplaced
    <3> QED
      BY <3>1, <3>2, <3>5 DEF IInv, Walk, Grows
  <2>2. CASE /\ Find(s) = {}
             /\ \E child \in Addresses \ DOMAIN nodes :
                   /\ at' = child
                   /\ nodes' = [i \in DOMAIN nodes \cup {child} |->
                                   IF i = child THEN NewNode(s)
                                   ELSE IF i = at THEN Linked(a, s, child) ELSE nodes[i]]
    <3>1. PICK child \in Addresses \ DOMAIN nodes :
             /\ at' = child
             /\ nodes' = [i \in DOMAIN nodes \cup {child} |->
                             IF i = child THEN NewNode(s)
                             ELSE IF i = at THEN Linked(a, s, child) ELSE nodes[i]]
      BY <2>2
    <3>2. /\ DOMAIN nodes' = DOMAIN nodes \cup {child} /\ nodes'[child] = NewNode(s)
          /\ nodes'[at] = Linked(a, s, child)
          /\ \A i \in DOMAIN nodes \ {at} : nodes'[i] = nodes[i]
      BY <1>1, <3>1
    <3>3. Linked(a, s, child).hash = here
      BY <1>1, EnteredIsGood DEF IInv, Sound, Linked, Node
    <3>4. Grows(nodes, nodes')
      BY <1>1, <3>2, <3>3 DEF Grows
    <3>5. NewNode(s).hash = s /\ Hangs(NewNode(s), nodes') /\ Fits(NewNode(s), key)
      BY NewNodeIsGood
    <3>6. Hangs(Linked(a, s, child), nodes') /\ Fits(Linked(a, s, child), key)
      BY <1>1, <3>2, <3>4, <3>5, LinkedIsGood
    <3>7. \A i \in DOMAIN nodes : Hangs(nodes[i], nodes')
      BY <1>4, <3>4, HangsOn DEF Sound
    <3>8. Sound(nodes')
      BY <3>2, <3>5, <3>6, <3>7 DEF Sound
    <3>9. \A i \in DOMAIN nodes : nodes'[i].hash = nodes[i].hash /\ nodes[i].hash # s
      BY <2>2, <3>4 DEF Find, Grows
    <3>10. Single(nodes')
      BY <1>4, <3>2, <3>5, <3>9 DEF Single
    <3>11. \A j \in DOMAIN nodes' : Fits(nodes'[j], key)
      BY <1>4, <3>2, <3>5, <3>6
    <3> QED
      BY <3>1, <3>2, <3>4, <3>5, <3>8, <3>10, <3>11 DEF IInv, Walk
  <2> QED
    BY <1>2, <2>1, <2>2
<1>6. Form' = Form
  BY <1>3 DEF Form
<1>7. /\ path' \in Seq(Frame) /\ Len(path') = Len(path) + 1 /\ path' # << >>
      /\ \A j \in 1..Len(path) : path'[j] = path[j]
      /\ path'[Len(path')].node = at /\ path'[Len(path')].state = here
      /\ path'[1].node = root
  BY <1>1, <1>3, PathGrows DEF IInv
<1>8. Len(path) \in Nat
  BY DEF IInv, Walk
<1>9. at \in DOMAIN nodes' /\ nodes'[at].hash = here
  BY <1>1, <1>5 DEF Grows
<1>10. \A j \in 1..Len(path') : path'[j].node \in DOMAIN nodes' /\ nodes'[path'[j].node].hash = path'[j].state
  BY <1>5, <1>7, <1>8, <1>9, WalkStays DEF IInv
<1>11. Walk'
  BY <1>1, <1>3, <1>5, <1>6, <1>7, <1>10, WalkStays DEF IInv, Walk
<1> QED
  BY <1>3, <1>5, <1>11 DEF IInv

\* The way back is shorter by its last call.
LEMMA PathShrinks ==
    ASSUME path \in Seq(Frame), path # << >>, path' = SubSeq(path, 1, Len(path) - 1)
    PROVE  /\ Len(path) \in Nat \ {0} /\ path' \in Seq(Frame) /\ Len(path') = Len(path) - 1
           /\ \A j \in 1..Len(path') : path'[j] = path[j]
           /\ path' = << >> <=> Len(path) = 1
<1> DEFINE m == Len(path) - 1
<1>1. Len(path) \in Nat \ {0} /\ m \in Nat /\ path' = SubSeq(path, 1, m)
  BY EmptySeq
<1>2. \A j \in 1..m : path[j] \in Frame
  BY <1>1
<1>3. /\ SubSeq(path, 1, m) \in Seq(Frame)
      /\ Len(SubSeq(path, 1, m)) = IF 1 <= m THEN m - 1 + 1 ELSE 0
      /\ \A j \in 1..(m - 1 + 1) : SubSeq(path, 1, m)[j] = path[1 + j - 1]
  <2> HIDE DEF m
  <2> QED
    BY <1>1, <1>2, SubSeqProperties
<1>4. path' \in Seq(Frame) /\ Len(path') = m
  <2> HIDE DEF m
  <2>1. (IF 1 <= m THEN m - 1 + 1 ELSE 0) = m
    BY <1>1
  <2> QED
    BY <1>1, <1>3, <2>1
<1>5. \A j \in 1..Len(path') : path'[j] = path[j]
  BY <1>1, <1>3, <1>4
<1>6. path' = << >> <=> m = 0
  BY <1>4, EmptySeq
<1> QED
  BY <1>1, <1>4, <1>5, <1>6

LEMMA BackUpGood ==
    ASSUME IInv, BackUp
    PROVE  IInv'
<1> DEFINE f == path[Len(path)]
           n == nodes[f.node]
           e == n.edges[f.action]
           c == Counted(e, f.to)
           m == Node(n.hash, n.visits + 1, n.initialized, [n.edges EXCEPT ![f.action] = c])
<1>1. /\ phase = "up" /\ path # << >> /\ nodes' = [nodes EXCEPT ![f.node] = m]
      /\ path' = SubSeq(path, 1, Len(path) - 1) /\ at' = f.node /\ here' = f.state
      /\ key' = key /\ phase' = phase /\ root' = root
  BY DEF BackUp
<1>2. /\ Len(path) \in Nat \ {0} /\ path' \in Seq(Frame) /\ Len(path') = Len(path) - 1
      /\ \A j \in 1..Len(path') : path'[j] = path[j]
      /\ path' = << >> <=> Len(path) = 1
  BY <1>1, PathShrinks DEF IInv, Walk
<1>3. f.node \in DOMAIN nodes /\ n.hash = f.state /\ f.state \in States
  <2>1. path \in Seq(Frame) /\ Len(path) \in 1..Len(path)
    BY <1>2 DEF IInv, Walk
  <2>2. f \in Frame
    BY <2>1
  <2> QED
    BY <2>1, <2>2 DEF IInv, Walk, Frame
<1>4. Hangs(n, nodes) /\ Fits(n, key)
  BY <1>3 DEF IInv, Sound
<1> HIDE DEF n, f
<1>5. f.action \in DOMAIN n.edges => c.views \subseteq {key.side}
  BY <1>4 DEF Fits, Counted, Edge
<1>6. f.action \in DOMAIN n.edges => \A s \in DOMAIN c.outcomes :
         c.outcomes[s].child \in DOMAIN nodes /\ nodes[c.outcomes[s].child].hash = s
  <2> DEFINE os == [t \in DOMAIN e.outcomes |->
                      [child |-> e.outcomes[t].child,
                       visits |-> e.outcomes[t].visits + (IF t = f.to THEN 1 ELSE 0)]]
  <2>1. c.outcomes = os
    BY DEF Counted, Edge
  <2>2. DOMAIN os = DOMAIN e.outcomes /\ \A s \in DOMAIN os : os[s].child = e.outcomes[s].child
    OBVIOUS
  <2> HIDE DEF os
  <2> QED
    BY <1>4, <2>1, <2>2 DEF Hangs
<1> HIDE DEF c
<1>7. n.initialized => DOMAIN n.edges = Moves[key.print[1]][n.hash]
  BY <1>4 DEF Fits
<1>8. m.hash = n.hash /\ Hangs(m, nodes) /\ Fits(m, key)
  <2> DEFINE a == f.action
             v == n.visits + 1
             i == n.initialized
  <2>1. a \in DOMAIN n.edges => c.views \subseteq {key.side}
    BY <1>5
  <2>2. a \in DOMAIN n.edges => \A s \in DOMAIN c.outcomes :
           c.outcomes[s].child \in DOMAIN nodes /\ nodes[c.outcomes[s].child].hash = s
    BY <1>6
  <2> HIDE DEF a, v
  <2>3. LET w == Node(n.hash, v, i, [n.edges EXCEPT ![a] = c])
        IN  w.hash = n.hash /\ Hangs(w, nodes) /\ Fits(w, key)
    BY <1>4, <1>7, <2>1, <2>2, EdgeReplaced
  <2> QED
    BY <2>3 DEF a, v
<1> HIDE DEF m
<1>9. Sound(nodes) /\ Single(nodes) /\ \A j \in DOMAIN nodes : Fits(nodes[j], key)
  BY DEF IInv
<1>10. m.hash = nodes[f.node].hash
  BY <1>8 DEF n
<1>11. /\ Sound(nodes') /\ Single(nodes') /\ \A j \in DOMAIN nodes' : Fits(nodes'[j], key)
       /\ Grows(nodes, nodes') /\ DOMAIN nodes' = DOMAIN nodes
  BY <1>1, <1>3, <1>8, <1>9, <1>10, NodeReplaced
<1>12. Form' = Form
  BY <1>1 DEF Form
<1>13. at' \in DOMAIN nodes' /\ nodes'[at'].hash = here'
  BY <1>1, <1>3, <1>11 DEF Grows, n
<1>14. IF path' = << >> THEN at' = root' ELSE path'[1].node = root'
  <2>1. path[1].node = root
    BY <1>1 DEF IInv, Walk
  <2>2. CASE path' = << >>
    BY <1>1, <1>2, <2>1, <2>2 DEF f
  <2>3. CASE path' # << >>
    BY <1>1, <1>2, <2>1, <2>3
  <2> QED
    BY <2>2, <2>3
<1>15. \A j \in 1..Len(path') : path'[j].node \in DOMAIN nodes' /\ nodes'[path'[j].node].hash = path'[j].state
  BY <1>2, <1>11, WalkStays DEF IInv
<1>16. Walk'
  BY <1>1, <1>2, <1>3, <1>11, <1>12, <1>13, <1>14, <1>15 DEF IInv, Walk
<1> QED
  BY <1>1, <1>11, <1>16 DEF IInv

-----------------------------------------------------------------------------
\* The inductive invariant: the edges of every node lead to nodes of their states, each
\* hash has one node, all nodes are of the request's kind, and a simulation began at the
\* root and is at the node of its state.
THEOREM SearchInvariant == Spec => []IInv
<1>1. Init => IInv
  BY InitGood
<1>2. IInv /\ [Next]_vars => IInv'
  <2> SUFFICES ASSUME IInv, [Next]_vars PROVE IInv'
    OBVIOUS
  <2>1. CASE \E s \in States, f \in Forms, side \in Sides : Reuse(s, f, side) \/ Anew(s, f, side)
    BY <2>1, ReuseGood, AnewGood
  <2>2. CASE Simulate \/ Leaf \/ Simulated \/ Cancel
    BY <2>2, StayGood
  <2>3. CASE DeadEnd
    BY <2>3, DeadEndGood
  <2>4. CASE BackUp
    BY <2>4, BackUpGood
  <2>5. CASE Answer
    BY <2>5, AnswerGood
  <2>6. CASE phase = "down" /\ \E a \in Moves[Form][here] : Ended(a) \/ \E s \in States : Descend(a, s)
    BY <2>6, EndedGood, DescendGood
  <2>7. CASE UNCHANGED vars
    BY <2>7 DEF vars, IInv, Sound, Single, Hangs, Fits, Walk, Form
  <2> QED
    BY <2>1, <2>2, <2>3, <2>4, <2>5, <2>6, <2>7 DEF Next
<1> QED
  BY <1>1, <1>2, PTL DEF Spec

\* No edge of the search graph ever dangles, each state has one node, and a simulation is
\* at the node of its state.
THEOREM GraphStaysSound == Spec => []GraphIsSound
<1>1. IInv => GraphIsSound
  BY DEF IInv, Sound, Single, Hangs, Walk, GraphIsSound
<1> QED
  BY <1>1, SearchInvariant, PTL

\* No request meets the moves of another structure or the values of the other side.
THEOREM GraphFits == Spec => []GraphFitsRequest
<1>1. IInv => GraphFitsRequest
  BY DEF IInv, Fits, Form, GraphFitsRequest
<1> QED
  BY <1>1, SearchInvariant, PTL

\* A request that reuses the graph keeps exactly what lies below its state.
THEOREM ReuseIsWhole == Spec => ReuseKeepsStatistics
<1> DEFINE Known == /\ plans' # plans /\ key' = key /\ key.battle # NoBattle
                    /\ \E i \in DOMAIN nodes : nodes[i].hash = here'
           Keeps(S) == root' \in S /\ \A i \in S : Children(nodes[i]) \subseteq S
           Whole == /\ Keeps(DOMAIN nodes') /\ \A i \in DOMAIN nodes' : nodes'[i] = nodes[i]
                    /\ \A S \in SUBSET DOMAIN nodes' : Keeps(S) => S = DOMAIN nodes'
<1>1. IInv /\ [Next]_vars => [Known => Whole]_vars
  <2> SUFFICES ASSUME IInv, Next, Known PROVE Whole
    OBVIOUS
  <2>1. PICK s \in States, f \in Forms, side \in Sides : Reuse(s, f, side) \/ Anew(s, f, side)
    BY DEF Next, Simulate, Leaf, DeadEnd, BackUp, Simulated, Cancel, Answer, Ended, Descend
  <2>2. here' = s
    BY <2>1 DEF Reuse, Anew, Begin
  <2>3. Reuse(s, f, side)
    <3> SUFFICES ASSUME Anew(s, f, side) PROVE FALSE
      BY <2>1
    <3>1. key = Key(s, f, side) /\ BattleOf[s] # NoBattle
      BY DEF Anew, Key
    <3> QED
      BY <2>2, <3>1 DEF Anew, Reusable, Find
  <2>4. PICK r \in Reusable(s, f, side) : root' = r /\ nodes' = [i \in Retained(r) |-> nodes[i]]
    BY <2>3 DEF Reuse
  <2>5. r \in DOMAIN nodes
    BY DEF Reusable, Find
  <2>6. /\ r \in Retained(r) /\ Retained(r) \subseteq DOMAIN nodes
        /\ \A i \in Retained(r) : Children(nodes[i]) \subseteq Retained(r)
        /\ \A S \in SUBSET DOMAIN nodes :
              r \in S /\ (\A i \in S : Children(nodes[i]) \subseteq S) => Retained(r) \subseteq S
    BY <2>5, RetainedIsClosed DEF IInv
  <2>7. DOMAIN nodes' = Retained(r) /\ \A i \in Retained(r) : nodes'[i] = nodes[i]
    BY <2>4
  <2> QED
    BY <2>4, <2>6, <2>7
<1> QED
  BY <1>1, SearchInvariant, PTL DEF Spec, ReuseKeepsStatistics
=============================================================================
