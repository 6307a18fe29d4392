--------------------------- MODULE GraphDocument ---------------------------
(***************************************************************************)
(* The graph document of a class and what the control plane computes from  *)
(* it: whether it may be written at all, whether its contracts hold, the    *)
(* operations that turn one document into another, and what they make of it.*)
(*                                                                         *)
(* A document is its nodes and its edges, in order, for order is part of    *)
(* its hash.  Buckets, the external surface, subgraph calls, custom fields  *)
(* and hooks are left out; a path is one input a skill may require.         *)
(***************************************************************************)
EXTENDS Naturals, FiniteSets, SequencesExt

CONSTANTS
  Initial, Finals,     \* initial_node and final_nodes, which no operation moves
  Skill, NoSkill,      \* a pinned manifest (id, version and hash); NoSkill, a node with no pin
  AnyCondition,        \* the condition a remove_edge leaves unsaid
  Path,
  Requires, Produces,  \* a skill's required input, and what its output guarantees
  Given                \* what every node can count on before any ancestor ran

ASSUME DocumentAssumption ==
  /\ NoSkill \notin Skill
  /\ Requires \in [Skill -> SUBSET Path] /\ Produces \in [Skill -> SUBSET Path]
  /\ Given \subseteq Path /\ IsFiniteSet(Path)

-----------------------------------------------------------------------------
(* Reading a document. *)

Node(id, type, skill) == [id |-> id, node_type |-> type, skill_ref |-> skill]
Edge(from, to, condition) == [from |-> from, to |-> to, condition |-> condition]

IsNode(n) == n = Node(n.id, n.node_type, n.skill_ref)
IsEdge(e) == e = Edge(e.from, e.to, e.condition)

(* A document is two lists of records. *)
Listed(d) ==
  /\ d = [nodes |-> d.nodes, edges |-> d.edges]
  /\ d.nodes \in Seq(ToSet(d.nodes)) /\ \A node \in ToSet(d.nodes) : IsNode(node)
  /\ d.edges \in Seq(ToSet(d.edges)) /\ \A edge \in ToSet(d.edges) : IsEdge(edge)

Ids(d) == {node.id : node \in ToSet(d.nodes)}

(* What a sequence has of a set, in its order. *)
Kept(s, S) ==
  LET kept[k \in 0..Len(s)] ==
        IF k = 0 THEN <<>>
        ELSE IF s[k] \in S THEN Append(kept[k - 1], s[k]) ELSE kept[k - 1]
  IN  kept[Len(s)]

(* The first node of that id. *)
NodeOf(d, id) ==
  d.nodes[CHOOSE i \in DOMAIN d.nodes : /\ d.nodes[i].id = id
                                        /\ \A j \in 1..(i - 1) : d.nodes[j].id # id]

Pins(d) == {node.skill_ref : node \in ToSet(d.nodes)}

Between(d, from, to) ==
  Kept(d.edges, {e \in ToSet(d.edges) : e.from = from /\ e.to = to})

Predecessors(d, id) == {e.from : e \in {edge \in ToSet(d.edges) : edge.to = id}}

-----------------------------------------------------------------------------
(* The gate every document passes before it is written. *)

WellFormed(d) ==
  /\ \A i, j \in DOMAIN d.nodes : d.nodes[i].id = d.nodes[j].id => i = j
  /\ \A e \in ToSet(d.edges) : {e.from, e.to} \subseteq Ids(d)
  /\ {Initial} \cup Finals \subseteq Ids(d)

(* Everything the arrows lead to from the seeds; n arrows reach n nodes. *)
Traverse(seeds, arrows, n) ==
  LET wave[k \in 0..n] ==
        IF k = 0 THEN seeds
        ELSE LET reached == wave[k - 1]
             IN  reached \cup {arrow[2] : arrow \in {a \in arrows : a[1] \in reached}}
  IN  wave[n]

Outgoing(d) == {<<e.from, e.to>> : e \in ToSet(d.edges)}
Incoming(d) == {<<e.to, e.from>> : e \in ToSet(d.edges)}

Sound(d) ==
  LET n == Cardinality(Ids(d))
  IN  /\ Ids(d) \subseteq Traverse({Initial}, Outgoing(d), n)
      /\ Ids(d) \subseteq Traverse(Finals, Incoming(d), n)
      /\ NoSkill \notin Pins(d)

Valid(d) == WellFormed(d) /\ Sound(d)

-----------------------------------------------------------------------------
(* Contracts: a node can count on a path when every way into it supplies it.
   The sets start at everything anybody produces and only shrink. *)

ProducedAt(d, id) == Produces[NodeOf(d, id).skill_ref]

(* A faulty meet: what any one way in supplies. *)
JoinOver(d, available, id) ==
  Given \cup UNION {available[m] \cup ProducedAt(d, m) : m \in Predecessors(d, id)}

Meet(d, available, id) ==
  LET incoming == Predecessors(d, id)
  IN  Given \cup {path \in Path : /\ incoming # {}
                                  /\ \A m \in incoming : path \in available[m] \cup ProducedAt(d, m)}

Available(d) ==
  LET universe == Given \cup UNION {ProducedAt(d, id) : id \in Ids(d)}
      rounds == Cardinality(Ids(d)) * Cardinality(Path)
      round[k \in 0..rounds] ==
        [id \in Ids(d) |-> IF id = Initial THEN Given
                           ELSE IF k = 0 THEN universe ELSE Meet(d, round[k - 1], id)]
  IN  round[rounds]

UnproducedInput(d) ==
  {id \in Ids(d) : ~(Requires[NodeOf(d, id).skill_ref] \subseteq Available(d)[id])}

ClassifyContracts(d, registry) ==
  IF ~(Pins(d) \subseteq registry) THEN "unchecked"
  ELSE IF UnproducedInput(d) = {} THEN "checked" ELSE "failed"

-----------------------------------------------------------------------------
(* Operations. *)

AddNode(node) == [type |-> "add_node", node |-> node]
RemoveNode(id) == [type |-> "remove_node", node_id |-> id]
AddEdge(edge) == [type |-> "add_edge", edge |-> edge]
RemoveEdge(edge) == [type |-> "remove_edge", edge |-> edge]
ChangeSkill(id, skill) == [type |-> "change_node_field", node_id |-> id, to |-> skill]

(* A list of them, which adds nodes and edges of a document's kind. *)
ListedOperations(ops) ==
  /\ ops \in Seq(ToSet(ops))
  /\ \A op \in ToSet(ops) : /\ op.type = "add_node" => IsNode(op.node)
                            /\ op.type = "add_edge" => IsEdge(op.edge)

(* The first edge between these ends, of this condition if one is said; 0 if none. *)
EdgeNamed(d, wanted) ==
  SelectInSeq(d.edges, LAMBDA e : /\ e.from = wanted.from /\ e.to = wanted.to
                                  /\ wanted.condition \in {AnyCondition, e.condition})

Applicable(d, op) ==
  CASE op.type = "add_node" -> op.node.id \notin Ids(d)
    [] op.type = "add_edge" -> TRUE
    [] op.type = "remove_edge" -> EdgeNamed(d, op.edge) # 0
    [] OTHER -> op.node_id \in Ids(d)

Changed(d, op) ==
  CASE op.type = "add_node" -> [d EXCEPT !.nodes = Append(@, op.node)]
    [] op.type = "remove_node" -> [d EXCEPT !.nodes = Kept(@, {n \in ToSet(@) : n.id # op.node_id})]
    [] op.type = "add_edge" -> [d EXCEPT !.edges = Append(@, op.edge)]
    [] op.type = "remove_edge" -> [d EXCEPT !.edges = RemoveAt(@, EdgeNamed(d, op.edge))]
    [] OTHER -> [d EXCEPT !.nodes = [i \in DOMAIN @ |->
                   IF @[i].id = op.node_id THEN [@[i] EXCEPT !.skill_ref = op.to] ELSE @[i]]]

(* The document the operations make of d, or none: one that does not apply
   stops them all. *)
Applied(d, ops) ==
  LET made[k \in 0..Len(ops)] ==
        IF k = 0 THEN {d}
        ELSE {Changed(m, ops[k]) : m \in {m \in made[k - 1] : Applicable(m, ops[k])}}
  IN  made[Len(ops)]

-----------------------------------------------------------------------------
(* The diff: nodes taken away, nodes added, pins moved, then whole groups of
   edges between two ends taken away and added. *)

(* A node whose type moved is taken away and added again. *)
Swapped(from, to, id) ==
  id \in Ids(from) \cap Ids(to) /\ NodeOf(from, id).node_type # NodeOf(to, id).node_type

Leaves(from, to, id) == id \notin Ids(to) \/ Swapped(from, to, id)

Moves(from, to, id) ==
  /\ id \in Ids(from) /\ ~Swapped(from, to, id)
  /\ NodeOf(from, id).skill_ref # NodeOf(to, id).skill_ref

(* A faulty comparison: blind to the conditions between two ends. *)
CountDiffers(from, to, e) ==
  Len(Between(from, e.from, e.to)) # Len(Between(to, e.from, e.to))

Differs(from, to, e) == Between(from, e.from, e.to) # Between(to, e.from, e.to)

DiffGraphs(from, to) ==
  LET gone  == Kept(from.nodes, {n \in ToSet(from.nodes) : Leaves(from, to, n.id)})
      come  == Kept(to.nodes, {n \in ToSet(to.nodes) : Leaves(to, from, n.id)})
      moved == Kept(to.nodes, {n \in ToSet(to.nodes) : Moves(from, to, n.id)})
      cut   == Kept(from.edges, {e \in ToSet(from.edges) : Differs(from, to, e)})
      laid  == Kept(to.edges, {e \in ToSet(to.edges) : Differs(from, to, e)})
  IN  [i \in DOMAIN gone |-> RemoveNode(gone[i].id)]
      \o [i \in DOMAIN come |-> AddNode(come[i])]
      \o [i \in DOMAIN moved |-> ChangeSkill(moved[i].id, moved[i].skill_ref)]
      \o [i \in DOMAIN cut |-> RemoveEdge([cut[i] EXCEPT !.condition = AnyCondition])]
      \o [i \in DOMAIN laid |-> AddEdge(laid[i])]

=============================================================================
