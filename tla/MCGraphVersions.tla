-------------------------- MODULE MCGraphVersions --------------------------
(* A small instance of GraphVersions: a class of two nodes, and a proposal that
   puts a third between them, which writes what the last one then requires. *)
EXTENDS GraphVersions

CONSTANTS here, there, main, copy, draft, review, finish, plain, write, check, text

MCRequires == plain :> {} @@ write :> {} @@ check :> {text}
MCProduces == plain :> {} @@ write :> {text} @@ check :> {}

Map(skill) == [nodes |-> <<Node(draft, "agent", skill), Node(finish, "agent", plain)>>,
               edges |-> <<Edge(draft, finish, "pass")>>]

MCDocument == {Map(plain), Map(NoSkill)}

(* The way around the review stays, under another condition. *)
WithReview ==
  <<RemoveNode(finish), AddNode(Node(finish, "gate", check)),
    AddNode(Node(review, "agent", write)),
    AddEdge(Edge(draft, review, "pass")), AddEdge(Edge(review, finish, "pass")),
    AddEdge(Edge(review, draft, "fail")),
    RemoveEdge(Edge(draft, finish, "pass")), AddEdge(Edge(draft, finish, "fail"))>>

(* With it, the way around supplies the last one too. *)
WrittenAtOnce == <<ChangeSkill(draft, write)>>

MCChange == {WithReview, WrittenAtOnce}

=============================================================================
