--------------------------- MODULE GraphVersions ---------------------------
(***************************************************************************)
(* The versions of a class's graph, its base lineage and the variants       *)
(* forked from it, and the proposals people decide on: what was written is  *)
(* kept, a pointer says what is in force, and a proposal moves it forward   *)
(* by one version or back by one.                                           *)
(*                                                                         *)
(* Every handler runs to its end without an await, so it is one step.  What *)
(* several people and the registry of skills do in between is the matter:   *)
(* two approved proposals over one version, a revert below a later version, *)
(* a skill registered before or after the versions that pin it.             *)
(*                                                                         *)
(* A request sees the proposals of its own project only.  Apply and revert  *)
(* then read the lineage, the versions and the skills of the DEFAULT        *)
(* project, and write to the proposal's.                                    *)
(***************************************************************************)
EXTENDS GraphDocument

CONSTANTS
  Project, Default,
  Lineage, Base,     \* one class: its base lineage, the other ids are variants to be
  NoVersion,
  Imported,          \* the skills every project has registered before its first graph
  Document,          \* the documents somebody tries to register
  Change,            \* the lists of operations somebody proposes
  MaxProposal        \* bound: proposals written

ASSUME VersionsAssumption ==
  /\ Default \in Project /\ Base \in Lineage
  /\ Imported \subseteq Skill
  /\ \A d \in Document : Listed(d)
  /\ \A operations \in Change : ListedOperations(operations)
  /\ MaxProposal \in Nat

VARIABLES
  pointer,    \* graph.current_version_id
  version,    \* the graph_version rows, by hash
  proposal,   \* the proposal rows, by id
  registry    \* the skills each project has registered

vars == <<pointer, version, proposal, registry>>

-----------------------------------------------------------------------------
(* Rows. *)

(* The hash covers the document and the lineage block inside it, which names
   the type and the proposal a fork came from, and not the lineage's id. *)
VersionId(type, origin, d) == [lineage_type |-> type, origin |-> origin, document |-> d]

ContractsState == {"checked", "unchecked", "failed"}

VersionRow(graph, parent, contracts) ==
  [graph |-> graph, parent |-> parent, contracts |-> contracts]

ProposalRow(project, graph, target, operations, keyed) ==
  [project |-> project, graph |-> graph, target |-> target, operations |-> operations,
   keyed |-> keyed, status |-> "pending", applied |-> NoVersion, reviewed |-> FALSE]

Known(p) == DOMAIN version[p]
Born(p, l) == pointer[p][l] # NoVersion
Current(p, l) == pointer[p][l].document

(* insertVersion and movePointer, always one transaction. *)
WriteVersion(p, l, id, parent, contracts) ==
  /\ version' = [version EXCEPT ![p] = [v \in Known(p) \cup {id} |->
                   IF v = id THEN VersionRow(l, parent, contracts) ELSE version[p][v]]]
  /\ pointer' = [pointer EXCEPT ![p][l] = id]

-----------------------------------------------------------------------------
(* POST /graphs, POST /graphs/:id/fork, POST /skills. *)

RegisterGraph(p, d) ==
  LET state == ClassifyContracts(d, registry[p])
  IN  /\ Valid(d)
      /\ state # "failed"
      /\ ~Born(p, Base)
      /\ WriteVersion(p, Base, VersionId("base", 0, d), NoVersion, state)
      /\ UNCHANGED <<proposal, registry>>

Fork(p, l, origin) ==
  LET source == pointer[p][Base]
      id == VersionId("variant", origin, source.document)
  IN  /\ l # Base /\ ~Born(p, l) /\ Born(p, Base)
      /\ origin # 0 => proposal[origin].project = p
      /\ id \notin Known(p)                          \* else fork_without_effect
      /\ WriteVersion(p, l, id, source, version[p][source].contracts)
      /\ UNCHANGED <<proposal, registry>>

(* A faulty re-check: what was waiting for several skills is judged by the last. *)
HastyRecheck(p, skill, id) ==
  IF version[p][id].contracts = "unchecked" /\ skill \in Pins(id.document)
  THEN IF UnproducedInput(id.document) = {} THEN "checked" ELSE "failed"
  ELSE version[p][id].contracts

(* Only what is unchecked and waits for this skill is judged again. *)
Recheck(p, skill, id) ==
  IF version[p][id].contracts = "unchecked" /\ skill \in Pins(id.document)
  THEN ClassifyContracts(id.document, registry[p] \cup {skill})
  ELSE version[p][id].contracts

RegisterSkill(p, skill) ==
  /\ skill \notin registry[p]
  /\ registry' = [registry EXCEPT ![p] = @ \cup {skill}]
  /\ version' = [version EXCEPT ![p] = [id \in Known(p) |->
                   [version[p][id] EXCEPT !.contracts = Recheck(p, skill, id)]]]
  /\ UNCHANGED <<pointer, proposal>>

-----------------------------------------------------------------------------
(* POST /proposals, /graphs/:id/promote, /graphs/:id/offer. *)

CreateProposal(row) ==
  /\ Len(proposal) < MaxProposal
  /\ proposal' = Append(proposal, row)
  /\ UNCHANGED <<pointer, version, registry>>

(* A pending proposal of this project that says the same; it only gains evidence. *)
Repeats(p, target, operations) ==
  \E k \in DOMAIN proposal :
    /\ proposal[k].project = p /\ proposal[k].status = "pending" /\ proposal[k].keyed
    /\ proposal[k].target = target /\ proposal[k].operations = operations

Propose(p, target, operations) ==
  /\ ~Repeats(p, target, operations)
  /\ CreateProposal(ProposalRow(p, version[p][target].graph, target, operations, TRUE))

(* The diff that would make the receiver's current document the giver's. *)
OpenProposal(p, receiver, giver) ==
  LET operations == DiffGraphs(Current(p, receiver), Current(p, giver))
  IN  /\ operations # <<>>
      /\ CreateProposal(ProposalRow(p, receiver, pointer[p][receiver], operations, FALSE))

Promote(p, l) == l # Base /\ Born(p, l) /\ OpenProposal(p, Base, l)
Offer(p, l) == l # Base /\ Born(p, l) /\ OpenProposal(p, l, Base)

-----------------------------------------------------------------------------
(* POST /proposals/:id/approve, reject, apply, revert, outcome. *)

Decided(k, status) == [proposal EXCEPT ![k].status = status]

Approve(k) ==
  /\ proposal[k].status = "pending"
  /\ proposal' = Decided(k, "approved")
  /\ UNCHANGED <<pointer, version, registry>>

Reject(k) ==
  /\ proposal[k].status = "pending"
  /\ proposal' = Decided(k, "rejected")
  /\ UNCHANGED <<pointer, version, registry>>

(* A pin the operations moved to a skill the registry read does not carry. *)
UnregisteredPin(before, after) ==
  \E id \in Ids(before) \cap Ids(after) :
    LET pin == NodeOf(after, id).skill_ref
    IN  pin # NodeOf(before, id).skill_ref /\ pin \notin registry[Default]

(* What the gate lets through: one version, or none. *)
Outcomes(row) ==
  {id \in {[row.target EXCEPT !.document = d] : d \in Applied(row.target.document, row.operations)} :
     /\ Valid(id.document)
     /\ ~UnregisteredPin(row.target.document, id.document)
     /\ id \notin Known(Default)}                    \* else version_without_effect

InForce(row, id) == pointer[Default][row.graph] = id   \* else stale_proposal

RefusedByGate(k) ==
  /\ proposal[k].status = "approved" /\ InForce(proposal[k], proposal[k].target)
  /\ Outcomes(proposal[k]) = {}
  /\ proposal' = Decided(k, "rejected")
  /\ UNCHANGED <<pointer, version, registry>>

(* A faulty apply: the base may have moved since the proposal was written. *)
StaleApply(k) ==
  LET row == proposal[k]
  IN  \E id \in Outcomes(row) :
        /\ row.status = "approved"
        /\ id \notin Known(row.project)
        /\ WriteVersion(row.project, row.graph, id, row.target,
                        ClassifyContracts(id.document, registry[Default]))
        /\ proposal' = [proposal EXCEPT ![k].status = "applied", ![k].applied = id]
        /\ UNCHANGED registry

(* A version the proposal's own project already has fails the insert, and
   nothing is written. *)
ApplyProposal(k) ==
  LET row == proposal[k]
  IN  /\ row.status = "approved" /\ InForce(row, row.target)
      /\ \E id \in Outcomes(row) :
           /\ id \notin Known(row.project)
           /\ WriteVersion(row.project, row.graph, id, row.target,
                           ClassifyContracts(id.document, registry[Default]))
           /\ proposal' = [proposal EXCEPT ![k].status = "applied", ![k].applied = id]
      /\ UNCHANGED registry

RevertProposal(k) ==
  LET row == proposal[k]
  IN  /\ row.status = "applied" /\ InForce(row, row.applied)
      /\ pointer' = [pointer EXCEPT ![row.project][row.graph] = row.target]
      /\ proposal' = Decided(k, "reverted")
      /\ UNCHANGED <<version, registry>>

(* The telemetry the verdict is computed from is the jobs', outside this module. *)
RecordVerdict(k) ==
  /\ proposal[k].status = "applied" /\ ~proposal[k].reviewed
  /\ proposal' = [proposal EXCEPT ![k].reviewed = TRUE]
  /\ UNCHANGED <<pointer, version, registry>>

-----------------------------------------------------------------------------
Init ==
  /\ pointer = [p \in Project |-> [l \in Lineage |-> NoVersion]]
  /\ version = [p \in Project |-> <<>>]
  /\ proposal = <<>>
  /\ registry = [p \in Project |-> Imported]

Catalogue(p) ==
  \/ \E d \in Document : RegisterGraph(p, d)
  \/ \E l \in Lineage, origin \in {0} \cup DOMAIN proposal : Fork(p, l, origin)
  \/ \E skill \in Skill : RegisterSkill(p, skill)
  \/ \E target \in Known(p), operations \in Change : Propose(p, target, operations)
  \/ \E l \in Lineage : Promote(p, l) \/ Offer(p, l)

Decide(k) ==
  \/ Approve(k) \/ Reject(k)
  \/ RefusedByGate(k) \/ ApplyProposal(k) \/ RevertProposal(k)
  \/ RecordVerdict(k)

Next == (\E p \in Project : Catalogue(p)) \/ (\E k \in DOMAIN proposal : Decide(k))

Spec == Init /\ [][Next]_vars

-----------------------------------------------------------------------------
(* Properties. *)

(* Rows keep their shape; a pointer names a version of its own lineage and
   project, a proposal a target there, and an applied one what it wrote. *)
TypeOK ==
  /\ \A p \in Project :
       /\ registry[p] \subseteq Skill
       /\ \A id \in Known(p) : /\ version[p][id].graph \in Lineage
                               /\ version[p][id].parent \in Known(p) \cup {NoVersion}
                               /\ version[p][id].contracts \in ContractsState
       /\ \A l \in Lineage : Born(p, l) => /\ pointer[p][l] \in Known(p)
                                           /\ version[p][pointer[p][l]].graph = l
  /\ \A k \in DOMAIN proposal :
       LET row == proposal[k]
       IN  /\ row.target \in Known(row.project)
           /\ version[row.project][row.target].graph = row.graph
           /\ row.status \in {"applied", "reverted"} <=> row.applied # NoVersion
           /\ row.applied # NoVersion => version[row.project][row.applied].parent = row.target

(* The versions a lineage came through, from its first to the one in force. *)
ComeThrough(l) ==
  LET back[id \in Known(Default)] ==
        LET parent == version[Default][id].parent
        IN  {id} \cup IF parent \in Known(Default) /\ version[Default][parent].graph = l
                      THEN back[parent] ELSE {}
  IN  back[pointer[Default][l]]

(* What is in force is the lineage's first version and, on top of it, exactly
   the versions of the proposals whose status says applied, each once: however
   approvals, applications and reverts of several proposals interleave, no
   change is dropped by another and none outlives its revert; and every pointer
   and proposal stays within its lineage (TypeOK).  The former of the default
   project alone: apply and revert of another project read that one's pointer. *)
AppliedIsInForce ==
  /\ TypeOK
  /\ \A l \in {l \in Lineage : Born(Default, l)} :
       LET applied == {k \in DOMAIN proposal : /\ proposal[k].project = Default
                                               /\ proposal[k].graph = l
                                               /\ proposal[k].status = "applied"}
       IN  /\ Cardinality(ComeThrough(l)) = 1 + Cardinality(applied)
           /\ {proposal[k].applied : k \in applied} \subseteq ComeThrough(l)

(* The ways into a node: from the initial node, no node twice. *)
WaysTo(d, id) ==
  {way \in UNION {[1..n -> Ids(d)] : n \in 1..Cardinality(Ids(d))} :
     /\ way[1] = Initial /\ way[Len(way)] = id
     /\ \A i, j \in DOMAIN way : way[i] = way[j] => i = j
     /\ \A i \in 1..(Len(way) - 1) : <<way[i], way[i + 1]>> \in Outgoing(d)}

(* Whichever way the work comes, what the node requires was produced on it. *)
AlwaysSupplied(d, id) ==
  \A way \in WaysTo(d, id) :
    Requires[NodeOf(d, id).skill_ref]
      \subseteq Given \cup UNION {ProducedAt(d, way[i]) : i \in 1..(Len(way) - 1)}

(* What a stored version says of its contracts is true of the registry as it
   stands, whichever of the version and the skills came first: unchecked when
   a skill is missing and never once all are there, so that no version is held
   back for ever; checked when every way into every node supplies it, and
   failed otherwise.  Of the default project alone, as above. *)
ContractsAreTrue ==
  \A id \in Known(Default) :
    LET d == id.document
    IN  version[Default][id].contracts =
          IF ~(Pins(d) \subseteq registry[Default]) THEN "unchecked"
          ELSE IF \A node \in Ids(d) : AlwaysSupplied(d, node) THEN "checked"
          ELSE "failed"

(* Same nodes, and between any two ends the same edges. *)
Agree(d, e) ==
  /\ ToSet(d.nodes) = ToSet(e.nodes)
  /\ \A from, to \in Ids(d) : Between(d, from, to) = Between(e, from, to)

(* Promoting or offering what is in force in one lineage to another does what
   it says: the operations of the diff apply to the receiver's document, and
   make it the giver's. *)
DiffLands ==
  \A p \in Project : \A receiver, giver \in {l \in Lineage : Born(p, l)} :
    LET before == Current(p, receiver)
        wanted == Current(p, giver)
    IN  receiver # giver =>
          \E made \in Applied(before, DiffGraphs(before, wanted)) : Agree(made, wanted)

=============================================================================
