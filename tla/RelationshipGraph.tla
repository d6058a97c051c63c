------------------------- MODULE RelationshipGraph --------------------------
(***************************************************************************)
(* The typed edges between regulations: workers that resolve what a        *)
(* document cites (engine/relationship_resolver.py), each in one           *)
(* transaction of many statements, and the page on which a reviewer        *)
(* deletes or corrects single edges (ui/api/relationships.py).             *)
(* Regulations are identified by their normalized source_id.               *)
(***************************************************************************)
EXTENDS Naturals, Sequences

CONSTANTS
  Regs,          \* source_ids
  Workers,
  Types,         \* relation types that documents and metadata carry here
  MaxRelations,  \* bound: relations of one document
  Reviewed,      \* is the relationships page in use?
  NoReg

RelationType ==
  {"amends", "amended_by", "references", "supersedes", "superseded_by", "related"}

ASSUME ConstantsOK ==
  /\ Types \subseteq RelationType /\ MaxRelations \in Nat /\ Reviewed \in BOOLEAN
  /\ NoReg \notin Regs

VARIABLES
  nodes,    \* committed regulations, ingested or stub
  edges,    \* committed rows <<source, target, relation_type>>
  tx,       \* a worker's transaction; its own stubs and edges are not committed
  touched   \* history: edges a reviewer deleted, changed or made

vars == <<nodes, edges, tx, touched>>

Edges == Regs \X Regs \X RelationType
Relations == Regs \X Types
Documents == UNION {[1..n -> Relations] : n \in 0..MaxRelations}

Idle == [pc |-> "idle", source |-> NoReg, todo |-> << >>, asked |-> {},
         nodes |-> {}, edges |-> {}]

Transactions ==
  [pc : {"idle", "next", "stub", "guard", "edge", "inverse"},
   source : Regs \cup {NoReg}, todo : Seq(Relations), asked : SUBSET Relations,
   nodes : SUBSET Regs, edges : SUBSET Edges]

TypeOK ==
  /\ nodes \in SUBSET Regs
  /\ edges \in SUBSET Edges
  /\ tx \in [Workers -> Transactions]
  /\ touched \in SUBSET Edges
  /\ \A w \in Workers :
       /\ tx[w].pc # "idle" => tx[w].source \in nodes
       /\ tx[w].pc \notin {"idle", "next"} => tx[w].todo # << >>

Init ==
  /\ nodes = {}
  /\ edges = {}
  /\ tx = [w \in Workers |-> Idle]
  /\ touched = {}

Inverse(type) ==
  CASE type = "amends"        -> "amended_by"
    [] type = "amended_by"    -> "amends"
    [] type = "supersedes"    -> "superseded_by"
    [] type = "superseded_by" -> "supersedes"
    [] OTHER                  -> type

Opposite(e) == <<e[2], e[1], Inverse(e[3])>>

(***************************************************************************)
(* Paths.  Both recursive queries keep the path they have walked, so what  *)
(* they reach is what every successor-closed set from the start contains.  *)
(***************************************************************************)
PathExists(E, from, to, types) ==
  \A S \in SUBSET Regs :
    (\A e \in E : e[3] \in types /\ (e[1] = from \/ e[1] \in S) => e[2] \in S)
      => to \in S

\* Mutant: the chain is followed in one direction.
ChainTypesForward == {"amends", "supersedes"}

ChainTypes == {"amends", "amended_by", "supersedes", "superseded_by"}

\* get_amendment_chain: the regulations it lists; never the one it starts at.
AmendmentChain(x) == {y \in Regs \ {x} : PathExists(edges, x, y, ChainTypes)}

(***************************************************************************)
(* resolve_relationships                                                   *)
(***************************************************************************)
Source(w) == tx[w].source
Target(w) == Head(tx[w].todo)[1]
Type(w)   == Head(tx[w].todo)[2]
EdgeOf(w) == <<Source(w), Target(w), Type(w)>>

Others(w) == Workers \ {w}

\* pipeline._persist has committed x (it waits for an open INSERT of x).
Begin(w, x, document) ==
  /\ tx[w].pc = "idle"
  /\ \A v \in Workers : x \notin tx[v].nodes
  /\ nodes' = nodes \cup {x}
  /\ tx' = [tx EXCEPT ![w] =
              [Idle EXCEPT !.pc = "next", !.source = x, !.todo = document,
                           !.asked = {document[i] : i \in DOMAIN document}]]
  /\ UNCHANGED <<edges, touched>>

\* After the target row is known: only two types are guarded.
Guarded == {"supersedes", "amends"}
AfterTarget(w) == IF Type(w) \in Guarded THEN "guard" ELSE "edge"

\* A citation of the document itself is skipped.
SkipSelf(w) ==
  /\ tx[w].pc = "next" /\ tx[w].todo # << >>
  /\ Target(w) = Source(w)
  /\ tx' = [tx EXCEPT ![w].todo = Tail(@)]
  /\ UNCHANGED <<nodes, edges, touched>>

\* Mutant: a citation of the document itself is not skipped.
SelectAnyTarget(w) ==
  /\ tx[w].pc = "next" /\ tx[w].todo # << >>
  /\ tx' = [tx EXCEPT ![w].pc =
              IF Target(w) \in nodes \cup tx[w].nodes THEN AfterTarget(w) ELSE "stub"]
  /\ UNCHANGED <<nodes, edges, touched>>

\* _get_or_create_stub, the SELECT: committed rows and the worker's own.
SelectTarget(w) ==
  /\ tx[w].pc = "next" /\ tx[w].todo # << >>
  /\ Target(w) # Source(w)
  /\ tx' = [tx EXCEPT ![w].pc =
              IF Target(w) \in nodes \cup tx[w].nodes THEN AfterTarget(w) ELSE "stub"]
  /\ UNCHANGED <<nodes, edges, touched>>

\* _get_or_create_stub, the INSERT.  It waits for an open INSERT of the same
\* source_id; when that one is committed the INSERT fails (see Abort).
InsertStub(w) ==
  /\ tx[w].pc = "stub"
  /\ \A v \in Others(w) : Target(w) \notin tx[v].nodes
  /\ Target(w) \notin nodes
  /\ tx' = [tx EXCEPT ![w].nodes = @ \cup {Target(w)}, ![w].pc = AfterTarget(w)]
  /\ UNCHANGED <<nodes, edges, touched>>

\* _write_edge, the cycle guard.
WouldClose(w) ==
  PathExists(edges \cup tx[w].edges, Target(w), Source(w), {Type(w)})

CheckCycle(w) ==
  /\ tx[w].pc = "guard"
  /\ tx' = IF WouldClose(w)
           THEN [tx EXCEPT ![w].pc = "next", ![w].todo = Tail(@)]
           ELSE [tx EXCEPT ![w].pc = "edge"]
  /\ UNCHANGED <<nodes, edges, touched>>

\* Mutant: an edge that another open transaction has inserted is left to it.
InsertsUnlessOpen(w, e) ==
  /\ tx' = [tx EXCEPT ![w].edges = @ \cup ({e} \ (edges \cup UNION {tx[v].edges : v \in Others(w)})),
                      ![w].pc = IF @ = "edge" THEN "inverse" ELSE "next",
                      ![w].todo = IF tx[w].pc = "edge" THEN @ ELSE Tail(@)]
  /\ UNCHANGED <<nodes, edges, touched>>

\* _insert_edge: INSERT ... ON CONFLICT DO NOTHING waits for an open INSERT of
\* the same edge and then either inserts or finds it committed.
Inserts(w, e) ==
  /\ \A v \in Others(w) : e \notin tx[v].edges
  /\ tx' = [tx EXCEPT ![w].edges = @ \cup ({e} \ edges),
                      ![w].pc = IF @ = "edge" THEN "inverse" ELSE "next",
                      ![w].todo = IF tx[w].pc = "edge" THEN @ ELSE Tail(@)]
  /\ UNCHANGED <<nodes, edges, touched>>

InsertEdge(w) == tx[w].pc = "edge" /\ Inserts(w, EdgeOf(w))

\* Mutant: the inverse edge keeps the type.
InsertReversed(w) ==
  tx[w].pc = "inverse" /\ Inserts(w, <<Target(w), Source(w), Type(w)>>)

InsertInverse(w) == tx[w].pc = "inverse" /\ Inserts(w, Opposite(EdgeOf(w)))

Commit(w) ==
  /\ tx[w].pc = "next" /\ tx[w].todo = << >>
  /\ nodes' = nodes \cup tx[w].nodes
  /\ edges' = edges \cup tx[w].edges
  /\ tx' = [tx EXCEPT ![w] = Idle]
  /\ UNCHANGED touched

\* An INSERT fails, PostgreSQL ends a deadlock, the worker dies: rolled back.
Abort(w) ==
  /\ tx[w].pc # "idle"
  /\ tx' = [tx EXCEPT ![w] = Idle]
  /\ UNCHANGED <<nodes, edges, touched>>

(***************************************************************************)
(* ui/api/relationships.py: edge_action                                    *)
(***************************************************************************)
DeleteEdge(e) ==
  /\ Reviewed
  /\ edges' = edges \ {e}
  /\ touched' = touched \cup {e}
  /\ UNCHANGED <<nodes, tx>>

\* The unique constraint refuses a type the pair already has, and waits for
\* an open INSERT of it.
CorrectEdge(e, type) ==
  LET new == <<e[1], e[2], type>>
  IN  /\ Reviewed
      /\ new \notin edges
      /\ \A w \in Workers : new \notin tx[w].edges
      /\ edges' = (edges \ {e}) \cup {new}
      /\ touched' = touched \cup {e, new}
      /\ UNCHANGED <<nodes, tx>>

WorkerStep(w) ==
  \/ \E x \in Regs, document \in Documents : Begin(w, x, document)
  \/ SkipSelf(w) \/ SelectTarget(w) \/ InsertStub(w) \/ CheckCycle(w)
  \/ InsertEdge(w) \/ InsertInverse(w)
  \/ Commit(w) \/ Abort(w)

ReviewStep ==
  \E e \in edges :
    \/ DeleteEdge(e)
    \/ \E type \in Types : CorrectEdge(e, type)

Next == (\E w \in Workers : WorkerStep(w)) \/ ReviewStep

Spec == Init /\ [][Next]_vars

(***************************************************************************)
(* Properties                                                              *)
(***************************************************************************)
\* "auto-maintains inverse edges" (relationship_resolver.py:6): A amends B is
\* stored exactly when B amended_by A is, and so for the other types.
InversePairs == \A e \in edges : Opposite(e) \in edges

\* An edge lacks its inverse only because a reviewer deleted or changed that
\* inverse, or made the edge: workers that insert the same edges at the same
\* time, and fail at any statement, never leave half a pair.
MissingInverseWasReviewed ==
  \A e \in edges : Opposite(e) \notin edges => {e, Opposite(e)} \cap touched # {}

\* No statement meets the foreign keys or the no_self_edge constraint of
\* db/models.py, which would fail the job after its regulation is stored.
RowsAreAccepted ==
  \A w \in Workers : \A e \in edges \cup tx[w].edges :
    e[1] # e[2] /\ {e[1], e[2]} \subseteq nodes \cup tx[w].nodes

\* A resolution that commits has stored every relation of its document, but for
\* those that would have closed a loop when it looked and those that a reviewer
\* has touched - also when another worker was inserting the same edge and then
\* failed.
CommitIsComplete ==
  [][\A w \in Workers : Commit(w) =>
       \A r \in tx[w].asked :
         \/ r[1] = Source(w)
         \/ <<Source(w), r[1], r[2]>> \in edges' \cup touched
         \/ r[2] \in Guarded /\ PathExists(edges' \cup touched, r[1], Source(w), {r[2]})]_vars

\* "never let a supersedes/amends edge close a loop on itself"
\* (relationship_resolver.py:112).
Acyclic ==
  \A x \in Regs, type \in Guarded : ~PathExists(edges, x, x, {type})

\* "it traverses in both directions" (relationship_resolver.py:158): two
\* regulations list each other in their amendment chains, or neither does, as
\* long as no reviewer has touched an edge.
ChainIsMutual ==
  touched = {} =>
    \A x, y \in Regs : x \in AmendmentChain(y) <=> y \in AmendmentChain(x)
=============================================================================
