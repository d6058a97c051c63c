----------------------- MODULE RelationshipGraphProofs -----------------------
(***************************************************************************)
(* Theorems about RelationshipGraph, for any set of regulations, any number *)
(* of workers, documents of any bounded length, with and without reviewers. *)
(***************************************************************************)
EXTENDS RelationshipGraph, TLAPS

\* The edge a transaction is about to write, or has half written.
Cited(t) == <<t.source, Head(t.todo)[1], Head(t.todo)[2]>>

\* What holds of a transaction t, given the committed nodes N and edges E and
\* the edges T that reviewers touched.
Good(t, N, E, T) ==
  /\ t.pc # "idle" => t.source \in N
  /\ t.pc \notin {"idle", "next"} => t.todo # << >> /\ Head(t.todo)[1] # t.source
  /\ t.pc \in {"guard", "edge", "inverse"} => Head(t.todo)[1] \in N \cup t.nodes
  /\ \A e \in t.edges : e[1] # e[2] /\ e[1] \in N \cup t.nodes /\ e[2] \in N \cup t.nodes
  /\ \A e \in t.edges :
       \/ Opposite(e) \in t.edges \cup E \cup T
       \/ e \in T
       \/ t.pc = "inverse" /\ e = Cited(t)
  /\ t.pc = "inverse" => Cited(t) \in t.edges \cup E \cup T

\* The committed rows.
Sound(N, E, T) ==
  \A e \in E :
    /\ e[1] # e[2] /\ e[1] \in N /\ e[2] \in N
    /\ Opposite(e) \in E \cup T \/ e \in T

Typed ==
  /\ nodes \in SUBSET Regs
  /\ edges \in SUBSET Edges
  /\ tx \in [Workers -> Transactions]
  /\ touched \in SUBSET Edges

IInv ==
  /\ Typed
  /\ Sound(nodes, edges, touched)
  /\ \A w \in Workers : Good(tx[w], nodes, edges, touched)
  /\ Reviewed \/ touched = {}
-----------------------------------------------------------------------------
LEMMA InverseTwice ==
  ASSUME NEW e \in Edges
  PROVE  Opposite(e) \in Edges /\ Opposite(Opposite(e)) = e
<1>1. e = <<e[1], e[2], e[3]>> /\ e[1] \in Regs /\ e[2] \in Regs /\ e[3] \in RelationType
  BY DEF Edges
<1>2. Inverse(e[3]) \in RelationType /\ Inverse(Inverse(e[3])) = e[3]
  BY <1>1 DEF Inverse, RelationType
<1>3. QED
  BY <1>1, <1>2 DEF Opposite, Edges

\* What a transaction relies on survives whatever others commit, and every
\* removal by a reviewer, since that one is recorded.
LEMMA GoodStays ==
  ASSUME NEW t \in Transactions, NEW N1, NEW N2, NEW E1, NEW E2, NEW T1, NEW T2,
         Good(t, N1, E1, T1),
         N1 \subseteq N2, E1 \subseteq E2 \cup T2, T1 \subseteq T2
  PROVE  Good(t, N2, E2, T2)
<1>1. N1 \cup t.nodes \subseteq N2 \cup t.nodes
  OBVIOUS
<1>2. t.edges \cup E1 \cup T1 \subseteq t.edges \cup E2 \cup T2
  OBVIOUS
<1>3. QED
  BY <1>1, <1>2, SMTT(30) DEF Good

\* A step of one worker, seen as the replacement of its record.
LEMMA WorkerReplaces ==
  ASSUME IInv, NEW w \in Workers, NEW t \in Transactions,
         tx' = [tx EXCEPT ![w] = t],
         nodes' \in SUBSET Regs, edges' \in SUBSET Edges,
         nodes \subseteq nodes', edges \subseteq edges', touched' = touched,
         Sound(nodes', edges', touched), Good(t, nodes', edges', touched)
  PROVE  IInv'
<1>1. Typed'
  BY DEF IInv, Typed
<1>2. ASSUME NEW v \in Workers
      PROVE  Good(tx'[v], nodes', edges', touched)
  <2>1. CASE v = w
    BY <2>1 DEF IInv, Typed
  <2>2. CASE v # w
    <3>1. tx'[v] = tx[v] /\ tx[v] \in Transactions
      BY <2>2 DEF IInv, Typed
    <3>2. Good(tx[v], nodes, edges, touched)
      BY DEF IInv
    <3>3. QED
      BY <3>1, <3>2, GoodStays
  <2>3. QED
    BY <2>1, <2>2
<1>3. QED
  BY <1>1, <1>2 DEF IInv

LEMMA InitIInv == Init => IInv
<1> SUFFICES ASSUME Init PROVE IInv
  OBVIOUS
<1>1. << >> \in Seq(Relations)
  OBVIOUS
<1>2. Idle \in Transactions
  BY <1>1 DEF Idle, Transactions
<1>3. Good(Idle, {}, {}, {})
  BY DEF Good, Idle
<1>4. QED
  BY <1>2, <1>3 DEF Init, IInv, Typed, Sound

LEMMA BeginStep ==
  ASSUME IInv, NEW w \in Workers, NEW x \in Regs, NEW document \in Documents,
         Begin(w, x, document)
  PROVE  IInv'
<1> DEFINE t == [Idle EXCEPT !.pc = "next", !.source = x, !.todo = document,
                             !.asked = {document[i] : i \in DOMAIN document}]
<1>1. document \in Seq(Relations) /\ {document[i] : i \in DOMAIN document} \subseteq Relations
  BY ConstantsOK DEF Documents
<1>2. t \in Transactions
  BY <1>1 DEF Transactions, Idle
<1>3. tx' = [tx EXCEPT ![w] = t] /\ nodes' = nodes \cup {x} /\ UNCHANGED <<edges, touched>>
  BY Zenon DEF Begin
<1>4. Sound(nodes', edges', touched)
  BY <1>3 DEF IInv, Sound
<1>5. Good(t, nodes', edges', touched)
  BY <1>3 DEF Good, Idle
<1> HIDE DEF t
<1>6. QED
  BY <1>2, <1>3, <1>4, <1>5, WorkerReplaces DEF IInv, Typed

\* The facts about a worker's record that its next step may rely on.
LEMMA Record ==
  ASSUME IInv, NEW w \in Workers
  PROVE  /\ tx[w] \in Transactions
         /\ Good(tx[w], nodes, edges, touched)
         /\ tx[w].todo # << >> => /\ Head(tx[w].todo) \in Relations
                                  /\ Target(w) \in Regs /\ Type(w) \in RelationType
                                  /\ Tail(tx[w].todo) \in Seq(Relations)
         /\ tx[w].pc # "idle" => Source(w) \in Regs
         /\ tx[w].pc \notin {"idle", "next"} => EdgeOf(w) \in Edges
<1>1. tx[w] \in Transactions /\ Good(tx[w], nodes, edges, touched)
  BY DEF IInv, Typed
<1>2. /\ tx[w].todo \in Seq(Relations)
      /\ tx[w].pc # "idle" => tx[w].source \in Regs
      /\ tx[w].pc \notin {"idle", "next"} => tx[w].todo # << >>
  BY <1>1 DEF Transactions, Good, IInv, Typed
<1>3. tx[w].todo # << >> =>
        Head(tx[w].todo) \in Relations /\ Tail(tx[w].todo) \in Seq(Relations)
  BY <1>2
<1>4. ASSUME NEW r \in Relations
      PROVE  r[1] \in Regs /\ r[2] \in RelationType
  BY ConstantsOK DEF Relations
<1>5. QED
  BY <1>1, <1>2, <1>3, <1>4 DEF Target, Type, Source, EdgeOf, Edges

\* A step that only moves the worker on.
LEMMA SkipSelfStep ==
  ASSUME IInv, NEW w \in Workers, SkipSelf(w)
  PROVE  IInv'
<1> DEFINE t == [tx[w] EXCEPT !.todo = Tail(tx[w].todo)]
<1>1. tx[w].pc = "next" /\ tx' = [tx EXCEPT ![w] = t] /\ UNCHANGED <<nodes, edges, touched>>
  BY Record, Zenon DEF SkipSelf
<1>2. t \in Transactions
  BY Record DEF SkipSelf, Transactions
<1>3. Good(t, nodes, edges, touched)
  BY <1>1, Record DEF Good, Transactions
<1> HIDE DEF t
<1>4. QED
  BY <1>1, <1>2, <1>3, WorkerReplaces DEF IInv, Typed

LEMMA SelectTargetStep ==
  ASSUME IInv, NEW w \in Workers, SelectTarget(w)
  PROVE  IInv'
<1> DEFINE next == IF Target(w) \in nodes \cup tx[w].nodes THEN AfterTarget(w) ELSE "stub"
           t == [tx[w] EXCEPT !.pc = next]
<1>1. /\ tx[w].pc = "next" /\ tx[w].todo # << >> /\ Target(w) # Source(w)
      /\ tx' = [tx EXCEPT ![w] = t] /\ UNCHANGED <<nodes, edges, touched>>
  BY Zenon DEF SelectTarget
<1>2. /\ next \in {"stub", "guard", "edge"}
      /\ next # "stub" => Target(w) \in nodes \cup tx[w].nodes
  BY DEF AfterTarget
<1> HIDE DEF next
<1>3. t \in Transactions
  BY <1>2, Record DEF Transactions
<1>4. Good(t, nodes, edges, touched)
  BY <1>1, <1>2, Record DEF Good, Transactions, Target, Source
<1> HIDE DEF t
<1>5. QED
  BY <1>1, <1>3, <1>4, WorkerReplaces DEF IInv, Typed

LEMMA InsertStubStep ==
  ASSUME IInv, NEW w \in Workers, InsertStub(w)
  PROVE  IInv'
<1> DEFINE next == AfterTarget(w)
           t == [tx[w] EXCEPT !.nodes = tx[w].nodes \cup {Target(w)}, !.pc = next]
<1>1. /\ tx[w].pc = "stub"
      /\ tx' = [tx EXCEPT ![w] = t] /\ UNCHANGED <<nodes, edges, touched>>
  BY Record DEF InsertStub, IInv, Typed, Transactions
<1>2. next \in {"guard", "edge"}
  BY DEF AfterTarget
<1> HIDE DEF next
<1>3. Target(w) \in Regs
  BY <1>1, Record DEF Good
<1>4. t \in Transactions
  BY <1>2, <1>3, Record DEF Transactions
<1>5. Good(t, nodes, edges, touched)
  BY <1>1, <1>2, Record DEF Good, Transactions, Target, Source
<1> HIDE DEF t
<1>6. QED
  BY <1>1, <1>4, <1>5, WorkerReplaces DEF IInv, Typed

LEMMA CheckCycleStep ==
  ASSUME IInv, NEW w \in Workers, CheckCycle(w)
  PROVE  IInv'
<1>1. tx[w].pc = "guard" /\ tx[w].todo # << >> /\ UNCHANGED <<nodes, edges, touched>>
  BY Record DEF CheckCycle, Good
<1>2. CASE WouldClose(w)
  <2> DEFINE t == [tx[w] EXCEPT !.pc = "next", !.todo = Tail(tx[w].todo)]
  <2>1. tx' = [tx EXCEPT ![w] = t]
    BY <1>2, Record DEF CheckCycle, IInv, Typed, Transactions
  <2>2. t \in Transactions
    BY <1>1, Record DEF Transactions
  <2>3. Good(t, nodes, edges, touched)
    BY <1>1, Record DEF Good, Transactions
  <2> HIDE DEF t
  <2>4. QED
    BY <1>1, <2>1, <2>2, <2>3, WorkerReplaces DEF IInv, Typed
<1>3. CASE ~WouldClose(w)
  <2> DEFINE t == [tx[w] EXCEPT !.pc = "edge"]
  <2>1. tx' = [tx EXCEPT ![w] = t]
    BY <1>3, Record DEF CheckCycle, IInv, Typed, Transactions
  <2>2. t \in Transactions
    BY Record DEF Transactions
  <2>3. Good(t, nodes, edges, touched)
    BY <1>1, Record DEF Good, Transactions
  <2> HIDE DEF t
  <2>4. QED
    BY <1>1, <2>1, <2>2, <2>3, WorkerReplaces DEF IInv, Typed
<1>4. QED
  BY <1>2, <1>3

LEMMA InsertEdgeStep ==
  ASSUME IInv, NEW w \in Workers, InsertEdge(w)
  PROVE  IInv'
<1> DEFINE e == EdgeOf(w)
           t == [tx[w] EXCEPT !.edges = tx[w].edges \cup ({e} \ edges), !.pc = "inverse"]
<1>1. tx[w].pc = "edge" /\ UNCHANGED <<nodes, edges, touched>>
  BY DEF InsertEdge, Inserts
<1>2. tx' = [tx EXCEPT ![w] = t]
  BY Record DEF InsertEdge, Inserts, IInv, Typed, Transactions
<1>3. e \in Edges /\ e = Cited(tx[w]) /\ e[1] = Source(w) /\ e[2] = Target(w)
  BY <1>1, Record DEF Cited, EdgeOf, Source, Target, Type
<1>4. e[1] # e[2] /\ e[1] \in nodes /\ e[2] \in nodes \cup tx[w].nodes
  BY <1>1, <1>3, Record DEF Good, Source, Target
<1>5. Cited(t) = e
  BY <1>3, Record DEF Cited, Transactions
<1> HIDE DEF e
<1>6. t \in Transactions
  BY <1>3, Record DEF Transactions
<1>7. Good(t, nodes, edges, touched)
  BY <1>1, <1>4, <1>5, Record DEF Good, Transactions
<1> HIDE DEF t
<1>8. QED
  BY <1>1, <1>2, <1>6, <1>7, WorkerReplaces DEF IInv, Typed

LEMMA InsertInverseStep ==
  ASSUME IInv, NEW w \in Workers, InsertInverse(w)
  PROVE  IInv'
<1> DEFINE e == EdgeOf(w)
           o == Opposite(e)
           t == [tx[w] EXCEPT !.edges = tx[w].edges \cup ({o} \ edges), !.pc = "next",
                              !.todo = Tail(tx[w].todo)]
<1>1. tx[w].pc = "inverse" /\ tx[w].todo # << >> /\ UNCHANGED <<nodes, edges, touched>>
  BY Record DEF InsertInverse, Inserts, Good
<1>2. tx' = [tx EXCEPT ![w] = t]
  BY Record DEF InsertInverse, Inserts, IInv, Typed, Transactions
<1>3. e \in Edges /\ e = Cited(tx[w]) /\ e[1] = Source(w) /\ e[2] = Target(w)
  BY <1>1, Record DEF Cited, EdgeOf, Source, Target, Type
<1>4. /\ o \in Edges /\ Opposite(o) = e
      /\ o[1] # o[2] /\ o[1] \in nodes \cup tx[w].nodes /\ o[2] \in nodes
  <2>1. o[1] = e[2] /\ o[2] = e[1]
    BY DEF Opposite
  <2>2. e[1] # e[2] /\ e[1] \in nodes /\ e[2] \in nodes \cup tx[w].nodes
    BY <1>1, <1>3, Record DEF Good, Source, Target
  <2>3. QED
    BY <1>3, <2>1, <2>2, InverseTwice
<1>5. e \in tx[w].edges \cup edges \cup touched
  BY <1>1, <1>3, Record DEF Good
<1>6. \A f \in tx[w].edges : Opposite(f) \in tx[w].edges \cup edges \cup touched
                              \/ f \in touched \/ f = e
  BY <1>3, Record DEF Good
<1>7. o = Opposite(e)
  OBVIOUS
<1> HIDE DEF e, o
<1>8. t \in Transactions
  BY <1>1, <1>4, Record DEF Transactions
<1>9. Good(t, nodes, edges, touched)
  <2>1. /\ t.pc = "next" /\ t.source = tx[w].source /\ t.nodes = tx[w].nodes
        /\ t.edges = tx[w].edges \cup ({o} \ edges)
    BY Record DEF Transactions
  <2>2. \A f \in t.edges :
          f[1] # f[2] /\ f[1] \in nodes \cup t.nodes /\ f[2] \in nodes \cup t.nodes
    BY <1>4, <2>1, Record DEF Good
  <2>3. \A f \in t.edges : Opposite(f) \in t.edges \cup edges \cup touched \/ f \in touched
    BY <1>4, <1>5, <1>6, <1>7, <2>1
  <2>4. t.source \in nodes
    BY <1>1, <2>1, Record DEF Good
  <2> HIDE DEF t
  <2>5. QED
    BY <2>1, <2>2, <2>3, <2>4 DEF Good
<1> HIDE DEF t
<1>10. QED
  BY <1>1, <1>2, <1>8, <1>9, WorkerReplaces DEF IInv, Typed

LEMMA IdleIsGood ==
  ASSUME NEW N, NEW E, NEW T
  PROVE  Idle \in Transactions /\ Good(Idle, N, E, T)
<1>1. << >> \in Seq(Relations)
  OBVIOUS
<1>2. QED
  BY <1>1 DEF Idle, Transactions, Good

LEMMA CommitStep ==
  ASSUME IInv, NEW w \in Workers, Commit(w)
  PROVE  IInv'
<1>1. /\ tx[w].pc = "next"
      /\ nodes' = nodes \cup tx[w].nodes /\ edges' = edges \cup tx[w].edges
      /\ tx' = [tx EXCEPT ![w] = Idle] /\ touched' = touched
  BY Zenon DEF Commit
<1>2. nodes' \in SUBSET Regs /\ edges' \in SUBSET Edges
  BY <1>1, Record DEF Transactions, IInv, Typed
<1>3. Sound(nodes', edges', touched)
  <2>1. ASSUME NEW e \in edges
        PROVE  /\ e[1] # e[2] /\ e[1] \in nodes' /\ e[2] \in nodes'
               /\ Opposite(e) \in edges' \cup touched \/ e \in touched
    BY <1>1 DEF IInv, Sound
  <2>2. ASSUME NEW e \in tx[w].edges
        PROVE  /\ e[1] # e[2] /\ e[1] \in nodes' /\ e[2] \in nodes'
               /\ Opposite(e) \in edges' \cup touched \/ e \in touched
    BY <1>1, Record DEF Good
  <2>3. QED
    BY <1>1, <2>1, <2>2 DEF Sound
<1>4. QED
  BY <1>1, <1>2, <1>3, IdleIsGood, WorkerReplaces

LEMMA AbortStep ==
  ASSUME IInv, NEW w \in Workers, Abort(w)
  PROVE  IInv'
<1>1. tx' = [tx EXCEPT ![w] = Idle] /\ UNCHANGED <<nodes, edges, touched>>
  BY Zenon DEF Abort
<1>2. QED
  BY <1>1, IdleIsGood, WorkerReplaces DEF IInv, Typed

\* A step of a reviewer: rows go and come, and are recorded as touched.
LEMMA ReviewerReplaces ==
  ASSUME IInv, Reviewed, UNCHANGED <<nodes, tx>>,
         edges' \in SUBSET Edges, touched' \in SUBSET Edges,
         edges \subseteq edges' \cup touched', touched \subseteq touched',
         Sound(nodes, edges', touched')
  PROVE  IInv'
<1>1. ASSUME NEW v \in Workers
      PROVE  Good(tx[v], nodes, edges', touched')
  BY Record, GoodStays
<1>2. QED
  BY <1>1 DEF IInv, Typed

LEMMA DeleteEdgeStep ==
  ASSUME IInv, NEW e \in edges, DeleteEdge(e)
  PROVE  IInv'
<1>1. /\ Reviewed /\ UNCHANGED <<nodes, tx>>
      /\ edges' = edges \ {e} /\ touched' = touched \cup {e}
  BY DEF DeleteEdge
<1>2. edges' \in SUBSET Edges /\ touched' \in SUBSET Edges
  BY <1>1 DEF IInv, Typed
<1>3. Sound(nodes, edges', touched')
  BY <1>1 DEF IInv, Sound
<1>4. QED
  BY <1>1, <1>2, <1>3, ReviewerReplaces

LEMMA CorrectEdgeStep ==
  ASSUME IInv, NEW e \in edges, NEW type \in Types, CorrectEdge(e, type)
  PROVE  IInv'
<1> DEFINE new == <<e[1], e[2], type>>
<1>1. /\ Reviewed /\ UNCHANGED <<nodes, tx>>
      /\ edges' = (edges \ {e}) \cup {new} /\ touched' = touched \cup {e, new}
  BY DEF CorrectEdge
<1>2. new \in Edges /\ new[1] = e[1] /\ new[2] = e[2]
  BY ConstantsOK DEF IInv, Typed, Edges
<1> HIDE DEF new
<1>3. edges' \in SUBSET Edges /\ touched' \in SUBSET Edges
  BY <1>1, <1>2 DEF IInv, Typed
<1>4. Sound(nodes, edges', touched')
  BY <1>1, <1>2 DEF IInv, Sound
<1>5. QED
  BY <1>1, <1>3, <1>4, ReviewerReplaces

LEMMA NextIInv == IInv /\ [Next]_vars => IInv'
<1> SUFFICES ASSUME IInv, [Next]_vars PROVE IInv'
  OBVIOUS
<1>1. ASSUME NEW w \in Workers, WorkerStep(w)
      PROVE  IInv'
  <2>1. CASE \E x \in Regs, document \in Documents : Begin(w, x, document)
    BY <2>1, BeginStep
  <2>2. CASE SkipSelf(w)
    BY <2>2, SkipSelfStep
  <2>3. CASE SelectTarget(w)
    BY <2>3, SelectTargetStep
  <2>4. CASE InsertStub(w)
    BY <2>4, InsertStubStep
  <2>5. CASE CheckCycle(w)
    BY <2>5, CheckCycleStep
  <2>6. CASE InsertEdge(w)
    BY <2>6, InsertEdgeStep
  <2>7. CASE InsertInverse(w)
    BY <2>7, InsertInverseStep
  <2>8. CASE Commit(w)
    BY <2>8, CommitStep
  <2>9. CASE Abort(w)
    BY <2>9, AbortStep
  <2>10. QED
    BY <1>1, <2>1, <2>2, <2>3, <2>4, <2>5, <2>6, <2>7, <2>8, <2>9 DEF WorkerStep
<1>2. CASE ReviewStep
  BY <1>2, DeleteEdgeStep, CorrectEdgeStep DEF ReviewStep
<1>3. CASE UNCHANGED vars
  BY <1>3 DEF vars, IInv, Typed
<1>4. QED
  BY <1>1, <1>2, <1>3 DEF Next

\* The invariant that the theorems below rest on.
THEOREM Invariance == Spec => []IInv
<1>1. Init => IInv
  BY InitIInv
<1>2. IInv /\ [Next]_vars => IInv'
  BY NextIInv
<1>3. QED
  BY <1>1, <1>2, PTL DEF Spec

\* The variables of RelationshipGraph keep their types: the tables, and the
\* open transaction of every worker of resolve_relationships.
THEOREM TypeCorrect == Spec => []TypeOK
<1>1. IInv => TypeOK
  BY DEF IInv, Typed, Good, TypeOK
<1>2. QED
  BY <1>1, Invariance, PTL

\* No INSERT of resolve_relationships meets a foreign key or the no_self_edge
\* constraint (RowsAreAccepted), whatever other workers and reviewers do.
THEOREM InsertsAreAccepted == Spec => []RowsAreAccepted
<1>1. IInv => RowsAreAccepted
  <2> SUFFICES ASSUME IInv, NEW w \in Workers, NEW e \in edges \cup tx[w].edges
               PROVE  e[1] # e[2] /\ {e[1], e[2]} \subseteq nodes \cup tx[w].nodes
    BY DEF RowsAreAccepted
  <2>1. CASE e \in edges
    BY <2>1 DEF IInv, Sound
  <2>2. CASE e \in tx[w].edges
    BY <2>2, Record DEF Good
  <2>3. QED
    BY <2>1, <2>2
<1>2. QED
  BY <1>1, Invariance, PTL

\* Workers of _write_edge never leave half a pair, whatever statement fails and
\* whoever else inserts: an edge without its inverse was touched by a reviewer.
THEOREM HalfPairsAreReviewed == Spec => []MissingInverseWasReviewed
<1>1. IInv => MissingInverseWasReviewed
  BY DEF IInv, Sound, MissingInverseWasReviewed
<1>2. QED
  BY <1>1, Invariance, PTL

LEMMA PairsWithoutReview == IInv /\ ~Reviewed => InversePairs
BY DEF IInv, Sound, InversePairs

\* "auto-maintains inverse edges" holds as long as nobody uses the
\* relationships page.
THEOREM InversesMaintained ==
  ASSUME ~Reviewed
  PROVE  Spec => []InversePairs
<1>1. IInv => InversePairs
  BY PairsWithoutReview
<1>2. QED
  BY <1>1, Invariance, PTL
-----------------------------------------------------------------------------
(***************************************************************************)
(* What a resolution leaves out                                            *)
(***************************************************************************)
\* Relation r of a document s is stored, or need not be, given the edges F.
Answered(r, s, F) ==
  \/ r[1] = s
  \/ <<s, r[1], r[2]>> \in F
  \/ r[2] \in Guarded /\ PathExists(F, r[1], s, {r[2]})

Remaining(t) == {t.todo[i] : i \in DOMAIN t.todo}

\* Every relation of the document is still to come or answered for; F are the
\* committed edges and those that reviewers touched.
Complete(t, F) ==
  /\ t.pc = "guard" => Head(t.todo)[2] \in Guarded
  /\ \A r \in t.asked : r \in Remaining(t) \/ Answered(r, t.source, F \cup t.edges)

CInv == \A w \in Workers : Complete(tx[w], edges \cup touched)

\* A path stays one whatever edges are added.
LEMMA PathsGrow ==
  ASSUME NEW E, NEW F, E \subseteq F, NEW x, NEW y, NEW types, PathExists(E, x, y, types)
  PROVE  PathExists(F, x, y, types)
BY DEF PathExists

LEMMA AnswersStay ==
  ASSUME NEW r, NEW s, NEW E, NEW F, E \subseteq F, Answered(r, s, E)
  PROVE  Answered(r, s, F)
BY PathsGrow DEF Answered

LEMMA CompleteStays ==
  ASSUME NEW t, NEW E, NEW F, E \subseteq F, Complete(t, E)
  PROVE  Complete(t, F)
<1>1. E \cup t.edges \subseteq F \cup t.edges
  OBVIOUS
<1>2. QED
  BY <1>1, AnswersStay DEF Complete

\* Only the head of a list leaves it with its tail.
LEMMA HeadLeaves ==
  ASSUME NEW R, NEW s \in Seq(R), s # << >>, NEW i \in DOMAIN s, s[i] # Head(s)
  PROVE  \E j \in DOMAIN Tail(s) : s[i] = Tail(s)[j]
<1>1. i - 1 \in DOMAIN Tail(s)
  OBVIOUS
<1>2. Tail(s)[i - 1] = s[i]
  BY <1>1
<1>3. QED
  BY <1>1, <1>2

\* The worker is done with the relation at the head of its list, which is
\* answered for.
LEMMA HeadIsAnswered ==
  ASSUME NEW t \in Transactions, NEW u \in Transactions, NEW F, Complete(t, F),
         t.todo # << >>, u.todo = Tail(t.todo), u.asked = t.asked, u.source = t.source,
         t.edges \subseteq u.edges, u.pc # "guard",
         Answered(Head(t.todo), t.source, F \cup u.edges)
  PROVE  Complete(u, F)
<1> SUFFICES ASSUME NEW r \in t.asked, r \notin Remaining(u)
             PROVE  Answered(r, t.source, F \cup u.edges)
  BY DEF Complete
<1>1. CASE r = Head(t.todo)
  BY <1>1
<1>2. CASE r # Head(t.todo)
  <2>1. t.todo \in Seq(Relations)
    BY DEF Transactions
  <2>2. r \notin Remaining(t)
    BY <1>2, <2>1, HeadLeaves DEF Remaining
  <2>3. Answered(r, t.source, F \cup t.edges)
    BY <2>2 DEF Complete
  <2>4. QED
    BY <2>3, AnswersStay
<1>3. QED
  BY <1>1, <1>2

\* The worker goes on with the same relation.
LEMMA SameRelation ==
  ASSUME NEW t, NEW u, NEW F, Complete(t, F),
         u.todo = t.todo, u.asked = t.asked, u.source = t.source,
         t.edges \subseteq u.edges, u.pc = "guard" => Head(t.todo)[2] \in Guarded
  PROVE  Complete(u, F)
<1>1. F \cup t.edges \subseteq F \cup u.edges
  OBVIOUS
<1>2. QED
  BY <1>1, AnswersStay DEF Complete, Remaining

\* A step of one worker, seen as the replacement of its record.
LEMMA OthersStayComplete ==
  ASSUME IInv, CInv, NEW w \in Workers, NEW t, tx' = [tx EXCEPT ![w] = t],
         edges \subseteq edges', touched' = touched,
         Complete(t, edges' \cup touched)
  PROVE  CInv'
<1> SUFFICES ASSUME NEW v \in Workers
             PROVE  Complete(tx'[v], edges' \cup touched)
  BY DEF CInv
<1>1. CASE v = w
  BY <1>1 DEF IInv, Typed
<1>2. CASE v # w
  <2>1. tx'[v] = tx[v] /\ Complete(tx[v], edges \cup touched)
    BY <1>2 DEF IInv, Typed, CInv
  <2>2. QED
    BY <2>1, CompleteStays
<1>3. QED
  BY <1>1, <1>2

LEMMA IdleIsComplete ==
  ASSUME NEW F
  PROVE  Complete(Idle, F)
BY DEF Complete, Idle

LEMMA WorkerStaysComplete ==
  ASSUME IInv, IInv', CInv, NEW w \in Workers, WorkerStep(w)
  PROVE  CInv'
<1> DEFINE F == edges \cup touched
           t == tx[w]
           u == tx'[w]
<1>1. /\ t \in Transactions /\ u \in Transactions /\ Complete(t, F)
      /\ tx \in [Workers -> Transactions] /\ tx' \in [Workers -> Transactions]
  BY DEF IInv, Typed, CInv
<1>2. CASE \E x \in Regs, document \in Documents : Begin(w, x, document)
  <2>1. PICK x \in Regs, document \in Documents : Begin(w, x, document)
    BY <1>2
  <2>2. UNCHANGED <<edges, touched>> /\ tx' = [tx EXCEPT ![w] = u]
    BY <1>1, <2>1 DEF Begin
  <2>3. /\ u.pc = "next" /\ u.todo = document
        /\ u.asked = {document[i] : i \in DOMAIN document}
    BY <1>1, <2>1 DEF Begin, Idle
  <2>4. Complete(u, F)
    BY <2>3 DEF Complete, Remaining
  <2> HIDE DEF u
  <2>5. QED
    BY <2>2, <2>4, OthersStayComplete
<1>3. CASE SkipSelf(w)
  <2>1. /\ UNCHANGED <<edges, touched>> /\ tx' = [tx EXCEPT ![w] = u]
        /\ t.todo # << >> /\ Target(w) = Source(w)
        /\ u = [t EXCEPT !.todo = Tail(@)] /\ t.pc = "next"
    BY <1>1, <1>3 DEF SkipSelf
  <2>2. Answered(Head(t.todo), t.source, F \cup u.edges)
    BY <2>1 DEF Answered, Target, Source
  <2>3. /\ u.todo = Tail(t.todo) /\ u.asked = t.asked /\ u.source = t.source
        /\ u.edges = t.edges /\ u.pc = "next"
    BY <1>1, <2>1 DEF Transactions
  <2>4. Complete(u, F)
    BY <1>1, <2>1, <2>2, <2>3, HeadIsAnswered
  <2> HIDE DEF u
  <2>5. QED
    BY <2>1, <2>4, OthersStayComplete
<1>4. CASE SelectTarget(w)
  <2>1. /\ UNCHANGED <<edges, touched>> /\ tx' = [tx EXCEPT ![w] = u]
        /\ u.pc \in {"stub", AfterTarget(w)}
        /\ u.todo = t.todo /\ u.asked = t.asked /\ u.source = t.source /\ u.edges = t.edges
    BY <1>1, <1>4 DEF SelectTarget, Transactions
  <2>2. Complete(u, F)
    BY <1>1, <2>1, SameRelation DEF AfterTarget, Type
  <2> HIDE DEF u
  <2>3. QED
    BY <2>1, <2>2, OthersStayComplete
<1>5. CASE InsertStub(w)
  <2>1. /\ UNCHANGED <<edges, touched>> /\ tx' = [tx EXCEPT ![w] = u]
        /\ u.pc = AfterTarget(w)
        /\ u.todo = t.todo /\ u.asked = t.asked /\ u.source = t.source /\ u.edges = t.edges
    BY <1>1, <1>5 DEF InsertStub, Transactions
  <2>2. Complete(u, F)
    BY <1>1, <2>1, SameRelation DEF AfterTarget, Type
  <2> HIDE DEF u
  <2>3. QED
    BY <2>1, <2>2, OthersStayComplete
<1>6. CASE CheckCycle(w)
  <2>1. t.pc = "guard" /\ t.todo # << >> /\ UNCHANGED <<edges, touched>>
    BY <1>6, Record DEF CheckCycle, Good
  <2>2. CASE WouldClose(w)
    <3>1. /\ tx' = [tx EXCEPT ![w] = u] /\ u.pc = "next"
          /\ u.todo = Tail(t.todo) /\ u.asked = t.asked /\ u.source = t.source
          /\ u.edges = t.edges
      BY <1>1, <1>6, <2>2 DEF CheckCycle, Transactions
    <3>2. PathExists(F \cup u.edges, Target(w), Source(w), {Type(w)})
      BY <2>2, <3>1, PathsGrow DEF WouldClose
    <3>3. Answered(Head(t.todo), t.source, F \cup u.edges)
      BY <1>1, <2>1, <3>2 DEF Answered, Target, Source, Type, Complete
    <3>4. Complete(u, F)
      BY <1>1, <2>1, <3>1, <3>3, HeadIsAnswered
    <3> HIDE DEF u
    <3>5. QED
      BY <2>1, <3>1, <3>4, OthersStayComplete
  <2>3. CASE ~WouldClose(w)
    <3>1. /\ tx' = [tx EXCEPT ![w] = u] /\ u.pc = "edge"
          /\ u.todo = t.todo /\ u.asked = t.asked /\ u.source = t.source /\ u.edges = t.edges
      BY <1>1, <1>6, <2>3 DEF CheckCycle, Transactions
    <3>2. Complete(u, F)
      BY <1>1, <3>1, SameRelation
    <3> HIDE DEF u
    <3>3. QED
      BY <2>1, <3>1, <3>2, OthersStayComplete
  <2>4. QED
    BY <2>2, <2>3
<1>7. CASE InsertEdge(w)
  <2>1. /\ UNCHANGED <<edges, touched>> /\ tx' = [tx EXCEPT ![w] = u]
        /\ u.pc = "inverse"
        /\ u.todo = t.todo /\ u.asked = t.asked /\ u.source = t.source
        /\ t.edges \subseteq u.edges
    BY <1>1, <1>7 DEF InsertEdge, Inserts, Transactions
  <2>2. Complete(u, F)
    BY <1>1, <2>1, SameRelation
  <2> HIDE DEF u
  <2>3. QED
    BY <2>1, <2>2, OthersStayComplete
<1>8. CASE InsertInverse(w)
  <2>1. /\ UNCHANGED <<edges, touched>> /\ tx' = [tx EXCEPT ![w] = u]
        /\ t.pc = "inverse" /\ u.pc = "next"
        /\ u.todo = Tail(t.todo) /\ u.asked = t.asked /\ u.source = t.source
        /\ t.edges \subseteq u.edges
    BY <1>1, <1>8 DEF InsertInverse, Inserts, Transactions
  <2>2. t.todo # << >> /\ Cited(t) \in t.edges \cup F
    BY <2>1, Record DEF Good
  <2>3. Answered(Head(t.todo), t.source, F \cup u.edges)
    BY <2>1, <2>2 DEF Answered, Cited
  <2>4. Complete(u, F)
    BY <1>1, <2>1, <2>2, <2>3, HeadIsAnswered
  <2> HIDE DEF u
  <2>5. QED
    BY <2>1, <2>4, OthersStayComplete
<1>9. CASE Commit(w)
  <2>1. /\ edges \subseteq edges' /\ touched' = touched /\ tx' = [tx EXCEPT ![w] = Idle]
    BY <1>9 DEF Commit
  <2>2. QED
    BY <2>1, OthersStayComplete, IdleIsComplete
<1>10. CASE Abort(w)
  <2>1. UNCHANGED <<edges, touched>> /\ tx' = [tx EXCEPT ![w] = Idle]
    BY <1>10 DEF Abort
  <2>2. QED
    BY <2>1, OthersStayComplete, IdleIsComplete
<1>11. QED
  BY <1>2, <1>3, <1>4, <1>5, <1>6, <1>7, <1>8, <1>9, <1>10 DEF WorkerStep

\* A resolution that commits has stored every relation of its document, but for
\* self-citations, those that would have closed a loop, and what a reviewer
\* touched: other workers that insert the same edge and then fail take nothing
\* from it (_insert_edge: the INSERT waits for theirs).
THEOREM CommitsAreComplete == Spec => CommitIsComplete
<1>1. Init => CInv
  BY IdleIsComplete DEF Init, CInv
<1>2. IInv /\ IInv' /\ CInv /\ [Next]_vars => CInv'
  <2> SUFFICES ASSUME IInv, IInv', CInv, [Next]_vars
               PROVE  CInv'
    OBVIOUS
  <2>1. CASE \E w \in Workers : WorkerStep(w)
    BY <2>1, WorkerStaysComplete
  <2>2. CASE ReviewStep
    <3>1. tx' = tx /\ edges \cup touched \subseteq edges' \cup touched'
      BY <2>2 DEF ReviewStep, DeleteEdge, CorrectEdge
    <3>2. QED
      BY <3>1, CompleteStays DEF CInv
  <2>3. CASE UNCHANGED vars
    BY <2>3 DEF vars, CInv
  <2>4. QED
    BY <2>1, <2>2, <2>3 DEF Next
<1>3. IInv /\ CInv =>
        (\A w \in Workers : Commit(w) =>
           \A r \in tx[w].asked :
             \/ r[1] = Source(w)
             \/ <<Source(w), r[1], r[2]>> \in edges' \cup touched
             \/ r[2] \in Guarded /\ PathExists(edges' \cup touched, r[1], Source(w), {r[2]}))
  <2> SUFFICES ASSUME IInv, CInv, NEW w \in Workers, Commit(w), NEW r \in tx[w].asked
               PROVE  Answered(r, tx[w].source, edges' \cup touched)
    BY DEF Answered, Source
  <2>1. tx[w].todo = << >> /\ edges' = edges \cup tx[w].edges
    BY DEF Commit
  <2>2. Remaining(tx[w]) = {}
    BY <2>1 DEF Remaining
  <2>3. Answered(r, tx[w].source, (edges \cup touched) \cup tx[w].edges)
    <3>1. Complete(tx[w], edges \cup touched)
      BY DEF CInv
    <3>2. QED
      BY <2>2, <3>1 DEF Complete
  <2>4. QED
    BY <2>1, <2>3, AnswersStay
<1>4. QED
  BY <1>1, <1>2, <1>3, Invariance, PTL DEF Spec, CommitIsComplete
-----------------------------------------------------------------------------
(***************************************************************************)
(* Paths                                                                   *)
(***************************************************************************)
\* Among edges that come in pairs a path can be walked back.
LEMMA PathsTurn ==
  ASSUME NEW E \in SUBSET Edges, \A e \in E : Opposite(e) \in E,
         NEW x \in Regs, NEW y \in Regs, x # y,
         PathExists(E, x, y, ChainTypes)
  PROVE  PathExists(E, y, x, ChainTypes)
<1>1. SUFFICES ASSUME NEW S \in SUBSET Regs, x \notin S,
                      \A e \in E : e[3] \in ChainTypes /\ (e[1] = y \/ e[1] \in S) => e[2] \in S
               PROVE  FALSE
  BY DEF PathExists
<1> DEFINE K == Regs \ (S \cup {y})
<1>2. ASSUME NEW e \in E, e[3] \in ChainTypes, e[1] \in K
      PROVE  e[2] \in K
  <2>1. e[1] \in Regs /\ e[2] \in Regs
    BY DEF Edges
  <2>2. Opposite(e)[1] = e[2] /\ Opposite(e)[2] = e[1] /\ Opposite(e)[3] \in ChainTypes
    BY <1>2 DEF Opposite, Inverse, ChainTypes
  <2>3. QED
    BY <1>1, <1>2, <2>1, <2>2
<1>3. x \in K /\ y \notin K /\ K \in SUBSET Regs
  BY <1>1
<1> HIDE DEF K
<1>4. \A e \in E : e[3] \in ChainTypes /\ (e[1] = x \/ e[1] \in K) => e[2] \in K
  BY <1>2, <1>3
<1>5. QED
  BY <1>3, <1>4 DEF PathExists

\* "it traverses in both directions" (get_amendment_chain): until a reviewer
\* touches an edge two regulations list each other or neither does, for any
\* number of workers and whatever fails.
THEOREM ChainsAreMutual == Spec => []ChainIsMutual
<1>1. IInv => ChainIsMutual
  <2> SUFFICES ASSUME IInv, touched = {}, NEW x \in Regs, NEW y \in Regs,
                      x \in AmendmentChain(y)
               PROVE  y \in AmendmentChain(x)
    BY DEF ChainIsMutual
  <2>1. edges \in SUBSET Edges /\ \A e \in edges : Opposite(e) \in edges
    BY DEF IInv, Typed, Sound
  <2>2. x # y /\ PathExists(edges, y, x, ChainTypes)
    BY DEF AmendmentChain
  <2>3. PathExists(edges, x, y, ChainTypes)
    BY <2>1, <2>2, PathsTurn
  <2>4. QED
    BY <2>2, <2>3 DEF AmendmentChain
<1>2. QED
  BY <1>1, Invariance, PTL

\* The cycle guard: an edge whose target does not reach its source closes no
\* loop that was not there.
LEMMA GuardedEdgeClosesNothing ==
  ASSUME NEW E \in SUBSET Edges, NEW e \in Edges, e[1] # e[2],
         ~PathExists(E, e[2], e[1], {e[3]}),
         NEW z \in Regs, ~PathExists(E, z, z, {e[3]})
  PROVE  ~PathExists(E \cup {e}, z, z, {e[3]})
<1>1. PICK S \in SUBSET Regs :
        /\ \A d \in E : d[3] = e[3] /\ (d[1] = e[2] \/ d[1] \in S) => d[2] \in S
        /\ e[1] \notin S
  BY DEF PathExists
<1>2. PICK Z \in SUBSET Regs :
        /\ \A d \in E : d[3] = e[3] /\ (d[1] = z \/ d[1] \in Z) => d[2] \in Z
        /\ z \notin Z
  BY DEF PathExists
<1>3. e[1] \in Regs /\ e[2] \in Regs
  BY DEF Edges
<1> DEFINE R == S \cup {e[2]}    \* what the target reaches, and itself
           K == IF z \in R THEN Z \cap R ELSE Z \cup R
<1>4. K \in SUBSET Regs /\ z \notin K
  BY <1>2, <1>3
<1>5. ASSUME NEW d \in E \cup {e}, d[3] = e[3], d[1] = z \/ d[1] \in K
      PROVE  d[2] \in K
  <2>1. CASE d = e
    BY <1>1, <1>5, <2>1
  <2>2. CASE d \in E
    BY <1>1, <1>2, <1>5, <2>2
  <2>3. QED
    BY <2>1, <2>2
<1> HIDE DEF K
<1>6. QED
  BY <1>4, <1>5 DEF PathExists

\* Edges of other types do not matter.
LEMMA OtherTypesAreIgnored ==
  ASSUME NEW E, NEW e, NEW types, e[3] \notin types, NEW x, NEW y,
         PathExists(E \cup {e}, x, y, types)
  PROVE  PathExists(E, x, y, types)
BY DEF PathExists

AcyclicIn(E) == \A x \in Regs, type \in Guarded : ~PathExists(E, x, x, {type})

\* What one worker at a time maintains.
Alone(w) ==
  /\ AcyclicIn(edges \cup tx[w].edges)
  /\ tx[w].pc = "edge" /\ Type(w) \in Guarded => ~WouldClose(w)

AInv == AcyclicIn(edges) /\ \A w \in Workers : Alone(w)

OneDirection == Types \cap {"amended_by", "superseded_by"} = {}

LEMMA AddingKeepsAcyclic ==
  ASSUME NEW E \in SUBSET Edges, AcyclicIn(E), NEW e \in Edges, e[1] # e[2],
         e[3] \in Guarded => ~PathExists(E, e[2], e[1], {e[3]})
  PROVE  AcyclicIn(E \cup {e})
<1> SUFFICES ASSUME NEW x \in Regs, NEW type \in Guarded,
                    PathExists(E \cup {e}, x, x, {type})
             PROVE  FALSE
  BY DEF AcyclicIn
<1>1. ~PathExists(E, x, x, {type})
  BY DEF AcyclicIn
<1>2. CASE e[3] = type
  BY <1>1, <1>2, GuardedEdgeClosesNothing
<1>3. CASE e[3] # type
  BY <1>1, <1>3, OtherTypesAreIgnored
<1>4. QED
  BY <1>2, <1>3

\* A step of the only worker that leaves the rows and its own edges alone.
LEMMA SameEdges ==
  ASSUME AInv, NEW w \in Workers, \A v \in Workers : v = w,
         edges' = edges, tx'[w].edges = tx[w].edges \/ tx'[w].edges = {},
         tx'[w].pc = "edge" => Type(w)' \notin Guarded \/ ~WouldClose(w)'
  PROVE  AInv'
<1>1. AcyclicIn(edges') /\ AcyclicIn(edges' \cup tx'[w].edges)
  <2>1. edges \cup {} = edges
    OBVIOUS
  <2>2. QED
    BY <2>1 DEF AInv, Alone
<1>2. QED
  BY <1>1 DEF AInv, Alone

LEMMA SoleStep ==
  ASSUME IInv, AInv, OneDirection, NEW w \in Workers, \A v \in Workers : v = w,
         WorkerStep(w)
  PROVE  AInv'
<1>1. tx[w] \in Transactions /\ w \in DOMAIN tx
  BY Record DEF IInv, Typed
<1>2. CASE \E x \in Regs, document \in Documents : Begin(w, x, document)
  <2>1. edges' = edges /\ tx'[w].pc = "next" /\ tx'[w].edges = {}
    BY <1>1, <1>2 DEF Begin, Idle
  <2>2. QED
    BY <2>1, SameEdges
<1>3. CASE SkipSelf(w)
  <2>1. edges' = edges /\ tx'[w].pc = "next" /\ tx'[w].edges = tx[w].edges
    BY <1>1, <1>3 DEF SkipSelf, Transactions
  <2>2. QED
    BY <2>1, SameEdges
<1>4. CASE SelectTarget(w)
  <2>1. edges' = edges /\ tx'[w].edges = tx[w].edges /\ tx'[w].todo = tx[w].todo
    BY <1>1, <1>4 DEF SelectTarget, Transactions
  <2>2. tx'[w].pc = "edge" => Type(w) \notin Guarded
    BY <1>1, <1>4 DEF SelectTarget, Transactions, AfterTarget
  <2>3. QED
    BY <2>1, <2>2, SameEdges DEF Type
<1>5. CASE InsertStub(w)
  <2>1. edges' = edges /\ tx'[w].edges = tx[w].edges /\ tx'[w].todo = tx[w].todo
    BY <1>1, <1>5 DEF InsertStub, Transactions
  <2>2. tx'[w].pc = "edge" => Type(w) \notin Guarded
    BY <1>1, <1>5 DEF InsertStub, Transactions, AfterTarget
  <2>3. QED
    BY <2>1, <2>2, SameEdges DEF Type
<1>6. CASE CheckCycle(w)
  <2>1. edges' = edges /\ tx'[w].edges = tx[w].edges
    BY <1>1, <1>6 DEF CheckCycle, Transactions
  <2>2. CASE WouldClose(w)
    <3>1. tx'[w].pc = "next"
      BY <1>1, <1>6, <2>2 DEF CheckCycle, Transactions
    <3>2. QED
      BY <2>1, <3>1, SameEdges
  <2>3. CASE ~WouldClose(w)
    <3>1. tx'[w].todo = tx[w].todo /\ tx'[w].source = tx[w].source
      BY <1>1, <1>6, <2>3 DEF CheckCycle, Transactions
    <3>2. WouldClose(w)' <=> WouldClose(w)
      BY <2>1, <3>1 DEF WouldClose, Target, Source, Type
    <3>3. QED
      BY <2>1, <2>3, <3>2, SameEdges
  <2>4. QED
    BY <2>2, <2>3
<1>7. CASE InsertEdge(w)
  <2> DEFINE e == EdgeOf(w)
  <2>1. tx[w].pc = "edge" /\ edges' = edges
    BY <1>7 DEF InsertEdge, Inserts
  <2>2. tx'[w].pc = "inverse" /\ tx'[w].edges = tx[w].edges \cup ({e} \ edges)
    BY <1>1, <1>7 DEF InsertEdge, Inserts, Transactions
  <2>3. e \in Edges /\ e[1] = Source(w) /\ e[2] = Target(w) /\ e[3] = Type(w)
    BY <2>1, Record DEF EdgeOf
  <2>4. e[1] # e[2]
    BY <2>1, <2>3, Record DEF Good, Source, Target
  <2>5. e[3] \in Guarded => ~PathExists(edges \cup tx[w].edges, e[2], e[1], {e[3]})
    BY <2>1, <2>3 DEF AInv, Alone, WouldClose
  <2> HIDE DEF e
  <2>6. AcyclicIn((edges \cup tx[w].edges) \cup {e})
    <3>1. edges \cup tx[w].edges \in SUBSET Edges
      BY <1>1 DEF IInv, Typed, Transactions
    <3>2. AcyclicIn(edges \cup tx[w].edges)
      BY DEF AInv, Alone
    <3>3. QED
      BY <2>3, <2>4, <2>5, <3>1, <3>2, AddingKeepsAcyclic
  <2>7. edges' \cup tx'[w].edges = (edges \cup tx[w].edges) \cup {e}
    BY <2>1, <2>2
  <2>8. QED
    BY <2>1, <2>2, <2>6, <2>7 DEF AInv, Alone
<1>8. CASE InsertInverse(w)
  <2> DEFINE o == Opposite(EdgeOf(w))
  <2>1. tx[w].pc = "inverse" /\ tx[w].todo # << >> /\ edges' = edges
    BY <1>8, Record DEF InsertInverse, Inserts, Good
  <2>2. tx'[w].pc = "next" /\ tx'[w].edges = tx[w].edges \cup ({o} \ edges)
    BY <1>1, <1>8 DEF InsertInverse, Inserts, Transactions
  <2>3. o \in Edges /\ o[1] # o[2]
    <3>1. EdgeOf(w) \in Edges
      BY <2>1, Record
    <3>2. o \in Edges
      BY <3>1, InverseTwice
    <3>3. Source(w) # Target(w)
      BY <2>1, Record DEF Good, Source, Target
    <3>4. QED
      BY <3>2, <3>3 DEF Opposite, EdgeOf
  <2>4. o[3] \notin Guarded
    <3>1. Type(w) \in Types
      BY <2>1, Record DEF Relations, Type
    <3>2. Type(w) \notin {"amended_by", "superseded_by"}
      BY <3>1 DEF OneDirection
    <3>3. o[3] = Inverse(Type(w))
      BY DEF Opposite, EdgeOf
    <3>4. QED
      BY <3>2, <3>3 DEF Inverse, Guarded
  <2> HIDE DEF o
  <2>5. AcyclicIn((edges \cup tx[w].edges) \cup {o})
    <3>1. edges \cup tx[w].edges \in SUBSET Edges
      BY <1>1 DEF IInv, Typed, Transactions
    <3>2. AcyclicIn(edges \cup tx[w].edges)
      BY DEF AInv, Alone
    <3>3. QED
      BY <2>3, <2>4, <3>1, <3>2, AddingKeepsAcyclic
  <2>6. edges' \cup tx'[w].edges = (edges \cup tx[w].edges) \cup {o}
    BY <2>1, <2>2
  <2>7. QED
    BY <2>1, <2>2, <2>5, <2>6 DEF AInv, Alone
<1>9. CASE Commit(w)
  <2>1. /\ edges' = edges \cup tx[w].edges
        /\ tx'[w].edges = {} /\ tx'[w].pc = "idle"
    BY <1>1, <1>9 DEF Commit, Idle
  <2>2. edges' \cup {} = edges'
    OBVIOUS
  <2>3. QED
    BY <2>1, <2>2 DEF AInv, Alone
<1>10. CASE Abort(w)
  <2>1. edges' = edges /\ tx'[w].pc = "idle" /\ tx'[w].edges = {}
    BY <1>1, <1>10 DEF Abort, Idle
  <2>2. QED
    BY <2>1, SameEdges
<1>11. QED
  BY <1>2, <1>3, <1>4, <1>5, <1>6, <1>7, <1>8, <1>9, <1>10 DEF WorkerStep

\* "never let a supersedes/amends edge close a loop on itself" (_write_edge)
\* holds for one worker at a time, as long as no document or metadata names a
\* relation in its passive form and nobody uses the relationships page.
THEOREM OneWorkerIsAcyclic ==
  ASSUME ~Reviewed, OneDirection, \A v, w \in Workers : v = w
  PROVE  Spec => []Acyclic
<1>1. Init => AInv
  <2> SUFFICES ASSUME Init PROVE AInv
    OBVIOUS
  <2>1. AcyclicIn({})
    <3> SUFFICES ASSUME NEW x \in Regs, NEW type \in Guarded
                 PROVE  ~PathExists({}, x, x, {type})
      BY DEF AcyclicIn
    <3>1. {} \in SUBSET Regs /\ x \notin {}
      OBVIOUS
    <3>2. QED
      BY <3>1, Zenon DEF PathExists
  <2>2. edges = {} /\ edges \cup {} = {}
    BY DEF Init
  <2>3. \A w \in Workers : tx[w].edges = {} /\ tx[w].pc # "edge"
    BY DEF Init, Idle
  <2>4. QED
    BY <2>1, <2>2, <2>3 DEF AInv, Alone
<1>2. IInv /\ AInv /\ [Next]_vars => AInv'
  <2> SUFFICES ASSUME IInv, AInv, [Next]_vars
               PROVE  AInv'
    OBVIOUS
  <2>1. ASSUME NEW w \in Workers, WorkerStep(w)
        PROVE  AInv'
    BY <2>1, SoleStep
  <2>2. CASE UNCHANGED vars
    BY <2>2 DEF vars, AInv, Alone, WouldClose, Target, Source, Type
  <2>3. ~ReviewStep
    BY DEF ReviewStep, DeleteEdge, CorrectEdge
  <2>4. QED
    BY <2>1, <2>2, <2>3 DEF Next
<1>3. AInv => Acyclic
  BY DEF AInv, AcyclicIn, Acyclic
<1>4. QED
  BY <1>1, <1>2, <1>3, Invariance, PTL DEF Spec
=============================================================================
