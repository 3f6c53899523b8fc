-------------------------- MODULE AssistantProofs --------------------------
(***************************************************************************)
(* Proofs about an assistant: the review of its versions (VersionReview)   *)
(* and its draft (Canvas), for any number of versions, handlers and        *)
(* conversations, and for any graph and config.                            *)
(*                                                                         *)
(* Canvas: what is hard is said of graphs and configs, not of steps.  The  *)
(* edges that are allowed lead from rank to rank, so three rounds find all *)
(* that reaches the agent (ReachingIs); compiling what was projected gives *)
(* the config back (CanonicalCompiles, ProjectIs); every fix works on      *)
(* every graph (FixesWork); the user's wiring is kept where it means the   *)
(* config (CandidateCompiles).  The steps then need only that a save       *)
(* writes what follows from what it loaded (SavesHold).                    *)
(*                                                                         *)
(* VersionReview: the pointer to the live version is moved by handlers     *)
(* that read it before they locked the row.  What saves it is that a       *)
(* rollback checks its target under the lock, and that the version it      *)
(* marks is the one it saw live, which its own guard keeps apart from the  *)
(* target (LockHolds).                                                     *)
(***************************************************************************)
EXTENDS VersionReview, Canvas, FiniteSetTheorems, WellFoundedInduction, TLAPS

-----------------------------------------------------------------------------
(* Numbers: what First and Max choose.                                     *)

\* A set of numbers has a smallest one.
LEMMA Smallest ==
  ASSUME NEW S \in SUBSET Nat, S # {}
  PROVE  \E m \in S : \A k \in S : m <= k
<1> DEFINE R == {ss \in Nat \X Nat : ss[1] < ss[2]}
<1>1. IsWellFoundedOn(R, Nat)
  BY NatLessThanWellFounded DEF OpToRel
<1>2. \A i, j \in Nat : i < j => <<i, j>> \in R
  OBVIOUS
<1> HIDE DEF R
<1>3. PICK m \in S : \A k \in S : ~(<<k, m>> \in R)
  BY <1>1, WFMin
<1>4. ASSUME NEW k \in S PROVE m <= k
  <2>1. m \in Nat /\ k \in Nat /\ ~(k < m)
    BY <1>2, <1>3, Zenon
  <2> QED BY <2>1
<1> QED BY <1>4

\* And a largest one, if it has an element and is finite: otherwise take one without a
\* bound that has the fewest elements.
LEMMA Bounded ==
  ASSUME NEW S \in SUBSET Nat, IsFiniteSet(S)
  PROVE  \E b \in Nat : \A k \in S : k <= b
<1> DEFINE bounded(T) == \E b \in Nat : \A k \in T : k <= b
           Sizes == {n \in Nat : \E T \in SUBSET Nat :
                       IsFiniteSet(T) /\ Cardinality(T) = n /\ ~bounded(T)}
<1>1. ASSUME NEW T \in SUBSET Nat, IsFiniteSet(T), ~bounded(T) PROVE Cardinality(T) \in Sizes
  BY <1>1, FS_CardinalityType
<1>2. SUFFICES ASSUME Sizes # {} PROVE FALSE
  BY <1>1
<1>3. PICK n \in Sizes : \A k \in Sizes : n <= k
  <2>1. Sizes \in SUBSET Nat
    OBVIOUS
  <2> HIDE DEF Sizes
  <2> QED BY <1>2, <2>1, Smallest
<1>4. PICK T \in SUBSET Nat : IsFiniteSet(T) /\ Cardinality(T) = n /\ ~bounded(T)
  OBVIOUS
<1>5. PICK x \in T : TRUE
  <2>1. T # {}
    BY <1>4
  <2> QED BY <2>1
<1>6. IsFiniteSet(T \ {x}) /\ Cardinality(T \ {x}) = n - 1
  BY <1>4, <1>5, FS_RemoveElement
<1>7. bounded(T \ {x})
  <2>1. n \in Nat
    OBVIOUS
  <2> HIDE DEF Sizes, bounded
  <2>2. T \ {x} \in SUBSET Nat
    OBVIOUS
  <2>3. ~bounded(T \ {x}) => n - 1 \in Sizes
    BY <1>1, <1>6, <2>2
  <2> QED BY <1>3, <2>1, <2>3
<1>8. PICK b \in Nat : \A k \in T \ {x} : k <= b
  BY <1>7
<1>9. bounded(T)
  <2>1. CASE x <= b
    BY <1>8, <2>1
  <2>2. CASE ~(x <= b)
    <3>1. \A k \in T : k <= x
      BY <1>5, <1>8, <2>2
    <3> QED BY <1>5, <3>1
  <2> QED BY <2>1, <2>2
<1> QED BY <1>4, <1>9

\* The largest of a finite set of numbers.
LEMMA Largest ==
  ASSUME NEW S \in SUBSET Nat, IsFiniteSet(S), S # {}
  PROVE  Max(S) \in S /\ \A k \in S : k <= Max(S)
<1> DEFINE Bounds == {b \in Nat : \A k \in S : k <= b}
<1>1. Bounds # {} /\ Bounds \in SUBSET Nat
  BY Bounded
<1>2. PICK m \in Bounds : \A b \in Bounds : m <= b
  <2> HIDE DEF Bounds
  <2> QED BY <1>1, Smallest
<1>3. m \in S
  <2>1. SUFFICES ASSUME m \notin S PROVE FALSE
    OBVIOUS
  <2>2. PICK k \in S : TRUE
    OBVIOUS
  <2>3. \A j \in S : j <= m - 1
    BY <2>1
  <2>4. m - 1 \in Nat
    BY <2>2, <2>3
  <2>5. m - 1 \in Bounds
    BY <2>3, <2>4
  <2>6. m <= m - 1
    BY <1>2, <2>5
  <2> QED BY <2>6
<1>4. \E x \in S : \A y \in S : x >= y
  BY <1>3
<1>5. Max(S) \in S /\ \A y \in S : Max(S) >= y
  BY <1>4 DEF Max
<1> QED BY <1>5

\* What "more than one" means.
LEMMA TwoAreMany ==
  ASSUME NEW S, IsFiniteSet(S)
  PROVE  Cardinality(S) > 1 <=> \E x, y \in S : x # y
<1>1. ASSUME NEW x \in S, NEW y \in S, x # y PROVE Cardinality(S) > 1
  <2>1. IsFiniteSet({x}) /\ Cardinality({x}) = 1
    BY FS_Singleton
  <2>2. Cardinality({x} \cup {y}) = 2
    BY <1>1, <2>1, FS_AddElement
  <2>3. Cardinality({x} \cup {y}) <= Cardinality(S) /\ Cardinality(S) \in Nat
    BY FS_Subset, FS_CardinalityType
  <2> QED BY <2>2, <2>3
<1>2. ASSUME Cardinality(S) > 1, \A x, y \in S : x = y PROVE FALSE
  <2>1. CASE S = {}
    BY <1>2, <2>1, FS_EmptySet
  <2>2. CASE S # {}
    <3>1. PICK x : S = {x}
      BY <1>2, <2>2
    <3>2. Cardinality(S) = 1
      BY <3>1, FS_Singleton
    <3> QED BY <1>2, <3>2
  <2> QED BY <2>1, <2>2
<1> QED BY <1>1, <1>2

\* The library states this with an operator parameter.
LEMMA FiniteImage ==
  ASSUME NEW S, IsFiniteSet(S), NEW f, f = [x \in S |-> f[x]]
  PROVE  IsFiniteSet({f[x] : x \in S})
<1> DEFINE T == {f[x] : x \in S}
<1>1. f \in [S -> T]
  OBVIOUS
<1>2. \A t \in T : \E x \in S : f[x] = t
  OBVIOUS
<1>3. f \in Surjection(S, T)
  BY <1>1, <1>2 DEF Surjection
<1> QED BY <1>3, FS_Surjection

-----------------------------------------------------------------------------
(* Graphs.                                                                 *)

\* The parts of a node.
LEMMA NodeIs ==
  ASSUME NEW n \in Nodes
  PROVE  n.type \in Types /\ n.ref \in RefsOf(n.type) /\ n.copy \in Nat
BY DEF Nodes

\* A node is its three parts.
LEMMA SameNode ==
  ASSUME NEW n \in Nodes, NEW m \in Nodes, n.type = m.type, n.ref = m.ref, n.copy = m.copy
  PROVE  n = m
BY DEF Nodes

\* What makes a node.
LEMMA NewNode ==
  ASSUME NEW t \in Types, NEW r \in RefsOf(t), NEW k \in Nat
  PROVE  /\ [type |-> t, ref |-> r, copy |-> k] \in Nodes
         /\ Node(t, r) \in Nodes /\ Node(t, r).type = t /\ Node(t, r).ref = r
BY DEF Nodes, Node

\* The parts of a graph.
LEMMA GraphIs ==
  ASSUME NEW g \in Graphs
  PROVE  /\ g.nodes \subseteq Nodes /\ IsFiniteSet(g.nodes)
         /\ g.edges \subseteq g.nodes \X g.nodes
         /\ \A n \in g.own : n \in g.nodes /\ n.type \in Defaulted
BY DEF Graphs

\* What makes a graph.
LEMMA NewGraph ==
  ASSUME NEW ns \in SUBSET Nodes, IsFiniteSet(ns), NEW es \in SUBSET (ns \X ns), NEW os,
         \A n \in os : n \in ns /\ n.type \in Defaulted
  PROVE  [nodes |-> ns, edges |-> es, own |-> os] \in Graphs
BY DEF Graphs

\* A graph is its three parts.
LEMMA PartsOf ==
  ASSUME NEW g \in Graphs
  PROVE  g = [nodes |-> g.nodes, edges |-> g.edges, own |-> g.own]
BY DEF Graphs

\* The nodes of one type.
LEMMA OfIs ==
  ASSUME NEW g \in Graphs, NEW t
  PROVE  /\ Of(g, t) \subseteq g.nodes /\ Of(g, t) \subseteq Nodes /\ IsFiniteSet(Of(g, t))
         /\ \A n \in g.nodes : n \in Of(g, t) <=> n.type = t
<1>1. Of(g, t) \subseteq g.nodes
  BY DEF Of
<1> QED BY <1>1, GraphIs, FS_Subset DEF Of

\* There is a first node of those that are alike.
LEMMA FirstIs ==
  ASSUME NEW S \in SUBSET Nodes, S # {}
  PROVE  First(S) \in S /\ \A m \in S : First(S).copy <= m.copy
<1> DEFINE copies == {n.copy : n \in S}
<1>1. copies \in SUBSET Nat /\ copies # {}
  BY NodeIs
<1>2. PICK k \in copies : \A i \in copies : k <= i
  <2> HIDE DEF copies
  <2> QED BY <1>1, Smallest
<1>3. PICK n \in S : n.copy = k
  OBVIOUS
<1>4. \A m \in S : n.copy <= m.copy
  BY <1>2, <1>3
<1> QED BY <1>3, <1>4 DEF First

\* A node is alike itself.
LEMMA AlikeIs ==
  ASSUME NEW g \in Graphs, NEW n \in g.nodes
  PROVE  /\ n \in Alike(g, n) /\ Alike(g, n) \subseteq g.nodes /\ Alike(g, n) \subseteq Nodes
         /\ First(Alike(g, n)) \in Alike(g, n)
         /\ \A m \in Alike(g, n) : First(Alike(g, n)).copy <= m.copy
<1>1. /\ n \in Alike(g, n) /\ Alike(g, n) \subseteq g.nodes /\ Alike(g, n) \subseteq Nodes
  BY GraphIs DEF Alike
<1> QED BY <1>1, FirstIs

\* What an edge may connect.
Ok(e) == <<e[1].type, e[2].type>> \in AllowedEdges

\* Where an edge that is allowed may lead.
LEMMA AllowedFrom ==
  ASSUME NEW a, NEW b, <<a, b>> \in AllowedEdges
  PROVE  /\ a \in Types /\ b \in Types /\ a # "output" /\ b \notin {"input", "data_source"}
         /\ a = "input" => b \in {"guardrail", "router", "agent"}
         /\ a = "guardrail" => b \in {"router", "agent"}
         /\ a \in {"router", "subagent", "memory"} => b = "agent"
         /\ a \in CapabilityTypes => b \in {"agent", "subagent"}
         /\ a = "data_source" => b = "knowledge_base"
         /\ a = "agent" => b = "output"
BY DEF AllowedEdges, Types, CapabilityTypes, Singletons, AtMostOne

\* Edges that are allowed.
LEMMA AllowedTo ==
  /\ \A b \in {"guardrail", "router", "agent"} : <<"input", b>> \in AllowedEdges
  /\ \A b \in {"router", "agent"} : <<"guardrail", b>> \in AllowedEdges
  /\ \A a \in {"router", "subagent", "memory"} \cup CapabilityTypes :
       <<a, "agent">> \in AllowedEdges
  /\ \A a \in CapabilityTypes : <<a, "subagent">> \in AllowedEdges
  /\ <<"data_source", "knowledge_base">> \in AllowedEdges
  /\ <<"agent", "output">> \in AllowedEdges
BY DEF AllowedEdges, CapabilityTypes

\* The legal edges of a graph: they have their ends in it.
LEMMA LegalIs ==
  ASSUME NEW g \in Graphs
  PROVE  Legal(g) = {e \in g.edges : Ok(e)}
<1>1. \A e \in g.edges : {e[1], e[2]} \subseteq g.nodes
  BY GraphIs
<1> QED BY <1>1 DEF Legal, Ok

\* Whoever reaches the agent is the agent or goes on to who does: the edges that are
\* allowed come from higher to lower ranks, and there are four.
LEMMA ReachingIs ==
  ASSUME NEW g \in Graphs, NEW E \in SUBSET g.edges, \A e \in E : Ok(e)
  PROVE  /\ Reaching(g, E) \subseteq g.nodes
         /\ Of(g, "agent") \subseteq Reaching(g, E)
         /\ \A n \in g.nodes \ Of(g, "agent") :
              n \in Reaching(g, E) <=> \E m \in Reaching(g, E) : <<n, m>> \in E
<1> DEFINE before(S) == S \cup {e[1] : e \in {e \in E : e[2] \in S}}
           B0 == Of(g, "agent")
           B1 == before(B0)
           B2 == before(B1)
           B3 == before(B2)
<1>1. Reaching(g, E) = B3
  BY DEF Reaching
<1>2. ASSUME NEW S
      PROVE  /\ S \subseteq before(S)
             /\ \A n : n \in before(S) <=> n \in S \/ \E m \in S : <<n, m>> \in E
  <2>1. \A e \in E : e = <<e[1], e[2]>>
    BY GraphIs
  <2> QED BY <2>1
<1>3. B0 \subseteq g.nodes /\ \A n \in g.nodes : n \in B0 <=> n.type = "agent"
  BY OfIs
<1>4. \A n, m : <<n, m>> \in E =>
        n \in g.nodes /\ m \in g.nodes /\ <<n.type, m.type>> \in AllowedEdges
  BY GraphIs DEF Ok
<1> HIDE DEF before
<1>5. B3 \subseteq g.nodes /\ B0 \subseteq B3
  BY <1>2, <1>3, <1>4
<1>6. ASSUME NEW n \in g.nodes \ B0, n \in B3
      PROVE  \E m \in B3 : <<n, m>> \in E
  BY <1>2, <1>6
<1>7. ASSUME NEW n, NEW m \in B3, <<n, m>> \in E, m.type \in {"router", "subagent", "memory"}
      PROVE  m \in B1
  <2>1. m \notin B0
    BY <1>3, <1>5, <1>7
  <2>2. PICK k \in B3 : <<m, k>> \in E
    BY <1>2, <2>1
  <2>3. k \in B0
    BY <1>3, <1>4, <1>7, <2>2, AllowedFrom
  <2> QED BY <1>2, <2>2, <2>3
<1>8. ASSUME NEW n, NEW m \in B3, <<n, m>> \in E, m.type \in {"guardrail"} \cup CapabilityTypes
      PROVE  m \in B2
  <2>1. m \notin B0
    BY <1>3, <1>5, <1>8 DEF CapabilityTypes
  <2>2. PICK k \in B3 : <<m, k>> \in E
    BY <1>2, <2>1
  <2>3. k.type \in {"agent", "router", "subagent"} /\ k \in g.nodes
    BY <1>4, <1>8, <2>2, AllowedFrom
  <2>4. k \in B1
    BY <1>2, <1>3, <1>7, <2>2, <2>3
  <2> QED BY <1>2, <2>2, <2>4
<1>9. ASSUME NEW n, NEW m \in B3, <<n, m>> \in E PROVE n \in B3
  <2>1. CASE m.type = "agent"
    BY <1>2, <1>3, <1>4, <1>9, <2>1
  <2>2. CASE m.type \in {"router", "subagent", "memory"}
    BY <1>2, <1>7, <1>9, <2>2
  <2>3. CASE m.type \in {"guardrail"} \cup CapabilityTypes
    BY <1>2, <1>8, <1>9, <2>3
  <2>4. m.type # "output"
    <3>1. ASSUME m.type = "output" PROVE FALSE
      <4>1. m \notin B0
        BY <1>3, <1>5, <3>1
      <4>2. PICK k : <<m, k>> \in E
        BY <1>2, <4>1
      <4> QED BY <1>4, <3>1, <4>2, AllowedFrom
    <3> QED BY <3>1
  <2>5. m.type \in Types \ {"input", "data_source"}
    BY <1>4, <1>9, AllowedFrom
  <2> QED BY <2>1, <2>2, <2>3, <2>4, <2>5
      DEF Types, CapabilityTypes, Singletons, AtMostOne
<1> QED BY <1>1, <1>5, <1>6, <1>9

-----------------------------------------------------------------------------
(* Errors.                                                                 *)

\* The types of which there is a node for each of what they refer to.
OneEach == CapabilityTypes \cup {"subagent"}

\* The errors, code by code.
LEMMA ErrorIs ==
  ASSUME NEW g \in Graphs, NEW i
  PROVE  i \in Errors(g) <=>
           \/ \E e \in g.edges : ~Ok(e) /\ i = OfEdge("illegal", e)
           \/ \E t \in Singletons : Of(g, t) = {} /\ i = OfType("missing", t)
           \/ \E t \in Singletons \cup AtMostOne :
                (\E x, y \in Of(g, t) : x # y) /\ i = OfType("duplicate", t)
           \/ \E n \in g.nodes :
                n.type \in OneEach /\ n # First(Alike(g, n)) /\ i = OfNode("again", n)
<1>1. g.edges \ Legal(g) = {e \in g.edges : ~Ok(e)}
  BY LegalIs
<1>2. \A t : Cardinality(Of(g, t)) > 1 <=> \E x, y \in Of(g, t) : x # y
  BY OfIs, TwoAreMany
<1> DEFINE A == {OfEdge("illegal", e) : e \in g.edges \ Legal(g)}
           B == {OfType("missing", t) : t \in {t \in Singletons : Of(g, t) = {}}}
           C == {OfType("duplicate", t) : t \in {t \in Singletons \cup AtMostOne :
                                                   Cardinality(Of(g, t)) > 1}}
           D == {OfNode("again", n) : n \in {n \in g.nodes :
                    n.type \in CapabilityTypes \cup {"subagent"} /\ n # First(Alike(g, n))}}
<1>3. i \in A <=> \E e \in g.edges : ~Ok(e) /\ i = OfEdge("illegal", e)
  BY <1>1
<1>4. i \in B <=> \E t \in Singletons : Of(g, t) = {} /\ i = OfType("missing", t)
  BY Zenon
<1>5. i \in C <=> \E t \in Singletons \cup AtMostOne :
                    (\E x, y \in Of(g, t) : x # y) /\ i = OfType("duplicate", t)
  <2> DEFINE many(t) == Cardinality(Of(g, t)) > 1
  <2>1. \A t : many(t) <=> \E x, y \in Of(g, t) : x # y
    BY <1>2
  <2>2. C = {OfType("duplicate", t) : t \in {t \in Singletons \cup AtMostOne : many(t)}}
    OBVIOUS
  <2> HIDE DEF many, C
  <2> QED BY <2>1, <2>2, Zenon
<1>6. i \in D <=> \E n \in g.nodes :
        n.type \in OneEach /\ n # First(Alike(g, n)) /\ i = OfNode("again", n)
  BY Zenon DEF OneEach
<1>7. Errors(g) = A \cup B \cup C \cup D
  BY DEF Errors
<1> HIDE DEF A, B, C, D
<1> QED BY <1>3, <1>4, <1>5, <1>6, <1>7

\* No error, code by code.
LEMMA ValidIs ==
  ASSUME NEW g \in Graphs
  PROVE  Valid(g) <=>
           /\ \A e \in g.edges : Ok(e)
           /\ \A t \in Singletons : Of(g, t) # {}
           /\ \A t \in Singletons \cup AtMostOne : \A x, y \in Of(g, t) : x = y
           /\ \A n \in g.nodes : n.type \in OneEach => n = First(Alike(g, n))
<1>1. Valid(g) <=> \A i : i \notin Errors(g)
  BY DEF Valid
<1> QED BY <1>1, ErrorIs, Zenon

\* In a valid graph a node stands for what it is and refers to.
LEMMA ValidAlike ==
  ASSUME NEW g \in Graphs, Valid(g), NEW n \in g.nodes, NEW m \in g.nodes,
         n.type = m.type, n.ref = m.ref, n.type # "data_source"
  PROVE  n = m
<1>1. CASE n.type \in OneEach
  <2>1. Alike(g, n) = Alike(g, m)
    BY DEF Alike
  <2> QED BY <1>1, <2>1, ValidIs
<1>2. CASE n.type \in Singletons \cup AtMostOne
  <2>1. n \in Of(g, n.type) /\ m \in Of(g, n.type)
    BY DEF Of
  <2> QED BY <1>2, <2>1, ValidIs
<1>3. n.type \in Types
  BY GraphIs, NodeIs
<1> QED BY <1>1, <1>2, <1>3 DEF Types, OneEach

\* What keeps a change of the graph from adding an error.
LEMMA ErrorsShrink ==
  ASSUME NEW g \in Graphs, NEW h \in Graphs,
         \A e \in h.edges : e \in g.edges \/ Ok(e),
         \A t \in Singletons : Of(h, t) = {} => Of(g, t) = {},
         \A t \in Singletons \cup AtMostOne :
           Of(h, t) \subseteq Of(g, t) \/ \A x, y \in Of(h, t) : x = y,
         \A n \in h.nodes : n.type \in OneEach => n \in g.nodes
  PROVE  Errors(h) \subseteq Errors(g)
<1> SUFFICES ASSUME NEW i \in Errors(h) PROVE i \in Errors(g)
  OBVIOUS
<1>1. CASE \E e \in h.edges : ~Ok(e) /\ i = OfEdge("illegal", e)
  BY <1>1, ErrorIs
<1>2. CASE \E t \in Singletons : Of(h, t) = {} /\ i = OfType("missing", t)
  BY <1>2, ErrorIs
<1>3. CASE \E t \in Singletons \cup AtMostOne :
             (\E x, y \in Of(h, t) : x # y) /\ i = OfType("duplicate", t)
  BY <1>3, ErrorIs
<1>4. CASE \E n \in h.nodes :
             n.type \in OneEach /\ n # First(Alike(h, n)) /\ i = OfNode("again", n)
  <2>1. PICK n \in h.nodes :
             n.type \in OneEach /\ n # First(Alike(h, n)) /\ i = OfNode("again", n)
    BY <1>4
  <2> DEFINE f == First(Alike(h, n))
  <2>2. f \in Alike(h, n) /\ f \in Nodes /\ n \in Nodes /\ f.copy <= n.copy
    BY AlikeIs
  <2>3. f \in h.nodes /\ f.type = n.type /\ f.ref = n.ref
    BY <2>2 DEF Alike
  <2>4. n \in g.nodes /\ f \in g.nodes /\ f \in Alike(g, n)
    BY <2>1, <2>3 DEF Alike
  <2>5. ASSUME n = First(Alike(g, n)) PROVE FALSE
    <3>1. n.copy <= f.copy
      BY <2>4, <2>5, AlikeIs
    <3>2. n.copy \in Nat /\ f.copy \in Nat
      BY <2>2, NodeIs
    <3>3. n.copy = f.copy
      BY <2>2, <3>1, <3>2
    <3> HIDE DEF f
    <3>4. f = n
      BY <2>2, <2>3, <3>3, SameNode
    <3> QED BY <2>1, <3>4 DEF f
  <2> QED BY <2>1, <2>4, <2>5, ErrorIs
<1>5. \/ \E e \in h.edges : ~Ok(e) /\ i = OfEdge("illegal", e)
      \/ \E t \in Singletons : Of(h, t) = {} /\ i = OfType("missing", t)
      \/ \E t \in Singletons \cup AtMostOne :
           (\E x, y \in Of(h, t) : x # y) /\ i = OfType("duplicate", t)
      \/ \E n \in h.nodes :
           n.type \in OneEach /\ n # First(Alike(h, n)) /\ i = OfNode("again", n)
  BY ErrorIs
<1> QED BY <1>1, <1>2, <1>3, <1>4, <1>5

-----------------------------------------------------------------------------
(* Warnings, and what a valid graph compiles to.                           *)

\* The warnings, code by code.
LEMMA WarningIs ==
  ASSUME NEW g \in Graphs, NEW i
  PROVE  LET wired == Reaching(g, Legal(g))
         IN i \in Warnings(g) <=>
              \/ \E t \in Defaulted : Of(g, t) = {} /\ i = OfType("defaults", t)
              \/ /\ Valid(g)
                 /\ \/ \E n \in g.nodes : /\ n.type \in Ignorable \cup CapabilityTypes
                                          /\ n \notin wired /\ i = OfNode("orphan", n)
                    \/ \E n \in Of(g, "subagent") :
                         n \in wired /\ ~HasNeeds(g, n) /\ i = OfNode("inert", n)
                    \/ \E n \in Of(g, "data_source") :
                         /\ Outgoers(g, n) \cap Of(g, "knowledge_base") = {}
                         /\ i = OfNode("unconnected", n)
                    \/ \E n \in Of(g, "input") :
                         n \notin wired /\ i = OfNode("input_not_wired", n)
                    \/ \E n \in Of(g, "output") :
                         /\ Incomers(g, n) \cap Of(g, "agent") = {}
                         /\ i = OfNode("output_not_wired", n)
<1> DEFINE wired == Reaching(g, Legal(g))
           unwired(type) == {n \in Of(g, type) : n \notin wired}
           A == {OfType("defaults", t) : t \in {t \in Defaulted : Of(g, t) = {}}}
           orphans(t) == {OfNode("orphan", n) : n \in unwired(t)}
           B == UNION {orphans(t) : t \in Ignorable \cup CapabilityTypes}
           C == {OfNode("inert", n) : n \in {n \in Of(g, "subagent") \cap wired :
                                               ~HasNeeds(g, n)}}
           D == {OfNode("unconnected", n) : n \in {n \in Of(g, "data_source") :
                         Outgoers(g, n) \cap Of(g, "knowledge_base") = {}}}
           E == {OfNode("input_not_wired", n) : n \in unwired("input")}
           F == {OfNode("output_not_wired", n) : n \in {n \in Of(g, "output") :
                         Incomers(g, n) \cap Of(g, "agent") = {}}}
<1>1. Warnings(g) = A \cup (IF ~Valid(g) THEN {} ELSE B \cup C \cup D \cup E \cup F)
  BY DEF Warnings
<1>2. i \in A <=> \E t \in Defaulted : Of(g, t) = {} /\ i = OfType("defaults", t)
  BY Zenon
<1>3. i \in B <=> \E n \in g.nodes : /\ n.type \in Ignorable \cup CapabilityTypes
                                     /\ n \notin wired /\ i = OfNode("orphan", n)
  <2>1. \A n, t : n \in unwired(t) <=> n \in g.nodes /\ n.type = t /\ n \notin wired
    BY Zenon DEF Of
  <2>2. i \in B <=> \E t \in Ignorable \cup CapabilityTypes :
                      \E n \in unwired(t) : i = OfNode("orphan", n)
    <3>1. \A t : i \in orphans(t) <=> \E n \in unwired(t) : i = OfNode("orphan", n)
      BY Zenon
    <3> HIDE DEF orphans, unwired
    <3> QED BY <3>1
  <2> HIDE DEF unwired, wired, B
  <2>3. ASSUME NEW n \in g.nodes, n.type \in Ignorable \cup CapabilityTypes, n \notin wired,
               i = OfNode("orphan", n)
        PROVE  i \in B
    <3>1. n \in unwired(n.type)
      BY <2>1, <2>3
    <3> QED BY <2>2, <2>3, <3>1
  <2>4. ASSUME i \in B
        PROVE  \E n \in g.nodes : /\ n.type \in Ignorable \cup CapabilityTypes
                                  /\ n \notin wired /\ i = OfNode("orphan", n)
    BY <2>1, <2>2, <2>4
  <2> QED BY <2>3, <2>4
<1>4. i \in C <=> \E n \in Of(g, "subagent") :
                    n \in wired /\ ~HasNeeds(g, n) /\ i = OfNode("inert", n)
  BY Zenon
<1>5. i \in D <=> \E n \in Of(g, "data_source") :
                    /\ Outgoers(g, n) \cap Of(g, "knowledge_base") = {}
                    /\ i = OfNode("unconnected", n)
  BY Zenon
<1>6. i \in E <=> \E n \in Of(g, "input") :
                    n \notin wired /\ i = OfNode("input_not_wired", n)
  BY Zenon
<1>7. i \in F <=> \E n \in Of(g, "output") :
                    /\ Incomers(g, n) \cap Of(g, "agent") = {}
                    /\ i = OfNode("output_not_wired", n)
  BY Zenon
<1> HIDE DEF A, B, C, D, E, F, wired
<1>8. i \in Warnings(g) <=> i \in A \/ (Valid(g) /\ (i \in B \/ i \in C \/ i \in D \/ i \in E \/ i \in F))
  BY <1>1
<1> QED BY <1>2, <1>3, <1>4, <1>5, <1>6, <1>7, <1>8 DEF wired

\* The one node of a type that has one.
LEMMA OnlyOneIs ==
  ASSUME NEW g \in Graphs, NEW t, Of(g, t) # {}
  PROVE  /\ OnlyOne(g, t) \in Of(g, t) /\ OnlyOne(g, t) \in g.nodes /\ OnlyOne(g, t).type = t
         /\ (\A x, y \in Of(g, t) : x = y) => Of(g, t) = {OnlyOne(g, t)}
<1>1. OnlyOne(g, t) \in Of(g, t)
  BY OfIs, FirstIs DEF OnlyOne
<1> QED BY <1>1 DEF Of

\* The edges of a valid graph, and who reaches its agent by them.
LEMMA ValidWires ==
  ASSUME NEW g \in Graphs, Valid(g)
  PROVE  LET agent == OnlyOne(g, "agent")
             wired == Reaching(g, g.edges)
         IN /\ Of(g, "agent") = {agent} /\ agent \in g.nodes /\ agent.type = "agent"
            /\ Legal(g) = g.edges
            /\ wired \subseteq g.nodes /\ agent \in wired
            /\ \A n \in g.nodes : n # agent =>
                 (n \in wired <=> \E m \in wired : <<n, m>> \in g.edges)
            /\ \A n, m : <<n, m>> \in g.edges =>
                 n \in g.nodes /\ m \in g.nodes /\ <<n.type, m.type>> \in AllowedEdges
<1> DEFINE agent == OnlyOne(g, "agent")
           wired == Reaching(g, g.edges)
<1>1. /\ \A e \in g.edges : Ok(e)
      /\ Of(g, "agent") # {} /\ \A x, y \in Of(g, "agent") : x = y
  BY ValidIs DEF Singletons
<1>2. Of(g, "agent") = {agent} /\ agent \in g.nodes /\ agent.type = "agent"
  BY <1>1, OnlyOneIs
<1>3. Legal(g) = g.edges
  BY <1>1, LegalIs
<1>4. \A n, m : <<n, m>> \in g.edges =>
        n \in g.nodes /\ m \in g.nodes /\ <<n.type, m.type>> \in AllowedEdges
  BY <1>1, GraphIs DEF Ok
<1>5. /\ wired \subseteq g.nodes /\ Of(g, "agent") \subseteq wired
      /\ \A n \in g.nodes \ Of(g, "agent") :
           n \in wired <=> \E m \in wired : <<n, m>> \in g.edges
  <2>1. g.edges \in SUBSET g.edges
    OBVIOUS
  <2> QED BY <1>1, <2>1, ReachingIs
<1> HIDE DEF agent, wired
<1> QED BY <1>2, <1>3, <1>4, <1>5 DEF agent, wired

\* Subagents that are wired are wired to the agent, and so is who has it for its own.
LEMMA SubsIs ==
  ASSUME NEW g \in Graphs, Valid(g)
  PROVE  LET agent == OnlyOne(g, "agent")
             wired == Reaching(g, g.edges)
         IN /\ SubsOf(g) = {n \in g.nodes : n.type = "subagent" /\ <<n, agent>> \in g.edges}
            /\ SubsOf(g) = Of(g, "subagent") \cap wired
            /\ \A n \in SubsOf(g) : n \in g.nodes /\ n.ref \in Roles
<1> DEFINE agent == OnlyOne(g, "agent")
           wired == Reaching(g, g.edges)
<1>1. \A n : Outgoers(g, n) \cap Of(g, "agent") # {} <=> <<n, agent>> \in g.edges
  BY ValidWires DEF Outgoers
<1>2. SubsOf(g) = {n \in g.nodes : n.type = "subagent" /\ <<n, agent>> \in g.edges}
  <2>1. \A n : n \in SubsOf(g) <=> n \in g.nodes /\ n.type = "subagent" /\ <<n, agent>> \in g.edges
    BY <1>1, Zenon DEF SubsOf, Of
  <2> QED BY <2>1, Zenon
<1>3. ASSUME NEW n \in g.nodes, n.type = "subagent"
      PROVE  n \in wired <=> <<n, agent>> \in g.edges
  <2>1. n # agent
    BY <1>3, ValidWires
  <2>2. ASSUME NEW m \in wired, <<n, m>> \in g.edges PROVE m = agent
    <3>1. m \in g.nodes /\ m.type = "agent"
      BY <1>3, <2>2, ValidWires, AllowedFrom
    <3>2. m \in Of(g, "agent")
      BY <3>1, OfIs
    <3> QED BY <3>2, ValidWires
  <2>3. agent \in wired /\ (n \in wired <=> \E m \in wired : <<n, m>> \in g.edges)
    BY <2>1, ValidWires
  <2> HIDE DEF agent, wired
  <2> QED BY <2>2, <2>3
<1>4. SubsOf(g) = Of(g, "subagent") \cap wired
  <2>1. \A n : n \in Of(g, "subagent") <=> n \in g.nodes /\ n.type = "subagent"
    BY Zenon DEF Of
  <2> HIDE DEF agent, wired
  <2> QED BY <1>2, <1>3, <2>1
<1>5. ASSUME NEW n \in g.nodes, n.type = "subagent" PROVE n.ref \in Roles
  <2>1. n.ref \in RefsOf("subagent")
    BY <1>5, GraphIs, NodeIs
  <2> QED BY <2>1 DEF RefsOf
<1> HIDE DEF agent, wired
<1> QED BY <1>2, <1>4, <1>5 DEF agent, wired

\* The main agent is not a subagent.
LEMMA NoRole == "agent" \notin Roles
BY ConstantsAssumption

\* Who may use a node, by its edges.
LEMMA ScopeIs ==
  ASSUME NEW g \in Graphs, Valid(g), NEW n
  PROVE  /\ ScopeOf(g, n) \subseteq {"agent"} \cup {m.ref : m \in SubsOf(g)}
         /\ ScopeOf(g, n) \subseteq {"agent"} \cup Roles
         /\ "agent" \in ScopeOf(g, n) <=> <<n, OnlyOne(g, "agent")>> \in g.edges
         /\ \A r \in Roles : r \in ScopeOf(g, n) <=>
              \E m \in SubsOf(g) : m.ref = r /\ <<n, m>> \in g.edges
<1> DEFINE agent == OnlyOne(g, "agent")
           subs == {m \in Outgoers(g, n) \cap Of(g, "subagent") :
                      Outgoers(g, m) \cap Of(g, "agent") # {}}
<1>1. subs = {m \in SubsOf(g) : <<n, m>> \in g.edges}
  BY Zenon DEF SubsOf, Outgoers, Of
<1>2. Outgoers(g, n) \cap Of(g, "agent") # {} <=> <<n, agent>> \in g.edges
  BY ValidWires DEF Outgoers
<1>3. ScopeOf(g, n) = {m.ref : m \in subs} \cup (IF <<n, agent>> \in g.edges THEN {"agent"} ELSE {})
  <2>1. ScopeOf(g, n) = {m.ref : m \in subs} \cup (IF Outgoers(g, n) \cap Of(g, "agent") = {}
                                                     THEN {} ELSE {"agent"})
    BY DEF ScopeOf
  <2> HIDE DEF subs, agent
  <2> QED BY <1>2, <2>1
<1>4. \A m \in SubsOf(g) : m.ref \in Roles
  BY SubsIs
<1> HIDE DEF subs, agent
<1> QED BY <1>1, <1>3, <1>4, NoRole DEF agent

\* A capability's scope is that of its one node, if it is on the canvas.
LEMMA CompiledScope ==
  ASSUME NEW g \in Graphs, Valid(g), NEW n \in g.nodes, n.type \in CapabilityTypes
  PROVE  /\ <<n.type, n.ref>> \in Capabilities
         /\ Compile(g).scope[<<n.type, n.ref>>] = ScopeOf(g, n)
<1> DEFINE k == <<n.type, n.ref>>
<1>1. k \in Capabilities
  <2>1. n.ref \in RefsOf(n.type)
    BY GraphIs, NodeIs
  <2> QED BY <2>1 DEF Capabilities
<1>2. {m \in g.nodes : <<m.type, m.ref>> = k} = {n}
  <2>1. ASSUME NEW m \in g.nodes, <<m.type, m.ref>> = k PROVE m = n
    <3>1. m.type = n.type /\ m.ref = n.ref /\ n.type # "data_source"
      BY <2>1 DEF CapabilityTypes
    <3> QED BY <3>1, ValidAlike
  <2> QED BY <2>1
<1>3. Compile(g).scope[k] = UNION {ScopeOf(g, m) : m \in {m \in g.nodes : <<m.type, m.ref>> = k}}
  BY <1>1 DEF Compile
<1> HIDE DEF k
<1> QED BY <1>1, <1>2, <1>3 DEF k

\* What is not drawn is for nobody.
LEMMA UncompiledScope ==
  ASSUME NEW g, NEW k \in Capabilities, \A n \in g.nodes : <<n.type, n.ref>> # k
  PROVE  Compile(g).scope[k] = {}
<1>1. {m \in g.nodes : <<m.type, m.ref>> = k} = {}
  OBVIOUS
<1>2. Compile(g).scope[k] = UNION {ScopeOf(g, m) : m \in {m \in g.nodes : <<m.type, m.ref>> = k}}
  BY DEF Compile
<1> QED BY <1>1, <1>2

\* A capability node reaches the agent if and only if someone may use it.
LEMMA WiredScope ==
  ASSUME NEW g \in Graphs, Valid(g), NEW n \in g.nodes, n.type \in CapabilityTypes
  PROVE  n \in Reaching(g, g.edges) <=> ScopeOf(g, n) # {}
<1> DEFINE agent == OnlyOne(g, "agent")
           wired == Reaching(g, g.edges)
<1>1. n # agent
  BY ValidWires DEF CapabilityTypes
<1>2. ASSUME NEW m \in wired, <<n, m>> \in g.edges PROVE m = agent \/ m \in SubsOf(g)
  <2>1. m \in g.nodes /\ m.type \in {"agent", "subagent"}
    BY <1>2, ValidWires, AllowedFrom
  <2>2. m.type = "agent" => m \in Of(g, "agent")
    BY <2>1 DEF Of
  <2>3. m.type = "subagent" => m \in Of(g, "subagent")
    BY <2>1 DEF Of
  <2> QED BY <1>2, <2>1, <2>2, <2>3, ValidWires, SubsIs
<1>3. agent \in wired /\ SubsOf(g) \subseteq wired
  BY ValidWires, SubsIs
<1>4. n \in wired <=> \E m \in wired : <<n, m>> \in g.edges
  BY <1>1, ValidWires
<1>5. \A m \in SubsOf(g) : m.ref \in Roles
  BY SubsIs
<1>6. ScopeOf(g, n) # {} <=> <<n, agent>> \in g.edges \/ \E m \in SubsOf(g) : <<n, m>> \in g.edges
  BY <1>5, ScopeIs
<1> HIDE DEF agent, wired
<1> QED BY <1>2, <1>3, <1>4, <1>6 DEF wired

-----------------------------------------------------------------------------
(* Nothing drawn is ignored.                                               *)

\* What nobody is warned of is wired.
LEMMA Unwarned ==
  ASSUME NEW g \in Graphs, Valid(g), Warnings(g) = {}
  PROVE  LET wired == Reaching(g, g.edges)
         IN /\ \A n \in g.nodes : n.type \in Ignorable \cup CapabilityTypes => n \in wired
            /\ \A n \in g.nodes : n.type = "subagent" => HasNeeds(g, n)
            /\ \A n \in g.nodes : n.type = "data_source" =>
                 \E b \in g.nodes : b.type = "knowledge_base" /\ <<n, b>> \in g.edges
<1> DEFINE wired == Reaching(g, g.edges)
<1>1. Legal(g) = g.edges
  BY ValidWires
<1>2. \A i : i \notin Warnings(g)
  OBVIOUS
<1>3. ASSUME NEW n \in g.nodes, n.type \in Ignorable \cup CapabilityTypes PROVE n \in wired
  <2>1. OfNode("orphan", n) \notin Warnings(g)
    BY <1>2
  <2> QED BY <1>1, <1>3, <2>1, WarningIs
<1>4. ASSUME NEW n \in g.nodes, n.type = "subagent" PROVE HasNeeds(g, n)
  <2>1. n \in Of(g, "subagent") /\ n \in wired
    BY <1>3, <1>4 DEF Of, Ignorable
  <2>2. OfNode("inert", n) \notin Warnings(g)
    BY <1>2
  <2> QED BY <1>1, <2>1, <2>2, WarningIs
<1>5. ASSUME NEW n \in g.nodes, n.type = "data_source"
      PROVE  \E b \in g.nodes : b.type = "knowledge_base" /\ <<n, b>> \in g.edges
  <2>1. n \in Of(g, "data_source")
    BY <1>5 DEF Of
  <2>2. OfNode("unconnected", n) \notin Warnings(g)
    BY <1>2
  <2>3. Outgoers(g, n) \cap Of(g, "knowledge_base") # {}
    BY <2>1, <2>2, WarningIs
  <2> QED BY <2>3 DEF Outgoers, Of
<1> QED BY <1>3, <1>4, <1>5

\* The parts of a config but for the scopes.
LEMMA CompiledParts ==
  ASSUME NEW g \in Graphs, Valid(g)
  PROVE  LET wired == Reaching(g, g.edges)
         IN /\ \A t : t \in Compile(g).own <=>
                 \E n \in g.own : n.type = t /\ n \in wired
            /\ Compile(g).own \subseteq Defaulted
            /\ Compile(g).router <=> \E n \in g.nodes : n.type = "router" /\ n \in wired
            /\ Compile(g).router \in BOOLEAN
            /\ \A s : s \in Compile(g).sources <=>
                 \E n, b \in g.nodes : /\ n.type = "data_source" /\ n.ref = s
                                       /\ b.type = "knowledge_base" /\ b \in wired
                                       /\ <<n, b>> \in g.edges
            /\ Compile(g).subs = {n.ref : n \in SubsOf(g)}
<1> DEFINE wired == Reaching(g, g.edges)
           kb == {n \in Of(g, "knowledge_base") : ScopeOf(g, n) # {}}
           fed == UNION {Incomers(g, n) : n \in kb}
           own == {t \in Defaulted : Of(g, t) \cap wired \cap g.own # {}}
<1>1. /\ Compile(g).own = own
      /\ Compile(g).router = (Of(g, "router") \cap wired # {})
      /\ Compile(g).sources = {s.ref : s \in fed \cap Of(g, "data_source")}
      /\ Compile(g).subs = {n.ref : n \in SubsOf(g)}
  BY DEF Compile
<1>2. ASSUME NEW t
      PROVE  t \in own <=> \E n \in g.own : n.type = t /\ n \in wired
  <2>1. \A n \in g.own : n \in g.nodes /\ n.type \in Defaulted
    BY GraphIs
  <2> HIDE DEF wired
  <2> QED BY <2>1 DEF Of
<1>3. (Of(g, "router") \cap wired # {}) <=> \E n \in g.nodes : n.type = "router" /\ n \in wired
  <2> HIDE DEF wired
  <2> QED BY DEF Of
<1>4. \A b : b \in kb <=> b \in g.nodes /\ b.type = "knowledge_base" /\ b \in wired
  <2>1. \A b : b \in Of(g, "knowledge_base") <=> b \in g.nodes /\ b.type = "knowledge_base"
    BY Zenon DEF Of
  <2>2. \A b \in g.nodes : b.type = "knowledge_base" => (b \in wired <=> ScopeOf(g, b) # {})
    BY WiredScope DEF CapabilityTypes
  <2> HIDE DEF wired
  <2> QED BY <2>1, <2>2
<1>5. \A n : n \in fed <=> \E b \in kb : n \in g.nodes /\ <<n, b>> \in g.edges
  <2>1. \A n : n \in fed <=> \E b \in kb : n \in Incomers(g, b)
    <3> HIDE DEF kb
    <3> QED OBVIOUS
  <2>2. \A n, b : n \in Incomers(g, b) <=> n \in g.nodes /\ <<n, b>> \in g.edges
    BY Zenon DEF Incomers
  <2> HIDE DEF kb, fed
  <2> QED BY <2>1, <2>2
<1> HIDE DEF wired, kb, fed, own
<1>6. ASSUME NEW s
      PROVE  s \in Compile(g).sources <=>
                 \E n, b \in g.nodes : /\ n.type = "data_source" /\ n.ref = s
                                       /\ b.type = "knowledge_base" /\ b \in wired
                                       /\ <<n, b>> \in g.edges
  <2>1. s \in Compile(g).sources <=> \E n \in fed : n \in Of(g, "data_source") /\ s = n.ref
    BY <1>1
  <2>2. \A n : n \in Of(g, "data_source") <=> n \in g.nodes /\ n.type = "data_source"
    BY Zenon DEF Of
  <2> QED BY <1>4, <1>5, <2>1, <2>2
<1>7. own \subseteq Defaulted
  BY DEF own
<1> QED BY <1>1, <1>2, <1>3, <1>6, <1>7 DEF wired

\* A subagent that has what it needs has an edge from it, or the main agent has.
LEMMA NeedsIs ==
  ASSUME NEW g \in Graphs, Valid(g), NEW n \in g.nodes, n.type = "subagent", HasNeeds(g, n)
  PROVE  \E k \in g.nodes : /\ <<k.type, k.ref>> \in Needed(n.ref) /\ k.type \in CapabilityTypes
                            /\ \/ <<k, OnlyOne(g, "agent")>> \in g.edges
                               \/ <<k, n>> \in g.edges
<1>1. n.ref \in {"retrieval", "sql", "research"}
  BY GraphIs, NodeIs, ConstantsAssumption DEF RefsOf
<1>2. PICK k \in g.nodes : <<k.type, k.ref>> \in Needed(n.ref) /\ Usable(g, n, k)
  BY DEF HasNeeds
<1>3. k.type \in CapabilityTypes
  BY <1>1, <1>2 DEF Needed, KnowledgeBase, CapabilityTypes
<1>4. <<k, OnlyOne(g, "agent")>> \in g.edges \/ <<k, n>> \in g.edges
  BY <1>2, ValidWires DEF Usable, Outgoers
<1> QED BY <1>2, <1>3, <1>4

\* What NothingIgnored says of any graph.
LEMMA Unignored ==
  ASSUME NEW g \in Graphs, Valid(g), Warnings(g) = {}
  PROVE  LET c == Compile(g)
         IN /\ On(c)
                 = {<<n.type, n.ref>> : n \in UNION {Of(g, t) : t \in CapabilityTypes}}
            /\ c.sources = {n.ref : n \in Of(g, "data_source")}
            /\ c.subs = {n.ref : n \in Of(g, "subagent")}
            /\ c.router <=> Of(g, "router") # {}
            /\ c.own = {n.type : n \in g.own}
            /\ \A r \in c.subs :
                 \E k \in Needed(r) \cap Capabilities : c.scope[k] \cap {"agent", r} # {}
<1> DEFINE wired == Reaching(g, g.edges)
           agent == OnlyOne(g, "agent")
           c == Compile(g)
           caps == UNION {Of(g, t) : t \in CapabilityTypes}
<1>1. /\ \A n \in g.nodes : n.type \in Ignorable \cup CapabilityTypes => n \in wired
      /\ \A n \in g.nodes : n.type = "subagent" => HasNeeds(g, n)
      /\ \A n \in g.nodes : n.type = "data_source" =>
           \E b \in g.nodes : b.type = "knowledge_base" /\ <<n, b>> \in g.edges
  BY Unwarned
<1>2. \A n : n \in caps <=> n \in g.nodes /\ n.type \in CapabilityTypes
  <2>1. \A n, t : n \in Of(g, t) <=> n \in g.nodes /\ n.type = t
    BY Zenon DEF Of
  <2> QED BY <2>1
<1>3. \A t : {n.type : n \in Of(g, t)} \subseteq {t}
  BY DEF Of
<1> HIDE DEF wired, agent, c, caps
<1>4. On(c) = {<<n.type, n.ref>> : n \in caps}
  <2>1. ASSUME NEW k \in Capabilities, c.scope[k] # {}
        PROVE  \E n \in caps : k = <<n.type, n.ref>>
    <3>1. PICK n \in g.nodes : <<n.type, n.ref>> = k
      BY <2>1, UncompiledScope DEF c
    <3>2. n.type \in CapabilityTypes
      BY <3>1 DEF Capabilities
    <3> QED BY <1>2, <3>1, <3>2
  <2>2. ASSUME NEW n \in caps
        PROVE  <<n.type, n.ref>> \in Capabilities /\ c.scope[<<n.type, n.ref>>] # {}
    <3>1. n \in g.nodes /\ n.type \in CapabilityTypes /\ n \in wired
      BY <1>1, <1>2
    <3> QED BY <3>1, CompiledScope, WiredScope DEF c, wired
  <2> QED BY <2>1, <2>2 DEF On
<1>5. c.sources = {n.ref : n \in Of(g, "data_source")}
  <2>1. ASSUME NEW s \in c.sources PROVE s \in {n.ref : n \in Of(g, "data_source")}
    <3>1. PICK n \in g.nodes : n.type = "data_source" /\ n.ref = s
      <4>1. s \in Compile(g).sources
        BY <2>1 DEF c
      <4>2. \E n, b \in g.nodes : /\ n.type = "data_source" /\ n.ref = s
                                 /\ b.type = "knowledge_base"
                                 /\ b \in Reaching(g, g.edges) /\ <<n, b>> \in g.edges
        BY <4>1, CompiledParts, Zenon
      <4> QED BY <4>2
    <3>2. n \in Of(g, "data_source")
      BY <3>1 DEF Of
    <3> QED BY <3>1, <3>2
  <2>2. ASSUME NEW n \in Of(g, "data_source") PROVE n.ref \in c.sources
    <3>1. n \in g.nodes /\ n.type = "data_source"
      BY <2>2 DEF Of
    <3>2. PICK b \in g.nodes : b.type = "knowledge_base" /\ <<n, b>> \in g.edges
      BY <1>1, <3>1
    <3>3. b \in wired
      BY <1>1, <3>2 DEF CapabilityTypes
    <3> QED BY <3>1, <3>2, <3>3, CompiledParts DEF c, wired
  <2> QED BY <2>1, <2>2
<1>6. SubsOf(g) = Of(g, "subagent")
  <2>1. Of(g, "subagent") \subseteq wired
    BY <1>1 DEF Ignorable, Of
  <2> QED BY <2>1, SubsIs DEF wired
<1>7. c.subs = {n.ref : n \in Of(g, "subagent")}
  BY <1>6, CompiledParts DEF c
<1>8. c.router <=> Of(g, "router") # {}
  <2>1. c.router <=> \E n \in g.nodes : n.type = "router" /\ n \in wired
    BY CompiledParts DEF c, wired
  <2>2. \A n \in g.nodes : n.type = "router" => n \in wired
    BY <1>1 DEF Ignorable, AtMostOne
  <2>3. Of(g, "router") # {} <=> \E n \in g.nodes : n.type = "router"
    BY DEF Of
  <2> QED BY <2>1, <2>2, <2>3, Zenon
<1>9. c.own = {n.type : n \in g.own}
  <2>1. \A n \in g.own : n \in wired
    BY <1>1, GraphIs DEF Defaulted, Ignorable, AtMostOne
  <2>2. \A t : t \in c.own <=> \E n \in g.own : n.type = t
    BY <2>1, CompiledParts DEF c, wired
  <2> QED BY <2>2
<1>10. ASSUME NEW r \in c.subs
       PROVE  \E k \in Needed(r) \cap Capabilities : c.scope[k] \cap {"agent", r} # {}
  <2>1. PICK n \in Of(g, "subagent") : n.ref = r
    BY <1>7, <1>10
  <2>2. n \in g.nodes /\ n.type = "subagent" /\ HasNeeds(g, n)
    BY <1>1, <2>1 DEF Of
  <2>3. PICK k \in g.nodes : /\ <<k.type, k.ref>> \in Needed(r) /\ k.type \in CapabilityTypes
                             /\ <<k, agent>> \in g.edges \/ <<k, n>> \in g.edges
    BY <2>1, <2>2, NeedsIs DEF agent
  <2>4. <<k.type, k.ref>> \in Capabilities /\ c.scope[<<k.type, k.ref>>] = ScopeOf(g, k)
    BY <2>3, CompiledScope DEF c
  <2>5. n \in SubsOf(g) /\ r \in Roles
    BY <1>6, <2>1, SubsIs
  <2>6. "agent" \in ScopeOf(g, k) \/ r \in ScopeOf(g, k)
    BY <2>1, <2>3, <2>5, ScopeIs DEF agent
  <2> QED BY <2>3, <2>4, <2>6
<1> QED BY <1>4, <1>5, <1>7, <1>8, <1>9, <1>10 DEF c, caps

-----------------------------------------------------------------------------
(* Configs.                                                                *)

\* The parts of a config.
LEMMA BodyIs ==
  ASSUME NEW c \in Bodies
  PROVE  /\ c = [own |-> c.own, router |-> c.router, scope |-> c.scope,
                 sources |-> c.sources, subs |-> c.subs]
         /\ c.own \subseteq Defaulted /\ c.router \in BOOLEAN
         /\ c.scope = [k \in Capabilities |-> c.scope[k]]
         /\ \A k \in Capabilities : c.scope[k] \subseteq {"agent"} \cup Roles
         /\ c.sources \subseteq Sources /\ c.subs \subseteq Roles
         /\ IsFiniteSet(On(c)) /\ IsFiniteSet(c.sources)
BY DEF Bodies

\* What makes a config.
LEMMA NewBody ==
  ASSUME NEW own \in SUBSET Defaulted, NEW router \in BOOLEAN,
         NEW scope \in [Capabilities -> SUBSET ({"agent"} \cup Roles)],
         NEW sources \in SUBSET Sources, NEW subs \in SUBSET Roles,
         IsFiniteSet({k \in Capabilities : scope[k] # {}}), IsFiniteSet(sources)
  PROVE  [own |-> own, router |-> router, scope |-> scope, sources |-> sources,
          subs |-> subs] \in Bodies
BY DEF Bodies, On

\* In what is kept, capabilities are for who is on.
LEMMA ConfigIs ==
  ASSUME NEW c \in Configs
  PROVE  c \in Bodies /\ \A k \in Capabilities : c.scope[k] \subseteq c.subs \cup {"agent"}
BY DEF Configs

\* The config without the settings of what is off.
LEMMA InUseIs ==
  ASSUME NEW c \in Bodies
  PROVE  /\ InUse(c) = [own |-> c.own, router |-> c.router, scope |-> c.scope,
                        sources |-> InUse(c).sources, subs |-> c.subs]
         /\ InUse(c).sources = IF c.scope[KnowledgeBase] = {} THEN {} ELSE c.sources
         /\ InUse(c).sources \subseteq c.sources /\ IsFiniteSet(InUse(c).sources)
         /\ InUse(c).sources = c.sources => InUse(c) = c
<1> DEFINE used == IF c.scope[KnowledgeBase] = {} THEN {} ELSE c.sources
<1>1. InUse(c) = [own |-> c.own, router |-> c.router, scope |-> c.scope,
                  sources |-> used, subs |-> c.subs]
  <2>1. InUse(c) = [c EXCEPT !.sources = used]
    BY Zenon DEF InUse
  <2> HIDE DEF used
  <2> QED BY <2>1 DEF Bodies
<1>2. InUse(c).sources = IF c.scope[KnowledgeBase] = {} THEN {} ELSE c.sources
  BY <1>1
<1>3. InUse(c).sources \subseteq c.sources /\ IsFiniteSet(InUse(c).sources)
  BY <1>2, BodyIs, FS_Subset
<1> QED BY <1>1, <1>2, <1>3, BodyIs

\* There is one knowledge base.
LEMMA KnowledgeBaseIs ==
  /\ KnowledgeBase \in Capabilities /\ KnowledgeBase = <<"knowledge_base", None>>
  /\ RefsOf("knowledge_base") = {None}
<1>1. RefsOf("knowledge_base") = {None}
  BY DEF RefsOf
<1> QED BY <1>1 DEF KnowledgeBase, Capabilities, CapabilityTypes

\* What a valid graph compiles to is a config, without settings of what is off.
LEMMA CompiledConfig ==
  ASSUME NEW g \in Graphs, Valid(g)
  PROVE  Compile(g) \in Configs /\ InUse(Compile(g)) = Compile(g)
<1> DEFINE c == Compile(g)
           scope == [k \in Capabilities |->
                   UNION {ScopeOf(g, n) : n \in {n \in g.nodes : <<n.type, n.ref>> = k}}]
           wired == Reaching(g, g.edges)
<1>1. c = [own |-> c.own, router |-> c.router, scope |-> c.scope, sources |-> c.sources,
           subs |-> c.subs] /\ c.scope = scope
  BY DEF Compile
<1> HIDE DEF c
<1>2. c.own \in SUBSET Defaulted /\ c.router \in BOOLEAN
  BY CompiledParts DEF c
<1>3. c.subs = {n.ref : n \in SubsOf(g)} /\ c.subs \in SUBSET Roles
  BY CompiledParts, SubsIs DEF c
<1>4. \A n \in g.nodes : ScopeOf(g, n) \subseteq {"agent"} \cup c.subs
  BY <1>3, ScopeIs
<1>5. \A k \in Capabilities : scope[k] \subseteq {"agent"} \cup c.subs
  BY <1>4
<1>6. scope \in [Capabilities -> SUBSET ({"agent"} \cup Roles)]
  <2>1. \A k \in Capabilities : scope[k] \in SUBSET ({"agent"} \cup Roles)
    BY <1>3, <1>5
  <2> HIDE DEF scope
  <2> QED BY <1>1, <2>1 DEF scope
<1>7. IsFiniteSet({k \in Capabilities : scope[k] # {}})
  <2> DEFINE ids == {<<n.type, n.ref>> : n \in g.nodes}
  <2>1. IsFiniteSet(ids)
    <3> DEFINE f == [n \in g.nodes |-> <<n.type, n.ref>>]
    <3>1. ids = {f[n] : n \in g.nodes}
      OBVIOUS
    <3>2. IsFiniteSet({f[n] : n \in g.nodes})
      BY GraphIs, FiniteImage
    <3> QED BY <3>1, <3>2
  <2>2. {k \in Capabilities : scope[k] # {}} \subseteq ids
    OBVIOUS
  <2> HIDE DEF ids, scope
  <2> QED BY <2>1, <2>2, FS_Subset
<1> HIDE DEF scope
<1>8. ASSUME NEW s \in c.sources
      PROVE  \E n, b \in g.nodes : /\ n.type = "data_source" /\ n.ref = s
                                   /\ b.type = "knowledge_base" /\ b \in wired
                                   /\ <<n, b>> \in g.edges
  <2>1. s \in Compile(g).sources
    BY <1>8 DEF c
  <2> QED BY <2>1, CompiledParts, Zenon
<1>9. c.sources \in SUBSET Sources
  <2>1. \A n \in g.nodes : n.type = "data_source" => n.ref \in Sources
    BY GraphIs, NodeIs DEF RefsOf
  <2>2. ASSUME NEW s \in c.sources PROVE s \in Sources
    <3>1. PICK n, b \in g.nodes : n.type = "data_source" /\ n.ref = s
      BY <1>8, Zenon
    <3> QED BY <2>1, <3>1
  <2> QED BY <2>2
<1>10. IsFiniteSet(c.sources)
  <2> DEFINE refs == {n.ref : n \in g.nodes}
  <2>1. IsFiniteSet(refs)
    <3> DEFINE f == [n \in g.nodes |-> n.ref]
    <3>1. refs = {f[n] : n \in g.nodes}
      OBVIOUS
    <3>2. IsFiniteSet({f[n] : n \in g.nodes})
      BY GraphIs, FiniteImage
    <3> QED BY <3>1, <3>2
  <2>2. c.sources \subseteq refs
    BY <1>8
  <2> HIDE DEF refs
  <2> QED BY <2>1, <2>2, FS_Subset
<1>11. c \in Configs
  <2>1. c \in Bodies
    BY <1>1, <1>2, <1>3, <1>6, <1>7, <1>9, <1>10, NewBody
  <2> QED BY <1>1, <1>5, <2>1 DEF Configs
<1>12. c.scope[KnowledgeBase] = {} => c.sources = {}
  <2>1. ASSUME NEW b \in g.nodes, b.type = "knowledge_base", b \in wired
        PROVE  c.scope[KnowledgeBase] # {}
    <3>1. b.ref = None
      BY <2>1, GraphIs, NodeIs, KnowledgeBaseIs
    <3>2. b.type \in CapabilityTypes
      BY <2>1 DEF CapabilityTypes
    <3>3. Compile(g).scope[<<b.type, b.ref>>] = ScopeOf(g, b)
      BY <3>2, CompiledScope
    <3>4. ScopeOf(g, b) # {}
      BY <2>1, <3>2, WiredScope
    <3> QED BY <2>1, <3>1, <3>3, <3>4, KnowledgeBaseIs DEF c
  <2> QED BY <1>8, <2>1
<1>13. InUse(c) = c
  BY <1>11, <1>12, ConfigIs, InUseIs
<1> QED BY <1>11, <1>13 DEF c

-----------------------------------------------------------------------------
(* The graph of a config.                                                  *)

\* The id of a node, there already or new.
LEMMA IdentIs ==
  ASSUME NEW g \in Graphs, NEW t \in Types, NEW r \in RefsOf(t)
  PROVE  /\ Ident(g, t, r) \in Nodes /\ Ident(g, t, r).type = t /\ Ident(g, t, r).ref = r
         /\ \A n \in g.nodes : n.type = t /\ n.ref = r => Ident(g, t, r) \in Alike(g, n)
<1> DEFINE there == Alike(g, Node(t, r))
<1>1. Node(t, r) \in Nodes /\ Node(t, r).type = t /\ Node(t, r).ref = r
  BY NewNode
<1>2. there \subseteq Nodes /\ \A n : n \in there <=> n \in g.nodes /\ n.type = t /\ n.ref = r
  BY <1>1, GraphIs DEF Alike
<1>3. Ident(g, t, r) = IF there = {} THEN Node(t, r) ELSE First(there)
  BY DEF Ident
<1>4. CASE there = {}
  BY <1>1, <1>2, <1>3, <1>4
<1>5. CASE there # {}
  <2>1. First(there) \in there
    BY <1>2, <1>5, FirstIs
  <2>2. Ident(g, t, r) = First(there)
    BY <1>3, <1>5
  <2>3. Ident(g, t, r) \in there
    BY <2>1, <2>2
  <2>4. ASSUME NEW n \in g.nodes, n.type = t, n.ref = r PROVE Alike(g, n) = there
    BY <1>1, <2>4 DEF Alike
  <2> HIDE DEF there
  <2> QED BY <1>2, <2>3, <2>4
<1> QED BY <1>4, <1>5

\* What a config has a node for: its type and what it refers to.
Keys(c) ==
  {<<t, None>> : t \in Singletons \cup Defaulted}
    \cup (IF c.router THEN {<<"router", None>>} ELSE {})
    \cup On(c) \cup {<<"subagent", r>> : r \in c.subs}
    \cup {<<"data_source", s>> : s \in InUse(c).sources}

\* Which of them are connected.
Drawn(c, n, m) ==
  \/ n.type = "input" /\ m.type = "guardrail"
  \/ n.type = "guardrail" /\ m.type = (IF c.router THEN "router" ELSE "agent")
  \/ n.type \in {"router", "memory", "subagent"} /\ m.type = "agent"
  \/ n.type = "agent" /\ m.type = "output"
  \/ n.type = "data_source" /\ m.type = "knowledge_base"
  \/ n.type \in CapabilityTypes /\ m.type = "agent" /\ "agent" \in c.scope[<<n.type, n.ref>>]
  \/ n.type \in CapabilityTypes /\ m.type = "subagent" /\ m.ref \in c.scope[<<n.type, n.ref>>]

\* A key is a type and something it refers to.
LEMMA KeyIs ==
  ASSUME NEW c \in Bodies, NEW k \in Keys(c)
  PROVE  k = <<k[1], k[2]>> /\ k[1] \in Types /\ k[2] \in RefsOf(k[1])
<1>1. CASE k \in {<<t, None>> : t \in Singletons \cup Defaulted \cup {"router"}}
  BY <1>1 DEF Types, Singletons, AtMostOne, Defaulted, RefsOf
<1>2. CASE k \in On(c)
  <2>1. PICK t \in CapabilityTypes : \E r \in RefsOf(t) : k = <<t, r>>
    BY <1>2 DEF On, Capabilities
  <2> QED BY <2>1 DEF Types
<1>3. CASE k \in {<<"subagent", r>> : r \in c.subs}
  <2>1. PICK r \in c.subs : k = <<"subagent", r>>
    BY <1>3
  <2>2. r \in Roles
    BY BodyIs
  <2> QED BY <2>1, <2>2 DEF Types, RefsOf
<1>4. CASE k \in {<<"data_source", s>> : s \in InUse(c).sources}
  <2>1. PICK s \in InUse(c).sources : k = <<"data_source", s>>
    BY <1>4
  <2>2. s \in Sources
    BY BodyIs, InUseIs
  <2> QED BY <2>1, <2>2 DEF Types, RefsOf
<1> QED BY <1>1, <1>2, <1>3, <1>4 DEF Keys

\* Six things are finitely many.
LEMMA FiniteTypes ==
  ASSUME NEW a, NEW b, NEW c, NEW d, NEW e, NEW f
  PROVE  IsFiniteSet({a, b, c, d, e, f})
<1>1. \A x : IsFiniteSet({x})
  BY FS_Singleton
<1>2. IsFiniteSet({a} \cup {b}) /\ IsFiniteSet({c} \cup {d}) /\ IsFiniteSet({e} \cup {f})
  BY <1>1, FS_Union
<1>3. IsFiniteSet((({a} \cup {b}) \cup ({c} \cup {d})) \cup ({e} \cup {f}))
  BY <1>2, FS_Union
<1>4. (({a} \cup {b}) \cup ({c} \cup {d})) \cup ({e} \cup {f}) = {a, b, c, d, e, f}
  OBVIOUS
<1> QED BY <1>3, <1>4

\* There are few subagents.
LEMMA FiniteRoles ==
  ASSUME NEW S, S \subseteq Roles
  PROVE  IsFiniteSet(S)
<1>1. S \subseteq {"retrieval", "sql", "research", "research", "research", "research"}
  BY ConstantsAssumption
<1> QED BY <1>1, FiniteTypes, FS_Subset

\* So a config has a finite graph.
LEMMA FiniteKeys ==
  ASSUME NEW c \in Bodies
  PROVE  IsFiniteSet(Keys(c))
<1> DEFINE A == {<<t, None>> : t \in Singletons \cup Defaulted}
           B == IF c.router THEN {<<"router", None>>} ELSE {}
           D == {<<"subagent", r>> : r \in c.subs}
           E == {<<"data_source", s>> : s \in InUse(c).sources}
<1>1. IsFiniteSet(A \cup B)
  <2>1. A \cup B \subseteq {<<"input", None>>, <<"agent", None>>, <<"output", None>>,
                            <<"guardrail", None>>, <<"memory", None>>, <<"router", None>>}
    BY DEF Singletons, Defaulted
  <2> QED BY <2>1, FiniteTypes, FS_Subset
<1>2. IsFiniteSet(D)
  <2>1. D = {"subagent"} \X c.subs
    OBVIOUS
  <2>2. IsFiniteSet(c.subs) /\ IsFiniteSet({"subagent"})
    BY BodyIs, FiniteRoles, FS_Singleton
  <2> QED BY <2>1, <2>2, FS_Product
<1>3. IsFiniteSet(E)
  <2>1. E = {"data_source"} \X InUse(c).sources
    OBVIOUS
  <2>2. IsFiniteSet(InUse(c).sources) /\ IsFiniteSet({"data_source"})
    BY InUseIs, FS_Singleton
  <2> QED BY <2>1, <2>2, FS_Product
<1>4. IsFiniteSet(On(c))
  BY BodyIs
<1>5. Keys(c) = ((A \cup B) \cup On(c)) \cup D \cup E
  BY DEF Keys
<1> HIDE DEF A, B, D, E
<1> QED BY <1>1, <1>2, <1>3, <1>4, <1>5, FS_Union

\* The projected graph has a node for each key.
LEMMA CanonicalNodes ==
  ASSUME NEW c \in Bodies, NEW g
  PROVE  Canonically(c, g).nodes = {Ident(g, k[1], k[2]) : k \in Keys(c)}
<1> DEFINE A == {Ident(g, t, None) : t \in Singletons \cup Defaulted}
           B == IF c.router THEN {Ident(g, "router", None)} ELSE {}
           C == {Ident(g, k[1], k[2]) : k \in On(c)}
           D == {Ident(g, "subagent", r) : r \in c.subs}
           E == {Ident(g, "data_source", s) : s \in InUse(c).sources}
           ns == {Ident(g, k[1], k[2]) : k \in Keys(c)}
<1>1. Canonically(c, g).nodes = A \cup B \cup C \cup D \cup E
  BY DEF Canonically
<1>0. ASSUME NEW t, NEW r, <<t, r>> \in Keys(c) PROVE Ident(g, t, r) \in ns
  <2>1. Ident(g, <<t, r>>[1], <<t, r>>[2]) \in ns
    BY <1>0
  <2> QED BY <2>1
<1>2. A \subseteq ns
  <2>1. \A t \in Singletons \cup Defaulted : <<t, None>> \in Keys(c)
    BY DEF Keys
  <2> HIDE DEF ns
  <2> QED BY <1>0, <2>1
<1>3. B \subseteq ns
  <2>1. c.router => <<"router", None>> \in Keys(c)
    BY DEF Keys
  <2> HIDE DEF ns
  <2> QED BY <1>0, <2>1
<1>4. C \subseteq ns
  BY DEF Keys
<1>5. D \subseteq ns
  <2>1. \A r \in c.subs : <<"subagent", r>> \in Keys(c)
    BY DEF Keys
  <2> HIDE DEF ns
  <2> QED BY <1>0, <2>1
<1>6. E \subseteq ns
  <2>1. \A s \in InUse(c).sources : <<"data_source", s>> \in Keys(c)
    BY DEF Keys
  <2> HIDE DEF ns
  <2> QED BY <1>0, <2>1
<1>7. ASSUME NEW k \in Keys(c) PROVE Ident(g, k[1], k[2]) \in A \cup B \cup C \cup D \cup E
  <2>1. CASE k \in {<<t, None>> : t \in Singletons \cup Defaulted}
    BY <2>1
  <2>2. CASE c.router /\ k = <<"router", None>>
    BY <2>2
  <2>3. CASE k \in On(c)
    BY <2>3
  <2>4. CASE k \in {<<"subagent", r>> : r \in c.subs}
    BY <2>4
  <2>5. CASE k \in {<<"data_source", s>> : s \in InUse(c).sources}
    BY <2>5
  <2> HIDE DEF A, B, C, D, E, ns
  <2> QED BY <2>1, <2>2, <2>3, <2>4, <2>5 DEF Keys
<1>8. ns \subseteq A \cup B \cup C \cup D \cup E
  <2> HIDE DEF A, B, C, D, E
  <2> QED BY <1>7
<1> HIDE DEF A, B, C, D, E, ns
<1>9. Canonically(c, g).nodes = ns
  BY <1>1, <1>2, <1>3, <1>4, <1>5, <1>6, <1>8
<1> QED BY <1>9 DEF ns

\* What a key says of the config.
LEMMA KeysOf ==
  ASSUME NEW c \in Bodies, NEW k \in Keys(c)
  PROVE  /\ k[1] = "router" => c.router
         /\ k[1] \in CapabilityTypes => k \in On(c) /\ c.scope[k] # {}
         /\ k[1] = "subagent" => k[2] \in c.subs
         /\ k[1] = "data_source" => k[2] \in InUse(c).sources
         /\ k[1] \notin CapabilityTypes \cup {"subagent", "data_source"} => k[2] = None
<1>1. CASE k \in {<<t, None>> : t \in Singletons \cup Defaulted}
  BY <1>1 DEF Singletons, Defaulted, CapabilityTypes
<1>2. CASE c.router /\ k = <<"router", None>>
  BY <1>2 DEF CapabilityTypes
<1>3. CASE k \in On(c)
  <2>1. k[1] \in CapabilityTypes
    BY <1>3 DEF On, Capabilities
  <2> QED BY <1>3, <2>1 DEF On, CapabilityTypes
<1>4. CASE k \in {<<"subagent", r>> : r \in c.subs}
  BY <1>4 DEF CapabilityTypes
<1>5. CASE k \in {<<"data_source", s>> : s \in InUse(c).sources}
  BY <1>5 DEF CapabilityTypes
<1> QED BY <1>1, <1>2, <1>3, <1>4, <1>5 DEF Keys

\* What the config says of the keys.
LEMMA SomeKeys ==
  ASSUME NEW c \in Bodies
  PROVE  /\ \A t \in Singletons \cup Defaulted : <<t, None>> \in Keys(c)
         /\ c.router => <<"router", None>> \in Keys(c)
         /\ On(c) \subseteq Keys(c)
         /\ \A r \in c.subs : <<"subagent", r>> \in Keys(c)
         /\ \A s \in InUse(c).sources : <<"data_source", s>> \in Keys(c)
         /\ InUse(c).sources # {} => KnowledgeBase \in Keys(c)
<1>1. InUse(c).sources # {} => KnowledgeBase \in On(c)
  BY InUseIs, KnowledgeBaseIs DEF On
<1> QED BY <1>1 DEF Keys

\* A node's key says which node it is.
LEMMA CanonicalNode ==
  ASSUME NEW c \in Bodies, NEW g \in Graphs
  PROVE  LET h == Canonically(c, g)
         IN /\ \A n \in h.nodes : n \in Nodes /\ <<n.type, n.ref>> \in Keys(c)
                                  /\ n = Ident(g, n.type, n.ref)
            /\ \A t, r : <<t, r>> \in Keys(c) =>
                 /\ Ident(g, t, r) \in h.nodes
                 /\ Ident(g, t, r).type = t /\ Ident(g, t, r).ref = r
            /\ IsFiniteSet(h.nodes)
<1> DEFINE h == Canonically(c, g)
           ident == [k \in Keys(c) |-> Ident(g, k[1], k[2])]
<1>1. h.nodes = {Ident(g, k[1], k[2]) : k \in Keys(c)}
  BY CanonicalNodes
<1>2. \A k \in Keys(c) : /\ Ident(g, k[1], k[2]) \in Nodes /\ k = <<k[1], k[2]>>
                         /\ Ident(g, k[1], k[2]).type = k[1] /\ Ident(g, k[1], k[2]).ref = k[2]
  BY KeyIs, IdentIs
<1>3. ASSUME NEW n \in h.nodes
      PROVE  n \in Nodes /\ <<n.type, n.ref>> \in Keys(c) /\ n = Ident(g, n.type, n.ref)
  <2>1. PICK k \in Keys(c) : n = Ident(g, k[1], k[2])
    BY <1>1
  <2> HIDE DEF h
  <2> QED BY <1>2, <2>1
<1>4. ASSUME NEW t, NEW r, <<t, r>> \in Keys(c)
      PROVE  /\ Ident(g, t, r) \in h.nodes
             /\ Ident(g, t, r).type = t /\ Ident(g, t, r).ref = r
  <2> HIDE DEF h
  <2>1. Ident(g, <<t, r>>[1], <<t, r>>[2]) \in h.nodes
    BY <1>1, <1>4
  <2>2. <<t, r>>[1] = t /\ <<t, r>>[2] = r
    OBVIOUS
  <2>3. /\ Ident(g, <<t, r>>[1], <<t, r>>[2]).type = <<t, r>>[1]
        /\ Ident(g, <<t, r>>[1], <<t, r>>[2]).ref = <<t, r>>[2]
    BY <1>2, <1>4
  <2> QED BY <2>1, <2>2, <2>3
<1>5. IsFiniteSet(h.nodes)
  <2>1. h.nodes = {ident[k] : k \in Keys(c)}
    BY <1>1
  <2>2. ident = [k \in Keys(c) |-> ident[k]]
    OBVIOUS
  <2> HIDE DEF h, ident
  <2> QED BY <2>1, <2>2, FiniteKeys, FiniteImage
<1> HIDE DEF h
<1> QED BY <1>3, <1>4, <1>5 DEF h

\* The projected edges, by the nodes they connect.
LEMMA CanonicalEdges ==
  ASSUME NEW c \in Bodies, NEW g \in Graphs
  PROVE  LET h == Canonically(c, g)
         IN h.edges = {e \in h.nodes \X h.nodes : Drawn(c, e[1], e[2])}
<1> DEFINE h == Canonically(c, g)
           id(t) == Ident(g, t, None)
           agent == id("agent")
           cap(k) == Ident(g, k[1], k[2])
           subs == {Ident(g, "subagent", r) : r \in c.subs}
           sources == {Ident(g, "data_source", s) : s \in InUse(c).sources}
           A == {<<id("input"), id("guardrail")>>, <<id("memory"), agent>>, <<agent, id("output")>>}
           B == IF c.router THEN {<<id("guardrail"), id("router")>>, <<id("router"), agent>>}
                ELSE {<<id("guardrail"), agent>>}
           C == {<<s, agent>> : s \in subs}
           D == {<<s, id("knowledge_base")>> : s \in sources}
           E == {<<cap(k), agent>> : k \in {k \in On(c) : "agent" \in c.scope[k]}}
           F == UNION {{<<cap(k), Ident(g, "subagent", r)>> : r \in c.scope[k] \cap c.subs} :
                         k \in On(c)}
           Es == {e \in h.nodes \X h.nodes : Drawn(c, e[1], e[2])}
<1>1. h.edges = A \cup B \cup C \cup D \cup E \cup F
  BY DEF Canonically
<1>2. \A n \in h.nodes : n \in Nodes /\ <<n.type, n.ref>> \in Keys(c) /\ n = Ident(g, n.type, n.ref)
  BY CanonicalNode
<1>3. \A t, r : <<t, r>> \in Keys(c) =>
        Ident(g, t, r) \in h.nodes /\ Ident(g, t, r).type = t /\ Ident(g, t, r).ref = r
  BY CanonicalNode
<1>4. \A t \in {"input", "agent", "output", "guardrail", "memory"} :
        id(t) \in h.nodes /\ id(t).type = t
  BY <1>3, SomeKeys DEF Singletons, Defaulted
<1>5. c.router => id("router") \in h.nodes /\ id("router").type = "router"
  BY <1>3, SomeKeys
<1>6. \A k \in On(c) : cap(k) \in h.nodes /\ cap(k).type \in CapabilityTypes
                       /\ <<cap(k).type, cap(k).ref>> = k
  <2>1. ASSUME NEW k \in On(c) PROVE k = <<k[1], k[2]>> /\ k[1] \in CapabilityTypes /\ k \in Keys(c)
    BY SomeKeys DEF On, Capabilities
  <2> HIDE DEF h
  <2> QED BY <1>3, <2>1
<1>7. \A r \in c.subs : /\ Ident(g, "subagent", r) \in h.nodes
                        /\ Ident(g, "subagent", r).type = "subagent"
                        /\ Ident(g, "subagent", r).ref = r
  BY <1>3, SomeKeys
<1>8. /\ \A s \in subs : s \in h.nodes /\ s.type = "subagent"
      /\ \A s \in sources : s \in h.nodes /\ s.type = "data_source"
  <2>1. \A s \in InUse(c).sources : /\ Ident(g, "data_source", s) \in h.nodes
                                    /\ Ident(g, "data_source", s).type = "data_source"
    BY <1>3, SomeKeys
  <2> HIDE DEF h
  <2> QED BY <1>7, <2>1
<1>9. sources # {} => id("knowledge_base") \in h.nodes /\ id("knowledge_base").type = "knowledge_base"
  BY <1>3, SomeKeys, KnowledgeBaseIs
<1>10. \A e : e \in Es <=> e \in h.nodes \X h.nodes /\ Drawn(c, e[1], e[2])
  BY Zenon
<1> HIDE DEF h, id, cap, subs, sources, Es
<1>11. A \subseteq Es
  BY <1>4, <1>10 DEF Drawn
<1>12. B \subseteq Es
  BY <1>4, <1>5, <1>10 DEF Drawn
<1>13. C \subseteq Es
  BY <1>4, <1>8, <1>10 DEF Drawn
<1>14. D \subseteq Es
  BY <1>8, <1>9, <1>10 DEF Drawn
<1>15. E \subseteq Es
  BY <1>4, <1>6, <1>10 DEF Drawn
<1>16. F \subseteq Es
  <2>1. ASSUME NEW k \in On(c), NEW r \in c.scope[k] \cap c.subs
        PROVE  <<cap(k), Ident(g, "subagent", r)>> \in Es
    BY <1>6, <1>7, <1>10 DEF Drawn
  <2> QED BY <2>1
<1>17. ASSUME NEW n \in h.nodes, NEW m \in h.nodes, Drawn(c, n, m)
       PROVE  <<n, m>> \in A \cup B \cup C \cup D \cup E \cup F
  <2>1. /\ n = Ident(g, n.type, n.ref) /\ <<n.type, n.ref>> \in Keys(c)
        /\ m = Ident(g, m.type, m.ref) /\ <<m.type, m.ref>> \in Keys(c)
    BY <1>2
  <2>2. \A t \in Singletons \cup Defaulted \cup {"router", "knowledge_base"} :
          /\ n.type = t => n = id(t)
          /\ m.type = t => m = id(t)
    <3>1. \A k \in Keys(c) : k[1] \in Singletons \cup Defaulted \cup {"router"} => k[2] = None
      BY KeysOf DEF Singletons, Defaulted, CapabilityTypes
    <3>2. \A k \in Keys(c) : k[1] = "knowledge_base" => k[2] = None
      BY KeyIs, KnowledgeBaseIs
    <3> QED BY <2>1, <3>1, <3>2 DEF id
  <2>3. CASE n.type = "input" /\ m.type = "guardrail"
    BY <2>2, <2>3 DEF Singletons, Defaulted
  <2>4. CASE n.type = "guardrail" /\ m.type = (IF c.router THEN "router" ELSE "agent")
    BY <2>2, <2>4 DEF Singletons, Defaulted
  <2>5. CASE n.type = "router" /\ m.type = "agent"
    <3>1. c.router
      BY <2>1, <2>5, KeysOf
    <3> QED BY <2>2, <2>5, <3>1 DEF Singletons, Defaulted
  <2>6. CASE \/ n.type = "memory" /\ m.type = "agent"
             \/ n.type = "agent" /\ m.type = "output"
    BY <2>2, <2>6 DEF Singletons, Defaulted
  <2>7. CASE n.type = "subagent" /\ m.type = "agent"
    <3>1. n.ref \in c.subs
      BY <2>1, <2>7, KeysOf
    <3>2. n \in subs
      BY <2>1, <2>7, <3>1 DEF subs
    <3> QED BY <2>2, <2>7, <3>2 DEF Singletons
  <2>8. CASE n.type = "data_source" /\ m.type = "knowledge_base"
    <3>1. n.ref \in InUse(c).sources
      BY <2>1, <2>8, KeysOf
    <3>2. n \in sources
      BY <2>1, <2>8, <3>1 DEF sources
    <3> QED BY <2>2, <2>8, <3>2
  <2>9. CASE n.type \in CapabilityTypes
    <3>1. <<n.type, n.ref>> \in On(c)
      BY <2>1, <2>9, KeysOf
    <3>2. n = cap(<<n.type, n.ref>>)
      BY <2>1 DEF cap
    <3>3. CASE m.type = "agent" /\ "agent" \in c.scope[<<n.type, n.ref>>]
      <4>1. m = agent
        BY <2>2, <3>3 DEF Singletons
      <4>2. <<cap(<<n.type, n.ref>>), agent>> \in E
        BY <3>1, <3>3
      <4> QED BY <3>2, <4>1, <4>2
    <3>4. CASE m.type = "subagent" /\ m.ref \in c.scope[<<n.type, n.ref>>]
      <4>1. m.ref \in c.subs
        BY <2>1, <3>4, KeysOf
      <4>2. m = Ident(g, "subagent", m.ref)
        BY <2>1, <3>4
      <4>3. <<cap(<<n.type, n.ref>>), Ident(g, "subagent", m.ref)>> \in F
        BY <3>1, <3>4, <4>1
      <4> QED BY <3>2, <4>2, <4>3
    <3> QED BY <1>17, <2>9, <3>3, <3>4 DEF Drawn, CapabilityTypes
  <2>10. CASE n.type \in {"router", "memory", "subagent"} /\ m.type = "agent"
    <3>1. \/ n.type = "router" /\ m.type = "agent"
          \/ n.type = "memory" /\ m.type = "agent"
          \/ n.type = "subagent" /\ m.type = "agent"
      BY <2>10
    <3> HIDE DEF A, B, C, D, E, F
    <3> QED BY <2>5, <2>6, <2>7, <3>1
  <2> HIDE DEF A, B, C, D, E, F
  <2> QED BY <1>17, <2>3, <2>4, <2>6, <2>8, <2>9, <2>10 DEF Drawn
<1> HIDE DEF A, B, C, D, E, F
<1>18. Es \subseteq A \cup B \cup C \cup D \cup E \cup F
  <2>1. ASSUME NEW e \in Es PROVE e \in A \cup B \cup C \cup D \cup E \cup F
    <3>1. PICK n \in h.nodes, m \in h.nodes : e = <<n, m>>
      BY <1>10
    <3>2. Drawn(c, n, m)
      BY <1>10, <3>1
    <3> QED BY <1>17, <3>1, <3>2
  <2> QED BY <2>1
<1>19. h.edges = Es
  BY <1>1, <1>11, <1>12, <1>13, <1>14, <1>15, <1>16, <1>18
<1> QED BY <1>19 DEF Es, h

\* The projection is a graph; whose settings are its own is as the config says.
LEMMA CanonicalGraph ==
  ASSUME NEW c \in Bodies, NEW g \in Graphs
  PROVE  LET h == Canonically(c, g)
         IN h \in Graphs /\ \A n : n \in h.own <=> n \in h.nodes /\ n.type \in c.own
<1> DEFINE h == Canonically(c, g)
<1>1. /\ h = [nodes |-> h.nodes, own |-> h.own, edges |-> h.edges]
      /\ h.own = {Ident(g, t, None) : t \in c.own}
  BY DEF Canonically
<1>2. \A n \in h.nodes : n \in Nodes /\ <<n.type, n.ref>> \in Keys(c)
                         /\ n = Ident(g, n.type, n.ref)
  BY CanonicalNode
<1>3. IsFiniteSet(h.nodes)
  BY CanonicalNode
<1>4. h.edges \in SUBSET (h.nodes \X h.nodes)
  BY CanonicalEdges
<1>5. \A t \in c.own : Ident(g, t, None) \in h.nodes /\ Ident(g, t, None).type = t
  <2>1. \A t \in c.own : <<t, None>> \in Keys(c)
    BY SomeKeys, BodyIs
  <2>2. \A t, r : <<t, r>> \in Keys(c) =>
          Ident(g, t, r) \in h.nodes /\ Ident(g, t, r).type = t
    BY CanonicalNode
  <2> HIDE DEF h
  <2> QED BY <2>1, <2>2
<1>6. ASSUME NEW n \in h.nodes, n.type \in c.own PROVE n \in h.own
  <2>1. n.ref = None
    <3>1. n.type \in Defaulted
      BY <1>6, BodyIs
    <3>2. <<n.type, n.ref>>[1] = n.type /\ <<n.type, n.ref>>[2] = n.ref
      OBVIOUS
    <3>3. n.type \notin CapabilityTypes \cup {"subagent", "data_source"}
      BY <3>1 DEF Defaulted, CapabilityTypes
    <3> QED BY <1>2, <1>6, <3>2, <3>3, KeysOf
  <2> QED BY <1>1, <1>2, <1>6, <2>1
<1>7. \A n : n \in h.own <=> n \in h.nodes /\ n.type \in c.own
  BY <1>1, <1>5, <1>6
<1>8. h \in Graphs
  <2>1. h.nodes \in SUBSET Nodes
    BY <1>2
  <2>2. \A n \in h.own : n \in h.nodes /\ n.type \in Defaulted
    BY <1>7, BodyIs
  <2>3. h = [nodes |-> h.nodes, edges |-> h.edges, own |-> h.own]
    BY <1>1
  <2> HIDE DEF h
  <2> QED BY <1>3, <1>4, <2>1, <2>2, <2>3, NewGraph
<1> QED BY <1>7, <1>8

\* A graph with the nodes of a config, one for each key, has no error if its edges are
\* allowed.
LEMMA KeyedValid ==
  ASSUME NEW c \in Bodies, NEW g \in Graphs, NEW h \in Graphs,
         h.nodes = Canonically(c, g).nodes, \A e \in h.edges : Ok(e)
  PROVE  Valid(h)
<1>1. /\ \A n \in h.nodes : n \in Nodes /\ <<n.type, n.ref>> \in Keys(c)
                            /\ n = Ident(g, n.type, n.ref)
      /\ \A t, r : <<t, r>> \in Keys(c) =>
           Ident(g, t, r) \in h.nodes /\ Ident(g, t, r).type = t /\ Ident(g, t, r).ref = r
  BY CanonicalNode
<1>2. ASSUME NEW t \in Singletons PROVE Of(h, t) # {}
  <2>1. Ident(g, t, None) \in h.nodes /\ Ident(g, t, None).type = t
    BY <1>1, SomeKeys
  <2> QED BY <2>1 DEF Of
<1>3. ASSUME NEW t \in Singletons \cup AtMostOne, NEW x \in Of(h, t), NEW y \in Of(h, t)
      PROVE  x = y
  <2>1. x \in h.nodes /\ y \in h.nodes /\ x.type = t /\ y.type = t
    BY DEF Of
  <2>2. t \notin CapabilityTypes \cup {"subagent", "data_source"}
    BY DEF Singletons, AtMostOne, CapabilityTypes
  <2>3. \A n \in h.nodes : n.type = t => n.ref = None
    <3>1. ASSUME NEW n \in h.nodes, n.type = t PROVE n.ref = None
      <4>1. <<n.type, n.ref>> \in Keys(c)
        BY <1>1
      <4>2. <<n.type, n.ref>>[1] = t /\ <<n.type, n.ref>>[2] = n.ref
        BY <3>1
      <4> QED BY <2>2, <4>1, <4>2, KeysOf
    <3> QED BY <3>1
  <2>4. x = Ident(g, x.type, x.ref) /\ y = Ident(g, y.type, y.ref)
    BY <1>1, <2>1
  <2>5. x.ref = None /\ y.ref = None
    BY <2>1, <2>3
  <2> QED BY <2>1, <2>4, <2>5
<1>4. ASSUME NEW n \in h.nodes PROVE n = First(Alike(h, n))
  <2>1. First(Alike(h, n)) \in Alike(h, n)
    BY AlikeIs
  <2>2. \A m \in Alike(h, n) : m \in h.nodes /\ m.type = n.type /\ m.ref = n.ref
    BY DEF Alike
  <2> QED BY <1>1, <2>1, <2>2
<1> QED BY <1>2, <1>3, <1>4, ValidIs

\* What is projected is allowed.
LEMMA DrawnOk ==
  ASSUME NEW c, NEW n, NEW m, Drawn(c, n, m)
  PROVE  Ok(<<n, m>>)
<1>1. <<n.type, m.type>> \in AllowedEdges
  BY AllowedTo DEF Drawn
<1> QED BY <1>1 DEF Ok

\* The projection is valid.
LEMMA CanonicalValid ==
  ASSUME NEW c \in Bodies, NEW g \in Graphs
  PROVE  Valid(Canonically(c, g))
<1> DEFINE h == Canonically(c, g)
<1>1. h \in Graphs
  BY CanonicalGraph
<1>2. ASSUME NEW e \in h.edges PROVE Ok(e)
  <2>1. PICK n \in h.nodes, m \in h.nodes : e = <<n, m>> /\ Drawn(c, n, m)
    BY CanonicalEdges
  <2> QED BY <2>1, DrawnOk
<1> QED BY <1>1, <1>2, KeyedValid

\* Compiling undoes the projection, but for the settings of what is off.
LEMMA CanonicalCompiles ==
  ASSUME NEW c \in Configs, NEW g \in Graphs
  PROVE  Compile(Canonically(c, g)) = InUse(c)
<1> DEFINE h == Canonically(c, g)
           agent == OnlyOne(h, "agent")
           wired == Reaching(h, h.edges)
           d == Compile(h)
<1>1. h \in Graphs /\ Valid(h) /\ c \in Bodies
  BY CanonicalGraph, CanonicalValid, ConfigIs
<1>2. \A n, m : <<n, m>> \in h.edges <=> n \in h.nodes /\ m \in h.nodes /\ Drawn(c, n, m)
  <2>1. h.edges = {e \in h.nodes \X h.nodes : Drawn(c, e[1], e[2])}
    BY <1>1, CanonicalEdges
  <2> HIDE DEF h
  <2> QED BY <2>1
<1>3. /\ \A n \in h.nodes : <<n.type, n.ref>> \in Keys(c)
      /\ \A t, r : <<t, r>> \in Keys(c) =>
           Ident(g, t, r) \in h.nodes /\ Ident(g, t, r).type = t /\ Ident(g, t, r).ref = r
  BY <1>1, CanonicalNode
<1>4. \A n : n \in h.own <=> n \in h.nodes /\ n.type \in c.own
  BY <1>1, CanonicalGraph
<1> HIDE DEF h
<1>5. /\ agent \in h.nodes /\ agent.type = "agent" /\ agent \in wired /\ wired \subseteq h.nodes
      /\ \A n \in h.nodes : n # agent =>
           (n \in wired <=> \E m \in wired : <<n, m>> \in h.edges)
      /\ \A n \in h.nodes : n.type = "agent" => n = agent
  <2>1. /\ Of(h, "agent") = {agent} /\ agent \in h.nodes /\ agent.type = "agent"
        /\ agent \in wired /\ wired \subseteq h.nodes
        /\ \A n \in h.nodes : n # agent =>
             (n \in wired <=> \E m \in wired : <<n, m>> \in h.edges)
    BY <1>1, ValidWires
  <2> QED BY <2>1, <1>1, OfIs
<1> HIDE DEF agent, wired
<1>6. SubsOf(h) = {n \in h.nodes : n.type = "subagent"}
  <2>1. SubsOf(h) = {n \in h.nodes : n.type = "subagent" /\ <<n, agent>> \in h.edges}
    BY <1>1, SubsIs DEF agent
  <2> QED BY <1>2, <1>5, <2>1 DEF Drawn
<1>7. d.subs = c.subs
  <2>1. d.subs = {n.ref : n \in SubsOf(h)}
    BY <1>1, CompiledParts
  <2>2. \A n \in SubsOf(h) : n.ref \in c.subs
    <3>1. ASSUME NEW n \in SubsOf(h) PROVE n.ref \in c.subs
      <4>1. <<n.type, n.ref>> \in Keys(c) /\ <<n.type, n.ref>>[1] = "subagent"
            /\ <<n.type, n.ref>>[2] = n.ref
        BY <1>3, <1>6
      <4> QED BY <1>1, <4>1, KeysOf
    <3> QED BY <3>1
  <2>3. ASSUME NEW r \in c.subs PROVE \E n \in SubsOf(h) : n.ref = r
    <3>1. <<"subagent", r>> \in Keys(c)
      BY <1>1, SomeKeys
    <3>2. Ident(g, "subagent", r) \in SubsOf(h) /\ Ident(g, "subagent", r).ref = r
      BY <1>3, <1>6, <3>1
    <3> QED BY <3>2
  <2> QED BY <2>1, <2>2, <2>3
<1>8. ASSUME NEW n \in h.nodes, n.type \in CapabilityTypes
      PROVE  ScopeOf(h, n) = c.scope[<<n.type, n.ref>>]
  <2> DEFINE s == c.scope[<<n.type, n.ref>>]
  <2>1. <<n.type, n.ref>> \in Capabilities
    BY <1>1, <1>8, CompiledScope
  <2>2. s \subseteq {"agent"} \cup Roles /\ s \subseteq c.subs \cup {"agent"}
    BY <1>1, <2>1, BodyIs, ConfigIs
  <2>3. ScopeOf(h, n) \subseteq {"agent"} \cup Roles
    BY <1>1, ScopeIs
  <2>4. "agent" \in ScopeOf(h, n) <=> "agent" \in s
    <3>1. "agent" \in ScopeOf(h, n) <=> <<n, agent>> \in h.edges
      BY <1>1, ScopeIs DEF agent
    <3>2. <<n, agent>> \in h.edges <=> "agent" \in s
      BY <1>2, <1>5, <1>8 DEF Drawn, CapabilityTypes
    <3> QED BY <3>1, <3>2
  <2>5. ASSUME NEW r \in Roles PROVE r \in ScopeOf(h, n) <=> r \in s
    <3>1. r \in ScopeOf(h, n) <=> \E m \in SubsOf(h) : m.ref = r /\ <<n, m>> \in h.edges
      BY <1>1, ScopeIs
    <3>2. \A m \in SubsOf(h) : <<n, m>> \in h.edges <=> m.ref \in s
      BY <1>2, <1>6, <1>8 DEF Drawn, CapabilityTypes
    <3>3. r \in s => \E m \in SubsOf(h) : m.ref = r
      <4>1. r \in s => r \in c.subs
        BY <2>2, NoRole
      <4>2. r \in c.subs => <<"subagent", r>> \in Keys(c)
        BY <1>1, SomeKeys
      <4> QED BY <1>3, <1>6, <4>1, <4>2
    <3> HIDE DEF s
    <3> QED BY <3>1, <3>2, <3>3
  <2> HIDE DEF s
  <2>6. ScopeOf(h, n) = s
    <3>1. \A x \in {"agent"} \cup Roles : x \in ScopeOf(h, n) <=> x \in s
      BY <2>4, <2>5
    <3> QED BY <2>2, <2>3, <3>1
  <2> QED BY <2>6 DEF s
<1>9. d.scope = c.scope
  <2>1. ASSUME NEW k \in Capabilities PROVE d.scope[k] = c.scope[k]
    <3>1. CASE k \in On(c)
      <4>1. k \in Keys(c) /\ k = <<k[1], k[2]>> /\ k[1] \in CapabilityTypes
        BY <1>1, <3>1, SomeKeys DEF Capabilities
      <4>2. PICK n \in h.nodes : n.type = k[1] /\ n.ref = k[2]
        BY <1>3, <4>1
      <4>3. d.scope[<<n.type, n.ref>>] = ScopeOf(h, n)
        BY <1>1, <4>1, <4>2, CompiledScope
      <4> QED BY <1>8, <4>1, <4>2, <4>3
    <3>2. CASE k \notin On(c)
      <4>1. k[1] \in CapabilityTypes
        BY DEF Capabilities
      <4>2. \A n \in h.nodes : <<n.type, n.ref>> # k
        BY <1>1, <1>3, <3>2, <4>1, KeysOf
      <4>3. d.scope[k] = {}
        BY <4>2, UncompiledScope
      <4> QED BY <3>2, <4>3 DEF On
    <3> QED BY <3>1, <3>2
  <2>2. d.scope = [k \in Capabilities |-> d.scope[k]]
    BY DEF Compile
  <2>3. c.scope = [k \in Capabilities |-> c.scope[k]]
    BY <1>1, BodyIs
  <2> HIDE DEF d
  <2> QED BY <2>1, <2>2, <2>3
<1>10. \A n \in h.nodes : n.type \in {"router", "memory", "guardrail"} => n \in wired
  <2>1. ASSUME NEW n \in h.nodes, n.type \in {"router", "memory"} PROVE n \in wired
    <3>1. <<n, agent>> \in h.edges /\ n # agent
      BY <1>2, <1>5, <2>1 DEF Drawn
    <3> QED BY <1>5, <3>1
  <2>2. ASSUME NEW n \in h.nodes, n.type = "guardrail" PROVE n \in wired
    <3>1. PICK m \in h.nodes : m.type = IF c.router THEN "router" ELSE "agent"
      BY <1>1, <1>3, <1>5, SomeKeys
    <3>2. m \in wired
      BY <1>5, <2>1, <3>1
    <3>3. <<n, m>> \in h.edges /\ n # agent
      BY <1>2, <1>5, <2>2, <3>1 DEF Drawn
    <3> QED BY <1>5, <3>2, <3>3
  <2> QED BY <2>1, <2>2
<1>11. d.own = c.own
  <2>1. \A t : t \in d.own <=> \E n \in h.own : n.type = t /\ n \in wired
    BY <1>1, CompiledParts DEF wired
  <2>2. \A t \in c.own : t \in Defaulted /\ <<t, None>> \in Keys(c)
    BY <1>1, BodyIs, SomeKeys
  <2>3. ASSUME NEW t \in c.own PROVE \E n \in h.own : n.type = t /\ n \in wired
    <3>1. /\ Ident(g, t, None) \in h.nodes /\ Ident(g, t, None).type = t
          /\ t \in {"memory", "guardrail"}
      BY <1>3, <2>2 DEF Defaulted
    <3> QED BY <1>4, <1>10, <3>1
  <2>4. \A n \in h.own : n.type \in c.own
    BY <1>4
  <2>5. \A t : t \in d.own <=> t \in c.own
    BY <2>1, <2>3, <2>4, Zenon
  <2> QED BY <2>5
<1>12. d.router = c.router
  <2>1. d.router \in BOOLEAN /\ c.router \in BOOLEAN
    BY <1>1, CompiledParts, BodyIs
  <2>2. d.router <=> \E n \in h.nodes : n.type = "router" /\ n \in wired
    BY <1>1, CompiledParts DEF wired
  <2>3. c.router => \E n \in h.nodes : n.type = "router"
    BY <1>1, <1>3, SomeKeys
  <2>4. ASSUME NEW n \in h.nodes, n.type = "router" PROVE c.router
    <3>1. <<n.type, n.ref>> \in Keys(c) /\ <<n.type, n.ref>>[1] = "router"
      BY <1>3, <2>4
    <3> QED BY <1>1, <3>1, KeysOf
  <2>5. d.router <=> c.router
    BY <1>10, <2>2, <2>3, <2>4, Zenon
  <2> QED BY <2>1, <2>5
<1>13. d.sources = InUse(c).sources
  <2>1. \A s : s \in d.sources <=>
          \E n, b \in h.nodes : /\ n.type = "data_source" /\ n.ref = s
                                /\ b.type = "knowledge_base" /\ b \in wired
                                /\ <<n, b>> \in h.edges
    BY <1>1, CompiledParts, Zenon DEF wired
  <2>2. ASSUME NEW n \in h.nodes, n.type = "data_source" PROVE n.ref \in InUse(c).sources
    <3>1. <<n.type, n.ref>> \in Keys(c) /\ <<n.type, n.ref>>[1] = "data_source"
          /\ <<n.type, n.ref>>[2] = n.ref
      BY <1>3, <2>2
    <3> QED BY <1>1, <3>1, KeysOf
  <2>3. ASSUME NEW s \in InUse(c).sources
        PROVE  \E n, b \in h.nodes : /\ n.type = "data_source" /\ n.ref = s
                                     /\ b.type = "knowledge_base" /\ b \in wired
                                     /\ <<n, b>> \in h.edges
    <3>1. <<"data_source", s>> \in Keys(c) /\ <<"knowledge_base", None>> \in Keys(c)
      BY <1>1, <2>3, SomeKeys, KnowledgeBaseIs
    <3>2. PICK n \in h.nodes : n.type = "data_source" /\ n.ref = s
      BY <1>3, <3>1
    <3>3. PICK b \in h.nodes : b.type = "knowledge_base" /\ b.ref = None
      BY <1>3, <3>1
    <3>4. b.type \in CapabilityTypes
      BY <3>3 DEF CapabilityTypes
    <3>5. ScopeOf(h, b) # {}
      <4>1. ScopeOf(h, b) = c.scope[KnowledgeBase]
        BY <1>8, <3>3, <3>4, KnowledgeBaseIs
      <4>2. c.scope[KnowledgeBase] # {}
        BY <1>1, <2>3, InUseIs
      <4> QED BY <4>1, <4>2
    <3>6. b \in wired
      BY <1>1, <3>4, <3>5, WiredScope DEF wired
    <3>7. <<n, b>> \in h.edges
      BY <1>2, <3>2, <3>3 DEF Drawn
    <3> QED BY <3>2, <3>3, <3>6, <3>7
  <2>4. ASSUME NEW s \in d.sources PROVE s \in InUse(c).sources
    <3>1. PICK n, b \in h.nodes : n.type = "data_source" /\ n.ref = s
      BY <2>1, Zenon
    <3> QED BY <2>2, <3>1
  <2>5. \A s : s \in InUse(c).sources => s \in d.sources
    BY <2>1, <2>3, Zenon
  <2> QED BY <2>4, <2>5
<1>14. d = [own |-> d.own, router |-> d.router, scope |-> d.scope, sources |-> d.sources,
            subs |-> d.subs]
  BY DEF Compile
<1>15. InUse(c) = [own |-> c.own, router |-> c.router, scope |-> c.scope,
                   sources |-> InUse(c).sources, subs |-> c.subs]
  BY <1>1, InUseIs
<1> HIDE DEF d
<1>16. d = InUse(c)
  BY <1>7, <1>9, <1>11, <1>12, <1>13, <1>14, <1>15
<1> QED BY <1>16 DEF d, h

-----------------------------------------------------------------------------
(* Fixes.                                                                  *)

\* A fix applied, part by part.
LEMMA ApplyIs ==
  ASSUME NEW g, NEW fix
  PROVE  Apply(g, fix) =
           [nodes |-> (g.nodes \ fix.drop) \cup fix.add, own |-> g.own \ fix.drop,
            edges |-> ({e \in g.edges : e[1] \notin fix.drop /\ e[2] \notin fix.drop}
                         \ fix.unwire) \cup fix.wire]
<1> DEFINE left == {e \in g.edges : e[1] \notin fix.drop /\ e[2] \notin fix.drop}
<1>1. Without(g, fix.drop) = [nodes |-> g.nodes \ fix.drop, own |-> g.own \ fix.drop,
                              edges |-> left]
  BY DEF Without
<1>2. ASSUME NEW w, w = Without(g, fix.drop)
      PROVE  Apply(g, fix) = [w EXCEPT !.nodes = w.nodes \cup fix.add,
                                       !.edges = (w.edges \ fix.unwire) \cup fix.wire]
  BY <1>2 DEF Apply
<1> HIDE DEF left
<1>3. Apply(g, fix) = [nodes |-> (g.nodes \ fix.drop) \cup fix.add, own |-> g.own \ fix.drop,
                       edges |-> (left \ fix.unwire) \cup fix.wire]
  <2> DEFINE w == [nodes |-> g.nodes \ fix.drop, own |-> g.own \ fix.drop, edges |-> left]
             ns == w.nodes \cup fix.add
             es == (w.edges \ fix.unwire) \cup fix.wire
  <2>1. Apply(g, fix) = [w EXCEPT !.nodes = ns, !.edges = es]
    BY <1>1, <1>2
  <2>2. ns = (g.nodes \ fix.drop) \cup fix.add /\ es = (left \ fix.unwire) \cup fix.wire
    OBVIOUS
  <2> HIDE DEF ns, es
  <2>3. [w EXCEPT !.nodes = ns, !.edges = es] = [[w EXCEPT !.nodes = ns] EXCEPT !.edges = es]
    OBVIOUS
  <2>4. [w EXCEPT !.nodes = ns] = [nodes |-> ns, own |-> g.own \ fix.drop, edges |-> left]
    OBVIOUS
  <2>5. [[nodes |-> ns, own |-> g.own \ fix.drop, edges |-> left] EXCEPT !.edges = es]
          = [nodes |-> ns, own |-> g.own \ fix.drop, edges |-> es]
    OBVIOUS
  <2> HIDE DEF w
  <2>6. Apply(g, fix) = [nodes |-> ns, own |-> g.own \ fix.drop, edges |-> es]
    BY <2>1, <2>3, <2>4, <2>5
  <2> QED BY <2>2, <2>6
<1> QED BY <1>3 DEF left

\* A node with a free id.
LEMMA FreshIs ==
  ASSUME NEW g \in Graphs, NEW t \in Types, NEW r \in RefsOf(t)
  PROVE  Fresh(g, t, r) \in Nodes /\ Fresh(g, t, r).type = t /\ Fresh(g, t, r).ref = r
<1> DEFINE there == Alike(g, Node(t, r))
           copyOf == [n \in there |-> n.copy]
           used == {n.copy : n \in there}
<1>1. IsFiniteSet(used)
  <2>1. IsFiniteSet(there)
    BY GraphIs, FS_Subset DEF Alike
  <2>2. used = {copyOf[n] : n \in there} /\ copyOf = [n \in there |-> copyOf[n]]
    OBVIOUS
  <2> HIDE DEF copyOf, there, used
  <2> QED BY <2>1, <2>2, FiniteImage
<1>2. used \subseteq Nat
  BY GraphIs, NodeIs DEF Alike
<1> HIDE DEF used
<1>3. IsFiniteSet(used \cup {0}) /\ used \cup {0} \in SUBSET Nat
  BY <1>1, <1>2, FS_AddElement
<1>4. Max(used \cup {0}) \in Nat
  BY <1>3, Largest
<1>5. Fresh(g, t, r) = [type |-> t, ref |-> r, copy |-> 1 + Max(used \cup {0})]
  BY DEF Fresh, Node, used
<1>6. 1 + Max(used \cup {0}) \in Nat
  BY <1>4
<1> QED BY <1>5, <1>6, NewNode

\* More edges reach no less.
LEMMA ReachingGrows ==
  ASSUME NEW g, NEW h, Of(g, "agent") \subseteq Of(h, "agent"), NEW E, NEW F, E \subseteq F
  PROVE  Reaching(g, E) \subseteq Reaching(h, F)
<1> DEFINE before(S) == S \cup {e[1] : e \in {e \in E : e[2] \in S}}
           beforeF(S) == S \cup {e[1] : e \in {e \in F : e[2] \in S}}
<1>1. ASSUME NEW S, NEW T, S \subseteq T PROVE before(S) \subseteq beforeF(T)
  BY <1>1
<1>2. /\ Reaching(g, E) = before(before(before(Of(g, "agent"))))
      /\ Reaching(h, F) = beforeF(beforeF(beforeF(Of(h, "agent"))))
  BY DEF Reaching
<1> HIDE DEF before, beforeF
<1> QED BY <1>1, <1>2

\* What an issue says of the graph it is found in.
LEMMA IssueSays ==
  ASSUME NEW h \in Graphs
  PROVE  /\ \A e : OfEdge("illegal", e) \in Issues(h) => e \in h.edges
         /\ \A t : OfType("missing", t) \in Issues(h) => Of(h, t) = {}
         /\ \A t : OfType("duplicate", t) \in Issues(h) => \E x, y \in Of(h, t) : x # y
         /\ \A n : OfNode("again", n) \in Issues(h) => n \in h.nodes
         /\ \A t : OfType("defaults", t) \in Issues(h) => Of(h, t) = {}
         /\ \A n : OfNode("orphan", n) \in Issues(h) => n \notin Reaching(h, Legal(h))
         /\ \A n : OfNode("inert", n) \in Issues(h) => n \in h.nodes /\ ~HasNeeds(h, n)
         /\ \A n : OfNode("unconnected", n) \in Issues(h) =>
              Outgoers(h, n) \cap Of(h, "knowledge_base") = {}
         /\ \A n : OfNode("input_not_wired", n) \in Issues(h) => n \notin Reaching(h, Legal(h))
         /\ \A n : OfNode("output_not_wired", n) \in Issues(h) =>
              Incomers(h, n) \cap Of(h, "agent") = {}
<1> DEFINE wired == Reaching(h, Legal(h))
<1>1. ASSUME NEW i \in Errors(h)
      PROVE  \/ \E e \in h.edges : i = OfEdge("illegal", e)
             \/ \E t : Of(h, t) = {} /\ i = OfType("missing", t)
             \/ \E t : (\E x, y \in Of(h, t) : x # y) /\ i = OfType("duplicate", t)
             \/ \E n \in h.nodes : i = OfNode("again", n)
  BY ErrorIs, Zenon
<1>2. ASSUME NEW i \in Warnings(h)
      PROVE  \/ \E t : Of(h, t) = {} /\ i = OfType("defaults", t)
             \/ \E n : n \notin wired /\ i = OfNode("orphan", n)
             \/ \E n \in h.nodes : ~HasNeeds(h, n) /\ i = OfNode("inert", n)
             \/ \E n : /\ Outgoers(h, n) \cap Of(h, "knowledge_base") = {}
                       /\ i = OfNode("unconnected", n)
             \/ \E n : n \notin wired /\ i = OfNode("input_not_wired", n)
             \/ \E n : /\ Incomers(h, n) \cap Of(h, "agent") = {}
                       /\ i = OfNode("output_not_wired", n)
  <2> DEFINE inert(n) == n \in wired /\ ~HasNeeds(h, n) /\ i = OfNode("inert", n)
  <2>1. \/ \E t : Of(h, t) = {} /\ i = OfType("defaults", t)
        \/ \E n : n \notin wired /\ i = OfNode("orphan", n)
        \/ \E n \in Of(h, "subagent") : inert(n)
        \/ \E n : /\ Outgoers(h, n) \cap Of(h, "knowledge_base") = {}
                  /\ i = OfNode("unconnected", n)
        \/ \E n : n \notin wired /\ i = OfNode("input_not_wired", n)
        \/ \E n : /\ Incomers(h, n) \cap Of(h, "agent") = {}
                  /\ i = OfNode("output_not_wired", n)
    <3>1. \/ \E t \in Defaulted : Of(h, t) = {} /\ i = OfType("defaults", t)
          \/ \E n \in h.nodes : /\ n.type \in Ignorable \cup CapabilityTypes
                                /\ n \notin wired /\ i = OfNode("orphan", n)
          \/ \E n \in Of(h, "subagent") : inert(n)
          \/ \E n \in Of(h, "data_source") :
               /\ Outgoers(h, n) \cap Of(h, "knowledge_base") = {}
               /\ i = OfNode("unconnected", n)
          \/ \E n \in Of(h, "input") : n \notin wired /\ i = OfNode("input_not_wired", n)
          \/ \E n \in Of(h, "output") : /\ Incomers(h, n) \cap Of(h, "agent") = {}
                                        /\ i = OfNode("output_not_wired", n)
      BY <1>2, WarningIs
    <3> HIDE DEF inert
    <3> QED BY <3>1, Zenon
  <2>2. \A n \in Of(h, "subagent") : n \in h.nodes
    BY OfIs
  <2> QED BY <2>1, <2>2, Zenon
<1>3. \A i : i \in Issues(h) <=> i \in Errors(h) \/ i \in Warnings(h)
  BY DEF Issues
<1> HIDE DEF wired
<1> DEFINE many(t) == \E x, y \in Of(h, t) : x # y
           unfed(n) == Outgoers(h, n) \cap Of(h, "knowledge_base") = {}
           unread(n) == Incomers(h, n) \cap Of(h, "agent") = {}
<1>4. ASSUME NEW i \in Issues(h)
      PROVE  \/ \E e \in h.edges : i = OfEdge("illegal", e)
             \/ \E t : Of(h, t) = {} /\ i = OfType("missing", t)
             \/ \E t : many(t) /\ i = OfType("duplicate", t)
             \/ \E n \in h.nodes : i = OfNode("again", n)
             \/ \E t : Of(h, t) = {} /\ i = OfType("defaults", t)
             \/ \E n : n \notin wired /\ i = OfNode("orphan", n)
             \/ \E n \in h.nodes : ~HasNeeds(h, n) /\ i = OfNode("inert", n)
             \/ \E n : unfed(n) /\ i = OfNode("unconnected", n)
             \/ \E n : n \notin wired /\ i = OfNode("input_not_wired", n)
             \/ \E n : unread(n) /\ i = OfNode("output_not_wired", n)
  BY <1>1, <1>2, <1>3, Zenon
<1> HIDE DEF many, unfed, unread
<1>5. /\ \A n, m, k, l : OfNode(k, n) = OfNode(l, m) => k = l /\ n = m
      /\ \A n, m, k, l : OfType(k, n) = OfType(l, m) => k = l /\ n = m
      /\ \A n, m, k, l : OfEdge(k, n) = OfEdge(l, m) => k = l /\ n = m
      /\ \A n, m, k, l : OfNode(k, n) # OfType(l, m) /\ OfNode(k, n) # OfEdge(l, m)
      /\ \A n, m, k, l : OfType(k, n) # OfEdge(l, m)
  BY DEF OfNode, OfType, OfEdge
<1>6. ASSUME NEW e, OfEdge("illegal", e) \in Issues(h) PROVE e \in h.edges
  BY <1>4, <1>5, <1>6
<1>7. ASSUME NEW t, OfType("missing", t) \in Issues(h) PROVE Of(h, t) = {}
  BY <1>4, <1>5, <1>7
<1>8. ASSUME NEW t, OfType("duplicate", t) \in Issues(h) PROVE many(t)
  BY <1>4, <1>5, <1>8
<1>9. ASSUME NEW n, OfNode("again", n) \in Issues(h) PROVE n \in h.nodes
  BY <1>4, <1>5, <1>9
<1>10. ASSUME NEW t, OfType("defaults", t) \in Issues(h) PROVE Of(h, t) = {}
  BY <1>4, <1>5, <1>10
<1>11. ASSUME NEW n, OfNode("orphan", n) \in Issues(h) PROVE n \notin wired
  BY <1>4, <1>5, <1>11
<1>12. ASSUME NEW n, OfNode("inert", n) \in Issues(h) PROVE n \in h.nodes /\ ~HasNeeds(h, n)
  BY <1>4, <1>5, <1>12
<1>13. ASSUME NEW n, OfNode("unconnected", n) \in Issues(h) PROVE unfed(n)
  BY <1>4, <1>5, <1>13
<1>14. ASSUME NEW n, OfNode("input_not_wired", n) \in Issues(h) PROVE n \notin wired
  BY <1>4, <1>5, <1>14
<1>15. ASSUME NEW n, OfNode("output_not_wired", n) \in Issues(h) PROVE unread(n)
  BY <1>4, <1>5, <1>15
<1> QED BY <1>6, <1>7, <1>8, <1>9, <1>10, <1>11, <1>12, <1>13, <1>14, <1>15
      DEF many, unfed, unread, wired

\* The fix of each issue.
LEMMA FixIs ==
  ASSUME NEW g
  PROVE  /\ \A e : FixOf(g, OfEdge("illegal", e)) = [add |-> {}, wire |-> {}, drop |-> {}, unwire |-> {e}]
         /\ \A t : FixOf(g, OfType("duplicate", t)) = Drop(Of(g, t) \ {OnlyOne(g, t)})
         /\ \A n : FixOf(g, OfNode("again", n)) = Drop({n})
         /\ \A t, code : code \in {"missing", "defaults"} =>
              FixOf(g, OfType(code, t)) = IF Of(g, "agent") = {} THEN NoFix ELSE AddNode(g, t)
         /\ \A n : FixOf(g, OfNode("orphan", n)) = Wire(PutBack(g, n))
         /\ \A n : FixOf(g, OfNode("inert", n)) = Give(g, n)
         /\ \A n : FixOf(g, OfNode("unconnected", n)) =
              IF Cardinality(Of(g, "knowledge_base")) = 1
              THEN Wire({<<n, First(Of(g, "knowledge_base"))>>}) ELSE NoFix
         /\ \A n : FixOf(g, OfNode("input_not_wired", n)) =
              Wire({<<n, OnTheWay(g, "guardrail", OnTheWay(g, "router", OnlyOne(g, "agent")))>>})
         /\ \A n : FixOf(g, OfNode("output_not_wired", n)) = Wire({<<OnlyOne(g, "agent"), n>>})
<1>1. \A n, code : (CHOOSE m \in OfNode(code, n).nodes : TRUE) = n /\ OfNode(code, n).code = code
  BY DEF OfNode
<1>2. \A t, code : OfType(code, t).code = code /\ OfType(code, t).type = t
  BY DEF OfType
<1>3. \A e : OfEdge("illegal", e).code = "illegal" /\ OfEdge("illegal", e).edges = {e}
  BY DEF OfEdge
<1> DEFINE the(i) == CHOOSE n \in i.nodes : TRUE
           agent == OnlyOne(g, "agent")
           illegal(i) == [NoFix EXCEPT !.unwire = i.edges]
           duplicate(i) == Drop(Of(g, i.type) \ {OnlyOne(g, i.type)})
           again(i) == Drop({the(i)})
           absent(i) == IF Of(g, "agent") = {} THEN NoFix ELSE AddNode(g, i.type)
           orphan(i) == Wire(PutBack(g, the(i)))
           inert(i) == Give(g, the(i))
           unconnected(i) == IF Cardinality(Of(g, "knowledge_base")) = 1
                             THEN Wire({<<the(i), First(Of(g, "knowledge_base"))>>}) ELSE NoFix
           unheard(i) == Wire({<<the(i), OnTheWay(g, "guardrail", OnTheWay(g, "router", agent))>>})
           unread(i) == Wire({<<agent, the(i)>>})
<1>4. \A i : FixOf(g, i) =
         CASE i.code = "illegal" -> illegal(i)
           [] i.code = "duplicate" -> duplicate(i)
           [] i.code = "again" -> again(i)
           [] i.code \in {"missing", "defaults"} -> absent(i)
           [] i.code = "orphan" -> orphan(i)
           [] i.code = "inert" -> inert(i)
           [] i.code = "unconnected" -> unconnected(i)
           [] i.code = "input_not_wired" -> unheard(i)
           [] i.code = "output_not_wired" -> unread(i)
  BY DEF FixOf
<1> HIDE DEF illegal, duplicate, again, absent, orphan, inert, unconnected, unheard, unread
<1>5. /\ \A i : i.code = "illegal" => FixOf(g, i) = illegal(i)
      /\ \A i : i.code = "duplicate" => FixOf(g, i) = duplicate(i)
      /\ \A i : i.code = "again" => FixOf(g, i) = again(i)
      /\ \A i : i.code \in {"missing", "defaults"} => FixOf(g, i) = absent(i)
      /\ \A i : i.code = "orphan" => FixOf(g, i) = orphan(i)
      /\ \A i : i.code = "inert" => FixOf(g, i) = inert(i)
      /\ \A i : i.code = "unconnected" => FixOf(g, i) = unconnected(i)
      /\ \A i : i.code = "input_not_wired" => FixOf(g, i) = unheard(i)
      /\ \A i : i.code = "output_not_wired" => FixOf(g, i) = unread(i)
  BY <1>4
<1>6. \A e : FixOf(g, OfEdge("illegal", e)) = [add |-> {}, wire |-> {}, drop |-> {}, unwire |-> {e}]
  BY <1>3, <1>5 DEF illegal, NoFix
<1>7. \A t : FixOf(g, OfType("duplicate", t)) = Drop(Of(g, t) \ {OnlyOne(g, t)})
  BY <1>2, <1>5 DEF duplicate
<1>8. ASSUME NEW n PROVE FixOf(g, OfNode("again", n)) = Drop({n})
  <2> DEFINE i == OfNode("again", n)
  <2>1. the(i) = n /\ i.code = "again"
    BY <1>1
  <2> HIDE DEF the, i
  <2>2. FixOf(g, i) = again(i)
    BY <1>5, <2>1
  <2>3. again(i) = Drop({the(i)})
    BY Zenon DEF again
  <2>4. FixOf(g, i) = Drop({n})
    BY <2>1, <2>2, <2>3
  <2> QED BY <2>4 DEF i
<1>9. \A t, code : code \in {"missing", "defaults"} =>
         FixOf(g, OfType(code, t)) = IF Of(g, "agent") = {} THEN NoFix ELSE AddNode(g, t)
  BY <1>2, <1>5 DEF absent
<1>10. \A n : FixOf(g, OfNode("orphan", n)) = Wire(PutBack(g, n))
  BY <1>1, <1>5 DEF orphan
<1>11. \A n : FixOf(g, OfNode("inert", n)) = Give(g, n)
  BY <1>1, <1>5 DEF inert
<1>12. ASSUME NEW n PROVE FixOf(g, OfNode("unconnected", n)) = IF Cardinality(Of(g, "knowledge_base")) = 1
           THEN Wire({<<n, First(Of(g, "knowledge_base"))>>}) ELSE NoFix
  <2> DEFINE i == OfNode("unconnected", n)
  <2>1. the(i) = n /\ i.code = "unconnected"
    BY <1>1
  <2> HIDE DEF the, i
  <2>2. FixOf(g, i) = unconnected(i)
    BY <1>5, <2>1
  <2>3. unconnected(i) = IF Cardinality(Of(g, "knowledge_base")) = 1
           THEN Wire({<<the(i), First(Of(g, "knowledge_base"))>>}) ELSE NoFix
    BY Zenon DEF unconnected
  <2>4. FixOf(g, i) = IF Cardinality(Of(g, "knowledge_base")) = 1
           THEN Wire({<<n, First(Of(g, "knowledge_base"))>>}) ELSE NoFix
    BY <2>1, <2>2, <2>3
  <2> QED BY <2>4 DEF i
<1>13. ASSUME NEW n PROVE FixOf(g, OfNode("input_not_wired", n)) = Wire({<<n, OnTheWay(g, "guardrail", OnTheWay(g, "router", OnlyOne(g, "agent")))>>})
  <2> DEFINE i == OfNode("input_not_wired", n)
  <2>1. the(i) = n /\ i.code = "input_not_wired"
    BY <1>1
  <2> HIDE DEF the, i
  <2>2. FixOf(g, i) = unheard(i)
    BY <1>5, <2>1
  <2>3. unheard(i) = Wire({<<the(i), OnTheWay(g, "guardrail", OnTheWay(g, "router", OnlyOne(g, "agent")))>>})
    BY Zenon DEF unheard
  <2>4. FixOf(g, i) = Wire({<<n, OnTheWay(g, "guardrail", OnTheWay(g, "router", OnlyOne(g, "agent")))>>})
    BY <2>1, <2>2, <2>3
  <2> QED BY <2>4 DEF i
<1>14. ASSUME NEW n PROVE FixOf(g, OfNode("output_not_wired", n)) = Wire({<<OnlyOne(g, "agent"), n>>})
  <2> DEFINE i == OfNode("output_not_wired", n)
  <2>1. the(i) = n /\ i.code = "output_not_wired"
    BY <1>1
  <2> HIDE DEF the, i
  <2>2. FixOf(g, i) = unread(i)
    BY <1>5, <2>1
  <2>3. unread(i) = Wire({<<OnlyOne(g, "agent"), the(i)>>})
    BY Zenon DEF unread
  <2>4. FixOf(g, i) = Wire({<<OnlyOne(g, "agent"), n>>})
    BY <2>1, <2>2, <2>3
  <2> QED BY <2>4 DEF i
<1> QED BY <1>6, <1>7, <1>8, <1>9, <1>10, <1>11, <1>12, <1>13, <1>14

\* Wiring nodes of the graph as is allowed adds no error.
LEMMA WireWorks ==
  ASSUME NEW g \in Graphs, NEW ws \in SUBSET (g.nodes \X g.nodes), \A e \in ws : Ok(e)
  PROVE  LET after == Apply(g, Wire(ws))
         IN /\ after \in Graphs /\ Errors(after) \subseteq Errors(g)
            /\ after.nodes = g.nodes /\ after.edges = g.edges \cup ws
            /\ \A t : Of(after, t) = Of(g, t)
<1> DEFINE after == Apply(g, Wire(ws))
<1>1. /\ Wire(ws).drop = {} /\ Wire(ws).add = {} /\ Wire(ws).unwire = {} /\ Wire(ws).wire = ws
  BY DEF Wire, NoFix
<1>2. after = [nodes |-> g.nodes, own |-> g.own, edges |-> g.edges \cup ws]
  <2>1. /\ (g.nodes \ {}) \cup {} = g.nodes /\ g.own \ {} = g.own
        /\ {e \in g.edges : e[1] \notin {} /\ e[2] \notin {}} \ {} = g.edges
    OBVIOUS
  <2>2. after = [nodes |-> (g.nodes \ {}) \cup {}, own |-> g.own \ {},
                 edges |-> ({e \in g.edges : e[1] \notin {} /\ e[2] \notin {}} \ {}) \cup ws]
    BY <1>1, ApplyIs, Zenon
  <2> QED BY <2>1, <2>2
<1> HIDE DEF after
<1>3. g.nodes \in SUBSET Nodes /\ g.edges \cup ws \in SUBSET (g.nodes \X g.nodes)
  BY GraphIs
<1>4. [nodes |-> g.nodes, edges |-> g.edges \cup ws, own |-> g.own] \in Graphs
  BY <1>3, GraphIs, NewGraph
<1>5. after \in Graphs /\ after.nodes = g.nodes /\ after.edges = g.edges \cup ws
  BY <1>2, <1>4
<1>6. \A t : Of(after, t) = Of(g, t)
  BY <1>5 DEF Of
<1>7. Errors(after) \subseteq Errors(g)
  BY <1>5, <1>6, ErrorsShrink
<1> QED BY <1>5, <1>6, <1>7 DEF after

\* Nodes removed, and the edges at them.
LEMMA WithoutIs ==
  ASSUME NEW g \in Graphs, NEW gone
  PROVE  LET after == Without(g, gone)
         IN /\ after \in Graphs /\ after.nodes = g.nodes \ gone
            /\ after.edges \subseteq g.edges
            /\ \A t : Of(after, t) = Of(g, t) \ gone
<1> DEFINE after == Without(g, gone)
           ns == g.nodes \ gone
           es == {e \in g.edges : e[1] \notin gone /\ e[2] \notin gone}
           os == g.own \ gone
<1>1. after = [nodes |-> ns, edges |-> es, own |-> os]
  BY DEF Without
<1>2. IsFiniteSet(ns) /\ ns \in SUBSET Nodes
  BY GraphIs, FS_Subset
<1>3. es \in SUBSET (ns \X ns)
  BY GraphIs
<1>4. \A n \in os : n \in ns /\ n.type \in Defaulted
  BY GraphIs
<1>5. es \subseteq g.edges
  OBVIOUS
<1> HIDE DEF es, os, after
<1>6. after.nodes = ns /\ after.edges = es
  BY <1>1
<1>7. [nodes |-> ns, edges |-> es, own |-> os] \in Graphs
  <2> HIDE DEF ns
  <2> QED BY <1>2, <1>3, <1>4, NewGraph
<1>8. \A t : Of(after, t) = Of(g, t) \ gone
  BY <1>6 DEF Of
<1> QED BY <1>1, <1>5, <1>6, <1>7, <1>8 DEF after

\* Dropping nodes adds no error if the canvas still has what it must have.
LEMMA DropWorks ==
  ASSUME NEW g \in Graphs, NEW gone,
         \A t \in Singletons : Of(g, t) \ gone = {} => Of(g, t) = {}
  PROVE  LET after == Apply(g, Drop(gone))
         IN /\ after \in Graphs /\ Errors(after) \subseteq Errors(g)
            /\ after.nodes = g.nodes \ gone
            /\ \A t : Of(after, t) = Of(g, t) \ gone
<1> DEFINE after == Apply(g, Drop(gone))
<1>1. /\ Drop(gone).drop = gone /\ Drop(gone).add = {} /\ Drop(gone).unwire = {}
      /\ Drop(gone).wire = {}
  BY DEF Drop, NoFix
<1>2. after = Without(g, gone)
  <2> DEFINE left == {e \in g.edges : e[1] \notin gone /\ e[2] \notin gone}
  <2>1. after = [nodes |-> (g.nodes \ gone) \cup {}, own |-> g.own \ gone,
                 edges |-> (left \ {}) \cup {}]
    BY <1>1, ApplyIs, Zenon
  <2>2. Without(g, gone) = [nodes |-> g.nodes \ gone, own |-> g.own \ gone, edges |-> left]
    BY DEF Without
  <2> HIDE DEF left
  <2>3. (left \ {}) \cup {} = left /\ (g.nodes \ gone) \cup {} = g.nodes \ gone
    OBVIOUS
  <2> QED BY <2>1, <2>2, <2>3
<1> HIDE DEF after
<1>3. /\ after \in Graphs /\ after.nodes = g.nodes \ gone /\ after.edges \subseteq g.edges
      /\ \A t : Of(after, t) = Of(g, t) \ gone
  BY <1>2, WithoutIs
<1>4. Errors(after) \subseteq Errors(g)
  <2>1. \A t : Of(after, t) \subseteq Of(g, t)
    BY <1>3
  <2>2. \A t \in Singletons : Of(after, t) = {} => Of(g, t) = {}
    BY <1>3
  <2> QED BY <1>3, <2>1, <2>2, ErrorsShrink
<1> QED BY <1>3, <1>4 DEF after

\* And so does adding the one node of a type, wired as is allowed.
LEMMA AddWorks ==
  ASSUME NEW g \in Graphs, NEW n \in Nodes, n.type \in Singletons \cup AtMostOne,
         Of(g, n.type) = {}, NEW ws \in SUBSET ((g.nodes \cup {n}) \X (g.nodes \cup {n})),
         \A e \in ws : Ok(e)
  PROVE  LET after == Apply(g, [NoFix EXCEPT !.add = {n}, !.wire = ws])
         IN after \in Graphs /\ Errors(after) \subseteq Errors(g) /\ n \in Of(after, n.type)
<1> DEFINE fix == [NoFix EXCEPT !.add = {n}, !.wire = ws]
           after == Apply(g, fix)
           ns == g.nodes \cup {n}
<1>1. fix.drop = {} /\ fix.add = {n} /\ fix.unwire = {} /\ fix.wire = ws
  BY DEF NoFix
<1> HIDE DEF fix
<1>2. after = [nodes |-> ns, own |-> g.own, edges |-> g.edges \cup ws]
  <2>1. /\ g.nodes \ {} = g.nodes /\ g.own \ {} = g.own
        /\ {e \in g.edges : e[1] \notin {} /\ e[2] \notin {}} \ {} = g.edges
    OBVIOUS
  <2>2. after = [nodes |-> (g.nodes \ {}) \cup {n}, own |-> g.own \ {},
                 edges |-> ({e \in g.edges : e[1] \notin {} /\ e[2] \notin {}} \ {}) \cup ws]
    BY <1>1, ApplyIs, Zenon
  <2> QED BY <2>1, <2>2
<1> HIDE DEF after
<1>3. ns \in SUBSET Nodes /\ g.edges \cup ws \in SUBSET (ns \X ns) /\ IsFiniteSet(ns)
  BY GraphIs, FS_AddElement
<1>4. \A m \in g.own : m \in ns /\ m.type \in Defaulted
  BY GraphIs
<1>5. [nodes |-> ns, edges |-> g.edges \cup ws, own |-> g.own] \in Graphs
  <2> HIDE DEF ns
  <2> QED BY <1>3, <1>4, NewGraph
<1>6. after \in Graphs /\ after.nodes = ns /\ after.edges = g.edges \cup ws
  BY <1>2, <1>5
<1>7. \A t : Of(after, t) = IF t = n.type THEN {n} ELSE Of(g, t)
  <2>1. \A m \in g.nodes : m.type # n.type
    BY DEF Of
  <2> QED BY <1>6, <2>1 DEF Of
<1>8. n.type \notin OneEach
  BY DEF OneEach, Singletons, AtMostOne, CapabilityTypes
<1>9. Errors(after) \subseteq Errors(g)
  <2>1. \A e \in after.edges : e \in g.edges \/ Ok(e)
    BY <1>6
  <2>2. \A t : Of(after, t) = {} => Of(g, t) = {}
    BY <1>7
  <2>3. \A t : Of(after, t) \subseteq Of(g, t) \/ \A x, y \in Of(after, t) : x = y
    BY <1>7
  <2>4. \A m \in after.nodes : m.type \in OneEach => m \in g.nodes
    BY <1>6, <1>8
  <2> QED BY <1>6, <2>1, <2>2, <2>3, <2>4, ErrorsShrink
<1> QED BY <1>6, <1>7, <1>9 DEF after, fix

\* A fix clears its issue and adds no error, and leaves a graph.
Works(g, i) ==
  LET after == Apply(g, FixOf(g, i))
  IN after \in Graphs /\ i \notin Issues(after) /\ Errors(after) \subseteq Errors(g)

\* An edge that is not allowed is removed.
LEMMA FixIllegal ==
  ASSUME NEW g \in Graphs, NEW e \in g.edges
  PROVE  Works(g, OfEdge("illegal", e))
<1> DEFINE fix == FixOf(g, OfEdge("illegal", e))
           after == Apply(g, fix)
<1>1. fix.add = {} /\ fix.wire = {} /\ fix.drop = {} /\ fix.unwire = {e}
  <2>1. fix = [add |-> {}, wire |-> {}, drop |-> {}, unwire |-> {e}]
    BY FixIs
  <2> HIDE DEF fix
  <2> QED BY <2>1
<1> HIDE DEF fix
<1>2. after = [nodes |-> g.nodes, own |-> g.own, edges |-> g.edges \ {e}]
  <2>1. /\ (g.nodes \ {}) \cup {} = g.nodes /\ g.own \ {} = g.own
        /\ ({d \in g.edges : d[1] \notin {} /\ d[2] \notin {}} \ {e}) \cup {} = g.edges \ {e}
    OBVIOUS
  <2>2. after = [nodes |-> (g.nodes \ {}) \cup {}, own |-> g.own \ {},
                 edges |-> ({d \in g.edges : d[1] \notin {} /\ d[2] \notin {}} \ {e}) \cup {}]
    BY <1>1, ApplyIs, Zenon
  <2> QED BY <2>1, <2>2
<1> HIDE DEF after
<1>3. g.nodes \in SUBSET Nodes /\ g.edges \ {e} \in SUBSET (g.nodes \X g.nodes)
  BY GraphIs
<1>4. [nodes |-> g.nodes, edges |-> g.edges \ {e}, own |-> g.own] \in Graphs
  BY <1>3, GraphIs, NewGraph
<1>5. after \in Graphs /\ after.nodes = g.nodes /\ after.edges = g.edges \ {e}
  BY <1>2, <1>4
<1>6. \A t : Of(after, t) = Of(g, t)
  BY <1>5 DEF Of
<1>7. Errors(after) \subseteq Errors(g)
  BY <1>5, <1>6, ErrorsShrink
<1>8. OfEdge("illegal", e) \notin Issues(after)
  BY <1>5, IssueSays
<1> QED BY <1>5, <1>7, <1>8 DEF Works, after, fix

\* All but the first of a type are removed.
LEMMA FixDuplicate ==
  ASSUME NEW g \in Graphs, NEW t, \E x, y \in Of(g, t) : x # y
  PROVE  Works(g, OfType("duplicate", t))
<1> DEFINE gone == Of(g, t) \ {OnlyOne(g, t)}
           after == Apply(g, Drop(gone))
<1>1. FixOf(g, OfType("duplicate", t)) = Drop(gone)
  BY FixIs
<1>2. OnlyOne(g, t) \in Of(g, t)
  BY OnlyOneIs
<1>3. \A s : s # t => Of(g, s) \cap Of(g, t) = {}
  BY DEF Of
<1>4. \A s \in Singletons : Of(g, s) \ gone = {} => Of(g, s) = {}
  BY <1>2, <1>3
<1>5. /\ after \in Graphs /\ Errors(after) \subseteq Errors(g)
      /\ \A s : Of(after, s) = Of(g, s) \ gone
  <2> HIDE DEF gone
  <2> QED BY <1>4, DropWorks
<1>6. \A x, y \in Of(after, t) : x = y
  <2> HIDE DEF after
  <2> QED BY <1>5
<1>7. OfType("duplicate", t) \notin Issues(after)
  BY <1>5, <1>6, IssueSays
<1> QED BY <1>1, <1>5, <1>7 DEF Works

\* A node that the canvas need not have is dropped.
LEMMA DropOne ==
  ASSUME NEW g \in Graphs, NEW n \in g.nodes, n.type \notin Singletons
  PROVE  LET after == Apply(g, Drop({n}))
         IN after \in Graphs /\ Errors(after) \subseteq Errors(g) /\ n \notin after.nodes
<1>1. \A t \in Singletons : Of(g, t) \ {n} = {} => Of(g, t) = {}
  BY DEF Of
<1> QED BY <1>1, DropWorks

\* The second of the same capability or subagent is removed.
LEMMA FixAgain ==
  ASSUME NEW g \in Graphs, NEW n \in g.nodes, n.type \in OneEach
  PROVE  Works(g, OfNode("again", n))
<1> DEFINE after == Apply(g, Drop({n}))
<1>1. FixOf(g, OfNode("again", n)) = Drop({n})
  BY FixIs
<1>2. after \in Graphs /\ Errors(after) \subseteq Errors(g) /\ n \notin after.nodes
  BY DropOne DEF OneEach, Singletons, CapabilityTypes
<1>3. OfNode("again", n) \notin Issues(after)
  BY <1>2, IssueSays
<1> QED BY <1>1, <1>2, <1>3 DEF Works

\* A missing node is added and wired.
LEMMA FixAbsent ==
  ASSUME NEW g \in Graphs, Of(g, "agent") # {}, NEW code \in {"missing", "defaults"},
         NEW t \in Singletons \cup Defaulted, Of(g, t) = {}
  PROVE  Works(g, OfType(code, t))
<1> DEFINE n == Fresh(g, t, None)
           agent == OnlyOne(g, "agent")
           guard == IF Of(g, "guardrail") = {} THEN agent ELSE OnlyOne(g, "guardrail")
           before == IF Of(g, "input") = {} THEN {} ELSE {<<OnlyOne(g, "input"), n>>}
           ws == CASE t = "input"     -> {<<n, guard>>}
                   [] t = "output"    -> {<<agent, n>>}
                   [] t = "guardrail" -> before \cup {<<n, agent>>}
                   [] t = "memory"    -> {<<n, agent>>}
           ns == g.nodes \cup {n}
           after == Apply(g, [NoFix EXCEPT !.add = {n}, !.wire = ws])
<1>1. FixOf(g, OfType(code, t)) = [NoFix EXCEPT !.add = {n}, !.wire = ws]
  BY FixIs DEF AddNode
<1>2. t \in {"input", "output", "guardrail", "memory"}
  BY DEF Singletons, Defaulted
<1>3. n \in Nodes /\ n.type = t
  BY <1>2, FreshIs DEF Types, Singletons, AtMostOne, RefsOf
<1>4. agent \in ns /\ agent.type = "agent"
  BY OnlyOneIs
<1>5. guard \in ns /\ guard.type \in {"agent", "guardrail"}
  <2>1. CASE Of(g, "guardrail") = {}
    BY <1>4, <2>1
  <2>2. CASE Of(g, "guardrail") # {}
    BY <2>2, OnlyOneIs
  <2> QED BY <2>1, <2>2
<1>6. before \in SUBSET ({m \in g.nodes : m.type = "input"} \X {n})
  <2>1. Of(g, "input") # {} => OnlyOne(g, "input") \in g.nodes /\ OnlyOne(g, "input").type = "input"
    BY OnlyOneIs
  <2> QED BY <2>1
<1> HIDE DEF n, agent, guard, before
<1>7. ws \in SUBSET (ns \X ns) /\ \A e \in ws : Ok(e)
  <2>1. CASE t = "input"
    <3>1. ws = {<<n, guard>>}
      BY <2>1
    <3> HIDE DEF ws
    <3> QED BY <1>3, <1>5, <2>1, <3>1, AllowedTo DEF Ok
  <2>2. CASE t = "output"
    <3>1. ws = {<<agent, n>>}
      BY <2>2
    <3> HIDE DEF ws
    <3> QED BY <1>3, <1>4, <2>2, <3>1, AllowedTo DEF Ok
  <2>3. CASE t = "guardrail"
    <3>1. ws = before \cup {<<n, agent>>}
      BY <2>3
    <3> HIDE DEF ws
    <3> QED BY <1>3, <1>4, <1>6, <2>3, <3>1, AllowedTo DEF Ok
  <2>4. CASE t = "memory"
    <3>1. ws = {<<n, agent>>}
      BY <2>4
    <3> HIDE DEF ws
    <3> QED BY <1>3, <1>4, <2>4, <3>1, AllowedTo DEF Ok
  <2> QED BY <1>2, <2>1, <2>2, <2>3, <2>4
<1> HIDE DEF ws
<1>8. n.type \in Singletons \cup AtMostOne
  BY <1>2, <1>3 DEF Singletons, AtMostOne
<1>9. after \in Graphs /\ Errors(after) \subseteq Errors(g) /\ n \in Of(after, n.type)
  BY <1>3, <1>7, <1>8, AddWorks
<1>10. OfType(code, t) \notin Issues(after)
  <2> HIDE DEF after
  <2> QED BY <1>3, <1>9, IssueSays
<1> QED BY <1>1, <1>9, <1>10 DEF Works

\* Who is wired to a node on the way to the agent is on the way too.
LEMMA WiredAfter ==
  ASSUME NEW g \in Graphs, Valid(g), NEW ws \in SUBSET (g.nodes \X g.nodes), \A e \in ws : Ok(e),
         NEW n \in g.nodes, NEW m \in Reaching(g, g.edges), <<n, m>> \in ws
  PROVE  LET after == Apply(g, Wire(ws)) IN n \in Reaching(after, Legal(after))
<1> DEFINE after == Apply(g, Wire(ws))
<1>1. /\ after \in Graphs /\ Errors(after) \subseteq Errors(g)
      /\ after.nodes = g.nodes /\ after.edges = g.edges \cup ws
      /\ Of(after, "agent") = Of(g, "agent")
  BY WireWorks
<1>2. Valid(after)
  BY <1>1 DEF Valid
<1> HIDE DEF after
<1>3. Reaching(g, g.edges) \subseteq Reaching(after, after.edges)
  BY <1>1, ReachingGrows
<1>4. Legal(after) = after.edges
  BY <1>1, <1>2, ValidWires
<1>5. n \in Reaching(after, after.edges)
  <2>1. m \in Reaching(after, after.edges) /\ <<n, m>> \in after.edges /\ n \in after.nodes
    BY <1>1, <1>3
  <2>2. OnlyOne(after, "agent") \in Reaching(after, after.edges)
    BY <1>1, <1>2, ValidWires
  <2>3. n # OnlyOne(after, "agent") =>
          (n \in Reaching(after, after.edges)
             <=> \E k \in Reaching(after, after.edges) : <<n, k>> \in after.edges)
    BY <1>1, <1>2, <2>1, ValidWires
  <2> QED BY <2>1, <2>2, <2>3
<1> QED BY <1>4, <1>5 DEF after

\* A node of this type on the way, or the other one.
LEMMA OnTheWayIs ==
  ASSUME NEW g \in Graphs, Valid(g), NEW t, NEW other
  PROVE  \/ OnTheWay(g, t, other) = other
         \/ OnTheWay(g, t, other) \in Of(g, t) \cap Reaching(g, g.edges)
<1> DEFINE there == Of(g, t) \cap Reaching(g, g.edges)
<1>1. OnTheWay(g, t, other) = IF there = {} THEN other ELSE First(there)
  BY ValidWires DEF OnTheWay
<1>2. there # {} => First(there) \in there
  <2>1. there \in SUBSET Nodes
    BY OfIs
  <2> QED BY <2>1, FirstIs
<1> HIDE DEF there
<1>3. OnTheWay(g, t, other) = other \/ OnTheWay(g, t, other) \in there
  BY <1>1, <1>2
<1> QED BY <1>3 DEF there

\* A node that was ignored is wired to what reaches the agent.
LEMMA FixOrphan ==
  ASSUME NEW g \in Graphs, Valid(g), NEW n \in g.nodes,
         n.type \in Ignorable \cup CapabilityTypes
  PROVE  Works(g, OfNode("orphan", n))
<1> DEFINE agent == OnlyOne(g, "agent")
           input == OnlyOne(g, "input")
           wired == Reaching(g, g.edges)
           ws == PutBack(g, n)
           after == Apply(g, Wire(ws))
<1>1. FixOf(g, OfNode("orphan", n)) = Wire(ws)
  BY FixIs
<1>2. agent \in wired /\ agent \in g.nodes /\ agent.type = "agent" /\ wired \subseteq g.nodes
  BY ValidWires
<1>3. input \in g.nodes /\ input.type = "input"
  <2>1. Of(g, "input") # {}
    BY ValidIs DEF Singletons
  <2> QED BY <2>1, OnlyOneIs
<1> HIDE DEF agent, input, wired
<1>4. /\ ws \in SUBSET (g.nodes \X g.nodes) /\ \A e \in ws : Ok(e)
      /\ \E m \in wired : <<n, m>> \in ws
  <2>1. CASE n.type = "guardrail"
    <3> DEFINE to == OnTheWay(g, "router", agent)
    <3>1. ws = {<<input, n>>, <<n, to>>}
      BY <2>1 DEF PutBack, agent, input
    <3>2. to = agent \/ to \in Of(g, "router") \cap wired
      BY OnTheWayIs DEF wired
    <3> HIDE DEF ws, to
    <3>3. to \in wired /\ to \in g.nodes /\ to.type \in {"agent", "router"}
      BY <1>2, <3>2 DEF Of
    <3> QED BY <1>3, <2>1, <3>1, <3>3, AllowedTo DEF Ok
  <2>2. CASE n.type = "router"
    <3> DEFINE from == OnTheWay(g, "guardrail", input)
    <3>1. ws = {<<from, n>>, <<n, agent>>}
      BY <2>2 DEF PutBack, agent, input
    <3>2. from = input \/ from \in Of(g, "guardrail") \cap wired
      BY OnTheWayIs DEF wired
    <3> HIDE DEF ws, from
    <3>3. from \in g.nodes /\ from.type \in {"input", "guardrail"}
      BY <1>3, <3>2 DEF Of
    <3> QED BY <1>2, <2>2, <3>1, <3>3, AllowedTo DEF Ok
  <2>3. CASE n.type \notin {"guardrail", "router"}
    <3>1. ws = {<<n, agent>>}
      BY <2>3 DEF PutBack, agent
    <3>2. n.type \in {"memory", "subagent"} \cup CapabilityTypes
      BY <2>3 DEF Ignorable, AtMostOne
    <3>3. <<n.type, "agent">> \in AllowedEdges
      BY <3>2, AllowedTo
    <3> HIDE DEF ws
    <3>4. <<n, agent>> \in ws /\ ws \in SUBSET (g.nodes \X g.nodes)
      BY <1>2, <3>1
    <3>5. \A e \in ws : Ok(e)
      BY <1>2, <3>1, <3>3 DEF Ok
    <3> QED BY <1>2, <3>4, <3>5
  <2> QED BY <2>1, <2>2, <2>3
<1> HIDE DEF ws
<1>5. after \in Graphs /\ Errors(after) \subseteq Errors(g)
  BY <1>4, WireWorks
<1>6. n \in Reaching(after, Legal(after))
  BY <1>4, WiredAfter DEF wired
<1>7. OfNode("orphan", n) \notin Issues(after)
  BY <1>5, <1>6, IssueSays
<1> QED BY <1>1, <1>5, <1>7 DEF Works

\* A subagent is given what it needs, or removed.
LEMMA FixInert ==
  ASSUME NEW g \in Graphs, NEW n \in g.nodes, n.type = "subagent"
  PROVE  Works(g, OfNode("inert", n))
<1> DEFINE there == {k \in g.nodes : <<k.type, k.ref>> \in Needed(n.ref)}
           k == CHOOSE k \in there : TRUE
           fix == FixOf(g, OfNode("inert", n))
<1>1. fix = IF there = {} THEN Drop({n}) ELSE Wire({<<k, n>>})
  BY FixIs DEF Give
<1> HIDE DEF fix
<1>2. CASE there = {}
  <2> DEFINE after == Apply(g, Drop({n}))
  <2>1. after \in Graphs /\ Errors(after) \subseteq Errors(g) /\ n \notin after.nodes
    BY DropOne DEF Singletons
  <2>2. OfNode("inert", n) \notin Issues(after)
    BY <2>1, IssueSays
  <2>3. fix = Drop({n})
    BY <1>1, <1>2
  <2> QED BY <2>1, <2>2, <2>3 DEF Works, fix
<1>3. CASE there # {}
  <2> DEFINE ws == {<<k, n>>}
             after == Apply(g, Wire(ws))
  <2>1. k \in there
    BY <1>3
  <2>2. k \in g.nodes /\ <<k.type, k.ref>> \in Needed(n.ref)
    BY <2>1
  <2> HIDE DEF k
  <2>3. k.type \in CapabilityTypes
    <3>1. n.ref \in {"retrieval", "sql", "research"}
      BY GraphIs, NodeIs, ConstantsAssumption DEF RefsOf
    <3> QED BY <2>2, <3>1 DEF Needed, KnowledgeBase, CapabilityTypes
  <2>4. ws \in SUBSET (g.nodes \X g.nodes) /\ \A e \in ws : Ok(e)
    BY <2>2, <2>3, AllowedTo DEF Ok
  <2>5. <<k, n>> \in ws
    OBVIOUS
  <2> HIDE DEF ws
  <2>6. /\ after \in Graphs /\ Errors(after) \subseteq Errors(g)
        /\ after.nodes = g.nodes /\ after.edges = g.edges \cup ws
    BY <2>4, WireWorks
  <2> HIDE DEF after
  <2>7. HasNeeds(after, n)
    <3>1. n \in Outgoers(after, k)
      BY <2>5, <2>6 DEF Outgoers
    <3>2. Usable(after, n, k)
      BY <3>1 DEF Usable
    <3> QED BY <2>2, <2>6, <3>2 DEF HasNeeds
  <2>8. OfNode("inert", n) \notin Issues(after)
    BY <2>6, <2>7, IssueSays
  <2>9. fix = Wire(ws)
    BY <1>1, <1>3 DEF ws
  <2> QED BY <2>6, <2>8, <2>9 DEF Works, fix, after
<1> QED BY <1>2, <1>3

\* A source is wired to the only knowledge base.
LEMMA FixUnconnected ==
  ASSUME NEW g \in Graphs, NEW n \in g.nodes, n.type = "data_source",
         Cardinality(Of(g, "knowledge_base")) = 1
  PROVE  Works(g, OfNode("unconnected", n))
<1> DEFINE kbs == Of(g, "knowledge_base")
           kb == First(kbs)
           ws == {<<n, kb>>}
           after == Apply(g, Wire(ws))
<1>1. FixOf(g, OfNode("unconnected", n)) = Wire(ws)
  BY FixIs
<1>2. kbs # {}
  BY FS_EmptySet
<1>3. kb \in kbs
  BY <1>2, OfIs, FirstIs
<1>4. kb \in g.nodes /\ kb.type = "knowledge_base"
  BY <1>3 DEF Of
<1> HIDE DEF kb, kbs
<1>5. ws \in SUBSET (g.nodes \X g.nodes) /\ \A e \in ws : Ok(e)
  BY <1>4, AllowedTo DEF Ok
<1>6. <<n, kb>> \in ws
  OBVIOUS
<1> HIDE DEF ws
<1>7. /\ after \in Graphs /\ Errors(after) \subseteq Errors(g)
      /\ after.nodes = g.nodes /\ after.edges = g.edges \cup ws
  BY <1>5, WireWorks
<1> HIDE DEF after
<1>8. kb \in Outgoers(after, n) \cap Of(after, "knowledge_base")
  BY <1>4, <1>6, <1>7 DEF Outgoers, Of
<1>9. OfNode("unconnected", n) \notin Issues(after)
  BY <1>7, <1>8, IssueSays
<1> QED BY <1>1, <1>7, <1>9 DEF Works, after, kb, kbs

\* The input is wired to the first that reaches the agent.
LEMMA FixUnheard ==
  ASSUME NEW g \in Graphs, Valid(g), NEW n \in g.nodes, n.type = "input"
  PROVE  Works(g, OfNode("input_not_wired", n))
<1> DEFINE agent == OnlyOne(g, "agent")
           wired == Reaching(g, g.edges)
           router == OnTheWay(g, "router", agent)
           to == OnTheWay(g, "guardrail", router)
           ws == {<<n, to>>}
           after == Apply(g, Wire(ws))
<1>1. FixOf(g, OfNode("input_not_wired", n)) = Wire(ws)
  BY FixIs
<1>2. agent \in wired /\ agent.type = "agent" /\ wired \subseteq g.nodes
  BY ValidWires
<1>3. /\ router = agent \/ router \in Of(g, "router") \cap wired
      /\ to = router \/ to \in Of(g, "guardrail") \cap wired
  BY OnTheWayIs
<1> HIDE DEF agent, wired, router, to
<1>4. to \in wired /\ to \in g.nodes /\ to.type \in {"agent", "router", "guardrail"}
  BY <1>2, <1>3 DEF Of
<1>5. ws \in SUBSET (g.nodes \X g.nodes) /\ \A e \in ws : Ok(e)
  BY <1>4, AllowedTo DEF Ok
<1>6. <<n, to>> \in ws
  OBVIOUS
<1> HIDE DEF ws
<1>7. after \in Graphs /\ Errors(after) \subseteq Errors(g)
  BY <1>5, WireWorks
<1>8. n \in Reaching(after, Legal(after))
  BY <1>4, <1>5, <1>6, WiredAfter DEF wired
<1>9. OfNode("input_not_wired", n) \notin Issues(after)
  BY <1>7, <1>8, IssueSays
<1> QED BY <1>1, <1>7, <1>9 DEF Works

\* The agent is wired to the output.
LEMMA FixUnread ==
  ASSUME NEW g \in Graphs, Valid(g), NEW n \in g.nodes, n.type = "output"
  PROVE  Works(g, OfNode("output_not_wired", n))
<1> DEFINE agent == OnlyOne(g, "agent")
           ws == {<<agent, n>>}
           after == Apply(g, Wire(ws))
<1>1. FixOf(g, OfNode("output_not_wired", n)) = Wire(ws)
  BY FixIs
<1>2. agent \in g.nodes /\ agent.type = "agent"
  BY ValidWires
<1> HIDE DEF agent
<1>3. ws \in SUBSET (g.nodes \X g.nodes) /\ \A e \in ws : Ok(e)
  BY <1>2, AllowedTo DEF Ok
<1>4. <<agent, n>> \in ws
  OBVIOUS
<1> HIDE DEF ws
<1>5. /\ after \in Graphs /\ Errors(after) \subseteq Errors(g)
      /\ after.nodes = g.nodes /\ after.edges = g.edges \cup ws
  BY <1>3, WireWorks
<1> HIDE DEF after
<1>6. agent \in Incomers(after, n) \cap Of(after, "agent")
  BY <1>2, <1>4, <1>5 DEF Incomers, Of
<1>7. OfNode("output_not_wired", n) \notin Issues(after)
  BY <1>5, <1>6, IssueSays
<1> QED BY <1>1, <1>5, <1>7 DEF Works, after

\* What FixesClear says of any issue of any graph.
LEMMA FixesWork ==
  ASSUME NEW g \in Graphs, NEW i \in Fixable(g)
  PROVE  Works(g, i)
<1>1. i \in Issues(g) /\ FixOf(g, i) # NoFix
  BY DEF Fixable
<1>2. ASSUME i \in Errors(g) PROVE Works(g, i)
  <2>1. CASE \E e \in g.edges : ~Ok(e) /\ i = OfEdge("illegal", e)
    BY <2>1, FixIllegal
  <2>2. CASE \E t \in Singletons : Of(g, t) = {} /\ i = OfType("missing", t)
    <3>1. PICK t \in Singletons : Of(g, t) = {} /\ i = OfType("missing", t)
      BY <2>2
    <3>2. Of(g, "agent") # {}
      BY <1>1, <3>1, FixIs
    <3> QED BY <3>1, <3>2, FixAbsent
  <2>3. CASE \E t \in Singletons \cup AtMostOne :
               (\E x, y \in Of(g, t) : x # y) /\ i = OfType("duplicate", t)
    BY <2>3, FixDuplicate
  <2>4. CASE \E n \in g.nodes :
               n.type \in OneEach /\ n # First(Alike(g, n)) /\ i = OfNode("again", n)
    BY <2>4, FixAgain
  <2> QED BY <1>2, <2>1, <2>2, <2>3, <2>4, ErrorIs, Zenon
<1>3. ASSUME i \in Warnings(g) PROVE Works(g, i)
  <2> DEFINE wired == Reaching(g, Legal(g))
  <2>1. CASE \E t \in Defaulted : Of(g, t) = {} /\ i = OfType("defaults", t)
    <3>1. PICK t \in Defaulted : Of(g, t) = {} /\ i = OfType("defaults", t)
      BY <2>1
    <3>2. Of(g, "agent") # {}
      BY <1>1, <3>1, FixIs
    <3> QED BY <3>1, <3>2, FixAbsent
  <2>2. CASE /\ Valid(g)
             /\ \E n \in g.nodes : /\ n.type \in Ignorable \cup CapabilityTypes
                                   /\ n \notin wired /\ i = OfNode("orphan", n)
    BY <2>2, FixOrphan
  <2>3. CASE \E n \in Of(g, "subagent") :
               n \in wired /\ ~HasNeeds(g, n) /\ i = OfNode("inert", n)
    <3>1. PICK n \in Of(g, "subagent") : i = OfNode("inert", n)
      BY <2>3
    <3>2. n \in g.nodes /\ n.type = "subagent"
      BY DEF Of
    <3> QED BY <3>1, <3>2, FixInert
  <2>4. CASE \E n \in Of(g, "data_source") :
               /\ Outgoers(g, n) \cap Of(g, "knowledge_base") = {}
               /\ i = OfNode("unconnected", n)
    <3>1. PICK n \in Of(g, "data_source") : i = OfNode("unconnected", n)
      BY <2>4
    <3>2. n \in g.nodes /\ n.type = "data_source"
      BY DEF Of
    <3>3. Cardinality(Of(g, "knowledge_base")) = 1
      BY <1>1, <3>1, FixIs
    <3> QED BY <3>1, <3>2, <3>3, FixUnconnected
  <2>5. CASE Valid(g) /\ \E n \in Of(g, "input") :
               n \notin wired /\ i = OfNode("input_not_wired", n)
    <3>1. PICK n \in Of(g, "input") : i = OfNode("input_not_wired", n)
      BY <2>5
    <3>2. n \in g.nodes /\ n.type = "input"
      BY DEF Of
    <3> QED BY <2>5, <3>1, <3>2, FixUnheard
  <2>6. CASE Valid(g) /\ \E n \in Of(g, "output") :
               /\ Incomers(g, n) \cap Of(g, "agent") = {}
               /\ i = OfNode("output_not_wired", n)
    <3>1. PICK n \in Of(g, "output") : i = OfNode("output_not_wired", n)
      BY <2>6
    <3>2. n \in g.nodes /\ n.type = "output"
      BY DEF Of
    <3> QED BY <2>6, <3>1, <3>2, FixUnread
  <2> QED BY <1>3, <2>1, <2>2, <2>3, <2>4, <2>5, <2>6, WarningIs, Zenon
<1> QED BY <1>1, <1>2, <1>3 DEF Issues

-----------------------------------------------------------------------------
(* What is saved: the config's graph, the user's edits of either.          *)

\* The graph on which the user's wiring is tried.
Candidate(c, g) ==
  LET canonical == Canonically(c, g)
      kept == {e \in g.edges : {e[1], e[2]} \subseteq canonical.nodes}
  IN [canonical EXCEPT !.edges = kept \cup Added(canonical, g)]

\* The candidate, edge by edge, and when it is chosen.
LEMMA CandidateIs ==
  ASSUME NEW c \in Bodies, NEW g \in Graphs
  PROVE  LET h == Candidate(c, g)
             canonical == Canonically(c, g)
         IN /\ h \in Graphs /\ h.nodes = canonical.nodes /\ h.own = canonical.own
            /\ \A n, m : <<n, m>> \in h.edges <=>
                 /\ n \in canonical.nodes /\ m \in canonical.nodes
                 /\ \/ <<n, m>> \in g.edges
                    \/ <<n, m>> \in canonical.edges /\ (n \notin g.nodes \/ m \notin g.nodes)
            /\ Project(c, g) = IF SafeWiring(h, c) THEN h ELSE canonical
<1> DEFINE h == Candidate(c, g)
           canonical == Canonically(c, g)
           kept == {e \in g.edges : {e[1], e[2]} \subseteq canonical.nodes}
           added == Added(canonical, g)
<1>1. Project(c, g) = IF SafeWiring(h, c) THEN h ELSE canonical
  BY DEF Project, Candidate
<1>2. canonical \in Graphs
  BY CanonicalGraph
<1>3. h = [canonical EXCEPT !.edges = kept \cup added]
  BY DEF Candidate
<1>4. canonical = [nodes |-> canonical.nodes, edges |-> canonical.edges, own |-> canonical.own]
  BY <1>2, PartsOf
<1> HIDE DEF h, canonical
<1>5. h = [nodes |-> canonical.nodes, edges |-> kept \cup added, own |-> canonical.own]
  <2> HIDE DEF kept, added
  <2> QED BY <1>3, <1>4
<1>6. kept \cup added \in SUBSET (canonical.nodes \X canonical.nodes)
  <2>1. kept \subseteq canonical.nodes \X canonical.nodes
    BY GraphIs
  <2>2. added \subseteq canonical.edges
    BY DEF Added
  <2>3. canonical.edges \subseteq canonical.nodes \X canonical.nodes
    BY <1>2, GraphIs
  <2> QED BY <2>1, <2>2, <2>3
<1>7. \A n, m : <<n, m>> \in kept <=>
        <<n, m>> \in g.edges /\ n \in canonical.nodes /\ m \in canonical.nodes
  OBVIOUS
<1>8. \A n, m : <<n, m>> \in added <=>
        /\ <<n, m>> \in canonical.edges /\ n \in canonical.nodes /\ m \in canonical.nodes
        /\ n \notin g.nodes \/ m \notin g.nodes
  <2>1. \A n, m : <<n, m>> \in canonical.edges => n \in canonical.nodes /\ m \in canonical.nodes
    BY <1>2, GraphIs
  <2> QED BY <2>1 DEF Added
<1> HIDE DEF kept, added
<1>9. h.nodes = canonical.nodes /\ h.own = canonical.own /\ h.edges = kept \cup added
  BY <1>5
<1>10. h \in Graphs
  BY <1>2, <1>5, <1>6, GraphIs, NewGraph
<1> QED BY <1>1, <1>7, <1>8, <1>9, <1>10 DEF h, canonical

\* What is projected compiles to what it was projected from, whatever was on the canvas.
LEMMA ProjectIs ==
  ASSUME NEW c \in Configs, NEW g \in Graphs
  PROVE  Project(c, g) \in Graphs /\ Compile(Project(c, g)) = InUse(c)
<1> DEFINE h == Candidate(c, g)
<1>1. c \in Bodies
  BY ConfigIs
<1>2. h \in Graphs /\ Project(c, g) = IF SafeWiring(h, c) THEN h ELSE Canonically(c, g)
  BY <1>1, CandidateIs
<1> HIDE DEF h
<1>3. CASE SafeWiring(h, c)
  <2>1. Valid(h) /\ Compile(h) = c
    BY <1>3 DEF SafeWiring
  <2>2. InUse(c) = c
    BY <1>2, <2>1, CompiledConfig
  <2> QED BY <1>2, <1>3, <2>1, <2>2
<1>4. CASE ~SafeWiring(h, c)
  BY <1>1, <1>2, <1>4, CanonicalGraph, CanonicalCompiles
<1> QED BY <1>3, <1>4

\* The graph before anything is drawn.
LEMMA EmptyIs == EmptyGraph \in Graphs
<1>1. IsFiniteSet({})
  BY FS_EmptySet
<1>2. [nodes |-> {}, edges |-> {}, own |-> {}] \in Graphs
  BY <1>1, NewGraph
<1> QED BY <1>2 DEF EmptyGraph

\* What a config is normalised to is for who is on.
LEMMA CanonicalConfig ==
  ASSUME NEW c \in Bodies
  PROVE  Canonical(c) \in Configs
<1> DEFINE roles(k) == c.scope[k] \cap c.subs
           to(k) == IF c.scope[k] = {} THEN {}
                    ELSE roles(k) \cup (IF roles(k) = {} THEN {"agent"}
                                        ELSE c.scope[k] \cap {"agent"})
           scope == [k \in Capabilities |-> to(k)]
           d == Canonical(c)
<1>1. d = [own |-> c.own, router |-> c.router, scope |-> scope, sources |-> c.sources,
           subs |-> c.subs]
  <2>1. d = [c EXCEPT !.scope = scope]
    BY DEF Canonical
  <2> HIDE DEF scope, d
  <2> QED BY <2>1 DEF Bodies
<1>2. c.subs \subseteq Roles
  BY BodyIs
<1>3. \A k \in Capabilities : /\ to(k) \subseteq c.subs \cup {"agent"}
                              /\ to(k) # {} => c.scope[k] # {}
  OBVIOUS
<1> HIDE DEF to, d
<1>4. scope \in [Capabilities -> SUBSET ({"agent"} \cup Roles)]
  <2>1. \A k \in Capabilities : to(k) \in SUBSET ({"agent"} \cup Roles)
    BY <1>2, <1>3
  <2> QED BY <2>1
<1>5. IsFiniteSet({k \in Capabilities : scope[k] # {}})
  <2>1. {k \in Capabilities : scope[k] # {}} \subseteq On(c)
    BY <1>3 DEF On
  <2> HIDE DEF scope
  <2> QED BY <2>1, BodyIs, FS_Subset
<1>6. \A k \in Capabilities : scope[k] \subseteq c.subs \cup {"agent"}
  BY <1>3
<1> HIDE DEF scope
<1>7. d \in Bodies
  BY <1>1, <1>4, <1>5, BodyIs, NewBody
<1>8. \A k \in Capabilities : d.scope[k] \subseteq d.subs \cup {"agent"}
  BY <1>1, <1>6
<1> QED BY <1>7, <1>8 DEF Configs, d

\* One more or one less.
LEMMA ToggledIs ==
  ASSUME NEW T, NEW S \in SUBSET T, NEW x \in T
  PROVE  Toggled(S, x) \in SUBSET T /\ (IsFiniteSet(S) => IsFiniteSet(Toggled(S, x)))
<1>1. IsFiniteSet(S) => IsFiniteSet(S \ {x}) /\ IsFiniteSet(S \cup {x})
  BY FS_Subset, FS_AddElement
<1> QED BY <1>1 DEF Toggled

\* What the user may save is a config.
LEMMA SettingsAre ==
  ASSUME NEW c \in Configs
  PROVE  Settings(c) \subseteq Configs
<1>1. c \in Bodies
  BY ConfigIs
<1>2. /\ c = [own |-> c.own, router |-> c.router, scope |-> c.scope,
              sources |-> c.sources, subs |-> c.subs]
      /\ c.own \subseteq Defaulted /\ c.router \in BOOLEAN
      /\ c.scope \in [Capabilities -> SUBSET ({"agent"} \cup Roles)]
      /\ c.sources \subseteq Sources /\ c.subs \subseteq Roles
      /\ IsFiniteSet({k \in Capabilities : c.scope[k] # {}}) /\ IsFiniteSet(c.sources)
  BY <1>1, BodyIs DEF Bodies, On
<1>3. [c EXCEPT !.router = ~@] \in Bodies
  <2>1. (~c.router) \in BOOLEAN
    BY <1>2
  <2>2. [c EXCEPT !.router = ~c.router]
          = [own |-> c.own, router |-> ~c.router, scope |-> c.scope, sources |-> c.sources,
             subs |-> c.subs]
    <3> DEFINE off == ~c.router
    <3> HIDE DEF off
    <3>1. [c EXCEPT !.router = off]
            = [own |-> c.own, router |-> off, scope |-> c.scope, sources |-> c.sources,
               subs |-> c.subs]
      BY <1>2
    <3> QED BY <3>1, Zenon DEF off
  <2>3. [c EXCEPT !.router = ~c.router] \in Bodies
    <3> DEFINE off == ~c.router
    <3> HIDE DEF off
    <3>1. off \in BOOLEAN
      BY <2>1 DEF off
    <3>2. [own |-> c.own, router |-> off, scope |-> c.scope, sources |-> c.sources,
           subs |-> c.subs] \in Bodies
      BY <1>2, <3>1, NewBody
    <3> QED BY <2>2, <3>2, Zenon DEF off
  <2> QED BY <2>3, Zenon
<1>4. ASSUME NEW t \in Defaulted PROVE [c EXCEPT !.own = Toggled(@, t)] \in Bodies
  <2>1. [c EXCEPT !.own = Toggled(@, t)]
          = [own |-> Toggled(c.own, t), router |-> c.router, scope |-> c.scope,
             sources |-> c.sources, subs |-> c.subs]
    BY <1>2
  <2>2. Toggled(c.own, t) \in SUBSET Defaulted
    BY <1>2, ToggledIs
  <2>3. \A own \in SUBSET Defaulted :
          [own |-> own, router |-> c.router, scope |-> c.scope, sources |-> c.sources,
           subs |-> c.subs] \in Bodies
    BY <1>2, NewBody
  <2> QED BY <2>1, <2>2, <2>3
<1>5. ASSUME NEW r \in Roles PROVE [c EXCEPT !.subs = Toggled(@, r)] \in Bodies
  <2>1. [c EXCEPT !.subs = Toggled(@, r)]
          = [own |-> c.own, router |-> c.router, scope |-> c.scope,
             sources |-> c.sources, subs |-> Toggled(c.subs, r)]
    BY <1>2
  <2>2. Toggled(c.subs, r) \in SUBSET Roles
    BY <1>2, ToggledIs
  <2> QED BY <1>2, <2>1, <2>2, NewBody
<1>6. ASSUME NEW s \in Sources PROVE [c EXCEPT !.sources = Toggled(@, s)] \in Bodies
  <2>1. [c EXCEPT !.sources = Toggled(@, s)]
          = [own |-> c.own, router |-> c.router, scope |-> c.scope,
             sources |-> Toggled(c.sources, s), subs |-> c.subs]
    BY <1>2
  <2>2. Toggled(c.sources, s) \in SUBSET Sources /\ IsFiniteSet(Toggled(c.sources, s))
    BY <1>2, ToggledIs
  <2> QED BY <1>2, <2>1, <2>2, NewBody
<1>7. ASSUME NEW k \in Capabilities, NEW s \in SUBSET ({"agent"} \cup Roles)
      PROVE  [c EXCEPT !.scope[k] = s] \in Bodies
  <2> DEFINE scope == [c.scope EXCEPT ![k] = s]
  <2>1. [c EXCEPT !.scope[k] = s]
          = [own |-> c.own, router |-> c.router, scope |-> scope,
             sources |-> c.sources, subs |-> c.subs]
    BY <1>2
  <2>2. scope \in [Capabilities -> SUBSET ({"agent"} \cup Roles)]
    BY <1>2
  <2>3. {j \in Capabilities : scope[j] # {}} \subseteq {j \in Capabilities : c.scope[j] # {}} \cup {k}
    BY <1>2
  <2>4. IsFiniteSet({j \in Capabilities : c.scope[j] # {}} \cup {k})
    BY <1>2, FS_AddElement
  <2>5. IsFiniteSet({j \in Capabilities : scope[j] # {}})
    BY <2>3, <2>4, FS_Subset
  <2> HIDE DEF scope
  <2>6. [own |-> c.own, router |-> c.router, scope |-> scope, sources |-> c.sources,
         subs |-> c.subs] \in Bodies
    BY <1>2, <2>2, <2>5, NewBody
  <2> QED BY <2>1, <2>6, Zenon
<1> DEFINE Ds == {c, [c EXCEPT !.router = ~@]}
                   \cup {[c EXCEPT !.own = Toggled(@, t)] : t \in Defaulted}
                   \cup {[c EXCEPT !.subs = Toggled(@, r)] : r \in Roles}
                   \cup {[c EXCEPT !.sources = Toggled(@, s)] : s \in Sources}
                   \cup UNION {{[c EXCEPT !.scope[k] = s] : s \in SUBSET ({"agent"} \cup Roles)} :
                                 k \in Capabilities}
<1>8. Settings(c) = {Canonical(d) : d \in Ds}
  BY DEF Settings
<1>9. ASSUME NEW d \in Ds PROVE d \in Bodies
  <2>1. CASE d \in {c, [c EXCEPT !.router = ~@]}
    BY <1>1, <1>3, <2>1, Zenon
  <2>2. CASE d \in {[c EXCEPT !.own = Toggled(@, t)] : t \in Defaulted}
    BY <1>4, <2>2
  <2>3. CASE d \in {[c EXCEPT !.subs = Toggled(@, r)] : r \in Roles}
    BY <1>5, <2>3
  <2>4. CASE d \in {[c EXCEPT !.sources = Toggled(@, s)] : s \in Sources}
    BY <1>6, <2>4
  <2>5. CASE d \in UNION {{[c EXCEPT !.scope[k] = s] : s \in SUBSET ({"agent"} \cup Roles)} :
                            k \in Capabilities}
    BY <1>7, <2>5
  <2> QED BY <2>1, <2>2, <2>3, <2>4, <2>5, Zenon
<1> HIDE DEF Ds
<1>10. ASSUME NEW e \in Settings(c) PROVE e \in Configs
  <2>1. PICK d \in Ds : e = Canonical(d)
    BY <1>8
  <2> QED BY <1>9, <2>1, CanonicalConfig
<1> QED BY <1>10

\* A graph with one part changed.
LEMMA ChangedPart ==
  ASSUME NEW g \in Graphs, NEW x
  PROVE  /\ [g EXCEPT !.nodes = x] = [nodes |-> x, edges |-> g.edges, own |-> g.own]
         /\ [g EXCEPT !.edges = x] = [nodes |-> g.nodes, edges |-> x, own |-> g.own]
         /\ [g EXCEPT !.own = x] = [nodes |-> g.nodes, edges |-> g.edges, own |-> x]
BY DEF Graphs

\* What the user may save is a graph.
LEMMA EditsAre ==
  ASSUME NEW g \in Graphs
  PROVE  Edits(g) \subseteq Graphs
<1> DEFINE drawn == {e \in g.nodes \X g.nodes :
                       <<e[1].type, e[2].type>> \in AllowedEdges \cup Misdrawn}
           A == UNION {{[g EXCEPT !.nodes = @ \cup {Fresh(g, t, r)}] : r \in RefsOf(t)} : t \in Types}
           B == {Without(g, {n}) : n \in g.nodes}
           C == {[g EXCEPT !.edges = @ \cup {e}] : e \in drawn}
           D == {[g EXCEPT !.edges = @ \ {e}] : e \in g.edges}
           E == {[g EXCEPT !.own = @ \cup {n}] : n \in Of(g, "guardrail") \cup Of(g, "memory")}
           F == {Apply(g, FixOf(g, i)) : i \in Fixable(g)}
<1>1. Edits(g) = A \cup B \cup C \cup D \cup E \cup F
  BY DEF Edits
<1>2. /\ g = [nodes |-> g.nodes, edges |-> g.edges, own |-> g.own]
      /\ g.nodes \subseteq Nodes /\ IsFiniteSet(g.nodes) /\ g.edges \subseteq g.nodes \X g.nodes
      /\ \A n \in g.own : n \in g.nodes /\ n.type \in Defaulted
  BY GraphIs, PartsOf
<1>3. A \subseteq Graphs
  <2>1. ASSUME NEW t \in Types, NEW r \in RefsOf(t)
        PROVE  [g EXCEPT !.nodes = @ \cup {Fresh(g, t, r)}] \in Graphs
    <3> DEFINE ns == g.nodes \cup {Fresh(g, t, r)}
    <3>1. ns \in SUBSET Nodes /\ IsFiniteSet(ns)
      BY <1>2, FreshIs, FS_AddElement
    <3>2. /\ g.edges \in SUBSET (ns \X ns)
          /\ \A n \in g.own : n \in ns /\ n.type \in Defaulted
      BY <1>2
    <3>3. [g EXCEPT !.nodes = @ \cup {Fresh(g, t, r)}]
            = [nodes |-> ns, edges |-> g.edges, own |-> g.own]
      BY ChangedPart, Zenon
    <3> HIDE DEF ns
    <3>4. [nodes |-> ns, edges |-> g.edges, own |-> g.own] \in Graphs
      BY <3>1, <3>2, NewGraph
    <3> QED BY <3>3, <3>4, Zenon
  <2> QED BY <2>1
<1>4. B \subseteq Graphs
  <2>1. \A n \in g.nodes : Without(g, {n}) \in Graphs
    BY WithoutIs
  <2> QED BY <2>1
<1>5. C \subseteq Graphs
  <2>1. ASSUME NEW e \in drawn PROVE [g EXCEPT !.edges = @ \cup {e}] \in Graphs
    <3> DEFINE es == g.edges \cup {e}
    <3>1. es \in SUBSET (g.nodes \X g.nodes)
      BY <1>2
    <3>2. [g EXCEPT !.edges = @ \cup {e}] = [nodes |-> g.nodes, edges |-> es, own |-> g.own]
      BY ChangedPart, Zenon
    <3> HIDE DEF es
    <3>3. [nodes |-> g.nodes, edges |-> es, own |-> g.own] \in Graphs
      BY <1>2, <3>1, NewGraph
    <3> QED BY <3>2, <3>3, Zenon
  <2> QED BY <2>1
<1>6. D \subseteq Graphs
  <2>1. ASSUME NEW e \in g.edges PROVE [g EXCEPT !.edges = @ \ {e}] \in Graphs
    <3> DEFINE es == g.edges \ {e}
    <3>1. es \in SUBSET (g.nodes \X g.nodes)
      BY <1>2
    <3>2. [g EXCEPT !.edges = @ \ {e}] = [nodes |-> g.nodes, edges |-> es, own |-> g.own]
      BY ChangedPart, Zenon
    <3> HIDE DEF es
    <3>3. [nodes |-> g.nodes, edges |-> es, own |-> g.own] \in Graphs
      BY <1>2, <3>1, NewGraph
    <3> QED BY <3>2, <3>3, Zenon
  <2> QED BY <2>1
<1>7. E \subseteq Graphs
  <2>1. ASSUME NEW m \in Of(g, "guardrail") \cup Of(g, "memory")
        PROVE  [g EXCEPT !.own = @ \cup {m}] \in Graphs
    <3> DEFINE os == g.own \cup {m}
    <3>1. m \in g.nodes /\ m.type \in Defaulted
      BY DEF Of, Defaulted
    <3>2. \A n \in os : n \in g.nodes /\ n.type \in Defaulted
      BY <1>2, <3>1
    <3>3. [g EXCEPT !.own = @ \cup {m}] = [nodes |-> g.nodes, edges |-> g.edges, own |-> os]
      BY ChangedPart, Zenon
    <3> HIDE DEF os
    <3>4. [nodes |-> g.nodes, edges |-> g.edges, own |-> os] \in Graphs
      BY <1>2, <3>2, NewGraph
    <3> QED BY <3>3, <3>4, Zenon
  <2> QED BY <2>1
<1>8. F \subseteq Graphs
  BY FixesWork DEF Works
<1> HIDE DEF A, B, C, D, E, F
<1> QED BY <1>1, <1>3, <1>4, <1>5, <1>6, <1>7, <1>8

-----------------------------------------------------------------------------
(* The inductive invariant.                                                *)

\* A save under way.
SaveType ==
  [kind : {"graph", "config"}, seen : Drafts, graph : Graphs, config : Configs, clean : BOOLEAN]

\* What a save of this kind will write.
Follows(s) ==
  /\ s.kind = "graph" /\ Valid(s.graph) => s.config = Compile(s.graph)
  /\ s.kind = "config" => s.graph = Project(s.config, s.seen.graph)

\* No save under way is told from every save.
LEMMA NothingIs == Nothing.kind = None /\ Nothing \notin SaveType
<1>1. Nothing.kind = None
  BY DEF Nothing
<1> QED BY <1>1, ConstantsAssumption DEF SaveType

\* A graph and a config that were compiled or projected from each other agree.
LEMMA FollowingAgrees ==
  ASSUME NEW s \in SaveType, Follows(s), Valid(s.graph)
  PROVE  Compile(s.graph) = InUse(s.config)
<1>1. s.graph \in Graphs /\ s.config \in Configs /\ s.seen.graph \in Graphs
  BY DEF SaveType, Drafts
<1>2. CASE s.kind = "graph"
  BY <1>1, <1>2, CompiledConfig DEF Follows
<1>3. CASE s.kind = "config"
  <2>1. s.graph = Project(s.config, s.seen.graph)
    BY <1>3 DEF Follows
  <2> QED BY <1>1, <2>1, ProjectIs
<1> QED BY <1>2, <1>3 DEF SaveType

\* SavesHold with its last two parts named.
LEMMA HoldsIs ==
  SavesHold <=> \A h \in Handlers : save[h] # Nothing =>
                  (save[h].clean => save[h].seen = draft) /\ Follows(save[h])
BY DEF SavesHold, Follows

\* It holds of the first draft: the projection of a config.
LEMMA DraftInitInv == DraftInit => DraftInv
<1> SUFFICES ASSUME DraftInit PROVE DraftInv
  OBVIOUS
<1>1. PICK drawn \in Starts, c \in Starts :
        draft = [graph |-> Project(drawn, EmptyGraph), config |-> c] /\ lone = (drawn = c)
  BY DEF DraftInit
<1>2. drawn \in Configs /\ c \in Configs
  BY StartsAssumption
<1>3. Project(drawn, EmptyGraph) \in Graphs /\ Compile(Project(drawn, EmptyGraph)) = InUse(drawn)
  BY <1>2, EmptyIs, ProjectIs
<1>4. save = [h \in Handlers |-> Nothing] /\ saves = 0
  BY DEF DraftInit
<1>5. draft \in Drafts /\ draft.graph = Project(drawn, EmptyGraph) /\ draft.config = c
  BY <1>1, <1>2, <1>3 DEF Drafts
<1>6. lone \in BOOLEAN
  BY <1>1
<1>7. saves \in 0..MaxSaves
  BY <1>4, ConstantsAssumption
<1>8. save \in [Handlers -> {Nothing} \cup SaveType] /\ \A h \in Handlers : save[h] = Nothing
  BY <1>4
<1>9. DraftTypeOK
  BY <1>5, <1>6, <1>7, <1>8, Zenon DEF DraftTypeOK, SaveType
<1>10. SavesHold
  BY <1>8 DEF SavesHold
<1>11. InSync
  BY <1>1, <1>3, <1>5 DEF InSync
<1> QED BY <1>9, <1>10, <1>11 DEF DraftInv

\* A request that loads the draft and works out what to write.
LEMMA AsksKeeps ==
  ASSUME DraftInv, NEW h \in Handlers, NEW kind \in {"graph", "config"},
         NEW g \in Graphs, NEW c \in Configs, Asks(h, kind, g, c),
         kind = "graph" /\ Valid(g) => c = Compile(g),
         kind = "config" => g = Project(c, draft.graph)
  PROVE  DraftInv'
<1> DEFINE s == [kind |-> kind, seen |-> draft, graph |-> g, config |-> c, clean |-> TRUE]
<1>1. /\ draft \in Drafts /\ lone \in BOOLEAN /\ saves \in 0..MaxSaves
      /\ save \in [Handlers -> {Nothing} \cup SaveType] /\ SavesHold /\ InSync
  BY DEF DraftInv, DraftTypeOK, SaveType
<1>2. /\ saves < MaxSaves /\ saves' = saves + 1 /\ save' = [save EXCEPT ![h] = s]
      /\ draft' = draft /\ lone' = lone
  BY DEF Asks
<1>3. s \in SaveType
  BY <1>1 DEF SaveType
<1>4. s.seen = draft /\ Follows(s)
  BY DEF Follows
<1> HIDE DEF s
<1>5. save' \in [Handlers -> {Nothing} \cup SaveType]
  BY <1>1, <1>2, <1>3
<1>6. saves' \in 0..MaxSaves
  BY <1>1, <1>2, ConstantsAssumption
<1>7. DraftTypeOK'
  BY <1>1, <1>2, <1>5, <1>6, Zenon DEF DraftTypeOK, SaveType
<1>8. SavesHold'
  <2>1. ASSUME NEW i \in Handlers, save'[i] # Nothing
        PROVE  (save'[i].clean => save'[i].seen = draft') /\ Follows(save'[i])
    <3>1. CASE i = h
      <4>1. save'[i] = s
        BY <1>1, <1>2, <3>1
      <4> QED BY <1>2, <1>4, <4>1
    <3>2. CASE i # h
      <4>1. save'[i] = save[i]
        BY <1>1, <1>2, <3>2
      <4> QED BY <1>1, <1>2, <2>1, <4>1, HoldsIs
    <3> QED BY <3>1, <3>2
  <2> QED BY <2>1 DEF SavesHold, Follows
<1>9. InSync'
  BY <1>1, <1>2 DEF InSync
<1> QED BY <1>7, <1>8, <1>9 DEF DraftInv

\* What is written was loaded from what is there, if no other was committed in between.
LEMMA CommitWrites ==
  ASSUME DraftInv, NEW h \in Handlers, Commit(h)
  PROVE  /\ save[h] \in SaveType /\ Follows(save[h]) /\ lone' = save[h].clean
         /\ draft' \in Drafts
         /\ save[h].clean => /\ draft = save[h].seen
                             /\ draft'.graph = save[h].graph /\ draft'.config = save[h].config
<1> DEFINE s == save[h]
           g == IF s.graph = s.seen.graph THEN draft.graph ELSE s.graph
           c == IF s.config = s.seen.config THEN draft.config ELSE s.config
<1>1. draft \in Drafts /\ save \in [Handlers -> {Nothing} \cup SaveType] /\ SavesHold
  BY DEF DraftInv, DraftTypeOK, SaveType
<1>2. s # Nothing /\ draft' = [graph |-> g, config |-> c] /\ lone' = s.clean
  BY DEF Commit
<1>3. s \in SaveType
  BY <1>1, <1>2
<1>4. (s.clean => s.seen = draft) /\ Follows(s)
  BY <1>1, <1>2, HoldsIs
<1>5. g \in Graphs /\ c \in Configs
  BY <1>1, <1>3 DEF SaveType, Drafts
<1>6. s.clean => g = s.graph /\ c = s.config
  BY <1>4
<1> HIDE DEF g, c
<1>7. draft'.graph = g /\ draft'.config = c /\ draft' \in Drafts
  BY <1>2, <1>5 DEF Drafts
<1> QED BY <1>2, <1>3, <1>4, <1>6, <1>7

\* A row that is written.
LEMMA CommitKeeps ==
  ASSUME DraftInv, NEW h \in Handlers, Commit(h)
  PROVE  DraftInv'
<1>1. /\ saves \in 0..MaxSaves /\ save \in [Handlers -> {Nothing} \cup SaveType] /\ SavesHold
  BY DEF DraftInv, DraftTypeOK, SaveType
<1>2. /\ save' = [i \in Handlers |-> IF i = h THEN Nothing
                                    ELSE IF save[i] = Nothing THEN Nothing
                                    ELSE [save[i] EXCEPT !.clean = FALSE]]
      /\ saves' = saves
  BY DEF Commit
<1>3. /\ save[h] \in SaveType /\ Follows(save[h]) /\ lone' = save[h].clean
      /\ draft' \in Drafts
      /\ save[h].clean => draft'.graph = save[h].graph /\ draft'.config = save[h].config
  BY CommitWrites
<1>4. ASSUME NEW i \in Handlers, save'[i] # Nothing
      PROVE  save'[i] \in SaveType /\ ~save'[i].clean /\ Follows(save'[i])
  <2>1. save[i] # Nothing /\ save'[i] = [save[i] EXCEPT !.clean = FALSE]
    BY <1>2, <1>4
  <2>2. save[i] \in SaveType /\ Follows(save[i])
    BY <1>1, <2>1, HoldsIs
  <2>3. /\ save'[i] \in SaveType /\ save'[i].clean = FALSE
        /\ save'[i].kind = save[i].kind /\ save'[i].graph = save[i].graph
        /\ save'[i].config = save[i].config /\ save'[i].seen = save[i].seen
    BY <2>1, <2>2 DEF SaveType
  <2> QED BY <2>2, <2>3 DEF Follows
<1>5. save' \in [Handlers -> {Nothing} \cup SaveType]
  <2>1. \A i \in Handlers : save'[i] \in {Nothing} \cup SaveType
    BY <1>4
  <2>2. save' = [i \in Handlers |-> save'[i]]
    BY <1>2
  <2> QED BY <2>1, <2>2
<1>6. lone' \in BOOLEAN
  BY <1>3 DEF SaveType
<1>7. DraftTypeOK'
  BY <1>1, <1>2, <1>3, <1>5, <1>6, Zenon DEF DraftTypeOK, SaveType
<1>8. SavesHold'
  BY <1>4 DEF SavesHold, Follows
<1>9. InSync'
  BY <1>3, FollowingAgrees DEF InSync
<1> QED BY <1>7, <1>8, <1>9 DEF DraftInv

\* Every step keeps the invariant.
LEMMA DraftNextInv == DraftInv /\ [DraftNext]_draftVars => DraftInv'
<1> SUFFICES ASSUME DraftInv, [DraftNext]_draftVars PROVE DraftInv'
  OBVIOUS
<1>1. draft.graph \in Graphs /\ draft.config \in Configs
  BY DEF DraftInv, DraftTypeOK, Drafts
<1>2. ASSUME NEW h \in Handlers, SaveGraph(h) PROVE DraftInv'
  <2>1. PICK g \in Edits(draft.graph) :
          Asks(h, "graph", g, IF Valid(g) THEN Compile(g) ELSE draft.config)
    BY <1>2 DEF SaveGraph
  <2>2. g \in Graphs
    BY <1>1, EditsAre
  <2>3. CASE Valid(g)
    BY <2>1, <2>2, <2>3, CompiledConfig, AsksKeeps
  <2>4. CASE ~Valid(g)
    BY <1>1, <2>1, <2>2, <2>4, AsksKeeps
  <2> QED BY <2>3, <2>4
<1>3. ASSUME NEW h \in Handlers, SaveConfig(h) PROVE DraftInv'
  <2>1. PICK c \in Settings(draft.config) : Asks(h, "config", Project(c, draft.graph), c)
    BY <1>3 DEF SaveConfig
  <2>2. c \in Configs
    BY <1>1, SettingsAre
  <2>3. Project(c, draft.graph) \in Graphs
    BY <1>1, <2>2, ProjectIs
  <2> QED BY <2>1, <2>2, <2>3, AsksKeeps
<1>4. ASSUME NEW h \in Handlers, SubmitDraft(h) PROVE DraftInv'
  <2>1. Valid(draft.graph) /\ Asks(h, "graph", draft.graph, Compile(draft.graph))
    BY <1>4 DEF SubmitDraft
  <2> QED BY <1>1, <2>1, CompiledConfig, AsksKeeps
<1>5. ASSUME NEW h \in Handlers, Commit(h) PROVE DraftInv'
  BY <1>5, CommitKeeps
<1>6. CASE UNCHANGED draftVars
  BY <1>6 DEF draftVars, DraftInv, DraftTypeOK, SavesHold, InSync
<1> QED BY <1>2, <1>3, <1>4, <1>5, <1>6 DEF DraftNext

-----------------------------------------------------------------------------
\* Drafts stay graphs and configs, and what a save under way will write follows from what
\* it loaded (save_draft_graph, save_draft_config).
THEOREM DraftInvariance == DraftSpec => []DraftInv
BY DraftInitInv, DraftNextInv, PTL DEF DraftSpec

\* The graph compiles to the config whenever it is valid and the last save met no other
\* (services/assistants.py, graph/compile.py, graph/project.py).
THEOREM GraphAndConfigAgree == DraftSpec => []InSync
<1>1. DraftInv => InSync
  BY DEF DraftInv
<1> QED BY <1>1, DraftInvariance, PTL

\* Every fix clears its issue and adds no error, on any graph the user may draw
\* (graph/fixes.py).
THEOREM FixesClearIssues == DraftSpec => []FixesClear
<1>1. DraftInv => FixesClear
  BY FixesWork DEF DraftInv, DraftTypeOK, Drafts, FixesClear, Works
<1> QED BY <1>1, DraftInvariance, PTL

\* A graph with no warning is compiled whole (graph/validate.py, graph/compile.py).
THEOREM NothingDrawnIgnored == DraftSpec => []NothingIgnored
<1>1. DraftInv => NothingIgnored
  <2> SUFFICES ASSUME DraftInv PROVE NothingIgnored
    OBVIOUS
  <2>1. draft.graph \in Graphs
    BY DEF DraftInv, DraftTypeOK, Drafts
  <2> QED BY <2>1, Unignored DEF NothingIgnored
<1> QED BY <1>1, DraftInvariance, PTL

-----------------------------------------------------------------------------
(* The user's wiring is kept where it means what the config says.          *)

\* In a valid graph, what leads on to who reaches the agent reaches it.
LEMMA LeadsOn ==
  ASSUME NEW g \in Graphs, Valid(g), NEW n, NEW m, <<n, m>> \in g.edges,
         m \in Reaching(g, g.edges)
  PROVE  n \in Reaching(g, g.edges)
<1> DEFINE wired == Reaching(g, g.edges)
           agent == OnlyOne(g, "agent")
<1>1. /\ agent \in wired /\ n \in g.nodes
      /\ \A x \in g.nodes : x # agent => (x \in wired <=> \E y \in wired : <<x, y>> \in g.edges)
  BY ValidWires
<1> HIDE DEF wired, agent
<1>2. n \in wired
  BY <1>1 DEF wired
<1> QED BY <1>2 DEF wired

\* What AsDrawn asks for, part by part.
LEMMA DrawnParts ==
  ASSUME NEW c \in Configs, NEW g \in Graphs, AsDrawn(c, g)
  PROVE  /\ Valid(g) /\ c \in Bodies /\ Compile(g) \in Bodies
         /\ c.router = Compile(g).router /\ c.scope = Compile(g).scope
         /\ c.sources = Compile(g).sources /\ c.subs = Compile(g).subs
         /\ \A t \in c.own : \A n \in g.nodes : n.type = t => n \in Reaching(g, g.edges)
         /\ \A n \in g.nodes : Alike(g, n) = {n}
<1> DEFINE d == Compile(g)
           wired == Reaching(g, g.edges)
<1>1. /\ Valid(g) /\ [c EXCEPT !.own = {}] = [d EXCEPT !.own = {}]
      /\ (UNION {Of(g, t) : t \in c.own}) \subseteq wired
      /\ \A n \in g.nodes : Alike(g, n) = {n}
  BY DEF AsDrawn
<1>2. c \in Bodies /\ d \in Bodies
  BY <1>1, CompiledConfig, ConfigIs
<1> HIDE DEF d, wired
<1>3. /\ [c EXCEPT !.own = {}].router = c.router /\ [c EXCEPT !.own = {}].scope = c.scope
      /\ [c EXCEPT !.own = {}].sources = c.sources /\ [c EXCEPT !.own = {}].subs = c.subs
  BY <1>2 DEF Bodies
<1>4. /\ [d EXCEPT !.own = {}].router = d.router /\ [d EXCEPT !.own = {}].scope = d.scope
      /\ [d EXCEPT !.own = {}].sources = d.sources /\ [d EXCEPT !.own = {}].subs = d.subs
  BY <1>2 DEF Bodies
<1>5. c.router = d.router /\ c.scope = d.scope /\ c.sources = d.sources /\ c.subs = d.subs
  BY <1>1, <1>3, <1>4
<1>6. ASSUME NEW t \in c.own, NEW n \in g.nodes, n.type = t PROVE n \in wired
  <2>1. n \in Of(g, t)
    BY <1>6 DEF Of
  <2> QED BY <1>1, <2>1
<1> QED BY <1>1, <1>2, <1>5, <1>6 DEF d, wired

\* The candidate's nodes are the user's that the config has, and what is always there of
\* guardrails and memory; between the user's, its edges are the user's.
LEMMA CandidateNodes ==
  ASSUME NEW c \in Configs, NEW g \in Graphs, AsDrawn(c, g)
  PROVE  LET h == Candidate(c, g)
         IN /\ h \in Graphs /\ Valid(h)
            /\ \A n \in h.nodes : <<n.type, n.ref>> \in Keys(c)
            /\ \A t, r : <<t, r>> \in Keys(c) =>
                 \E n \in h.nodes : n.type = t /\ n.ref = r
            /\ \A n \in g.nodes : n \in h.nodes <=> <<n.type, n.ref>> \in Keys(c)
            /\ \A n \in h.nodes : n \notin g.nodes => n.type \in Defaulted
            /\ \A n, m : <<n, m>> \in h.edges <=>
                 /\ n \in h.nodes /\ m \in h.nodes
                 /\ \/ <<n, m>> \in g.edges
                    \/ Drawn(c, n, m) /\ (n \notin g.nodes \/ m \notin g.nodes)
            /\ \A n : n \in h.own <=> n \in h.nodes /\ n.type \in c.own
<1> DEFINE h == Candidate(c, g)
           canonical == Canonically(c, g)
<1>1. /\ Valid(g) /\ c \in Bodies
      /\ c.router = Compile(g).router /\ c.scope = Compile(g).scope
      /\ c.sources = Compile(g).sources /\ c.subs = Compile(g).subs
      /\ \A n \in g.nodes : Alike(g, n) = {n}
  BY DrawnParts
<1>2. /\ h \in Graphs /\ h.nodes = canonical.nodes /\ h.own = canonical.own
      /\ \A n, m : <<n, m>> \in h.edges <=>
           /\ n \in canonical.nodes /\ m \in canonical.nodes
           /\ \/ <<n, m>> \in g.edges
              \/ <<n, m>> \in canonical.edges /\ (n \notin g.nodes \/ m \notin g.nodes)
  BY <1>1, CandidateIs
<1>3. /\ \A n \in canonical.nodes : n \in Nodes /\ <<n.type, n.ref>> \in Keys(c)
                                    /\ n = Ident(g, n.type, n.ref)
      /\ \A t, r : <<t, r>> \in Keys(c) =>
           /\ Ident(g, t, r) \in canonical.nodes
           /\ Ident(g, t, r).type = t /\ Ident(g, t, r).ref = r
  BY <1>1, CanonicalNode
<1>4. \A n, m : <<n, m>> \in canonical.edges <=>
        n \in canonical.nodes /\ m \in canonical.nodes /\ Drawn(c, n, m)
  <2>1. canonical.edges = {e \in canonical.nodes \X canonical.nodes : Drawn(c, e[1], e[2])}
    BY <1>1, CanonicalEdges
  <2> HIDE DEF canonical
  <2> QED BY <2>1
<1>5. \A n : n \in canonical.own <=> n \in canonical.nodes /\ n.type \in c.own
  BY <1>1, CanonicalGraph
<1> HIDE DEF h, canonical
<1>6. \A n, m : <<n, m>> \in h.edges <=>
        /\ n \in h.nodes /\ m \in h.nodes
        /\ \/ <<n, m>> \in g.edges
           \/ Drawn(c, n, m) /\ (n \notin g.nodes \/ m \notin g.nodes)
  BY <1>2, <1>4
<1>7. ASSUME NEW e \in h.edges PROVE Ok(e)
  <2>1. PICK n \in h.nodes, m \in h.nodes : e = <<n, m>>
    BY <1>2, GraphIs
  <2>2. CASE <<n, m>> \in g.edges
    BY <1>1, <2>1, <2>2, ValidIs
  <2>3. CASE Drawn(c, n, m)
    BY <2>1, <2>3, DrawnOk
  <2> QED BY <1>6, <1>7, <2>1, <2>2, <2>3
<1>8. Valid(h)
  BY <1>1, <1>2, <1>7, KeyedValid DEF canonical
\* A node of the user's stands for its key.
<1>9. ASSUME NEW n \in g.nodes PROVE Ident(g, n.type, n.ref) = n
  <2>1. n.type \in Types /\ n.ref \in RefsOf(n.type)
    BY GraphIs, NodeIs
  <2>2. Ident(g, n.type, n.ref) \in Alike(g, n)
    BY <2>1, IdentIs
  <2> QED BY <1>1, <2>2
<1>10. ASSUME NEW n \in g.nodes PROVE n \in h.nodes <=> <<n.type, n.ref>> \in Keys(c)
  <2>1. <<n.type, n.ref>> \in Keys(c) => Ident(g, n.type, n.ref) \in canonical.nodes
    BY <1>3
  <2>2. n \in canonical.nodes => <<n.type, n.ref>> \in Keys(c)
    BY <1>3
  <2>3. Ident(g, n.type, n.ref) = n
    BY <1>9
  <2> QED BY <1>2, <2>1, <2>2, <2>3
<1>11. ASSUME NEW n \in h.nodes, NEW m \in g.nodes, m.type = n.type, m.ref = n.ref
       PROVE  n \in g.nodes
  <2>1. n = Ident(g, n.type, n.ref)
    BY <1>2, <1>3
  <2> QED BY <1>9, <1>11, <2>1
<1>12. ASSUME NEW n \in h.nodes, n.type \notin Defaulted PROVE n \in g.nodes
  <2> DEFINE k == <<n.type, n.ref>>
  <2>1. n \in Nodes /\ k \in Keys(c) /\ k[1] = n.type /\ k[2] = n.ref
    BY <1>2, <1>3
  <2>2. /\ n.type = "router" => c.router
        /\ n.type \in CapabilityTypes => k \in Capabilities /\ c.scope[k] # {}
        /\ n.type = "subagent" => n.ref \in c.subs
        /\ n.type = "data_source" => n.ref \in InUse(c).sources
    <3>1. /\ k[1] = "router" => c.router
          /\ k[1] \in CapabilityTypes => k \in On(c) /\ c.scope[k] # {}
          /\ k[1] = "subagent" => k[2] \in c.subs
          /\ k[1] = "data_source" => k[2] \in InUse(c).sources
      BY <1>1, <2>1, KeysOf
    <3> HIDE DEF k
    <3> QED BY <2>1, <3>1 DEF On
  <2>3. n.type \in Types /\ n.ref \in RefsOf(n.type)
    BY <2>1, NodeIs
  <2> HIDE DEF k
  <2>4. CASE n.type \in Singletons
    <3>1. PICK m \in g.nodes : m.type = n.type
      BY <1>1, <2>4, ValidIs DEF Of
    <3>2. n.ref = None /\ m.ref = None
      <4>1. RefsOf(n.type) = {None}
        BY <2>4 DEF RefsOf, Singletons
      <4>2. m.ref \in RefsOf(m.type)
        BY GraphIs, NodeIs
      <4> QED BY <2>3, <3>1, <4>1, <4>2
    <3> QED BY <1>11, <3>1, <3>2
  <2>5. CASE n.type = "router"
    <3>1. Compile(g).router
      BY <1>1, <2>2, <2>5
    <3>2. PICK m \in g.nodes : m.type = "router"
      BY <1>1, <3>1, CompiledParts
    <3>3. n.ref = None /\ m.ref = None
      <4>1. RefsOf("router") = {None}
        BY DEF RefsOf
      <4>2. m.ref \in RefsOf(m.type)
        BY GraphIs, NodeIs
      <4> QED BY <2>3, <2>5, <3>2, <4>1, <4>2
    <3> QED BY <1>11, <2>5, <3>2, <3>3
  <2>6. CASE n.type \in CapabilityTypes
    <3>1. k \in Capabilities /\ Compile(g).scope[k] # {}
      BY <1>1, <2>2, <2>6
    <3>2. PICK m \in g.nodes : <<m.type, m.ref>> = k
      BY <3>1, UncompiledScope
    <3>3. m.type = n.type /\ m.ref = n.ref
      BY <3>2 DEF k
    <3> QED BY <1>11, <3>3
  <2>7. CASE n.type = "subagent"
    <3>1. n.ref \in Compile(g).subs
      BY <1>1, <2>2, <2>7
    <3>2. PICK m \in SubsOf(g) : m.ref = n.ref
      BY <1>1, <3>1, CompiledParts
    <3>3. m \in g.nodes /\ m.type = "subagent"
      BY <1>1, <3>2, SubsIs
    <3> QED BY <1>11, <2>7, <3>2, <3>3
  <2>8. CASE n.type = "data_source"
    <3>1. n.ref \in Compile(g).sources
      BY <1>1, <2>2, <2>8, InUseIs
    <3>2. \E m, b \in g.nodes : /\ m.type = "data_source" /\ m.ref = n.ref
                                /\ b.type = "knowledge_base" /\ b \in Reaching(g, g.edges)
                                /\ <<m, b>> \in g.edges
      BY <1>1, <3>1, CompiledParts, Zenon
    <3> QED BY <1>11, <2>8, <3>2
  <2> QED BY <1>12, <2>3, <2>4, <2>5, <2>6, <2>7, <2>8 DEF Types, AtMostOne, Defaulted
<1>13. \A t, r : <<t, r>> \in Keys(c) => \E n \in h.nodes : n.type = t /\ n.ref = r
  BY <1>2, <1>3
<1>14. /\ \A n \in h.nodes : <<n.type, n.ref>> \in Keys(c)
       /\ \A n : n \in h.own <=> n \in h.nodes /\ n.type \in c.own
  BY <1>2, <1>3, <1>5
<1> QED BY <1>2, <1>6, <1>8, <1>10, <1>12, <1>13, <1>14 DEF h

\* What a config may be used for that the graph already means it to be.
LEMMA CandidateScopes ==
  ASSUME NEW c \in Configs, NEW g \in Graphs, AsDrawn(c, g)
  PROVE  LET h == Candidate(c, g)
             agent == OnlyOne(g, "agent")
         IN /\ agent \in g.nodes /\ agent \in h.nodes /\ agent.type = "agent"
            /\ OnlyOne(h, "agent") = agent
            /\ \A n \in h.nodes : n.type = "agent" => n = agent
            /\ SubsOf(h) = SubsOf(g)
            /\ \A n \in h.nodes : n.type \in CapabilityTypes =>
                 n \in g.nodes /\ ScopeOf(h, n) = ScopeOf(g, n)
<1> DEFINE h == Candidate(c, g)
           agent == OnlyOne(g, "agent")
<1>1. /\ Valid(g) /\ c \in Bodies /\ c.subs = Compile(g).subs
  BY DrawnParts
<1>2. /\ h \in Graphs /\ Valid(h)
      /\ \A n \in g.nodes : n \in h.nodes <=> <<n.type, n.ref>> \in Keys(c)
      /\ \A n \in h.nodes : n \notin g.nodes => n.type \in Defaulted
      /\ \A n, m : <<n, m>> \in h.edges <=>
           /\ n \in h.nodes /\ m \in h.nodes
           /\ \/ <<n, m>> \in g.edges
              \/ Drawn(c, n, m) /\ (n \notin g.nodes \/ m \notin g.nodes)
  BY CandidateNodes
<1> HIDE DEF h
<1>3. agent \in g.nodes /\ agent.type = "agent" /\ agent.ref = None
  <2>1. agent \in g.nodes /\ agent.type = "agent"
    BY <1>1, ValidWires
  <2>2. agent.ref \in RefsOf(agent.type)
    BY <2>1, GraphIs, NodeIs
  <2> HIDE DEF agent
  <2> QED BY <2>1, <2>2 DEF RefsOf
<1>4. agent \in h.nodes
  <2>1. <<"agent", None>> \in Keys(c)
    BY <1>1, SomeKeys DEF Singletons
  <2> HIDE DEF agent
  <2> QED BY <1>2, <1>3, <2>1
<1>5. \A n \in h.nodes : n.type = "agent" => n = agent
  <2>1. Of(h, "agent") = {OnlyOne(h, "agent")}
    BY <1>2, ValidWires
  <2>2. \A n \in h.nodes : n.type = "agent" => n \in {OnlyOne(h, "agent")}
    BY <2>1 DEF Of
  <2> HIDE DEF agent
  <2> QED BY <1>3, <1>4, <2>2
<1>6. OnlyOne(h, "agent") = agent
  <2>1. OnlyOne(h, "agent") \in h.nodes /\ OnlyOne(h, "agent").type = "agent"
    BY <1>2, ValidWires
  <2> HIDE DEF agent
  <2> QED BY <1>5, <2>1
<1>7. SubsOf(g) = {n \in g.nodes : n.type = "subagent" /\ <<n, agent>> \in g.edges}
  BY <1>1, SubsIs
<1>8. SubsOf(h) = {n \in h.nodes : n.type = "subagent" /\ <<n, agent>> \in h.edges}
  BY <1>2, <1>6, SubsIs
<1> HIDE DEF agent
<1>9. \A n \in SubsOf(g) : n \in h.nodes
  <2>1. ASSUME NEW n \in SubsOf(g) PROVE n \in h.nodes
    <3>1. n \in g.nodes /\ n.type = "subagent" /\ n.ref \in c.subs
      BY <1>1, <1>7, CompiledParts
    <3>2. <<"subagent", n.ref>> \in Keys(c)
      BY <1>1, <3>1, SomeKeys
    <3> QED BY <1>2, <3>1, <3>2
  <2> QED BY <2>1
<1>10. SubsOf(h) = SubsOf(g)
  <2>1. ASSUME NEW n \in h.nodes, n.type = "subagent"
        PROVE  n \in g.nodes /\ (<<n, agent>> \in h.edges <=> <<n, agent>> \in g.edges)
    <3>1. n \in g.nodes
      BY <1>2, <2>1 DEF Defaulted
    <3> QED BY <1>2, <1>3, <1>4, <3>1
  <2>2. \A n \in SubsOf(h) : n \in SubsOf(g)
    BY <1>7, <1>8, <2>1
  <2>3. \A n \in SubsOf(g) : n \in SubsOf(h)
    BY <1>7, <1>8, <1>9, <2>1
  <2> QED BY <2>2, <2>3
<1>11. ASSUME NEW n \in h.nodes, n.type \in CapabilityTypes
       PROVE  n \in g.nodes /\ ScopeOf(h, n) = ScopeOf(g, n)
  <2>1. n \in g.nodes
    BY <1>2, <1>11 DEF Defaulted, CapabilityTypes
  <2>2. \A m \in h.nodes : m \in g.nodes => (<<n, m>> \in h.edges <=> <<n, m>> \in g.edges)
    BY <1>2, <2>1
  <2>3. ScopeOf(g, n) \subseteq {"agent"} \cup Roles /\ ScopeOf(h, n) \subseteq {"agent"} \cup Roles
    BY <1>1, <1>2, ScopeIs
  <2>4. "agent" \in ScopeOf(h, n) <=> "agent" \in ScopeOf(g, n)
    <3>1. "agent" \in ScopeOf(h, n) <=> <<n, agent>> \in h.edges
      BY <1>2, <1>6, ScopeIs
    <3>2. "agent" \in ScopeOf(g, n) <=> <<n, agent>> \in g.edges
      BY <1>1, ScopeIs DEF agent
    <3> QED BY <1>3, <1>4, <2>2, <3>1, <3>2
  <2>5. ASSUME NEW r \in Roles PROVE r \in ScopeOf(h, n) <=> r \in ScopeOf(g, n)
    <3>1. r \in ScopeOf(h, n) <=> \E m \in SubsOf(h) : m.ref = r /\ <<n, m>> \in h.edges
      BY <1>2, ScopeIs
    <3>2. r \in ScopeOf(g, n) <=> \E m \in SubsOf(g) : m.ref = r /\ <<n, m>> \in g.edges
      BY <1>1, ScopeIs
    <3>3. \A m \in SubsOf(g) : <<n, m>> \in h.edges <=> <<n, m>> \in g.edges
      BY <1>7, <1>9, <2>2
    <3> QED BY <1>10, <3>1, <3>2, <3>3, Zenon
  <2>6. \A x : x \in ScopeOf(h, n) <=> x \in ScopeOf(g, n)
    BY <2>3, <2>4, <2>5
  <2> QED BY <2>1, <2>6
<1> QED BY <1>3, <1>4, <1>5, <1>6, <1>10, <1>11 DEF h, agent

\* What reached the agent still does: guardrail, memory and router, if they are in the config.
LEMMA CandidateWired ==
  ASSUME NEW c \in Configs, NEW g \in Graphs, AsDrawn(c, g)
  PROVE  LET h == Candidate(c, g)
         IN \A n \in h.nodes :
              n.type = "router" \/ n.type \in c.own => n \in Reaching(h, h.edges)
<1> DEFINE h == Candidate(c, g)
           agent == OnlyOne(g, "agent")
           before == Reaching(g, g.edges)
           wired == Reaching(h, h.edges)
<1>1. /\ Valid(g) /\ c \in Bodies /\ c.router = Compile(g).router
      /\ \A t \in c.own : \A n \in g.nodes : n.type = t => n \in before
  BY DrawnParts
<1>2. /\ h \in Graphs /\ Valid(h)
      /\ \A n \in h.nodes : <<n.type, n.ref>> \in Keys(c)
      /\ \A t, r : <<t, r>> \in Keys(c) => \E n \in h.nodes : n.type = t /\ n.ref = r
      /\ \A n \in g.nodes : n \in h.nodes <=> <<n.type, n.ref>> \in Keys(c)
      /\ \A n \in h.nodes : n \notin g.nodes => n.type \in Defaulted
      /\ \A n, m : <<n, m>> \in h.edges <=>
           /\ n \in h.nodes /\ m \in h.nodes
           /\ \/ <<n, m>> \in g.edges
              \/ Drawn(c, n, m) /\ (n \notin g.nodes \/ m \notin g.nodes)
  BY CandidateNodes
<1>3. agent \in g.nodes /\ agent \in h.nodes /\ agent.type = "agent" /\ OnlyOne(h, "agent") = agent
  BY CandidateScopes
<1>4. agent \in wired
  BY <1>2, <1>3, ValidWires
<1>5. \A n, m : <<n, m>> \in h.edges /\ m \in wired => n \in wired
  BY <1>2, LeadsOn
<1>6. /\ before \subseteq g.nodes
      /\ \A n \in g.nodes : n # agent => (n \in before <=> \E m \in before : <<n, m>> \in g.edges)
      /\ \A n, m : <<n, m>> \in g.edges => <<n.type, m.type>> \in AllowedEdges
      /\ \A n \in g.nodes : n.type = "agent" => n = agent
  <2>1. /\ before \subseteq g.nodes /\ Of(g, "agent") = {agent}
        /\ \A n \in g.nodes : n # agent => (n \in before <=> \E m \in before : <<n, m>> \in g.edges)
        /\ \A n, m : <<n, m>> \in g.edges => <<n.type, m.type>> \in AllowedEdges
    BY <1>1, ValidWires
  <2>2. \A n \in g.nodes : n.type = "agent" => n \in Of(g, "agent")
    BY DEF Of
  <2> QED BY <2>1, <2>2
<1> HIDE DEF h, agent, before, wired
\* What a node of the user's leads on to.
<1>7. ASSUME NEW n \in g.nodes, n \in before, n.type \in {"router", "memory", "guardrail"}
      PROVE  \E m \in before : /\ m \in g.nodes /\ <<n, m>> \in g.edges
                               /\ \/ m = agent
                                  \/ n.type = "guardrail" /\ m.type = "router"
  <2>1. PICK m \in before : <<n, m>> \in g.edges
    BY <1>3, <1>6, <1>7
  <2>2. m \in g.nodes /\ <<n.type, m.type>> \in AllowedEdges
    BY <1>6, <2>1
  <2>3. m.type = "agent" \/ (n.type = "guardrail" /\ m.type = "router")
    BY <1>7, <2>2, AllowedFrom
  <2> QED BY <1>6, <2>1, <2>2, <2>3
<1>8. ASSUME NEW n \in h.nodes, n.type = "router" PROVE n \in wired
  <2>1. n \in g.nodes
    BY <1>2, <1>8 DEF Defaulted
  <2>2. c.router
    <3>1. <<n.type, n.ref>> \in Keys(c)
      BY <1>2
    <3> QED BY <1>1, <1>8, <3>1, KeysOf
  <2>3. PICK x \in g.nodes : x.type = "router" /\ x \in before
    BY <1>1, <2>2, CompiledParts DEF before
  <2>4. x = n
    <3>1. x \in Of(g, "router") /\ n \in Of(g, "router")
      BY <1>8, <2>1, <2>3 DEF Of
    <3> QED BY <1>1, <3>1, ValidIs DEF AtMostOne
  <2>5. <<n, agent>> \in g.edges
    BY <1>7, <1>8, <2>1, <2>3, <2>4
  <2> QED BY <1>2, <1>3, <1>4, <1>5, <2>5
<1>9. ASSUME NEW n \in h.nodes, n.type \in c.own PROVE n \in wired
  <2>1. n.type \in {"memory", "guardrail"}
    BY <1>1, <1>9, BodyIs DEF Defaulted
  <2>2. CASE n \in g.nodes
    <3>1. n \in before
      BY <1>1, <1>9, <2>2
    <3>2. PICK m \in before : /\ m \in g.nodes /\ <<n, m>> \in g.edges
                              /\ \/ m = agent
                                 \/ n.type = "guardrail" /\ m.type = "router"
      BY <1>7, <2>1, <2>2, <3>1
    <3>3. CASE m = agent
      BY <1>2, <1>3, <1>4, <1>5, <3>2, <3>3
    <3>4. CASE m.type = "router"
      <4>1. Compile(g).router
        BY <1>1, <3>2, <3>4, CompiledParts DEF before
      <4>2. <<"router", None>> \in Keys(c)
        BY <1>1, <4>1, SomeKeys
      <4>3. m.ref = None
        <5>1. m.ref \in RefsOf(m.type)
          BY <3>2, GraphIs, NodeIs
        <5> QED BY <3>4, <5>1 DEF RefsOf
      <4>4. m \in h.nodes
        BY <1>2, <3>2, <3>4, <4>2, <4>3
      <4>5. m \in wired /\ <<n, m>> \in h.edges
        BY <1>2, <1>8, <3>2, <3>4, <4>4
      <4> QED BY <1>5, <4>5
    <3> QED BY <3>2, <3>3, <3>4
  <2>3. CASE n \notin g.nodes
    <3>1. CASE n.type = "memory" \/ ~c.router
      <4>1. Drawn(c, n, agent)
        BY <1>3, <2>1, <3>1 DEF Drawn
      <4>2. <<n, agent>> \in h.edges
        BY <1>2, <1>3, <2>3, <4>1
      <4> QED BY <1>4, <1>5, <4>2
    <3>2. CASE n.type = "guardrail" /\ c.router
      <4>1. PICK m \in h.nodes : m.type = "router"
        BY <1>1, <1>2, <3>2, SomeKeys
      <4>2. Drawn(c, n, m)
        BY <3>2, <4>1 DEF Drawn
      <4>3. <<n, m>> \in h.edges
        BY <1>2, <2>3, <4>1, <4>2
      <4> QED BY <1>5, <1>8, <4>1, <4>3
    <3> QED BY <2>1, <3>1, <3>2
  <2> QED BY <2>2, <2>3
<1>10. \A n \in h.nodes : n.type = "router" \/ n.type \in c.own => n \in wired
  BY <1>8, <1>9
<1> QED BY <1>10 DEF h, wired

\* So the candidate still compiles to the config, and is what is saved.
LEMMA CandidateCompiles ==
  ASSUME NEW c \in Configs, NEW g \in Graphs, AsDrawn(c, g)
  PROVE  SafeWiring(Candidate(c, g), c)
<1> DEFINE h == Candidate(c, g)
           agent == OnlyOne(g, "agent")
           before == Reaching(g, g.edges)
           wired == Reaching(h, h.edges)
           d == Compile(h)
<1>1. /\ Valid(g) /\ c \in Bodies
      /\ c.router = Compile(g).router /\ c.scope = Compile(g).scope
      /\ c.sources = Compile(g).sources /\ c.subs = Compile(g).subs
  BY DrawnParts
<1>2. /\ h \in Graphs /\ Valid(h)
      /\ \A n \in h.nodes : <<n.type, n.ref>> \in Keys(c)
      /\ \A t, r : <<t, r>> \in Keys(c) => \E n \in h.nodes : n.type = t /\ n.ref = r
      /\ \A n \in g.nodes : n \in h.nodes <=> <<n.type, n.ref>> \in Keys(c)
      /\ \A n \in h.nodes : n \notin g.nodes => n.type \in Defaulted
      /\ \A n, m : <<n, m>> \in h.edges <=>
           /\ n \in h.nodes /\ m \in h.nodes
           /\ \/ <<n, m>> \in g.edges
              \/ Drawn(c, n, m) /\ (n \notin g.nodes \/ m \notin g.nodes)
      /\ \A n : n \in h.own <=> n \in h.nodes /\ n.type \in c.own
  BY CandidateNodes
<1>3. /\ SubsOf(h) = SubsOf(g)
      /\ \A n \in h.nodes : n.type \in CapabilityTypes =>
           n \in g.nodes /\ ScopeOf(h, n) = ScopeOf(g, n)
  BY CandidateScopes
<1>4. \A n \in h.nodes : n.type = "router" \/ n.type \in c.own => n \in wired
  BY CandidateWired
<1> HIDE DEF h
<1>5. d.subs = c.subs
  <2>1. d.subs = {n.ref : n \in SubsOf(h)}
    BY <1>2, CompiledParts
  <2>2. Compile(g).subs = {n.ref : n \in SubsOf(g)}
    BY <1>1, CompiledParts
  <2> HIDE DEF d
  <2> QED BY <1>1, <1>3, <2>1, <2>2
<1>6. d.own = c.own
  <2>1. \A t : t \in d.own <=> \E n \in h.own : n.type = t /\ n \in wired
    BY <1>2, CompiledParts
  <2> HIDE DEF d, wired
  <2>2. ASSUME NEW t \in c.own PROVE \E n \in h.own : n.type = t /\ n \in wired
    <3>1. <<t, None>> \in Keys(c)
      BY <1>1, SomeKeys, BodyIs
    <3>2. PICK n \in h.nodes : n.type = t
      BY <1>2, <3>1
    <3> QED BY <1>2, <1>4, <3>2
  <2>3. \A n \in h.own : n.type \in c.own
    BY <1>2
  <2>4. \A t : t \in d.own <=> t \in c.own
    BY <2>1, <2>2, <2>3, Zenon
  <2> QED BY <2>4
<1>7. d.router = c.router
  <2>1. d.router \in BOOLEAN /\ c.router \in BOOLEAN
    BY <1>1, <1>2, CompiledParts, BodyIs
  <2>2. d.router <=> \E n \in h.nodes : n.type = "router" /\ n \in wired
    BY <1>2, CompiledParts
  <2> HIDE DEF d, wired
  <2>3. c.router => \E n \in h.nodes : n.type = "router"
    BY <1>1, <1>2, SomeKeys
  <2>4. ASSUME NEW n \in h.nodes, n.type = "router" PROVE c.router
    <3>1. <<n.type, n.ref>> \in Keys(c)
      BY <1>2
    <3> QED BY <1>1, <2>4, <3>1, KeysOf
  <2>5. d.router <=> c.router
    BY <1>4, <2>2, <2>3, <2>4, Zenon
  <2> QED BY <2>1, <2>5
<1>8. d.scope = c.scope
  <2>1. ASSUME NEW k \in Capabilities PROVE d.scope[k] = c.scope[k]
    <3>1. k = <<k[1], k[2]>> /\ k[1] \in CapabilityTypes
      BY DEF Capabilities
    <3>2. CASE k \in On(c)
      <4>1. k \in Keys(c)
        BY <1>1, <3>2, SomeKeys
      <4>2. PICK n \in h.nodes : n.type = k[1] /\ n.ref = k[2]
        BY <1>2, <3>1, <4>1
      <4>3. n \in g.nodes /\ ScopeOf(h, n) = ScopeOf(g, n) /\ n.type \in CapabilityTypes
        BY <1>3, <3>1, <4>2
      <4>4. <<n.type, n.ref>> = k
        BY <3>1, <4>2
      <4>5. d.scope[<<n.type, n.ref>>] = ScopeOf(h, n)
        BY <1>2, <4>3, CompiledScope
      <4>6. Compile(g).scope[<<n.type, n.ref>>] = ScopeOf(g, n)
        BY <1>1, <4>3, CompiledScope
      <4> HIDE DEF d
      <4> QED BY <1>1, <4>3, <4>4, <4>5, <4>6
    <3>3. CASE k \notin On(c)
      <4>1. c.scope[k] = {}
        BY <3>3 DEF On
      <4>2. k \notin Keys(c)
        BY <1>1, <3>1, <3>3, KeysOf
      <4>3. \A n \in h.nodes : <<n.type, n.ref>> # k
        BY <1>2, <4>2
      <4>4. d.scope[k] = {}
        BY <4>3, UncompiledScope
      <4> QED BY <4>1, <4>4
    <3> QED BY <3>2, <3>3
  <2>2. d.scope = [k \in Capabilities |-> d.scope[k]]
    BY DEF Compile
  <2>3. c.scope = [k \in Capabilities |-> c.scope[k]]
    BY <1>1, BodyIs
  <2> HIDE DEF d
  <2> QED BY <2>1, <2>2, <2>3
<1>9. d.sources = c.sources
  <2>1. \A s : s \in d.sources <=>
          \E n, b \in h.nodes : /\ n.type = "data_source" /\ n.ref = s
                                /\ b.type = "knowledge_base" /\ b \in wired
                                /\ <<n, b>> \in h.edges
    BY <1>2, CompiledParts, Zenon
  <2>2. \A s : s \in c.sources <=>
          \E n, b \in g.nodes : /\ n.type = "data_source" /\ n.ref = s
                                /\ b.type = "knowledge_base" /\ b \in before
                                /\ <<n, b>> \in g.edges
    <3>1. \A s : s \in Compile(g).sources <=>
            \E n, b \in g.nodes : /\ n.type = "data_source" /\ n.ref = s
                                  /\ b.type = "knowledge_base" /\ b \in before
                                  /\ <<n, b>> \in g.edges
      BY <1>1, CompiledParts, Zenon
    <3> QED BY <1>1, <3>1
  <2>3. ASSUME NEW b \in h.nodes, b.type = "knowledge_base"
        PROVE  b \in g.nodes /\ (b \in wired <=> b \in before)
    <3>1. b.type \in CapabilityTypes
      BY <2>3 DEF CapabilityTypes
    <3>2. b \in g.nodes /\ ScopeOf(h, b) = ScopeOf(g, b)
      BY <1>3, <3>1
    <3>3. b \in wired <=> ScopeOf(h, b) # {}
      BY <1>2, <3>1, WiredScope
    <3>4. b \in before <=> ScopeOf(g, b) # {}
      BY <1>1, <3>1, <3>2, WiredScope
    <3> HIDE DEF wired, before
    <3> QED BY <3>2, <3>3, <3>4
  <2>4. InUse(c).sources = c.sources
    <3>1. InUse(Compile(g)).sources = Compile(g).sources /\ Compile(g) \in Bodies
      BY <1>1, CompiledConfig, ConfigIs
    <3>2. InUse(c).sources = IF c.scope[KnowledgeBase] = {} THEN {} ELSE c.sources
      BY <1>1, InUseIs
    <3>3. InUse(Compile(g)).sources =
            IF Compile(g).scope[KnowledgeBase] = {} THEN {} ELSE Compile(g).sources
      BY <3>1, InUseIs
    <3> QED BY <1>1, <3>1, <3>2, <3>3
  <2> HIDE DEF d, wired, before
  <2>5. ASSUME NEW s \in c.sources PROVE s \in d.sources
    <3>1. \E n, b \in g.nodes : /\ n.type = "data_source" /\ n.ref = s
                                /\ b.type = "knowledge_base" /\ b \in before
                                /\ <<n, b>> \in g.edges
      BY <2>2, Zenon
    <3>2. PICK n \in g.nodes, b \in g.nodes :
            /\ n.type = "data_source" /\ n.ref = s
            /\ b.type = "knowledge_base" /\ b \in before /\ <<n, b>> \in g.edges
      BY <3>1, Zenon
    <3>3. <<"data_source", s>> \in Keys(c) /\ <<"knowledge_base", None>> \in Keys(c)
      BY <1>1, <2>4, SomeKeys, KnowledgeBaseIs
    <3>4. b.ref = None
      <4>1. b.ref \in RefsOf(b.type)
        BY <3>2, GraphIs, NodeIs
      <4> QED BY <3>2, <4>1, KnowledgeBaseIs
    <3>5. n \in h.nodes /\ b \in h.nodes
      BY <1>2, <3>2, <3>3, <3>4
    <3>6. <<n, b>> \in h.edges /\ b \in wired
      BY <1>2, <2>3, <3>2, <3>5
    <3> QED BY <2>1, <3>2, <3>5, <3>6, Zenon
  <2>6. ASSUME NEW s \in d.sources PROVE s \in c.sources
    <3>1. \E n, b \in h.nodes : /\ n.type = "data_source" /\ n.ref = s
                                /\ b.type = "knowledge_base" /\ b \in wired
                                /\ <<n, b>> \in h.edges
      BY <2>1, Zenon
    <3>2. PICK n \in h.nodes, b \in h.nodes :
            /\ n.type = "data_source" /\ n.ref = s
            /\ b.type = "knowledge_base" /\ b \in wired /\ <<n, b>> \in h.edges
      BY <3>1, Zenon
    <3>3. n \in g.nodes
      BY <1>2, <3>2 DEF Defaulted
    <3>4. b \in g.nodes /\ b \in before
      BY <2>3, <3>2
    <3>5. <<n, b>> \in g.edges
      BY <1>2, <3>2, <3>3, <3>4
    <3> QED BY <2>2, <3>2, <3>3, <3>4, <3>5, Zenon
  <2> QED BY <2>5, <2>6
<1>10. d = [own |-> d.own, router |-> d.router, scope |-> d.scope, sources |-> d.sources,
            subs |-> d.subs]
  BY DEF Compile
<1>11. c = [own |-> c.own, router |-> c.router, scope |-> c.scope, sources |-> c.sources,
            subs |-> c.subs]
  BY <1>1, BodyIs
<1> HIDE DEF d
<1>12. d = c
  BY <1>5, <1>6, <1>7, <1>8, <1>9, <1>10, <1>11
<1> QED BY <1>2, <1>12 DEF SafeWiring, d, h

\* What WiringKept says of any config and graph.
LEMMA ProjectKeeps ==
  ASSUME NEW c \in Configs, NEW g \in Graphs, AsDrawn(c, g)
  PROVE  LET h == Project(c, g)
         IN {e \in h.edges : {e[1], e[2]} \subseteq g.nodes}
              = {e \in g.edges : {e[1], e[2]} \subseteq h.nodes}
<1> DEFINE h == Project(c, g)
<1>1. h = Candidate(c, g)
  BY CandidateCompiles, CandidateIs, ConfigIs
<1>2. /\ h \in Graphs
      /\ \A n, m : <<n, m>> \in h.edges <=>
           /\ n \in h.nodes /\ m \in h.nodes
           /\ \/ <<n, m>> \in g.edges
              \/ Drawn(c, n, m) /\ (n \notin g.nodes \/ m \notin g.nodes)
  BY <1>1, CandidateNodes
<1> HIDE DEF h
<1>3. h.edges \subseteq h.nodes \X h.nodes /\ g.edges \subseteq g.nodes \X g.nodes
  BY <1>2, GraphIs
<1>4. ASSUME NEW e PROVE e \in h.edges /\ {e[1], e[2]} \subseteq g.nodes
                           <=> e \in g.edges /\ {e[1], e[2]} \subseteq h.nodes
  BY <1>2, <1>3
<1>5. {e \in h.edges : {e[1], e[2]} \subseteq g.nodes}
        = {e \in g.edges : {e[1], e[2]} \subseteq h.nodes}
  BY <1>4
<1> QED BY <1>5 DEF h

\* Only a commit ends a save.
LEMMA Committed ==
  ASSUME DraftInv, [DraftNext]_draftVars, NEW h \in Handlers,
         save[h].kind = "config", save'[h] = Nothing
  PROVE  Commit(h)
<1>1. save \in [Handlers -> {Nothing} \cup SaveType]
  BY DEF DraftInv, DraftTypeOK, SaveType
<1>2. save[h] # Nothing
  BY NothingIs, ConstantsAssumption
<1>3. ASSUME NEW i \in Handlers, NEW kind, NEW g, NEW c, Asks(i, kind, g, c) PROVE FALSE
  <2>1. save[i] = Nothing /\ i # h
    BY <1>2, <1>3 DEF Asks
  <2>2. save'[h] = save[h]
    BY <1>1, <1>3, <2>1 DEF Asks
  <2> QED BY <1>2, <2>2
<1>4. ASSUME NEW i \in Handlers, i # h, Commit(i) PROVE FALSE
  <2>1. save'[h] = [save[h] EXCEPT !.clean = FALSE]
    BY <1>2, <1>4 DEF Commit
  <2>2. save[h] \in SaveType
    BY <1>1, <1>2
  <2>3. save'[h].kind = "config"
    BY <2>1, <2>2 DEF SaveType
  <2> QED BY <2>3, NothingIs, ConstantsAssumption
<1>5. CASE UNCHANGED draftVars
  BY <1>2, <1>5 DEF draftVars
<1> QED BY <1>3, <1>4, <1>5 DEF DraftNext, SaveGraph, SaveConfig, SubmitDraft

\* And of the step that writes it.
LEMMA CommitKeepsWiring ==
  ASSUME DraftInv, [DraftNext]_draftVars, NEW h \in Handlers,
         save[h].kind = "config", save'[h] = Nothing, save[h].clean,
         AsDrawn(save[h].config, save[h].seen.graph)
  PROVE  {e \in draft'.graph.edges : {e[1], e[2]} \subseteq save[h].seen.graph.nodes}
           = {e \in save[h].seen.graph.edges : {e[1], e[2]} \subseteq draft'.graph.nodes}
<1>1. Commit(h)
  BY Committed
<1>2. save[h] \in SaveType /\ Follows(save[h]) /\ draft'.graph = save[h].graph
  BY <1>1, CommitWrites
<1>3. save[h].config \in Configs /\ save[h].seen.graph \in Graphs
  BY <1>2 DEF SaveType, Drafts
<1>4. draft'.graph = Project(save[h].config, save[h].seen.graph)
  BY <1>2 DEF Follows
<1> QED BY <1>3, <1>4, ProjectKeeps

\* Saving a config the graph already means keeps the user's edges (_keep_user_wiring).
THEOREM WiringStays == DraftSpec => WiringKept
<1>1. DraftInv /\ [DraftNext]_draftVars =>
        [\A h \in Handlers :
           LET s == save[h]
               g == s.seen.graph
           IN s.kind = "config" /\ save'[h] = Nothing /\ s.clean /\ AsDrawn(s.config, g)
              => {e \in draft'.graph.edges : {e[1], e[2]} \subseteq g.nodes}
                   = {e \in g.edges : {e[1], e[2]} \subseteq draft'.graph.nodes}]_draftVars
  BY CommitKeepsWiring
<1> QED BY <1>1, DraftInvariance, PTL DEF DraftSpec, WiringKept

-----------------------------------------------------------------------------
(* Versions under review.                                                  *)

USE VersionsAssumption, NoneAssumption DEF Versions

Reviewed == {"approved", "rolled_back"}

-----------------------------------------------------------------------------
(* The steps, grouped by what they leave alone.                            *)

\* Steps of a handler that write nothing but its own state and the lock.
Quiet(h) ==
  \/ \E op \in Operations, n \in Versions \cup {None} : Load(h, op, n)
  \/ Lock(h) \/ Check(h) \/ GiveUp(h)

\* Every step is one of these.
LEMMA Steps ==
  ASSUME Next
  PROVE  \/ \E h \in Handlers : Quiet(h)
         \/ \E h \in Handlers : Archive(h) \/ Unarchive(h)
         \/ \E h \in Handlers, n \in Versions : Submit(h, n)
         \/ \E h \in Handlers : Approve(h)
         \/ \E h \in Handlers : MakeLive(h)
         \/ \E n \in Versions, to \in {"rejected", "withdrawn"} : EndReview(n, to)
         \/ \E n \in Versions : Drift(n)
         \/ \E c \in Conversations : ConversationNext(c)
  BY DEF Next, HandlerNext, Quiet

\* A freed lock was held by the handler that is done.
LEMMA DoneType ==
  ASSUME TypeOK, NEW h \in Handlers, Done(h)
  PROVE  /\ handler' \in [Handlers -> HandlerType]
         /\ lock' \in Handlers \cup {None}
  BY DEF TypeOK, Done, Idle, HandlerType

\* The initial state satisfies the invariant.
LEMMA InitInv == Init => IInv
<1> SUFFICES ASSUME Init PROVE IInv
  OBVIOUS
<1>1. TypeOK
  BY DEF Init, TypeOK, Idle, Unstarted, AssistantStatus, VersionStatus, HandlerType,
     ConversationType
<1>2. LiveIsApproved /\ WaitingIsNewest
  BY DEF Init, LiveIsApproved, WaitingIsNewest
<1>3. LockHolds
  BY DEF Init, LockHolds, Idle, Operations
<1>4. ChatsOnReviewed /\ SeenWasLive
  BY DEF Init, ChatsOnReviewed, SeenWasLive, Unstarted
<1> QED BY <1>1, <1>2, <1>3, <1>4 DEF IInv

-----------------------------------------------------------------------------
(* One lemma per conjunct of the invariant.                                *)

\* Types are kept by every step.
LEMMA TypeStep ==
  ASSUME IInv, Next
  PROVE  TypeOK'
<1>0. TypeOK /\ LockHolds /\ LiveIsApproved /\ SeenWasLive
  BY DEF IInv
<1>1. ASSUME NEW h \in Handlers, Quiet(h) PROVE TypeOK'
  <2>1. ASSUME NEW op \in Operations, NEW n \in Versions \cup {None}, Load(h, op, n)
        PROVE  TypeOK'
    BY <1>0, <2>1 DEF TypeOK, Load, HandlerType, Operations
  <2>2. CASE Lock(h)
    <3>1. ASSUME NEW x \in HandlerType PROVE [x EXCEPT !.pc = "locked"] \in HandlerType
      BY DEF HandlerType
    <3>2. handler' \in [Handlers -> HandlerType]
      BY <1>0, <2>2, <3>1 DEF TypeOK, Lock
    <3> QED BY <1>0, <2>2, <3>2 DEF TypeOK, Lock
  <2>3. CASE Check(h)
    BY <1>0, <2>3 DEF TypeOK, Check, HandlerType
  <2>4. CASE GiveUp(h)
    BY <1>0, <2>4, DoneType DEF TypeOK, GiveUp
  <2> QED BY <1>1, <2>1, <2>2, <2>3, <2>4 DEF Quiet
<1>2. ASSUME NEW h \in Handlers, Archive(h) \/ Unarchive(h) PROVE TypeOK'
  BY <1>0, <1>2, DoneType DEF TypeOK, Archive, Unarchive, AssistantStatus
<1>3. ASSUME NEW h \in Handlers, NEW n \in Versions, Submit(h, n) PROVE TypeOK'
  <2>1. version' \in [Versions -> VersionStatus]
    BY <1>0, <1>3 DEF TypeOK, Submit, Superseded, VersionStatus
  <2> QED BY <1>0, <1>3, <2>1, DoneType DEF TypeOK, Submit
<1>4. ASSUME NEW h \in Handlers, Approve(h) PROVE TypeOK'
  <2>1. handler[h].number \in Versions
    BY <1>0, <1>4 DEF LockHolds, Approve
  <2>2. version' \in [Versions -> VersionStatus] /\ current' \in Versions
    BY <1>0, <1>4, <2>1 DEF TypeOK, Approve, VersionStatus
  <2>3. status' \in AssistantStatus
    BY <1>0, <1>4 DEF TypeOK, Approve, AssistantStatus
  <2> QED BY <1>0, <1>4, <2>2, <2>3, DoneType DEF TypeOK, Approve
<1>5. ASSUME NEW h \in Handlers, MakeLive(h) PROVE TypeOK'
  <2>1. handler[h].number \in Versions
    BY <1>0, <1>5 DEF LockHolds, MakeLive
  <2>2. version' \in [Versions -> VersionStatus] /\ current' \in Versions
    BY <1>0, <1>5, <2>1 DEF TypeOK, MakeLive, VersionStatus
  <2> QED BY <1>0, <1>5, <2>2, DoneType DEF TypeOK, MakeLive
<1>6. ASSUME NEW n \in Versions, NEW to \in {"rejected", "withdrawn"}, EndReview(n, to)
      PROVE  TypeOK'
  BY <1>0, <1>6 DEF TypeOK, EndReview, VersionStatus
<1>7. ASSUME NEW n \in Versions, Drift(n) PROVE TypeOK'
  BY <1>0, <1>7 DEF TypeOK, Drift
<1>8. ASSUME NEW c \in Conversations, ConversationNext(c) PROVE TypeOK'
  <2>1. conv' \in [Conversations -> ConversationType]
    BY <1>0, <1>8 DEF TypeOK, ConversationNext, StartConversation, OpenTurn, Answer,
       StartsOn, ConversationType
  <2> QED BY <1>0, <1>8, <2>1
       DEF TypeOK, ConversationNext, StartConversation, OpenTurn, Answer
<1> QED BY <1>1, <1>2, <1>3, <1>4, <1>5, <1>6, <1>7, <1>8, Steps

\* A version that was ever approved stays so, or is rolled back.
LEMMA ReviewedStays ==
  ASSUME IInv, [Next]_vars, NEW v \in Versions, version[v] \in Reviewed
  PROVE  version'[v] \in Reviewed
<1>0. TypeOK BY DEF IInv
<1>1. ASSUME NEW h \in Handlers, NEW n \in Versions, Submit(h, n)
      PROVE  version'[v] \in Reviewed
  <2>1. v # n
    BY <1>0, <1>1 DEF Submit, NextNumber, Reviewed
  <2> QED BY <1>0, <1>1, <2>1 DEF TypeOK, Submit, Superseded, Reviewed
<1>2. ASSUME NEW h \in Handlers, Approve(h) \/ MakeLive(h)
      PROVE  version'[v] \in Reviewed
  BY <1>0, <1>2 DEF TypeOK, Approve, MakeLive, Reviewed
<1>3. ASSUME NEW n \in Versions, NEW to \in {"rejected", "withdrawn"}, EndReview(n, to)
      PROVE  version'[v] \in Reviewed
  BY <1>0, <1>3 DEF TypeOK, EndReview, Awaiting, Reviewed
<1>4. CASE UNCHANGED version
  BY <1>4
<1> QED
  BY <1>1, <1>2, <1>3, <1>4, Steps
  DEF vars, Quiet, Load, Lock, Check, GiveUp, Archive, Unarchive, Drift,
      ConversationNext, StartConversation, OpenTurn, Answer

\* The live version stays an approved one.
LEMMA LiveStep ==
  ASSUME IInv, [Next]_vars
  PROVE  LiveIsApproved'
<1>0. TypeOK /\ LockHolds /\ LiveIsApproved
  BY DEF IInv
<1>1. ASSUME NEW h \in Handlers, NEW n \in Versions, Submit(h, n)
      PROVE  LiveIsApproved'
  BY <1>0, <1>1 DEF TypeOK, LiveIsApproved, Submit, Superseded, NextNumber
<1>2. ASSUME NEW h \in Handlers, Approve(h) PROVE LiveIsApproved'
  BY <1>0, <1>2 DEF TypeOK, LiveIsApproved, LockHolds, Approve
<1>3. ASSUME NEW h \in Handlers, MakeLive(h) PROVE LiveIsApproved'
  BY <1>0, <1>3 DEF TypeOK, LiveIsApproved, LockHolds, MakeLive
<1>4. ASSUME NEW n \in Versions, NEW to \in {"rejected", "withdrawn"}, EndReview(n, to)
      PROVE  LiveIsApproved'
  BY <1>0, <1>4 DEF TypeOK, LiveIsApproved, EndReview, Awaiting
<1>5. CASE UNCHANGED <<version, current>>
  BY <1>0, <1>5 DEF LiveIsApproved
<1> QED
  BY <1>1, <1>2, <1>3, <1>4, <1>5, Steps
  DEF vars, Quiet, Load, Lock, Check, GiveUp, Archive, Unarchive, Drift,
      ConversationNext, StartConversation, OpenTurn, Answer

\* The submission that waits stays the newest.
LEMMA WaitingStep ==
  ASSUME IInv, [Next]_vars
  PROVE  WaitingIsNewest'
<1>0. TypeOK /\ WaitingIsNewest /\ LockHolds
  BY DEF IInv
<1>1. ASSUME NEW h \in Handlers, NEW n \in Versions, Submit(h, n)
      PROVE  WaitingIsNewest'
  <2>1. ASSUME NEW v \in Versions, version'[v] = "submitted" PROVE v = n
    BY <1>0, <1>1, <2>1 DEF TypeOK, Submit, Superseded
  <2>2. ASSUME NEW w \in Versions, w > n PROVE version'[w] = "none"
    BY <1>0, <1>1, <2>2 DEF TypeOK, Submit, Superseded, NextNumber
  <2> QED BY <2>1, <2>2 DEF WaitingIsNewest
<1>2. ASSUME NEW h \in Handlers, Approve(h) PROVE WaitingIsNewest'
  BY <1>0, <1>2 DEF TypeOK, WaitingIsNewest, LockHolds, Approve, Awaiting
<1>3. ASSUME NEW h \in Handlers, MakeLive(h) PROVE WaitingIsNewest'
  <2>1. ASSUME NEW w \in Versions, version[w] = "none" PROVE version'[w] = "none"
    BY <1>0, <1>3, <2>1 DEF TypeOK, MakeLive, Awaiting
  <2>2. ASSUME NEW v \in Versions, version'[v] = "submitted"
        PROVE  version[v] = "submitted"
    BY <1>0, <1>3, <2>2 DEF TypeOK, MakeLive
  <2> QED BY <1>0, <2>1, <2>2 DEF WaitingIsNewest
<1>4. ASSUME NEW n \in Versions, NEW to \in {"rejected", "withdrawn"}, EndReview(n, to)
      PROVE  WaitingIsNewest'
  BY <1>0, <1>4 DEF TypeOK, WaitingIsNewest, EndReview, Awaiting
<1>5. CASE UNCHANGED version
  BY <1>0, <1>5 DEF WaitingIsNewest
<1> QED
  BY <1>1, <1>2, <1>3, <1>4, <1>5, Steps
  DEF vars, Quiet, Load, Lock, Check, GiveUp, Archive, Unarchive, Drift,
      ConversationNext, StartConversation, OpenTurn, Answer

\* The lock excludes, and what a rollback checked under it still holds.
LEMMA LockStep ==
  ASSUME IInv, [Next]_vars
  PROVE  LockHolds'
<1>0. TypeOK /\ LockHolds
  BY DEF IInv
<1>a. ASSUME NEW h \in Handlers, handler[h].pc \in {"locked", "checked"}, Done(h)
      PROVE  LockHolds'
  <2>1. \A g \in Handlers \ {h} : handler[g].pc \notin {"locked", "checked"}
    BY <1>0, <1>a DEF LockHolds
  <2> QED BY <1>0, <1>a, <2>1 DEF TypeOK, LockHolds, Done, Idle, Operations
<1>b. ASSUME NEW h \in Handlers, Done(h), UNCHANGED version
      PROVE  LockHolds'
  BY <1>0, <1>b DEF TypeOK, LockHolds, Done, Idle, Operations
<1>1. ASSUME NEW h \in Handlers, Quiet(h) PROVE LockHolds'
  <2>1. ASSUME NEW op \in Operations, NEW n \in Versions \cup {None}, Load(h, op, n)
        PROVE  LockHolds'
    BY <1>0, <2>1 DEF TypeOK, LockHolds, Load
  <2>2. CASE Lock(h)
    BY <1>0, <2>2 DEF TypeOK, LockHolds, Lock, RowFree
  <2>3. CASE Check(h)
    BY <1>0, <2>3 DEF TypeOK, LockHolds, Check
  <2>4. CASE GiveUp(h)
    BY <1>b, <2>4 DEF GiveUp
  <2> QED BY <1>1, <2>1, <2>2, <2>3, <2>4 DEF Quiet
<1>2. ASSUME NEW h \in Handlers, Archive(h) \/ Unarchive(h) PROVE LockHolds'
  BY <1>b, <1>2 DEF Archive, Unarchive
<1>3. ASSUME NEW h \in Handlers, \/ \E n \in Versions : Submit(h, n)
                                 \/ Approve(h) \/ MakeLive(h)
      PROVE  LockHolds'
  BY <1>a, <1>3 DEF Submit, Approve, MakeLive
<1>4. ASSUME NEW n \in Versions, NEW to \in {"rejected", "withdrawn"}, EndReview(n, to)
      PROVE  LockHolds'
  BY <1>0, <1>4 DEF TypeOK, LockHolds, EndReview, Awaiting
<1>5. CASE UNCHANGED <<version, lock, handler>>
  BY <1>0, <1>5 DEF LockHolds
<1> QED
  BY <1>1, <1>2, <1>3, <1>4, <1>5, Steps
  DEF vars, Drift, ConversationNext, StartConversation, OpenTurn, Answer

\* Conversations stay on versions that were approved.
LEMMA ChatStep ==
  ASSUME IInv, [Next]_vars
  PROVE  ChatsOnReviewed' /\ SeenWasLive'
<1>0. TypeOK /\ LiveIsApproved /\ ChatsOnReviewed /\ SeenWasLive
  BY DEF IInv
<1>1. CASE UNCHANGED conv
  <2>1. ASSUME NEW v \in Versions, version[v] \in {"approved", "rolled_back"}
        PROVE  version'[v] \in {"approved", "rolled_back"}
    BY <2>1, ReviewedStays DEF Reviewed
  <2>2. \A c \in Conversations : conv[c] \in ConversationType
    BY <1>0 DEF TypeOK
  <2> QED BY <1>0, <1>1, <2>1, <2>2 DEF ChatsOnReviewed, SeenWasLive, ConversationType
<1>2. ASSUME NEW c \in Conversations, ConversationNext(c)
      PROVE  ChatsOnReviewed' /\ SeenWasLive'
  <2>1. CASE StartConversation(c)
    BY <1>0, <2>1 DEF TypeOK, LiveIsApproved, ChatsOnReviewed, SeenWasLive,
       StartConversation, StartsOn, Available, ConversationType
  <2>2. CASE OpenTurn(c)
    BY <1>0, <2>2 DEF TypeOK, LiveIsApproved, ChatsOnReviewed, SeenWasLive,
       OpenTurn, Available, ConversationType
  <2>3. CASE Answer(c)
    BY <1>0, <2>3 DEF TypeOK, ChatsOnReviewed, SeenWasLive, Answer, ConversationType
  <2> QED BY <1>2, <2>1, <2>2, <2>3 DEF ConversationNext
<1> QED
  BY <1>1, <1>2, Steps
  DEF vars, Quiet, Load, Lock, Check, GiveUp, Archive, Unarchive, Submit, Approve,
      MakeLive, EndReview, Drift

-----------------------------------------------------------------------------
(* The theorems.                                                           *)

\* The invariant holds in every reachable state.
THEOREM Invariance == Spec => []IInv
<1>1. IInv /\ [Next]_vars => IInv'
  <2> SUFFICES ASSUME IInv, [Next]_vars PROVE IInv'
    OBVIOUS
  <2>1. TypeOK'
    <3>1. CASE Next BY <3>1, TypeStep
    <3>2. CASE UNCHANGED vars BY <3>2 DEF IInv, TypeOK, vars
    <3> QED BY <3>1, <3>2
  <2> QED BY <2>1, LiveStep, WaitingStep, LockStep, ChatStep DEF IInv
<1> QED BY <1>1, InitInv, PTL DEF Spec

\* The live version is always an approved one.
THEOREM LiveApproved == Spec => []LiveIsApproved
<1>1. IInv => LiveIsApproved BY DEF IInv
<1> QED BY <1>1, Invariance, PTL

\* At most one submission waits, the newest.
THEOREM WaitingNewest == Spec => []WaitingIsNewest
<1>1. IInv => WaitingIsNewest BY DEF IInv
<1> QED BY <1>1, Invariance, PTL

\* No conversation is ever on a version that nobody approved.
THEOREM ChatsReviewed == Spec => []ChatsOnReviewed
<1>1. IInv => ChatsOnReviewed BY DEF IInv
<1> QED BY <1>1, Invariance, PTL

\* A version moves only along its review, and never back into service.
THEOREM ReviewsStand == Spec => ReviewedOnce
<1>1. IInv /\ [Next]_vars =>
        [\A v \in Versions : version'[v] # version[v] =>
           <<version[v], version'[v]>> \in ReviewMoves]_vars
  <2> SUFFICES ASSUME IInv, Next, NEW v \in Versions, version'[v] # version[v]
               PROVE  <<version[v], version'[v]>> \in ReviewMoves
    OBVIOUS
  <2>0. TypeOK BY DEF IInv
  <2>1. ASSUME NEW h \in Handlers, NEW n \in Versions, Submit(h, n)
        PROVE  <<version[v], version'[v]>> \in ReviewMoves
    BY <2>0, <2>1 DEF TypeOK, Submit, Superseded, NextNumber, ReviewMoves
  <2>2. ASSUME NEW h \in Handlers, Approve(h)
        PROVE  <<version[v], version'[v]>> \in ReviewMoves
    BY <2>0, <2>2 DEF TypeOK, Approve, Awaiting, ReviewMoves
  <2>3. ASSUME NEW h \in Handlers, MakeLive(h)
        PROVE  <<version[v], version'[v]>> \in ReviewMoves
    BY <2>0, <2>3 DEF TypeOK, MakeLive, Awaiting, ReviewMoves
  <2>4. ASSUME NEW n \in Versions, NEW to \in {"rejected", "withdrawn"}, EndReview(n, to)
        PROVE  <<version[v], version'[v]>> \in ReviewMoves
    BY <2>0, <2>4 DEF TypeOK, EndReview, Awaiting, ReviewMoves
  <2>5. CASE UNCHANGED version
    BY <2>5
  <2> QED
    BY <2>1, <2>2, <2>3, <2>4, <2>5, Steps
    DEF Quiet, Load, Lock, Check, GiveUp, Archive, Unarchive, Drift,
        ConversationNext, StartConversation, OpenTurn, Answer
<1> QED BY <1>1, Invariance, PTL DEF Spec, ReviewedOnce

\* A turn that reads the live version after a rollback is answered in service.
THEOREM InService == Spec => AnswersInService
<1>1. IInv /\ [Next]_vars =>
        [\A c \in Conversations :
           conv[c].turn = "opening" /\ conv'[c].turn = "idle" /\ conv[c].seen = current
             => version[conv'[c].on] = "approved"]_vars
  <2> SUFFICES ASSUME IInv, Next, NEW c \in Conversations, conv[c].turn = "opening",
                      conv'[c].turn = "idle", conv[c].seen = current
               PROVE  version[conv'[c].on] = "approved"
    OBVIOUS
  <2>0. TypeOK /\ LiveIsApproved /\ ChatsOnReviewed /\ SeenWasLive
    BY DEF IInv
  <2>1. ASSUME NEW d \in Conversations, ConversationNext(d)
        PROVE  version[conv'[c].on] = "approved"
    <3>1. d = c /\ Answer(c)
      BY <2>0, <2>1 DEF TypeOK, ConversationNext, StartConversation, OpenTurn, Answer,
         ConversationType
    <3>2. CASE OutOfService(conv[c].on)
      BY <2>0, <3>1, <3>2 DEF TypeOK, Answer, LiveIsApproved, SeenWasLive
    <3>3. CASE ~OutOfService(conv[c].on)
      BY <2>0, <3>1, <3>3 DEF TypeOK, Answer, OutOfService, ChatsOnReviewed, SeenWasLive
    <3> QED BY <3>2, <3>3
  <2>2. conv' # conv
    OBVIOUS
  <2> QED
    BY <2>1, <2>2, Steps
    DEF Quiet, Load, Lock, Check, GiveUp, Archive, Unarchive, Submit, Approve,
        MakeLive, EndReview, Drift
<1> QED BY <1>1, Invariance, PTL DEF Spec, AnswersInService
=============================================================================
