------------------------------ MODULE Canvas ------------------------------
(***************************************************************************)
(* The draft of an assistant, kept twice: as a graph drawn on the canvas   *)
(* and as the config the panels edit (app/graph/, services/assistants.py). *)
(* Saving the graph validates it and compiles the config from it; saving   *)
(* the config projects it onto the graph, keeping the user's wiring where  *)
(* that means the same.  What validation finds may come with a fix, which  *)
(* the user applies to the graph (graph/fixes.py).                         *)
(*                                                                         *)
(* A node is its type, what it refers to, and a number that tells nodes of *)
(* the same identity apart, in the order of the graph's list.  Of node     *)
(* data only whether guardrails and memory have settings of their own is   *)
(* kept; every other field is copied both ways as it is.                   *)
(***************************************************************************)
EXTENDS Naturals, FiniteSets, FiniteSetsExt, Assistant

CONSTANTS
  Sources, Databases, Tools, Servers,  \* what nodes refer to
  Roles,     \* subagents: of "retrieval", "sql", "research"
  Starts,    \* configs the draft may come from
  Misdrawn,  \* pairs of types a client may connect though they are not allowed
  MaxSaves

ASSUME ConstantsAssumption ==
  /\ Roles \subseteq {"retrieval", "sql", "research"} /\ MaxSaves \in Nat
  /\ None \notin {"graph", "config"}

VARIABLES
  draft,  \* the assistant's row: graph and config
  save,   \* each request: what it loaded, what it will write
  lone,   \* nothing was committed while the last save was under way (history)
  saves   \* how many so far

draftVars == <<draft, save, lone, saves>>

-----------------------------------------------------------------------------
(* Graphs and configs (graph/nodes.py, schemas/assistant_config.py).       *)

CapabilityTypes == {"knowledge_base", "database", "tool", "mcp_server"}
Singletons == {"input", "agent", "output"}
AtMostOne == {"guardrail", "memory", "router"}
Defaulted == {"guardrail", "memory"}
Types == CapabilityTypes \cup Singletons \cup AtMostOne \cup {"data_source", "subagent"}

AllowedEdges ==
  ({"input"} \X {"guardrail", "router", "agent"})
    \cup ({"guardrail"} \X {"router", "agent"})
    \cup ({"router", "subagent", "memory"} \X {"agent"})
    \cup (CapabilityTypes \X {"agent", "subagent"})
    \cup {<<"data_source", "knowledge_base">>, <<"agent", "output">>}

RefsOf(type) ==
  CASE type = "data_source" -> Sources
    [] type = "database"    -> Databases
    [] type = "tool"        -> Tools
    [] type = "mcp_server"  -> Servers
    [] type = "subagent"    -> Roles
    [] OTHER                -> {None}

Node(type, ref) == [type |-> type, ref |-> ref, copy |-> 1]
EmptyGraph == [nodes |-> {}, edges |-> {}, own |-> {}]

Of(g, type) == {n \in g.nodes : n.type = type}
Alike(g, n) == {m \in g.nodes : m.type = n.type /\ m.ref = n.ref}
\* The first in the list of those that are alike.
First(S) == CHOOSE n \in S : \A m \in S : n.copy <= m.copy
OnlyOne(g, type) == First(Of(g, type))
Outgoers(g, n) == {m \in g.nodes : <<n, m>> \in g.edges}
Incomers(g, n) == {m \in g.nodes : <<m, n>> \in g.edges}

\* Free ids are numbered after those in use.
Fresh(g, type, ref) ==
  LET used == {n.copy : n \in Alike(g, Node(type, ref))}
  IN [Node(type, ref) EXCEPT !.copy = 1 + Max(used \cup {0})]

Without(g, gone) ==
  [nodes |-> g.nodes \ gone, own |-> g.own \ gone,
   edges |-> {e \in g.edges : e[1] \notin gone /\ e[2] \notin gone}]

\* What the config may say each capability is for: nobody (it is off), the main agent,
\* subagents.
Capabilities == UNION {{<<t, r>> : r \in RefsOf(t)} : t \in CapabilityTypes}
KnowledgeBase == <<"knowledge_base", None>>

\* _canonical_scopes: a role that is off is nobody, and what is left with nobody goes back
\* to the main agent.
Canonical(c) ==
  [c EXCEPT !.scope = [k \in Capabilities |->
     LET roles == c.scope[k] \cap c.subs
     IN IF c.scope[k] = {} THEN {}
        ELSE roles \cup (IF roles = {} THEN {"agent"} ELSE c.scope[k] \cap {"agent"})]]

\* The config without the settings it keeps of what is off: here the sources of a knowledge
\* base.
InUse(c) == [c EXCEPT !.sources = IF c.scope[KnowledgeBase] = {} THEN {} ELSE @]

Nodes ==
  {n \in [type : Types, ref : UNION {RefsOf(t) : t \in Types}, copy : Nat] :
     n.ref \in RefsOf(n.type)}

Graphs ==
  {g \in [nodes : SUBSET Nodes, edges : SUBSET (Nodes \X Nodes), own : SUBSET Nodes] :
     /\ IsFiniteSet(g.nodes) /\ g.edges \subseteq g.nodes \X g.nodes
     /\ \A n \in g.own : n \in g.nodes /\ n.type \in Defaulted}

\* The capabilities that are on for somebody.
On(c) == {k \in Capabilities : c.scope[k] # {}}

Bodies ==
  {c \in [own : SUBSET Defaulted, router : BOOLEAN,
          scope : [Capabilities -> SUBSET ({"agent"} \cup Roles)],
          sources : SUBSET Sources, subs : SUBSET Roles] :
     IsFiniteSet(On(c)) /\ IsFiniteSet(c.sources)}

\* In what is kept, a capability is not for a subagent that is off.
Configs == {c \in Bodies : \A k \in Capabilities : c.scope[k] \subseteq c.subs \cup {"agent"}}

ASSUME StartsAssumption == Starts \subseteq Configs
-----------------------------------------------------------------------------
(* validate_graph.                                                         *)

Legal(g) ==
  {e \in g.edges : {e[1], e[2]} \subseteq g.nodes /\ <<e[1].type, e[2].type>> \in AllowedEdges}

\* The nodes that reach the agent: no path of allowed edges to it is longer than three.
Reaching(g, edges) ==
  LET before(S) == S \cup {e[1] : e \in {e \in edges : e[2] \in S}}
  IN before(before(before(Of(g, "agent"))))

OfType(code, type) == [code |-> code, type |-> type, nodes |-> {}, edges |-> {}]
OfNode(code, n) == [code |-> code, type |-> n.type, nodes |-> {n}, edges |-> {}]
OfEdge(code, e) == [code |-> code, type |-> "edge", nodes |-> {}, edges |-> {e}]

\* An id is used once here, and a cycle needs an edge that is not allowed, which is found.
Errors(g) ==
  {OfEdge("illegal", e) : e \in g.edges \ Legal(g)}
    \cup {OfType("missing", t) : t \in {t \in Singletons : Of(g, t) = {}}}
    \cup {OfType("duplicate", t) : t \in {t \in Singletons \cup AtMostOne : Cardinality(Of(g, t)) > 1}}
    \cup {OfNode("again", n) : n \in {n \in g.nodes :
            /\ n.type \in CapabilityTypes \cup {"subagent"}
            /\ n # First(Alike(g, n))}}

Valid(g) == Errors(g) = {}

\* What a subagent is for: without one it may use, it is skipped.
Needed(role) ==
  CASE role = "retrieval" -> {KnowledgeBase}
    [] role = "sql"       -> {"database"} \X Databases
    [] role = "research"  -> {<<"tool", "web_search">>}

\* Mutant of Usable: what another subagent has is taken for its own.
UsableByAny(g, n, k) == Outgoers(g, k) \cap (Of(g, "agent") \cup Of(g, "subagent")) # {}

Usable(g, n, k) == Outgoers(g, k) \cap (Of(g, "agent") \cup {n}) # {}

HasNeeds(g, n) == \E k \in g.nodes : <<k.type, k.ref>> \in Needed(n.ref) /\ Usable(g, n, k)

\* Nodes the compiler ignores unless they are on the way to the agent.
Ignorable == AtMostOne \cup {"subagent"}

Warnings(g) ==
  LET wired == Reaching(g, Legal(g))
      unwired(type) == {n \in Of(g, type) : n \notin wired}
  IN {OfType("defaults", t) : t \in {t \in Defaulted : Of(g, t) = {}}}
       \cup (IF ~Valid(g) THEN {} ELSE
               (UNION {{OfNode("orphan", n) : n \in unwired(t)} :
                         t \in Ignorable \cup CapabilityTypes})
                 \cup {OfNode("inert", n) : n \in {n \in Of(g, "subagent") \cap wired :
                                                      ~HasNeeds(g, n)}}
                 \cup {OfNode("unconnected", n) : n \in {n \in Of(g, "data_source") :
                         Outgoers(g, n) \cap Of(g, "knowledge_base") = {}}}
                 \cup {OfNode("input_not_wired", n) : n \in unwired("input")}
                 \cup {OfNode("output_not_wired", n) : n \in {n \in Of(g, "output") :
                         Incomers(g, n) \cap Of(g, "agent") = {}}})

Issues(g) == Errors(g) \cup Warnings(g)
-----------------------------------------------------------------------------
(* The fix an issue comes with, if any (graph/fixes.py, validate.py).      *)

NoFix == [add |-> {}, wire |-> {}, drop |-> {}, unwire |-> {}]
Wire(edges) == [NoFix EXCEPT !.wire = edges]
Drop(nodes) == [NoFix EXCEPT !.drop = nodes]

Apply(g, fix) ==
  LET kept == Without(g, fix.drop)
  IN [kept EXCEPT !.nodes = @ \cup fix.add, !.edges = (@ \ fix.unwire) \cup fix.wire]

\* A missing input, output, guardrail or memory node, wired in.
AddNode(g, type) ==
  LET n == Fresh(g, type, None)
      agent == OnlyOne(g, "agent")
      guard == IF Of(g, "guardrail") = {} THEN agent ELSE OnlyOne(g, "guardrail")
      before == IF Of(g, "input") = {} THEN {} ELSE {<<OnlyOne(g, "input"), n>>}
  IN [NoFix EXCEPT !.add = {n}, !.wire =
       CASE type = "input"     -> {<<n, guard>>}
         [] type = "output"    -> {<<agent, n>>}
         [] type = "guardrail" -> before \cup {<<n, agent>>}
         [] type = "memory"    -> {<<n, agent>>}]

\* The node of this type on the way to the agent, or the other one given.
OnTheWay(g, type, other) ==
  LET there == Of(g, type) \cap Reaching(g, Legal(g))
  IN IF there = {} THEN other ELSE First(there)

\* Mutant of PutBack: a router is fed, but leads nowhere.
PutBackHalf(g, n) ==
  IF n.type = "router" THEN {<<OnTheWay(g, "guardrail", OnlyOne(g, "input")), n>>}
  ELSE {<<n, OnlyOne(g, "agent")>>}

\* A node that was ignored, put back where the projection has it.
PutBack(g, n) ==
  LET agent == OnlyOne(g, "agent")
      input == OnlyOne(g, "input")
  IN CASE n.type = "guardrail" -> {<<input, n>>, <<n, OnTheWay(g, "router", agent)>>}
       [] n.type = "router"    -> {<<OnTheWay(g, "guardrail", input), n>>, <<n, agent>>}
       [] OTHER                -> {<<n, agent>>}

\* What an idle subagent needs is wired to it, if it is on the canvas.
Give(g, n) ==
  LET there == {k \in g.nodes : <<k.type, k.ref>> \in Needed(n.ref)}
  IN IF there = {} THEN Drop({n}) ELSE Wire({<<CHOOSE k \in there : TRUE, n>>})

FixOf(g, issue) ==
  LET agent == OnlyOne(g, "agent")
      n == CHOOSE n \in issue.nodes : TRUE
      kbs == Of(g, "knowledge_base")
  IN CASE issue.code = "illegal"   -> [NoFix EXCEPT !.unwire = issue.edges]
       [] issue.code = "duplicate" -> Drop(Of(g, issue.type) \ {OnlyOne(g, issue.type)})
       [] issue.code = "again"     -> Drop({n})
       [] issue.code \in {"missing", "defaults"} ->
            IF Of(g, "agent") = {} THEN NoFix ELSE AddNode(g, issue.type)
       [] issue.code = "orphan"    -> Wire(PutBack(g, n))
       [] issue.code = "inert"     -> Give(g, n)
       [] issue.code = "unconnected" ->
            IF Cardinality(kbs) = 1 THEN Wire({<<n, First(kbs)>>}) ELSE NoFix
       [] issue.code = "input_not_wired" ->
            Wire({<<n, OnTheWay(g, "guardrail", OnTheWay(g, "router", agent))>>})
       [] issue.code = "output_not_wired" -> Wire({<<agent, n>>})

Fixable(g) == {i \in Issues(g) : FixOf(g, i) # NoFix}
-----------------------------------------------------------------------------
(* compile_graph and project_config.                                       *)

\* Who may use a node, by the edges to the agent and to subagents wired to it.
ScopeOf(g, n) ==
  LET outs == Outgoers(g, n)
      subs == {m \in outs \cap Of(g, "subagent") : Outgoers(g, m) \cap Of(g, "agent") # {}}
  IN {m.ref : m \in subs} \cup (IF outs \cap Of(g, "agent") = {} THEN {} ELSE {"agent"})

SubsOf(g) == {n \in Of(g, "subagent") : Outgoers(g, n) \cap Of(g, "agent") # {}}

Compile(g) ==
  LET wired == Reaching(g, g.edges)
      kb == {n \in Of(g, "knowledge_base") : ScopeOf(g, n) # {}}
  IN [own |-> {t \in Defaulted : Of(g, t) \cap wired \cap g.own # {}},
      router |-> Of(g, "router") \cap wired # {},
      scope |-> [k \in Capabilities |->
                   UNION {ScopeOf(g, n) : n \in {n \in g.nodes : <<n.type, n.ref>> = k}}],
      sources |-> {s.ref : s \in (UNION {Incomers(g, n) : n \in kb}) \cap Of(g, "data_source")},
      subs |-> {n.ref : n \in SubsOf(g)}]

\* The node's id on the user's canvas if it is already there.
Ident(g, type, ref) ==
  LET there == Alike(g, Node(type, ref))
  IN IF there = {} THEN Node(type, ref) ELSE First(there)

\* The graph of a config, with the ids of the user's where the node is there already.
Canonically(c, g) ==
  LET id(type) == Ident(g, type, None)
      agent == id("agent")
      on == On(c)
      cap(k) == Ident(g, k[1], k[2])
      line == IF c.router THEN {<<id("guardrail"), id("router")>>, <<id("router"), agent>>}
              ELSE {<<id("guardrail"), agent>>}
      subs == {Ident(g, "subagent", r) : r \in c.subs}
      sources == {Ident(g, "data_source", s) : s \in InUse(c).sources}
  IN [nodes |-> {id(t) : t \in Singletons \cup Defaulted}
                  \cup (IF c.router THEN {id("router")} ELSE {})
                  \cup {cap(k) : k \in on} \cup subs \cup sources,
      own |-> {id(t) : t \in c.own},
      edges |-> {<<id("input"), id("guardrail")>>, <<id("memory"), agent>>,
                 <<agent, id("output")>>}
                  \cup line \cup {<<s, agent>> : s \in subs}
                  \cup {<<s, id("knowledge_base")>> : s \in sources}
                  \cup {<<cap(k), agent>> : k \in {k \in on : "agent" \in c.scope[k]}}
                  \cup UNION {{<<cap(k), Ident(g, "subagent", r)>> :
                                 r \in c.scope[k] \cap c.subs} : k \in on}]

Added(canonical, g) == {e \in canonical.edges : {e[1], e[2]} \cap (canonical.nodes \ g.nodes) # {}}

\* Mutant of SafeWiring: the user's wiring is kept whatever it means now.
AnyWiring(candidate, c) == Valid(candidate)

\* Mutant of SafeWiring: and only if nothing in it is to be warned of.
WiringUnwarned(candidate, c) == Issues(candidate) = {} /\ Compile(candidate) = c

SafeWiring(candidate, c) == Valid(candidate) /\ Compile(candidate) = c

\* _keep_user_wiring: the edges the user drew, and those of new nodes, if that is valid and
\* compiles to this config; else the canonical ones.
Project(c, g) ==
  LET canonical == Canonically(c, g)
      kept == {e \in g.edges : {e[1], e[2]} \subseteq canonical.nodes}
      candidate == [canonical EXCEPT !.edges = kept \cup Added(canonical, g)]
  IN IF SafeWiring(candidate, c) THEN candidate ELSE canonical
-----------------------------------------------------------------------------
(* What the user changes: the graph, by one step or one fix; the config.   *)

Edits(g) ==
  LET drawn == {e \in g.nodes \X g.nodes :
                  <<e[1].type, e[2].type>> \in AllowedEdges \cup Misdrawn}
  IN (UNION {{[g EXCEPT !.nodes = @ \cup {Fresh(g, t, r)}] : r \in RefsOf(t)} : t \in Types})
     \cup {Without(g, {n}) : n \in g.nodes}
     \cup {[g EXCEPT !.edges = @ \cup {e}] : e \in drawn}
     \cup {[g EXCEPT !.edges = @ \ {e}] : e \in g.edges}
     \cup {[g EXCEPT !.own = @ \cup {n}] : n \in Of(g, "guardrail") \cup Of(g, "memory")}
     \cup {Apply(g, FixOf(g, i)) : i \in Fixable(g)}

Toggled(S, x) == IF x \in S THEN S \ {x} ELSE S \cup {x}

Settings(c) ==
  {Canonical(d) : d \in
     {c, [c EXCEPT !.router = ~@]}
       \cup {[c EXCEPT !.own = Toggled(@, t)] : t \in Defaulted}
       \cup {[c EXCEPT !.subs = Toggled(@, r)] : r \in Roles}
       \cup {[c EXCEPT !.sources = Toggled(@, s)] : s \in Sources}
       \cup UNION {{[c EXCEPT !.scope[k] = s] : s \in SUBSET ({"agent"} \cup Roles)} :
                      k \in Capabilities}}
-----------------------------------------------------------------------------
(* Saving (save_draft_graph, save_draft_config, submit): the row is        *)
(* loaded, what is saved follows from it and from the body, and only the   *)
(* columns that changed are written.                                       *)

Nothing == [kind |-> None, seen |-> None, graph |-> None, config |-> None, clean |-> TRUE]

Asks(h, kind, graph, config) ==
  /\ save[h] = Nothing /\ saves < MaxSaves /\ saves' = saves + 1
  /\ save' = [save EXCEPT ![h] = [kind |-> kind, seen |-> draft, graph |-> graph,
                                  config |-> config, clean |-> TRUE]]
  /\ UNCHANGED <<draft, lone>>

\* A graph that is not valid is saved, and leaves the config as it is.
SaveGraph(h) ==
  \E g \in Edits(draft.graph) :
    Asks(h, "graph", g, IF Valid(g) THEN Compile(g) ELSE draft.config)

SaveConfig(h) ==
  \E c \in Settings(draft.config) : Asks(h, "config", Project(c, draft.graph), c)

\* A submission compiles the graph it loaded, for the version and for the draft.
SubmitDraft(h) ==
  Valid(draft.graph) /\ Asks(h, "graph", draft.graph, Compile(draft.graph))

Commit(h) ==
  LET s == save[h]
  IN /\ s # Nothing
     /\ draft' = [graph |-> IF s.graph = s.seen.graph THEN draft.graph ELSE s.graph,
                  config |-> IF s.config = s.seen.config THEN draft.config ELSE s.config]
     /\ lone' = s.clean
     /\ save' = [i \in Handlers |-> IF i = h THEN Nothing
                                    ELSE IF save[i] = Nothing THEN Nothing
                                    ELSE [save[i] EXCEPT !.clean = FALSE]]
     /\ UNCHANGED saves

\* Saves that met before may have left the graph of one config with another config.
DraftInit ==
  /\ \E drawn, c \in Starts :
       draft = [graph |-> Project(drawn, EmptyGraph), config |-> c] /\ lone = (drawn = c)
  /\ save = [h \in Handlers |-> Nothing]
  /\ saves = 0

DraftNext ==
  \E h \in Handlers : SaveGraph(h) \/ SaveConfig(h) \/ SubmitDraft(h) \/ Commit(h)

DraftSpec == DraftInit /\ [][DraftNext]_draftVars
-----------------------------------------------------------------------------
(* Properties.                                                             *)

\* Every variable has its type: graphs whose edges are between their nodes, and configs
\* whose capabilities are for who is on.
Drafts == [graph : Graphs, config : Configs]

DraftTypeOK ==
  /\ draft \in Drafts /\ lone \in BOOLEAN /\ saves \in 0..MaxSaves
  /\ save \in [Handlers -> {Nothing} \cup
                [kind : {"graph", "config"}, seen : Drafts, graph : Graphs,
                 config : Configs, clean : BOOLEAN]]

\* "draft_config is always the compiled result of draft_graph when the graph is valid"
\* (models/assistant.py): whatever was saved through either, and whatever earlier saves that
\* met each other left behind, unless the last one met another.  Settings of what is off are
\* kept in the config alone.
InSync == lone /\ Valid(draft.graph) => Compile(draft.graph) = InUse(draft.config)

\* A fix clears the issue it was offered for and adds no error (tests/test_graph_fixes.py).
FixesClear ==
  \A i \in Fixable(draft.graph) :
    LET after == Apply(draft.graph, FixOf(draft.graph, i))
    IN i \notin Issues(after) /\ Errors(after) \subseteq Errors(draft.graph)

\* A valid graph without a warning has no node the compiler ignores, and no subagent that
\* is skipped when a turn runs.
NothingIgnored ==
  LET g == draft.graph
      c == Compile(g)
  IN Valid(g) /\ Warnings(g) = {} =>
       /\ On(c) = {<<n.type, n.ref>> : n \in UNION {Of(g, t) : t \in CapabilityTypes}}
       /\ c.sources = {n.ref : n \in Of(g, "data_source")}
       /\ c.subs = {n.ref : n \in Of(g, "subagent")}
       /\ c.router <=> Of(g, "router") # {}
       /\ c.own = {n.type : n \in g.own}
       /\ \A r \in c.subs : \E k \in Needed(r) \cap Capabilities : c.scope[k] \cap {"agent", r} # {}

\* Saving a config that the graph already means, but for settings of nodes that are wired,
\* leaves the edges between the nodes it keeps as the user drew them, if no node is there
\* twice.
AsDrawn(c, g) ==
  /\ Valid(g) /\ [c EXCEPT !.own = {}] = [Compile(g) EXCEPT !.own = {}]
  /\ (UNION {Of(g, t) : t \in c.own}) \subseteq Reaching(g, g.edges)
  /\ \A n \in g.nodes : Alike(g, n) = {n}

WiringKept ==
  [][\A h \in Handlers :
       LET s == save[h]
           g == s.seen.graph
       IN s.kind = "config" /\ save'[h] = Nothing /\ s.clean /\ AsDrawn(s.config, g)
          => {e \in draft'.graph.edges : {e[1], e[2]} \subseteq g.nodes}
               = {e \in g.edges : {e[1], e[2]} \subseteq draft'.graph.nodes}]_draftVars
-----------------------------------------------------------------------------
(* The inductive invariant behind InSync.                                  *)

\* What a save loaded is what is still there, until another was committed; and what it
\* will write is one of the two compiled, or projected, from the other.
SavesHold ==
  \A h \in Handlers : save[h] # Nothing =>
    /\ save[h].clean => save[h].seen = draft
    /\ save[h].kind = "graph" /\ Valid(save[h].graph) =>
         save[h].config = Compile(save[h].graph)
    /\ save[h].kind = "config" =>
         save[h].graph = Project(save[h].config, save[h].seen.graph)

DraftInv == DraftTypeOK /\ SavesHold /\ InSync
=============================================================================
