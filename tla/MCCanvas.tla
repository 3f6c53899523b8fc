---------------------------- MODULE MCCanvas ----------------------------
(* Small instances of Canvas: a knowledge base and a database, two roles.  *)
EXTENDS Canvas, TLC

CONSTANTS doc, sales

\* Nothing but the agent; and everything on, the database only for its subagent.
Bare == [own |-> {}, router |-> FALSE, scope |-> [k \in Capabilities |-> {}],
         sources |-> {}, subs |-> {}]
Rich == [own |-> {"guardrail"}, router |-> TRUE,
         scope |-> [k \in Capabilities |->
                      IF k = KnowledgeBase THEN {"agent", "retrieval"} ELSE {"sql"}],
         sources |-> Sources, subs |-> {"retrieval", "sql"}]

MCStarts == {Bare, Rich}
MCMisdrawn == {<<"output", "agent">>}
Symmetry == Permutations(Handlers)
=============================================================================
