----------------------------- MODULE WriteClaims -----------------------------
(***************************************************************************)
(* What the comments and the tests of the repository say a write query     *)
(* does, where the statement list does something else.  Each claim is      *)
(* about the store a query leaves when its last statement has run.         *)
(***************************************************************************)
EXTENDS WriteRefinement

Ran == pc = "run" /\ query # NoQuery /\ ip = Len(out) + 1

\* What the rows of clause i were when the query was submitted.
BaseRows(i) == Rows(ContextOf(query.cl, i), base)

WrittenVars(cl) ==
  IF cl.c = "delete" THEN {cl.what[j] : j \in DOMAIN cl.what}
  ELSE IF cl.c = "set" THEN {cl.items[j].v : j \in DOMAIN cl.items} ELSE {}

(***************************************************************************)
(* A query whose rows all leave the written variables null has no side     *)
(* effects (tests/tck/features/clauses/delete/Delete1.feature:93 "Ignore   *)
(* null when deleting node", set/Set1.feature:157 "Ignore null when        *)
(* setting property").  compile_delete and compile_set_items name the      *)
(* variable in a pattern of its own, which then ranges over the store.     *)
(***************************************************************************)
NullHasNoEffect ==
  (/\ Ran
   /\ \A i \in Writes(query.cl) : /\ query.cl[i].c \in {"set", "delete"}
                                  /\ \A r \in BaseRows(i) : WrittenVars(query.cl[i]) \cap DOMAIN r = {})
    => store = base

(***************************************************************************)
(* After DETACH DELETE n no triple has a deleted node as its subject or as *)
(* its object (the comment of compile_delete, lqa/write.rs:1857, and the   *)
(* test movie_graph.rs:275).                                               *)
(***************************************************************************)
DetachedIsGone ==
  Ran => \A i \in Writes(query.cl) : query.cl[i].c = "delete" /\ query.cl[i].detach =>
           \A r \in BaseRows(i) : \A v \in WrittenVars(query.cl[i]) \cap DOMAIN r :
             r[v] \notin Ids([store EXCEPT !.eprop = {}])

(***************************************************************************)
(* ON MATCH SET applies to a relationship that already existed             *)
(* (compile_merge_rel_fully_bound, lqa/write.rs:2305): one this MERGE made *)
(* carries none of its assignments.                                        *)
(***************************************************************************)
OnMatchSparesCreated ==
  Ran => \A i \in Writes(query.cl) : query.cl[i].c = "mergeRel" =>
           \A t \in store.eprop \ base.eprop :
             <<t[4], t[5]>> \in LiteralProps(query.cl[i].onMatch) => <<t[1], t[2], t[3]>> \in base.edge
=============================================================================
