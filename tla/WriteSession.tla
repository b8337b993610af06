---------------------------- MODULE WriteSession ----------------------------
(***************************************************************************)
(* A caller that transpiles one write query after another and runs the     *)
(* statements it gets, in order, against its store.  compile_write walks   *)
(* the operator tree from the top; the position it is at, the clauses      *)
(* waiting for their inner clauses, the statements so far, bnode_map and   *)
(* the counter are the state of that walk.  Between two statements the     *)
(* endpoint may fail: the statements already run stay in the store, and    *)
(* the caller gives the query up or submits it again.                      *)
(***************************************************************************)
EXTENDS SparqlUpdate

CONSTANTS
  Query,       \* the queries submitted: their clauses, and whether they RETURN
  Graphs,      \* the contents the store may start with
  Retried,     \* the queries the caller submits again after a failure
  MaxQueries, MaxFailures

ASSUME QueryAssumption ==
  /\ Query \subseteq [cl : Seq(Clause), ret : BOOLEAN]
  /\ \A q \in Query : \A i \in DOMAIN q.cl : Lowered(q.cl, i)
  /\ Retried \subseteq Query
  /\ Graphs \subseteq Graph(Node)

ASSUME BoundAssumption == MaxQueries \in Nat /\ MaxFailures \in Nat

NoQuery == [cl |-> <<>>, ret |-> FALSE]

VARIABLES
  store,
  query, base,        \* the query being served, and the store it was submitted to
  pc,
  at, waiting,        \* the walk of compile_write_recursive: position and open clauses
  out, bmap, counter, \* update_strings, bnode_map, counter
  ip,                 \* the next statement to run
  failures, served,
  committed, last     \* the store after the last query that ran to its end, and that query

compile == <<at, waiting, out, bmap, counter>>
client == <<failures, served, committed, last>>
vars == <<store, query, base, pc, compile, ip, client>>

TypeOK ==
  /\ store \in Graph(Node) /\ base \in Graph(Node) /\ committed \in Graph(Node)
  /\ query \in Query \cup {NoQuery} /\ last \in Query \cup {NoQuery}
  /\ pc \in {"idle", "walk", "run", "failed"}
  /\ at \in 0 .. Len(query.cl)
  /\ waiting \in Seq(1 .. Len(query.cl))
  /\ out \in Seq(Statement)
  /\ bmap \in NodeMap
  /\ counter \in Nat
  /\ ip \in 1 .. Len(out) + 1
  /\ failures \in 0 .. MaxFailures /\ served \in 0 .. MaxQueries

Init ==
  /\ store \in Graphs /\ base = store /\ committed = store
  /\ query = NoQuery /\ last = NoQuery
  /\ pc = "idle"
  /\ at = 0 /\ waiting = <<>> /\ out = <<>> /\ bmap = NoNodes /\ counter = 0
  /\ ip = 1 /\ failures = 0 /\ served = 0

-----------------------------------------------------------------------------
(* compile_write *)

\* A query that deletes and returns compiles to no statement at all.
Deletes(q) == \E j \in DOMAIN q.cl : q.cl[j].c = "delete"

\* Mutant: the caller starts one statement early.
CompileEarly(q) ==
  /\ pc' = IF q.ret /\ Deletes(q) THEN "run" ELSE "walk"
  /\ at' = Len(q.cl)
  /\ waiting' = <<>> /\ out' = <<>> /\ bmap' = NoNodes /\ counter' = 0
  /\ ip' = 0

Compile(q) ==
  /\ pc' = IF q.ret /\ Deletes(q) THEN "run" ELSE "walk"
  /\ at' = Len(q.cl)
  /\ waiting' = <<>> /\ out' = <<>> /\ bmap' = NoNodes /\ counter' = 0
  /\ ip' = 1

Submit ==
  /\ pc = "idle" /\ served < MaxQueries
  /\ \E q \in Query : query' = q /\ Compile(q)
  /\ base' = store
  /\ UNCHANGED <<store, client>>

\* Mutant: the walk never goes inside.
BelowNothing(i) == 0

\* Where the walk goes from position i: into the inner operator if it writes.
Below(i) == IF HasWrite(query.cl, i - 1) THEN i - 1 ELSE 0

\* CREATE: its INSERT is emitted before anything inside it is visited.
VisitCreate ==
  LET cl == query.cl[at]
      ctx == ContextOf(query.cl, at)
      new == NewVars(cl, ctx, bmap)
  IN /\ pc = "walk" /\ at > 0
     /\ cl.c = "create" /\ ContextSupported(query.cl, at) /\ CreateSupported(cl, ctx)
     /\ \E num \in [new -> DOMAIN StableIri] :
          /\ Numbering(cl, new, num, counter)
          /\ bmap' = CreateMap(cl, ctx, bmap, num)
     /\ out' = out \o CompileCreate(cl, ctx, bmap')
     /\ counter' = counter + Cardinality(new)
     /\ at' = Below(at)
     /\ UNCHANGED <<store, query, base, pc, waiting, ip, client>>

\* SET, REMOVE, DELETE, MERGE: the clauses inside are compiled first.
VisitWrite ==
  /\ pc = "walk" /\ at > 0
  /\ query.cl[at].c \in {"set", "delete", "mergeNode", "mergeRel"}
  /\ waiting' = <<at>> \o waiting
  /\ at' = Below(at)
  /\ UNCHANGED <<store, query, base, pc, out, bmap, counter, ip, client>>

\* A WITH is walked through.  Under a MATCH that joins (CartesianProduct) or
\* an OPTIONAL MATCH (LeftOuterJoin) the walk generates nothing.
VisitRead ==
  /\ pc = "walk" /\ at > 0
  /\ ~ IsWrite(query.cl[at])
  /\ at' = IF query.cl[at].c = "with" THEN Below(at) ELSE 0
  /\ UNCHANGED <<store, query, base, pc, waiting, out, bmap, counter, ip, client>>

\* Mutant: a clause's statements go in front of those of its inner clauses.
EmitInFront ==
  /\ pc = "walk" /\ at = 0 /\ waiting # <<>>
  /\ OwnSupported(query.cl, Head(waiting), bmap)
  /\ out' = OwnStatements(query.cl, Head(waiting), bmap) \o out
  /\ waiting' = Tail(waiting)
  /\ UNCHANGED <<store, query, base, pc, at, bmap, counter, ip, client>>

\* Back at a clause whose inner clauses are compiled: its own statements.
Emit ==
  /\ pc = "walk" /\ at = 0 /\ waiting # <<>>
  /\ OwnSupported(query.cl, Head(waiting), bmap)
  /\ out' = out \o OwnStatements(query.cl, Head(waiting), bmap)
  /\ waiting' = Tail(waiting)
  /\ UNCHANGED <<store, query, base, pc, at, bmap, counter, ip, client>>

Compiled ==
  /\ pc = "walk" /\ at = 0 /\ waiting = <<>>
  /\ pc' = "run"
  /\ UNCHANGED <<store, query, base, compile, ip, client>>

\* The walk is at a clause that cannot be said in SPARQL UPDATE.
Refused ==
  /\ pc = "walk"
  /\ \/ /\ at > 0 /\ query.cl[at].c = "call"
     \/ /\ at > 0 /\ query.cl[at].c = "create"
        /\ \/ ~ ContextSupported(query.cl, at)
           \/ ~ CreateSupported(query.cl[at], ContextOf(query.cl, at))
     \/ /\ at = 0 /\ waiting # <<>>
        /\ ~ OwnSupported(query.cl, Head(waiting), bmap)

\* The query goes to the legacy translator; what was emitted is dropped.
Unsupported ==
  /\ Refused
  /\ pc' = "idle" /\ served' = served + 1
  /\ at' = 0 /\ waiting' = <<>> /\ out' = <<>> /\ ip' = 1
  /\ UNCHANGED <<store, query, base, bmap, counter, failures, committed, last>>

-----------------------------------------------------------------------------
(* The caller *)

Execute ==
  /\ pc = "run" /\ ip <= Len(out)
  /\ \E alloc \in Allocations(out[ip], store) : store' = Apply(out[ip], store, alloc)
  /\ ip' = ip + 1
  /\ UNCHANGED <<query, base, pc, compile, client>>

Finish ==
  /\ pc = "run" /\ ip > Len(out)
  /\ pc' = "idle" /\ served' = served + 1
  /\ committed' = store /\ last' = query
  /\ UNCHANGED <<store, query, base, compile, ip, failures>>

Fail ==
  /\ pc = "run" /\ ip <= Len(out) /\ failures < MaxFailures
  /\ pc' = "failed" /\ failures' = failures + 1
  /\ UNCHANGED <<store, query, base, compile, ip, served, committed, last>>

\* The query is transpiled again and its statements run from the first.
Retry ==
  /\ pc = "failed" /\ query \in Retried
  /\ Compile(query)
  /\ UNCHANGED <<store, query, base, client>>

GiveUp ==
  /\ pc = "failed" /\ query \notin Retried
  /\ pc' = "idle" /\ served' = served + 1
  /\ UNCHANGED <<store, query, base, compile, ip, failures, committed, last>>

Next ==
  \/ Submit \/ VisitCreate \/ VisitWrite \/ VisitRead \/ Emit \/ Compiled \/ Unsupported
  \/ Execute \/ Finish \/ Fail \/ Retry \/ GiveUp

Spec == Init /\ [][Next]_vars

\* The compiler is a recursion over a finite tree and the caller runs its list:
\* both go on as long as they can.
Serve ==
  \/ VisitCreate \/ VisitWrite \/ VisitRead \/ Emit \/ Compiled \/ Unsupported
  \/ Execute \/ Finish \/ Retry \/ GiveUp

-----------------------------------------------------------------------------
(* Properties *)

\* No statement of q removes a node: it deletes relationships at most.
KeepsNodes(q) ==
  \A i \in DOMAIN q.cl : q.cl[i].c = "delete" =>
    /\ ~ q.cl[i].detach
    /\ \A j \in DOMAIN q.cl[i].what :
         \E t \in RelVars(q.cl, ReadContext(q.cl, i - 1)) : t[1] = q.cl[i].what[j]

\* While no query deletes a node, every triple hangs from a node of the graph:
\* after every single statement, so also when the list is cut short by a
\* failure (the order of compile_write_recursive: a CREATE that gives a node
\* its identifier runs before the MERGE that links it).
GraphClosed == Closed(store)

\* A node MERGE that has just run finds its pattern: run again at once it would
\* create nothing, whatever ON CREATE added (compile_merge_node_scan builds the
\* INSERT and the FILTER NOT EXISTS from the same parts).
MergeSettles ==
  (pc \in {"run", "failed"} /\ ip > 1) =>
    LET s == out[ip - 1] IN
    (s.s = "insert" /\ s.fresh # {} /\ s.absent # EmptyGraph) => Fires(s, store) = {}

\* Queries whose lists mean what they say keep one value per property of a node
\* or relationship, after every single statement and wherever a list is cut
\* short (compile_set_items deletes the old value in the statement that inserts
\* the new one; MERGE and CREATE give values to new nodes only).
SingleValued ==
  /\ \A t, u \in store.prop : t[1] = u[1] /\ t[2] = u[2] => t = u
  /\ \A t, u \in store.eprop : <<t[1], t[2], t[3], t[4]>> = <<u[1], u[2], u[3], u[4]>> => t = u

\* Every query is answered: compiled and run to its end, refused, or given up
\* after a failure.
QueryEnds == pc # "idle" ~> pc = "idle"
=============================================================================
