--------------------------- MODULE WriteRefinement --------------------------
(***************************************************************************)
(* Where the list of statements means what the query means.  A statement   *)
(* re-evaluates the WHERE of its clause on a store other statements have   *)
(* changed, so the list is exact for the queries no statement of which     *)
(* changes what a later one reads.  For those, every query that runs to    *)
(* its end, however often it failed half-way and was submitted again, is   *)
(* one atomic step with an outcome of CypherWrite.                         *)
(***************************************************************************)
EXTENDS WriteSession, CypherWrite

\* What a clause of the query may change, and what its WHERE reads: labels,
\* keys, relationship types, and "node" for the set of nodes.
TouchedByItems(items) ==
  {items[j].l : j \in {m \in DOMAIN items : items[m].i \in {"label", "unlabel"}}}
    \cup {items[j].k : j \in {m \in DOMAIN items : items[m].i \in {"prop", "mergeMap", "unprop"}}}
    \cup UNION {Key \cup Rel : j \in {m \in DOMAIN items : items[m].i = "replace"}}

Speaks(g) ==
  {t[2] : t \in g.label} \cup {t[2] : t \in g.prop} \cup {t[2] : t \in g.edge} \cup {t[4] : t \in g.eprop}

\* A variable that only the sentinel constrains reads the set of nodes.
Bare(ctx) ==
  {v \in ctx.must.node : /\ \A t \in ctx.must.label \cup ctx.must.prop \cup ctx.iri : t[1] # v
                         /\ \A t \in ctx.must.edge : v \notin {t[1], t[3]}}

ReadBy(ctx) ==
  Speaks(ctx.must) \cup Speaks(ctx.opt) \cup (IF Bare(ctx) # {} THEN {"node"} ELSE {})

Touched(q, i) ==
  LET cl == q[i] IN
  CASE cl.c = "create" -> Speaks(cl.g) \cup {"node"}
    [] cl.c = "set" -> TouchedByItems(cl.items)
    [] cl.c = "delete" -> {t[3] : t \in RelVars(q, 1 .. i)}
    [] cl.c = "mergeNode" -> Speaks(cl.p) \cup {"node"} \cup TouchedByItems(cl.onCreate)
    [] cl.c = "mergeRel" -> {cl.rel}
    [] OTHER -> {}

MatchVars(q) == UNION {Ids(q[i].p) : i \in {m \in DOMAIN q : q[m].c = "match"}}
Aliases(q) == UNION {{t[2] : t \in Renames(q[i])} : i \in DOMAIN q}
CreatedVars(q) == UNION {q[i].g.node : i \in {m \in DOMAIN q : q[m].c = "create"}}

\* The nodes of CREATEs that read nothing have stable IRIs (any will do here).
Stable(q) ==
  [NoNodes EXCEPT !.iri = IF MatchVars(q) = {} THEN {<<v, StableIri[1]>> : v \in CreatedVars(q) \ AnonVar} ELSE {}]

Context(q, i) ==
  CASE q[i].c = "mergeNode" -> NoWhere
    [] q[i].c = "mergeRel" -> Facing(MergeWhere(q, i, Stable(q)), q[i].scan)
    [] OTHER -> ContextOf(q, i)

Writes(q) == {i \in DOMAIN q : IsWrite(q[i])}

\* The order of the statement list: CREATEs from the last to the first, then
\* the other clauses from the first to the last.
Before(q, i, j) ==
  IF q[i].c = "create" THEN q[j].c # "create" \/ i > j ELSE q[j].c # "create" /\ i < j

\* Clauses of more than one statement, whose later ones read after the earlier.
Many(cl) == \/ cl.c = "set" /\ Len(cl.items) > 1
            \/ cl.c = "delete" /\ Len(cl.what) > 1

\* No statement changes what a later one reads.
Independent(q) ==
  \A i, j \in Writes(q) :
    (IF i = j THEN Many(q[i]) ELSE Before(q, i, j)) => Touched(q, i) \cap ReadBy(Context(q, j)) = {}

\* The shapes of clause that say in SPARQL what they say in Cypher.
ItemExact(item, q) ==
  /\ item.v \in MatchVars(q) \cup Aliases(q)
  /\ item.i # "replace"
  /\ item.i \in {"prop", "mergeMap"} => item.x.e # "prop"

ClauseExact(q, i) ==
  LET cl == q[i] IN
  CASE cl.c = "match" -> \A j \in Writes(q) : i < j
    [] cl.c = "optional" -> FALSE
    [] cl.c = "set" -> \A j \in DOMAIN cl.items : ItemExact(cl.items[j], q)
    [] cl.c = "delete" ->
         ~ cl.detach /\ \A j \in DOMAIN cl.what : \E t \in RelVars(q, 1 .. i) : t[1] = cl.what[j]
    \* a second CREATE under a MATCH would make its blank nodes again
    [] cl.c = "create" -> \A j \in Writes(q) :
         (q[j].c = "create" /\ MatchVars(q) # {}) => cl.g.node \cap q[j].g.node \subseteq MatchVars(q) \/ i = j
    [] cl.c = "mergeNode" -> Len(q) = 1 /\ cl.onMatch = <<>> /\ {t[2] : t \in cl.p.prop} \cap TouchedByItems(cl.onCreate) = {}
    [] cl.c = "mergeRel" -> cl.onMatch = <<>>
    [] OTHER -> TRUE

Exact(q) == Independent(q.cl) /\ (\A i \in DOMAIN q.cl : ClauseExact(q.cl, i)) /\ ~ (q.ret /\ Deletes(q))

\* Safe to run again from the first statement: no INSERT of blank nodes, and
\* no clause but the last to run changes what a clause reads.
Repeatable(q) ==
  /\ Exact(q)
  /\ \A i \in Writes(q.cl) : q.cl[i].c = "create" =>
       q.cl[i].g.node \subseteq MatchVars(q.cl) \cup {t[1] : t \in Stable(q.cl).iri}
  /\ \A i, j \in Writes(q.cl) :
       (Many(q.cl[i]) \/ \E m \in Writes(q.cl) : m # i /\ Before(q.cl, i, m))
         => Touched(q.cl, i) \cap ReadBy(Context(q.cl, j)) = {}

-----------------------------------------------------------------------------
(* Queries of one write clause, after the clauses that read. *)

\* Items an INSERT can do in one go: literals and labels, one per name.
Literally(items, v) ==
  /\ \A i \in DOMAIN items :
       /\ items[i].v = v
       /\ items[i].i = "label" \/ (items[i].i = "prop" /\ items[i].x.e = "lit")
  /\ \A i, j \in DOMAIN items :
       items[i].i = "prop" /\ items[j].i = "prop" /\ items[i].k = items[j].k => i = j

\* The types a clause gives relationships, and those of the relationships deleted.
Linked(cl) ==
  CASE cl.c = "create" -> {t[2] : t \in cl.g.edge} [] cl.c = "mergeRel" -> {cl.rel} [] OTHER -> {}
Unlinked(Q) == UNION {{t[3] : t \in RelVars(q.cl, DOMAIN q.cl)} : q \in {p \in Q : Deletes(p)}}

OneClause(q) ==
  LET n == Len(q.cl) cl == q.cl[n] ctx == ContextOf(q.cl, n) IN
  /\ Writes(q.cl) = {n} /\ Exact(q)
  /\ cl.c = "delete" => \A t, u \in RelVars(q.cl, 1 .. n) : t[1] = u[1] => t = u
  /\ cl.c = "mergeNode" => Literally(cl.onCreate, cl.v)
  /\ cl.c = "mergeRel" => cl.scan = EmptyGraph /\ {cl.from, cl.to} \subseteq WhereVars(ctx)

OneWrite(q) ==
  LET n == Len(q.cl) cl == q.cl[n] IN
  /\ OneClause(q)
  /\ cl.c = "set" /\ Many(cl) => q \in Retried \/ MaxFailures = 0
  \* the stable IRIs are those of the query before
  /\ cl.c = "create" => ContextOf(q.cl, n) # NoWhere \/ cl.g.node \subseteq AnonVar

\* Property triples of a deleted relationship stay: none of its type is made again.
OneWriteEach(Q) ==
  \A q \in Q : OneWrite(q) /\ Linked(q.cl[Len(q.cl)]) \cap Unlinked(Q) = {}

-----------------------------------------------------------------------------
\* Property triples of a relationship that is gone are not part of the graph.
Visible(st) == [st EXCEPT !.eprop = {t \in @ : <<t[1], t[2], t[3]>> \in st.edge}]

Abstract == INSTANCE AtomicWrite WITH graph <- Visible(committed), last <- last

\* Every query that runs to its end is one atomic Cypher step: statements that
\* run one by one, each on the store the others left, with failures and second
\* submissions in between, add up to what the query means (compile_write).
ImplementsCypher == Abstract!Spec
=============================================================================
