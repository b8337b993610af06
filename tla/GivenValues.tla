----------------------------- MODULE GivenValues -----------------------------
(***************************************************************************)
(* The values a list of statements gives without taking others away: those *)
(* of a CREATE on a node with a stable IRI, and those of a CREATE or MERGE *)
(* on a relationship.  The compiler numbers its IRIs from the last CREATE  *)
(* to the first and starts again at 0 for every query, so the identifier   *)
(* of a named node is a function of its query, and two queries use the     *)
(* same ones; a relationship is the same triple whoever creates it.        *)
(***************************************************************************)
EXTENDS WriteSession

Creates(q) == {i \in DOMAIN q : q[i].c = "create"}

\* The nodes the CREATE at i is the first to name: compile_write is at it
\* before it is at the clauses inside.
NewAt(q, i) ==
  {v \in q[i].g.node : /\ v \notin WhereVars(ContextOf(q, i))
                       /\ \A j \in Creates(q) : j > i => v \notin q[j].g.node}

\* The nodes named before the walk comes to i.
NewAfter(q, i) == UNION {NewAt(q, j) : j \in {m \in Creates(q) : m > i}}

\* The IRI of a node is the counter's next in the order of its clause.
Slot(q, i, v) ==
  LET First(w) == CHOOSE j \in 1 .. Len(q[i].order) :
                    q[i].order[j] = w /\ \A m \in 1 .. j - 1 : q[i].order[m] # w
  IN  Cardinality(NewAfter(q, i)) + Cardinality({w \in NewAt(q, i) : First(w) <= First(v)})

\* The named nodes of the CREATEs from i on that read nothing, and their IRIs.
Given(q, i) ==
  {<<v, StableIri[Slot(q, i, v)]>> : v \in {w \in NewAt(q, i) \ AnonVar : Slot(q, i, w) \in DOMAIN StableIri}}
Names(q, i) == UNION {Given(q, j) : j \in {m \in Creates(q) : m >= i /\ ContextOf(q, m) = NoWhere}}

\* The values the CREATE at i gives named nodes, <<IRI, key, value>>, and those
\* a clause gives relationships, <<type, key, value>>.
NodesGiven(q, i) ==
  {<<u[1][2], u[2][2], u[2][3]>> : u \in {p \in Names(q, i) \X q[i].g.prop : p[1][1] = p[2][1]}}
RelsGiven(cl) ==
  CASE cl.c = "create" -> {<<t[2], t[4], t[5]>> : t \in cl.g.eprop}
    [] cl.c = "mergeNode" -> {<<t[2], t[4], t[5]>> : t \in cl.p.eprop}
    [] cl.c = "mergeRel" -> {<<cl.rel, t[1], t[2]>> : t \in cl.props \cup LiteralProps(cl.onCreate)}
    [] OTHER -> {}

NodeValues == UNION {UNION {NodesGiven(q.cl, i) : i \in Creates(q.cl)} : q \in Query}
RelValues == UNION {UNION {RelsGiven(q.cl[i]) : i \in DOMAIN q.cl} : q \in Query}

-----------------------------------------------------------------------------
(* Where these values cannot meet others. *)

\* One value for each subject and key.
OnePer(S) == \A t, u \in S : t[1] = u[1] /\ t[2] = u[2] => t[3] = u[3]

\* A property triple says what the queries give its subject, if they do.
Agrees(f) ==
  IF Len(f[1]) = 1 THEN \A g \in NodeValues : g[1] = f[1][1] /\ g[2] = f[2] => g[3] = f[3]
  ELSE \A g \in RelValues : g[1] = f[1][2] /\ g[2] = f[2] => g[3] = f[3]

\* What a SET may assign: no other value of the key is given anywhere.
Free(k, x) == \A g \in NodeValues \cup RelValues : g[2] = k => g[3] = x
Untouched(k) == \A g \in NodeValues \cup RelValues : g[2] # k

\* A computed value is read from what is assigned: SET n.k = n.j.
ItemAgrees(item) ==
  /\ item.i \in {"prop", "mergeMap"} =>
       /\ item.x.e = "lit" => Free(item.k, item.x.x)
       /\ item.x.e = "prop" => item.x.v = item.v /\ Untouched(item.k)
  /\ item.i = "replace" => OnePer({<<item.v, t[1], t[2]>> : t \in item.map}) /\ \A t \in item.map : Free(t[1], t[2])

ItemsAgree(items) == \A j \in DOMAIN items : ItemAgrees(items[j])

\* A clause gives a new node one value of each key.
ClauseAgrees(cl) ==
  /\ cl.c = "create" => OnePer(cl.g.prop)
  /\ cl.c = "set" => ItemsAgree(cl.items)
  /\ cl.c = "mergeNode" => OnePer(CreatedBy(cl).prop) /\ ItemsAgree(cl.onMatch)
  /\ cl.c = "mergeRel" => ItemsAgree(cl.onMatch)

ValuesAgree ==
  /\ OnePer(NodeValues) /\ OnePer(RelValues)
  /\ \A q \in Query : \A i \in DOMAIN q.cl : ClauseAgrees(q.cl[i])
  /\ \A g \in Graphs : OnePer(Facts(g)) /\ \A f \in Facts(g) : Agrees(f)
=============================================================================
