------------------------------ MODULE RdfStore ------------------------------
(***************************************************************************)
(* The RDF store a property graph is kept in, seen through the predicates  *)
(* the transpiler writes (external: any SPARQL 1.1 endpoint, Oxigraph in   *)
(* the repository's tests).  Triples are grouped by the kind of predicate: *)
(*   node   ?n <base:__node> <base:__node>      the existence sentinel     *)
(*   label  ?n rdf:type <base:Label>                                       *)
(*   prop   ?n <base:key> literal                                          *)
(*   edge   ?n <base:REL> ?m                                               *)
(*   eprop  << ?n <base:REL> ?m >> <base:key> literal      (RDF-star)      *)
(* The same shape over variables is a graph pattern, and over the          *)
(* variables of an INSERT it is a template: a row of a pattern is a        *)
(* homomorphism of the pattern into the store, and a template is inserted  *)
(* by taking its image.                                                    *)
(***************************************************************************)
CONSTANTS
  Node,    \* node identifiers: IRIs and blank nodes
  Var,     \* the variables of a query
  Label, Key, Rel, Val

Graph(Id) ==
  [node : SUBSET Id, label : SUBSET (Id \X Label), prop : SUBSET (Id \X Key \X Val),
   edge : SUBSET (Id \X Rel \X Id), eprop : SUBSET (Id \X Rel \X Id \X Key \X Val)]

EmptyGraph == [node |-> {}, label |-> {}, prop |-> {}, edge |-> {}, eprop |-> {}]

Both(g, h) ==
  [node |-> g.node \cup h.node, label |-> g.label \cup h.label, prop |-> g.prop \cup h.prop,
   edge |-> g.edge \cup h.edge, eprop |-> g.eprop \cup h.eprop]

UnionOf(S) ==
  [node |-> UNION {g.node : g \in S}, label |-> UNION {g.label : g \in S},
   prop |-> UNION {g.prop : g \in S}, edge |-> UNION {g.edge : g \in S},
   eprop |-> UNION {g.eprop : g \in S}]

\* DELETE { del } INSERT { ins }: SPARQL removes before it adds.
Patch(st, del, ins) ==
  [node |-> (st.node \ del.node) \cup ins.node,
   label |-> (st.label \ del.label) \cup ins.label,
   prop |-> (st.prop \ del.prop) \cup ins.prop,
   edge |-> (st.edge \ del.edge) \cup ins.edge,
   eprop |-> (st.eprop \ del.eprop) \cup ins.eprop]

\* The identifiers a graph, a pattern or a template speaks of.
Ids(g) ==
  g.node \cup {t[1] : t \in g.label} \cup {t[1] : t \in g.prop}
    \cup {t[1] : t \in g.edge} \cup {t[3] : t \in g.edge}
    \cup {t[1] : t \in g.eprop} \cup {t[3] : t \in g.eprop}

\* The image of template g under the partial map f: SPARQL skips a template
\* triple that has an unbound variable.
Image(g, f) ==
  LET B == DOMAIN f IN
  [node |-> {f[v] : v \in g.node \cap B},
   label |-> {<<f[t[1]], t[2]>> : t \in {u \in g.label : u[1] \in B}},
   prop |-> {<<f[t[1]], t[2], t[3]>> : t \in {u \in g.prop : u[1] \in B}},
   edge |-> {<<f[t[1]], t[2], f[t[3]]>> : t \in {u \in g.edge : u[1] \in B /\ u[3] \in B}},
   eprop |-> {<<f[t[1]], t[2], f[t[3]], t[4], t[5]>> :
                t \in {u \in g.eprop : u[1] \in B /\ u[3] \in B}}]

Embeds(p, r, st) ==
  /\ \A v \in p.node : r[v] \in st.node
  /\ \A t \in p.label : <<r[t[1]], t[2]>> \in st.label
  /\ \A t \in p.prop : <<r[t[1]], t[2], t[3]>> \in st.prop
  /\ \A t \in p.edge : <<r[t[1]], t[2], r[t[3]]>> \in st.edge
  /\ \A t \in p.eprop : <<r[t[1]], t[2], r[t[3]], t[4], t[5]>> \in st.eprop

(***************************************************************************)
(* A WHERE clause: a pattern that must match, one OPTIONAL group, the      *)
(* renames BIND(?src AS ?alias) and the bindings BIND(<iri> AS ?v).        *)
(***************************************************************************)
Where == [must : Graph(Var), opt : Graph(Var), same : SUBSET (Var \X Var), iri : SUBSET (Var \X Node)]

NoWhere == [must |-> EmptyGraph, opt |-> EmptyGraph, same |-> {}, iri |-> {}]

MustVars(c) ==
  Ids(c.must) \cup {t[1] : t \in c.iri} \cup {t[1] : t \in c.same} \cup {t[2] : t \in c.same}

WhereVars(c) == MustVars(c) \cup Ids(c.opt)

Matches(p, V, c, st) ==
  {r \in [V -> Node] : /\ Embeds(p, r, st)
                       /\ \A t \in c.same : r[t[1]] = r[t[2]]
                       /\ \A t \in c.iri : r[t[1]] = t[2]}

\* The solutions of a WHERE clause.  A row is a function on the variables it
\* binds; where the OPTIONAL group does not match, its variables stay unbound.
Rows(c, st) ==
  LET must == Matches(c.must, MustVars(c), c, st)
      full == Matches(Both(c.must, c.opt), WhereVars(c), c, st)
      Extends(e, r) == \A v \in MustVars(c) : e[v] = r[v]
  IN IF c.opt = EmptyGraph THEN must
     ELSE full \cup {r \in must : \A e \in full : ~ Extends(e, r)}

\* FILTER NOT EXISTS { p } for row r.
Blocked(p, r, st) ==
  /\ p # EmptyGraph
  /\ \E e \in [Ids(p) -> Node] :
       /\ \A v \in Ids(p) \cap DOMAIN r : e[v] = r[v]
       /\ Embeds(p, e, st)

\* No triple hangs from an identifier that is not a node of the graph.
Closed(st) == Ids(st) \subseteq st.node
=============================================================================
