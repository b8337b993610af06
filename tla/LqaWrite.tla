------------------------------ MODULE LqaWrite ------------------------------
(***************************************************************************)
(* The write compiler (lqa/write.rs): what each write clause of a query    *)
(* becomes as SPARQL UPDATE statements, and what one such statement does   *)
(* to the store.  A query is the list of its clauses in textual order: the *)
(* operator tree the lowering (lqa/lower.rs) builds has clause i on top of *)
(* clauses 1 .. i-1, so "the inner operator of clause i" is position i-1   *)
(* and Op::Unit is position 0.                                             *)
(***************************************************************************)
EXTENDS RdfStore, Naturals, Sequences, FiniteSets

CONSTANTS
  AnonVar,    \* the variables the lowering invents for unnamed nodes (_lqa_...)
  StableIri   \* StableIri[i] is <base__bnode/i-1>, in the order of the counter

ASSUME VarAssumption == AnonVar \subseteq Var /\ IsFiniteSet(Var)
ASSUME IriAssumption == StableIri \in Seq(Node)

-----------------------------------------------------------------------------
(* Clauses.  An expression is a literal, null, or another property. *)

Lit(x) == [e |-> "lit", x |-> x]
Null == [e |-> "null"]
Expr == [e : {"lit"}, x : Val] \cup [e : {"null"}] \cup [e : {"prop"}, v : Var, k : Key]

SetItem ==
  [i : {"prop", "mergeMap"}, v : Var, k : Key, x : Expr]
    \cup [i : {"unprop"}, v : Var, k : Key]
    \cup [i : {"label", "unlabel"}, v : Var, l : Label]
    \cup [i : {"replace"}, v : Var, map : SUBSET (Key \X Val)]

\* What ON MATCH of a relationship MERGE is modelled with: the items both of
\* its translations carry out.
LitItem == [i : {"prop"}, v : Var, k : Key, x : [e : {"lit"}, x : Val]]

Clause ==
  \* rels: the relationship variables of the pattern, as <<r, from, REL, to>>
  [c : {"match", "optional"}, p : Graph(Var), rels : SUBSET (Var \X Var \X Rel \X Var)]
    \cup [c : {"with"}, rename : SUBSET (Var \X Var), limit : BOOLEAN]
    \* g: the template; order: its nodes as listed; a non-literal value is not in g
    \cup [c : {"create"}, g : Graph(Var), order : Seq(Var)]
    \cup [c : {"set"}, items : Seq(SetItem)]
    \cup [c : {"delete"}, detach : BOOLEAN, what : Seq(Var)]
    \cup [c : {"mergeNode"}, v : Var, p : Graph(Var), onMatch : Seq(SetItem), onCreate : Seq(SetItem)]
    \* scan: the pattern of an endpoint the MERGE introduces itself
    \cup [c : {"mergeRel"}, from : Var, rel : Rel, to : Var, props : SUBSET (Key \X Val),
          scan : Graph(Var), onMatch : Seq(LitItem), onCreate : Seq(SetItem)]
    \cup [c : {"call"}]

IsWrite(cl) == cl.c \notin {"match", "optional", "with"}

\* contains_write of the operator at position i.
HasWrite(q, i) == \E j \in 1 .. i : IsWrite(q[j])

\* read_context: the clauses of the operator below the writes on top of i.
ReadContext(q, i) == {j \in 1 .. i : \E m \in j .. i : ~ IsWrite(q[m])}

-----------------------------------------------------------------------------
(* WHERE clauses: op_to_where_parts. *)

\* A created node a later WHERE looks for again: by label, else by sentinel,
\* and not at all if it was anonymous.
Scanned(g, V) ==
  LET labels == {t \in g.label : t[1] \in V \ AnonVar}
  IN [EmptyGraph EXCEPT !.label = labels,
                        !.node = (g.node \cap (V \ AnonVar)) \ {t[1] : t \in labels}]

MustPart(cl) ==
  IF cl.c = "match" THEN cl.p
  ELSE IF cl.c = "create" THEN Scanned(cl.g, Var) ELSE EmptyGraph

OptPart(cl) == IF cl.c = "optional" THEN cl.p ELSE EmptyGraph

Renames(cl) == IF cl.c = "with" THEN {t \in cl.rename : t[1] # t[2]} ELSE {}

WhereParts(q, S) ==
  [must |-> UnionOf({MustPart(q[j]) : j \in S}),
   opt |-> UnionOf({OptPart(q[j]) : j \in S}),
   same |-> UNION {Renames(q[j]) : j \in S},
   iri |-> {}]

\* LIMIT and SKIP cannot be said in an UPDATE, and CALL has no WHERE form.
WhereSupported(q, S) ==
  \A j \in S : q[j].c # "call" /\ (q[j].c = "with" => ~ q[j].limit)

\* The WHERE of a CREATE, SET, REMOVE or DELETE at position i.
ContextOf(q, i) == WhereParts(q, ReadContext(q, i - 1))
ContextSupported(q, i) == WhereSupported(q, ReadContext(q, i - 1))

(***************************************************************************)
(* bnode_map: iri has the variables given a stable IRI, blank those given  *)
(* a blank node, row those found to be variables of the WHERE.             *)
(***************************************************************************)
NodeMap == [iri : SUBSET (Var \X Node), blank : SUBSET Var, row : SUBSET Var]
NoNodes == [iri |-> {}, blank |-> {}, row |-> {}]

\* op_to_where_parts_with_bnodes: the CREATEs directly below a MERGE bind
\* their nodes by stable IRI where bnode_map has one.
MergeWhere(q, i, bmap) ==
  LET above == {j \in 1 .. i - 1 : \A m \in j .. i - 1 : q[m].c = "create"}
      below == WhereParts(q, (1 .. i - 1) \ above)
      bound == {t \in bmap.iri : t[1] \notin AnonVar /\ \E j \in above : t[1] \in q[j].g.node}
      scan  == Var \ ({t[1] : t \in bound} \cup bmap.row)
  IN [below EXCEPT !.must = UnionOf({@} \cup {Scanned(q[j].g, scan) : j \in above}),
                   !.iri = bound]

-----------------------------------------------------------------------------
(* Statements. *)

Statement ==
  \* INSERT { tmpl } WHERE { ctx FILTER NOT EXISTS { absent } }: the variables
  \* in fresh are blank nodes, those in iri stand for an IRI
  [s : {"insert"}, ctx : Where, absent : Graph(Var), tmpl : Graph(Var),
   fresh : SUBSET Var, iri : SUBSET (Var \X Node)]
    \* DELETE { v k old } INSERT { v k x } WHERE { ctx OPTIONAL { v k old } }
    \cup [s : {"upsert"}, ctx : Where, v : Var, k : Key, x : Expr]
    \* the same on << from rel to >>
    \cup [s : {"upsertEdge"}, ctx : Where, from : Var, rel : Rel, to : Var, k : Key, x : [e : {"lit"}, x : Val]]
    \* DELETE { << ?s ?p ?o >> k old } for every relationship (legacy REMOVE)
    \cup [s : {"dropKey"}, ctx : Where, k : Key]
    \cup [s : {"addLabel", "dropLabel"}, ctx : Where, v : Var, l : Label]
    \* DELETE { v p o } INSERT { v map } for every p but rdf:type and the sentinel
    \cup [s : {"replace"}, ctx : Where, v : Var, map : SUBSET (Key \X Val)]
    \* DELETE { v p o }, or { s p v } with s # v
    \cup [s : {"wipeOut", "wipeIn"}, ctx : Where, v : Var]
    \cup [s : {"cut"}, ctx : Where, from : Var, rel : Rel, to : Var]

Each(seq, F(_)) == [j \in 1 .. Len(seq) |-> F(seq[j])]

\* An empty WHERE is replaced by the scan of every node.
OrScan(ctx, v) == IF ctx = NoWhere THEN [NoWhere EXCEPT !.must.node = {v}] ELSE ctx

(* compile_set_items and compile_remove_items *)

SetSupported(item, ctx) ==
  /\ item.i = "mergeMap" =>
       /\ item.x.e # "prop"
       /\ \A t \in ctx.must.prop \cup ctx.opt.prop : t[2] # item.k
  /\ item.i = "replace" => ctx.must.prop \cup ctx.opt.prop = {}

SetStatement(item, ctx) ==
  LET on == OrScan(ctx, item.v) IN
  CASE item.i \in {"prop", "mergeMap"} -> [s |-> "upsert", ctx |-> on, v |-> item.v, k |-> item.k, x |-> item.x]
    [] item.i = "unprop" -> [s |-> "upsert", ctx |-> on, v |-> item.v, k |-> item.k, x |-> Null]
    [] item.i = "label" -> [s |-> "addLabel", ctx |-> on, v |-> item.v, l |-> item.l]
    [] item.i = "unlabel" -> [s |-> "dropLabel", ctx |-> on, v |-> item.v, l |-> item.l]
    [] item.i = "replace" -> [s |-> "replace", ctx |-> on, v |-> item.v, map |-> item.map]

CompileSetItems(items, ctx) == Each(items, LAMBDA it : SetStatement(it, ctx))

(* compile_delete and compile_delete_rel *)

RelVars(q, S) == UNION {q[j].rels : j \in {m \in S : q[m].c \in {"match", "optional"}}}

DeleteStatement(v, ctx, rels) ==
  IF \E t \in rels : t[1] = v
  THEN LET t == CHOOSE u \in rels : u[1] = v
       IN [s |-> "cut", ctx |-> ctx, from |-> t[2], rel |-> t[3], to |-> t[4]]
  ELSE [s |-> "wipeOut", ctx |-> OrScan(ctx, v), v |-> v]

\* DETACH DELETE removes the triples of each node as subject, then as object.
CompileDelete(cl, ctx, rels) ==
  IF cl.detach
  THEN [j \in 1 .. 2 * Len(cl.what) |->
          LET v == cl.what[(j + 1) \div 2]
          IN [s |-> IF j % 2 = 1 THEN "wipeOut" ELSE "wipeIn", ctx |-> OrScan(ctx, v), v |-> v]]
  ELSE Each(cl.what, LAMBDA v : DeleteStatement(v, ctx, rels))

(* compile_create *)

\* The nodes of the clause no statement has named yet and the WHERE does not bind.
NewVars(cl, ctx, bmap) ==
  cl.g.node \ (WhereVars(ctx) \cup bmap.blank \cup bmap.row \cup {t[1] : t \in bmap.iri})

CreateSupported(cl, ctx) == ctx.same # {} => cl.g.node \subseteq WhereVars(ctx)

\* The counter each new node takes: its place among the new nodes as listed.
Numbering(cl, new, num, counter) ==
  LET First(v) == CHOOSE j \in 1 .. Len(cl.order) :
                    cl.order[j] = v /\ \A m \in 1 .. j - 1 : cl.order[m] # v
  IN \A v \in new : num[v] = counter + Cardinality({w \in new : First(w) <= First(v)})

CreateMap(cl, ctx, bmap, num) ==
  LET new == NewVars(cl, ctx, bmap)
      named == IF ctx = NoWhere THEN new \ AnonVar ELSE {}
      known == bmap.blank \cup {t[1] : t \in bmap.iri}
  IN [iri |-> bmap.iri \cup {<<v, StableIri[num[v]]>> : v \in named},
      blank |-> bmap.blank \cup (new \ named),
      row |-> bmap.row \cup ((cl.g.node \cap WhereVars(ctx)) \ known)]

\* A variable the WHERE binds keeps no sentinel, label or property of the clause.
CreateTemplate(g, row) ==
  [g EXCEPT !.node = @ \ row,
            !.label = {t \in @ : t[1] \notin row},
            !.prop = {t \in @ : t[1] \notin row}]

CompileCreate(cl, ctx, after) ==
  LET tmpl == CreateTemplate(cl.g, after.row)
  IN IF tmpl = EmptyGraph THEN <<>>
     ELSE <<[s |-> "insert", ctx |-> ctx, absent |-> EmptyGraph, tmpl |-> tmpl,
             fresh |-> after.blank \cap Ids(tmpl),
             iri |-> {t \in after.iri : t[1] \in Ids(tmpl)}]>>

(* compile_merge *)

Pattern(p) == [NoWhere EXCEPT !.must = p]
Facing(ctx, p) == [ctx EXCEPT !.must = Both(@, p)]

\* The literal property assignments of a list of SET items, the only ones an
\* INSERT of a MERGE takes, whatever variable they name.
LiteralProps(items) ==
  {<<items[j].k, items[j].x.x>> : j \in {m \in DOMAIN items : items[m].i = "prop" /\ items[m].x.e = "lit"}}

AllSetSupported(items, ctx) == \A j \in DOMAIN items : SetSupported(items[j], ctx)

\* Mutant: the properties of the pattern are left out of what is created.
CreatedWithoutProps(cl) ==
  [cl.p EXCEPT
     !.node = @ \cup {cl.v},
     !.prop = {<<cl.v, t[1], t[2]>> : t \in LiteralProps(cl.onCreate)},
     !.label = @ \cup {<<cl.v, cl.onCreate[j].l>> : j \in {m \in DOMAIN cl.onCreate : cl.onCreate[m].i = "label"}}]

\* compile_merge_node_scan: the INSERT creates the node unless the pattern is
\* there, ON CREATE rides in it, ON MATCH follows as statements of its own.
CreatedBy(cl) ==
  [cl.p EXCEPT
     !.node = @ \cup {cl.v},
     !.prop = @ \cup {<<cl.v, t[1], t[2]>> : t \in LiteralProps(cl.onCreate)},
     !.label = @ \cup {<<cl.v, cl.onCreate[j].l>> : j \in {m \in DOMAIN cl.onCreate : cl.onCreate[m].i = "label"}}]

CompileMergeNode(cl) ==
  <<[s |-> "insert", ctx |-> NoWhere, absent |-> cl.p, tmpl |-> CreatedBy(cl), fresh |-> {cl.v}, iri |-> {}]>>
    \o CompileSetItems(cl.onMatch, Pattern(cl.p))

EdgeGraph(cl, props) ==
  [EmptyGraph EXCEPT !.edge = {<<cl.from, cl.rel, cl.to>>},
                     !.eprop = {<<cl.from, cl.rel, cl.to, t[1], t[2]>> : t \in props}]

MergeEdgeInsert(cl, ctx) ==
  [s |-> "insert", ctx |-> ctx, absent |-> EdgeGraph(cl, cl.props),
   tmpl |-> EdgeGraph(cl, cl.props \cup LiteralProps(cl.onCreate)), fresh |-> {}, iri |-> {}]

\* compile_merge_rel_with_props, both ends bound by the WHERE.
Constrained(cl, ctx) == {cl.from, cl.to} \subseteq WhereVars(ctx)

CompileMergeRel(cl, ctx) ==
  <<MergeEdgeInsert(cl, ctx)>> \o CompileSetItems(cl.onMatch, Facing(ctx, EdgeGraph(cl, {})))

\* compile_merge_rel_fully_bound, both ends created under a stable IRI.
EndIris(cl, bmap) == {t \in bmap.iri : t[1] \in {cl.from, cl.to}}
FullyBound(cl, bmap) == {cl.from, cl.to} \subseteq {t[1] : t \in bmap.iri}

CompileMergeBound(cl, bmap) ==
  LET ctx == [NoWhere EXCEPT !.iri = EndIris(cl, bmap)]
      Upsert(it) == [s |-> "upsertEdge", ctx |-> Facing(ctx, EdgeGraph(cl, {})),
                     from |-> cl.from, rel |-> cl.rel, to |-> cl.to, k |-> it.k, x |-> it.x]
  IN <<MergeEdgeInsert(cl, ctx)>> \o Each(cl.onMatch, Upsert)

-----------------------------------------------------------------------------
(* What the lowering guarantees of the clause at position i: a CREATE lists
   the nodes its labels, properties and edges use, and gives properties to the
   relationships it makes, a node MERGE speaks of its variable only, and a
   relationship variable is an edge of its pattern and no node.  Six limits are
   the model's: a MATCH says nothing of the properties of relationships, a MERGE
   at most one, of a relationship with a name; WITH renames what a MATCH or a
   CREATE bound, to names that are new and not the same; DETACH DELETE names
   nodes; there is one OPTIONAL MATCH; and no clause after it asks for what only
   it binds, so that it makes no difference that WhereParts puts it last. *)

\* The variables that nothing but an OPTIONAL MATCH before position i binds.
OnlyOptional(q, i) ==
  LET before == WhereParts(q, 1 .. i - 1) IN Ids(before.opt) \ Ids(before.must)

\* The variables the clause adds to what a WHERE asks for.
AsksFor(cl) ==
  CASE cl.c \in {"match", "create"} -> Ids(MustPart(cl))
    [] cl.c = "mergeRel" -> Ids(cl.scan) \cup (IF cl.onMatch = <<>> THEN {} ELSE {cl.from, cl.to})
    [] OTHER -> {}

EdgesNamed(g) == \A t \in g.eprop : <<t[1], t[2], t[3]>> \in g.edge

Lowered(q, i) ==
  LET cl == q[i] IN
  /\ cl.c \in {"match", "optional"} =>
       /\ cl.p.eprop = {}
       /\ \A t \in cl.rels : /\ <<t[2], t[3], t[4]>> \in cl.p.edge
                             /\ t[1] \notin WhereVars(WhereParts(q, DOMAIN q))
  /\ cl.c = "create" => /\ Closed(cl.g) /\ EdgesNamed(cl.g)
                        /\ cl.g.node = {cl.order[j] : j \in DOMAIN cl.order}
  /\ cl.c = "mergeNode" => Ids(cl.p) = {cl.v} /\ cl.p.edge = {} /\ cl.p.eprop = {}
  /\ cl.c = "mergeRel" => Ids(cl.scan) \subseteq {cl.from, cl.to} /\ \A t, u \in cl.props : t = u
  /\ cl.c = "with" => LET before == WhereParts(q, 1 .. i - 1) IN
       /\ \A t \in cl.rename : t[1] \in Ids(before.must)
       /\ \A t, u \in cl.rename : t[2] = u[2] => t = u
       /\ \A t \in Renames(cl) : t[2] \notin WhereVars(before)
  /\ cl.c = "optional" => \A j \in 1 .. i - 1 : q[j].c # "optional"
  /\ AsksFor(cl) \cap OnlyOptional(q, i) = {}
  /\ cl.c = "delete" /\ cl.detach =>
       \A j \in DOMAIN cl.what : \A t \in RelVars(q, 1 .. i - 1) : t[1] # cl.what[j]

-----------------------------------------------------------------------------
(* What a clause other than CREATE adds to the list, once the clauses inside
   it have been compiled.  Unsupported clauses end the compilation. *)

OwnSupported(q, i, bmap) ==
  LET cl == q[i] ctx == ContextOf(q, i) outer == MergeWhere(q, i, bmap) IN
  \/ cl.c = "set" /\ ContextSupported(q, i) /\ AllSetSupported(cl.items, ctx)
  \/ cl.c = "delete" /\ ContextSupported(q, i)
  \/ /\ cl.c = "mergeNode" /\ WhereSupported(q, 1 .. i - 1)
     /\ outer = NoWhere
     /\ AllSetSupported(cl.onMatch, Pattern(cl.p))
  \/ /\ cl.c = "mergeRel" /\ WhereSupported(q, 1 .. i - 1)
     /\ LET on == Facing(outer, cl.scan) IN
        \/ Constrained(cl, on) /\ AllSetSupported(cl.onMatch, Facing(on, EdgeGraph(cl, {})))
        \/ ~ Constrained(cl, on) /\ FullyBound(cl, bmap)

OwnStatements(q, i, bmap) ==
  LET cl == q[i] ctx == ContextOf(q, i) IN
  CASE cl.c = "set" -> CompileSetItems(cl.items, ctx)
    [] cl.c = "delete" -> CompileDelete(cl, ctx, RelVars(q, ReadContext(q, i - 1)))
    [] cl.c = "mergeNode" -> CompileMergeNode(cl)
    [] cl.c = "mergeRel" ->
         LET on == Facing(MergeWhere(q, i, bmap), cl.scan)
         IN IF Constrained(cl, on) THEN CompileMergeRel(cl, on) ELSE CompileMergeBound(cl, bmap)
=============================================================================
