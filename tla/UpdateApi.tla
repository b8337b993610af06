------------------------------ MODULE UpdateApi ------------------------------
(***************************************************************************)
(* A caller of cypher_to_sparql_update (lib.rs): a query with a DELETE is  *)
(* walked by the LQA write compiler (WriteSession), unless its shape alone  *)
(* keeps it from there, and given to the legacy generator, which knows no  *)
(* DELETE, where that refuses it; a query without a DELETE goes to the     *)
(* legacy generator at once.  The statements are then run, cut short and   *)
(* asked for again as in WriteSession.                                     *)
(***************************************************************************)
EXTENDS WriteClaims, LegacyWrite

VARIABLES gen   \* the legacy generator: the clause and item it is at, and its maps

apiVars == <<vars, gen>>

NoGen == [at |-> 1, item |-> 1, known |-> Nothing, alias |-> [v \in {} |-> v]]

ApiInit == Init /\ gen = NoGen

\* Mutant: the caller starts one statement early.
StartLegacyEarly ==
  /\ pc' = "legacy" /\ gen' = NoGen
  /\ at' = 0 /\ waiting' = <<>> /\ out' = <<>> /\ bmap' = NoNodes /\ counter' = 0
  /\ ip' = 0

\* cypher_clauses_to_updates starts with empty maps and no statement.
StartLegacy ==
  /\ pc' = "legacy" /\ gen' = NoGen
  /\ at' = 0 /\ waiting' = <<>> /\ out' = <<>> /\ bmap' = NoNodes /\ counter' = 0
  /\ ip' = 1

-----------------------------------------------------------------------------
(* Which queries are given to the LQA compiler at all (lqa_safe_reason). *)

\* It ends in a clause that writes, or in RETURN.
EndsWriting(q) == q.ret \/ q.cl[Len(q.cl)].c \notin {"match", "optional", "with", "call"}

\* Relationship variables that have come as far as clause i: no WITH since has
\* renamed anything.  (A WITH that renames nothing passes all of them on.)
LiveRels(q, i) ==
  UNION {{t[1] : t \in q[j].rels} :
           j \in {m \in 1 .. i - 1 : q[m].c \in {"match", "optional"}
                                     /\ \A k \in m .. i - 1 : Renames(q[k]) = {}}}

\* A named relationship after a WITH, which the flat WHERE would not keep apart.
RelVarAfterWith(q) ==
  \E i \in DOMAIN q :
    /\ q[i].c \in {"match", "optional"} /\ \E j \in 1 .. i - 1 : q[j].c = "with"
    /\ \E t \in q[i].rels : t[1] \notin LiveRels(q, i)

TriesLqa(q) == Deletes(q) /\ EndsWriting(q) /\ ~ RelVarAfterWith(q.cl)

\* A DELETE with a RETURN compiles to no statement, unless nothing can
\* translate its SELECT: then the legacy generator is asked after all.
Call(q) ==
  \/ TriesLqa(q) /\ Compile(q) /\ gen' = NoGen
  \/ (TriesLqa(q) => q.ret) /\ StartLegacy

Request ==
  /\ pc = "idle" /\ served < MaxQueries
  /\ \E q \in Query : query' = q /\ Call(q)
  /\ base' = store
  /\ UNCHANGED <<store, client>>

FallBack ==
  /\ Refused
  /\ StartLegacy
  /\ UNCHANGED <<store, query, base, client>>

\* One turn of the generator's loop.
Generate ==
  LET q == query.cl i == gen.at j == gen.item IN
  /\ pc = "legacy" /\ i <= Len(q)
  /\ out' = out \o LegacyStatements(q, i, j, gen.known)
  /\ gen' = IF LastTurn(q[i], j)
            THEN [at |-> i + 1, item |-> 1, known |-> KnownAfter(q, i, gen.known, gen.alias),
                  alias |-> AliasAfter(q, i, gen.alias)]
            ELSE [gen EXCEPT !.item = j + 1]
  /\ UNCHANGED <<store, query, base, pc, at, waiting, bmap, counter, ip, client>>

\* Mutant: the loop waits for one clause more than there are.
GeneratedLate ==
  /\ pc = "legacy" /\ gen.at > Len(query.cl) + 1
  /\ pc' = "run"
  /\ UNCHANGED <<store, query, base, compile, ip, client, gen>>

Generated ==
  /\ pc = "legacy" /\ gen.at > Len(query.cl)
  /\ pc' = "run"
  /\ UNCHANGED <<store, query, base, compile, ip, client, gen>>

RequestAgain ==
  /\ pc = "failed" /\ query \in Retried
  /\ Call(query)
  /\ UNCHANGED <<store, query, base, client>>

Walk == (VisitCreate \/ VisitWrite \/ VisitRead \/ Emit \/ Compiled) /\ UNCHANGED gen

ApiServe ==
  \/ Walk \/ FallBack \/ Generate \/ Generated \/ RequestAgain
  \/ (Execute \/ Finish \/ GiveUp) /\ UNCHANGED gen

ApiNext == Request \/ ApiServe \/ (Fail /\ UNCHANGED gen)

ApiSpec == ApiInit /\ [][ApiNext]_apiVars /\ WF_apiVars(ApiServe)

ApiTypeOK ==
  /\ pc \in {"idle", "legacy", "walk", "run", "failed"}
  /\ pc # "legacy" => TypeOK
  /\ gen.at \in 1 .. Len(query.cl) + 1 /\ gen.item \in Nat \ {0}
  /\ IsKnown(gen.known) /\ IsAlias(gen.alias)
  /\ out \in Seq(Statement) /\ ip \in 1 .. Len(out) + 1

-----------------------------------------------------------------------------
(* Where the list of cypher_to_sparql_update means what the query means. *)

Bounded(q) == \E i \in DOMAIN q : q[i].c = "call" \/ (q[i].c = "with" /\ q[i].limit)

Matched(q) == {i \in DOMAIN q : q[i].c = "match"}
AllRenames(q) == UNION {q[i].rename : i \in {m \in DOMAIN q : q[m].c = "with"}}

\* The variables whose patterns the legacy statement of clause i joins.
Used(q, i) ==
  CASE q[i].c = "create" -> CreateGraph(q, i).node \cap (MatchVars(q) \cup Aliases(q))
    [] q[i].c = "mergeRel" -> {q[i].from, q[i].to}
    [] q[i].c = "set" -> {q[i].items[j].v : j \in DOMAIN q[i].items}
    [] OTHER -> {}

\* Every matched variable is joined, once, by its name or by its alias.
Covers(q, i) ==
  \A v \in MatchVars(q) :
    Cardinality(({v} \cup {t[2] : t \in {u \in AllRenames(q) : u[1] = v}}) \cap Used(q, i)) = 1

MadeBefore(q, i) ==
  UNION {q[j].g.node : j \in {m \in 1 .. i - 1 : q[m].c = "create" /\ i \notin Adjacent(q, m)}}

LegacyClauseExact(q, i) ==
  LET cl == q[i] IN
  CASE cl.c = "match" ->
         /\ cl.p.edge = {} /\ cl.p.eprop = {}
         /\ \A j \in Writes(q) : i < j
         /\ \A j \in Matched(q) \ {i} : Ids(cl.p) \cap Ids(q[j].p) = {}
    [] cl.c = "with" -> ~ cl.limit
    [] cl.c = "create" ->
         /\ Covers(q, i)
         /\ CreateGraph(q, i).node \cap MadeBefore(q, i) = {}
         /\ MatchVars(q) # {} => cl.g.node \cap AnonVar = {}
    \* SET writes every node: exact where the query matches every node, and makes none
    [] cl.c = "set" ->
         /\ Covers(q, i) /\ Used(q, i) \subseteq MatchVars(q) \cup Aliases(q)
         /\ \A j \in Matched(q) : \E v \in Var : q[j].p = Sentinel(v)
         /\ \A j \in DOMAIN cl.items :
              cl.items[j].i = "label" \/ (cl.items[j].i = "prop" /\ cl.items[j].x.e = "lit")
    [] cl.c = "mergeNode" -> ClauseExact(q, i)
    [] cl.c = "mergeRel" -> /\ Covers(q, i) /\ cl.onMatch = <<>>
                            /\ {cl.from, cl.to} \subseteq MatchVars(q) \cup Aliases(q)
    [] OTHER -> FALSE

\* No statement changes what the pattern of a later clause reads.
LegacyIndependent(q) ==
  LET all == Pattern(UnionOf({q[i].p : i \in Matched(q)}))
  IN \A i, j \in Writes(q) : i < j /\ j \notin Adjacent(q, i) => Touched(q, i) \cap ReadBy(all) = {}

LegacyExact(q) == LegacyIndependent(q) /\ \A i \in DOMAIN q : LegacyClauseExact(q, i)

\* A query that deletes must get to the LQA compiler, and not be refused there.
ApiExact(q) ==
  IF Deletes(q) THEN TriesLqa(q) /\ Exact(q) /\ ~ Bounded(q.cl) ELSE LegacyExact(q.cl)

\* A list of cypher_to_sparql_update that has run to its end has left the store
\* as the query, taken as one step of Cypher, may leave it: from either
\* generator, and also if it failed half-way and was asked for again.
ExactOutcome ==
  Ran /\ ApiExact(query) => Visible(store) \in Outcomes(query, Visible(base))

\* A query of one write clause on which the generators agree: what it matches
\* keeps its name, every matched node is named and in the pattern's nodes, and a
\* SET matches one variable at most.
OneServed(q) ==
  LET n == Len(q.cl) cl == q.cl[n] IN
  /\ OneClause(q) /\ ApiExact(q)
  /\ ~ Deletes(q) =>
       /\ \A i \in 1 .. n - 1 :
            /\ q.cl[i].c = "with" => q.cl[i].rename = {}
            /\ q.cl[i].c = "match" => q.cl[i].p.node = Ids(q.cl[i].p) /\ q.cl[i].p.node \cap AnonVar = {}
       /\ cl.c = "mergeNode" => cl.p.node = {cl.v}
       /\ cl.c = "set" => \A v, w \in MatchVars(q.cl) : v = w

OneServedEach(Q) ==
  \A q \in Q : OneServed(q) /\ \A x \in Linked(q.cl[Len(q.cl)]) : x \notin Unlinked(Q)

\* A query that sets and deletes writes the nodes it matched and no other, and
\* leaves no relationship it found under a deleted name (lib.rs:155 "DELETE /
\* DETACH DELETE have no legacy-path implementation: route through the LQA write
\* path", lib.rs:173 "Legacy path handles CREATE / MERGE / SET / REMOVE correctly").
WritesWhatMatched ==
  LET q == query.cl
      Written(n, i) == \E r \in BaseRows(i) : \E v \in WrittenVars(q[i]) \cap DOMAIN r : r[v] = n
      Gone(i) == \A t \in RelVars(q, 1 .. i) : t[1] \in WrittenVars(q[i]) =>
                   \A r \in BaseRows(i) : {t[2], t[4]} \subseteq DOMAIN r => <<r[t[2]], t[3], r[t[4]]>> \notin store.edge
  IN  Ran /\ (\A i \in Writes(q) : q[i].c \in {"set", "delete"}) =>
        /\ \A n \in base.node : (\A i \in Writes(q) : ~ Written(n, i)) =>
             {t \in store.prop : t[1] = n} = {t \in base.prop : t[1] = n}
        /\ \A i \in Writes(q) : q[i].c = "delete" => Gone(i)
=============================================================================
