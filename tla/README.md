# rs-polygraph in TLA+

rs-polygraph transpiles openCypher and ISO GQL queries to SPARQL 1.1. It is a
library: it keeps no state between calls, starts no thread and writes no file.
The state it is about is the caller's RDF store, and four things are hard to get
right:

- **writing** - a Cypher query matches once and writes once, but it becomes a
  *list* of SPARQL UPDATE statements, run one by one, each matching again on the
  store the others have left; the list can stop half-way;
- **reading** - a query becomes one SELECT, or a *chain* of them in which the
  second is built from the rows of the first, against a store that others write
  in the meantime and an executor that may fail;
- **checking** - the semantic checks follow what is in scope from clause to
  clause, and a name may be dropped, renamed and bound to something else;
- **time** - dates, times, zones and durations are computed by the transpiler
  itself, by integer formulas and by taking texts apart.

This project models the four, states what each promises, checks it with TLC and
proves part of it with TLAPS.

## The system

| component | state | operations | interacts with |
|---|---|---|---|
| Transpiler API (`lib.rs`) | none | `cypher_to_sparql`, `cypher_to_sparql_update`, the GQL twins, `try_lqa_path` | calls parser, checks, LQA, legacy; falls back from LQA to legacy |
| Parsers, ASTs (`parser/`, `ast/`) | none | text to clauses | API |
| **Semantic checks** (`translator/cypher/semantics.rs`) | the names and kinds in scope, while walking | `validate_semantics` refuses undefined, rebound or ill-kinded names | API, before any compiler |
| **LQA lowering** (`lqa/lower.rs`, `op.rs`, `expr.rs`) | seen names, fresh names | clauses to operator tree | write compiler, SPARQL lowering |
| **LQA write compiler** (`lqa/write.rs`) | `counter`, `bnode_map`, the statements so far | `compile_write`, one visitor arm per clause | produces the list the caller runs |
| **LQA SPARQL lowering, L2 emitters** (`lqa/sparql.rs`) | what is known of each name, fresh names, columns | operator tree to one SELECT, or to a continuation | runtime driver |
| **Runtime driver** (`runtime.rs`) | the phase it is in | `drive` | the caller's `SparqlExecutor` |
| **Legacy write generator** (`translator/cypher/write_update.rs`) | `match_node_triples`, `with_aliases`, the statements so far | clauses to UPDATE strings, in textual order | API: every query without a DELETE, and the DELETEs the write compiler refuses or is not asked for |
| Legacy query translator (`translator/cypher/*`) | scope, fresh names | clauses to SPARQL algebra | API, for what LQA refuses |
| **Temporal functions** (`translator/cypher/temporal.rs`) | none | calendars, zones, durations, texts | both translators |
| **Result mapping** (`result_mapping/`) | the schema of a query | SPARQL rows to Cypher rows | caller |
| RDF mapping (`rdf_mapping/`) | none | edge properties to RDF-star or reification | legacy translator |
| **Caller** (an application, the tests) | the store, what is next | runs lists and chains, stops, submits again | endpoint |
| **RDF store** (external) | triples | SPARQL Query and Update | caller, other clients |
| Difftest | none | compares two engines' rows | a test tool |

Those in bold are modelled, wholly or in part. `PROJECT.json` lists under
"components" what is left out of each, and under "hazards" what is hard to test
in them, at its line, with the properties that cover it.

What makes each component correct:

- write compiler and caller: the list adds up to the query's meaning; every
  prefix of it leaves a graph without dangling triples and with one value per
  property; MERGE creates at most once; each query ends;
- lowering, SPARQL lowering, result mapping: the rows are those Cypher gives;
- emitters and driver: the rows are those of *one moment* of the store, an error
  comes only from the executor or the query, and a request ends;
- semantic checks: what they take to be in scope is in scope, a sound query
  passes, a wrong one does not;
- temporal functions: every conversion agrees with counting days and seconds,
  and what is written is read back.

## The modules

| module | what it is | code |
|---|---|---|
| `RdfStore` | triples of a property graph, patterns and templates of the same shape, rows of a WHERE | external; the vocabulary of `compile_create` |
| `LqaWrite` | clauses, WHERE generation, and what each clause emits | `lqa/write.rs` |
| `SparqlUpdate` | what one emitted statement does to the store | the statement templates of `lqa/write.rs`, run by an endpoint |
| `WriteSession` | the walk of `compile_write_recursive` and the caller's loop, as a state machine | `lqa/write.rs` 169-368, `run_write` in `tests/integration/movie_graph.rs` |
| `CypherWrite` | the graphs a write query may leave, of the graph it finds | openCypher, as the TCK features say it |
| `AtomicWrite` | abstract: the store changes by whole queries | - |
| `WriteRefinement` | which write queries are exact, which of them are of one write clause, and the refinement map | - |
| `LegacyWrite` | what the legacy generator pushes for each clause, and its maps | `write_update.rs` 328-1087 |
| `UpdateApi` | `cypher_to_sparql_update`: the choice of generator, the fall back, the loop of the legacy generator, the same caller | `lib.rs` 149-175, 231-251, 505-642 |
| `WriteClaims` | what comments and tests say that the code does not do | - |
| `CypherRead` | the answer Cypher gives to a reading query on a graph | openCypher |
| `AtomicRead` | abstract: a request is answered by the rows of one moment of the store | - |
| `ReadLower` | clauses and expressions to operator trees | `lqa/lower.rs` |
| `LiteralFold` | what is computed on literals while compiling: lists, membership, slices, quantifiers | `lqa/sparql.rs` 8261-8650 and callers |
| `SparqlQuery` | solutions of the SELECTs the compiler writes | external |
| `ReadCompile` | operator trees to SELECTs, with the maps the compiler keeps of names | `lqa/sparql.rs` |
| `ResultMapping` | solutions to rows, by the columns recorded | `result_mapping/` |
| `L2Emit` | the emitters, and the function each continuation closes over | `lqa/sparql.rs` from 8800 on, `result_mapping/mod.rs` |
| `ReadPath` | which path a reading query takes, and why | `lib.rs` 223-802 |
| `ReadClaims` | which reading queries are answered exactly, or in the number of rows | - |
| `Drive` | `drive` and its caller over any compiler and store, and what it needs of them | `runtime.rs` |
| `ReadSession` | `Drive` with the compiler, the store and the result mapping | `lib.rs` 50-70, `result_mapping/mod.rs` |
| `QueryScope` | `validate_semantics`, one operator for each clause's errors and one for what is known after it | `semantics.rs` |
| `ScopeSession` | a query read clause by clause by the checks, next to the scope openCypher gives it | `semantics.rs`, openCypher |
| `Calendar` | leap years, day numbers, weeks, quarters, dates from maps | `temporal.rs` |
| `Instants` | moments, zones, epochs, truncation, differences, durations | `temporal.rs` |
| `TemporalText` | the texts of temporal values, and the maps made of them | `temporal.rs` |
| `CalendarClock` | a clock that only counts: the reference | - |
| `ClockTexts` | the properties of texts, on that clock | - |
| `MCWrite`, `MCUpdate`, `MCRead`, `MCScope`, `MCClock` | instances for TLC | - |
| `GivenValues` | the values a set of queries gives relationships and nodes with stable IRIs, and when they agree | what `write.rs` 1453 ff. numbers |
| `WriteProofs`, `ValueProofs`, `OutcomeProofs`, `ApiProofs`, `DriveProofs`, `ScopeProofs`, `CalendarProofs`, `TextProofs` | theorems about `WriteSession`, `WriteRefinement`, `UpdateApi`, `Drive`, `ScopeSession`, `CalendarClock` and `ClockTexts` | - |

How they compose: `WriteSession` EXTENDS `SparqlUpdate`, which EXTENDS
`LqaWrite` and `RdfStore`; `WriteRefinement` adds `CypherWrite`, which
shares the clauses and patterns of `LqaWrite` but none of its statements, and
INSTANCEs `AtomicWrite`, which knows the meaning of queries as a constant only
(`Outcomes`); `UpdateApi` reuses
walk and caller of the session. `ReadSession` EXTENDS `ReadClaims`, `ReadPath`,
`L2Emit`, `ReadCompile` and `ReadLower`, and `Drive`. `Drive` knows the compiler,
the store, the result mapping and the meaning of queries as constants only
(`Compiled`, `Solve`, `Resume`, `ByColumns`, `Presented`, `Allowed`, `Refusable`), so that
what is proved of it holds for any of them; `MCRead.cfg` gives it those of the
other modules (`Outputs`, `Results`, `Continue`, `MapResults`, `Read`, `Permitted`,
`MayRefuse`). `Drive` INSTANCEs `AtomicRead`, whose answers are `CypherRead`'s
here, which share nothing with the compiler but the form of a query. `ScopeSession` EXTENDS `QueryScope`; `CalendarClock` EXTENDS
`Instants` and `Calendar`, and `ClockTexts` adds `TemporalText`.

### The write side

A query is the list of its clauses. `lower_pipeline` puts each clause on top of
the tree so far, so clause *i* has clauses 1 .. *i*-1 inside it, and
"`contains_write(inner)`" is `HasWrite(q, i - 1)`. `at` is the position of the
recursion and `waiting` its stack: `VisitCreate` emits and goes inside (the arm
of `Op::Create` emits first), `VisitWrite` puts the clause on the stack and goes
inside, `Emit` pops it. `VisitRead` stops at a join or an outer join, as the `_`
arm does. `out`, `bmap` and `counter` are `update_strings`, `bnode_map` and
`counter`. One action of the caller runs one statement; between two, the store
may refuse (`Fail`), and the query is then given up or submitted again.

A pattern, a template and a store are the same record of five sets, over
variables or over nodes. Text is not modelled: a WHERE is the pattern its parts
say, a variable is a model value, a literal is a member of `Val`. SPARQL's two
rules that make the code's corner cases are kept: a variable the WHERE leaves
unbound is bound by the next pattern (`Subjects`, `Loose`), and a template
triple with an unbound variable is skipped (`Image`).

`WriteSession` asks the LQA compiler for every query and answers a refused one
without effect: it is about the list `compile_write` makes, the `updates` of the
`Write` that `cypher_to_sparql` returns, without the reasons for which
`lqa_safe_reason` keeps a query from it. `UpdateApi` is about
`cypher_to_sparql_update`, the function the documentation gives to callers:
there the compiler only sees queries with a DELETE, those reasons are looked at
first (`TriesLqa`), and a refusal goes to the legacy generator. `gen` is that generator: the clause (`at`) and item (`item`)
its two loops have come to, and its maps; `known` is `match_node_triples`,
`alias` is `with_aliases`. A turn (`Generate`) pushes what one item of one clause
pushes, and the last turn of a clause updates the maps. A query without DELETE
goes to it at once (`Call`), one with a DELETE when the compiler has refused
(`FallBack`), which by then has dropped what it had compiled, or at once as well
when its shape keeps it from the compiler: it ends in a MATCH or WITH, or a
relationship is named after a WITH that did not pass it on (`RelVarAfterWith`). A
WITH that renames nothing passes every relationship on here: the model's WITH
says what it renames, not what it leaves out. The generator knows no DELETE,
so such a query does not delete (finding 6).

### The read side

A request (`Ask`) compiles the query by `TryLqaPath`: lowering, the reasons for
which the older translator takes it, the emitters in their order, and at last
the plain SELECT. The tree, the query and the columns are data; `Compile`
threads the compiler's own maps (names of nodes and relationships, literals a
WITH has bound, lengths of paths) through the tree as the code does, stale
entries included. `Execute` is one call of the executor on the store of that
moment; `CallContinuation` is `continue_fn` on its rows; `Write` is another
client; `ExecutorFails` is an error of the executor, which `drive` passes on.
The executor of the run `read` gives bare texts, as that of the TCK harness does;
the comment of `SparqlExecutor` (`runtime.rs` 36-39) asks for literals in quotes,
which `parse_cypher_list` cannot read: that executor is `SerialisedResults`, in
the run `v_quoted_rows` (finding 7).

`due` is a ghost: the rows that are due once the first phase has run. It is what
the refinement to `AtomicRead` maps to the abstract answer, so that the abstract
step happens when the *first* query runs; a continuation whose second query
asked the store again would give other rows than those due.

### The semantic checks

An expression is what the checks see of it: its outermost form and the terms and
aggregates in it, each with the constructs they lie under, since each check walks
through some constructs only and does not see what lies under others.
`ScopeSession` reads a query clause by clause: `seen` is what `validate_semantics`
keeps (`bound_vars`, `kinds`, `seen_match`), `scope` gives each name the type
openCypher gives it, `faults` collects what is wrong with the query. A fault is
one the checks look for, or `NotLookedAt`.

### The calendar

`CalendarClock` counts: a date moves to the next by the rule everyone knows (28
to 31 days, leap years by three rules), and counters for the day, the week, the
day of the quarter and so on move with it. A mark is left on some days, and from
it the months, days and seconds that pass are counted. Nothing of the code's
formulas is in it. The properties compare it with what the code computes for the
same moments: `temporal_epoch`, `_from_epoch`, ISO weeks and ordinal dates,
truncation, `datetime.fromepoch`, change of zone, `duration.between`, `inMonths`,
`inDays`, `inSeconds`, sums of durations, and the texts of all of these. `Ns` is
the number of parts of a second: 10^9 in the code, 10 in the run, any number in
the proofs.

## What is checked

Runs in `PROJECT.json`, all by exhaustive search.

| run | specification | shows |
|---|---|---|
| `write_session` | `Spec` of `WriteSession`, 2 queries, 2 failures, submitted again | `ImplementsCypher`: queries that satisfy `Exact` are one Cypher step each, under failure and, if `Repeatable`, repetition; `SingleValued` after every statement; `TypeOK` |
| `update_api` | `EitherSpec` of `MCUpdate`, 1 query, 1 failure, asked for again | `ExactOutcome`: from either generator, the store at the end is one the query, as one Cypher step, may leave; `GraphClosed`, `MergeSettles` after every statement; `QueryEnds`, `ApiTypeOK` |
| `read` | `FairSpec` of `ReadSession`, about 370 queries, 5 stores, 1 write of another client, 1 failure | `ImplementsRead`: every reply has the rows of one moment; `OutputsAnswer`: what each query is compiled to answers it on every store; `FailsForCause`, `DriveEnds`, `ReadTypeOK` |
| `scope` | `Spec` of `ScopeSession`, all queries of up to 5 of 76 clauses | `ScopeAgrees`, `KindsAgree`: names and kinds are those in scope while nothing is wrong; `ValidAccepted`, `WrongRefused`: the verdict |
| `calendar` | `Spec` of `CalendarClock` | sixteen properties of dates, zones, durations and texts, below |
| `v_optional_delete`, `v_detach`, `v_on_match`, `v_insert_first` | `Spec` of `WriteSession` | four things the repository says that do not hold |
| `v_legacy_claims` | `UpdateSpec` of `MCUpdate`, one query | two more, of `cypher_to_sparql_update` (findings 5 and 6) |
| `v_quoted_rows` | `Spec` of `ReadSession`, one query, an executor that quotes literals | an exact query that fails with no execution failing |
| `v_negative_days` | `Spec` of `CalendarClock` | what a comment says of differences of dates |

**Writing.** `ImplementsCypher` is a refinement: `committed`, the store at the
end of each query that ran through, changes as `AtomicWrite` lets it, although
each statement matches anew, on a changed store, possibly twice. It is not
expected of every query, and `WriteRefinement` says of which: `Independent` (no
statement touches what a later one reads), `ClauseExact` (the clause has a shape
SPARQL says exactly) and, with failures, `Repeatable`. These are conditions on
the query, not on the run; `MCWrite` asserts them of the queries it uses. The map
hides the property triples of deleted relationships, which the code leaves
behind on purpose (`write.rs` 1895-1902). `ExactOutcome` says the same of the
public function. Its condition `ApiExact` is `Exact` for a query with DELETE and
`LegacyExact` for the others, which is narrower, and says where: the legacy
generator keeps node patterns only, so a MATCH must have no relationship (and
a query with DELETE must be one the compiler is tried on); every
matched variable must be joined (`Covers`), or the row count is lost; a node the
query has created may not be used again (`MadeBefore`), because it is looked for
by its properties; a SET is exact only after `MATCH (n)`, and of matched nodes.

**Reading.** `ImplementsRead` is a refinement to `AtomicRead`: a request is
refused, fails with the executor, or gets the bag of rows `CypherRead` gives on
the store of one moment between request and reply. Of which queries this is
claimed is `ReadClaims`, where each condition names a shape that SPARQL answers
otherwise:

- `RelsExact`: two relationships of one MATCH are kept apart by their types only;
  a typed undirected loop and a bound on hops give other numbers of rows;
- `OptionalExact`: a property of a name OPTIONAL MATCH left null matches any node;
- `ProjectionExact`: a grouping key that is a name has no column; LIMIT and SKIP
  depend on an order the engine chooses; relationships are shown by their type;
- `NamesExact`, `ShownRels`: what the compiler knows of a name outlives WITH;
- `SaidAlike`: the forms of expression that mean the same in SPARQL, or that are
  folded as Cypher would;
- `ListsExact`, `CountExact`: the list continuation is exact where its property
  is there; of four other emitters only the number of rows is claimed, because
  they give rows without values or with other ones. Nothing is claimed of the
  sixth, paths of any length: it counts walks of up to five hops, cycles included.

A query outside these may be refused, fail or give other rows (`MayRefuse`);
such queries are in the run (`Inexact`, `Otherwise`) for the driver's sake and
because every path of the compiler is taken that way. `FailsForCause` says that
an exact query fails with the executor only, as long as the executor gives texts
the continuations can read, and `OutputsAnswer` is what the
compiler alone has to do with all this: on a store nobody writes, its output gives
permitted rows, and the second phase of a continuation does not look at the store.

**Checking.** While a query has no fault (`Sound`), the names the checks know are
those present, and the kind they keep of a name is the type of what it stands for
now. `ValidAccepted`: a query that is refused has a fault. `WrongRefused`: one with
a fault of a `Promised` kind is refused. After a CREATE the kinds are not promised,
and after a UNION, a CALL or the path of a CREATE nothing but the composition of
clauses is, because the code follows none of them (see *Known divergences*).

**Counting time.** `DayNumber`, `PartsRebuild`, `CountedParts` (numbers of days,
weeks, quarters against the counters), `PeriodStarts` (truncation), `FromUnixExact`,
`RezoneExact`, `BetweenCounts`, `WholeUnits` (differences), `SumLength`, `SumExact`
(a duration that is added to with every tick), `ParsedForms`, `ReadBack`,
`MapsRebuild`, `DurationTexts` (texts), `SummerTime` (the fall-back rules: until
1995 summer ends in September, as it did, from 1996 on in October).

`BetweenCounts` claims of a mark after the 28th only the months, and those only
where `MonthsClaimed`: the calendar difference of the dates has a negative number
of days where the last month is too short (`DifferencePositive` is violated in
`v_negative_days`), and a time of day before the mark's then takes a day from it
that is not there, so from 31 January 23:30 to 1 March 00:00 no month is counted.

On the minute a map prints a time without seconds (`temporal.rs` 1176, 1848), a
text prints it with them: `PrintedForms` has both. `ReadBack` says that either
stands for its moment wherever the text is read again, but the parts of the
moment are read from a text with seconds only, because from the other the code
reads other ones (see *Known divergences*). Of an offset that has seconds
`ParsedForms` expects the code to give them up, as the comment at `temporal.rs`
2630 says.

### Bounds

*Writing.* Two nodes in the store, labels A and B, keys j and k, relationship
types R and S, values 1 and 2: thirty-two stores, with n1 an A in all of them,
since a second label, key or type is what tells "the one written" from "the one
read", and two nodes give rows that agree and rows that differ. Four spare blank
nodes cover the most an INSERT makes here, and symmetry is over these only (the
liveness runs have none). Each query is the smallest of its shape and
named in `MCWrite`; `MCUpdate` takes eight more and the sixteen stores in which n2
has exactly one of the labels; a caller in `update_api` uses one of the two
functions throughout (`asked`), and in the first case, of `cypher_to_sparql`,
meets all thirty-two stores and the queries of `MCWrite` that delete no node.
In `write_session` the second query is none that makes nodes by IRIs the first
has used, because the counter of stable IRIs starts at 0 again for it, and a
query that may not be repeated fails only as the last (`Sessions`, a constraint
on the states explored). One query is refused. The session is bounded
by `MaxQueries` and may stop when the last one is served: that is why
`CHECK_DEADLOCK` is FALSE. `QueryEnds` shows that it does not stop earlier.

*Reading.* Five stores of at most two nodes, with a loop, a pair of opposite
edges, properties that are absent, equal and different, a list, and the empty
store; every query meets every one of them, before and after a write. One write
and one failure per request: a chain has two phases, so one of each falls
anywhere in it. The queries are every combination of eight patterns, six
conditions and seven endings, and one or more of each form of expression. The
session goes on for ever, and deadlock is checked.

*Checking.* Names a, b and p (for paths); the 76 clauses have each form of item, pattern,
condition and aggregate that a check tells apart. Five clauses: bind, drop,
rename, bind anew, use. A query may end: `CHECK_DEADLOCK` is FALSE. So may a clock
that has counted `Span` days.

*Counting.* From the years 1697, 1969, 1993 and 1997, 1470 days each (past 1700
and 2000, the epoch, and four turns of the year), two moments a day (midnight and
23:30:07.5), three zones, and marks on 28 February 1997, 31 January and 29
February 2000, watched for 400 days. The theorems have no bounds.

### Fairness

- `UpdateApi`, and the caller of `MCUpdate`: weak fairness of `Serve` (compiler and
  caller of `WriteSession`) and of `ApiServe`, which adds the other function. The
  compiler is a terminating recursion in one thread and the caller runs a loop,
  so a query under way goes on. `Submit` is not fair (nobody has to send a
  query), `Fail` is not (an endpoint need not fail). A failed query is eventually
  submitted again or given up.
- `ReadSession` (`Drive`): `WF_pc(Driven)`, the steps of `drive` that change the phase. A
  call of the executor returns rows or an error, and between the phases nothing
  is waited for. The writes of other clients and new requests are not fair.
- `ScopeSession` and `CalendarClock` have no liveness property and no fairness.

### Findings

1. `OPTIONAL MATCH (n:B) DETACH DELETE n` with no B deletes the whole store.
2. `MATCH (n:B) DETACH DELETE n` leaves the edges that come in to n.
3. ON MATCH SET of a relationship MERGE also writes the relationship the MERGE
   has just made.
4. `MATCH (n:A)-[r:R]->(m) DELETE r CREATE (n)-[:R]->(m)` ends without the edge.
5. `MATCH (n:A) SET n.k = 1` through `cypher_to_sparql_update` sets `k` on every
   node: the legacy generator's SET forgets what the query matched.
6. `MATCH (n:A) WITH n MATCH (n)-[r:R]->(m) DELETE r` through
   `cypher_to_sparql_update` gives no statement and no error: `lqa_safe_reason`
   sends it to the generator that knows no DELETE.
7. An executor that quotes literals, as the comment of `SparqlExecutor` says, gets
   an error from every list comprehension over a stored list.
8. The calendar difference of 31 January and 1 March has negative days, although
   the comment at `temporal.rs` 3679 says "all >= 0".

### Known divergences

Met while modelling; the properties leave them out by the conditions named above,
or the model by the inputs it takes.

*Folding of literals.* In the WHERE of a comprehension null compares as a value,
so `[x IN [1, null] WHERE x <> 1 | x]` keeps null (`lqa/sparql.rs` 8590); scalars
are compared as text, and maps with their keys in order (8336); a CASE whose
condition is null gives null and not its ELSE (4768); bounds of a slice that are
not literals are ignored (5050); `size([(a)-->(:L) WHERE .. | 1])` ignores label,
properties and WHERE (5405); the size of a list that is not known while compiling
is the length of its text (5538), and IN finds no null in it (`temporal.rs` 1873);
`/` of literals is that of f64; a number and a truth value are ordered (8688).

*Names.* Literals, path lengths and kinds a WITH has bound stay known after the
name is bound anew; a grouping WITH adds its columns to the schema (1121), and a
UNION keeps those of one arm. A variable of several relationship types is shown by
its own name. UNWIND of a mixed list ignores the projections around it (10664).

*Properties of relationships.* In the WHERE of a write query `-[r:R {k: 1}]->`
becomes the edge and the triple `?r <k> 1`, whose `?r` is bound nowhere else
(`lqa/write.rs` 739): it holds as soon as any node has the value. Of an unnamed
relationship the property is dropped (`lower.rs` 412), in a MERGE as well; with two
properties a MERGE is taken for one of a node (`write.rs` 1984).

*Unnamed ends.* The legacy generator gives an unnamed node of a CREATE the triple
`__anon_node` where the rest of the file writes the sentinel of a node
(`write_update.rs` 574): next to a bound node, the new edge ends in nothing.

*Checks.* What CALL yields, the path of a CREATE and the second arm of a UNION are
not followed (`semantics.rs` 1451): `CREATE p = (a) RETURN p`, `CALL f() YIELD x
RETURN x` and `MATCH (a) RETURN a UNION MATCH ()-[a]-() RETURN a` are refused.
Not looked at: items of WITH and its WHERE, the list of UNWIND, ORDER BY of a
RETURN without DISTINCT, names inside aggregates (`RETURN count(zz)` passes),
list, CASE and subscript constructs, the subject of SET, DELETE and SET with
nothing in scope, aggregates inside aggregates in WITH, UNWIND as a name in use,
a relationship variable of a walk used as a single relationship,
`CREATE (a {k: a.k})`.

*Calendar.* Differences within a day are borrowed wrongly backwards (3733); `inMonths` is -1 within the same month when the clock goes
back (3788); `datetime({datetime: .., timezone: ..})` never moves the date (1604);
`time` of another zone is wrong if that goes before midnight (1352); epochSeconds
ignores the zone (`lqa/sparql.rs` 8222); `time({time: '12:31:14-05:00'})` loses its offset
(1303); a date and time on the minute made from a map is printed without
seconds (1848, 1176), and its `.second` gives the hours of its offset, or nothing
(26), which no run shows; a zone '+0100' or with seconds is not understood (1189); a base in basic
form under the key `datetime` becomes midnight (1447); the fall-back rule has
London change an hour late (416); fractions of years are not cascaded (2838).

## What is proved

`tlapm` checks the eight proof modules to the last leaf. The theorems hold for
all values of the constants that satisfy the assumptions of the modules.

*Writing* - any queries the lowering can produce (`Lowered`, part of
`QueryAssumption`), any stores, any bounds:

- `TypeCorrect` - `Spec => []TypeOK`. The inductive invariant is `TypeInv`:
  `TypeOK`, and the statements of `out` are `Shaped` (an upsert on an edge has
  both ends bound, an INSERT speaks of its blank nodes, its IRIs and variables
  of its WHERE, a MERGE of a node inserts all its pattern asks), and `bmap`
  has one IRI per variable, and a query under way is counted. `TypeOK` is not
  inductive alone: an upsert with an unbound end would write outside the store's
  type.
- `StaysClosed` - `Spec => []GraphClosed`, for queries that delete no node and
  stores that start closed (`NoNodeDeleted`; finding 2 shows why the first is
  needed). A statement may name a node by an IRI the compiler invented, and is
  harmless only if that IRI is a node by then. `ClosedInv` says so in four
  parts: what `bmap` names is made by an INSERT already in the list
  (`NamesMade`), a statement names only what an earlier one makes (`ReadsMade`),
  no statement deletes a node (`KeepsAll`), and what the statements run so far
  make is in the store (`MadeStays`). The order of the list is exactly what
  `ReadsMade` is about.
- `Settles` - `Spec => []MergeSettles`. `SettleInv` adds that a list still being
  compiled has run nothing. The heart is `SettlesOnce`: the template of a node
  MERGE contains its pattern, so the inserted node satisfies it, and adding
  triples never unblocks a row.
- `StaysSingle` - `Spec => []SingleValued`, for queries whose values agree
  (`ValuesAgree` of `GivenValues`): over all queries, one value per key for each
  stable IRI and each relationship; a SET assigns a literal that no CREATE or
  MERGE contradicts, or a value read from the variable it assigns to. All three
  are needed. Stable IRIs start at 0 for each query, so two queries name the same
  node and their values meet in it; a relationship is the same triple whoever
  creates it; and `SET n.k = m.k` gives `n` a value of every `m`. `MCWrite` states
  (`ValuesAssumption`) that of its queries only `RelSet`, the last kind, does not
  agree with itself, and that the values of two groups of queries agree together,
  so the theorem also covers sessions that mix them, few of which a run checks.
  `ValueInv` adds what makes it inductive: every statement of the list gives each
  subject one value (`OneEach`); the store agrees with what any query, served or
  not, may still give (`Consistent`); and during the walk `bmap` holds the IRIs
  that `Names` computes from the query alone, with the counter at the number of
  nodes named (`WalkNames`).

*What a write query means* - the refinement itself, for any stores without
property triples of relationships that are not there, any number of queries, any
number of failures between their statements and any number of second submissions:

- `OneWriteAtomic` - `Spec => ImplementsCypher`, if every query is one `OneWriteEach`
  names: any reading clauses the lowering can produce and then one clause that
  writes (CREATE, SET and REMOVE with any number of items, DELETE of a relationship,
  MERGE of a node or of a relationship between matched ones), `Exact`, and under
  conditions without which it is false. Where queries share a session, a type whose
  relationships one query deletes is not one another makes: the property triples
  left behind (`write.rs` 1895-1902) would come back with the relationship. Two
  relationship variables of a DELETE have different names. A CREATE either reads
  something or names none of its nodes, because stable IRIs start again with every
  query. ON CREATE of a node gives literals and labels, one value per key: two
  would ride in one INSERT. A SET of several items is submitted again if it fails, or nothing fails:
  the items that ran are in the store. `MCWrite` states (`ExactAssumption`) which of
  the queries of the runs are such.
  The inductive invariant is `CommitInv`, checked by TLC before it was proved.
  Its parts are where the walk is (`WalkShape`), that a query whose statements ran
  is one the compiler takes (`Compilable`, or a refusal after a retry would be
  seen), that hidden triples are of deleted types (`Shown`), and what the
  statements so far have made of the store (`Reached`). For one statement that
  is all or nothing; for several items it is `SetStage`, and it is there that the
  refinement could fail: the state after *i* items of a second run is not the
  state after *i* items of the first, since the items the first run still did are
  there as well. `Same` says that the two differ in what the items to come write,
  and nowhere else, so at the end they agree.
  What the prover has to be told of the compiler is in one lemma per clause
  (`CreateMeans`, `SetMeans`, `DeleteMeans`, `MergeNodeMeans`, `MergeRelMeans`): the
  solutions of the WHERE are the rows of the clauses before it (`Reading`), the
  blank nodes an endpoint chooses are the new nodes of the query, and the statement
  changes what the clause does, no more.

*The public write function* - the same for `ApiSpec`, where either generator may
have written the list:

- `ApiTyped` (`ApiTypeOK`). `ApiInv` has the types of the caller and of the
  legacy generator's maps, the shape of every statement (`Runnable`, which is
  weaker than `Shaped`: the older generator inserts triples whose end the WHERE
  leaves out), and that the maps are empty at the first clause. While the list
  is compiled by the LQA compiler, the state is one of `WriteSession` with
  `TypeInv`, so its lemmas are used again.
- `ApiClosed` (`GraphClosed`), assuming `NothingHangs`: `NoNodeDeleted` and
  `NamedEnds`. The second is needed: in `MATCH (n:A) CREATE (n)-[:S]->()` the
  unnamed end gets the triple `__anon_node` (`write_update.rs` 574) where every
  other node gets the one that makes it a node, and the edge leads to nothing.
- `ApiSettles` (`MergeSettles`).
- `ApiExactOutcome` (`ExactOutcome`), for queries of one write clause, after any
  clauses that read, on stores that hide nothing: those `OneServedEach` names. To
  `OneClause`, the part of the condition of `OneWriteAtomic` that is about one
  query, and `ApiExact`, the condition of the property itself, it adds for a query
  without DELETE that a WITH keeps the names of what was matched, that every matched
  node is named and stands in its pattern's nodes, and that a SET matches one
  variable at most; and of queries that share a session, that no type one of them
  deletes is made again. `MCUpdate` states (`ServedAssumption`) which queries of the
  run are such.
  The proof has two halves. The older generator's list, which comes out of its maps
  clause by clause, is the very list of the LQA compiler: `Recalls` says that at
  each clause the maps hold what every MATCH before it said of its variables,
  `Recalled` that put together this is the WHERE of the clause that writes, and
  `CreateAgrees`, `SetAgrees`, `MergeNodeAgrees` and `MergeRelAgrees` that the
  statements are then equal. And `ServeInv`, checked by TLC before it was proved,
  carries the lemmas of `OutcomeProofs` (`Reached`) through the calls, the failures
  and the second calls: it says how much of the list the generator has pushed
  (`Generating`), and that a query that deletes and satisfies `ApiExact` is one the
  compiler is tried on and takes, so that the older generator never sees such a
  query. (It does see others that delete: finding 6.)

*Reading* - any compiler, any stores, any executor, any number of writes of others
and of failures, assuming `CompilerAnswers`: on every store nobody writes, the
output of a query is one `drive` can take, has permitted rows, and what a
continuation asks in its second phase does not depend on the store. `OutputsAnswer`
is that assumption on each query asked and the store it is asked on, and the run
`read` checks it of the compiler of `ReadCompile` and `L2Emit`; so the
run needs no concurrency for the compiler, and the proof none of the compiler for
the concurrency.

- `DriveRefines` (`ImplementsRead`): each step is a step of `AtomicRead` or none.
  `DriveInv` says what the phase knows: in the first, that what is driven is what
  the query was compiled to; between the phases (`AfterFirst`), that the rows are
  those of some store of the request and `due` what they settle; in the second
  (`SecondPhase`), that its query gives the rows due *on every store*, which is
  why a write in between does not show. The abstract step happens in `Execute` of
  the first phase; that of the second is the reply.
- `FailingForCause` (`FailsForCause`) and `ReadTyping` (`ReadTypeOK`), from the same
  invariant. Neither is inductive: that a continuation does not fail rests on
  where its rows came from.

*Checking* - any set of names, any clauses that satisfy `ClauseAssumption` (names
are in `Names`, lists are sequences) and `ExpressionAssumption` (a bare term is
its one term; aggregates are where the walk for them sees them, as they are in
every expression the parser builds), queries of any length:

- `ScopeTyped`, `NamesInScope` (`ScopeAgrees`), `KindsInScope` (`KindsAgree`). The
  invariant is `ScopeInv`: both sides are typed, and if nothing is wrong so far
  then `Fits`: the bound names are those present, a name with a kind is bound, and
  the kind of a name is one its type allows. Neither property is inductive alone:
  after WITH the kinds are those of its items, which needs the kinds of the clause
  before, and a kind left over from a name that is gone would come back with it.
  One lemma per clause carries `Fits` over it.
- `NoneRefused` (`ValidAccepted`) and `FaultyRefused` (`WrongRefused`), from
  `VerdictInv`: `ScopeInv`, the columns of the arms are those of clauses, and
  after a MATCH the checks know there was one. Each clause has a lemma that where
  the state `Fits`, its errors are empty only if its faults are, and conversely
  (`Judged`); both verdicts follow by `JudgedOn`, because a clause is judged in
  a state that fits as long as nothing was wrong, and once something was wrong
  the verdict is not taken back.

*Counting* - any first of January the cycles of 4, 100 and 400 years name, any
moments of a day, any zones less than a day apart from Greenwich and a whole
number of seconds (`OffsetsAssumption`), any number of days, any `Ns`. Every
property of `CalendarClock`, and every one of `ClockTexts`:

- `DaysCounted` (`DayNumber`), `DatesRebuilt` (`PartsRebuild`) and `FromEpochEpoch`,
  `EpochFromEpoch` (the code's conversions are inverse to each other). `CalInv`
  says that the date is valid and its `temporal_epoch` is the counter; the lemmas
  compute the truncated quotients at each end of a month, a year and the cycles.
- `PartsCounted` (`CountedParts`), `PeriodsBegun` (`PeriodStarts`), `SummerKept`
  (`SummerTime`), from `BeganInv`: the weekday is that of the day number, and
  each period that has begun did so on its first day, which the code's date
  formulas give. Weeks are where it is hard: the first week of a year may begin
  in the year before.
- `SumsAddUp` (`SumLength`) and `SumsCarried` (`SumExact`): a duration built by any
  number of additions is as long as the time that passed, and carried as far as
  it goes, by `SumInv`.
- `UnitsCounted` (`WholeUnits`) and `DifferencesCounted` (`BetweenCounts`), from
  `WatchInv`: the months counted one by one are those a formula gives for the
  mark and now, and the rest is the time since the last of them. The stopwatch
  alone says nothing of dates, so the properties are not inductive.
- `UnixMoments` (`FromUnixExact`), `ZonesChanged` (`RezoneExact`), `ClockTyped`
  (`CalTypeOK`, from `TypeInv`).
- `FormsParsed` (`ParsedForms`), `PrintedAgain` (`ReadBack`), `MapsRebuilt`
  (`MapsRebuild`) and `DurationsRead` (`DurationTexts`), assuming
  `TextsAssumption`: `Ns` is even, as 10^9 is (fractions of a month are carried in
  quarters of a mean month), and offsets are whole minutes, as the form `+HH:MM`
  the code prints says (seconds have no place in it).
  The lemmas say what each step of a reader (its cuts, its completion of seconds
  and zone) does to a text that was written for a time, whatever its form, so a
  property is a composition of a few of them. None of the four is inductive;
  they follow from the invariants above and `WeekInv`: a week-year begins with a
  week, without which a date named by its week need not have one. `DurationTexts`
  rests on `CascadeSplit`: the carry of fractions through days, hours and minutes
  loses nothing but the last rounding, and keeps the sign.

Only model-checked:

- `ImplementsCypher` and `ExactOutcome` for queries of several clauses that write:
  they need that statements which read nothing the others change may be exchanged,
  for every pair of forms of statement. `ExactOutcome` also for queries that rename
  what they match: there the older generator writes other statements than the
  compiler, with the alias for the name, which have the same outcomes.
- `OutputsAnswer`, what the proofs about `Drive` assume of the compiler: lowering
  and the compiler of expressions are recursive over the query, which keeps them
  from the prover.
- `QueryEnds` and `DriveEnds`: liveness under fairness.

## Not modelled

- *Write side*: relationships are directed and of one type; WITH passes or
  renames; no UNWIND, FOREACH or variable length; predicates that
  `push_predicate_parts` skips do not occur; a MATCH says nothing of the properties
  of relationships, a MERGE at most one, of a relationship with a name; DETACH
  DELETE names nodes; one OPTIONAL MATCH at most, and no later clause asks for
  what only it binds (the code writes one `OPTIONAL` block for each, where it
  stands, `write.rs` 799-806; `WhereParts` puts the one block last, which is then
  the same); the aliases of a WITH are new and pairwise different; ON MATCH
  of a relationship MERGE has literal values; the SELECT after a RETURN. Of the
  legacy generator: the values of an UNWIND, computed values in a CREATE,
  undirected MERGE, a WITH whose items rename one another (the code renames item
  by item, the model all at once), two mentions of a variable within one MATCH.
  Of `lqa_safe_reason`: a WITH that leaves a relationship out, and the reasons that
  need named paths or lengths.
- *Read side*: temporal and string functions inside a query, `collect` except
  where an emitter takes it, `nodes()` and `relationships()`, `keys()`, sums of
  aggregates, equality of paths, EXISTS with a whole subquery, the emitters at
  `lqa/sparql.rs` 9310-9818 and 10963-11130, the fallback's own answers.
- *Calendar*: years before 1 and with a sign, named zones inside a text, milli-
  and microseconds, rounding of f64, the IANA database.
- *Legacy query translator*: a second compiler of reading queries, as large as
  the first. A query that goes to it is followed no further.
- *Parsers, RDF mapping, target engines, difftest*: sequential code without state
  (the first three), and a test tool.

## Plan

1. *Done*: the write path of the LQA compiler and its refinement; the legacy
   generator and `cypher_to_sparql_update`.
2. *Done*: reading queries: lowering, SPARQL lowering, emitters, driver, mapping,
   and their refinement.
3. *Done*: the semantic checks; the calendar and the texts of temporal values.
4. The legacy query translator against `CypherRead`, on the queries of `MCRead`
   that LQA leaves to it.
5. The two emitters left, and paths as values (`nodes()`, `relationships()`).
6. Legacy write generator, the rest.
7. *Done*: the safety of both write paths, the outcome of queries of one write
   clause from either generator, the driver of reading queries over any compiler,
   the verdict of the checks, and the properties of `CalendarClock` and
   `ClockTexts`, proved. Left: queries of several write clauses.
