--------------------------- MODULE ResultMapping ---------------------------
(***************************************************************************)
(* result_mapping/: the solutions of a SELECT become the rows of an answer *)
(* by the columns the compiler recorded.  Numbers and booleans keep their  *)
(* kind, every other term becomes the text of it; the text of a term is    *)
(* the term itself here.                                                   *)
(***************************************************************************)
EXTENDS CypherRead

Text(x) == <<"text", x>>

RdfTermToCypher(x) == IF x[1] \in {"int", "bool", "dec", "strlen", "text"} THEN x ELSE Text(x)

\* A relationship is shown as its type; one whose type was a variable of the
\* query, as the name of that variable.
MapColumn(col, solution) ==
  CASE col.kind = "relationship" -> Text(IF col.v[1] = "?" THEN col.v[2] ELSE col.v)
    [] col.kind # "relationship" /\ col.v \in DOMAIN solution -> RdfTermToCypher(solution[col.v])
    [] OTHER -> Null

\* A later column of the same name takes the place of an earlier one.
MapRow(cols, solution) ==
  [name \in {cols[i].name : i \in DOMAIN cols} |->
     MapColumn(cols[CHOOSE i \in DOMAIN cols :
                      cols[i].name = name /\ \A j \in DOMAIN cols : cols[j].name = name => j <= i], solution)]

MapResults(cols, solutions) == [i \in DOMAIN solutions |-> MapRow(cols, solutions[i])]

\* A row of Cypher's as the mapping is meant to show it.
ShownValue(x) ==
  CASE x[1] = "edge" -> Text(<<"type", x[2][2]>>)
    [] x[1] \in {"node", "list", "map", "str"} -> Text(x)
    [] OTHER -> x
Shown(row) == [name \in DOMAIN row |-> ShownValue(row[name])]
=============================================================================
