------------------------------- MODULE MCScope -------------------------------
(* The clauses TLC builds queries from. *)
EXTENDS ScopeSession

MCNames == {"a", "b", "p"}

T(n, k, through) == [name |-> n, key |-> k, through |-> through]
Nm(n) == E("name", {T(n, "", {})}, {})
Prop(n) == E("property", {T(n, "k", {})}, {})
Lit == E("literal", {}, {})
Names2(m, n) == E("names", {T(m, "", {"list"}), T(n, "", {"list"})}, {})
Compare(m, n) == E("op", {T(m, "k", {"cmp"}), T(n, "k", {"cmp"})}, {})
Agg(through, nested) == [through |-> through, nested |-> nested]
Count(n) == E("agg", {T(n, "", {"agg"})}, {Agg({}, FALSE)})
CountCount == E("agg", {}, {Agg({}, TRUE)})
\* n.k + count(*)
Share(n) == E("op", {T(n, "k", {"arith"})}, {Agg({"arith"}, FALSE)})
Size(n) == E("call", {T(n, "", {"size"})}, {})
SizePlus(n) == E("op", {T(n, "", {"arith", "size"})}, {})
PathProp(n) == E("op", {T(n, "k", {"cmp"})}, {})
IsNull(n) == E("op", {T(n, "k", {"null"})}, {})
Not(n) == E("op", {T(n, "", {"not"})}, {})
\* (m)--(n)
Linked(m, n) == E("pattern", {T(m, "", {"pattern"}), T(n, "", {"pattern"})}, {})
Exists(m, n) == E("call", {T(m, "", {"fn", "pattern"}), T(n, "", {"fn", "pattern"})}, {})
Comprehension == E("comp", {}, {Agg({"comp"}, FALSE)})

Item(e, alias) == [expr |-> e, alias |-> alias]
Pattern(paths, nodes, rels, walks, twice, where) ==
  [op |-> "match", paths |-> paths, nodes |-> nodes, rels |-> rels, walks |-> walks, twice |-> twice, where |-> where]
Matches ==
  {Pattern({}, {}, {}, {}, {}, NoExpr), Pattern({}, {"a"}, {}, {}, {}, NoExpr), Pattern({}, {"a", "b"}, {}, {}, {}, Compare("a", "b")),
   Pattern({}, {"a"}, {"b"}, {}, {}, Nm("b")), Pattern({}, {}, {"b"}, {}, {}, Compare("a", "b")), Pattern({}, {}, {}, {"b"}, {}, NoExpr),
   Pattern({"p"}, {"a"}, {}, {}, {}, Not("a")), Pattern({"p"}, {"a", "b"}, {}, {}, {}, NoExpr), Pattern({"p"}, {}, {}, {}, {}, PathProp("p")),
   Pattern({"p"}, {}, {}, {}, {"path"}, NoExpr), Pattern({}, {}, {"a"}, {}, {"rel"}, NoExpr),
   Pattern({}, {"a", "b"}, {}, {}, {}, Linked("a", "p")), Pattern({}, {"a"}, {"a"}, {}, {}, NoExpr),
   Pattern({}, {"a"}, {}, {}, {}, Count("a")), Pattern({}, {"p"}, {}, {}, {}, NoExpr),
   Pattern({}, {}, {}, {"b"}, {}, Nm("b")), Pattern({}, {"a"}, {}, {}, {}, IsNull("p"))}

Projection(op, items, distinct, orderBy) ==
  [op |-> op, star |-> items = <<>>, items |-> items, distinct |-> distinct, orderBy |-> orderBy]
Withs ==
  {Projection("with", items, FALSE, {}) :
     items \in {<<>>, <<Item(Nm("a"), "")>>, <<Item(Nm("b"), "a")>>, <<Item(Nm("a"), "b"), Item(Nm("b"), "a")>>,
                <<Item(Lit, "a")>>, <<Item(Lit, "")>>, <<Item(Nm("a"), ""), Item(Lit, "")>>, <<Item(Prop("a"), "b"), Item(Nm("p"), "")>>,
                <<Item(Names2("a", "b"), "b"), Item(Nm("a"), "")>>, <<Item(Names2("b", "b"), "b"), Item(Nm("a"), "p")>>,
                <<Item(Linked("a", "b"), "p")>>, <<Item(CountCount, "a")>>, <<Item(Nm("a"), "b"), Item(Nm("b"), "b")>>}}
  \cup {Projection("with", <<Item(Nm("a"), "")>>, FALSE, {e}) : e \in {Prop("b"), Count("a")}}
  \cup {Projection("with", <<Item(Nm("a"), ""), Item(Count("b"), "b")>>, FALSE, {e}) :
          e \in {Prop("a"), Prop("p"), Count("b"), Count("a"), Share("a"), Nm("b")}}
  \cup {Projection("with", <<Item(Share("a"), "b")>>, FALSE, {})}
Returns ==
  {Projection("return", items, FALSE, {}) :
     items \in {<<>>, <<Item(Nm("a"), "")>>, <<Item(Prop("b"), "a")>>, <<Item(Size("p"), "a")>>, <<Item(SizePlus("p"), "a")>>, <<Item(Exists("a", "b"), "a")>>, <<Item(CountCount, "a")>>,
                <<Item(Prop("a"), ""), Item(Share("a"), "b")>>, <<Item(Share("a"), "b")>>, <<Item(Linked("a", "b"), "b")>>,
                <<Item(Comprehension, "a")>>, <<Item(Nm("b"), "b")>>}}
  \cup {Projection("return", <<Item(Nm("a"), "")>>, distinct, {e}) :
          distinct \in BOOLEAN, e \in {Prop("a"), Prop("b"), Count("a")}}
Element(rel, n, extra, alone, uses, types, both, range, null) ==
  [rel |-> rel, name |-> n, extra |-> extra, alone |-> alone, uses |-> uses, types |-> types, both |-> both,
   range |-> range, null |-> null]
Node(n) == Element(FALSE, n, FALSE, FALSE, NoExpr, 0, FALSE, FALSE, FALSE)
Link(n, types, both, range) == Element(TRUE, n, FALSE, FALSE, NoExpr, types, both, range, FALSE)
Shapes ==
  {<<Element(FALSE, "a", FALSE, TRUE, NoExpr, 0, FALSE, FALSE, FALSE)>>,
   <<Element(FALSE, "b", TRUE, TRUE, Prop("a"), 0, FALSE, FALSE, FALSE)>>,
   <<Element(FALSE, "a", TRUE, TRUE, NoExpr, 0, FALSE, FALSE, TRUE)>>,
   <<Node("a"), Link("", 1, FALSE, FALSE), Node("b")>>, <<Node("a"), Link("b", 1, FALSE, FALSE), Node("")>>,
   <<Node("a"), Link("b", 1, TRUE, FALSE), Node("")>>, <<Node("a"), Link("b", 2, FALSE, FALSE), Node("")>>,
   <<Node("a"), Link("", 1, FALSE, TRUE), Node("a")>>,
   <<Node("a"), Link("", 1, FALSE, FALSE), Element(FALSE, "a", TRUE, FALSE, NoExpr, 0, FALSE, FALSE, FALSE)>>,
   <<Node("b"), Link("b", 1, FALSE, FALSE), Node("a")>>}
SetItem(form, n, e) == [form |-> form, name |-> n, value |-> e]
Creates == {[op |-> "create", elems |-> x, paths |-> p] : x \in Shapes, p \in {{}, {"p"}}}
Merges ==
  {[op |-> "merge", elems |-> x, paths |-> p, sets |-> {}] : x \in Shapes, p \in {{}, {"p"}}}
  \cup {[op |-> "merge", elems |-> <<Node("a"), Link("b", 1, FALSE, FALSE), Node("")>>, paths |-> {}, sets |-> {i}] :
          i \in {SetItem("property", "b", Prop("a")), SetItem("property", "a", Prop("p")), SetItem("label", "p", NoExpr)}}
Sets ==
  {[op |-> "set", items |-> {i}] :
     i \in {SetItem("property", "a", Prop("b")), SetItem("property", "a", E("map", {}, {})),
            SetItem("property", "a", E("call", {T("a", "", {"fn", "pattern"})}, {})), SetItem("replace", "a", Nm("b")), SetItem("merge", "a", Nm("b"))}}
Deletes == {[op |-> "delete", exprs |-> {e}] : e \in {Nm("a"), Lit, E("label", {T("a", "", {"label"})}, {})}}

MCClauses ==
  Matches \cup Withs \cup Returns \cup Creates \cup Merges \cup Sets \cup Deletes
  \cup {[op |-> "unwind", name |-> n] : n \in {"a", "b"}}
  \cup {[op |-> "call", yields |-> {"p"}]} \cup {[op |-> "union", all |-> x] : x \in BOOLEAN}
=============================================================================
