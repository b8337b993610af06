---------------------------- MODULE ReadSession ----------------------------
(***************************************************************************)
(* A caller asks this transpiler for a reading query and drives its output *)
(* (runtime.rs): Drive, whose constants a configuration gives the compiler *)
(* (Outputs, Continue), the store (Results), the result mapping            *)
(* (MapResults, Read) and the meaning of queries (Permitted, MayRefuse).   *)
(***************************************************************************)
EXTENDS ReadClaims, Drive

NoQuery == [arms |-> <<>>, all |-> <<>>]

\* What each query is compiled to.
Outputs == [q \in Requests |-> TryLqaPath(q)]

\* The caller looks the columns of RETURN up in each row.
Read(q, some) ==
  LET Cell(row, c) == IF c \in DOMAIN row THEN row[c] ELSE Null
  IN Bag([i \in DOMAIN some |-> [c \in Columns(Last(Clauses(q))) |-> Cell(some[i], c)]])
=============================================================================
