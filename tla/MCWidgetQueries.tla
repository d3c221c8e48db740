-------------------------- MODULE MCWidgetQueries --------------------------
(***************************************************************************)
(* One slider with three values, few outputs.  The answer for the second   *)
(* value is empty, and the queries for the first and the third value have  *)
(* the same hash code.                                                     *)
(***************************************************************************)
EXTENDS WidgetQueries

CONSTANTS x, v1, v2, v3, h1, h2

FirstValue == [i \in {x} |-> v1]
SecondEmpty == {[i \in {x} |-> v2]}
OneCollision == [text \in [{x} -> {v1, v2, v3}] |-> IF text[x] = v2 THEN h2 ELSE h1]
=============================================================================
