------------------------- MODULE MCIncrementalIndex -------------------------
(***************************************************************************)
(* Three commits of two files: the second adds and changes a module, the   *)
(* third moves a file and turns another into a link.                       *)
(***************************************************************************)
EXTENDS IncrementalIndex

CONSTANTS f1, f2, f3, absent, v1, v2, link

Commits == << [f \in {f1, f2, f3} |-> IF f = f1 THEN v1 ELSE absent],
              [f \in {f1, f2, f3} |-> IF f = f3 THEN absent ELSE v2],
              [f \in {f1, f2, f3} |-> CASE f = f1 -> link [] f = f2 -> absent [] OTHER -> v2] >>
=============================================================================
