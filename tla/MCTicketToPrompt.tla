-------------------------- MODULE MCTicketToPrompt --------------------------
(***************************************************************************)
(* Five symbols in three files.  "a" has a full keyword score; "d" may be  *)
(* two edges away from it.  The new commit drops "b" and "c", moves "a"    *)
(* and "d", shortens the first file, empties the second and adds a third   *)
(* with "e", in a module of its own; the points of the first module make   *)
(* two batches.                                                            *)
(***************************************************************************)
EXTENDS TicketToPrompt

Symbols == {"a", "b", "c", "d", "e"}
Files == {"f", "g", "h"}
Commits == {"old", "new"}
FileOfSymbol == [s \in Symbols |-> CASE s = "c" -> "g" [] s = "e" -> "h" [] OTHER -> "f"]
\* "refund" is said too late to be a keyword, "the" is none.
Text == <<"the", "card", "invoice", "total", "invoice", "tax", "refund">>
Words == {"invoice", "total", "tax", "card", "refund"}
SymbolsOfWord == [w \in Words |->
    CASE w \in {"invoice", "total", "tax"} -> {"a"} [] w = "card" -> {"c"} [] OTHER -> {"b"}]
AgeOfFile == [f \in Files |-> IF f = "f" THEN -1 ELSE 30]
SymbolsOf == [v \in Commits |-> IF v = "old" THEN {"a", "b", "c", "d"} ELSE {"a", "d", "e"}]
LinesOfSymbol == [v \in Commits |->
    IF v = "old" THEN [s \in Symbols |-> CASE s = "a" -> <<1, 2>> [] s = "b" -> <<4, 9>>
                                           [] s = "c" -> <<2, 4>> [] OTHER -> <<10, 10>>]
    ELSE [s \in Symbols |-> IF s = "d" THEN <<1, 2>> ELSE <<3, 6>>]]
LinesOfFile == [v \in Commits |->
    IF v = "old" THEN [f \in Files |-> CASE f = "f" -> 10 [] f = "g" -> 5 [] f = "h" -> -1]
    ELSE [f \in Files |-> CASE f = "f" -> 6 [] f = "g" -> 0 [] f = "h" -> 7]]
Batches == << <<{"a"}, {"d"}>>, <<{"e"}>> >>
Scores == <<[s \in Symbols |-> CASE s = "a" -> 40 [] s = "b" -> 90 [] s = "c" -> 70
                                  [] s = "d" -> -10 [] s = "e" -> 50],
            [s \in Symbols |-> CASE s = "a" -> 98 [] s = "b" -> 97 [] s = "c" -> 30
                                  [] s = "d" -> 20 [] s = "e" -> 96]>>
Replies == {0, 2}

\* A chain, a call that the new commit keeps, a cycle, a call of itself with an edge both
\* ways, no calls.
OldCalls == {{<<"a", "b">>, <<"b", "d">>}, {<<"a", "d">>, <<"d", "b">>},
             {<<"a", "b">>, <<"b", "d">>, <<"d", "a">>},
             {<<"a", "b">>, <<"b", "a">>, <<"b", "b">>}, {}}
Input(t, old, new, k) ==
    [ticket |-> t, disk |-> k, edges |-> [v \in Commits |-> IF v = "old" THEN old ELSE new]]
\* The walks, without a clone on the disk; and the prompts, over one pair of graphs.
TicketInputs ==
    {Input(5, old, {<<"a", "d">>}, "none") : old \in OldCalls}
        \cup {Input(t, {<<"a", "b">>, <<"b", "d">>}, {<<"a", "d">>}, k) :
                 t \in {5, 200}, k \in Commits}
=============================================================================
