--------------------------- MODULE SymbolExtractor ---------------------------
(***************************************************************************)
(* extract_symbols: the symbols and the call edges of one file, from its   *)
(* syntax tree.  A tree is the sequence of its named nodes in preorder:    *)
(* the kind of a node, the name it defines or calls, and the number of     *)
(* its parent, 0 for the root.  A node's number stands for its line.       *)
(***************************************************************************)
EXTENDS Integers, Sequences, SequencesExt

Grammars == {"python", "javascript", "typescript", "tsx"}

IdOf(path, name, type) == <<path, name, type>>

\* Each node's proper ancestors.
Above(tree) ==
    LET up[n \in 0 .. Len(tree)] ==
            IF n = 0 THEN {} ELSE {tree[n].parent} \cup up[tree[n].parent]
    IN  up

Subtree(tree, n) == {n} \cup {m \in DOMAIN tree : n \in Above(tree)[m]}

\* The Python extractor visits the whole tree; what is defined anywhere in the body of
\* a class is a method of it, a class in it excepted.
PythonType(tree, n) ==
    LET inClass == \E a \in Above(tree)[n] \ {0} : tree[a].kind = "class" IN
    CASE tree[n].kind = "function" -> IF inClass THEN "method" ELSE "function"
      [] tree[n].kind = "class" -> "class"
      [] OTHER -> "none"

\* The other one goes by the kind of the node.  It takes the functions among the values
\* of a declaration for functions, and looks at nothing else below a declaration, an
\* interface or a type alias.
JsTsType(tree, n) ==
    LET parent == tree[n].parent
        hidden(a) == a # 0 /\ tree[a].kind \in {"declaration", "interface", "type"}
        visited(m) == \A a \in Above(tree)[m] : ~ hidden(a)
        declared == parent # 0 /\ tree[parent].kind = "declaration"
    IN  CASE tree[n].kind = "arrow" -> IF declared /\ visited(parent) THEN "function" ELSE "none"
          [] tree[n].kind \in {"function", "class", "method", "interface", "type"} ->
                IF visited(n) THEN tree[n].kind ELSE "none"
          [] OTHER -> "none"

TypeOf(tree, language, n) ==
    IF language = "python" THEN PythonType(tree, n) ELSE JsTsType(tree, n)

\* The lines of a symbol are those of its node, those of the whole declaration for a
\* declared function.
Lines(tree, n) ==
    LET node == IF tree[n].kind = "arrow" THEN tree[n].parent ELSE n
    IN  <<node, Max(Subtree(tree, node))>>

\* A call of a plain name, anywhere below a function, is an edge to a function of that
\* name in the same file, whether there is one or not.
CallsOf(tree, n) == {tree[c].name : c \in {m \in Subtree(tree, n) : tree[m].kind = "call"}}

\* Of an empty file, or one in another language, there are none.
Extract(path, tree, language) ==
    LET type(n) == TypeOf(tree, language, n)
        found(n) == language \in Grammars /\ type(n) # "none"
        defined == FlattenSeq([n \in DOMAIN tree |-> IF found(n) THEN <<n>> ELSE << >>])
        id(n) == IdOf(path, tree[n].name, type(n))
        callers == {n \in ToSet(defined) : type(n) \in {"function", "method"}}
    IN  [symbols |-> [i \in DOMAIN defined |->
                        [id |-> id(defined[i]), lines |-> Lines(tree, defined[i])]],
         edges |-> UNION {{<<id(n), IdOf(path, name, "function")>> : name \in CallsOf(tree, n)}
                            : n \in callers}]
=============================================================================
