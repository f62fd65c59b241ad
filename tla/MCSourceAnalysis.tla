-------------------------- MODULE MCSourceAnalysis --------------------------
(***************************************************************************)
(* Two layouts, one without modules and one with five, three of them with  *)
(* files: in each, one Python file has any tree of up to three nodes and   *)
(* the other files one of a few.                                           *)
(***************************************************************************)
EXTENDS SourceAnalysis

SortedNames == <<"apps", "build", "coverage", "libs", "pay", "services", "ship", "src">>

Node(kind, name, parent) == [kind |-> kind, name |-> name, parent |-> parent]
FileOf(dir, base, suffix, tree) ==
    [dir |-> dir, base |-> base, suffix |-> suffix, tree |-> tree, fails |-> FALSE]
Failing(file) == [file EXCEPT !.fails = TRUE]

Nodes(below) == [kind : {"function", "class", "call"}, name : {"a", "b"}, parent : 0 .. below]
PythonTrees ==
    {<< >>} \cup {<<x>> : x \in Nodes(0)} \cup (Nodes(0) \X Nodes(1))
    \cup (Nodes(0) \X Nodes(1) \X Nodes(2))
InPreorder(tree) ==
    \A n \in DOMAIN tree : n = 1 \/ tree[n].parent \in {n - 1} \cup Above(tree)[n - 1]

\* const a = () => { b() }, b = () => { function c() {} };  interface a;  function b() { a() }
Declarations ==
    << Node("declaration", "", 0), Node("arrow", "a", 1), Node("call", "b", 2),
       Node("arrow", "b", 1), Node("function", "c", 4), Node("interface", "a", 0),
       Node("function", "b", 0), Node("call", "a", 7) >>
\* class a { b() { a() } b() {} }  f(() => { function a() { b() } })
Classes ==
    << Node("class", "a", 0), Node("method", "b", 1), Node("call", "a", 2), Node("method", "b", 1),
       Node("call", "f", 0), Node("arrow", "", 5), Node("function", "a", 6), Node("call", "b", 7) >>
\* type a;  function a() { b() }  function b() {}
Functions ==
    << Node("type", "a", 0), Node("function", "a", 0), Node("call", "b", 2), Node("function", "b", 0) >>

Flat(python, js) ==
    << FileOf(<<"build">>, "x.py", ".py", <<Node("function", "a", 0)>>),
       FileOf(<<"src">>, "a.py", ".py", python),
       FileOf(<<"src">>, "b.js", ".js", js),
       FileOf(<<"src">>, "c.go", ".go", <<Node("function", "a", 0)>>),
       FileOf(<<"src">>, "README", "", << >>) >>

Monorepo(python, js) ==
    << FileOf(<<"apps", "coverage">>, "x.ts", ".ts", Functions),
       FileOf(<<"apps", "pay", "build">>, "x.py", ".py", <<Node("class", "a", 0)>>),
       FileOf(<<"libs", "pay">>, "c.py", ".py", <<Node("function", "b", 0)>>),
       FileOf(<<"libs">>, "pyproject.toml", ".toml", << >>),
       FileOf(<<"services">>, "package.json", ".json", << >>),
       FileOf(<<"services", "pay">>, "a.py", ".py", python),
       FileOf(<<"services", "ship">>, "b.js", ".js", js),
       FileOf(<<"src">>, "c.py", ".py", <<Node("function", "a", 0)>>) >>

AnyRepository ==
    {Flat(p, j) : p \in {t \in PythonTrees : InPreorder(t)}, j \in {Declarations, Classes, Functions}}
    \cup {Monorepo(p, j) : p \in {t \in PythonTrees : InPreorder(t)}, j \in {Classes, Functions}}
    \cup {[Flat(p, Functions) EXCEPT ![3] = Failing(@)] : p \in {<< >>, <<Node("class", "a", 0)>>}}

\* Two classes with a method of the same name.
Twins ==
    {Flat(<< Node("class", "a", 0), Node("function", "f", 1),
             Node("class", "b", 0), Node("function", "f", 3) >>, Functions)}

\* A function of services/pay calls one that only services/ship has; in the second
\* repository its own file has one as well.
Ships == <<Node("function", "h", 0)>>
CallingModules ==
    {Monorepo(<<Node("function", "g", 0), Node("call", "h", 1)>>, Ships),
     Monorepo(<<Node("function", "g", 0), Node("call", "h", 1), Node("function", "h", 0)>>, Ships)}
=============================================================================
