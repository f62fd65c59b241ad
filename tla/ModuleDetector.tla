--------------------------- MODULE ModuleDetector ---------------------------
(***************************************************************************)
(* Which files of a repository are indexed, and with which module.  A      *)
(* repository is the sequence of its files in the order of their paths: a  *)
(* file has a directory, a sequence of names, a base name and a suffix.    *)
(***************************************************************************)
EXTENDS Integers, Sequences, SequencesExt

CONSTANT Names  \* the names of directories, in the order they are sorted

DEFAULT_IGNORE_DIRS ==
    {"node_modules", "dist", "build", "vendor", "coverage", ".git", "__pycache__", ".venv", "venv",
     ".tox", ".mypy_cache", ".pytest_cache"}

\* The names detect_modules skips are fewer.
IGNORED_DIRS == {"node_modules", "vendor", ".git", "dist", "build", "__pycache__", ".venv", "venv"}

SERVICE_DIR_NAMES == {"services", "apps", "packages", "modules"}
MODULE_SIGNALS ==
    {"pyproject.toml", "package.json", "go.mod", "build.gradle", "Cargo.toml", "pom.xml"}

\* No suffix is both a language's and ignored: ".min.js", which is, is never a suffix.
Language ==
    [s \in {".py"} |-> "python"] @@ [s \in {".ts", ".tsx"} |-> "typescript"]
    @@ [s \in {".js", ".jsx"} |-> "javascript"] @@ [s \in {".c", ".h"} |-> "c"]
    @@ [s \in {".go"} |-> "go"] @@ [s \in {".java"} |-> "java"]

PathOf(file) == Append(file.dir, file.base)

ShouldIndexFile(path, suffix) ==
    /\ \A i \in DOMAIN path : path[i] \notin DEFAULT_IGNORE_DIRS
    /\ suffix \in DOMAIN Language

\* The paths tested are those below the root.
FilterFiles(files, root) ==
    LET kept(f) == /\ IsPrefix(root, f.dir)
                   /\ ShouldIndexFile(SubSeq(PathOf(f), Len(root) + 1, Len(f.dir) + 1), f.suffix)
    IN  FlattenSeq([i \in DOMAIN files |-> IF kept(files[i]) THEN <<files[i]>> ELSE << >>])

\* The directories in a directory, those with an ignored name left out.
ChildDirs(files, dir) ==
    LET kept(d) == d \notin IGNORED_DIRS /\ \E f \in ToSet(files) : IsPrefix(Append(dir, d), f.dir)
    IN  FlattenSeq([i \in DOMAIN Names |-> IF kept(Names[i]) THEN <<Names[i]>> ELSE << >>])

HasManifest(files, dir) == \E f \in ToSet(files) : f.dir = dir /\ f.base \in MODULE_SIGNALS

Module(path) == [name |-> Last(path), path |-> path]
Root == [name |-> "", path |-> << >>]

\* Fault: the search goes on in a service directory after it has tested it for a manifest.
FoundInAndBelow(files, entry) ==
    (IF HasManifest(files, <<entry>>) THEN <<Module(<<entry>>)>> ELSE << >>)
    \o IF entry \in SERVICE_DIR_NAMES
       THEN LET children == ChildDirs(files, <<entry>>)
            IN  [i \in DOMAIN children |-> Module(<<entry, children[i]>>)]
       ELSE << >>

\* Each directory in a service directory is a module; any other directory at the top is
\* one if it has a manifest.
FoundIn(files, entry) ==
    IF entry \in SERVICE_DIR_NAMES
    THEN LET children == ChildDirs(files, <<entry>>)
         IN  [i \in DOMAIN children |-> Module(<<entry, children[i]>>)]
    ELSE IF HasManifest(files, <<entry>>) THEN <<Module(<<entry>>)>> ELSE << >>

\* Fault: a repository without modules has none at all.
DetectWithoutRoot(files) ==
    LET top == ChildDirs(files, << >>)
    IN  FlattenSeq([i \in DOMAIN top |-> FoundIn(files, top[i])])

DetectModules(files) ==
    LET top == ChildDirs(files, << >>)
        found == FlattenSeq([i \in DOMAIN top |-> FoundIn(files, top[i])])
    IN  IF found = << >> THEN <<Root>> ELSE found

\* The module with the longest path above the file.
ClassifyFileToModule(path, modules) ==
    LET above == {m \in ToSet(modules) : IsPrefix(m.path, path)}
    IN  IF above = {} THEN ""
        ELSE (CHOOSE m \in above : \A o \in above : Len(o.path) =< Len(m.path)).name

\* The edges between symbols of modules with different names.
DetectCrossModuleDependencies(moduleOf, edges) ==
    {e \in edges : /\ {e[1], e[2]} \subseteq DOMAIN moduleOf
                   /\ moduleOf[e[1]] # moduleOf[e[2]]}
=============================================================================
