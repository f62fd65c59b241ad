------------------------- MODULE MCRepositoryIndex -------------------------
(* Instances of RepositoryIndex for TLC. *)
EXTENDS RepositoryIndex, TLC

CONSTANTS p1, p2, f1, f2

\* Two commits, of which the second drops a file of the first.
TwoVersions == {1, 2}
ContentShrink == [v \in Version |-> IF v = 1 THEN {f1, f2} ELSE {f2}]

\* One module for every file, or one module for each.
OneModule == [f \in File |-> CHOOSE m \in Module : TRUE]
FileModules == [f \in File |-> f]

\* Slugs of their own, or two organizations that chose the same one; every project
\* in one collection group.
OwnSlug == [p \in Project |-> p]
SameSlug == [p \in Project |-> p1]
SharedCollection == [p \in Project |-> p1]

\* Every task indexes p1, or each project has a task.
AllForP1 == [t \in Task |-> p1]
OneEach == CHOOSE g \in [Task -> Project] : \A p \in Project : \E t \in Task : g[t] = p

ProcessSymmetry == Permutations(Worker) \cup Permutations(Task)
============================================================================
