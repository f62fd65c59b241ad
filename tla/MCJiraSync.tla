----------------------------- MODULE MCJiraSync -----------------------------
(***************************************************************************)
(* Two syncs of two tickets, only one of which the database accepts: its   *)
(* second version moves the text behind the heading of the criteria.       *)
(***************************************************************************)
EXTENDS JiraSync

CONSTANTS t1, t2, s1, s2

VersionsOf == [t \in {t1, t2} |-> IF t = t1 THEN 2 ELSE 1]
Docs == [t \in {t1, t2} |-> IF t = t1 THEN << <<"text">>, <<"blank", "criteria", "text">> >>
                            ELSE << <<"text">> >>]
\* Bound: at most two of an edit, a crash, a failed attempt of either sync and a deletion.
FewFaults ==
    (jira[t1] - 1) + crashes + job[s1].retries + job[s2].retries
        + (IF project = "present" /\ ~ purged THEN 0 ELSE 1) =< 2
AnySync == Permutations({s1, s2})
=============================================================================
