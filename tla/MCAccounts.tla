---------------------------- MODULE MCAccounts ----------------------------
(* Instances of Accounts for TLC: clients, users and organizations are interchangeable. *)
EXTENDS Accounts, TLC

\* Bound: rows that nothing but their own handlers reads.
FewRows ==
    /\ Cardinality(teams) + Cardinality(keys) =< 1
    /\ Cardinality(teamMembers) =< 1

Interchangeable == Permutations(Client) \cup Permutations(User) \cup Permutations(Org)
============================================================================
