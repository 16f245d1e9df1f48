----------------------------- MODULE MCStorages -----------------------------
(* Storages for TLC: two callers; emails in two spellings; sessions and     *)
(* connectors whose IDs differ in case only, and the Kubernetes names of    *)
(* the sessions collide; one object of every other kind.                    *)
EXTENDS Storages, TLC

Symmetry == Permutations(Procs)

MCNames == {"a", "A"}

MCLowerCase == [a |-> "a", A |-> "a"]

MCSessionHash == [a |-> "a", A |-> "a"]

MCUsedNames ==
    [AuthRequest |-> {"a"}, AuthCode |-> {"a"}, RefreshToken |-> {"a"}, Keys |-> {"a"},
     Client |-> {"a"}, Connector |-> {"a", "A"}, Password |-> {"a", "A"},
     OfflineSessions |-> {"a", "A"}]

\* Kinds with two names have no late requests, nor have refresh tokens, which are
\* stored like clients.
MCMaxLate ==
    [k \in Kinds |-> IF k \in {"AuthRequest", "AuthCode", "Client", "Keys"} THEN 1 ELSE 0]

=============================================================================
