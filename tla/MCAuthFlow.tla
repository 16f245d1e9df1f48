----------------------------- MODULE MCAuthFlow -----------------------------
(* Instances of AuthFlow for TLC.                                          *)
EXTENDS AuthFlow

CONSTANT g1

\* A late update on etcd multiplies the states: one connector and one loop have
\* to do there.
MCConfigured ==
    [b \in Backends |-> IF b = "etcd" THEN PasswordConnectors ELSE Connectors]
MCRunning ==
    [b \in Backends |-> IF b = "etcd" THEN {g1} ELSE Collectors]

=============================================================================
