---------------------------- MODULE MCKeyRotation ----------------------------
(* Instances of KeyRotation for TLC.                                       *)
EXTENDS KeyRotation

CONSTANT s1

\* Every handler runs on server s1.
HandlersOnOne == [h \in Handlers |-> s1]

=============================================================================
