--------------------------- MODULE ServerProcess ---------------------------
(***************************************************************************)
(* The life of the server processes that share one storage: what serve     *)
(* (cmd/dex/serve.go) does before it listens, in the order in which it     *)
(* does it.  A process stops when a step of its start-up fails, when it    *)
(* crashes or when it is shut down; the environment starts it again.       *)
(*                                                                         *)
(* The stages of a process:                                                *)
(*   down      not running                                                 *)
(*   opening   the configuration is accepted, the storage is being opened  *)
(*   opened    the storage is open                                         *)
(*   listed    the connectors were listed and are being opened             *)
(*   serving   NewServer returned, the process answers requests            *)
(*   failed    serve returns an error, the process is about to end         *)
(***************************************************************************)
EXTENDS Integers, Sequences, FiniteSets

CONSTANTS Servers,   \* the processes
          Configs,   \* configuration files, each the set of what it specifies
          MaxStops   \* bound on crashes, shut-downs and failing calls

ASSUME ServersAssumption == MaxStops \in Nat

VARIABLES backend,   \* the type of the storage
          config,    \* the configuration of the processes
          stage,     \* how far each process is
          stops      \* crashes, shut-downs and failed calls so far

processVars == <<backend, config, stage, stops>>

Stages == {"down", "opening", "opened", "listed", "serving", "failed"}

ProcessTypeOK ==
    /\ stage \in [Servers -> Stages]
    /\ stops \in Nat

\* The fast checks of serve, and the parsing of the storage's type.
Valid(c) ==
    /\ "issuer" \in c
    /\ "staticPasswords" \in c => "passwordDB" \in c
    /\ "storage" \in c
    /\ "http" \in c \/ "https" \in c
    /\ "https" \in c => {"tlsCert", "tlsKey"} \subseteq c
    /\ c \cap {"grpcCert", "grpcKey"} # {} => {"grpcAddr", "grpcCert", "grpcKey"} \subseteq c
    /\ "grpcCA" \in c => "grpcCert" \in c

To(s, st) == stage' = [stage EXCEPT ![s] = st]

\* A call to something outside of the process fails, or the process ends.
Failure == stops < MaxStops /\ stops' = stops + 1
=============================================================================
