----------------------------- MODULE MCStartUp -----------------------------
(* StartUp on small instances.                                             *)
EXTENDS StartUp

MCResources == <<"other", "connectors">>
MCHost == [h \in Handlers |-> CHOOSE s \in Servers : TRUE]
\* What getConnector does is the same for all storages.
MCDriven == [b \in Backends |-> IF b = "etcd" THEN Handlers ELSE {}]
MCConfigs ==
    {{"issuer", "storage", "http"},
     {"issuer", "storage", "http", "passwordDB", "staticPasswords"},
     {"issuer", "storage", "http", "staticPasswords"}}
=============================================================================
