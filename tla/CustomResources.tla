-------------------------- MODULE CustomResources --------------------------
(***************************************************************************)
(* The custom resources of the Kubernetes storage                          *)
(* (storage/kubernetes/storage.go): opening the storage tries to create    *)
(* all of them once; when one cannot be created, a goroutine tries again   *)
(* while the process goes on.  Every process does so, against one API      *)
(* server, which makes a created resource available a while later.         *)
(***************************************************************************)
EXTENDS ServerProcess

CONSTANT Resources   \* the resources, in the order in which they are created

ASSUME ResourcesAssumption == Resources \in Seq(STRING)

VARIABLES registered,    \* the resources that exist
          established,   \* those the API server serves
          registering    \* per process: the resource it creates next (0: it
                         \* creates none), and whether the round went well

resourceVars == <<registered, established, registering>>

NotRegistering == [next |-> 0, ok |-> TRUE]

ResourcesInit ==
    /\ registered = {}
    /\ established = {}
    /\ registering = [s \in Servers |-> NotRegistering]

ResourcesTypeOK ==
    registering \in [Servers -> [next : 0 .. Len(Resources) + 1, ok : BOOLEAN]]

\* Open calls registerCustomResources.
StartRegistering(s) ==
    /\ backend = "kubernetes" /\ stage[s] = "opening"
    /\ registering[s].next = 0
    /\ registering' = [registering EXCEPT ![s] = [next |-> 1, ok |-> TRUE]]
    /\ UNCHANGED <<processVars, registered, established>>

\* Mutant: a resource that exists is an error.
postResourceStrict(s) ==
    /\ registering[s].next \in DOMAIN Resources
    /\ registering' = [registering EXCEPT ![s] =
           [next |-> @.next + 1, ok |-> @.ok /\ Resources[@.next] \notin registered]]
    /\ registered' = registered \cup {Resources[registering[s].next]}
    /\ UNCHANGED <<processVars, established>>

\* A resource is created, or exists already, which is as good.
postResource(s) ==
    /\ registering[s].next \in DOMAIN Resources
    /\ registering' = [registering EXCEPT ![s] = [next |-> @.next + 1, ok |-> @.ok]]
    /\ registered' = registered \cup {Resources[registering[s].next]}
    /\ UNCHANGED <<processVars, established>>

\* A resource cannot be created, or the answer is lost: the loop goes on with
\* the next one.
postResourceFails(s) ==
    /\ registering[s].next \in DOMAIN Resources
    /\ Failure
    /\ registering' = [registering EXCEPT ![s] = [next |-> @.next + 1, ok |-> FALSE]]
    /\ registered' \in {registered, registered \cup {Resources[registering[s].next]}}
    /\ UNCHANGED <<backend, config, stage, established>>

\* The end of a round.  Open returns after the first one whatever came of it;
\* after a round that failed the goroutine begins another.
EndOfRound(s) ==
    /\ registering[s].next = Len(Resources) + 1
    /\ registering' = [registering EXCEPT ![s] =
           IF @.ok THEN NotRegistering ELSE [next |-> 1, ok |-> TRUE]]
    /\ To(s, IF stage[s] = "opening" THEN "opened" ELSE stage[s])
    /\ UNCHANGED <<backend, config, stops, registered, established>>

registerCustomResources(s) ==
    \/ StartRegistering(s)
    \/ postResource(s)
    \/ EndOfRound(s)

\* The API server begins to serve a resource.
Establish(r) ==
    /\ r \in registered \ established
    /\ established' = established \cup {r}
    /\ UNCHANGED <<processVars, registered, registering>>
=============================================================================
