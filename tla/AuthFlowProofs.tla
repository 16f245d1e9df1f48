---------------------------- MODULE AuthFlowProofs ----------------------------
(***************************************************************************)
(* Proofs about the login flow, for any requests, handlers, collectors,    *)
(* connectors and lifetimes: its types, at most one response per           *)
(* authorization request, that only what has expired is collected, and     *)
(* which connectors a code names.                                          *)
(***************************************************************************)
EXTENDS AuthFlow, TLAPS

\* Leaves are for Zenon, unless they cite SMT.
USE Zenon

-----------------------------------------------------------------------------
(* The invariant.                                                          *)

\* Keys that an object can be stored under: of requests that were made, and the
\* empty one, under which etcd puts what finalizeLogin writes by the ID of a
\* request that was brought back.
Given == made \cup {Empty}

StoreTypes ==
    /\ stored \subseteq Keys
    /\ reqs \in [Keys -> AuthRequest]
    /\ \A a \in Keys \ stored : reqs[a] = ZeroAuthRequest

\* A stored request has its own key as its ID or has lost it; what an update
\* has brought back has the zero expiry.
Recorded ==
    /\ stored \subseteq Given
    /\ reqs[Empty].expiry = 0
    /\ \A a \in Keys : reqs[a].id \in {a, Empty}
    /\ ~Upsert => \A a \in stored : a # Empty /\ reqs[a].id = a

\* Handlers work on requests that were made; those that go on to a connector
\* have one.
JobsAreGiven ==
    \A h \in Handlers :
        /\ pc[h] # "idle" => job[h].key \in Given /\ job[h].id \in Given
        /\ pc[h] \in {"setConnector", "login"} => job[h].conn \in Connectors

\* What a collection has listed is expired still, or gone.
ListedHaveExpired ==
    /\ now >= 1
    /\ \A g \in Collectors :
          /\ gc[g].at <= now
          /\ \A x \in gc[g].reqs : x.id \in Given /\ now > reqs[x.id].expiry
          /\ \A k \in gc[g].codes : now > k.expiry

Responding(h, a) == pc[h] = "respond" /\ job[h].id = a

\* The right to answer a request is with the storage first, then with the one
\* handler whose DeleteAuthRequest succeeded, and then used up.
RightToAnswer ==
    ~Upsert =>
        /\ \A a \in Keys :
              /\ responses[a] <= 1
              /\ responses[a] # 0 => a \in Given /\ a \notin stored
        /\ \A h \in Handlers, a \in Keys : Responding(h, a) =>
              /\ a \notin stored /\ responses[a] = 0
              /\ \A k \in Handlers : Responding(k, a) => k = h

IInv == TypeOK /\ Recorded /\ JobsAreGiven /\ ListedHaveExpired /\ RightToAnswer

\* At first nothing is stored and nothing is in progress.
LEMMA InitInv == Init => IInv
<1> SUFFICES ASSUME Init PROVE IInv
  OBVIOUS
<1>1. TypeOK
  BY AuthFlowAssumption, SMT
  DEF Init, TypeOK, Keys, AuthRequest, ZeroAuthRequest, ConnectorID, Job, NoJob, Collection,
      NoCollection
<1>2. Recorded
  BY DEF Init, Recorded, Keys, ZeroAuthRequest
<1>3. JobsAreGiven /\ ListedHaveExpired
  BY SMT DEF Init, JobsAreGiven, ListedHaveExpired, NoCollection
<1>4. RightToAnswer
  BY SMT DEF Init, RightToAnswer, Responding
<1> QED
  BY <1>1, <1>2, <1>3, <1>4 DEF IInv

-----------------------------------------------------------------------------
(* What the storage calls do.                                              *)

\* Expiries do not change while a request is stored, and no request that is not
\* stored has one.
SameExpiries == \A a \in Keys : reqs'[a].expiry \in {reqs[a].expiry, 0}

\* UpdateAuthRequest changes the connector or the claims of one request; only
\* etcd stores what was not stored.
LEMMA UpdateKeeps ==
    ASSUME IInv, NEW a \in Given, NEW c \in ConnectorID, NEW u,
           u = [reqs[a] EXCEPT !.conn = c] \/ u = [reqs[a] EXCEPT !.claims = c],
           UpdateAuthRequest(a, u), UNCHANGED <<backend, made>>
    PROVE  StoreTypes' /\ Recorded' /\ SameExpiries /\ (~Upsert => stored' = stored)
<1>1. a \in Keys /\ made \subseteq AuthReqs /\ reqs \in [Keys -> AuthRequest]
      /\ reqs[a] \in AuthRequest
  BY DEF IInv, TypeOK, Given, Keys
<1>2. u \in AuthRequest /\ u.id = reqs[a].id /\ u.expiry = reqs[a].expiry
  BY <1>1 DEF AuthRequest
<1>3. StoreTypes'
  BY <1>1, <1>2 DEF IInv, TypeOK, StoreTypes, UpdateAuthRequest
<1>4. SameExpiries
  BY <1>1, <1>2 DEF SameExpiries, UpdateAuthRequest
<1>5. ~Upsert => stored' = stored
  BY DEF UpdateAuthRequest, Found
<1>6. Recorded'
  <2>1. \A b \in Keys : reqs'[b].id = reqs[b].id /\ reqs'[b].expiry = reqs[b].expiry
    BY <1>1, <1>2 DEF UpdateAuthRequest
  <2>2. stored' \subseteq stored \cup {a}
    BY DEF UpdateAuthRequest
  <2>3. Empty \in Keys /\ Upsert' = Upsert /\ Given' = Given
    BY DEF Keys, Upsert, Given
  <2>4. stored \subseteq Keys
    BY DEF IInv, TypeOK
  <2> QED
    BY <1>5, <2>1, <2>2, <2>3, <2>4 DEF IInv, Recorded
<1> QED
  BY <1>3, <1>4, <1>5, <1>6

\* Delete removes requests and leaves the others alone.
LEMMA DeleteKeeps ==
    ASSUME IInv, NEW S \in SUBSET Keys, Delete(S), UNCHANGED <<backend, made>>
    PROVE  StoreTypes' /\ Recorded' /\ SameExpiries /\ stored' = stored \ S
<1>1. ZeroAuthRequest \in AuthRequest /\ ZeroAuthRequest.id = Empty
      /\ ZeroAuthRequest.expiry = 0
  BY DEF ZeroAuthRequest, AuthRequest, Keys, ConnectorID
<1>2. stored \subseteq Keys /\ reqs \in [Keys -> AuthRequest]
      /\ \A a \in Keys \ stored : reqs[a] = ZeroAuthRequest
  BY DEF IInv, TypeOK
<1>3. /\ stored' = stored \ S /\ reqs' \in [Keys -> AuthRequest]
      /\ \A a \in Keys : reqs'[a] = IF a \in S THEN ZeroAuthRequest ELSE reqs[a]
  BY <1>1, <1>2 DEF Delete
<1>4. StoreTypes'
  BY <1>2, <1>3 DEF StoreTypes
<1>5. SameExpiries
  BY <1>1, <1>3 DEF SameExpiries
<1>6. Recorded'
  <2>1. Empty \in Keys /\ Upsert' = Upsert /\ Given' = Given
    BY DEF Keys, Upsert, Given
  <2> QED
    BY <1>1, <1>2, <1>3, <2>1 DEF IInv, Recorded
<1> QED
  BY <1>3, <1>4, <1>5, <1>6

-----------------------------------------------------------------------------
(* Steps of handlers.                                                      *)

Places == {"idle", "setConnector", "login", "finalize", "delete", "respond"}

\* What a collection has listed stays expired as long as no request is made anew.
LEMMA ListedStay ==
    ASSUME IInv, SameExpiries, UNCHANGED <<now, gc>>, made \subseteq made'
    PROVE  ListedHaveExpired'
<1>1. /\ now \in Nat /\ now >= 1 /\ reqs \in [Keys -> AuthRequest] /\ made \subseteq AuthReqs
      /\ gc \in [Collectors -> Collection]
  BY DEF IInv, TypeOK, ListedHaveExpired
<1> SUFFICES ASSUME NEW g \in Collectors, NEW x \in gc[g].reqs
             PROVE  x.id \in Given' /\ now > reqs'[x.id].expiry
  BY <1>1 DEF IInv, ListedHaveExpired
<1>2. x.id \in Given /\ now > reqs[x.id].expiry
  BY DEF IInv, ListedHaveExpired
<1>3. x.id \in Keys
  BY <1>1, <1>2 DEF Given, Keys
<1> QED
  BY <1>1, <1>2, <1>3, SMT DEF SameExpiries, Given

\* A handler that goes on or ends, with an effect on the storage.
LEMMA HandlerFrame ==
    ASSUME IInv, NEW h \in Handlers, NEW next \in Places, pc[h] # "idle", Goto(h, next),
           next = "login" => pc[h] = "setConnector", next # "setConnector",
           StoreTypes', Recorded', SameExpiries,
           codes' \subseteq AuthCode, chosen' \subseteq Keys \X Connectors,
           responses' \in [Keys -> Nat], UNCHANGED <<backend, now, gc, made, faults>>
    PROVE  TypeOK' /\ Recorded' /\ JobsAreGiven' /\ ListedHaveExpired'
<1>1. pc \in [Handlers -> Places] /\ job \in [Handlers -> Job]
  BY DEF IInv, TypeOK, Places
<1>2. NoJob \in Job
  BY DEF NoJob, Job, Keys, ConnectorID
<1>3. pc' \in [Handlers -> Places] /\ job' \in [Handlers -> Job]
  BY <1>1, <1>2 DEF Goto
<1>4. TypeOK'
  BY <1>3 DEF IInv, TypeOK, StoreTypes, Places
<1>5. JobsAreGiven'
  <2> SUFFICES ASSUME NEW k \in Handlers
               PROVE  /\ pc'[k] # "idle" => job'[k].key \in Given /\ job'[k].id \in Given
                      /\ pc'[k] \in {"setConnector", "login"} => job'[k].conn \in Connectors
    BY DEF JobsAreGiven, Given
  <2>1. pc'[k] # "idle" => job'[k] = job[k]
    BY <1>1 DEF Goto
  <2>2. k # h => pc'[k] = pc[k]
    BY <1>1 DEF Goto
  <2>3. pc'[h] = next
    BY <1>1 DEF Goto
  <2> QED
    BY <2>1, <2>2, <2>3 DEF IInv, JobsAreGiven, Places
<1>6. ListedHaveExpired'
  BY ListedStay
<1> QED
  BY <1>4, <1>5, <1>6

\* Nobody gets the right to answer, and nobody uses it.
LEMMA RightFrame ==
    ASSUME IInv, UNCHANGED <<backend, responses>>, ~Upsert => stored' \subseteq stored,
           made \subseteq made',
           \A h \in Handlers, a \in Keys : Responding(h, a)' => Responding(h, a)
    PROVE  RightToAnswer'
<1> SUFFICES ASSUME ~Upsert PROVE RightToAnswer'
  BY DEF RightToAnswer, Upsert
<1>1. \A a \in Keys : responses'[a] <= 1 /\ (responses'[a] # 0 => a \in Given' /\ a \notin stored')
  BY DEF IInv, RightToAnswer, Given
<1>2. ASSUME NEW h \in Handlers, NEW a \in Keys, Responding(h, a)'
      PROVE  /\ a \notin stored' /\ responses'[a] = 0
             /\ \A k \in Handlers : Responding(k, a)' => k = h
  BY <1>2 DEF IInv, RightToAnswer
<1> QED
  BY <1>1, <1>2 DEF RightToAnswer

\* A handler that does not get to answering.
LEMMA NotResponding ==
    ASSUME IInv, NEW h \in Handlers, NEW next \in Places \ {"respond"}, Goto(h, next)
    PROVE  \A k \in Handlers, a \in Keys : Responding(k, a)' => Responding(k, a)
<1>1. pc \in [Handlers -> Places] /\ job \in [Handlers -> Job]
  BY DEF IInv, TypeOK, Places
<1>2. \A k \in Handlers : pc'[k] = "respond" => k # h /\ pc'[k] = pc[k] /\ job'[k] = job[k]
  BY <1>1 DEF Goto
<1> QED
  BY <1>2 DEF Responding

\* An ID is given once: nobody works on the request, lists it or has answered it.
LEMMA HandleAuthorizationInv ==
    ASSUME IInv, NEW a \in AuthReqs, HandleAuthorization(a)
    PROVE  IInv'
<1>1. a \in Keys /\ a # Empty /\ a \notin Given /\ a \notin stored
  BY AuthFlowAssumption DEF HandleAuthorization, Given, Keys, IInv, Recorded
<1>2. /\ reqs \in [Keys -> AuthRequest] /\ now \in Nat /\ made \subseteq AuthReqs
      /\ stored \subseteq Keys
  BY DEF IInv, TypeOK
<1>3. PICK r : r = [ZeroAuthRequest EXCEPT !.id = a, !.expiry = now + ReqValidFor]
  OBVIOUS
<1>4. r \in AuthRequest /\ r.id = a
  <2>1. now + ReqValidFor \in Nat
    BY <1>2, AuthFlowAssumption, SMT
  <2>2. r = [id |-> a, conn |-> None, claims |-> None, expiry |-> now + ReqValidFor]
    BY <1>3 DEF ZeroAuthRequest
  <2> QED
    BY <1>1, <2>1, <2>2 DEF AuthRequest, ConnectorID
<1>5. /\ stored' = stored \cup {a} /\ made' = made \cup {a} /\ Given' = Given \cup {a}
      /\ reqs' = [reqs EXCEPT ![a] = r]
      /\ UNCHANGED <<backend, now, codes, pc, job, chosen, gc, responses, faults>>
  BY <1>3 DEF HandleAuthorization, Given
<1>6. /\ reqs' \in [Keys -> AuthRequest] /\ reqs'[a] = r
      /\ \A b \in Keys \ {a} : reqs'[b] = reqs[b]
  BY <1>1, <1>2, <1>4, <1>5
<1>7. TypeOK'
  BY <1>1, <1>5, <1>6 DEF IInv, TypeOK
<1>8. Recorded'
  <2>1. Empty \in Keys /\ Upsert' = Upsert
    BY <1>5 DEF Keys, Upsert
  <2> QED
    BY <1>1, <1>2, <1>4, <1>5, <1>6, <2>1 DEF IInv, Recorded
<1>9. JobsAreGiven'
  BY <1>5 DEF IInv, JobsAreGiven
<1>10. ListedHaveExpired'
  <2> SUFFICES ASSUME NEW g \in Collectors, NEW x \in gc[g].reqs
               PROVE  x.id \in Given' /\ now > reqs'[x.id].expiry
    BY <1>5 DEF IInv, ListedHaveExpired
  <2>1. x.id \in Given /\ now > reqs[x.id].expiry
    BY DEF IInv, ListedHaveExpired
  <2>2. x.id \in Keys \ {a}
    BY <1>1, <1>2, <2>1 DEF Given, Keys
  <2> QED
    BY <1>5, <1>6, <2>1, <2>2
<1>11. RightToAnswer'
  <2> SUFFICES ASSUME ~Upsert PROVE RightToAnswer'
    BY <1>5 DEF RightToAnswer, Upsert
  <2>1. responses[a] = 0
    BY <1>1 DEF IInv, RightToAnswer
  <2>2. \A h \in Handlers : ~Responding(h, a)
    BY <1>1 DEF IInv, JobsAreGiven, Responding
  <2>3. \A h \in Handlers, b \in Keys : Responding(h, b)' = Responding(h, b)
    BY <1>5 DEF Responding
  <2> QED
    BY <1>5, <2>1, <2>2, <2>3 DEF IInv, RightToAnswer
<1> QED
  BY <1>7, <1>8, <1>9, <1>10, <1>11 DEF IInv

\* A handler takes a copy of a request.
LEMMA GetInv ==
    ASSUME IInv, NEW h \in Handlers, NEW a \in Keys, NEW conn \in ConnectorID,
           NEW claims \in ConnectorID, NEW next \in {"setConnector", "login", "finalize", "delete"},
           next \in {"setConnector", "login"} => conn \in Connectors,
           Get(h, a, conn, claims, next), chosen' \subseteq Keys \X Connectors
    PROVE  IInv'
<1>1. /\ pc \in [Handlers -> Places] /\ job \in [Handlers -> Job]
      /\ reqs[a] \in AuthRequest
  BY DEF IInv, TypeOK, Places
<1>2. PICK j : j = [key |-> a, id |-> reqs[a].id, conn |-> conn, claims |-> claims]
  OBVIOUS
<1>3. j \in Job /\ j.key = a /\ j.id = reqs[a].id /\ j.conn = conn
  BY <1>1, <1>2 DEF Job, AuthRequest
<1>4. /\ pc' = [pc EXCEPT ![h] = next] /\ job' = [job EXCEPT ![h] = j] /\ a \in stored
      /\ UNCHANGED <<backend, now, stored, reqs, codes, gc, made, responses, faults>>
  BY <1>2 DEF Get
<1>5. /\ pc' \in [Handlers -> Places] /\ job' \in [Handlers -> Job]
      /\ pc'[h] = next /\ job'[h] = j
      /\ \A k \in Handlers \ {h} : pc'[k] = pc[k] /\ job'[k] = job[k]
  BY <1>1, <1>3, <1>4 DEF Places
<1>6. TypeOK'
  BY <1>4, <1>5 DEF IInv, TypeOK, Places
<1>7. Recorded'
  BY <1>4 DEF IInv, Recorded, Given, Upsert
<1>8. JobsAreGiven'
  <2>1. a \in Given /\ reqs[a].id \in Given /\ Given' = Given
    BY <1>4 DEF IInv, Recorded, Given
  <2> QED
    BY <1>3, <1>5, <2>1 DEF IInv, JobsAreGiven
<1>9. ListedHaveExpired'
  BY <1>4, ListedStay DEF SameExpiries
<1>10. RightToAnswer'
  <2>1. \A k \in Handlers, b \in Keys : Responding(k, b)' => Responding(k, b)
    BY <1>5 DEF Responding
  <2> QED
    BY <1>4, <2>1, RightFrame
<1> QED
  BY <1>6, <1>7, <1>8, <1>9, <1>10 DEF IInv

\* An update of a request that may be gone by now.
LEMMA UpdateInv ==
    ASSUME IInv, NEW h \in Handlers, NEW a \in Given, NEW u,
           u \in {[reqs[a] EXCEPT !.conn = job[h].conn], [reqs[a] EXCEPT !.claims = job[h].conn]},
           UpdateAuthRequest(a, u), pc[h] # "idle", NEW next \in {"login", "idle"},
           Goto(h, next), next = "login" => pc[h] = "setConnector",
           UNCHANGED <<backend, now, codes, chosen, gc, made, responses, faults>>
    PROVE  IInv'
<1>1. job[h] \in Job /\ chosen \subseteq Keys \X Connectors /\ codes \subseteq AuthCode
      /\ responses \in [Keys -> Nat]
  BY DEF IInv, TypeOK
<1>2. job[h].conn \in ConnectorID
  BY <1>1 DEF Job
<1>3. StoreTypes' /\ Recorded' /\ SameExpiries /\ (~Upsert => stored' = stored)
  BY <1>2, UpdateKeeps
<1>4. TypeOK' /\ Recorded' /\ JobsAreGiven' /\ ListedHaveExpired'
  BY <1>1, <1>3, HandlerFrame DEF Places
<1>5. RightToAnswer'
  BY <1>3, RightFrame, NotResponding DEF Places
<1> QED
  BY <1>4, <1>5 DEF IInv

\* handleConnectorLogin's update and that of finalizeLogin.
LEMMA UpdatesInv ==
    ASSUME IInv, NEW h \in Handlers, SetConnector(h) \/ FinalizeLogin(h)
    PROVE  IInv'
<1>1. pc[h] # "idle" => job[h].key \in Given /\ job[h].id \in Given
  BY DEF IInv, JobsAreGiven
<1>2. CASE SetConnector(h)
  <2>1. PICK a \in Given : a = job[h].key
    BY <1>1, <1>2 DEF SetConnector
  <2>2. PICK next \in {"login", "idle"} : next = IF Found(a) THEN "login" ELSE "idle"
    OBVIOUS
  <2>3. /\ pc[h] = "setConnector" /\ UpdateAuthRequest(a, [reqs[a] EXCEPT !.conn = job[h].conn])
        /\ Goto(h, next)
        /\ UNCHANGED <<backend, now, codes, chosen, gc, made, responses, faults>>
    BY <1>2, <2>1, <2>2 DEF SetConnector
  <2> QED
    BY <2>3, UpdateInv
<1>3. CASE FinalizeLogin(h)
  <2>1. PICK a \in Given : a = job[h].id
    BY <1>1, <1>3 DEF FinalizeLogin
  <2>2. /\ pc[h] = "finalize" /\ UpdateAuthRequest(a, [reqs[a] EXCEPT !.claims = job[h].conn])
        /\ Goto(h, "idle")
        /\ UNCHANGED <<backend, now, codes, chosen, gc, made, responses, faults>>
    BY <1>3, <2>1 DEF FinalizeLogin
  <2> QED
    BY <2>2, UpdateInv
<1> QED
  BY <1>2, <1>3

\* A login form, a redirect to a connector, or a handler that gives up.
LEMMA LeavesInv ==
    ASSUME IInv, NEW h \in Handlers, Login(h) \/ Abort(h)
    PROVE  IInv'
<1>1. job[h] \in Job /\ chosen \subseteq Keys \X Connectors /\ codes \subseteq AuthCode
      /\ responses \in [Keys -> Nat]
  BY DEF IInv, TypeOK
<1>2. PICK next \in {"finalize", "idle"} :
         /\ pc[h] # "idle" /\ Goto(h, next)
         /\ UNCHANGED <<backend, now, stored, reqs, codes, chosen, gc, made, responses, faults>>
  BY DEF Login, Abort
<1>3. StoreTypes' /\ Recorded' /\ SameExpiries
  BY <1>2 DEF IInv, TypeOK, StoreTypes, Recorded, SameExpiries, Given, Upsert
<1>4. TypeOK' /\ Recorded' /\ JobsAreGiven' /\ ListedHaveExpired'
  BY <1>1, <1>2, <1>3, HandlerFrame DEF Places
<1>5. RightToAnswer'
  BY <1>2, RightFrame, NotResponding DEF Places
<1> QED
  BY <1>4, <1>5 DEF IInv

\* DeleteAuthRequest passes the right to answer on to the handler, if it was
\* still with the storage.
LEMMA DeleteInv ==
    ASSUME IInv, NEW h \in Handlers, DeleteAuthRequest(h)
    PROVE  IInv'
<1>1. /\ job \in [Handlers -> Job] /\ chosen \subseteq Keys \X Connectors
      /\ codes \subseteq AuthCode /\ responses \in [Keys -> Nat]
      /\ pc \in [Handlers -> Places]
  BY DEF IInv, TypeOK, Places
<1>2. PICK a \in Keys : a = job[h].id
  BY <1>1 DEF Job
<1>3. PICK next \in {"respond", "idle"} : next = IF a \in stored THEN "respond" ELSE "idle"
  OBVIOUS
<1>4. /\ pc[h] = "delete" /\ Delete({a}) /\ Goto(h, next)
      /\ UNCHANGED <<backend, now, codes, chosen, gc, made, responses, faults>>
  BY <1>2, <1>3 DEF DeleteAuthRequest
<1>5. StoreTypes' /\ Recorded' /\ SameExpiries /\ stored' = stored \ {a}
  BY <1>4, DeleteKeeps
<1>6. TypeOK' /\ Recorded' /\ JobsAreGiven' /\ ListedHaveExpired'
  BY <1>1, <1>4, <1>5, HandlerFrame DEF Places
<1> SUFFICES RightToAnswer'
  BY <1>6 DEF IInv
<1>7. CASE a \notin stored
  BY <1>3, <1>4, <1>5, <1>7, RightFrame, NotResponding DEF Places
<1>8. CASE a \in stored
  <2> SUFFICES ASSUME ~Upsert PROVE RightToAnswer'
    BY <1>4 DEF RightToAnswer, Upsert
  <2>1. pc' = [pc EXCEPT ![h] = "respond"] /\ job' = job
    BY <1>3, <1>4, <1>8 DEF Goto
  <2>2. \A k \in Handlers, b \in Keys :
           Responding(k, b)' <=> Responding(k, b) \/ (k = h /\ b = a)
    BY <1>1, <1>2, <1>4, <2>1 DEF Responding
  <2>3. responses[a] = 0 /\ \A k \in Handlers : ~Responding(k, a)
    BY <1>8 DEF IInv, RightToAnswer
  <2>4. \A b \in Keys :
           /\ responses'[b] <= 1
           /\ responses'[b] # 0 => b \in Given' /\ b \notin stored'
    BY <1>4, <1>5 DEF IInv, RightToAnswer, Given
  <2>5. ASSUME NEW k \in Handlers, NEW b \in Keys, Responding(k, b)'
        PROVE  /\ b \notin stored' /\ responses'[b] = 0
               /\ \A l \in Handlers : Responding(l, b)' => l = k
    BY <1>4, <1>5, <2>2, <2>3, <2>5, SMT DEF IInv, RightToAnswer
  <2> QED
    BY <2>4, <2>5 DEF RightToAnswer
<1> QED
  BY <1>7, <1>8

\* The handler that deleted the request answers it, and is the only one.
LEMMA SendInv ==
    ASSUME IInv, NEW h \in Handlers, SendCodeResponse(h)
    PROVE  IInv'
<1>1. /\ job \in [Handlers -> Job] /\ chosen \subseteq Keys \X Connectors
      /\ codes \subseteq AuthCode /\ responses \in [Keys -> Nat] /\ now \in Nat
      /\ pc \in [Handlers -> Places]
  BY DEF IInv, TypeOK, Places
<1>2. PICK a \in Keys : a = job[h].id
  BY <1>1 DEF Job
<1>3. /\ pc[h] = "respond" /\ Goto(h, "idle") /\ responses' = [responses EXCEPT ![a] = @ + 1]
      /\ UNCHANGED <<backend, now, stored, reqs, chosen, gc, made, faults>>
  BY <1>2 DEF SendCodeResponse
<1>4. codes' \subseteq AuthCode
  <2>1. now + CodeValidFor \in Nat /\ job[h] \in Job
    BY <1>1, AuthFlowAssumption, SMT
  <2>2. [req |-> job[h].id, by |-> h, conn |-> job[h].conn, claims |-> job[h].claims,
         expiry |-> now + CodeValidFor] \in AuthCode
    BY <2>1 DEF Job, AuthCode
  <2> QED
    BY <1>1, <2>2 DEF SendCodeResponse
<1>5. /\ responses' \in [Keys -> Nat] /\ responses'[a] = responses[a] + 1
      /\ \A b \in Keys \ {a} : responses'[b] = responses[b]
  BY <1>1, <1>3, SMT
<1>6. StoreTypes' /\ Recorded' /\ SameExpiries
  BY <1>3 DEF IInv, TypeOK, StoreTypes, Recorded, SameExpiries, Given, Upsert
<1>7. TypeOK' /\ Recorded' /\ JobsAreGiven' /\ ListedHaveExpired'
  BY <1>1, <1>3, <1>4, <1>5, <1>6, HandlerFrame DEF Places
<1> SUFFICES ASSUME ~Upsert PROVE RightToAnswer'
  BY <1>3, <1>7 DEF RightToAnswer, Upsert, IInv
<1>8. Responding(h, a) /\ a \in Given
  BY <1>2, <1>3 DEF Responding, IInv, JobsAreGiven
<1>9. a \notin stored /\ responses[a] = 0 /\ \A k \in Handlers : Responding(k, a) => k = h
  BY <1>8 DEF IInv, RightToAnswer
<1>10. \A k \in Handlers, b \in Keys : Responding(k, b)' => Responding(k, b) /\ k # h
  BY <1>1, <1>3 DEF Goto, Responding
<1>11. \A b \in Keys :
          /\ responses'[b] <= 1
          /\ responses'[b] # 0 => b \in Given' /\ b \notin stored'
  BY <1>3, <1>5, <1>8, <1>9, SMT DEF IInv, RightToAnswer, Given
<1>12. ASSUME NEW k \in Handlers, NEW b \in Keys, Responding(k, b)'
       PROVE  /\ b \notin stored' /\ responses'[b] = 0
              /\ \A l \in Handlers : Responding(l, b)' => l = k
  <2>1. Responding(k, b) /\ k # h
    BY <1>10, <1>12
  <2>2. b # a
    BY <1>9, <2>1
  <2> QED
    BY <1>3, <1>5, <1>10, <2>1, <2>2 DEF IInv, RightToAnswer
<1> QED
  BY <1>11, <1>12 DEF RightToAnswer

\* Every handler.
LEMMA HandleInv ==
    ASSUME IInv, NEW h \in Handlers, Handle(h)
    PROVE  IInv'
<1>1. /\ \A a \in Keys : reqs[a] \in AuthRequest
      /\ chosen \subseteq Keys \X Connectors /\ backend \in Backends
  BY DEF IInv, TypeOK
<1>2. ASSUME NEW a \in Keys, NEW c \in Configured[backend], HandleConnectorLogin(h, a, c)
      PROVE  IInv'
  <2>1. c \in Connectors
    BY <1>1, AuthFlowAssumption
  <2>2. chosen' \subseteq Keys \X Connectors
    BY <1>1, <1>2, <2>1, SMT DEF HandleConnectorLogin
  <2>3. PICK next \in {"setConnector", "login"} : Get(h, a, c, None, next)
    BY <1>2 DEF HandleConnectorLogin
  <2> QED
    BY <2>1, <2>2, <2>3, GetInv DEF ConnectorID
<1>3. ASSUME NEW a \in Keys, HandleConnectorCallback(h, a)
      PROVE  IInv'
  <2>1. PICK c \in Connectors : Get(h, a, c, c, "finalize") /\ UNCHANGED chosen
    BY <1>3 DEF HandleConnectorCallback
  <2> QED
    BY <1>1, <2>1, GetInv DEF ConnectorID
<1>4. ASSUME NEW a \in Keys, HandleApproval(h, a)
      PROVE  IInv'
  <2>1. reqs[a].conn \in ConnectorID /\ reqs[a].claims \in ConnectorID
    BY <1>1 DEF AuthRequest
  <2> QED
    BY <1>1, <1>4, <2>1, GetInv DEF HandleApproval
<1> QED
  BY <1>2, <1>3, <1>4, UpdatesInv, LeavesInv, DeleteInv, SendInv DEF Handle

-----------------------------------------------------------------------------
(* Steps of collections.                                                   *)

\* A collection that is as it should be goes on from one that is.
LEMMA CollectorFrame ==
    ASSUME IInv, NEW g \in Collectors, NEW c \in Collection, gc' = [gc EXCEPT ![g] = c],
           c.at <= now, \A k \in c.codes : now > k.expiry,
           \A x \in c.reqs : x.id \in Given /\ now > reqs[x.id].expiry,
           StoreTypes', Recorded', SameExpiries, stored' \subseteq stored,
           codes' \subseteq codes, faults' \in 0 .. MaxFaults,
           UNCHANGED <<backend, now, pc, job, chosen, made, responses>>
    PROVE  IInv'
<1>1. /\ gc \in [Collectors -> Collection] /\ now \in Nat /\ now >= 1
      /\ made \subseteq AuthReqs /\ reqs \in [Keys -> AuthRequest]
  BY DEF IInv, TypeOK, ListedHaveExpired
<1>2. /\ gc' \in [Collectors -> Collection] /\ gc'[g] = c
      /\ \A k \in Collectors \ {g} : gc'[k] = gc[k]
  BY <1>1
<1>3. TypeOK'
  BY <1>2 DEF IInv, TypeOK, StoreTypes
<1>4. JobsAreGiven'
  BY DEF IInv, JobsAreGiven, Given
<1>5. ListedHaveExpired'
  <2>1. ASSUME NEW k \in Collectors
        PROVE  /\ gc'[k].at <= now /\ \A x \in gc'[k].codes : now > x.expiry
               /\ \A x \in gc'[k].reqs : x.id \in Given /\ now > reqs[x.id].expiry
    BY <1>2 DEF IInv, ListedHaveExpired
  <2>2. \A a \in Given : a \in Keys
    BY <1>1 DEF Given, Keys
  <2>3. \A a \in Given : now > reqs[a].expiry => now > reqs'[a].expiry
    BY <1>1, <2>2, SMT DEF SameExpiries
  <2> QED
    BY <1>1, <2>1, <2>3 DEF ListedHaveExpired, Given
<1>6. RightToAnswer'
  BY RightFrame DEF Responding
<1> QED
  BY <1>3, <1>4, <1>5, <1>6 DEF IInv

\* A collection begins: it deletes what has expired, or lists it.
LEMMA CollectRequestsInv ==
    ASSUME IInv, NEW g \in Collectors, CollectRequests(g)
    PROVE  IInv'
<1>1. /\ now \in Nat /\ now >= 1 /\ made \subseteq AuthReqs /\ stored \subseteq Keys
      /\ reqs \in [Keys -> AuthRequest] /\ faults \in 0 .. MaxFaults /\ stored \subseteq Given
  BY DEF IInv, TypeOK, ListedHaveExpired, Recorded
<1>2. \A a \in Listed(now) : a \in stored /\ now > reqs[a].expiry
  BY DEF Listed, ExpiredRequests
<1>3. PICK S : S = IF Listing THEN {[key |-> a, id |-> reqs[a].id] : a \in Listed(now)} ELSE {}
  OBVIOUS
<1>4. PICK c : c = [NoCollection EXCEPT !.stage = "requests", !.at = now, !.reqs = S]
  OBVIOUS
<1>5. c = [stage |-> "requests", at |-> now, failed |-> FALSE, reqs |-> S, codes |-> {}]
  BY <1>4 DEF NoCollection
<1>6. S \in SUBSET [key : Keys, id : Keys]
  BY <1>1, <1>2, <1>3, SMT DEF AuthRequest
<1>7. c \in Collection
  BY <1>1, <1>5, <1>6 DEF Collection
<1>8. \A x \in S : x.id \in Given /\ now > reqs[x.id].expiry
  <2> SUFFICES ASSUME NEW a \in Listed(now)
               PROVE  reqs[a].id \in Given /\ now > reqs[reqs[a].id].expiry
    BY <1>3, SMT
  <2>1. a \in stored /\ now > reqs[a].expiry /\ reqs[a].id \in {a, Empty}
    BY <1>1, <1>2 DEF IInv, Recorded
  <2>2. reqs[Empty].expiry = 0 /\ Empty \in Given
    BY DEF IInv, Recorded, Given
  <2> QED
    BY <1>1, <2>1, <2>2, SMT
<1>9. /\ gc' = [gc EXCEPT ![g] = c]
      /\ UNCHANGED <<backend, now, codes, pc, job, chosen, made, responses, faults>>
  BY <1>3, <1>4 DEF CollectRequests
<1>10. StoreTypes' /\ Recorded' /\ SameExpiries /\ stored' \subseteq stored
  <2>1. CASE Listing
    <3>1. UNCHANGED <<stored, reqs>>
      BY <2>1 DEF CollectRequests
    <3> QED
      BY <1>9, <3>1 DEF IInv, TypeOK, StoreTypes, Recorded, SameExpiries, Given, Upsert
  <2>2. CASE ~Listing
    <3>1. Delete(Listed(now)) /\ Listed(now) \in SUBSET Keys
      BY <1>1, <1>2, <2>2 DEF CollectRequests
    <3> QED
      BY <1>9, <3>1, DeleteKeeps
  <2> QED
    BY <2>1, <2>2
<1>11. c.at <= now /\ c.codes = {} /\ c.reqs = S /\ codes' \subseteq codes
       /\ faults' \in 0 .. MaxFaults
  BY <1>1, <1>5, <1>9, SMT
<1> QED
  BY <1>7, <1>8, <1>9, <1>10, <1>11, CollectorFrame

\* A collection goes on.
LEMMA CollectInv ==
    ASSUME IInv, NEW g \in Collectors, Collect(g) \/ FailCollection(g)
    PROVE  IInv'
<1>1. /\ now \in Nat /\ now >= 1 /\ codes \subseteq AuthCode /\ faults \in 0 .. MaxFaults
      /\ made \subseteq AuthReqs /\ gc[g] \in Collection /\ gc \in [Collectors -> Collection]
  BY DEF IInv, TypeOK, ListedHaveExpired
<1>2. /\ gc[g].at <= now /\ \A k \in gc[g].codes : now > k.expiry
      /\ \A x \in gc[g].reqs : x.id \in Given /\ now > reqs[x.id].expiry
  BY DEF IInv, ListedHaveExpired
<1>3. /\ NoCollection \in Collection /\ NoCollection.at <= now /\ NoCollection.reqs = {}
      /\ NoCollection.codes = {}
  BY <1>1, SMT DEF NoCollection, Collection
<1>4. UNCHANGED <<backend, made, stored, reqs>> =>
         StoreTypes' /\ Recorded' /\ SameExpiries /\ stored' \subseteq stored
  BY DEF IInv, TypeOK, StoreTypes, Recorded, SameExpiries, Given, Upsert
<1>5. CASE CollectRequests(g)
  BY <1>5, CollectRequestsInv
<1>6. ASSUME NEW x \in gc[g].reqs, DeleteListedRequest(g, x) PROVE IInv'
  <2>1. x.id \in Keys
    BY <1>1, <1>2 DEF Given, Keys
  <2>2. PICK c : c = [gc[g] EXCEPT !.reqs = @ \ {x}, !.failed = @ \/ x.id \notin stored]
    OBVIOUS
  <2>3. gc' = [gc EXCEPT ![g] = c]
    BY <1>1, <1>6, <2>2 DEF DeleteListedRequest
  <2>4. /\ c \in Collection /\ c.at = gc[g].at /\ c.codes = gc[g].codes
        /\ c.reqs \subseteq gc[g].reqs
    BY <1>1, <2>2 DEF Collection
  <2>5. StoreTypes' /\ Recorded' /\ SameExpiries /\ stored' = stored \ {x.id}
    BY <1>6, <2>1, DeleteKeeps DEF DeleteListedRequest
  <2>6. UNCHANGED <<backend, now, codes, pc, job, chosen, made, responses, faults>>
    BY <1>6 DEF DeleteListedRequest
  <2> QED
    BY <1>1, <1>2, <2>3, <2>4, <2>5, <2>6, CollectorFrame
<1>7. CASE CollectCodes(g)
  <2>1. PICK E : E = IF Listing THEN ExpiredCodes(gc[g].at) ELSE {}
    OBVIOUS
  <2>2. PICK c : c = IF gc[g].failed THEN NoCollection
                     ELSE [gc[g] EXCEPT !.stage = "codes", !.codes = E]
    OBVIOUS
  <2>3. /\ gc' = [gc EXCEPT ![g] = c] /\ codes' \subseteq codes
        /\ UNCHANGED <<backend, now, stored, reqs, pc, job, chosen, made, responses, faults>>
    BY <1>7, <2>1, <2>2 DEF CollectCodes
  <2>4. E \subseteq AuthCode /\ \A k \in E : now > k.expiry
    BY <1>1, <1>2, <2>1, SMT DEF ExpiredCodes, AuthCode, Collection
  <2>5. /\ c \in Collection /\ c.at <= now /\ c.reqs \subseteq gc[g].reqs /\ c.codes \subseteq E
    BY <1>1, <1>2, <1>3, <2>2, <2>4 DEF Collection
  <2> QED
    BY <1>1, <1>2, <1>4, <2>3, <2>4, <2>5, CollectorFrame
<1>8. ASSUME NEW k \in gc[g].codes, DeleteListedCode(g, k) PROVE IInv'
  <2>1. PICK c : c = [gc[g] EXCEPT !.codes = @ \ {k}]
    OBVIOUS
  <2>2. /\ gc' = [gc EXCEPT ![g] = c] /\ codes' \subseteq codes
        /\ UNCHANGED <<backend, now, stored, reqs, pc, job, chosen, made, responses, faults>>
    BY <1>1, <1>8, <2>1 DEF DeleteListedCode
  <2>3. /\ c \in Collection /\ c.at = gc[g].at /\ c.reqs = gc[g].reqs
        /\ c.codes \subseteq gc[g].codes
    BY <1>1, <2>1 DEF Collection
  <2> QED
    BY <1>1, <1>2, <1>4, <2>2, <2>3, CollectorFrame
<1>9. CASE EndCollection(g) \/ FailCollection(g)
  <2>1. /\ gc' = [gc EXCEPT ![g] = NoCollection] /\ codes' = codes /\ faults' \in 0 .. MaxFaults
        /\ UNCHANGED <<backend, now, stored, reqs, pc, job, chosen, made, responses>>
    BY <1>1, <1>9, AuthFlowAssumption, SMT DEF EndCollection, FailCollection
  <2> QED
    BY <1>3, <1>4, <2>1, CollectorFrame
<1> QED
  BY <1>5, <1>6, <1>7, <1>8, <1>9 DEF Collect

\* Time passes, and the token endpoint redeems codes.
LEMMA OthersInv ==
    ASSUME IInv, Tick \/ (\E k \in codes : DeleteAuthCode(k)) \/ UNCHANGED vars
    PROVE  IInv'
<1>1. /\ codes' \subseteq codes /\ now' \in {now, now + 1}
      /\ UNCHANGED <<backend, stored, reqs, pc, job, chosen, gc, made, responses, faults>>
  BY DEF Tick, DeleteAuthCode, vars
<1>2. now \in Nat /\ made \subseteq AuthReqs /\ reqs \in [Keys -> AuthRequest]
      /\ gc \in [Collectors -> Collection]
  BY DEF IInv, TypeOK
<1>3. TypeOK' /\ Recorded' /\ JobsAreGiven'
  BY <1>1, <1>2, SMT DEF IInv, TypeOK, Recorded, JobsAreGiven, Given, Upsert
<1>4. ListedHaveExpired'
  <2> SUFFICES ASSUME NEW g \in Collectors
               PROVE  /\ gc[g].at <= now'
                      /\ \A x \in gc[g].reqs : x.id \in Given /\ now' > reqs[x.id].expiry
                      /\ \A k \in gc[g].codes : now' > k.expiry
    BY <1>1, <1>2, SMT DEF IInv, ListedHaveExpired, Given
  <2>1. gc[g].at \in Nat /\ \A k \in gc[g].codes : k.expiry \in Nat
    BY <1>2, SMT DEF Collection, AuthCode
  <2>2. \A x \in gc[g].reqs : x.id \in Given /\ reqs[x.id].expiry \in Nat
    BY <1>2 DEF IInv, ListedHaveExpired, Given, Keys, AuthRequest
  <2> QED
    BY <1>1, <1>2, <2>1, <2>2, SMT DEF IInv, ListedHaveExpired
<1>5. RightToAnswer'
  BY <1>1, RightFrame DEF Responding
<1> QED
  BY <1>3, <1>4, <1>5 DEF IInv

\* Every step preserves the invariant.
LEMMA NextInv == IInv /\ [Next]_vars => IInv'
BY HandleAuthorizationInv, HandleInv, CollectInv, OthersInv DEF Next

\* The invariant holds in every reachable state.
THEOREM AuthFlowInvariant == Spec => []IInv
BY InitInv, NextInv, PTL DEF Spec

-----------------------------------------------------------------------------
(* The theorems.                                                           *)

\* The login flow is type-correct, and nothing is left of a request once it is
\* deleted: what etcd brings back carries neither an identity nor an expiry.
THEOREM TypeCorrect == Spec => []TypeOK
<1>1. IInv => TypeOK
  BY DEF IInv
<1> QED
  BY <1>1, AuthFlowInvariant, PTL

\* On the storages other than etcd no authorization request is answered twice,
\* whatever number of approvals, logins and collections overlap.
THEOREM OneResponse == Spec => []OneResponsePerRequest
<1>1. IInv => OneResponsePerRequest
  BY DEF IInv, RightToAnswer, OneResponsePerRequest
<1> QED
  BY <1>1, AuthFlowInvariant, PTL

\* Which logins and codes a step removes.
Removes ==
    /\ \A a \in stored \ stored' :
          now > reqs[a].expiry \/ \E h \in Handlers : pc[h] = "delete" /\ job[h].id = a
    /\ \A k \in codes \ codes' : now > k.expiry \/ gc' = gc

\* A step of a collection removes what it has listed, or what it finds expired.
LEMMA CollectRemoves ==
    ASSUME IInv, NEW g \in Collectors, Collect(g)
    PROVE  Removes
<1>1. CASE CollectRequests(g)
  <2>1. \A a \in stored \ stored' : a \in Listed(now)
    BY <1>1 DEF CollectRequests, Delete
  <2> QED
    BY <1>1, <2>1 DEF CollectRequests, Removes, Listed, ExpiredRequests
<1>2. ASSUME NEW x \in gc[g].reqs, DeleteListedRequest(g, x) PROVE Removes
  BY <1>2 DEF DeleteListedRequest, Delete, Removes, IInv, ListedHaveExpired
<1>3. CASE CollectCodes(g)
  <2>1. gc[g].at \in Nat /\ now \in Nat /\ gc[g].at <= now /\ \A k \in codes : k.expiry \in Nat
    <3>1. gc[g] \in Collection /\ codes \subseteq AuthCode /\ now \in Nat /\ gc[g].at <= now
      BY DEF IInv, TypeOK, ListedHaveExpired
    <3> QED
      BY <3>1 DEF Collection, AuthCode
  <2>2. stored' = stored /\ \A k \in codes \ codes' : k \in ExpiredCodes(gc[g].at)
    BY <1>3 DEF CollectCodes
  <2>3. \A k \in ExpiredCodes(gc[g].at) : now > k.expiry
    BY <2>1, SMT DEF ExpiredCodes
  <2> QED
    BY <2>2, <2>3 DEF Removes
<1>4. ASSUME NEW k \in gc[g].codes, DeleteListedCode(g, k) PROVE Removes
  BY <1>4 DEF DeleteListedCode, Removes, IInv, ListedHaveExpired
<1>5. CASE EndCollection(g)
  BY <1>5 DEF EndCollection, Removes
<1> QED
  BY <1>1, <1>2, <1>3, <1>4, <1>5 DEF Collect

\* A step of a handler removes a login only in DeleteAuthRequest.
LEMMA HandleRemoves ==
    ASSUME NEW h \in Handlers, Handle(h)
    PROVE  Removes
<1>1. CASE \/ \E a \in Keys, c \in Configured[backend] : HandleConnectorLogin(h, a, c)
           \/ \E a \in Keys : HandleConnectorCallback(h, a) \/ HandleApproval(h, a)
  BY <1>1 DEF HandleConnectorLogin, HandleConnectorCallback, HandleApproval, Get, Removes
<1>2. CASE SetConnector(h) \/ FinalizeLogin(h)
  BY <1>2 DEF SetConnector, FinalizeLogin, UpdateAuthRequest, Removes
<1>3. CASE DeleteAuthRequest(h)
  BY <1>3 DEF DeleteAuthRequest, Delete, Removes
<1>4. CASE Login(h) \/ SendCodeResponse(h) \/ Abort(h)
  BY <1>4 DEF Login, SendCodeResponse, Abort, Removes
<1> QED
  BY <1>1, <1>2, <1>3, <1>4 DEF Handle

\* No step of any interleaving of collections, logins and approvals takes away a
\* login that is still valid, but the approval of that login; nor a code, but
\* the token endpoint.
THEOREM OnlyExpired == Spec => OnlyExpiredAreCollected
<1>1. IInv /\ [Next]_vars => [Removes]_vars
  <2> SUFFICES ASSUME IInv, Next PROVE Removes
    OBVIOUS
  <2>1. ASSUME NEW a \in AuthReqs, HandleAuthorization(a) PROVE Removes
    BY <2>1 DEF HandleAuthorization, Removes
  <2>2. ASSUME NEW k \in codes, DeleteAuthCode(k) PROVE Removes
    BY <2>2 DEF DeleteAuthCode, Removes
  <2>3. ASSUME NEW g \in Collectors, FailCollection(g) PROVE Removes
    BY <2>3 DEF FailCollection, Removes
  <2>4. CASE Tick
    BY <2>4 DEF Tick, Removes
  <2> QED
    BY <2>1, <2>2, <2>3, <2>4, HandleRemoves, CollectRemoves DEF Next
<1> QED
  BY <1>1, AuthFlowInvariant, PTL DEF Spec, OnlyExpiredAreCollected, Removes

-----------------------------------------------------------------------------
(* Which connectors a code names.                                          *)

\* What is known of the object r under key a: it names, and has an identity
\* from, connectors whose login pages were opened; and unless an update has
\* brought it back, it has its ID, and a connector if it has an identity.
RequestChosen(a, r) ==
    /\ r.conn # None => <<a, r.conn>> \in chosen
    /\ r.claims # None => <<a, r.claims>> \in chosen
    /\ r.expiry # 0 => r.id = a /\ (r.claims # None => r.conn # None)

\* The object under key a names a connector, if it is the one that was made.
Named(a) == reqs[a].conn # None \/ reqs[a].expiry = 0

\* What is known of the copy j of a handler at p.
JobChosen(p, j) ==
    /\ p # "idle" => j.id \in {j.key, Empty}
    /\ p \in {"setConnector", "login", "finalize"} => <<j.key, j.conn>> \in chosen
    /\ p \in {"login", "finalize"} => Named(j.key)
    /\ p \in {"delete", "respond"} =>
          <<j.id, j.conn>> \in chosen /\ <<j.id, j.claims>> \in chosen

CodeChosen(k) == <<k.req, k.conn>> \in chosen /\ <<k.req, k.claims>> \in chosen

Choices ==
    /\ \A a \in AuthReqs : RequestChosen(a, reqs[a])
    /\ \A h \in Handlers : JobChosen(pc[h], job[h])
    /\ \A k \in codes : CodeChosen(k)

\* What there is to show of a step: about the requests it writes, the copies it
\* makes and the codes it creates; and that named requests stay so.
LEMMA ChosenFrame ==
    ASSUME IInv, Choices, chosen \subseteq chosen',
           \A a \in AuthReqs : reqs'[a] = reqs[a] \/ RequestChosen(a, reqs[a])',
           \A a \in Given : Named(a) => Named(a)',
           \A h \in Handlers :
              \/ job'[h] = job[h] /\ pc'[h] \in {pc[h], "idle"}
              \/ job'[h] = job[h] /\ pc[h] = "delete" /\ pc'[h] = "respond"
              \/ job'[h] = job[h] /\ pc[h] = "login" /\ pc'[h] = "finalize"
              \/ JobChosen(pc[h], job[h])',
           \A k \in codes' : k \in codes \/ CodeChosen(k)'
    PROVE  Choices'
<1>1. ASSUME NEW a \in AuthReqs PROVE RequestChosen(a, reqs[a])'
  BY <1>1 DEF Choices, RequestChosen
<1>2. ASSUME NEW h \in Handlers PROVE JobChosen(pc[h], job[h])'
  <2>1. JobChosen(pc[h], job[h]) /\ (pc[h] # "idle" => job[h].key \in Given)
    BY DEF Choices, IInv, JobsAreGiven
  <2>2. CASE job'[h] = job[h] /\ pc'[h] = "idle"
    BY <2>2 DEF JobChosen
  <2>3. CASE job'[h] = job[h] /\ pc'[h] = pc[h]
    BY <2>1, <2>3 DEF JobChosen
  <2>4. CASE job'[h] = job[h] /\ pc[h] = "delete" /\ pc'[h] = "respond"
    BY <2>1, <2>4 DEF JobChosen
  <2>5. CASE job'[h] = job[h] /\ pc[h] = "login" /\ pc'[h] = "finalize"
    BY <2>1, <2>5 DEF JobChosen
  <2> QED
    BY <2>2, <2>3, <2>4, <2>5
<1>3. \A k \in codes' : CodeChosen(k)'
  BY DEF Choices, CodeChosen
<1> QED
  BY <1>1, <1>2, <1>3 DEF Choices

\* Deletions, by a handler or by a collection.
LEMMA DeletionChosen ==
    ASSUME IInv, Choices, UNCHANGED chosen, codes' \subseteq codes,
           \A a \in Keys : reqs'[a] \in {reqs[a], ZeroAuthRequest},
           \A h \in Handlers :
              \/ job'[h] = job[h] /\ pc'[h] \in {pc[h], "idle"}
              \/ job'[h] = job[h] /\ pc[h] = "delete" /\ pc'[h] = "respond"
              \/ job'[h] = job[h] /\ pc[h] = "login" /\ pc'[h] = "finalize"
              \/ pc'[h] = "idle"
    PROVE  Choices'
<1>1. /\ ZeroAuthRequest.conn = None /\ ZeroAuthRequest.claims = None
      /\ ZeroAuthRequest.expiry = 0 /\ made \subseteq AuthReqs
  BY DEF ZeroAuthRequest, IInv, TypeOK
<1>2. \A a \in AuthReqs : reqs'[a] = reqs[a] \/ RequestChosen(a, reqs[a])'
  BY <1>1 DEF RequestChosen, Keys
<1>3. \A a \in Given : Named(a) => Named(a)'
  BY <1>1 DEF Named, Given, Keys
<1>4. \A h \in Handlers : pc'[h] = "idle" => JobChosen(pc[h], job[h])'
  BY DEF JobChosen
<1> QED
  BY <1>2, <1>3, <1>4, ChosenFrame

\* A new request names no connector yet, and nobody works on it.
LEMMA AuthorizationChosen ==
    ASSUME IInv, Choices, NEW a \in AuthReqs, HandleAuthorization(a)
    PROVE  Choices'
<1>1. a \in Keys /\ a \notin Given /\ reqs \in [Keys -> AuthRequest]
  BY AuthFlowAssumption DEF HandleAuthorization, Given, Keys, IInv, TypeOK
<1>2. /\ \A b \in Keys \ {a} : reqs'[b] = reqs[b]
      /\ reqs'[a].conn = None /\ reqs'[a].claims = None /\ reqs'[a].id = a
      /\ UNCHANGED <<codes, pc, job, chosen>>
  BY <1>1 DEF HandleAuthorization, ZeroAuthRequest
<1>3. \A b \in AuthReqs : reqs'[b] = reqs[b] \/ RequestChosen(b, reqs[b])'
  BY <1>2 DEF RequestChosen, Keys
<1>4. \A b \in Given : Named(b) => Named(b)'
  <2>1. Given \subseteq Keys
    BY DEF IInv, TypeOK, Given, Keys
  <2> QED
    BY <1>1, <1>2, <2>1 DEF Named
<1> QED
  BY <1>2, <1>3, <1>4, ChosenFrame

\* A handler takes a copy of a request.
LEMMA GetChosen ==
    ASSUME IInv, Choices, NEW h \in Handlers, NEW a \in Keys, NEW conn, NEW claims,
           NEW next \in {"setConnector", "login", "finalize", "delete"},
           Get(h, a, conn, claims, next), chosen \subseteq chosen',
           <<a, conn>> \in chosen', next \in {"login", "finalize"} => Named(a),
           next = "delete" => reqs[a].id = a /\ <<a, claims>> \in chosen'
    PROVE  Choices'
<1>1. pc \in [Handlers -> Places] /\ job \in [Handlers -> Job]
  BY DEF IInv, TypeOK, Places
<1>2. PICK j : j = [key |-> a, id |-> reqs[a].id, conn |-> conn, claims |-> claims]
  OBVIOUS
<1>3. j.key = a /\ j.id = reqs[a].id /\ j.conn = conn /\ j.claims = claims
  BY <1>2
<1>4. /\ pc' = [pc EXCEPT ![h] = next] /\ job' = [job EXCEPT ![h] = j]
      /\ UNCHANGED <<reqs, codes>>
  BY <1>2 DEF Get
<1>5. /\ pc'[h] = next /\ job'[h] = j
      /\ \A k \in Handlers \ {h} : pc'[k] = pc[k] /\ job'[k] = job[k]
  BY <1>1, <1>4
<1>6. reqs[a].id \in {a, Empty} /\ (Named(a) => Named(a)')
  BY <1>4 DEF IInv, Recorded, Named
<1>7. JobChosen(pc[h], job[h])'
  BY <1>3, <1>5, <1>6 DEF JobChosen
<1>8. \A b \in Given : Named(b) => Named(b)'
  BY <1>4 DEF Named
<1> QED
  BY <1>4, <1>5, <1>7, <1>8, ChosenFrame

\* The handlers that take one.
LEMMA GetsChosen ==
    ASSUME IInv, Choices, NEW h \in Handlers, NEW a \in Keys,
           \/ \E c \in Configured[backend] : HandleConnectorLogin(h, a, c)
           \/ HandleConnectorCallback(h, a) \/ HandleApproval(h, a)
    PROVE  Choices'
<1>1. /\ reqs[a] \in AuthRequest /\ backend \in Backends /\ now \in Nat /\ now >= 1
      /\ reqs[Empty].expiry = 0
  BY DEF IInv, TypeOK, Recorded, ListedHaveExpired
<1>2. ASSUME NEW c \in Configured[backend], HandleConnectorLogin(h, a, c)
      PROVE  Choices'
  <2>1. c # None
    BY <1>1, AuthFlowAssumption
  <2>2. PICK next \in {"setConnector", "login"} :
           /\ Get(h, a, c, None, next) /\ (next = "login" => reqs[a].conn = c)
    BY <1>2 DEF HandleConnectorLogin
  <2>3. chosen \subseteq chosen' /\ <<a, c>> \in chosen'
    BY <1>2 DEF HandleConnectorLogin
  <2> QED
    BY <2>1, <2>2, <2>3, GetChosen DEF Named
<1>3. CASE HandleConnectorCallback(h, a)
  <2>1. a \in AuthReqs /\ reqs[a].conn # None
    BY <1>3, AuthFlowAssumption DEF HandleConnectorCallback, Keys
  <2>2. <<a, reqs[a].conn>> \in chosen
    BY <2>1 DEF Choices, RequestChosen
  <2>3. Get(h, a, reqs[a].conn, reqs[a].conn, "finalize") /\ UNCHANGED chosen
    BY <1>3 DEF HandleConnectorCallback
  <2> QED
    BY <2>1, <2>2, <2>3, GetChosen DEF Named
<1>4. CASE HandleApproval(h, a)
  <2>1. reqs[a].claims # None /\ now <= reqs[a].expiry /\ UNCHANGED chosen
        /\ Get(h, a, reqs[a].conn, reqs[a].claims, "delete")
    BY <1>4 DEF HandleApproval
  <2>2. reqs[a].expiry # 0
    BY <1>1, <2>1, SMT DEF AuthRequest
  <2>3. a \in AuthReqs
    BY <1>1, <2>2 DEF Keys
  <2>4. /\ reqs[a].id = a /\ <<a, reqs[a].conn>> \in chosen
        /\ <<a, reqs[a].claims>> \in chosen
    BY <2>1, <2>2, <2>3 DEF Choices, RequestChosen
  <2> QED
    BY <2>1, <2>4, GetChosen
<1> QED
  BY <1>2, <1>3, <1>4

\* A handler names the connector: from here on the request has one.
LEMMA SetConnectorChosen ==
    ASSUME IInv, Choices, NEW h \in Handlers, SetConnector(h)
    PROVE  Choices'
<1>1. /\ pc \in [Handlers -> Places] /\ job \in [Handlers -> Job]
      /\ reqs \in [Keys -> AuthRequest] /\ pc[h] = "setConnector" /\ JobChosen(pc[h], job[h])
  BY DEF IInv, TypeOK, Places, Choices, SetConnector
<1>2. PICK a \in Keys : a = job[h].key
  BY <1>1 DEF Job
<1>3. PICK c : c = job[h].conn
  OBVIOUS
<1>4. c \in Connectors /\ c # None /\ <<a, c>> \in chosen
  BY <1>1, <1>2, <1>3, AuthFlowAssumption DEF IInv, JobsAreGiven, JobChosen
<1>5. /\ reqs' \in {reqs, [reqs EXCEPT ![a] = [reqs[a] EXCEPT !.conn = c]]}
      /\ Found(a) => reqs' = [reqs EXCEPT ![a] = [reqs[a] EXCEPT !.conn = c]]
      /\ Goto(h, IF Found(a) THEN "login" ELSE "idle") /\ UNCHANGED <<codes, chosen>>
  BY <1>2, <1>3 DEF SetConnector, UpdateAuthRequest
<1>6. PICK r : r = [reqs[a] EXCEPT !.conn = c]
  OBVIOUS
<1>7. /\ r.conn = c /\ r.claims = reqs[a].claims /\ r.id = reqs[a].id
      /\ r.expiry = reqs[a].expiry
  BY <1>1, <1>6, SMT DEF AuthRequest
<1>8. \A b \in Keys : reqs'[b] = reqs[b] \/ (b = a /\ reqs'[b] = r)
  BY <1>1, <1>5, <1>6
<1>9. Found(a) => reqs'[a] = r
  BY <1>1, <1>5, <1>6
<1>10. \A b \in AuthReqs : reqs'[b] = reqs[b] \/ RequestChosen(b, reqs[b])'
  BY <1>4, <1>5, <1>7, <1>8 DEF Choices, RequestChosen, Keys
<1>11. \A b \in Keys : Named(b) => Named(b)'
  BY <1>4, <1>7, <1>8 DEF Named
<1>12. \A b \in Given : Named(b) => Named(b)'
  BY <1>11 DEF IInv, TypeOK, Given, Keys
<1>13. \A k \in Handlers \ {h} : pc'[k] = pc[k] /\ job'[k] = job[k]
  BY <1>1, <1>5 DEF Goto
<1>14. JobChosen(pc[h], job[h])'
  <2>1. CASE Found(a)
    <3>1. pc'[h] = "login" /\ job'[h] = job[h]
      BY <1>1, <1>5, <2>1 DEF Goto
    <3>2. Named(a)'
      BY <1>4, <1>7, <1>9, <2>1 DEF Named
    <3> QED
      BY <1>1, <1>2, <1>5, <3>1, <3>2 DEF JobChosen
  <2>2. CASE ~Found(a)
    <3>1. pc'[h] = "idle"
      BY <1>1, <1>5, <2>2 DEF Goto
    <3> QED
      BY <3>1 DEF JobChosen
  <2> QED
    BY <2>1, <2>2
<1> QED
  BY <1>5, <1>10, <1>12, <1>13, <1>14, ChosenFrame

\* finalizeLogin adds an identity to a request that names a connector.
LEMMA FinalizeChosen ==
    ASSUME IInv, Choices, NEW h \in Handlers, FinalizeLogin(h)
    PROVE  Choices'
<1>1. /\ pc \in [Handlers -> Places] /\ job \in [Handlers -> Job]
      /\ reqs \in [Keys -> AuthRequest] /\ pc[h] = "finalize" /\ JobChosen(pc[h], job[h])
  BY DEF IInv, TypeOK, Places, Choices, FinalizeLogin
<1>2. PICK a \in Keys : a = job[h].id
  BY <1>1 DEF Job
<1>3. PICK c : c = job[h].conn
  OBVIOUS
<1>4. a # Empty => <<a, c>> \in chosen /\ Named(a)
  BY <1>1, <1>2, <1>3 DEF JobChosen
<1>5. PICK r : r = [reqs[a] EXCEPT !.claims = c]
  OBVIOUS
<1>6. /\ r.claims = c /\ r.conn = reqs[a].conn /\ r.id = reqs[a].id
      /\ r.expiry = reqs[a].expiry
  BY <1>1, <1>5, SMT DEF AuthRequest
<1>7. reqs' \in {reqs, [reqs EXCEPT ![a] = r]} /\ Goto(h, "idle") /\ UNCHANGED <<codes, chosen>>
  BY <1>2, <1>3, <1>5 DEF FinalizeLogin, UpdateAuthRequest
<1>8. \A b \in Keys : reqs'[b] = reqs[b] \/ (b = a /\ reqs'[b] = r)
  BY <1>1, <1>7
<1>9. \A b \in AuthReqs : b \in Keys /\ b # Empty
  BY AuthFlowAssumption DEF Keys
<1>10. \A b \in AuthReqs : reqs'[b] = reqs[b] \/ RequestChosen(b, reqs[b])'
  BY <1>4, <1>6, <1>7, <1>8, <1>9 DEF Choices, RequestChosen, Named
<1>11. \A b \in Keys : Named(b) => Named(b)'
  BY <1>6, <1>8 DEF Named
<1>12. \A b \in Given : Named(b) => Named(b)'
  BY <1>11 DEF IInv, TypeOK, Given, Keys
<1>13. \A k \in Handlers \ {h} : pc'[k] = pc[k] /\ job'[k] = job[k]
  BY <1>1, <1>7 DEF Goto
<1>14. JobChosen(pc[h], job[h])'
  BY <1>1, <1>7 DEF Goto, JobChosen
<1> QED
  BY <1>7, <1>10, <1>12, <1>13, <1>14, ChosenFrame

\* A code is made from a copy.
LEMMA SendChosen ==
    ASSUME IInv, Choices, NEW h \in Handlers, SendCodeResponse(h)
    PROVE  Choices'
<1>1. /\ pc \in [Handlers -> Places] /\ job \in [Handlers -> Job]
      /\ pc[h] = "respond" /\ JobChosen(pc[h], job[h])
  BY DEF IInv, TypeOK, Places, Choices, SendCodeResponse
<1>2. Goto(h, "idle") /\ UNCHANGED <<reqs, chosen>>
  BY DEF SendCodeResponse
<1>3. PICK k : k = [req |-> job[h].id, by |-> h, conn |-> job[h].conn,
                    claims |-> job[h].claims, expiry |-> now + CodeValidFor]
  OBVIOUS
<1>4. codes' \subseteq codes \cup {k}
  BY <1>3 DEF SendCodeResponse
<1>5. CodeChosen(k)'
  BY <1>1, <1>2, <1>3 DEF CodeChosen, JobChosen
<1>6. \A l \in Handlers \ {h} : pc'[l] = pc[l] /\ job'[l] = job[l]
  BY <1>1, <1>2 DEF Goto
<1>7. JobChosen(pc[h], job[h])'
  BY <1>1, <1>2 DEF Goto, JobChosen
<1>8. \A b \in Given : Named(b) => Named(b)'
  BY <1>2 DEF Named
<1> QED
  BY <1>2, <1>4, <1>5, <1>6, <1>7, <1>8, ChosenFrame

\* Every step, also outside the handlers.
LEMMA NextChosen ==
    ASSUME IInv, Choices, [Next]_vars
    PROVE  Choices'
<1>1. /\ pc \in [Handlers -> Places] /\ job \in [Handlers -> Job]
      /\ reqs \in [Keys -> AuthRequest]
  BY DEF IInv, TypeOK, Places
<1>2. ASSUME NEW S, Delete(S)
      PROVE  \A a \in Keys : reqs'[a] \in {reqs[a], ZeroAuthRequest}
  BY <1>2 DEF Delete
<1>3. ASSUME NEW h \in Handlers, Handle(h)
      PROVE  Choices'
  <2>1. CASE Login(h) \/ Abort(h)
    <3>1. PICK next \in {"idle", "finalize"} :
             /\ Goto(h, next) /\ (next = "finalize" => pc[h] = "login")
             /\ UNCHANGED <<reqs, codes, chosen>>
      BY <2>1 DEF Login, Abort
    <3>2. \A k \in Handlers :
             \/ job'[k] = job[k] /\ pc'[k] = pc[k]
             \/ job'[k] = job[k] /\ pc[k] = "login" /\ pc'[k] = "finalize"
             \/ pc'[k] = "idle"
      BY <1>1, <3>1 DEF Goto
    <3> QED
      BY <3>1, <3>2, DeletionChosen
  <2>2. CASE DeleteAuthRequest(h)
    <3>1. /\ UNCHANGED <<codes, chosen>> /\ Delete({job[h].id}) /\ pc[h] = "delete"
          /\ Goto(h, "idle") \/ Goto(h, "respond")
      BY <2>2 DEF DeleteAuthRequest
    <3>2. \A k \in Handlers :
             \/ job'[k] = job[k] /\ pc'[k] = pc[k]
             \/ job'[k] = job[k] /\ pc[k] = "delete" /\ pc'[k] = "respond"
             \/ pc'[k] = "idle"
      BY <1>1, <3>1 DEF Goto
    <3> QED
      BY <1>2, <3>1, <3>2, DeletionChosen
  <2> QED
    BY <1>3, <2>1, <2>2, GetsChosen, SetConnectorChosen, FinalizeChosen, SendChosen DEF Handle
<1>4. ASSUME NEW g \in Collectors, Collect(g) \/ FailCollection(g)
      PROVE  Choices'
  <2>1. UNCHANGED <<pc, job, chosen>> /\ codes' \subseteq codes
    BY <1>4 DEF Collect, CollectRequests, DeleteListedRequest, CollectCodes, DeleteListedCode,
                EndCollection, FailCollection
  <2>2. UNCHANGED reqs \/ \E S : Delete(S)
    BY <1>4 DEF Collect, CollectRequests, DeleteListedRequest, CollectCodes, DeleteListedCode,
                EndCollection, FailCollection
  <2> QED
    BY <1>2, <2>1, <2>2, DeletionChosen
<1>5. CASE (\E k \in codes : DeleteAuthCode(k)) \/ Tick \/ UNCHANGED vars
  <2>1. UNCHANGED <<reqs, pc, job, chosen>> /\ codes' \subseteq codes
    BY <1>5 DEF DeleteAuthCode, Tick, vars
  <2> QED
    BY <2>1, DeletionChosen
<1> QED
  BY <1>3, <1>4, <1>5, AuthorizationChosen DEF Next

\* Behind every code are two login pages that were opened for its request, the
\* one of the connector it names and the one of the connector its identity is
\* from: if only one connector's were opened, they are the same.
THEOREM CodesNameConnector == Spec => []CodesNameOnlyConnector
<1>1. Init => Choices
  <2> SUFFICES ASSUME Init PROVE Choices
    OBVIOUS
  <2>1. \A a \in AuthReqs : RequestChosen(a, reqs[a])
    <3>1. /\ ZeroAuthRequest.conn = None /\ ZeroAuthRequest.claims = None
          /\ ZeroAuthRequest.expiry = 0
      BY DEF ZeroAuthRequest
    <3> QED
      BY <3>1 DEF Init, Keys, RequestChosen
  <2>2. \A h \in Handlers : JobChosen(pc[h], job[h])
    BY DEF Init, JobChosen
  <2> QED
    BY <2>1, <2>2 DEF Init, Choices
<1>2. IInv /\ IInv' /\ Choices /\ [Next]_vars => Choices'
  BY NextChosen
<1>3. IInv /\ Choices => CodesNameOnlyConnector
  <2> SUFFICES ASSUME IInv, Choices, NEW k \in codes,
                      \A c \in Connectors : <<k.req, c>> \in chosen => c = k.claims
               PROVE  k.conn = k.claims
    BY DEF CodesNameOnlyConnector
  <2>1. <<k.req, k.conn>> \in chosen /\ chosen \subseteq Keys \X Connectors
    BY DEF Choices, CodeChosen, IInv, TypeOK
  <2>2. k.conn \in Connectors
    BY <2>1, SMT
  <2> QED
    BY <2>1, <2>2
<1> QED
  BY <1>1, <1>2, <1>3, AuthFlowInvariant, PTL DEF Spec

=============================================================================
