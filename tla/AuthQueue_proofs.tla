-------------------------- MODULE AuthQueue_proofs --------------------------
(***************************************************************************)
(* AuthQueue: types, the references of the agents, that an answer is for    *)
(* the one who was asked about, and that the queue does not stall.          *)
(***************************************************************************)
EXTENDS AuthQueue, Sublists_proofs

\* The agent that was asked about the head of the queue.
HeadAgent == IF auths = <<>> THEN NoAgent ELSE auths[1].agent

\* Who holds an agent, one by one.
ListHolds(a) == IF \E c \in Client : listed[c] = a THEN 1 ELSE 0
HeadHolds(a) == IF HeadAgent = a THEN 1 ELSE 0
BondHolds(a) == IF bond = a THEN (IF bondAsked THEN 2 ELSE 1) ELSE 0

\* A program has one agent, of its own.
ListInv == \A c, d \in Client : (listed[c] = listed[d] /\ listed[c] # NoAgent) => c = d

DefaultsInv ==
  /\ \A k \in DOMAIN defaults : \E c \in Client : listed[c] = defaults[k]
  /\ Distinct(defaults)

\* Only the head of the queue is asked about, once its services are known.
HeadInv == \A k \in DOMAIN auths :
  auths[k].agent # NoAgent => k = 1 /\ auths[k].svc = "no"

\* The count of an agent, and what a freed one forgets.
CountInv ==
  /\ \A a \in AgentId : agents[a].ref = ListHolds(a) + HeadHolds(a) + BondHolds(a)
  /\ \A a \in AgentId : agents[a].ref = 0 => agents[a].request = NoRequest

BondInv == bond = NoAgent => ~bondAsked

\* The question of a pairing is out at its agent only, and while it knows of it.
BondAskedInv == \A a \in AgentId : agents[a].request = BondRequest => bond = a /\ bondAsked

\* While trust does not change, the question that is out is about the head.
AskInv ==
  "trust" \notin ops =>
    /\ \A a \in AgentId : agents[a].request \in ReqId =>
         auths # <<>> /\ HeadAgent = a /\ auths[1].id = agents[a].request
    /\ HeadAgent # NoAgent => auths[1].dev \notin trusted

\* While nothing disturbs it, the head that was asked about is being asked
\* about, and the idle source is there when auth_idle_id says so.
MoveInv ==
  (ops = {} /\ ~reentered) =>
    /\ bond = NoAgent
    /\ idle <=> idleId
    /\ HeadAgent # NoAgent => agents[HeadAgent].request \in ReqId
    /\ (idle /\ HeadAgent # NoAgent) => Len(auths) >= 2
    /\ auths # <<>> => idle \/ auths[1].svc # "no" \/ HeadAgent # NoAgent

IInv == /\ TypeOK /\ ListInv /\ DefaultsInv /\ HeadInv /\ CountInv /\ BondInv
        /\ BondAskedInv /\ AskInv /\ MoveInv

-----------------------------------------------------------------------------
(* The agents                                                               *)

AgentRec == [ref : Nat, request : 0..BondRequest]
Table == [AgentId -> AgentRec]

\* Numbers of agents and of requests, and what stands for none.
LEMMA Bounds ==
  /\ AgentId \subseteq Nat /\ NoAgent \notin AgentId /\ NoAgent = 0
  /\ NoRequest \notin ReqId /\ BondRequest \notin ReqId /\ NoRequest = 0
  /\ NoRequest \in 0..BondRequest /\ BondRequest \in 0..BondRequest /\ ReqId \subseteq 0..BondRequest
BY MaxAgentAssumption, MaxReqAssumption DEF AgentId, NoAgent, NoRequest, ReqId, BondRequest

\* Setting one field of a counted agent.
LEMMA RecordFacts ==
  ASSUME NEW r \in AgentRec
  PROVE  /\ r.ref \in Nat /\ r.request \in 0..BondRequest
         /\ \A n \in Nat : /\ [r EXCEPT !.ref = n] \in AgentRec
                          /\ [r EXCEPT !.ref = n].ref = n /\ [r EXCEPT !.ref = n].request = r.request
         /\ \A q \in 0..BondRequest :
                          /\ [r EXCEPT !.request = q] \in AgentRec
                          /\ [r EXCEPT !.request = q].ref = r.ref /\ [r EXCEPT !.request = q].request = q
BY DEF AgentRec

\* agent_ref counts one more holder of one agent.
LEMMA AgentRefFacts ==
  ASSUME NEW A \in Table, NEW a \in AgentId
  PROVE  /\ AgentRef(A, a) \in Table
         /\ \A b \in AgentId : /\ AgentRef(A, a)[b].ref = IF b = a THEN A[b].ref + 1 ELSE A[b].ref
                               /\ AgentRef(A, a)[b].request = A[b].request
<1> DEFINE r == [A[a] EXCEPT !.ref = A[a].ref + 1]
<1>1. A[a] \in AgentRec /\ A[a].ref + 1 \in Nat
  BY RecordFacts DEF Table
<1>2. AgentRef(A, a) = [A EXCEPT ![a] = r]
  BY DEF AgentRef
<1>3. r \in AgentRec /\ r.ref = A[a].ref + 1 /\ r.request = A[a].request
  BY <1>1, RecordFacts
<1> HIDE DEF r
<1> QED BY <1>2, <1>3 DEF Table

\* agent_unref counts one holder less, and frees the agent with the last.
LEMMA AgentUnrefFacts ==
  ASSUME NEW A \in Table, NEW a \in AgentId, A[a].ref # 0
  PROVE  /\ AgentUnref(A, a) \in Table
         /\ \A b \in AgentId :
              /\ AgentUnref(A, a)[b].ref = IF b = a THEN A[b].ref - 1 ELSE A[b].ref
              /\ AgentUnref(A, a)[b].request =
                   IF b = a /\ A[b].ref = 1 THEN NoRequest ELSE A[b].request
<1> DEFINE r == IF A[a].ref = 1 THEN Freed ELSE [A[a] EXCEPT !.ref = A[a].ref - 1]
<1>1. A[a] \in AgentRec /\ A[a].ref \in Nat /\ A[a].ref - 1 \in Nat
  BY RecordFacts DEF Table
<1>2. AgentUnref(A, a) = [A EXCEPT ![a] = r]
  <2>1. CASE A[a].ref = 1
    BY <2>1 DEF AgentUnref
  <2>2. CASE A[a].ref # 1
    BY <2>2 DEF AgentUnref
  <2> QED BY <2>1, <2>2
<1>3. r \in AgentRec /\ r.ref = A[a].ref - 1 /\ r.request = IF A[a].ref = 1 THEN NoRequest ELSE A[a].request
  <2>1. CASE A[a].ref = 1
    BY <2>1, Bounds DEF Freed, AgentRec
  <2>2. CASE A[a].ref # 1
    BY <1>1, <2>2, RecordFacts
  <2> QED BY <2>1, <2>2
<1> HIDE DEF r
<1> QED BY <1>2, <1>3 DEF Table

\* Asking an agent sets its one request.
LEMMA AgentAskFacts ==
  ASSUME NEW A \in Table, NEW a \in AgentId, NEW q \in 0..BondRequest
  PROVE  /\ AgentAsk(A, a, q) \in Table
         /\ \A b \in AgentId : /\ AgentAsk(A, a, q)[b].ref = A[b].ref
                               /\ AgentAsk(A, a, q)[b].request = IF b = a THEN q ELSE A[b].request
<1> DEFINE r == [A[a] EXCEPT !.request = q]
<1>1. A[a] \in AgentRec
  BY DEF Table
<1>2. AgentAsk(A, a, q) = [A EXCEPT ![a] = r]
  BY DEF AgentAsk
<1>3. r \in AgentRec /\ r.ref = A[a].ref /\ r.request = q
  BY <1>1, RecordFacts
<1> HIDE DEF r
<1> QED BY <1>2, <1>3 DEF Table

\* agent_cancel forgets the request of one agent.
LEMMA AgentCancelFacts ==
  ASSUME NEW A \in Table, NEW a \in AgentId
  PROVE  /\ AgentCancel(A, a) \in Table
         /\ \A b \in AgentId : /\ AgentCancel(A, a)[b].ref = A[b].ref
                               /\ AgentCancel(A, a)[b].request = IF b = a THEN NoRequest ELSE A[b].request
<1>1. AgentCancel(A, a) = AgentAsk(A, a, NoRequest)
  BY DEF AgentCancel, AgentAsk
<1> QED BY <1>1, AgentAskFacts, Bounds

\* Each of those who can hold an agent holds it or not.
LEMMA HoldFacts ==
  ASSUME NEW a \in AgentId
  PROVE  /\ ListHolds(a) \in Nat /\ HeadHolds(a) \in Nat /\ BondHolds(a) \in Nat
         /\ (\E c \in Client : listed[c] = a) => ListHolds(a) = 1
         /\ HeadHolds(a) = IF HeadAgent = a THEN 1 ELSE 0
         /\ bond = a => BondHolds(a) >= 1
BY DEF ListHolds, HeadHolds, BondHolds

\* Who holds an agent keeps it from being freed.
LEMMA Held ==
  ASSUME IInv, NEW a \in AgentId
  PROVE  /\ agents \in Table /\ agents[a].ref \in Nat
         /\ (\E c \in Client : listed[c] = a) => agents[a].ref # 0
         /\ HeadAgent = a => agents[a].ref # 0
         /\ bond = a => agents[a].ref # 0
         /\ (bond = a /\ bondAsked) => agents[a].ref >= 2
         /\ (HeadAgent = a /\ \E c \in Client : listed[c] = a) => agents[a].ref >= 2
<1>1. agents \in Table /\ agents[a].ref \in Nat
  BY DEF IInv, TypeOK, Table, AgentRec
<1>2. agents[a].ref = ListHolds(a) + HeadHolds(a) + BondHolds(a)
  BY DEF IInv, CountInv
<1>3. (bond = a /\ bondAsked) => BondHolds(a) = 2
  BY DEF BondHolds
<1> QED BY <1>1, <1>2, <1>3, HoldFacts

\* The entries of the queue.
LEMMA HeadFacts ==
  ASSUME TypeOK, HeadInv
  PROVE  /\ auths \in Seq(Entry) /\ Len(auths) \in Nat /\ DOMAIN auths = 1..Len(auths)
         /\ auths # <<>> => 1 \in DOMAIN auths /\ auths[1] \in Entry /\ HeadAgent = auths[1].agent
         /\ HeadAgent \in AgentId \cup {NoAgent}
         /\ HeadAgent # NoAgent => auths # <<>> /\ auths[1].svc = "no"
         /\ \A k \in DOMAIN auths : auths[k] \in Entry
<1>1. auths \in Seq(Entry) /\ Len(auths) \in Nat /\ DOMAIN auths = 1..Len(auths)
  BY DEF TypeOK
<1>2. \A k \in DOMAIN auths : auths[k] \in Entry
  BY <1>1
<1>3. auths # <<>> => 1 \in DOMAIN auths
  BY <1>1
<1>4. HeadAgent \in AgentId \cup {NoAgent}
  BY <1>2, <1>3 DEF HeadAgent, Entry
<1> QED BY <1>1, <1>2, <1>3, <1>4 DEF HeadAgent, HeadInv

-----------------------------------------------------------------------------
(* Steps that leave the agents alone                                        *)

\* The queue changes, its head is the one it was.
LEMMA QueueStep ==
  ASSUME IInv, TypeOK', HeadInv', MoveInv',
         UNCHANGED <<ops, agentVars, bondVars, reentered>>,
         HeadAgent' = HeadAgent,
         HeadAgent # NoAgent => auths' # <<>> /\ auths'[1].id = auths[1].id /\ auths'[1].dev = auths[1].dev,
         "trust" \notin ops => trusted' = trusted
  PROVE  IInv'
<1>1. ListInv' /\ DefaultsInv' /\ BondInv' /\ BondAskedInv'
  <2>1. UNCHANGED <<agents, listed, defaults, bond, bondAsked>>
    BY DEF agentVars, bondVars
  <2>2. ListInv' /\ DefaultsInv'
    BY <2>1 DEF IInv, ListInv, DefaultsInv
  <2> QED BY <2>1, <2>2 DEF IInv, BondInv, BondAskedInv
<1>2. CountInv'
  <2>1. \A a \in AgentId : ListHolds(a)' = ListHolds(a) /\ HeadHolds(a)' = HeadHolds(a) /\ BondHolds(a)' = BondHolds(a)
    BY DEF ListHolds, HeadHolds, BondHolds, agentVars, bondVars
  <2> QED BY <2>1 DEF IInv, CountInv, agentVars
<1>3. AskInv'
  <2> SUFFICES ASSUME "trust" \notin ops PROVE AskInv'
    BY DEF AskInv
  <2>1. agents' = agents /\ trusted' = trusted /\ AskInv
    BY DEF agentVars, IInv
  <2>2. \A a \in AgentId : agents'[a].request \in ReqId =>
          auths' # <<>> /\ HeadAgent' = a /\ auths'[1].id = agents'[a].request
    BY <2>1, Bounds DEF AskInv
  <2>3. HeadAgent' # NoAgent => auths'[1].dev \notin trusted'
    BY <2>1 DEF AskInv
  <2> QED BY <2>2, <2>3 DEF AskInv
<1> QED BY <1>1, <1>2, <1>3 DEF IInv

\* A new request goes to the end of the queue and was not asked about.
LEMMA PushFacts ==
  ASSUME IInv, NEW d, NEW s \in {"no", "idle", "wait"}, Push(d, s)
  PROVE  /\ auths' \in Seq(Entry) /\ nreq' \in 0..MaxReq
         /\ outcome' \in [ReqId -> {"none", "queued", "yes", "no", "cancelled"}]
         /\ HeadInv' /\ HeadAgent' = HeadAgent /\ auths' # <<>> /\ Len(auths') = Len(auths) + 1
         /\ auths # <<>> => auths'[1] = auths[1]
         /\ auths = <<>> => auths'[1].svc = s
<1> DEFINE e == [id |-> nreq + 1, dev |-> d, svc |-> s, agent |-> NoAgent]
<1>1. /\ nreq < MaxReq /\ d \in devs /\ nreq' = nreq + 1 /\ auths' = Append(auths, e)
      /\ outcome' = [outcome EXCEPT ![nreq + 1] = "queued"]
  BY DEF Push
<1>2. nreq + 1 \in ReqId /\ nreq' \in 0..MaxReq
  BY <1>1, MaxReqAssumption DEF IInv, TypeOK, ReqId
<1>3. e \in Entry /\ e.agent = NoAgent /\ e.svc = s
  BY <1>1, <1>2 DEF Entry, IInv, TypeOK
<1> HIDE DEF e
<1>4. /\ auths \in Seq(Entry) /\ Len(auths) \in Nat /\ DOMAIN auths = 1..Len(auths)
      /\ auths # <<>> => 1 \in DOMAIN auths
  BY HeadFacts DEF IInv
<1>5. /\ auths' \in Seq(Entry) /\ auths' # <<>> /\ Len(auths') = Len(auths) + 1
      /\ DOMAIN auths' = DOMAIN auths \cup {Len(auths) + 1}
      /\ \A k \in DOMAIN auths : auths'[k] = auths[k]
      /\ auths'[Len(auths) + 1] = e
  BY <1>1, <1>3, <1>4, AppendList
<1>6. HeadInv'
  BY <1>3, <1>5 DEF IInv, HeadInv
<1>7. auths = <<>> => auths'[1] = e
  BY <1>5
<1>8. auths # <<>> => auths'[1] = auths[1]
  BY <1>4, <1>5
<1>9. HeadAgent' = HeadAgent
  BY <1>3, <1>5, <1>7, <1>8 DEF HeadAgent
<1>10. outcome' \in [ReqId -> {"none", "queued", "yes", "no", "cancelled"}]
  BY <1>1, <1>2 DEF IInv, TypeOK
<1> QED BY <1>2, <1>3, <1>5, <1>6, <1>7, <1>8, <1>9, <1>10

\* svc_complete schedules the queue unless auth_idle_id says it is.
LEMMA ScheduleFacts ==
  ASSUME idle \in BOOLEAN, idleId \in BOOLEAN, Schedule
  PROVE  /\ idle' \in BOOLEAN /\ idleId' \in BOOLEAN /\ idleId'
         /\ (idle <=> idleId) => idle'
BY Zenon DEF Schedule

\* btd_request_authorization, with and without a cable, keeps the invariant.
LEMMA RequestStep ==
  ASSUME IInv, NEW d \in Dev, RequestAuthorization(d) \/ RequestCableConfigured(d)
  PROVE  IInv'
<1>1. CASE RequestAuthorization(d)
  <2>1. PICK s \in {"idle", "wait"} : Push(d, s)
    BY <1>1 DEF RequestAuthorization
  <2>2. UNCHANGED <<idle, idleId, ops, agentVars, devVars, bondVars, reentered>>
    BY <1>1 DEF RequestAuthorization
  <2>3. /\ auths' \in Seq(Entry) /\ nreq' \in 0..MaxReq
        /\ outcome' \in [ReqId -> {"none", "queued", "yes", "no", "cancelled"}]
        /\ HeadInv' /\ HeadAgent' = HeadAgent /\ auths' # <<>> /\ Len(auths') = Len(auths) + 1
        /\ auths # <<>> => auths'[1] = auths[1]
        /\ auths = <<>> => auths'[1].svc = s
    BY <2>1, PushFacts
  <2>4. TypeOK'
    BY <2>2, <2>3 DEF IInv, TypeOK, agentVars, devVars, bondVars
  <2>5. Len(auths) \in Nat /\ (HeadAgent # NoAgent => auths # <<>>)
    BY HeadFacts DEF IInv
  <2>6. MoveInv'
    BY <2>2, <2>3, <2>5 DEF IInv, MoveInv, agentVars, bondVars
  <2> QED BY <2>2, <2>3, <2>4, <2>5, <2>6, QueueStep DEF devVars
<1>2. CASE RequestCableConfigured(d)
  <2>1. Push(d, "no") /\ Schedule /\ UNCHANGED <<ops, agentVars, devVars, bondVars, reentered>>
    BY <1>2 DEF RequestCableConfigured
  <2>2. /\ auths' \in Seq(Entry) /\ nreq' \in 0..MaxReq
        /\ outcome' \in [ReqId -> {"none", "queued", "yes", "no", "cancelled"}]
        /\ HeadInv' /\ HeadAgent' = HeadAgent /\ auths' # <<>> /\ Len(auths') = Len(auths) + 1
        /\ auths # <<>> => auths'[1] = auths[1]
    BY <2>1, PushFacts
  <2>3. idle' \in BOOLEAN /\ idleId' \in BOOLEAN /\ idleId' /\ ((idle <=> idleId) => idle')
    BY <2>1, ScheduleFacts DEF IInv, TypeOK
  <2>4. TypeOK'
    BY <2>1, <2>2, <2>3 DEF IInv, TypeOK, agentVars, devVars, bondVars
  <2>5. Len(auths) \in Nat /\ (HeadAgent # NoAgent => auths # <<>> /\ Len(auths) >= 1)
    BY HeadFacts DEF IInv
  <2>6. MoveInv'
    BY <2>1, <2>2, <2>3, <2>5 DEF IInv, MoveInv, agentVars, bondVars
  <2> QED BY <2>1, <2>2, <2>4, <2>5, <2>6, QueueStep DEF devVars
<1> QED BY <1>1, <1>2

\* svc_complete, of one entry or of all of a device.
LEMMA SvcCompleteStep ==
  ASSUME IInv, NEW I, SvcComplete(I),
         UNCHANGED <<nreq, outcome, ops, agentVars, devVars, bondVars, reentered>>
  PROVE  IInv'
<1>1. /\ I # {} /\ \A k \in I : k \in DOMAIN auths /\ auths[k].svc # "no"
      /\ auths' = [k \in DOMAIN auths |-> IF k \in I THEN [auths[k] EXCEPT !.svc = "no"] ELSE auths[k]]
      /\ Schedule
  BY DEF SvcComplete, Waiting
<1>2. /\ auths \in Seq(Entry) /\ Len(auths) \in Nat /\ DOMAIN auths = 1..Len(auths)
      /\ \A k \in DOMAIN auths : auths[k] \in Entry
      /\ auths # <<>> => 1 \in DOMAIN auths
      /\ HeadAgent # NoAgent => auths # <<>> /\ auths[1].svc = "no"
  BY HeadFacts DEF IInv
<1>3. \A x \in Entry : /\ [x EXCEPT !.svc = "no"] \in Entry
                       /\ [x EXCEPT !.svc = "no"].id = x.id /\ [x EXCEPT !.svc = "no"].dev = x.dev
                       /\ [x EXCEPT !.svc = "no"].agent = x.agent /\ [x EXCEPT !.svc = "no"].svc = "no"
  BY DEF Entry
<1>4. /\ DOMAIN auths' = DOMAIN auths
      /\ \A k \in DOMAIN auths : /\ auths'[k] \in Entry /\ auths'[k].id = auths[k].id
                                 /\ auths'[k].dev = auths[k].dev /\ auths'[k].agent = auths[k].agent
                                 /\ auths[k].svc = "no" => auths'[k].svc = "no"
  BY <1>1, <1>2, <1>3
<1>5. auths' \in Seq(Entry) /\ Len(auths') = Len(auths) /\ (auths' = <<>> <=> auths = <<>>)
  <2>1. auths' \in [1..Len(auths) -> Entry]
    BY <1>1, <1>2, <1>4
  <2> QED BY <1>2, <2>1
<1>6. idle' \in BOOLEAN /\ idleId' \in BOOLEAN /\ idleId' /\ ((idle <=> idleId) => idle')
  BY <1>1, ScheduleFacts DEF IInv, TypeOK
<1>7. TypeOK'
  BY <1>5, <1>6 DEF IInv, TypeOK, agentVars, devVars, bondVars
<1>8. HeadInv'
  BY <1>4 DEF IInv, HeadInv
<1>9. HeadAgent' = HeadAgent
  BY <1>2, <1>4, <1>5 DEF HeadAgent
<1>10. MoveInv'
  <2>1. HeadAgent # NoAgent => Len(auths') >= 2
    <3> SUFFICES ASSUME HeadAgent # NoAgent PROVE Len(auths') >= 2
      OBVIOUS
    <3>1. PICK k \in I : k \in DOMAIN auths /\ auths[k].svc # "no"
      BY <1>1
    <3>2. k # 1 /\ k \in 1..Len(auths)
      BY <1>2, <3>1
    <3> QED BY <1>2, <1>5, <3>2
  <2> QED BY <1>5, <1>6, <1>9, <2>1 DEF IInv, MoveInv, agentVars, bondVars
<1>11. HeadAgent # NoAgent => auths' # <<>> /\ auths'[1].id = auths[1].id /\ auths'[1].dev = auths[1].dev
  BY <1>2, <1>4, <1>5
<1> QED BY <1>7, <1>8, <1>9, <1>10, <1>11, QueueStep DEF devVars

\* btd_device_set_trusted keeps the invariant.
LEMMA SetTrustedStep ==
  ASSUME IInv, NEW d \in Dev, SetTrusted(d)
  PROVE  IInv'
<1>1. /\ "trust" \in ops /\ d \in devs
      /\ trusted' = IF d \in trusted THEN trusted \ {d} ELSE trusted \cup {d}
      /\ UNCHANGED <<devs, ops, agentVars, queueVars, bondVars, reentered>>
  BY DEF SetTrusted
<1>2. TypeOK'
  BY <1>1 DEF IInv, TypeOK, agentVars, queueVars, bondVars
<1>3. HeadInv' /\ HeadAgent' = HeadAgent /\ auths' = auths
  BY <1>1 DEF IInv, HeadInv, HeadAgent, queueVars
<1>4. MoveInv'
  BY <1>1 DEF MoveInv
<1>5. HeadAgent # NoAgent => auths # <<>>
  BY HeadFacts DEF IInv
<1> QED BY <1>1, <1>2, <1>3, <1>4, <1>5, QueueStep

-----------------------------------------------------------------------------
(* Steps that leave the queue alone                                         *)

\* A step that leaves the queue and the devices alone keeps the invariant, if
\* the agents stay counted and only a pairing asks.
LEMMA AgentsStep ==
  ASSUME IInv, UNCHANGED <<ops, queueVars, devVars>>,
         agents' \in Table, listed' \in [Client -> AgentId \cup {NoAgent}], defaults' \in Seq(AgentId),
         bond' \in AgentId \cup {NoAgent}, bondAsked' \in BOOLEAN, reentered' \in BOOLEAN,
         ListInv', DefaultsInv', BondInv', BondAskedInv',
         \A a \in AgentId : agents'[a].ref = ListHolds(a)' + HeadHolds(a) + BondHolds(a)',
         \A a \in AgentId : agents'[a].ref = 0 => agents'[a].request = NoRequest,
         \A a \in AgentId : agents'[a].request \in {agents[a].request, NoRequest, BondRequest},
         (ops = {} /\ ~reentered') =>
            /\ ~reentered /\ bond' = NoAgent
            /\ HeadAgent # NoAgent => agents'[HeadAgent].request = agents[HeadAgent].request
  PROVE  IInv'
<1>1. UNCHANGED <<ops, auths, idle, idleId, nreq, outcome, devs, trusted>>
  BY DEF queueVars, devVars
<1>2. HeadAgent' = HeadAgent /\ HeadInv'
  BY <1>1 DEF HeadAgent, IInv, HeadInv
<1>3. TypeOK'
  BY <1>1 DEF IInv, TypeOK, Table, AgentRec
<1>4. CountInv'
  <2>1. \A a \in AgentId : HeadHolds(a)' = HeadHolds(a)
    BY <1>2 DEF HeadHolds
  <2> QED BY <2>1 DEF CountInv
<1>5. AskInv'
  <2> SUFFICES ASSUME "trust" \notin ops PROVE AskInv'
    BY <1>1 DEF AskInv
  <2>1. \A a \in AgentId : agents'[a].request \in ReqId => agents[a].request = agents'[a].request
    BY Bounds
  <2> QED BY <1>1, <1>2, <2>1 DEF IInv, AskInv
<1>6. MoveInv'
  BY <1>1, <1>2 DEF IInv, MoveInv
<1> QED BY <1>2, <1>3, <1>4, <1>5, <1>6 DEF IInv

\* A step at the agents that asks no question for a pairing keeps BondAskedInv.
LEMMA BondAskedKept ==
  ASSUME IInv, UNCHANGED <<bond, bondAsked>>,
         \A a \in AgentId : agents'[a].request \in {agents[a].request, NoRequest}
  PROVE  BondAskedInv'
<1>1. BondRequest # NoRequest
  BY MaxReqAssumption DEF BondRequest, NoRequest
<1> QED BY <1>1 DEF IInv, BondAskedInv

\* What every step may use of the agents.
LEMMA AgentTypes ==
  ASSUME IInv
  PROVE  /\ agents \in Table /\ listed \in [Client -> AgentId \cup {NoAgent}] /\ defaults \in Seq(AgentId)
         /\ bond \in AgentId \cup {NoAgent} /\ bondAsked \in BOOLEAN /\ reentered \in BOOLEAN
         /\ ListInv /\ DefaultsInv /\ BondInv
         /\ \A a \in AgentId : agents[a].ref = ListHolds(a) + HeadHolds(a) + BondHolds(a)
         /\ \A a \in AgentId : agents[a].ref = 0 => agents[a].request = NoRequest
BY DEF IInv, TypeOK, Table, AgentRec, CountInv

\* The default agent is in the list.
LEMMA DefaultFacts ==
  ASSUME IInv
  PROVE  /\ Default \in AgentId \cup {NoAgent}
         /\ Default # NoAgent => \E c \in Client : listed[c] = Default
<1>1. defaults \in Seq(AgentId) /\ DefaultsInv
  BY AgentTypes
<1>2. defaults # <<>> => 1 \in DOMAIN defaults /\ Head(defaults) = defaults[1] /\ defaults[1] \in AgentId
  BY <1>1
<1> QED BY <1>1, <1>2 DEF Default, DefaultsInv

\* An agent is taken out of the default agents: the others stay, each once.
LEMMA WithoutFacts ==
  ASSUME NEW q \in Seq(AgentId), Distinct(q), NEW a
  PROVE  /\ Without(q, a) \in Seq(AgentId) /\ Distinct(Without(q, a))
         /\ \A k \in DOMAIN Without(q, a) : \E j \in DOMAIN q : Without(q, a)[k] = q[j] /\ q[j] # a
<1> DEFINE K == {k \in DOMAIN q : q[k] # a}
<1>1. K \in SUBSET (DOMAIN q)
  OBVIOUS
<1>2. \A k \in K : k \in DOMAIN q /\ q[k] # a
  OBVIOUS
<1>3. Without(q, a) = Keep(q, K)
  BY DEF Without
<1> HIDE DEF K
<1>4. Keep(q, K) \in Seq(AgentId) /\ Distinct(Keep(q, K))
  BY <1>1, KeepList
<1>5. \A n \in DOMAIN Keep(q, K) : Nth(K, n) \in K /\ Keep(q, K)[n] = q[Nth(K, n)]
  BY <1>1, KeepFacts
<1> QED BY <1>2, <1>3, <1>4, <1>5

\* register_agent makes an agent with one holder.
LEMMA RegisterAgentStep ==
  ASSUME IInv, NEW c \in Client, RegisterAgent(c),
         UNCHANGED <<queueVars, ops, devVars, bondVars, reentered>>
  PROVE  IInv'
<1>1. PICK a \in AgentId : /\ agents[a].ref = 0
                           /\ agents' = [agents EXCEPT ![a] = [ref |-> 1, request |-> NoRequest]]
                           /\ listed' = [listed EXCEPT ![c] = a]
  BY DEF RegisterAgent
<1>2. listed[c] = NoAgent /\ defaults' = defaults /\ UNCHANGED <<bond, bondAsked, reentered>>
  BY DEF RegisterAgent, bondVars
<1>t. /\ agents \in Table /\ listed \in [Client -> AgentId \cup {NoAgent}] /\ defaults \in Seq(AgentId)
      /\ ListInv /\ DefaultsInv /\ BondInv
      /\ \A b \in AgentId : agents[b].ref = ListHolds(b) + HeadHolds(b) + BondHolds(b)
      /\ \A b \in AgentId : agents[b].ref = 0 => agents[b].request = NoRequest
  BY AgentTypes
<1>3. ~\E e \in Client : listed[e] = a
  BY <1>1, Held
<1>4. HeadAgent # a /\ bond # a /\ HeadHolds(a) = 0 /\ BondHolds(a) = 0
  <2>1. HeadAgent # a /\ bond # a
    BY <1>1, Held
  <2> QED BY <2>1 DEF HeadHolds, BondHolds
<1>5. [ref |-> 1, request |-> NoRequest] \in AgentRec
  BY Bounds DEF AgentRec
<1>6. agents' \in Table /\ \A b \in AgentId : agents'[b] = IF b = a THEN [ref |-> 1, request |-> NoRequest] ELSE agents[b]
  BY <1>1, <1>5, <1>t DEF Table
<1>7. /\ listed' \in [Client -> AgentId \cup {NoAgent}]
      /\ \A e \in Client : listed'[e] = IF e = c THEN a ELSE listed[e]
  BY <1>1, <1>t
<1>8. ListInv'
  BY <1>3, <1>7, <1>t DEF ListInv
<1>9. DefaultsInv'
  <2>1. \A k \in DOMAIN defaults : defaults[k] \in AgentId
    BY <1>t
  <2>2. \A k \in DOMAIN defaults : \E e \in Client : listed'[e] = defaults[k]
    <3> TAKE k \in DOMAIN defaults
    <3>1. PICK e \in Client : listed[e] = defaults[k]
      BY <1>t DEF DefaultsInv
    <3>2. e # c
      BY <1>2, <2>1, <3>1, Bounds
    <3> QED BY <1>7, <3>1, <3>2
  <2> QED BY <1>2, <1>t, <2>2 DEF DefaultsInv
<1>10. \A b \in AgentId : ListHolds(b)' = IF b = a THEN 1 ELSE ListHolds(b)
  <2> TAKE b \in AgentId
  <2>1. b # NoAgent
    BY Bounds
  <2>2. (\E e \in Client : listed'[e] = b) <=> (b = a \/ \E e \in Client : listed[e] = b)
    BY <1>2, <1>7, <2>1
  <2> QED BY <2>2 DEF ListHolds
<1>11. \A b \in AgentId : BondHolds(b)' = BondHolds(b)
  BY <1>2 DEF BondHolds
<1>12. \A b \in AgentId : agents'[b].ref = ListHolds(b)' + HeadHolds(b) + BondHolds(b)'
  <2> TAKE b \in AgentId
  <2>1. CASE b = a
    BY <1>4, <1>6, <1>10, <1>11, <2>1
  <2>2. CASE b # a
    BY <1>6, <1>10, <1>11, <1>t, <2>2
  <2> QED BY <2>1, <2>2
<1>13. /\ \A b \in AgentId : agents'[b].ref = 0 => agents'[b].request = NoRequest
       /\ \A b \in AgentId : agents'[b].request \in {agents[b].request, NoRequest, BondRequest}
       /\ \A b \in AgentId : b # a => agents'[b].request = agents[b].request
  BY <1>6, <1>t
<1>14. (ops = {} /\ ~reentered') =>
            /\ ~reentered /\ bond' = NoAgent
            /\ HeadAgent # NoAgent => agents'[HeadAgent].request = agents[HeadAgent].request
  <2>1. HeadAgent \in AgentId \cup {NoAgent}
    BY HeadFacts DEF IInv
  <2>2. HeadAgent # NoAgent => agents'[HeadAgent].request = agents[HeadAgent].request
    BY <1>4, <1>13, <2>1
  <2> QED BY <1>2, <2>2 DEF IInv, MoveInv
<1>b. BondAskedInv'
  <2>1. \A b \in AgentId : agents'[b].request \in {agents[b].request, NoRequest}
    BY <1>6
  <2> QED BY <1>2, <2>1, BondAskedKept
<1>15. defaults' \in Seq(AgentId) /\ bond' \in AgentId \cup {NoAgent} /\ bondAsked' \in BOOLEAN
       /\ reentered' \in BOOLEAN /\ BondInv'
  BY <1>2, AgentTypes DEF BondInv
<1> QED BY <1>6, <1>7, <1>8, <1>9, <1>12, <1>13, <1>14, <1>15, <1>b, AgentsStep

\* request_default puts a listed agent first.
LEMMA RequestDefaultStep ==
  ASSUME IInv, NEW c \in Client, RequestDefault(c),
         UNCHANGED <<queueVars, ops, devVars, bondVars, reentered>>
  PROVE  IInv'
<1> DEFINE a == listed[c]
           w == Without(defaults, a)
<1>1. a # NoAgent /\ defaults' = <<a>> \o w /\ UNCHANGED <<agents, listed, bond, bondAsked, reentered>>
  BY DEF RequestDefault, bondVars
<1>t. /\ listed \in [Client -> AgentId \cup {NoAgent}] /\ defaults \in Seq(AgentId)
      /\ ListInv /\ DefaultsInv /\ BondInv
  BY AgentTypes
<1>2. a \in AgentId
  BY <1>1, <1>t
<1>3. /\ w \in Seq(AgentId) /\ Distinct(w)
      /\ \A k \in DOMAIN w : \E j \in DOMAIN defaults : w[k] = defaults[j] /\ defaults[j] # a
  BY <1>t, WithoutFacts DEF DefaultsInv
<1>i. \E e \in Client : listed[e] = a
  OBVIOUS
<1> HIDE DEF a, w
<1>4. /\ defaults' \in Seq(AgentId) /\ Len(w) \in Nat /\ DOMAIN w = 1..Len(w)
      /\ DOMAIN defaults' = 1..(Len(w) + 1) /\ defaults'[1] = a
      /\ \A k \in 2..(Len(w) + 1) : k - 1 \in DOMAIN w /\ defaults'[k] = w[k - 1]
  <2>1. <<a>> \in Seq(AgentId) /\ Len(<<a>>) = 1 /\ <<a>>[1] = a
    BY <1>2
  <2>2. Len(w) \in Nat /\ DOMAIN w = 1..Len(w)
    BY <1>3
  <2>3. /\ <<a>> \o w \in Seq(AgentId) /\ Len(<<a>> \o w) = 1 + Len(w)
        /\ \A i \in 1..(1 + Len(w)) : (<<a>> \o w)[i] = IF i <= 1 THEN <<a>>[i] ELSE w[i - 1]
    BY <1>3, <2>1, ConcatProperties
  <2> QED BY <1>1, <2>1, <2>2, <2>3
<1>5. \A k \in DOMAIN defaults' : k # 1 => k \in 2..(Len(w) + 1) /\ k - 1 \in DOMAIN w /\ defaults'[k] = w[k - 1]
  BY <1>4
<1>6. \A k \in DOMAIN defaults' : \E e \in Client : listed'[e] = defaults'[k]
  <2> TAKE k \in DOMAIN defaults'
  <2>1. CASE k = 1
    BY <1>1, <1>4, <1>i, <2>1
  <2>2. CASE k # 1
    <3>1. PICK j \in DOMAIN defaults : w[k - 1] = defaults[j]
      BY <1>3, <1>5, <2>2
    <3> QED BY <1>1, <1>5, <1>t, <2>2, <3>1 DEF DefaultsInv
  <2> QED BY <2>1, <2>2
<1>7. \A k \in DOMAIN defaults' : k # 1 => defaults'[k] # a
  BY <1>3, <1>5
<1>8. Distinct(defaults')
  <2> SUFFICES ASSUME NEW j \in DOMAIN defaults', NEW k \in DOMAIN defaults', defaults'[j] = defaults'[k]
               PROVE  j = k
    BY DEF Distinct
  <2>1. CASE j = 1 \/ k = 1
    BY <1>4, <1>7, <2>1
  <2>2. CASE j # 1 /\ k # 1
    <3>1. j - 1 = k - 1
      BY <1>3, <1>5, <2>2 DEF Distinct
    <3> QED BY <1>4, <3>1
  <2> QED BY <2>1, <2>2
<1>9. DefaultsInv'
  BY <1>6, <1>8 DEF DefaultsInv, Distinct
<1>10. /\ agents' \in Table /\ listed' \in [Client -> AgentId \cup {NoAgent}]
       /\ bond' \in AgentId \cup {NoAgent} /\ bondAsked' \in BOOLEAN /\ reentered' \in BOOLEAN
       /\ ListInv' /\ BondInv'
  BY <1>1, AgentTypes DEF ListInv, BondInv
<1>11. \A b \in AgentId : agents'[b].ref = ListHolds(b)' + HeadHolds(b) + BondHolds(b)'
  <2>1. \A b \in AgentId : ListHolds(b)' = ListHolds(b) /\ BondHolds(b)' = BondHolds(b)
    BY <1>1 DEF ListHolds, BondHolds
  <2> QED BY <1>1, <2>1, AgentTypes
<1>12. /\ \A b \in AgentId : agents'[b].ref = 0 => agents'[b].request = NoRequest
       /\ \A b \in AgentId : agents'[b].request \in {agents[b].request, NoRequest, BondRequest}
  BY <1>1, AgentTypes
<1>13. (ops = {} /\ ~reentered') =>
            /\ ~reentered /\ bond' = NoAgent
            /\ HeadAgent # NoAgent => agents'[HeadAgent].request = agents[HeadAgent].request
  BY <1>1 DEF IInv, MoveInv
<1>b. BondAskedInv'
  BY <1>1, BondAskedKept
<1> QED BY <1>4, <1>9, <1>10, <1>11, <1>12, <1>13, <1>b, AgentsStep

\* An agent leaves: those who hold it keep it.
LEMMA AgentLeavesStep ==
  ASSUME IInv, NEW c \in Client, AgentLeaves(c), ~reentered
  PROVE  IInv'
<1> DEFINE a == listed[c]
<1>1. /\ a # NoAgent /\ defaults' = Without(defaults, a)
      /\ listed' = [listed EXCEPT ![c] = NoAgent] /\ agents' = AgentUnref(agents, a)
      /\ reentered' = UnrefAnswers(agents, a) /\ UNCHANGED <<bond, bondAsked, queueVars, ops, devVars>>
  BY DEF AgentLeaves, AgentDisconnect, bondVars
<1>t. /\ agents \in Table /\ listed \in [Client -> AgentId \cup {NoAgent}] /\ defaults \in Seq(AgentId)
      /\ ListInv /\ DefaultsInv /\ BondInv
      /\ \A b \in AgentId : agents[b].ref = ListHolds(b) + HeadHolds(b) + BondHolds(b)
      /\ \A b \in AgentId : agents[b].ref = 0 => agents[b].request = NoRequest
  BY AgentTypes
<1>2. a \in AgentId /\ agents[a].ref # 0 /\ (HeadAgent = a => agents[a].ref >= 2)
  <2>1. a \in AgentId
    BY <1>1, <1>t
  <2> QED BY <2>1, Held
<1>i. \A b \in AgentId : b # a => ((\E e \in Client : e # c /\ listed[e] = b) <=> (\E e \in Client : listed[e] = b))
  OBVIOUS
<1>j. ~\E e \in Client : e # c /\ listed[e] = a
  BY <1>1, <1>t DEF ListInv
<1>k. \E e \in Client : listed[e] = a
  OBVIOUS
<1>l. \A e \in Client : e # c => listed'[e] = listed[e]
  BY <1>1, <1>t
<1>m. listed' \in [Client -> AgentId \cup {NoAgent}] /\ listed'[c] = NoAgent
  BY <1>1, <1>t
<1> HIDE DEF a
<1>3. /\ agents' \in Table
      /\ \A b \in AgentId :
              /\ agents'[b].ref = IF b = a THEN agents[b].ref - 1 ELSE agents[b].ref
              /\ agents'[b].request = IF b = a /\ agents[b].ref = 1 THEN NoRequest ELSE agents[b].request
  BY <1>1, <1>2, <1>t, AgentUnrefFacts
<1>4. ListInv'
  BY <1>l, <1>m, <1>t DEF ListInv
<1>5. /\ defaults' \in Seq(AgentId) /\ Distinct(defaults')
      /\ \A k \in DOMAIN defaults' : \E j \in DOMAIN defaults : defaults'[k] = defaults[j] /\ defaults[j] # a
  BY <1>1, <1>t, WithoutFacts DEF DefaultsInv
<1>6. DefaultsInv'
  <2>1. \A k \in DOMAIN defaults' : \E e \in Client : listed'[e] = defaults'[k]
    <3> TAKE k \in DOMAIN defaults'
    <3>1. PICK j \in DOMAIN defaults : defaults'[k] = defaults[j] /\ defaults[j] # a
      BY <1>5
    <3>2. PICK e \in Client : listed[e] = defaults[j]
      BY <1>t DEF DefaultsInv
    <3>3. e # c
      BY <3>1, <3>2 DEF a
    <3> QED BY <1>l, <3>1, <3>2, <3>3
  <2> QED BY <1>5, <2>1 DEF DefaultsInv, Distinct
<1>7. \A b \in AgentId : ListHolds(b)' = IF b = a THEN 0 ELSE ListHolds(b)
  <2> TAKE b \in AgentId
  <2>1. (\E e \in Client : listed'[e] = b) <=> (\E e \in Client : e # c /\ listed[e] = b)
    BY <1>l, <1>m, Bounds
  <2> QED BY <1>i, <1>j, <2>1 DEF ListHolds
<1>8. ListHolds(a) = 1
  BY <1>2, <1>k, HoldFacts
<1>9. \A b \in AgentId : BondHolds(b)' = BondHolds(b)
  BY <1>1 DEF BondHolds
<1>10. \A b \in AgentId : agents'[b].ref = ListHolds(b)' + HeadHolds(b) + BondHolds(b)'
  <2> TAKE b \in AgentId
  <2>0. HeadHolds(b) \in Nat /\ BondHolds(b) \in Nat
    BY HoldFacts
  <2>1. CASE b = a
    BY <1>3, <1>7, <1>8, <1>9, <1>t, <2>0, <2>1
  <2>2. CASE b # a
    BY <1>3, <1>7, <1>9, <1>t, <2>2
  <2> QED BY <2>1, <2>2
<1>11. \A b \in AgentId : agents'[b].ref = 0 => agents'[b].request = NoRequest
  <2> TAKE b \in AgentId
  <2>0. agents[b].ref \in Nat
    BY <1>t DEF Table, AgentRec
  <2>1. CASE b = a
    BY <1>3, <2>0, <2>1
  <2>2. CASE b # a
    BY <1>3, <1>t, <2>2
  <2> QED BY <2>1, <2>2
<1>12. \A b \in AgentId : agents'[b].request \in {agents[b].request, NoRequest, BondRequest}
  BY <1>3
<1>13. (ops = {} /\ ~reentered') =>
            /\ ~reentered /\ bond' = NoAgent
            /\ HeadAgent # NoAgent => agents'[HeadAgent].request = agents[HeadAgent].request
  <2>1. HeadAgent \in AgentId \cup {NoAgent}
    BY HeadFacts DEF IInv
  <2>2. HeadAgent # NoAgent => agents'[HeadAgent].request = agents[HeadAgent].request
    BY <1>2, <1>3, <2>1
  <2> QED BY <1>1, <2>2 DEF IInv, MoveInv
<1>14. bond' \in AgentId \cup {NoAgent} /\ bondAsked' \in BOOLEAN /\ BondInv'
  BY <1>1, AgentTypes DEF BondInv
<1>15. reentered' \in BOOLEAN
  BY <1>1, Zenon DEF UnrefAnswers
<1>b. BondAskedInv'
  <2>1. \A b \in AgentId : agents'[b].request \in {agents[b].request, NoRequest}
    BY <1>3
  <2> QED BY <1>1, <2>1, BondAskedKept
<1> QED BY <1>1, <1>3, <1>4, <1>5, <1>6, <1>10, <1>11, <1>12, <1>13, <1>14, <1>15, <1>b, <1>m, AgentsStep

\* A pairing begins, asks, is answered or ends at an agent.
LEMMA BondStep ==
  ASSUME IInv, UNCHANGED <<queueVars, listed, defaults, ops, devVars, reentered>>,
         agents' \in Table, bond' \in AgentId \cup {NoAgent}, bondAsked' \in BOOLEAN, BondInv', BondAskedInv',
         ops # {},
         \A a \in AgentId : /\ agents'[a].ref = ListHolds(a) + HeadHolds(a) + BondHolds(a)'
                            /\ agents'[a].ref = 0 => agents'[a].request = NoRequest
                            /\ agents'[a].request \in {agents[a].request, NoRequest, BondRequest}
  PROVE  IInv'
<1>1. /\ listed' \in [Client -> AgentId \cup {NoAgent}] /\ defaults' \in Seq(AgentId)
      /\ reentered' \in BOOLEAN /\ ListInv' /\ DefaultsInv'
  BY AgentTypes DEF ListInv, DefaultsInv
<1>2. \A a \in AgentId : ListHolds(a)' = ListHolds(a)
  BY DEF ListHolds
<1>3. \A a \in AgentId : agents'[a].ref = ListHolds(a)' + HeadHolds(a) + BondHolds(a)'
  BY <1>2
<1> QED BY <1>1, <1>3, AgentsStep

\* pair_device takes a reference to the agent.
LEMMA BondStartStep ==
  ASSUME IInv, NEW c \in Client, BondStart(c)
  PROVE  IInv'
<1> DEFINE a == AgentGet(c)
<1>1. /\ "bond" \in ops /\ bond = NoAgent /\ a # NoAgent /\ bond' = a /\ agents' = AgentRef(agents, a)
      /\ UNCHANGED <<bondAsked, queueVars, listed, defaults, ops, devVars, reentered>>
  BY DEF BondStart
<1>2. a \in AgentId
  BY <1>1, AgentTypes, DefaultFacts DEF AgentGet
<1> HIDE DEF a
<1>3. ~bondAsked /\ ~bondAsked'
  BY <1>1, AgentTypes DEF BondInv
<1>4. /\ agents' \in Table
      /\ \A b \in AgentId : /\ agents'[b].ref = IF b = a THEN agents[b].ref + 1 ELSE agents[b].ref
                            /\ agents'[b].request = agents[b].request
  BY <1>1, <1>2, AgentTypes, AgentRefFacts
<1>5. \A b \in AgentId : BondHolds(b) = 0 /\ BondHolds(b)' = IF b = a THEN 1 ELSE 0
  BY <1>1, <1>3, Bounds DEF BondHolds
<1>6. \A b \in AgentId : /\ agents'[b].ref = ListHolds(b) + HeadHolds(b) + BondHolds(b)'
                         /\ agents'[b].ref = 0 => agents'[b].request = NoRequest
                         /\ agents'[b].request \in {agents[b].request, NoRequest, BondRequest}
  <2> TAKE b \in AgentId
  <2>0. /\ ListHolds(b) \in Nat /\ HeadHolds(b) \in Nat
        /\ agents[b].ref = ListHolds(b) + HeadHolds(b) + BondHolds(b)
        /\ agents[b].ref = 0 => agents[b].request = NoRequest
    BY HoldFacts, AgentTypes
  <2>1. CASE b = a
    BY <1>4, <1>5, <2>0, <2>1
  <2>2. CASE b # a
    BY <1>4, <1>5, <2>0, <2>2
  <2> QED BY <2>1, <2>2
<1>7. BondInv' /\ bondAsked' \in BOOLEAN /\ bond' \in AgentId \cup {NoAgent}
  BY <1>1, <1>2, <1>3, AgentTypes DEF BondInv
<1>8. BondAskedInv'
  BY <1>3, <1>4 DEF IInv, BondAskedInv
<1> QED BY <1>1, <1>4, <1>6, <1>7, <1>8, BondStep

\* A pairing holds its agent only where pairings happen.
LEMMA BondFacts ==
  ASSUME IInv, ~reentered, bond # NoAgent
  PROVE  bond \in AgentId /\ ops # {} /\ agents \in Table /\ agents[bond].ref \in Nat
         /\ agents[bond].ref # 0 /\ (bondAsked => agents[bond].ref >= 2)
<1>1. bond \in AgentId /\ ops # {}
  BY AgentTypes DEF IInv, MoveInv
<1> QED BY <1>1, Held

\* The pairing's question takes another reference.
LEMMA BondAskStep ==
  ASSUME IInv, ~reentered, BondAsk
  PROVE  IInv'
<1> DEFINE A == AgentRef(agents, bond)
<1>1. /\ bond # NoAgent /\ ~bondAsked /\ bondAsked' = TRUE /\ agents' = AgentAsk(A, bond, BondRequest)
      /\ UNCHANGED <<bond, queueVars, listed, defaults, ops, devVars, reentered>>
  BY DEF BondAsk
<1>2. bond \in AgentId /\ ops # {} /\ agents \in Table
  BY <1>1, BondFacts
<1>3. /\ A \in Table
      /\ \A b \in AgentId : /\ A[b].ref = IF b = bond THEN agents[b].ref + 1 ELSE agents[b].ref
                            /\ A[b].request = agents[b].request
  BY <1>2, AgentRefFacts
<1> HIDE DEF A
<1>4. /\ agents' \in Table
      /\ \A b \in AgentId : /\ agents'[b].ref = A[b].ref
                            /\ agents'[b].request = IF b = bond THEN BondRequest ELSE A[b].request
  BY <1>1, <1>2, <1>3, Bounds, AgentAskFacts
<1>5. \A b \in AgentId : BondHolds(b) = (IF b = bond THEN 1 ELSE 0) /\ BondHolds(b)' = IF b = bond THEN 2 ELSE 0
  BY <1>1 DEF BondHolds
<1>6. \A b \in AgentId : /\ agents'[b].ref = ListHolds(b) + HeadHolds(b) + BondHolds(b)'
                         /\ agents'[b].ref = 0 => agents'[b].request = NoRequest
                         /\ agents'[b].request \in {agents[b].request, NoRequest, BondRequest}
  <2> TAKE b \in AgentId
  <2>0. /\ ListHolds(b) \in Nat /\ HeadHolds(b) \in Nat
        /\ agents[b].ref = ListHolds(b) + HeadHolds(b) + BondHolds(b)
        /\ agents[b].ref = 0 => agents[b].request = NoRequest
    BY HoldFacts, AgentTypes
  <2>1. CASE b = bond
    BY <1>3, <1>4, <1>5, <2>0, <2>1
  <2>2. CASE b # bond
    BY <1>3, <1>4, <1>5, <2>0, <2>2
  <2> QED BY <2>1, <2>2
<1>7. bondAsked' \in BOOLEAN
  BY <1>1, Zenon
<1>8. BondInv' /\ bond' \in AgentId \cup {NoAgent}
  BY <1>1, <1>2 DEF BondInv
<1>9. BondAskedInv'
  BY <1>1, <1>3, <1>4 DEF IInv, BondAskedInv
<1> QED BY <1>1, <1>2, <1>4, <1>6, <1>7, <1>8, <1>9, BondStep

\* The answer to the pairing's question drops the reference new_auth took.
LEMMA BondReplyStep ==
  ASSUME IInv, ~reentered, BondReply
  PROVE  IInv'
<1> DEFINE A == AgentCancel(agents, bond)
<1>1. /\ bond # NoAgent /\ agents[bond].request = BondRequest /\ bondAsked' = FALSE
      /\ agents' = AgentUnref(A, bond)
      /\ UNCHANGED <<bond, queueVars, listed, defaults, ops, devVars, reentered>>
  BY DEF BondReply
<1>2. bond \in AgentId /\ ops # {} /\ agents \in Table /\ agents[bond].ref \in Nat
  BY <1>1, BondFacts
<1>3. bondAsked /\ agents[bond].ref >= 2
  BY <1>1, <1>2, BondFacts DEF IInv, BondAskedInv
<1>4. /\ A \in Table
      /\ \A b \in AgentId : /\ A[b].ref = agents[b].ref
                            /\ A[b].request = IF b = bond THEN NoRequest ELSE agents[b].request
  BY <1>2, AgentCancelFacts
<1>5. A[bond].ref # 0
  BY <1>2, <1>3, <1>4
<1> HIDE DEF A
<1>6. /\ agents' \in Table
      /\ \A b \in AgentId :
              /\ agents'[b].ref = IF b = bond THEN A[b].ref - 1 ELSE A[b].ref
              /\ agents'[b].request = IF b = bond /\ A[b].ref = 1 THEN NoRequest ELSE A[b].request
  BY <1>1, <1>2, <1>4, <1>5, AgentUnrefFacts
<1>7. \A b \in AgentId : BondHolds(b) = (IF b = bond THEN 2 ELSE 0) /\ BondHolds(b)' = IF b = bond THEN 1 ELSE 0
  BY <1>1, <1>3 DEF BondHolds
<1>8. \A b \in AgentId : /\ agents'[b].ref = ListHolds(b) + HeadHolds(b) + BondHolds(b)'
                         /\ agents'[b].ref = 0 => agents'[b].request = NoRequest
                         /\ agents'[b].request \in {agents[b].request, NoRequest}
  <2> TAKE b \in AgentId
  <2>0. /\ ListHolds(b) \in Nat /\ HeadHolds(b) \in Nat
        /\ agents[b].ref = ListHolds(b) + HeadHolds(b) + BondHolds(b)
        /\ agents[b].ref = 0 => agents[b].request = NoRequest
    BY HoldFacts, AgentTypes
  <2>1. CASE b = bond
    BY <1>4, <1>6, <1>7, <2>0, <2>1
  <2>2. CASE b # bond
    BY <1>4, <1>6, <1>7, <2>0, <2>2
  <2> QED BY <2>1, <2>2
<1>9. bondAsked' \in BOOLEAN
  BY <1>1, Zenon
<1>10. BondInv' /\ bond' \in AgentId \cup {NoAgent}
  BY <1>1, <1>2 DEF BondInv
<1>11. BondAskedInv'
  <2>1. \A b \in AgentId : agents'[b].request # BondRequest
    <3> TAKE b \in AgentId
    <3>0. NoRequest # BondRequest
      BY MaxReqAssumption DEF NoRequest, BondRequest
    <3>1. CASE b = bond
      BY <1>4, <1>6, <3>0, <3>1
    <3>2. CASE b # bond
      BY <1>4, <1>6, <3>2 DEF IInv, BondAskedInv
    <3> QED BY <3>1, <3>2
  <2> QED BY <2>1 DEF BondAskedInv
<1> QED BY <1>1, <1>2, <1>6, <1>8, <1>9, <1>10, <1>11, BondStep

\* bonding_request_free drops the references of the pairing.
LEMMA BondEndStep ==
  ASSUME IInv, ~reentered, BondEnd
  PROVE  IInv'
<1> DEFINE A == AgentCancel(agents, bond)
           B == IF bondAsked THEN AgentUnref(A, bond) ELSE A
           n == IF bondAsked THEN 1 ELSE 0
<1>1. /\ bond # NoAgent /\ bond' = NoAgent /\ bondAsked' = FALSE
      /\ agents' = AgentUnref(B, bond)
      /\ UNCHANGED <<queueVars, listed, defaults, ops, devVars, reentered>>
  BY DEF BondEnd
<1>2. /\ bond \in AgentId /\ ops # {} /\ agents \in Table /\ agents[bond].ref \in Nat
      /\ agents[bond].ref # 0 /\ (bondAsked => agents[bond].ref >= 2)
  BY <1>1, BondFacts
<1>3. /\ A \in Table
      /\ \A b \in AgentId : /\ A[b].ref = agents[b].ref
                            /\ A[b].request = IF b = bond THEN NoRequest ELSE agents[b].request
  BY <1>2, AgentCancelFacts
<1>4. A[bond].ref # 0
  BY <1>2, <1>3
<1> HIDE DEF A
<1>5. /\ B \in Table
      /\ \A b \in AgentId : /\ B[b].ref = IF b = bond THEN A[b].ref - n ELSE A[b].ref
                            /\ B[b].request = A[b].request
  <2>1. CASE bondAsked
    <3>1. /\ B \in Table
          /\ \A b \in AgentId :
              /\ B[b].ref = IF b = bond THEN A[b].ref - 1 ELSE A[b].ref
              /\ B[b].request = IF b = bond /\ A[b].ref = 1 THEN NoRequest ELSE A[b].request
      BY <1>2, <1>3, <1>4, <2>1, AgentUnrefFacts
    <3> QED BY <1>2, <1>3, <2>1, <3>1
  <2>2. CASE ~bondAsked
    <3>1. B = A /\ n = 0 /\ \A b \in AgentId : A[b].ref \in Nat
      BY <1>3, <2>2 DEF Table, AgentRec
    <3> QED BY <1>3, <3>1
  <2> QED BY <2>1, <2>2
<1>6. B[bond].ref # 0 /\ n \in 0..1
  <2>1. CASE bondAsked
    BY <1>2, <1>3, <1>5, <2>1
  <2>2. CASE ~bondAsked
    BY <1>2, <1>3, <1>5, <2>2
  <2> QED BY <2>1, <2>2
<1>n. \A b \in AgentId : BondHolds(b) = (IF b = bond THEN n + 1 ELSE 0)
  BY DEF BondHolds
<1> HIDE DEF B, n
<1>7. /\ agents' \in Table
      /\ \A b \in AgentId :
              /\ agents'[b].ref = IF b = bond THEN B[b].ref - 1 ELSE B[b].ref
              /\ agents'[b].request = IF b = bond /\ B[b].ref = 1 THEN NoRequest ELSE B[b].request
  BY <1>1, <1>2, <1>5, <1>6, AgentUnrefFacts
<1>8. \A b \in AgentId : BondHolds(b)' = 0
  BY <1>1, Bounds DEF BondHolds
<1>9. \A b \in AgentId : /\ agents'[b].ref = ListHolds(b) + HeadHolds(b) + BondHolds(b)'
                         /\ agents'[b].ref = 0 => agents'[b].request = NoRequest
                         /\ agents'[b].request \in {agents[b].request, NoRequest}
  <2> TAKE b \in AgentId
  <2>0. /\ ListHolds(b) \in Nat /\ HeadHolds(b) \in Nat
        /\ agents[b].ref = ListHolds(b) + HeadHolds(b) + BondHolds(b)
        /\ agents[b].ref = 0 => agents[b].request = NoRequest
    BY HoldFacts, AgentTypes
  <2>1. CASE b = bond
    <3>1. agents'[b].ref = ListHolds(b) + HeadHolds(b) + BondHolds(b)'
      BY <1>3, <1>5, <1>6, <1>7, <1>8, <1>n, <2>0, <2>1
    <3> QED BY <1>3, <1>5, <1>7, <2>1, <3>1
  <2>2. CASE b # bond
    BY <1>3, <1>5, <1>7, <1>8, <1>n, <2>0, <2>2
  <2> QED BY <2>1, <2>2
<1>10. bondAsked' \in BOOLEAN
  BY <1>1, Zenon
<1>11. BondInv' /\ bond' \in AgentId \cup {NoAgent}
  BY <1>1, <1>2 DEF BondInv
<1>12. BondAskedInv'
  <2>1. \A b \in AgentId : agents'[b].request # BondRequest
    <3> TAKE b \in AgentId
    <3>0. NoRequest # BondRequest
      BY MaxReqAssumption DEF NoRequest, BondRequest
    <3>1. CASE b = bond
      BY <1>3, <1>5, <1>7, <3>0, <3>1
    <3>2. CASE b # bond
      BY <1>3, <1>5, <1>7, <3>2 DEF IInv, BondAskedInv
    <3> QED BY <3>1, <3>2
  <2> QED BY <2>1 DEF BondAskedInv
<1> QED BY <1>1, <1>2, <1>7, <1>9, <1>10, <1>11, <1>12, BondStep

-----------------------------------------------------------------------------
(* Steps that change the queue and let go of agents                         *)

\* A step of the queue keeps the invariant, if the agents stay counted.
LEMMA LetGoStep ==
  ASSUME IInv, UNCHANGED <<ops, listed, defaults, bondVars>>, TypeOK', HeadInv', BondAskedInv', AskInv', MoveInv',
         \A b \in AgentId : /\ agents'[b].ref = ListHolds(b) + HeadHolds(b)' + BondHolds(b)
                            /\ agents'[b].ref = 0 => agents'[b].request = NoRequest
  PROVE  IInv'
<1>1. UNCHANGED <<listed, defaults, bond, bondAsked>>
  BY DEF bondVars
<1>2. ListInv' /\ DefaultsInv'
  BY <1>1 DEF IInv, ListInv, DefaultsInv
<1>3. BondInv'
  BY <1>1 DEF IInv, BondInv
<1>4. \A b \in AgentId : ListHolds(b)' = ListHolds(b) /\ BondHolds(b)' = BondHolds(b)
  BY <1>1 DEF ListHolds, BondHolds
<1>5. CountInv'
  BY <1>4 DEF CountInv
<1> QED BY <1>2, <1>3, <1>5 DEF IInv

\* Only the head has an agent to let go of.
LEMMA LetGoFacts ==
  ASSUME IInv, NEW I \in SUBSET (DOMAIN auths)
  PROVE  /\ LetGo(I) \in Table
         /\ \A b \in AgentId :
              /\ LetGo(I)[b].ref = IF 1 \in I /\ HeadAgent = b THEN agents[b].ref - 1 ELSE agents[b].ref
              /\ LetGo(I)[b].request = IF 1 \in I /\ HeadAgent = b THEN NoRequest ELSE agents[b].request
<1>t. agents \in Table
  BY AgentTypes
<1>1. \A b \in AgentId : (\E k \in I : auths[k].agent = b) <=> (1 \in I /\ HeadAgent = b)
  <2> TAKE b \in AgentId
  <2>1. b # NoAgent
    BY Bounds
  <2>2. 1 \in I => HeadAgent = auths[1].agent
    BY DEF HeadAgent
  <2> QED BY <2>1, <2>2 DEF IInv, HeadInv
<1>2. ASSUME NEW b \in AgentId
      PROVE  /\ LetGo(I)[b] \in AgentRec
             /\ LetGo(I)[b].ref = IF 1 \in I /\ HeadAgent = b THEN agents[b].ref - 1 ELSE agents[b].ref
             /\ LetGo(I)[b].request = IF 1 \in I /\ HeadAgent = b THEN NoRequest ELSE agents[b].request
  <2> DEFINE A == AgentCancel(agents, b)
             B == AgentUnref(A, b)
  <2>1. CASE 1 \in I /\ HeadAgent = b
    <3>1. A \in Table /\ A[b].ref = agents[b].ref /\ A[b].request = NoRequest
      BY <1>t, AgentCancelFacts
    <3>2. A[b].ref # 0
      BY <2>1, <3>1, Held
    <3>3. LetGo(I)[b] = B[b]
      BY <1>1, <2>1 DEF LetGo
    <3> HIDE DEF A
    <3>4. B \in Table /\ B[b].ref = A[b].ref - 1 /\ B[b].request = NoRequest
      BY <3>1, <3>2, AgentUnrefFacts
    <3>5. B[b] \in AgentRec
      BY <3>4 DEF Table
    <3> QED BY <2>1, <3>1, <3>3, <3>4, <3>5
  <2>2. CASE ~(1 \in I /\ HeadAgent = b)
    <3>1. LetGo(I)[b] = agents[b]
      BY <1>1, <2>2 DEF LetGo
    <3> QED BY <1>t, <2>2, <3>1 DEF Table
  <2> QED BY <2>1, <2>2
<1>3. LetGo(I) \in Table
  <2>1. LetGo(I) = [b \in AgentId |-> LetGo(I)[b]]
    BY DEF LetGo
  <2> QED BY <1>2, <2>1 DEF Table
<1> QED BY <1>2, <1>3

\* The entries that stay in the queue keep their order.
LEMMA ExceptFacts ==
  ASSUME IInv, NEW I \in SUBSET (DOMAIN auths), auths' = Except(I)
  PROVE  /\ auths' \in Seq(Entry) /\ HeadInv'
         /\ HeadAgent' = IF 1 \in I THEN NoAgent ELSE HeadAgent
         /\ (1 \notin I /\ auths # <<>>) => auths' # <<>> /\ auths'[1] = auths[1]
<1> DEFINE K == DOMAIN auths \ I
<1>1. /\ auths \in Seq(Entry) /\ Len(auths) \in Nat /\ DOMAIN auths = 1..Len(auths)
      /\ auths # <<>> => 1 \in DOMAIN auths
  BY HeadFacts DEF IInv
<1>2. K \in SUBSET (DOMAIN auths) /\ auths' = Keep(auths, K)
  BY DEF Except
<1>3. (1 \in K <=> (1 \notin I /\ 1 \in DOMAIN auths)) /\ (1 \in I => 1 \notin K)
  OBVIOUS
<1> HIDE DEF K
<1>4. auths' \in Seq(Entry)
  BY <1>1, <1>2, KeepList
<1>5. (1 \notin I /\ auths # <<>>) => auths' # <<>> /\ auths'[1] = auths[1]
  BY <1>1, <1>2, <1>3, KeepOrder
<1>6. \A j \in DOMAIN auths' : \E a \in K : auths'[j] = auths[a] /\ j <= a
  BY <1>1, <1>2, KeepSorted
<1>7. \A j \in DOMAIN auths' : auths'[j].agent # NoAgent => j = 1 /\ 1 \in K /\ auths'[j].svc = "no"
  <2> TAKE j \in DOMAIN auths'
  <2>1. PICK a \in K : auths'[j] = auths[a] /\ j <= a
    BY <1>6
  <2>2. auths'[j].agent # NoAgent => a = 1 /\ auths[a].svc = "no"
    BY <1>2, <2>1 DEF IInv, HeadInv
  <2>3. j \in Nat /\ j >= 1
    BY <1>4
  <2> QED BY <2>1, <2>2, <2>3
<1>8. HeadInv'
  BY <1>7 DEF HeadInv
<1>9. CASE 1 \in I
  <2>1. auths' # <<>> => 1 \in DOMAIN auths'
    BY <1>4
  <2>2. HeadAgent' = NoAgent
    BY <1>3, <1>7, <1>9, <2>1 DEF HeadAgent
  <2> QED BY <1>4, <1>8, <1>9, <2>2
<1>10. CASE 1 \notin I
  <2>1. CASE auths = <<>>
    <3>1. K = {}
      BY <1>1, <1>2, <2>1
    <3>2. auths' = <<>>
      BY <1>1, <1>2, <3>1, KeepOrder
    <3> QED BY <1>4, <1>8, <1>10, <2>1, <3>2 DEF HeadAgent
  <2>2. CASE auths # <<>>
    <3>1. HeadAgent' = HeadAgent
      BY <1>5, <1>10, <2>2 DEF HeadAgent
    <3> QED BY <1>4, <1>5, <1>8, <1>10, <3>1
  <2> QED BY <2>1, <2>2
<1> QED BY <1>9, <1>10

\* What requesters were told keeps its type.
LEMMA ToldFacts ==
  ASSUME IInv, NEW I, NEW v \in {"yes", "no", "cancelled"}
  PROVE  Told(I, v) \in [ReqId -> {"none", "queued", "yes", "no", "cancelled"}]
BY DEF Told, IInv, TypeOK

\* btd_cancel_authorization, and btd_adapter_remove_device.
LEMMA GiveUpStep ==
  ASSUME IInv, ops # {}, NEW I \in SUBSET (DOMAIN auths), NEW v \in {"no", "cancelled"},
         auths' = Except(I), outcome' = Told(I, v), agents' = LetGo(I), devs' \subseteq Dev,
         UNCHANGED <<trusted, idle, idleId, nreq, listed, defaults, ops, bondVars, reentered>>
  PROVE  IInv'
<1>1. /\ auths' \in Seq(Entry) /\ HeadInv'
      /\ HeadAgent' = IF 1 \in I THEN NoAgent ELSE HeadAgent
      /\ (1 \notin I /\ auths # <<>>) => auths' # <<>> /\ auths'[1] = auths[1]
  BY ExceptFacts
<1>2. /\ agents' \in Table
      /\ \A b \in AgentId :
              /\ agents'[b].ref = IF 1 \in I /\ HeadAgent = b THEN agents[b].ref - 1 ELSE agents[b].ref
              /\ agents'[b].request = IF 1 \in I /\ HeadAgent = b THEN NoRequest ELSE agents[b].request
  BY LetGoFacts
<1>3. outcome' \in [ReqId -> {"none", "queued", "yes", "no", "cancelled"}]
  BY ToldFacts
<1>4. TypeOK'
  BY <1>1, <1>2, <1>3 DEF IInv, TypeOK, Table, AgentRec, bondVars
<1>5. BondAskedInv'
  <2>1. \A b \in AgentId : agents'[b].request \in {agents[b].request, NoRequest}
    BY <1>2
  <2> QED BY <2>1, BondAskedKept DEF bondVars
<1>6. AskInv'
  <2> SUFFICES ASSUME "trust" \notin ops PROVE AskInv'
    BY DEF AskInv
  <2>0. AskInv /\ (HeadAgent # NoAgent => auths # <<>>)
    BY HeadFacts DEF IInv
  <2>1. ASSUME NEW b \in AgentId, agents'[b].request \in ReqId
        PROVE  auths' # <<>> /\ HeadAgent' = b /\ auths'[1].id = agents'[b].request
    <3>1. ~(1 \in I /\ HeadAgent = b) /\ agents'[b].request = agents[b].request
      BY <1>2, <2>1, Bounds
    <3>2. auths # <<>> /\ HeadAgent = b /\ auths[1].id = agents[b].request
      BY <2>0, <2>1, <3>1 DEF AskInv
    <3> QED BY <1>1, <3>1, <3>2
  <2>2. HeadAgent' # NoAgent => auths'[1].dev \notin trusted'
    BY <1>1, <2>0 DEF AskInv
  <2> QED BY <2>1, <2>2 DEF AskInv
<1>7. MoveInv'
  BY DEF MoveInv
<1>8. \A b \in AgentId : /\ agents'[b].ref = ListHolds(b) + HeadHolds(b)' + BondHolds(b)
                         /\ agents'[b].ref = 0 => agents'[b].request = NoRequest
  <2> TAKE b \in AgentId
  <2>0. /\ ListHolds(b) \in Nat /\ BondHolds(b) \in Nat /\ b # NoAgent
        /\ agents[b].ref = ListHolds(b) + HeadHolds(b) + BondHolds(b)
        /\ agents[b].ref = 0 => agents[b].request = NoRequest
    BY HoldFacts, AgentTypes, Bounds
  <2>1. CASE 1 \in I /\ HeadAgent = b
    <3>1. HeadHolds(b) = 1 /\ HeadHolds(b)' = 0
      BY <1>1, <2>0, <2>1 DEF HeadHolds
    <3> QED BY <1>2, <2>0, <2>1, <3>1
  <2>2. CASE ~(1 \in I /\ HeadAgent = b)
    <3>1. HeadHolds(b)' = HeadHolds(b)
      BY <1>1, <2>0, <2>2 DEF HeadHolds
    <3> QED BY <1>2, <2>0, <2>2, <3>1
  <2> QED BY <2>1, <2>2
<1> QED BY <1>1, <1>4, <1>5, <1>6, <1>7, <1>8, LetGoStep

\* btd_cancel_authorization keeps the invariant.
LEMMA CancelAuthorizationStep ==
  ASSUME IInv, NEW k \in ReqId, CancelAuthorization(k)
  PROVE  IInv'
<1>1. /\ "cancel" \in ops /\ k \in DOMAIN auths /\ auths' = Except({k})
      /\ outcome' = Told({k}, "cancelled") /\ agents' = LetGo({k})
      /\ UNCHANGED <<idle, idleId, nreq, listed, defaults, ops, devVars, bondVars, reentered>>
  BY DEF CancelAuthorization
<1>2. ops # {} /\ {k} \in SUBSET (DOMAIN auths) /\ devs' \subseteq Dev /\ trusted' = trusted
  BY <1>1 DEF IInv, TypeOK, devVars
<1> QED BY <1>1, <1>2, GiveUpStep

\* btd_adapter_remove_device keeps the invariant.
LEMMA RemoveDeviceStep ==
  ASSUME IInv, NEW d \in Dev, RemoveDevice(d)
  PROVE  IInv'
<1> DEFINE I == {k \in DOMAIN auths : auths[k].dev = d}
<1>1. /\ "remove" \in ops /\ devs' = devs \ {d} /\ auths' = Except(I)
      /\ outcome' = Told(I, "no") /\ agents' = LetGo(I)
      /\ UNCHANGED <<trusted, idle, idleId, nreq, listed, defaults, ops, bondVars, reentered>>
  BY DEF RemoveDevice
<1>2. ops # {} /\ I \in SUBSET (DOMAIN auths) /\ devs' \subseteq Dev
  BY <1>1 DEF IInv, TypeOK
<1> HIDE DEF I
<1> QED BY <1>1, <1>2, GiveUpStep

-----------------------------------------------------------------------------
(* An answer                                                                *)

\* The agents after agent_auth_cb and simple_agent_free: the head's agent has
\* one holder less, the agent that answered has no request.
LEMMA ReplyAgents ==
  ASSUME IInv, NEW a \in AgentId, agents[a].request \in ReqId,
         agents' = AgentUnref(AgentCancel(HeadLetGo(AgentRef(agents, a)), a), a)
  PROVE  /\ agents' \in Table
         /\ \A b \in AgentId :
              /\ agents'[b].ref = IF HeadAgent = b THEN agents[b].ref - 1 ELSE agents[b].ref
              /\ agents'[b].request \in {agents[b].request, NoRequest}
              /\ b = a => agents'[b].request = NoRequest
              /\ (HeadAgent = b /\ agents[b].ref = 1) => agents'[b].request = NoRequest
<1> DEFINE A == AgentRef(agents, a)
           B == HeadLetGo(A)
           C == AgentCancel(B, a)
<1>0. agents \in Table /\ agents[a].ref \in Nat /\ agents[a].ref # 0
      /\ HeadAgent \in AgentId \cup {NoAgent} /\ agents' = AgentUnref(C, a)
      /\ \A b \in AgentId : agents[b].ref \in Nat
  <2>1. agents[a].request # NoRequest
    BY Bounds
  <2> QED BY <2>1, AgentTypes, HeadFacts DEF IInv, Table, AgentRec
<1>1. /\ A \in Table
      /\ \A b \in AgentId : /\ A[b].ref = IF b = a THEN agents[b].ref + 1 ELSE agents[b].ref
                            /\ A[b].request = agents[b].request
  BY <1>0, AgentRefFacts
<1> HIDE DEF A
<1>2. /\ B \in Table
      /\ \A b \in AgentId :
           /\ B[b].ref = IF HeadAgent = b THEN A[b].ref - 1 ELSE A[b].ref
           /\ B[b].request = IF HeadAgent = b /\ A[b].ref = 1 THEN NoRequest ELSE A[b].request
  <2>1. CASE HeadAgent = NoAgent
    <3>1. B = A
      BY <2>1 DEF HeadLetGo, HeadAgent
    <3> QED BY <1>1, <2>1, <3>1, Bounds
  <2>2. CASE HeadAgent # NoAgent
    <3>1. HeadAgent \in AgentId /\ B = AgentUnref(A, HeadAgent)
      BY <1>0, <2>2 DEF HeadLetGo, HeadAgent
    <3>2. A[HeadAgent].ref # 0
      <4>1. agents[HeadAgent].ref # 0
        BY <3>1, Held
      <4> QED BY <1>0, <1>1, <3>1, <4>1
    <3> QED BY <1>1, <3>1, <3>2, AgentUnrefFacts
  <2> QED BY <2>1, <2>2
<1> HIDE DEF B
<1>3. /\ C \in Table
      /\ \A b \in AgentId : /\ C[b].ref = B[b].ref
                            /\ C[b].request = IF b = a THEN NoRequest ELSE B[b].request
  BY <1>2, AgentCancelFacts
<1> HIDE DEF C
<1>4. C[a].ref # 0
  BY <1>0, <1>1, <1>2, <1>3
<1>5. /\ agents' \in Table
      /\ \A b \in AgentId :
           /\ agents'[b].ref = IF b = a THEN C[b].ref - 1 ELSE C[b].ref
           /\ agents'[b].request = IF b = a /\ C[b].ref = 1 THEN NoRequest ELSE C[b].request
  BY <1>0, <1>3, <1>4, AgentUnrefFacts
<1>6. ASSUME NEW b \in AgentId
      PROVE  /\ agents'[b].ref = IF HeadAgent = b THEN agents[b].ref - 1 ELSE agents[b].ref
             /\ agents'[b].request \in {agents[b].request, NoRequest}
             /\ b = a => agents'[b].request = NoRequest
             /\ (HeadAgent = b /\ agents[b].ref = 1) => agents'[b].request = NoRequest
  <2>1. CASE b = a
    <3>1. agents'[b].request = NoRequest
      BY <1>3, <1>5, <2>1
    <3>a. A[b].ref = agents[b].ref + 1 /\ C[b].ref = B[b].ref
      BY <1>1, <1>3, <2>1
    <3>b. B[b].ref = IF HeadAgent = b THEN A[b].ref - 1 ELSE A[b].ref
      BY <1>2
    <3>2. C[b].ref = IF HeadAgent = b THEN (agents[b].ref + 1) - 1 ELSE agents[b].ref + 1
      BY <3>a, <3>b
    <3>3. agents'[b].ref = C[b].ref - 1
      BY <1>5, <2>1
    <3>4. agents'[b].ref = IF HeadAgent = b THEN agents[b].ref - 1 ELSE agents[b].ref
      BY <1>0, <3>2, <3>3
    <3> QED BY <3>1, <3>4
  <2>2. CASE b # a
    BY <1>1, <1>2, <1>3, <1>5, <2>2
  <2> QED BY <2>1, <2>2
<1> QED BY <1>5, <1>6

\* The queue after agent_auth_cb: the new head was not asked about.
LEMMA ReplyQueue ==
  ASSUME IInv, NEW v \in {"yes", "no"}, AgentAuthCb(v)
  PROVE  /\ auths' \in Seq(Entry) /\ HeadInv' /\ HeadAgent' = NoAgent
         /\ outcome' \in [ReqId -> {"none", "queued", "yes", "no", "cancelled"}]
         /\ idle' \in BOOLEAN /\ idleId' \in BOOLEAN
         /\ Len(auths) = 1 => auths' = <<>> /\ idle' = FALSE /\ idleId' = idleId
         /\ (Len(auths) >= 2 /\ (idle <=> idleId)) => idle' /\ idleId'
<1>0. /\ auths \in Seq(Entry) /\ Len(auths) \in Nat /\ DOMAIN auths = 1..Len(auths)
      /\ idle \in BOOLEAN /\ idleId \in BOOLEAN
  BY HeadFacts DEF IInv, TypeOK
<1>1. CASE auths = <<>>
  <2>1. UNCHANGED <<auths, outcome, idle, idleId>>
    BY <1>1 DEF AgentAuthCb
  <2>2. HeadInv' /\ HeadAgent' = NoAgent
    BY <1>1, <2>1 DEF HeadInv, HeadAgent
  <2>3. Len(auths) = 0
    BY <1>1
  <2> QED BY <1>0, <2>1, <2>2, <2>3 DEF IInv, TypeOK
<1>2. CASE auths # <<>>
  <2>1. /\ auths' = Tail(auths) /\ outcome' = Told({1}, v)
        /\ IF Len(auths) = 1 THEN idle' = FALSE /\ UNCHANGED idleId ELSE Schedule
    BY <1>2 DEF AgentAuthCb
  <2>2. /\ auths' \in Seq(Entry) /\ Len(auths') = Len(auths) - 1
        /\ \A k \in DOMAIN auths' : auths'[k] = auths[k + 1] /\ k + 1 \in DOMAIN auths /\ k + 1 # 1
    BY <1>0, <1>2, <2>1
  <2>3. \A k \in DOMAIN auths' : auths'[k].agent = NoAgent
    BY <2>2 DEF IInv, HeadInv
  <2>4. HeadInv'
    BY <2>3 DEF HeadInv
  <2>5. HeadAgent' = NoAgent
    <3>1. auths' # <<>> => 1 \in DOMAIN auths'
      BY <2>2
    <3> QED BY <2>3, <3>1 DEF HeadAgent
  <2>6. idle' \in BOOLEAN /\ idleId' \in BOOLEAN /\ ((Len(auths) # 1 /\ (idle <=> idleId)) => idle' /\ idleId')
    <3>1. CASE Len(auths) = 1
      <4>1. idle' = FALSE /\ idleId' = idleId
        BY <2>1, <3>1
      <4>2. idle' \in BOOLEAN
        BY <4>1, Zenon
      <4> QED BY <1>0, <3>1, <4>1, <4>2
    <3>2. CASE Len(auths) # 1
      BY <1>0, <2>1, <3>2, ScheduleFacts
    <3> QED BY <3>1, <3>2
  <2>7. Len(auths) = 1 => auths' = <<>> /\ idle' = FALSE /\ idleId' = idleId
    BY <2>1, <2>2
  <2>8. outcome' \in [ReqId -> {"none", "queued", "yes", "no", "cancelled"}]
    BY <2>1, ToldFacts
  <2>9. Len(auths) >= 2 => Len(auths) # 1
    BY <1>0
  <2> QED BY <2>2, <2>4, <2>5, <2>6, <2>7, <2>8, <2>9
<1> QED BY <1>1, <1>2

\* simple_agent_reply with agent_auth_cb keeps the invariant.
LEMMA ReplyStep ==
  ASSUME IInv, ~reentered, NEW a \in AgentId, AuthorizeServiceReply(a)
  PROVE  IInv'
<1>1. PICK v \in {"yes", "no"} : AgentAuthCb(v)
  BY DEF AuthorizeServiceReply
<1>2. /\ agents[a].request \in ReqId
      /\ agents' = AgentUnref(AgentCancel(HeadLetGo(AgentRef(agents, a)), a), a)
      /\ UNCHANGED <<nreq, listed, defaults, ops, devVars, bondVars>>
  BY DEF AuthorizeServiceReply
<1>3. reentered' \in BOOLEAN
  <2>1. reentered' = (auths # <<>> /\ auths[1].agent \notin {NoAgent, a} /\ UnrefAnswers(agents, auths[1].agent))
    BY DEF AuthorizeServiceReply
  <2> QED BY <2>1, Zenon
<1>4. /\ agents' \in Table
      /\ \A b \in AgentId :
              /\ agents'[b].ref = IF HeadAgent = b THEN agents[b].ref - 1 ELSE agents[b].ref
              /\ agents'[b].request \in {agents[b].request, NoRequest}
              /\ b = a => agents'[b].request = NoRequest
              /\ (HeadAgent = b /\ agents[b].ref = 1) => agents'[b].request = NoRequest
  BY <1>2, ReplyAgents
<1>5. /\ auths' \in Seq(Entry) /\ HeadInv' /\ HeadAgent' = NoAgent
      /\ outcome' \in [ReqId -> {"none", "queued", "yes", "no", "cancelled"}]
      /\ idle' \in BOOLEAN /\ idleId' \in BOOLEAN
      /\ Len(auths) = 1 => auths' = <<>> /\ idle' = FALSE /\ idleId' = idleId
      /\ (Len(auths) >= 2 /\ (idle <=> idleId)) => idle' /\ idleId'
  BY <1>1, ReplyQueue
<1>6. TypeOK'
  BY <1>2, <1>3, <1>4, <1>5 DEF IInv, TypeOK, Table, AgentRec, devVars, bondVars
<1>7. BondAskedInv'
  BY <1>2, <1>4, BondAskedKept DEF bondVars
<1>8. AskInv'
  <2> SUFFICES ASSUME "trust" \notin ops PROVE AskInv'
    BY <1>2 DEF AskInv
  <2>1. HeadAgent = a
    BY <1>2 DEF IInv, AskInv
  <2>2. \A b \in AgentId : agents'[b].request \notin ReqId
    <3> TAKE b \in AgentId
    <3>1. CASE b = a
      BY <1>4, <3>1, Bounds
    <3>2. CASE b # a
      <4>1. agents[b].request \notin ReqId
        BY <2>1, <3>2 DEF IInv, AskInv
      <4> QED BY <1>4, <4>1, Bounds
    <3> QED BY <3>1, <3>2
  <2> QED BY <1>5, <2>2 DEF AskInv
<1>9. MoveInv'
  <2> SUFFICES ASSUME ops = {} PROVE MoveInv'
    BY <1>2 DEF MoveInv
  <2>1. auths # <<>> /\ HeadAgent = a
    BY <1>2 DEF IInv, AskInv
  <2>2. bond = NoAgent /\ (idle <=> idleId) /\ (idle => Len(auths) >= 2)
    BY <2>1, Bounds DEF IInv, MoveInv
  <2>3. Len(auths) \in Nat /\ Len(auths) # 0
    BY <2>1, HeadFacts DEF IInv
  <2>4. CASE Len(auths) = 1
    <3>1. ~idle /\ ~idleId /\ ~idle' /\ ~idleId'
      BY <1>5, <2>2, <2>4
    <3> QED BY <1>2, <1>5, <2>2, <2>4, <3>1 DEF MoveInv, bondVars
  <2>5. CASE Len(auths) >= 2
    BY <1>2, <1>5, <2>2, <2>5 DEF MoveInv, bondVars
  <2>6. Len(auths) = 1 \/ Len(auths) >= 2
    <3>1. \A m \in Nat : m # 0 => m = 1 \/ m >= 2
      OBVIOUS
    <3> QED BY <2>3, <3>1
  <2> QED BY <2>4, <2>5, <2>6
<1>10. \A b \in AgentId : /\ agents'[b].ref = ListHolds(b) + HeadHolds(b)' + BondHolds(b)
                          /\ agents'[b].ref = 0 => agents'[b].request = NoRequest
  <2> TAKE b \in AgentId
  <2>0. /\ ListHolds(b) \in Nat /\ BondHolds(b) \in Nat /\ b # NoAgent
        /\ agents[b].ref = ListHolds(b) + HeadHolds(b) + BondHolds(b)
        /\ agents[b].ref = 0 => agents[b].request = NoRequest
    BY HoldFacts, AgentTypes, Bounds
  <2>1. HeadHolds(b)' = 0
    BY <1>5, <2>0 DEF HeadHolds
  <2>2. CASE HeadAgent = b
    <3>1. HeadHolds(b) = 1
      BY <2>2 DEF HeadHolds
    <3> QED BY <1>4, <2>0, <2>1, <2>2, <3>1
  <2>3. CASE HeadAgent # b
    <3>1. HeadHolds(b) = 0
      BY <2>3 DEF HeadHolds
    <3> QED BY <1>4, <2>0, <2>1, <2>3, <3>1
  <2> QED BY <2>2, <2>3
<1> QED BY <1>2, <1>5, <1>6, <1>7, <1>8, <1>9, <1>10, LetGoStep

-----------------------------------------------------------------------------
(* process_auth_queue                                                       *)

\* The entries that are dealt with let go of the head's agent, if it is one.
LEMMA FreeAgents ==
  ASSUME IInv, NEW n \in 0..Len(auths), NEW A,
         A = [a \in AgentId |-> IF a \in AgentsLeft(n) THEN AgentUnref(agents, a)[a] ELSE agents[a]]
  PROVE  /\ A \in Table
         /\ \A b \in AgentId :
              /\ A[b].ref = IF n # 0 /\ HeadAgent = b THEN agents[b].ref - 1 ELSE agents[b].ref
              /\ A[b].request = IF n # 0 /\ HeadAgent = b /\ agents[b].ref = 1
                                  THEN NoRequest ELSE agents[b].request
<1>t. agents \in Table
  BY AgentTypes
<1>0. Len(auths) \in Nat /\ DOMAIN auths = 1..Len(auths) /\ (auths # <<>> => HeadAgent = auths[1].agent)
  BY HeadFacts DEF IInv
<1>1. \A b \in AgentId : b \in AgentsLeft(n) <=> (n # 0 /\ HeadAgent = b)
  <2> TAKE b \in AgentId
  <2>1. b # NoAgent
    BY Bounds
  <2>2. \A k \in 1..n : k \in DOMAIN auths
    BY <1>0
  <2>3. n # 0 => 1 \in 1..n /\ auths # <<>>
    BY <1>0
  <2>4. ASSUME b \in AgentsLeft(n) PROVE n # 0 /\ HeadAgent = b
    <3>1. PICK k \in 1..n : auths[k].agent = b
      BY <2>4 DEF AgentsLeft
    <3>2. k = 1
      BY <2>1, <2>2, <3>1 DEF IInv, HeadInv
    <3>3. n # 0
      BY <3>1
    <3> QED BY <1>0, <2>3, <3>1, <3>2, <3>3
  <2>5. ASSUME n # 0 /\ HeadAgent = b PROVE b \in AgentsLeft(n)
    BY <1>0, <2>1, <2>3, <2>5 DEF AgentsLeft
  <2> QED BY <2>4, <2>5
<1>2. ASSUME NEW b \in AgentId
      PROVE  /\ A[b] \in AgentRec
             /\ A[b].ref = IF n # 0 /\ HeadAgent = b THEN agents[b].ref - 1 ELSE agents[b].ref
             /\ A[b].request = IF n # 0 /\ HeadAgent = b /\ agents[b].ref = 1
                                 THEN NoRequest ELSE agents[b].request
  <2> DEFINE B == AgentUnref(agents, b)
  <2>1. CASE n # 0 /\ HeadAgent = b
    <3>1. A[b] = B[b]
      BY <1>1, <2>1
    <3>2. agents[b].ref # 0
      BY <2>1, Held
    <3>3. /\ B \in Table /\ B[b].ref = agents[b].ref - 1
          /\ B[b].request = IF agents[b].ref = 1 THEN NoRequest ELSE agents[b].request
      BY <1>t, <3>2, AgentUnrefFacts
    <3>4. B[b] \in AgentRec
      BY <3>3 DEF Table
    <3> QED BY <2>1, <3>1, <3>3, <3>4
  <2>2. CASE ~(n # 0 /\ HeadAgent = b)
    <3>1. A[b] = agents[b]
      BY <1>1, <2>2
    <3> QED BY <1>t, <2>2, <3>1 DEF Table
  <2> QED BY <2>1, <2>2
<1>3. A \in Table
  BY <1>2 DEF Table
<1> QED BY <1>2, <1>3

\* What is left of the queue: only an entry that stays the head was asked about.
LEMMA LeftFacts ==
  ASSUME IInv, NEW n \in 0..Len(auths), NEW q \in Seq(Entry), Len(q) = Len(auths) - n,
         DOMAIN q = 1..(Len(auths) - n),
         \A j \in 1..(Len(auths) - n) : n + j \in DOMAIN auths /\ q[j] = auths[n + j]
  PROVE  /\ q # <<>> => 1 \in DOMAIN q /\ n # Len(auths) /\ q[1] = auths[n + 1] /\ q[1] \in Entry
         /\ \A k \in DOMAIN q : q[k].agent # NoAgent => k = 1 /\ n = 0 /\ q[k].svc = "no"
         /\ n = 0 => Len(q) = Len(auths) /\ (auths # <<>> => q # <<>> /\ q[1] = auths[1])
<1>0. auths \in Seq(Entry) /\ Len(auths) \in Nat /\ DOMAIN auths = 1..Len(auths)
      /\ (auths # <<>> => Len(auths) # 0) /\ (auths = <<>> => Len(auths) = 0)
  BY HeadFacts DEF IInv
<1>a. \A l \in Nat : \A k \in 0..l : l - k \in Nat /\ (l - k # 0 => k # l) /\ l - 0 = l
  OBVIOUS
<1>m. PICK m \in Nat : m = Len(auths) - n
  BY <1>0, <1>a
<1>d. /\ Len(q) = m /\ DOMAIN q = 1..m
      /\ \A j \in 1..m : n + j \in DOMAIN auths /\ q[j] = auths[n + j]
  BY <1>m
<1>2. q # <<>> => 1 \in DOMAIN q /\ n # Len(auths) /\ q[1] = auths[n + 1] /\ q[1] \in Entry
  <2>1. q # <<>> => 1 \in DOMAIN q /\ q[1] \in Entry /\ Len(q) # 0
    OBVIOUS
  <2>2. q # <<>> => n # Len(auths)
    BY <1>0, <1>a, <1>d, <1>m, <2>1
  <2>3. q # <<>> => q[1] = auths[n + 1]
    BY <1>d, <2>1
  <2> QED BY <2>1, <2>2, <2>3
<1>3. \A k \in DOMAIN q : q[k].agent # NoAgent => k = 1 /\ n = 0 /\ q[k].svc = "no"
  <2> TAKE k \in DOMAIN q
  <2>1. n + k \in DOMAIN auths /\ q[k] = auths[n + k] /\ k \in Nat /\ k >= 1
    BY <1>d
  <2>2. q[k].agent # NoAgent => n + k = 1 /\ q[k].svc = "no"
    BY <2>1 DEF IInv, HeadInv
  <2>3. n + k = 1 => n = 0 /\ k = 1
    BY <1>0, <2>1
  <2> QED BY <2>2, <2>3
<1>4. n = 0 => Len(q) = Len(auths) /\ (auths # <<>> => q # <<>> /\ q[1] = auths[1])
  <2> SUFFICES ASSUME n = 0 PROVE Len(q) = Len(auths) /\ (auths # <<>> => q # <<>> /\ q[1] = auths[1])
    OBVIOUS
  <2>1. Len(q) = Len(auths)
    BY <1>0, <1>a
  <2>2. auths # <<>> => q # <<>>
    BY <1>0, <2>1
  <2> QED BY <1>2, <2>1, <2>2
<1> QED BY <1>2, <1>3, <1>4

\* While trust does not change, an entry that was asked about is not passed.
LEMMA AskedStops ==
  ASSUME IInv, "trust" \notin ops, NEW n \in 0..Len(auths), Passed(n), n # 0
  PROVE  HeadAgent = NoAgent
<1>1. \A k \in 1..n : ~Waits(auths[k])
  BY DEF Passed
<1>2. Len(auths) \in Nat
  BY HeadFacts DEF IInv
<1>3. 1 \in 1..n
  BY <1>2
<1>4. ~Waits(auths[1])
  BY <1>1, <1>3
<1> QED BY <1>4, HeadFacts DEF Waits, IInv, AskInv, HeadAgent

\* process_auth_queue keeps the invariant.
LEMMA ProcessStep ==
  ASSUME IInv, ~reentered, ProcessAuthQueue
  PROVE  IInv'
<1>n. PICK n \in 0..Len(auths) :
        LET left == SubSeq(auths, n + 1, Len(auths))
            free == [a \in AgentId |-> IF a \in AgentsLeft(n) THEN AgentUnref(agents, a)[a] ELSE agents[a]]
        IN /\ Passed(n)
           /\ outcome' = [i \in ReqId |-> IF \E k \in 1..n : auths[k].id = i
                                            THEN Verdict(CHOOSE k \in 1..n : auths[k].id = i)
                                            ELSE outcome[i]]
           /\ reentered' = (\E a \in AgentsLeft(n) : UnrefAnswers(agents, a))
           /\ IF left # <<>> /\ AsksNow(left[1])
                THEN /\ auths' = [left EXCEPT ![1].agent = Default]
                     /\ agents' = AgentAsk(AgentRef(free, Default), Default, left[1].id)
                ELSE auths' = left /\ agents' = free
  BY DEF ProcessAuthQueue
<1> DEFINE q == SubSeq(auths, n + 1, Len(auths))
           A == [a \in AgentId |-> IF a \in AgentsLeft(n) THEN AgentUnref(agents, a)[a] ELSE agents[a]]
           drop(b) == IF n # 0 /\ HeadAgent = b THEN 1 ELSE 0
<1>1. /\ idle' = FALSE /\ idleId' = FALSE
      /\ outcome' = [i \in ReqId |-> IF \E k \in 1..n : auths[k].id = i
                                       THEN Verdict(CHOOSE k \in 1..n : auths[k].id = i)
                                       ELSE outcome[i]]
      /\ reentered' = (\E a \in AgentsLeft(n) : UnrefAnswers(agents, a))
      /\ UNCHANGED <<nreq, listed, defaults, ops, devVars, bondVars>>
  BY <1>n DEF ProcessAuthQueue
<1>a. (q # <<>> /\ AsksNow(q[1])) =>
        /\ auths' = [q EXCEPT ![1].agent = Default]
        /\ agents' = AgentAsk(AgentRef(A, Default), Default, q[1].id)
  BY <1>n
<1>b. ~(q # <<>> /\ AsksNow(q[1])) => auths' = q /\ agents' = A
  BY <1>n
<1>2. /\ n \in 0..Len(auths) /\ (n = Len(auths) \/ Stops(auths[n + 1]))
      /\ (("trust" \notin ops /\ n # 0) => HeadAgent = NoAgent)
  BY <1>n, AskedStops DEF Passed
<1>3. /\ A \in Table
      /\ \A b \in AgentId :
              /\ A[b].ref = agents[b].ref - drop(b)
              /\ A[b].request = IF n # 0 /\ HeadAgent = b /\ agents[b].ref = 1
                                  THEN NoRequest ELSE agents[b].request
  <2>1. /\ A \in Table
        /\ \A b \in AgentId :
              /\ A[b].ref = IF n # 0 /\ HeadAgent = b THEN agents[b].ref - 1 ELSE agents[b].ref
              /\ A[b].request = IF n # 0 /\ HeadAgent = b /\ agents[b].ref = 1
                                  THEN NoRequest ELSE agents[b].request
    BY <1>2, FreeAgents
  <2>2. \A b \in AgentId : agents[b].ref \in Nat
    BY AgentTypes DEF Table, AgentRec
  <2> HIDE DEF A
  <2> QED BY <2>1, <2>2
<1>s. /\ q \in Seq(Entry) /\ Len(q) = Len(auths) - n /\ DOMAIN q = 1..(Len(auths) - n)
      /\ \A j \in 1..(Len(auths) - n) : n + j \in DOMAIN auths /\ q[j] = auths[n + j]
  <2>1. auths \in Seq(Entry)
    BY HeadFacts DEF IInv
  <2> QED BY <1>2, <2>1, SuffixFacts
<1>4. /\ q \in Seq(Entry) /\ Len(q) = Len(auths) - n
      /\ q # <<>> => 1 \in DOMAIN q /\ n # Len(auths) /\ q[1] = auths[n + 1] /\ q[1] \in Entry
      /\ \A k \in DOMAIN q : q[k].agent # NoAgent => k = 1 /\ n = 0 /\ q[k].svc = "no"
      /\ n = 0 => Len(q) = Len(auths) /\ (auths # <<>> => q # <<>> /\ q[1] = auths[1])
  <2> HIDE DEF q
  <2> QED BY <1>2, <1>s, LeftFacts
<1>5. outcome' \in [ReqId -> {"none", "queued", "yes", "no", "cancelled"}]
  BY <1>1 DEF Verdict, IInv, TypeOK
<1>6. idle' \in BOOLEAN /\ idleId' \in BOOLEAN /\ reentered' \in BOOLEAN /\ ~idle' /\ ~idleId'
  BY <1>1, Zenon
<1>7. q # <<>> => Stops(q[1])
  BY <1>2, <1>4
<1>8. \A b \in AgentId : /\ ListHolds(b) \in Nat /\ BondHolds(b) \in Nat /\ b # NoAgent
                         /\ agents[b].ref = ListHolds(b) + HeadHolds(b) + BondHolds(b)
                         /\ agents[b].ref = 0 => agents[b].request = NoRequest
                         /\ agents[b].ref \in Nat
                         /\ drop(b) = 1 => HeadHolds(b) = 1
                         /\ HeadHolds(b) = IF HeadAgent = b THEN 1 ELSE 0
  BY HoldFacts, AgentTypes, Bounds DEF Table, AgentRec
<1>9. \A b \in AgentId : A[b].ref \in Nat /\ (A[b].ref = 0 => A[b].request = NoRequest)
  <2> TAKE b \in AgentId
  <2>0. A[b].ref \in Nat
    BY <1>3 DEF Table, AgentRec
  <2> HIDE DEF A
  <2>1. CASE n # 0 /\ HeadAgent = b
    BY <1>3, <1>8, <2>0, <2>1
  <2>2. CASE ~(n # 0 /\ HeadAgent = b)
    <3>1. A[b].ref = agents[b].ref - 0 /\ A[b].request = agents[b].request
      BY <1>3, <2>2
    <3> QED BY <1>8, <2>0, <3>1
  <2> QED BY <2>1, <2>2
<1>10. \A b \in AgentId : A[b].request \in {agents[b].request, NoRequest}
  BY <1>3
<1>11. ("trust" \notin ops \/ n = 0) => \A b \in AgentId : A[b].request = agents[b].request
  BY <1>2, <1>3, <1>8
<1>12. HeadAgent \in AgentId \cup {NoAgent} /\ (HeadAgent # NoAgent => auths # <<>>)
       /\ (auths # <<>> => HeadAgent = auths[1].agent)
  BY HeadFacts DEF IInv
<1> HIDE DEF A, q, drop
<1>13. CASE ~(q # <<>> /\ AsksNow(q[1]))
  <2>1. auths' = q /\ agents' = A
    BY <1>13, <1>b
  <2>2. HeadInv'
    BY <1>4, <2>1 DEF HeadInv
  <2>3. HeadAgent' = IF n = 0 THEN HeadAgent ELSE NoAgent
    <3>1. CASE n = 0
      <4>1. CASE auths = <<>>
        <5>1. Len(q) = 0
          BY <1>4, <3>1, <4>1
        <5>2. q = <<>>
          BY <1>4, <5>1
        <5> QED BY <2>1, <3>1, <4>1, <5>2 DEF HeadAgent
      <4>2. CASE auths # <<>>
        BY <1>4, <2>1, <3>1, <4>2 DEF HeadAgent
      <4> QED BY <4>1, <4>2
    <3>2. CASE n # 0
      BY <1>4, <2>1, <3>2 DEF HeadAgent
    <3> QED BY <3>1, <3>2
  <2>4. TypeOK'
    BY <1>1, <1>3, <1>4, <1>5, <1>6, <2>1 DEF IInv, TypeOK, Table, AgentRec, devVars, bondVars
  <2>5. BondAskedInv'
    BY <1>1, <1>10, <2>1, BondAskedKept DEF bondVars
  <2>6. AskInv'
    <3> SUFFICES ASSUME "trust" \notin ops PROVE AskInv'
      BY <1>1 DEF AskInv
    <3>0. AskInv /\ trusted' = trusted /\ \A b \in AgentId : agents'[b].request = agents[b].request
      BY <1>1, <1>11, <2>1 DEF IInv, devVars
    <3>1. ASSUME NEW b \in AgentId, agents'[b].request \in ReqId
          PROVE  auths' # <<>> /\ HeadAgent' = b /\ auths'[1].id = agents'[b].request
      <4>1. auths # <<>> /\ HeadAgent = b /\ auths[1].id = agents[b].request
        BY <3>0, <3>1 DEF AskInv
      <4>2. n = 0
        BY <1>2, <1>8, <4>1
      <4> QED BY <1>4, <2>1, <2>3, <3>0, <4>1, <4>2
    <3>2. HeadAgent' # NoAgent => auths'[1].dev \notin trusted'
      BY <1>4, <1>12, <2>1, <2>3, <3>0 DEF AskInv
    <3> QED BY <3>1, <3>2 DEF AskInv
  <2>7. MoveInv'
    <3> SUFFICES ASSUME ops = {} PROVE MoveInv'
      BY <1>1 DEF MoveInv
    <3>1. MoveInv /\ "trust" \notin ops /\ bond' = bond
      BY <1>1 DEF IInv, bondVars
    <3>2. HeadAgent' # NoAgent => agents'[HeadAgent'].request \in ReqId
      <4> SUFFICES ASSUME HeadAgent' # NoAgent PROVE agents'[HeadAgent'].request \in ReqId
        OBVIOUS
      <4>1. n = 0 /\ HeadAgent' = HeadAgent /\ HeadAgent \in AgentId
        BY <1>12, <2>3
      <4> QED BY <1>11, <2>1, <3>1, <4>1 DEF MoveInv
    <3>3. auths' # <<>> => auths'[1].svc # "no" \/ HeadAgent' # NoAgent
      <4> SUFFICES ASSUME auths' # <<>> PROVE auths'[1].svc # "no" \/ HeadAgent' # NoAgent
        OBVIOUS
      <4>1. Stops(q[1]) /\ ~AsksNow(q[1]) /\ HeadAgent' = q[1].agent
        BY <1>7, <1>13, <2>1 DEF HeadAgent
      <4> QED BY <2>1, <4>1 DEF Stops, Waits, AsksNow
    <3> QED BY <1>6, <3>1, <3>2, <3>3 DEF MoveInv
  <2>8. \A b \in AgentId : /\ agents'[b].ref = ListHolds(b) + HeadHolds(b)' + BondHolds(b)
                           /\ agents'[b].ref = 0 => agents'[b].request = NoRequest
    <3> TAKE b \in AgentId
    <3>1. HeadHolds(b)' = HeadHolds(b) - drop(b)
      <4>1. CASE HeadAgent = b
        BY <1>8, <2>3, <4>1 DEF HeadHolds, drop
      <4>2. CASE HeadAgent # b
        BY <1>8, <2>3, <4>2 DEF HeadHolds, drop
      <4> QED BY <4>1, <4>2
    <3>2. drop(b) \in Nat /\ HeadHolds(b) \in Nat
      BY <1>8 DEF drop
    <3> QED BY <1>3, <1>8, <1>9, <2>1, <3>1, <3>2
  <2> QED BY <1>1, <2>2, <2>4, <2>5, <2>6, <2>7, <2>8, LetGoStep
<1>14. CASE q # <<>> /\ AsksNow(q[1])
  <2> DEFINE e == q[1]
             R == AgentRef(A, Default)
  <2>1. auths' = [q EXCEPT ![1].agent = Default] /\ agents' = AgentAsk(R, Default, e.id)
    BY <1>14, <1>a
  <2>2. /\ e \in Entry /\ e.svc = "no" /\ e.dev \notin trusted /\ e.agent = NoAgent
        /\ e.id \in ReqId /\ CanAsk
    BY <1>4, <1>7, <1>14 DEF AsksNow, Stops, Waits, Entry
  <2>3. Default \in AgentId /\ agents[Default].request = NoRequest
    BY <2>2, DefaultFacts DEF CanAsk, Busy
  <2>4. /\ R \in Table
        /\ \A b \in AgentId : /\ R[b].ref = IF b = Default THEN A[b].ref + 1 ELSE A[b].ref
                              /\ R[b].request = A[b].request
    BY <1>3, <2>3, AgentRefFacts
  <2> HIDE DEF R
  <2>5. /\ agents' \in Table
        /\ \A b \in AgentId : /\ agents'[b].ref = R[b].ref
                              /\ agents'[b].request = IF b = Default THEN e.id ELSE R[b].request
    BY <2>1, <2>2, <2>3, <2>4, Bounds, AgentAskFacts
  <2>6. n = 0 => HeadAgent = NoAgent
    <3> SUFFICES ASSUME n = 0, HeadAgent # NoAgent PROVE FALSE
      OBVIOUS
    <3>1. e = auths[1] /\ HeadAgent = auths[1].agent
      BY <1>4, <1>12
    <3> QED BY <2>2, <3>1
  <2>7. /\ auths' \in Seq(Entry) /\ DOMAIN auths' = DOMAIN q /\ auths' # <<>>
        /\ auths'[1].agent = Default /\ auths'[1].id = e.id /\ auths'[1].dev = e.dev /\ auths'[1].svc = "no"
        /\ \A k \in DOMAIN q : k # 1 => auths'[k] = q[k]
    <3> DEFINE f == [e EXCEPT !.agent = Default]
    <3>1. f \in Entry /\ f.agent = Default /\ f.id = e.id /\ f.dev = e.dev /\ f.svc = "no"
      BY <2>2, <2>3 DEF Entry
    <3>2. auths' = [q EXCEPT ![1] = f]
      BY <2>1
    <3> HIDE DEF e, f
    <3> QED BY <1>4, <1>14, <3>1, <3>2
  <2>8. HeadInv' /\ HeadAgent' = Default
    <3>1. HeadAgent' = Default
      BY <2>7 DEF HeadAgent
    <3> QED BY <1>4, <2>7, <3>1 DEF HeadInv
  <2>9. TypeOK'
    BY <1>1, <1>5, <1>6, <2>5, <2>7 DEF IInv, TypeOK, Table, AgentRec, devVars, bondVars
  <2>10. BondAskedInv'
    <3>1. \A b \in AgentId : agents'[b].request = BondRequest => agents[b].request = BondRequest
      <4> TAKE b \in AgentId
      <4>0. e.id # BondRequest /\ NoRequest # BondRequest
        BY <2>2, Bounds, MaxReqAssumption DEF NoRequest, BondRequest
      <4>1. CASE b = Default
        BY <2>5, <4>0, <4>1
      <4>2. CASE b # Default
        BY <1>10, <2>4, <2>5, <4>0, <4>2
      <4> QED BY <4>1, <4>2
    <3> QED BY <1>1, <3>1 DEF IInv, BondAskedInv, bondVars
  <2>11. AskInv'
    <3> SUFFICES ASSUME "trust" \notin ops PROVE AskInv'
      BY <1>1 DEF AskInv
    <3>0. AskInv /\ trusted' = trusted /\ HeadAgent = NoAgent
      BY <1>1, <1>2, <2>6 DEF IInv, devVars
    <3>1. \A b \in AgentId : agents'[b].request \in ReqId => b = Default
      <4> TAKE b \in AgentId
      <4>1. agents[b].request \notin ReqId
        BY <1>8, <3>0 DEF AskInv
      <4> QED BY <1>11, <2>4, <2>5, <4>1
    <3>2. agents'[Default].request = e.id
      BY <2>3, <2>5
    <3>3. \A b \in AgentId : agents'[b].request \in ReqId =>
            auths' # <<>> /\ HeadAgent' = b /\ auths'[1].id = agents'[b].request
      BY <2>7, <2>8, <3>1, <3>2
    <3>4. auths'[1].dev \notin trusted'
      BY <2>2, <2>7, <3>0
    <3> QED BY <3>3, <3>4 DEF AskInv
  <2>12. MoveInv'
    <3> SUFFICES ASSUME ops = {} PROVE MoveInv'
      BY <1>1 DEF MoveInv
    <3>1. MoveInv /\ bond' = bond
      BY <1>1 DEF IInv, bondVars
    <3>2. agents'[HeadAgent'].request \in ReqId /\ HeadAgent' # NoAgent
      BY <1>8, <2>2, <2>3, <2>5, <2>8
    <3> QED BY <1>6, <3>1, <3>2 DEF MoveInv
  <2>13. \A b \in AgentId : /\ agents'[b].ref = ListHolds(b) + HeadHolds(b)' + BondHolds(b)
                            /\ agents'[b].ref = 0 => agents'[b].request = NoRequest
    <3> TAKE b \in AgentId
    <3>1. drop(b) = HeadHolds(b) /\ drop(b) \in Nat
      <4>1. CASE HeadAgent = b
        <5>1. n # 0
          BY <1>8, <2>6, <4>1
        <5> QED BY <1>8, <4>1, <5>1 DEF drop
      <4>2. CASE HeadAgent # b
        BY <1>8, <4>2 DEF drop
      <4> QED BY <4>1, <4>2
    <3>2. A[b].ref = ListHolds(b) + BondHolds(b)
      BY <1>3, <1>8, <3>1
    <3>3. HeadHolds(b)' = IF b = Default THEN 1 ELSE 0
      BY <2>8 DEF HeadHolds
    <3>4. CASE b = Default
      <4>1. agents'[b].ref = ListHolds(b) + 1 + BondHolds(b)
        BY <1>8, <2>4, <2>5, <3>2, <3>4
      <4> QED BY <1>8, <3>3, <3>4, <4>1
    <3>5. CASE b # Default
      BY <1>8, <1>9, <2>4, <2>5, <3>2, <3>3, <3>5
    <3> QED BY <3>4, <3>5
  <2> QED BY <1>1, <2>8, <2>9, <2>10, <2>11, <2>12, <2>13, LetGoStep
<1> QED BY <1>13, <1>14

-----------------------------------------------------------------------------
(* The invariant                                                            *)

\* The adapter starts with an empty queue and no agents.
LEMMA InitInv == Init => IInv
<1> SUFFICES ASSUME Init PROVE IInv
  OBVIOUS
<1>0. /\ agents = [a \in AgentId |-> Freed] /\ listed = [c \in Client |-> NoAgent] /\ defaults = <<>>
      /\ auths = <<>> /\ idle = FALSE /\ idleId = FALSE /\ nreq = 0 /\ bond = NoAgent /\ bondAsked = FALSE
      /\ reentered = FALSE /\ outcome = [i \in ReqId |-> "none"] /\ devs = Dev /\ trusted \in SUBSET Dev
      /\ ops \in Uses
  BY DEF Init, AgentInit
<1>1. HeadAgent = NoAgent
  BY <1>0 DEF HeadAgent
<1>2. Freed \in AgentRec /\ Freed.ref = 0 /\ Freed.request = NoRequest
  BY Bounds DEF Freed, AgentRec
<1>3. agents \in Table /\ \A a \in AgentId : agents[a].ref = 0 /\ agents[a].request = NoRequest
  BY <1>0, <1>2 DEF Table
<1>4. TypeOK
  <2>1. nreq \in 0..MaxReq
    BY <1>0, MaxReqAssumption
  <2>2. idle \in BOOLEAN /\ idleId \in BOOLEAN /\ bondAsked \in BOOLEAN /\ reentered \in BOOLEAN
    BY <1>0, Zenon
  <2>3. defaults \in Seq(AgentId) /\ auths \in Seq(Entry)
    BY <1>0
  <2>4. /\ outcome \in [ReqId -> {"none", "queued", "yes", "no", "cancelled"}]
        /\ listed \in [Client -> AgentId \cup {NoAgent}]
    BY <1>0
  <2> QED BY <1>0, <1>3, <2>1, <2>2, <2>3, <2>4 DEF TypeOK, Table, AgentRec
<1>5. ListInv /\ DefaultsInv /\ HeadInv /\ BondInv
  BY <1>0 DEF ListInv, DefaultsInv, HeadInv, BondInv, Distinct
<1>6. CountInv
  <2>1. \A a \in AgentId : ListHolds(a) = 0 /\ HeadHolds(a) = 0 /\ BondHolds(a) = 0
    BY <1>0, <1>1, Bounds DEF ListHolds, HeadHolds, BondHolds
  <2> QED BY <1>3, <2>1 DEF CountInv
<1>7. BondAskedInv
  <2>1. NoRequest # BondRequest
    BY MaxReqAssumption DEF NoRequest, BondRequest
  <2> QED BY <1>3, <2>1 DEF BondAskedInv
<1>8. AskInv /\ MoveInv
  BY <1>0, <1>1, <1>3, Bounds DEF AskInv, MoveInv
<1> QED BY <1>4, <1>5, <1>6, <1>7, <1>8 DEF IInv

\* A step that changes nothing keeps the invariant.
LEMMA Stutter == IInv /\ UNCHANGED vars => IInv'
<1> SUFFICES ASSUME IInv, UNCHANGED vars PROVE IInv'
  OBVIOUS
<1>1. UNCHANGED <<ops, agents, listed, defaults, auths, idle, idleId, nreq, outcome, devs, trusted, bond, bondAsked, reentered>>
  BY DEF vars, agentVars, queueVars, devVars, bondVars
<1>2. HeadAgent' = HeadAgent /\ HeadInv'
  BY <1>1 DEF HeadAgent, IInv, HeadInv
<1>3. TypeOK'
  BY <1>1 DEF IInv, TypeOK
<1>4. MoveInv'
  BY <1>1, <1>2 DEF IInv, MoveInv
<1>5. HeadAgent # NoAgent => auths # <<>>
  BY HeadFacts DEF IInv
<1> QED BY <1>1, <1>2, <1>3, <1>4, <1>5, QueueStep DEF agentVars, bondVars

\* Every step keeps the invariant.
LEMMA Inductive == IInv /\ [Next]_vars => IInv'
<1> SUFFICES ASSUME IInv, [Next]_vars PROVE IInv'
  OBVIOUS
<1>1. CASE Next
  <2>0. ~reentered
    BY <1>1 DEF Next
  <2>1. ASSUME NEW c \in Client, Register(c) PROVE IInv'
    BY <2>1, RegisterAgentStep, RequestDefaultStep DEF Register
  <2>2. ASSUME NEW c \in Client, AgentLeaves(c) \/ BondStart(c) PROVE IInv'
    BY <2>0, <2>2, AgentLeavesStep, BondStartStep
  <2>3. ASSUME NEW d \in Dev, RequestAuthorization(d) \/ RequestCableConfigured(d) PROVE IInv'
    BY <2>3, RequestStep
  <2>4. ASSUME NEW d \in Dev, SvcResolved(d) PROVE IInv'
    BY <2>4, SvcCompleteStep DEF SvcResolved
  <2>5. ASSUME NEW d \in Dev, RemoveDevice(d) \/ SetTrusted(d) PROVE IInv'
    BY <2>5, RemoveDeviceStep, SetTrustedStep
  <2>6. ASSUME NEW k \in ReqId, SvcIdleCb(k) PROVE IInv'
    BY <2>6, SvcCompleteStep DEF SvcIdleCb
  <2>7. ASSUME NEW k \in ReqId, CancelAuthorization(k) PROVE IInv'
    BY <2>7, CancelAuthorizationStep
  <2>8. ASSUME NEW a \in AgentId, AuthorizeServiceReply(a) PROVE IInv'
    BY <2>0, <2>8, ReplyStep
  <2>9. CASE ProcessAuthQueue \/ BondAsk \/ BondReply \/ BondEnd
    BY <2>0, <2>9, ProcessStep, BondAskStep, BondReplyStep, BondEndStep
  <2> QED BY <1>1, <2>1, <2>2, <2>3, <2>4, <2>5, <2>6, <2>7, <2>8, <2>9 DEF Next
<1>2. CASE UNCHANGED vars
  BY <1>2, Stutter
<1> QED BY <1>1, <1>2

-----------------------------------------------------------------------------
(* What the invariant says                                                  *)

\* The holders an agent counts are those that are there.
LEMMA HoldersCounted ==
  ASSUME IInv, NEW a \in AgentId
  PROVE  Holders(a) = ListHolds(a) + HeadHolds(a) + BondHolds(a)
<1> DEFINE L == {c \in Client : listed[c] = a}
           H == {k \in DOMAIN auths : auths[k].agent = a}
<1>0. a # NoAgent
  BY Bounds
<1>1. Cardinality(L) = ListHolds(a)
  <2>1. CASE \E c \in Client : listed[c] = a
    <3>1. PICK c \in Client : listed[c] = a
      BY <2>1
    <3>2. L = {c}
      BY <1>0, <3>1 DEF IInv, ListInv
    <3>3. Cardinality(L) = 1
      BY <3>2, FS_Singleton
    <3> QED BY <2>1, <3>3 DEF ListHolds
  <2>2. CASE ~\E c \in Client : listed[c] = a
    <3>1. L = {}
      BY <2>2
    <3>2. Cardinality(L) = 0
      BY <3>1, FS_EmptySet
    <3> QED BY <2>2, <3>2 DEF ListHolds
  <2> QED BY <2>1, <2>2
<1>2. Cardinality(H) = HeadHolds(a)
  <2>0. /\ auths # <<>> => 1 \in DOMAIN auths /\ HeadAgent = auths[1].agent
        /\ HeadAgent # NoAgent => auths # <<>>
    BY HeadFacts DEF IInv
  <2>1. CASE HeadAgent = a
    <3>1. H = {1}
      BY <1>0, <2>0, <2>1 DEF IInv, HeadInv
    <3>2. Cardinality(H) = 1
      BY <3>1, FS_Singleton
    <3> QED BY <2>1, <3>2 DEF HeadHolds
  <2>2. CASE HeadAgent # a
    <3>1. H = {}
      <4>1. \A k \in DOMAIN auths : auths # <<>>
        OBVIOUS
      <4> QED BY <1>0, <2>0, <2>2, <4>1 DEF IInv, HeadInv
    <3>2. Cardinality(H) = 0
      BY <3>1, FS_EmptySet
    <3> QED BY <2>2, <3>2 DEF HeadHolds
  <2> QED BY <2>1, <2>2
<1> QED BY <1>1, <1>2 DEF Holders, BondHolds

\* The holders of an agent, added up, are Holders.
LEMMA Accounted == IInv => AgentsAccounted
<1> SUFFICES ASSUME IInv PROVE AgentsAccounted
  OBVIOUS
<1>1. \A a \in AgentId : agents[a].ref = Holders(a)
  BY HoldersCounted, AgentTypes
<1> QED BY <1>1 DEF IInv, DefaultsInv, Distinct, AgentsAccounted

\* An asked head has its question out, so the queue moves.
LEMMA Advances == IInv => QueueAdvances
<1> SUFFICES ASSUME IInv, ops = {}, ~reentered, auths # <<>> PROVE HeadMoves
  BY DEF QueueAdvances, Undisturbed
<1>1. idle \/ auths[1].svc # "no" \/ HeadAgent # NoAgent
  BY DEF IInv, MoveInv
<1>2. HeadAgent # NoAgent => HeadAgent \in AgentId /\ agents[HeadAgent].request \in ReqId
  BY HeadFacts DEF IInv, MoveInv
<1> QED BY <1>1, <1>2 DEF HeadMoves

\* Who is let in: by process_auth_queue because he is trusted, by an answer
\* because he is at the head.
LEMMA LetIn ==
  ASSUME IInv, Next, "trust" \notin ops,
         NEW i \in ReqId, outcome[i] = "queued", outcome'[i] = "yes"
  PROVE  AllowsIn(i)
<1>0. DOMAIN outcome = ReqId
  BY DEF IInv, TypeOK
<1>1. CASE ProcessAuthQueue
  <2>n. PICK n \in 0..Len(auths) :
          outcome' = [r \in ReqId |-> IF \E k \in 1..n : auths[k].id = r
                                        THEN Verdict(CHOOSE k \in 1..n : auths[k].id = r)
                                        ELSE outcome[r]]
    BY <1>1 DEF ProcessAuthQueue
  <2> DEFINE k == CHOOSE k \in 1..n : auths[k].id = i
  <2>1. outcome'[i] = IF \E j \in 1..n : auths[j].id = i THEN Verdict(k) ELSE outcome[i]
    BY <2>n
  <2>2. \E j \in 1..n : auths[j].id = i
    BY <2>1
  <2>3. k \in 1..n /\ auths[k].id = i
    BY <2>2
  <2>4. n \in 0..Len(auths) /\ Len(auths) \in Nat /\ DOMAIN auths = 1..Len(auths)
    BY HeadFacts DEF IInv
  <2>5. Verdict(k) = "yes"
    BY <2>1, <2>2
  <2> HIDE DEF k
  <2>6. k \in DOMAIN auths
    BY <2>3, <2>4
  <2>7. auths[k].dev \in trusted
    BY <2>5 DEF Verdict
  <2> QED BY <2>3, <2>6, <2>7 DEF AllowsIn
<1>2. ASSUME NEW a \in AgentId, AuthorizeServiceReply(a) PROVE AllowsIn(i)
  <2>1. agents[a].request \in ReqId
    BY <1>2 DEF AuthorizeServiceReply
  <2>2. auths # <<>> /\ auths[1].id = agents[a].request
    BY <2>1 DEF IInv, AskInv
  <2>3. PICK v \in {"yes", "no"} : AgentAuthCb(v)
    BY <1>2 DEF AuthorizeServiceReply
  <2>4. outcome' = Told({1}, v)
    BY <2>2, <2>3 DEF AgentAuthCb
  <2>5. auths[1].id = i
    BY <2>4 DEF Told
  <2> QED BY <2>2, <2>5 DEF AllowsIn
<1>3. ASSUME NEW d, NEW s, Push(d, s) PROVE FALSE
  <2>1. outcome' = [outcome EXCEPT ![nreq + 1] = "queued"]
    BY <1>3 DEF Push
  <2> QED BY <1>0, <2>1
<1>4. ASSUME NEW I, NEW v \in {"no", "cancelled"}, outcome' = Told(I, v) PROVE FALSE
  BY <1>4 DEF Told
<1>5. ASSUME UNCHANGED outcome PROVE FALSE
  BY <1>5
<1>6. ASSUME NEW c \in Client, Register(c) \/ AgentLeaves(c) \/ BondStart(c) PROVE FALSE
  BY <1>5, <1>6 DEF Register, AgentLeaves, BondStart, queueVars
<1>7. ASSUME NEW d \in Dev, RequestAuthorization(d) \/ RequestCableConfigured(d) PROVE FALSE
  BY <1>3, <1>7 DEF RequestAuthorization, RequestCableConfigured
<1>8. ASSUME NEW d \in Dev, SvcResolved(d) \/ SetTrusted(d) PROVE FALSE
  BY <1>5, <1>8 DEF SvcResolved, SetTrusted, queueVars
<1>9. ASSUME NEW d \in Dev, RemoveDevice(d) PROVE FALSE
  BY <1>4, <1>9 DEF RemoveDevice
<1>10. ASSUME NEW k \in ReqId, SvcIdleCb(k) \/ CancelAuthorization(k) PROVE FALSE
  <2>1. CASE SvcIdleCb(k)
    BY <1>5, <2>1 DEF SvcIdleCb
  <2>2. CASE CancelAuthorization(k)
    BY <1>4, <2>2 DEF CancelAuthorization
  <2> QED BY <1>10, <2>1, <2>2
<1>11. CASE BondAsk \/ BondReply \/ BondEnd
  BY <1>5, <1>11 DEF BondAsk, BondReply, BondEnd, queueVars
<1> QED BY <1>1, <1>2, <1>6, <1>7, <1>8, <1>9, <1>10, <1>11 DEF Next

\* The queue, the agents and the pairing at them keep their types, for every
\* number of programs, devices, agents and requests.
THEOREM AuthTypeCorrect == Spec => []TypeOK
<1>1. IInv => TypeOK
  BY DEF IInv
<1> QED BY <1>1, InitInv, Inductive, PTL DEF Spec

\* agent_ref and agent_unref are called in pairs on every path of the queue,
\* of the list of agents and of a pairing: the count of an agent is the number
\* of its holders, and default_agents holds agents of the list, once each.
THEOREM AgentsCounted == Spec => []AgentsAccounted
<1> QED BY Accounted, InitInv, Inductive, PTL DEF Spec

\* As long as nothing is cancelled and no trust changes, auth_idle_id tells
\* whether process_auth_queue is scheduled, and a waiting queue is on its way.
THEOREM QueueNeverStalls == Spec => []QueueAdvances
<1> QED BY Advances, InitInv, Inductive, PTL DEF Spec

\* While no device's trust changes, agent_auth_cb answers the entry the agent
\* was asked about, although it looks at the head of the queue only.
THEOREM AnswersReachTheAsked == Spec => AnswerIsForAsked
<1> DEFINE L == ("trust" \notin ops) =>
                  \A i \in ReqId : (outcome[i] = "queued" /\ outcome'[i] = "yes") => AllowsIn(i)
<1>1. IInv /\ [Next]_vars => [L]_vars
  <2> SUFFICES ASSUME IInv, Next PROVE L
    OBVIOUS
  <2> QED BY LetIn
<1> QED BY <1>1, InitInv, Inductive, PTL DEF Spec, AnswerIsForAsked
=============================================================================
