--------------------------- MODULE Pairing_proofs ---------------------------
(***************************************************************************)
(* Pairing: types, the references of the agents, what a question's callback *)
(* finds, what a Pair in progress waits for, and that Pair is answered      *)
(* once, for all circumstances, devices, agents and bounds.                 *)
(***************************************************************************)
EXTENDS Pairing, Sublists_proofs

AgentRec == [ref : Nat, request : 0..NDev]
Table == [AgentId -> AgentRec]
AuthRec == [type : {"none", "ask", "notify"}, agent : AgentId \cup {NoAgent}]

\* Who holds an agent.
Is(x, a) == IF x = a THEN 1 ELSE 0
ListHolds(a) == IF \E c \in Client : listed[c] = a THEN 1 ELSE 0
Holding(f, a) == Cardinality({e \in Dev : f[e] = a})
BondHolds(a) == Holding(bagent, a)
AuthHolds(a) == Holding([e \in Dev |-> authr[e].agent], a)

\* A program has one agent, of its own; the default agents are in the list.
ListInv == \A c, e \in Client : (listed[c] = listed[e] /\ listed[c] # NoAgent) => c = e
DefaultsInv == \A k \in DOMAIN defaults : \E c \in Client : listed[c] = defaults[k]

\* The count of an agent, and what a freed one forgets.
CountInv ==
  /\ \A a \in AgentId : agents[a].ref >= ListHolds(a) + BondHolds(a) + AuthHolds(a)
  /\ \A a \in AgentId : agents[a].ref = 0 => agents[a].request = NoRequest

\* The question an agent has is that of the authentication that holds it.
AskInv ==
  "remove" \notin ops =>
     \A a \in AgentId : agents[a].request # NoRequest =>
        authr[agents[a].request] = [type |-> "ask", agent |-> a]

AgentInv ==
  /\ agents \in Table /\ listed \in [Client -> AgentId \cup {NoAgent}] /\ defaults \in Seq(AgentId)
  /\ bagent \in [Dev -> AgentId \cup {NoAgent}] /\ authr \in [Dev -> AuthRec]
  /\ ListInv /\ DefaultsInv /\ CountInv
  /\ \A d \in Dev : authr[d].type = "none" => authr[d].agent = NoAgent
  /\ AskInv

-----------------------------------------------------------------------------
(* The agents                                                               *)

\* Numbers of agents and devices, and what stands for none.
LEMMA Bounds ==
  /\ AgentId \subseteq Nat /\ NoAgent \notin AgentId /\ NoAgent = 0
  /\ NoRequest \notin Dev /\ NoRequest = 0 /\ NoRequest \in 0..NDev /\ Dev \subseteq 0..NDev
  /\ \A r \in 0..NDev : r # NoRequest => r \in Dev
  /\ CallId \subseteq Nat /\ NoCall = 0 /\ NoCall \notin CallId /\ NoBrowse = -1 /\ NoBrowse \notin CallId
  /\ \A i \in 0..MaxCall : i # NoCall => i \in CallId
  /\ NDev \in Nat /\ MaxCall \in Nat /\ MaxPin \in Nat /\ MaxAgent \in Nat
BY MaxAgentAssumption, BoundsAssumption DEF AgentId, NoAgent, NoRequest, Dev, CallId, NoCall, NoBrowse

\* Setting one field of a counted agent.
LEMMA RecordFacts ==
  ASSUME NEW r \in AgentRec
  PROVE  /\ r.ref \in Nat /\ r.request \in 0..NDev
         /\ \A n \in Nat : /\ [r EXCEPT !.ref = n] \in AgentRec
                          /\ [r EXCEPT !.ref = n].ref = n /\ [r EXCEPT !.ref = n].request = r.request
         /\ \A q \in 0..NDev :
                          /\ [r EXCEPT !.request = q] \in AgentRec
                          /\ [r EXCEPT !.request = q].ref = r.ref /\ [r EXCEPT !.request = q].request = q
BY DEF AgentRec

\* What an authentication is made of.
LEMMA AuthFacts ==
  /\ NoAuth \in AuthRec /\ NoAuth.type = "none" /\ NoAuth.agent = NoAgent
  /\ \A x \in AuthRec : /\ x.agent \in AgentId \cup {NoAgent} /\ x.type \in {"none", "ask", "notify"}
                        /\ (x.type = "none" /\ x.agent = NoAgent) => x = NoAuth
                        /\ [x EXCEPT !.agent = NoAgent] \in AuthRec
                        /\ [x EXCEPT !.agent = NoAgent].agent = NoAgent
                        /\ [x EXCEPT !.agent = NoAgent].type = x.type
  /\ \A a \in AgentId : /\ [type |-> "ask", agent |-> a] \in AuthRec
                        /\ [type |-> "notify", agent |-> a] \in AuthRec
BY DEF AuthRec, NoAuth

\* agent_ref counts one more holder of one agent.
LEMMA AgentRefFacts ==
  ASSUME NEW A \in Table, NEW a \in AgentId
  PROVE  /\ AgentRef(A, a) \in Table
         /\ \A b \in AgentId : /\ AgentRef(A, a)[b].ref = A[b].ref + Is(b, a)
                               /\ AgentRef(A, a)[b].request = A[b].request
<1> DEFINE r == [A[a] EXCEPT !.ref = A[a].ref + 1]
<1>1. A[a] \in AgentRec /\ A[a].ref + 1 \in Nat /\ \A b \in AgentId : A[b].ref \in Nat
  BY RecordFacts DEF Table
<1>2. AgentRef(A, a) = [A EXCEPT ![a] = r]
  BY DEF AgentRef
<1>3. r \in AgentRec /\ r.ref = A[a].ref + 1 /\ r.request = A[a].request
  BY <1>1, RecordFacts
<1> HIDE DEF r
<1> QED BY <1>1, <1>2, <1>3 DEF Table, Is

\* agent_unref counts one holder less, and frees the agent with the last.
LEMMA AgentUnrefFacts ==
  ASSUME NEW A \in Table, NEW a \in AgentId, A[a].ref # 0
  PROVE  /\ AgentUnref(A, a) \in Table
         /\ \A b \in AgentId :
              /\ AgentUnref(A, a)[b].ref = A[b].ref - Is(b, a)
              /\ AgentUnref(A, a)[b].request =
                   IF b = a /\ A[b].ref = 1 THEN NoRequest ELSE A[b].request
<1> DEFINE r == IF A[a].ref = 1 THEN Freed ELSE [A[a] EXCEPT !.ref = A[a].ref - 1]
<1>1. A[a] \in AgentRec /\ A[a].ref \in Nat /\ A[a].ref - 1 \in Nat /\ \A b \in AgentId : A[b].ref \in Nat
  BY RecordFacts DEF Table
<1>2. AgentUnref(A, a) = [A EXCEPT ![a] = r]
  <2>1. CASE A[a].ref = 1
    BY <2>1 DEF AgentUnref
  <2>2. CASE A[a].ref # 1
    BY <2>2 DEF AgentUnref
  <2> QED BY <2>1, <2>2
<1>3. r \in AgentRec /\ r.ref = A[a].ref - 1 /\ r.request = IF A[a].ref = 1 THEN NoRequest ELSE A[a].request
  <2>1. CASE A[a].ref = 1
    BY <2>1, Bounds DEF Freed, AgentRec
  <2>2. CASE A[a].ref # 1
    BY <1>1, <2>2, RecordFacts
  <2> QED BY <2>1, <2>2
<1> HIDE DEF r
<1> QED BY <1>1, <1>2, <1>3 DEF Table, Is

\* Asking an agent sets its one request.
LEMMA AgentAskFacts ==
  ASSUME NEW A \in Table, NEW a \in AgentId, NEW q \in 0..NDev
  PROVE  /\ AgentAsk(A, a, q) \in Table
         /\ \A b \in AgentId : /\ AgentAsk(A, a, q)[b].ref = A[b].ref
                               /\ AgentAsk(A, a, q)[b].request = IF b = a THEN q ELSE A[b].request
<1> DEFINE r == [A[a] EXCEPT !.request = q]
<1>1. A[a] \in AgentRec
  BY DEF Table
<1>2. AgentAsk(A, a, q) = [A EXCEPT ![a] = r]
  BY DEF AgentAsk
<1>3. r \in AgentRec /\ r.ref = A[a].ref /\ r.request = q
  BY <1>1, RecordFacts
<1> HIDE DEF r
<1> QED BY <1>2, <1>3 DEF Table

\* agent_cancel forgets the request of one agent.
LEMMA AgentCancelFacts ==
  ASSUME NEW A \in Table, NEW a \in AgentId
  PROVE  /\ AgentCancel(A, a) \in Table
         /\ \A b \in AgentId : /\ AgentCancel(A, a)[b].ref = A[b].ref
                               /\ AgentCancel(A, a)[b].request = IF b = a THEN NoRequest ELSE A[b].request
<1>1. AgentCancel(A, a) = AgentAsk(A, a, NoRequest)
  BY DEF AgentCancel, AgentAsk
<1> QED BY <1>1, AgentAskFacts, Bounds

\* A holder that cancels its question and lets the agent go.
LEMMA CancelUnrefFacts ==
  ASSUME NEW A \in Table, NEW a \in AgentId, A[a].ref # 0
  PROVE  /\ AgentUnref(AgentCancel(A, a), a) \in Table
         /\ \A b \in AgentId :
              /\ AgentUnref(AgentCancel(A, a), a)[b].ref = A[b].ref - Is(b, a)
              /\ AgentUnref(AgentCancel(A, a), a)[b].request = IF b = a THEN NoRequest ELSE A[b].request
<1> DEFINE C == AgentCancel(A, a)
<1>1. /\ C \in Table
      /\ \A b \in AgentId : C[b].ref = A[b].ref /\ C[b].request = IF b = a THEN NoRequest ELSE A[b].request
  BY AgentCancelFacts
<1>2. C[a].ref # 0
  BY <1>1
<1> HIDE DEF C
<1>3. /\ AgentUnref(C, a) \in Table
      /\ \A b \in AgentId : /\ AgentUnref(C, a)[b].ref = C[b].ref - Is(b, a)
                            /\ AgentUnref(C, a)[b].request = IF b = a /\ C[b].ref = 1 THEN NoRequest ELSE C[b].request
  BY <1>1, <1>2, AgentUnrefFacts
<1> QED BY <1>1, <1>3 DEF C

\* The agents after device_cancel_authentication: the question is cancelled, and
\* the reference is dropped when the authentication is aborted.
LEMMA CancelAuthenticationFacts ==
  ASSUME NEW A \in Table, NEW d \in Dev, NEW ab \in BOOLEAN, authr[d].agent \in AgentId \cup {NoAgent},
         authr[d].agent # NoAgent => A[authr[d].agent].ref # 0
  PROVE  /\ CancelAuthentication(A, d, ab) \in Table
         /\ \A b \in AgentId :
              /\ CancelAuthentication(A, d, ab)[b].ref = A[b].ref - (IF ab THEN Is(b, authr[d].agent) ELSE 0)
              /\ CancelAuthentication(A, d, ab)[b].request =
                   IF b = authr[d].agent THEN NoRequest ELSE A[b].request
<1> DEFINE a == authr[d].agent
<1>0. \A b \in AgentId : A[b].ref \in Nat /\ b # NoAgent
  BY RecordFacts, Bounds DEF Table
<1>1. CASE a = NoAgent
  <2>1. CancelAuthentication(A, d, ab) = A
    BY <1>1 DEF CancelAuthentication
  <2> QED BY <1>0, <1>1, <2>1 DEF Is
<1>2. CASE a # NoAgent /\ ab
  <2>1. CancelAuthentication(A, d, ab) = AgentUnref(AgentCancel(A, a), a) /\ a \in AgentId /\ A[a].ref # 0
    BY <1>2 DEF CancelAuthentication
  <2> HIDE DEF a
  <2>2. \A b \in AgentId : Is(b, a) = (IF ab THEN Is(b, a) ELSE 0)
    BY <1>2 DEF Is
  <2>3. /\ AgentUnref(AgentCancel(A, a), a) \in Table
        /\ \A b \in AgentId :
              /\ AgentUnref(AgentCancel(A, a), a)[b].ref = A[b].ref - Is(b, a)
              /\ AgentUnref(AgentCancel(A, a), a)[b].request = IF b = a THEN NoRequest ELSE A[b].request
    BY <2>1, CancelUnrefFacts
  <2> QED BY <2>1, <2>2, <2>3 DEF a
<1>3. CASE a # NoAgent /\ ~ab
  <2>1. CancelAuthentication(A, d, ab) = AgentCancel(A, a) /\ a \in AgentId
    BY <1>3 DEF CancelAuthentication
  <2> HIDE DEF a
  <2>2. \A b \in AgentId : A[b].ref = A[b].ref - (IF ab THEN Is(b, a) ELSE 0)
    BY <1>0, <1>3 DEF Is
  <2>3. /\ AgentCancel(A, a) \in Table
        /\ \A b \in AgentId : /\ AgentCancel(A, a)[b].ref = A[b].ref
                              /\ AgentCancel(A, a)[b].request = IF b = a THEN NoRequest ELSE A[b].request
    BY <2>1, AgentCancelFacts
  <2> QED BY <2>1, <2>2, <2>3 DEF a
<1> QED BY <1>1, <1>2, <1>3

\* The agents after bonding_request_free.
LEMMA LetGoFacts ==
  ASSUME NEW A \in Table, NEW d \in Dev, bagent[d] \in AgentId \cup {NoAgent},
         bagent[d] # NoAgent => A[bagent[d]].ref # 0
  PROVE  /\ LetGoBonding(A, d) \in Table
         /\ \A b \in AgentId :
              /\ LetGoBonding(A, d)[b].ref = A[b].ref - Is(b, bagent[d])
              /\ LetGoBonding(A, d)[b].request = IF b = bagent[d] THEN NoRequest ELSE A[b].request
<1>0. \A b \in AgentId : A[b].ref \in Nat /\ b # NoAgent
  BY RecordFacts, Bounds DEF Table
<1>1. CASE bagent[d] = NoAgent
  <2>1. LetGoBonding(A, d) = A
    BY <1>1 DEF LetGoBonding
  <2> QED BY <1>0, <1>1, <2>1 DEF Is
<1>2. CASE bagent[d] # NoAgent
  <2>1. LetGoBonding(A, d) = AgentUnref(AgentCancel(A, bagent[d]), bagent[d]) /\ bagent[d] \in AgentId
    BY <1>2 DEF LetGoBonding
  <2> QED BY <1>2, <2>1, CancelUnrefFacts
<1> QED BY <1>1, <1>2

-----------------------------------------------------------------------------
(* Holders                                                                  *)

\* Setting one entry of a list moves one holder.
LEMMA CountOne ==
  ASSUME NEW f, NEW g, NEW d \in Dev, NEW a,
         \A e \in Dev : e # d => g[e] = f[e]
  PROVE  /\ Holding(f, a) \in Nat /\ Holding(g, a) \in Nat
         /\ Holding(g, a) + Is(f[d], a) = Holding(f, a) + Is(g[d], a)
<1> DEFINE F == {e \in Dev : f[e] = a}
           G == {e \in Dev : g[e] = a}
           R == F \ {d}
<1>0. IsFiniteSet(Dev)
  BY Bounds, FS_Interval DEF Dev
<1>1. IsFiniteSet(F) /\ IsFiniteSet(R)
  <2>1. F \in SUBSET Dev /\ R \in SUBSET Dev
    OBVIOUS
  <2> QED BY <1>0, <2>1, FS_Subset
<1>2. F = IF f[d] = a THEN R \cup {d} ELSE R
  OBVIOUS
<1>3. G = IF g[d] = a THEN R \cup {d} ELSE R
  OBVIOUS
<1>4. d \notin R
  OBVIOUS
<1> HIDE DEF F, G, R
<1>5. Cardinality(R) \in Nat /\ Cardinality(R \cup {d}) = Cardinality(R) + 1
  BY <1>1, <1>4, FS_AddElement, FS_CardinalityType
<1>6. Cardinality(F) = Cardinality(R) + Is(f[d], a)
  BY <1>2, <1>5 DEF Is
<1>7. Cardinality(G) = Cardinality(R) + Is(g[d], a)
  BY <1>3, <1>5 DEF Is
<1>8. Is(f[d], a) \in {0, 1} /\ Is(g[d], a) \in {0, 1}
  BY DEF Is
<1>9. Holding(f, a) = Cardinality(F) /\ Holding(g, a) = Cardinality(G)
  BY DEF Holding, F, G
<1> QED BY <1>5, <1>6, <1>7, <1>8, <1>9

\* Who holds an agent is counted.
LEMMA CountSome ==
  ASSUME NEW f, NEW a
  PROVE  /\ Holding(f, a) \in Nat
         /\ \A d \in Dev : f[d] = a => Holding(f, a) >= 1
<1> DEFINE F == {e \in Dev : f[e] = a}
<1>1. IsFiniteSet(Dev)
  BY Bounds, FS_Interval DEF Dev
<1>2. F \in SUBSET Dev /\ \A d \in Dev : f[d] = a => F # {}
  OBVIOUS
<1>3. Holding(f, a) = Cardinality(F)
  BY DEF Holding
<1> HIDE DEF F
<1>4. IsFiniteSet(F) /\ Cardinality(F) \in Nat /\ (F # {} => Cardinality(F) # 0)
  BY <1>1, <1>2, FS_Subset, FS_CardinalityType, FS_EmptySet
<1> QED BY <1>2, <1>3, <1>4

\* Who holds an agent keeps it from being freed.
LEMMA Held ==
  ASSUME AgentInv, NEW a \in AgentId
  PROVE  /\ agents[a].ref \in Nat /\ BondHolds(a) \in Nat /\ AuthHolds(a) \in Nat /\ ListHolds(a) \in {0, 1}
         /\ (\E c \in Client : listed[c] = a) => ListHolds(a) = 1
         /\ \A d \in Dev : bagent[d] = a => BondHolds(a) >= 1
         /\ \A d \in Dev : authr[d].agent = a => AuthHolds(a) >= 1
         /\ agents[a].ref >= ListHolds(a) + BondHolds(a) + AuthHolds(a)
<1> DEFINE f == [e \in Dev |-> authr[e].agent]
<1>1. agents[a].ref \in Nat /\ agents[a].ref >= ListHolds(a) + BondHolds(a) + AuthHolds(a)
  BY RecordFacts DEF AgentInv, CountInv, Table
<1>2. ListHolds(a) \in {0, 1} /\ ((\E c \in Client : listed[c] = a) => ListHolds(a) = 1)
  BY DEF ListHolds, Is
<1>3. BondHolds(a) \in Nat /\ \A d \in Dev : bagent[d] = a => BondHolds(a) >= 1
  BY CountSome DEF BondHolds
<1>4. AuthHolds(a) \in Nat /\ \A d \in Dev : authr[d].agent = a => AuthHolds(a) >= 1
  <2>1. AuthHolds(a) = Holding(f, a) /\ \A d \in Dev : f[d] = authr[d].agent
    BY DEF AuthHolds
  <2> HIDE DEF f
  <2> QED BY <2>1, CountSome
<1> QED BY <1>1, <1>2, <1>3, <1>4

\* A step of one device: what it lets go it no longer holds, what it takes is
\* counted, and a new question is that of its authentication.
LEMMA HoldStep ==
  ASSUME AgentInv, NEW d \in Dev, NEW x \in AgentId \cup {NoAgent}, NEW y \in AuthRec,
         y.type = "none" => y.agent = NoAgent,
         UNCHANGED <<ops, listed, defaults>>, agents' \in Table,
         bagent' = [bagent EXCEPT ![d] = x], authr' = [authr EXCEPT ![d] = y],
         \A a \in AgentId : agents'[a].ref + Is(bagent[d], a) + Is(authr[d].agent, a)
                              >= agents[a].ref + Is(x, a) + Is(y.agent, a),
         \A a \in AgentId : agents'[a].ref = 0 => agents'[a].request = NoRequest,
         "remove" \notin ops => \A a \in AgentId : agents'[a].request # NoRequest =>
            \/ agents'[a].request = d /\ y = [type |-> "ask", agent |-> a]
            \/ agents'[a].request # d /\ agents'[a].request = agents[a].request
  PROVE  AgentInv'
<1>t. /\ agents \in Table /\ listed \in [Client -> AgentId \cup {NoAgent}] /\ defaults \in Seq(AgentId)
      /\ bagent \in [Dev -> AgentId \cup {NoAgent}] /\ authr \in [Dev -> AuthRec]
      /\ ListInv /\ DefaultsInv /\ AskInv
      /\ \A e \in Dev : authr[e].type = "none" => authr[e].agent = NoAgent
  BY DEF AgentInv
<1>1. /\ bagent' \in [Dev -> AgentId \cup {NoAgent}] /\ bagent'[d] = x
      /\ \A e \in Dev : e # d => bagent'[e] = bagent[e]
  BY <1>t
<1>2. /\ authr' \in [Dev -> AuthRec] /\ authr'[d] = y
      /\ \A e \in Dev : e # d => authr'[e] = authr[e]
  BY <1>t
<1>3. ListInv' /\ DefaultsInv'
  BY <1>t DEF ListInv, DefaultsInv
<1>4. \A e \in Dev : authr'[e].type = "none" => authr'[e].agent = NoAgent
  BY <1>2, <1>t
<1>5. \A a \in AgentId : agents'[a].ref >= ListHolds(a)' + BondHolds(a)' + AuthHolds(a)'
  <2> TAKE a \in AgentId
  <2>0. /\ agents[a].ref \in Nat /\ BondHolds(a) \in Nat /\ AuthHolds(a) \in Nat /\ ListHolds(a) \in {0, 1}
        /\ agents[a].ref >= ListHolds(a) + BondHolds(a) + AuthHolds(a)
    BY Held
  <2>1. ListHolds(a)' = ListHolds(a)
    BY DEF ListHolds
  <2>2. BondHolds(a)' \in Nat /\ BondHolds(a)' + Is(bagent[d], a) = BondHolds(a) + Is(x, a)
    <3> DEFINE f == bagent
               g == bagent'
    <3>1. \A e \in Dev : e # d => g[e] = f[e]
      BY <1>1
    <3>2. /\ BondHolds(a) = Holding(f, a) /\ f[d] = bagent[d]
          /\ BondHolds(a)' = Holding(g, a) /\ g[d] = x
      BY <1>1 DEF BondHolds
    <3> HIDE DEF f, g
    <3>3. /\ Holding(g, a) \in Nat
          /\ Holding(g, a) + Is(f[d], a) = Holding(f, a) + Is(g[d], a)
      BY <3>1, CountOne
    <3> QED BY <3>2, <3>3
  <2>3. AuthHolds(a)' \in Nat /\ AuthHolds(a)' + Is(authr[d].agent, a) = AuthHolds(a) + Is(y.agent, a)
    <3> DEFINE f == [e \in Dev |-> authr[e].agent]
               g == [e \in Dev |-> authr'[e].agent]
    <3>1. \A e \in Dev : e # d => g[e] = f[e]
      BY <1>2
    <3>2. /\ AuthHolds(a) = Holding(f, a) /\ f[d] = authr[d].agent
          /\ AuthHolds(a)' = Holding(g, a) /\ g[d] = y.agent
      BY <1>2 DEF AuthHolds
    <3> HIDE DEF f, g
    <3>3. /\ Holding(g, a) \in Nat
          /\ Holding(g, a) + Is(f[d], a) = Holding(f, a) + Is(g[d], a)
      BY <3>1, CountOne
    <3> QED BY <3>2, <3>3
  <2>4. agents'[a].ref \in Nat
    BY RecordFacts DEF Table
  <2>5. /\ Is(bagent[d], a) \in {0, 1} /\ Is(x, a) \in {0, 1}
        /\ Is(authr[d].agent, a) \in {0, 1} /\ Is(y.agent, a) \in {0, 1}
    BY DEF Is
  <2>6. agents'[a].ref + Is(bagent[d], a) + Is(authr[d].agent, a)
              >= agents[a].ref + Is(x, a) + Is(y.agent, a)
    OBVIOUS
  <2> QED BY <2>0, <2>1, <2>2, <2>3, <2>4, <2>5, <2>6
<1>6. CountInv'
  BY <1>5 DEF CountInv
<1>7. AskInv'
  <2> SUFFICES ASSUME "remove" \notin ops, NEW a \in AgentId, agents'[a].request # NoRequest
               PROVE  authr'[agents'[a].request] = [type |-> "ask", agent |-> a]
    BY DEF AskInv
  <2>1. CASE agents'[a].request = d
    BY <1>2, <2>1
  <2>2. CASE agents'[a].request # d
    <3>1. agents'[a].request = agents[a].request
      BY <2>2
    <3>2. agents[a].request \in 0..NDev
      BY <1>t, RecordFacts DEF Table
    <3>3. agents[a].request \in Dev
      BY <3>1, <3>2, Bounds
    <3> QED BY <1>2, <1>t, <2>2, <3>1, <3>3 DEF AskInv
  <2> QED BY <2>1, <2>2
<1>8. listed' \in [Client -> AgentId \cup {NoAgent}] /\ defaults' \in Seq(AgentId)
  BY <1>t
<1> QED BY <1>1, <1>2, <1>3, <1>4, <1>6, <1>7, <1>8 DEF AgentInv

-----------------------------------------------------------------------------
(* The end of an attempt                                                    *)

\* The authentication is gone, and the bonding request with it or not.
AuthGone(d) ==
  \E ab \in BOOLEAN : /\ agents' = CancelAuthentication(agents, d, ab)
                      /\ authr' = [authr EXCEPT ![d] = NoAuth]
BothGone(d) ==
  \E ab \in BOOLEAN : /\ agents' = LetGoBonding(CancelAuthentication(agents, d, ab), d)
                      /\ authr' = [authr EXCEPT ![d] = NoAuth]

\* What the agents of one device are before it lets them go.
LEMMA GoneFacts ==
  ASSUME AgentInv, NEW d \in Dev, NEW ab \in BOOLEAN
  PROVE  LET C == CancelAuthentication(agents, d, ab)
             x == authr[d].agent
         IN /\ x \in AgentId \cup {NoAgent} /\ bagent[d] \in AgentId \cup {NoAgent}
            /\ C \in Table
            /\ \A b \in AgentId : /\ C[b].ref = agents[b].ref - (IF ab THEN Is(b, x) ELSE 0)
                                  /\ C[b].request = IF b = x THEN NoRequest ELSE agents[b].request
            /\ bagent[d] # NoAgent => C[bagent[d]].ref # 0
            /\ \A b \in AgentId : C[b].ref \in Nat /\ C[b].ref >= ListHolds(b)
            /\ \A b \in AgentId : C[b].ref = 0 => C[b].request = NoRequest
<1> DEFINE C == CancelAuthentication(agents, d, ab)
           x == authr[d].agent
<1>1. /\ x \in AgentId \cup {NoAgent} /\ bagent[d] \in AgentId \cup {NoAgent} /\ agents \in Table
      /\ \A b \in AgentId : agents[b].ref = 0 => agents[b].request = NoRequest
  BY AuthFacts DEF AgentInv, CountInv
<1>2. \A b \in AgentId : /\ agents[b].ref \in Nat /\ BondHolds(b) \in Nat /\ AuthHolds(b) \in Nat
                         /\ ListHolds(b) \in {0, 1}
                         /\ bagent[d] = b => BondHolds(b) >= 1
                         /\ x = b => AuthHolds(b) >= 1
                         /\ agents[b].ref >= ListHolds(b) + BondHolds(b) + AuthHolds(b)
  BY Held
<1>3. x # NoAgent => agents[x].ref # 0
  BY <1>1, <1>2
<1>4. /\ C \in Table
      /\ \A b \in AgentId : /\ C[b].ref = agents[b].ref - (IF ab THEN Is(b, x) ELSE 0)
                            /\ C[b].request = IF b = x THEN NoRequest ELSE agents[b].request
  BY <1>1, <1>3, CancelAuthenticationFacts
<1> HIDE DEF C, x
<1>5. \A b \in AgentId : (IF ab THEN Is(b, x) ELSE 0) \in {0, 1} /\ ((IF ab THEN Is(b, x) ELSE 0) = 1 => x = b)
  BY DEF Is
<1>6. \A b \in AgentId : /\ C[b].ref \in Nat /\ C[b].ref >= ListHolds(b)
                         /\ bagent[d] = b => C[b].ref # 0
  <2> TAKE b \in AgentId
  <2>1. CASE (IF ab THEN Is(b, x) ELSE 0) = 0
    BY <1>2, <1>4, <2>1
  <2>2. CASE (IF ab THEN Is(b, x) ELSE 0) = 1
    BY <1>2, <1>4, <1>5, <2>2
  <2> QED BY <1>5, <2>1, <2>2
<1>7. \A b \in AgentId : C[b].ref = 0 => C[b].request = NoRequest
  <2> TAKE b \in AgentId
  <2>1. CASE b = x
    BY <1>4, <2>1
  <2>2. CASE b # x
    BY <1>1, <1>2, <1>4, <2>2 DEF Is
  <2> QED BY <2>1, <2>2
<1> QED BY <1>1, <1>4, <1>6, <1>7 DEF C, x

\* An authentication ends.
LEMMA AuthGoneStep ==
  ASSUME AgentInv, NEW d \in Dev, AuthGone(d), UNCHANGED <<ops, listed, defaults, bagent>>
  PROVE  AgentInv'
<1>1. PICK ab \in BOOLEAN : /\ agents' = CancelAuthentication(agents, d, ab)
                            /\ authr' = [authr EXCEPT ![d] = NoAuth]
  BY DEF AuthGone
<1> DEFINE x == authr[d].agent
<1>2. /\ x \in AgentId \cup {NoAgent} /\ bagent[d] \in AgentId \cup {NoAgent} /\ agents' \in Table
      /\ \A b \in AgentId : /\ agents'[b].ref = agents[b].ref - (IF ab THEN Is(b, x) ELSE 0)
                            /\ agents'[b].request = IF b = x THEN NoRequest ELSE agents[b].request
      /\ \A b \in AgentId : agents'[b].ref = 0 => agents'[b].request = NoRequest
  BY <1>1, GoneFacts
<1>3. bagent' = [bagent EXCEPT ![d] = bagent[d]]
  BY DEF AgentInv
<1>4. \A a \in AgentId : agents'[a].ref + Is(bagent[d], a) + Is(x, a)
                              >= agents[a].ref + Is(bagent[d], a) + Is(NoAuth.agent, a)
  <2> TAKE a \in AgentId
  <2>1. agents[a].ref \in Nat
    BY Held
  <2>2. Is(NoAuth.agent, a) = 0
    BY AuthFacts, Bounds DEF Is
  <2> QED BY <1>2, <2>1, <2>2 DEF Is
<1>5. "remove" \notin ops => \A a \in AgentId : agents'[a].request # NoRequest =>
            \/ agents'[a].request = d /\ NoAuth = [type |-> "ask", agent |-> a]
            \/ agents'[a].request # d /\ agents'[a].request = agents[a].request
  <2> SUFFICES ASSUME "remove" \notin ops, NEW a \in AgentId, agents'[a].request # NoRequest
               PROVE  agents'[a].request # d /\ agents'[a].request = agents[a].request
    OBVIOUS
  <2>1. a # x /\ agents'[a].request = agents[a].request
    BY <1>2
  <2>2. authr[agents[a].request] = [type |-> "ask", agent |-> a]
    BY <2>1 DEF AgentInv, AskInv
  <2>3. authr[agents[a].request].agent = a
    BY <2>2
  <2> QED BY <2>1, <2>3
<1>6. NoAuth \in AuthRec /\ NoAuth.agent = NoAgent
  BY AuthFacts
<1> HIDE DEF x
<1>7. \A a \in AgentId : agents'[a].ref + Is(bagent[d], a) + Is(authr[d].agent, a)
                              >= agents[a].ref + Is(bagent[d], a) + Is(NoAuth.agent, a)
  BY <1>4 DEF x
<1> QED BY <1>1, <1>2, <1>3, <1>5, <1>6, <1>7, HoldStep

\* An authentication ends and its bonding request with it.
LEMMA BothGoneStep ==
  ASSUME AgentInv, NEW d \in Dev, BothGone(d), bagent' = [bagent EXCEPT ![d] = NoAgent],
         UNCHANGED <<ops, listed, defaults>>
  PROVE  AgentInv'
<1>1. PICK ab \in BOOLEAN : /\ agents' = LetGoBonding(CancelAuthentication(agents, d, ab), d)
                            /\ authr' = [authr EXCEPT ![d] = NoAuth]
  BY DEF BothGone
<1> DEFINE x == authr[d].agent
           C == CancelAuthentication(agents, d, ab)
<1>2. /\ x \in AgentId \cup {NoAgent} /\ bagent[d] \in AgentId \cup {NoAgent} /\ C \in Table
      /\ \A b \in AgentId : /\ C[b].ref = agents[b].ref - (IF ab THEN Is(b, x) ELSE 0)
                            /\ C[b].request = IF b = x THEN NoRequest ELSE agents[b].request
                            /\ C[b].ref \in Nat
                            /\ C[b].ref = 0 => C[b].request = NoRequest
      /\ bagent[d] # NoAgent => C[bagent[d]].ref # 0
  BY GoneFacts
<1> HIDE DEF C
<1>3. /\ agents' \in Table
      /\ \A b \in AgentId : /\ agents'[b].ref = C[b].ref - Is(b, bagent[d])
                            /\ agents'[b].request = IF b = bagent[d] THEN NoRequest ELSE C[b].request
  BY <1>1, <1>2, LetGoFacts DEF C
<1>4. \A a \in AgentId : agents'[a].ref + Is(bagent[d], a) + Is(x, a)
                              >= agents[a].ref + Is(NoAgent, a) + Is(NoAuth.agent, a)
  <2> TAKE a \in AgentId
  <2>1. agents[a].ref \in Nat
    BY Held
  <2>2. Is(NoAuth.agent, a) = 0 /\ Is(NoAgent, a) = 0
    BY AuthFacts, Bounds DEF Is
  <2>3. agents'[a].ref = agents[a].ref - (IF ab THEN Is(a, x) ELSE 0) - Is(a, bagent[d])
    BY <1>2, <1>3
  <2> QED BY <2>1, <2>2, <2>3 DEF Is
<1>5. "remove" \notin ops => \A a \in AgentId : agents'[a].request # NoRequest =>
            \/ agents'[a].request = d /\ NoAuth = [type |-> "ask", agent |-> a]
            \/ agents'[a].request # d /\ agents'[a].request = agents[a].request
  <2> SUFFICES ASSUME "remove" \notin ops, NEW a \in AgentId, agents'[a].request # NoRequest
               PROVE  agents'[a].request # d /\ agents'[a].request = agents[a].request
    OBVIOUS
  <2>1. a # x /\ agents'[a].request = agents[a].request
    BY <1>2, <1>3
  <2>2. authr[agents[a].request] = [type |-> "ask", agent |-> a]
    BY <2>1 DEF AgentInv, AskInv
  <2>3. authr[agents[a].request].agent = a
    BY <2>2
  <2> QED BY <2>1, <2>3
<1>6. \A b \in AgentId : agents'[b].ref = 0 => agents'[b].request = NoRequest
  <2> TAKE b \in AgentId
  <2>1. CASE b = bagent[d]
    BY <1>3, <2>1
  <2>2. CASE b # bagent[d]
    BY <1>2, <1>3, <2>2 DEF Is
  <2> QED BY <2>1, <2>2
<1>7. NoAuth \in AuthRec /\ NoAuth.agent = NoAgent /\ NoAgent \in AgentId \cup {NoAgent}
  BY AuthFacts
<1> HIDE DEF x
<1>8. \A a \in AgentId : agents'[a].ref + Is(bagent[d], a) + Is(authr[d].agent, a)
                              >= agents[a].ref + Is(NoAgent, a) + Is(NoAuth.agent, a)
  BY <1>4 DEF x
<1> QED BY <1>1, <1>3, <1>5, <1>6, <1>7, <1>8, HoldStep

-----------------------------------------------------------------------------
(* The agents' programs, and the questions                                  *)

\* The default agent is in the list, and agent_get gives one that is.
LEMMA GetFacts ==
  ASSUME AgentInv
  PROVE  /\ Default \in AgentId \cup {NoAgent}
         /\ Default # NoAgent => agents[Default].ref # 0
         /\ \A c \in Client : /\ AgentGet(c) \in AgentId \cup {NoAgent}
                              /\ AgentGet(c) # NoAgent => agents[AgentGet(c)].ref # 0
         /\ \A d \in Dev : /\ AgentOf(d) \in AgentId \cup {NoAgent}
                           /\ AgentOf(d) # NoAgent => agents[AgentOf(d)].ref # 0
<1>1. /\ defaults \in Seq(AgentId) /\ DefaultsInv /\ listed \in [Client -> AgentId \cup {NoAgent}]
      /\ bagent \in [Dev -> AgentId \cup {NoAgent}]
  BY DEF AgentInv
<1>2. defaults # <<>> => 1 \in DOMAIN defaults /\ Head(defaults) = defaults[1] /\ defaults[1] \in AgentId
  BY <1>1
<1>3. /\ Default \in AgentId \cup {NoAgent}
      /\ Default # NoAgent => \E c \in Client : listed[c] = Default
  BY <1>1, <1>2 DEF Default, DefaultsInv
<1>4. \A a \in AgentId : ((\E c \in Client : listed[c] = a) \/ \E d \in Dev : bagent[d] = a) => agents[a].ref # 0
  <2> TAKE a \in AgentId
  <2>1. /\ agents[a].ref \in Nat /\ BondHolds(a) \in Nat /\ AuthHolds(a) \in Nat /\ ListHolds(a) \in {0, 1}
        /\ (\E c \in Client : listed[c] = a) => ListHolds(a) = 1
        /\ \A d \in Dev : bagent[d] = a => BondHolds(a) >= 1
        /\ agents[a].ref >= ListHolds(a) + BondHolds(a) + AuthHolds(a)
    BY Held
  <2>2. CASE \E c \in Client : listed[c] = a
    BY <2>1, <2>2
  <2>3. CASE \E d \in Dev : bagent[d] = a
    <3>1. BondHolds(a) >= 1
      BY <2>1, <2>3
    <3> QED BY <2>1, <3>1
  <2> QED BY <2>2, <2>3
<1>5. Default # NoAgent => agents[Default].ref # 0
  BY <1>3, <1>4
<1>6. \A c \in Client : /\ AgentGet(c) \in AgentId \cup {NoAgent}
                        /\ AgentGet(c) # NoAgent => agents[AgentGet(c)].ref # 0
  BY <1>1, <1>3, <1>4, <1>5 DEF AgentGet
<1>7. \A d \in Dev : /\ AgentOf(d) \in AgentId \cup {NoAgent}
                     /\ AgentOf(d) # NoAgent => agents[AgentOf(d)].ref # 0
  BY <1>1, <1>3, <1>4, <1>5 DEF AgentOf
<1> QED BY <1>3, <1>5, <1>6, <1>7

\* An agent is taken out of the default agents.
LEMMA WithoutFacts ==
  ASSUME NEW q \in Seq(AgentId), NEW a
  PROVE  /\ Without(q, a) \in Seq(AgentId)
         /\ \A k \in DOMAIN Without(q, a) : \E j \in DOMAIN q : Without(q, a)[k] = q[j] /\ q[j] # a
<1> DEFINE K == {k \in DOMAIN q : q[k] # a}
<1>1. K \in SUBSET (DOMAIN q)
  OBVIOUS
<1>2. \A k \in K : k \in DOMAIN q /\ q[k] # a
  OBVIOUS
<1>3. Without(q, a) = Keep(q, K)
  BY DEF Without
<1> HIDE DEF K
<1>4. Keep(q, K) \in Seq(AgentId)
  BY <1>1, KeepList
<1>5. \A n \in DOMAIN Keep(q, K) : Nth(K, n) \in K /\ Keep(q, K)[n] = q[Nth(K, n)]
  BY <1>1, KeepFacts
<1> QED BY <1>2, <1>3, <1>4, <1>5

\* What those who are asked about an agent keep.
Undisturbed == \A d \in Dev : authr[d].agent \in AgentId =>
                 agents'[authr[d].agent].request = agents[authr[d].agent].request

\* The lists change, the holders among the devices stay.
LEMMA ProgramStep ==
  ASSUME AgentInv, UNCHANGED <<ops, bagent, authr>>, agents' \in Table,
         listed' \in [Client -> AgentId \cup {NoAgent}], defaults' \in Seq(AgentId), ListInv', DefaultsInv',
         \A a \in AgentId : agents'[a].ref + ListHolds(a) >= agents[a].ref + ListHolds(a)',
         \A a \in AgentId : agents'[a].ref = 0 => agents'[a].request = NoRequest,
         \A a \in AgentId : agents'[a].request \in {agents[a].request, NoRequest}
  PROVE  AgentInv'
<1>1. \A a \in AgentId : agents'[a].ref >= ListHolds(a)' + BondHolds(a)' + AuthHolds(a)'
  <2> TAKE a \in AgentId
  <2>1. BondHolds(a)' = BondHolds(a) /\ AuthHolds(a)' = AuthHolds(a)
    BY DEF BondHolds, AuthHolds
  <2>2. /\ agents[a].ref \in Nat /\ BondHolds(a) \in Nat /\ AuthHolds(a) \in Nat /\ ListHolds(a) \in {0, 1}
        /\ agents[a].ref >= ListHolds(a) + BondHolds(a) + AuthHolds(a)
    BY Held
  <2>3. agents'[a].ref \in Nat /\ ListHolds(a)' \in {0, 1}
    BY RecordFacts DEF Table, ListHolds
  <2> QED BY <2>1, <2>2, <2>3
<1>2. CountInv'
  BY <1>1 DEF CountInv
<1>3. AskInv'
  BY DEF AgentInv, AskInv
<1> QED BY <1>2, <1>3 DEF AgentInv

\* register_agent makes an agent with one holder.
LEMMA RegisterAgentStep ==
  ASSUME AgentInv, NEW c \in Client, RegisterAgent(c), UNCHANGED <<ops, bagent, authr>>
  PROVE  AgentInv' /\ Undisturbed
<1>1. PICK a \in AgentId : /\ agents[a].ref = 0
                           /\ agents' = [agents EXCEPT ![a] = [ref |-> 1, request |-> NoRequest]]
                           /\ listed' = [listed EXCEPT ![c] = a]
  BY DEF RegisterAgent
<1>2. listed[c] = NoAgent /\ defaults' = defaults
  BY DEF RegisterAgent
<1>t. /\ agents \in Table /\ listed \in [Client -> AgentId \cup {NoAgent}] /\ defaults \in Seq(AgentId)
      /\ ListInv /\ DefaultsInv
      /\ \A b \in AgentId : agents[b].ref = 0 => agents[b].request = NoRequest
  BY DEF AgentInv, CountInv
<1>3. /\ ~\E e \in Client : listed[e] = a
      /\ ~\E d \in Dev : authr[d].agent = a
  <2>1. /\ agents[a].ref \in Nat /\ BondHolds(a) \in Nat /\ AuthHolds(a) \in Nat /\ ListHolds(a) \in {0, 1}
        /\ (\E e \in Client : listed[e] = a) => ListHolds(a) = 1
        /\ \A d \in Dev : authr[d].agent = a => AuthHolds(a) >= 1
        /\ agents[a].ref >= ListHolds(a) + BondHolds(a) + AuthHolds(a)
    BY Held
  <2> QED BY <1>1, <2>1
<1>5. [ref |-> 1, request |-> NoRequest] \in AgentRec
  BY Bounds DEF AgentRec
<1>6. agents' \in Table /\ \A b \in AgentId : agents'[b] = IF b = a THEN [ref |-> 1, request |-> NoRequest] ELSE agents[b]
  BY <1>1, <1>5, <1>t DEF Table
<1>7. /\ listed' \in [Client -> AgentId \cup {NoAgent}]
      /\ \A e \in Client : listed'[e] = IF e = c THEN a ELSE listed[e]
  BY <1>1, <1>t
<1>8. ListInv'
  BY <1>3, <1>7, <1>t DEF ListInv
<1>9. DefaultsInv'
  <2>1. \A k \in DOMAIN defaults : defaults[k] \in AgentId
    BY <1>t
  <2>2. \A k \in DOMAIN defaults : \E e \in Client : listed'[e] = defaults[k]
    <3> TAKE k \in DOMAIN defaults
    <3>1. PICK e \in Client : listed[e] = defaults[k]
      BY <1>t DEF DefaultsInv
    <3>2. e # c
      BY <1>2, <2>1, <3>1, Bounds
    <3> QED BY <1>7, <3>1, <3>2
  <2> QED BY <1>2, <1>t, <2>2 DEF DefaultsInv
<1>10. \A b \in AgentId : agents'[b].ref + ListHolds(b) >= agents[b].ref + ListHolds(b)'
  <2> TAKE b \in AgentId
  <2>1. b # NoAgent /\ agents[b].ref \in Nat
    BY Bounds, Held
  <2>2. (\E e \in Client : listed'[e] = b) <=> (b = a \/ \E e \in Client : listed[e] = b)
    BY <1>2, <1>7, <2>1
  <2>3. ListHolds(b)' = (IF b = a THEN 1 ELSE ListHolds(b)) /\ ListHolds(b) \in {0, 1}
    BY <2>2 DEF ListHolds
  <2>4. agents'[b].ref = IF b = a THEN 1 ELSE agents[b].ref
    BY <1>6
  <2> QED BY <1>1, <2>1, <2>3, <2>4
<1>11. /\ \A b \in AgentId : agents'[b].ref = 0 => agents'[b].request = NoRequest
       /\ \A b \in AgentId : agents'[b].request \in {agents[b].request, NoRequest}
  BY <1>6, <1>t
<1>12. Undisturbed
  BY <1>3, <1>6 DEF Undisturbed
<1> QED BY <1>2, <1>t, <1>6, <1>7, <1>8, <1>9, <1>10, <1>11, <1>12, ProgramStep

\* request_default puts a listed agent first.
LEMMA RequestDefaultStep ==
  ASSUME AgentInv, NEW c \in Client, RequestDefault(c), UNCHANGED <<ops, bagent, authr>>
  PROVE  AgentInv' /\ Undisturbed
<1> DEFINE a == listed[c]
           w == Without(defaults, a)
<1>1. a # NoAgent /\ defaults' = <<a>> \o w /\ UNCHANGED <<agents, listed>>
  BY DEF RequestDefault
<1>t. /\ agents \in Table /\ listed \in [Client -> AgentId \cup {NoAgent}] /\ defaults \in Seq(AgentId)
      /\ ListInv /\ DefaultsInv
      /\ \A b \in AgentId : agents[b].ref = 0 => agents[b].request = NoRequest
  BY DEF AgentInv, CountInv
<1>2. a \in AgentId
  BY <1>1, <1>t
<1>3. /\ w \in Seq(AgentId)
      /\ \A k \in DOMAIN w : \E j \in DOMAIN defaults : w[k] = defaults[j] /\ defaults[j] # a
  BY <1>t, WithoutFacts
<1>i. \E e \in Client : listed[e] = a
  OBVIOUS
<1> HIDE DEF a, w
<1>4. /\ defaults' \in Seq(AgentId) /\ Len(w) \in Nat /\ DOMAIN w = 1..Len(w)
      /\ DOMAIN defaults' = 1..(Len(w) + 1) /\ defaults'[1] = a
      /\ \A k \in 2..(Len(w) + 1) : k - 1 \in DOMAIN w /\ defaults'[k] = w[k - 1]
  <2>1. <<a>> \in Seq(AgentId) /\ Len(<<a>>) = 1 /\ <<a>>[1] = a
    BY <1>2
  <2>2. Len(w) \in Nat /\ DOMAIN w = 1..Len(w)
    BY <1>3
  <2>3. /\ <<a>> \o w \in Seq(AgentId) /\ Len(<<a>> \o w) = 1 + Len(w)
        /\ \A i \in 1..(1 + Len(w)) : (<<a>> \o w)[i] = IF i <= 1 THEN <<a>>[i] ELSE w[i - 1]
    BY <1>3, <2>1, ConcatProperties
  <2> QED BY <1>1, <2>1, <2>2, <2>3
<1>5. \A k \in DOMAIN defaults' : k # 1 => k \in 2..(Len(w) + 1) /\ k - 1 \in DOMAIN w /\ defaults'[k] = w[k - 1]
  BY <1>4
<1>6. \A k \in DOMAIN defaults' : \E e \in Client : listed'[e] = defaults'[k]
  <2> TAKE k \in DOMAIN defaults'
  <2>1. CASE k = 1
    BY <1>1, <1>4, <1>i, <2>1
  <2>2. CASE k # 1
    <3>1. PICK j \in DOMAIN defaults : w[k - 1] = defaults[j]
      BY <1>3, <1>5, <2>2
    <3> QED BY <1>1, <1>5, <1>t, <2>2, <3>1 DEF DefaultsInv
  <2> QED BY <2>1, <2>2
<1>7. ListInv' /\ DefaultsInv'
  BY <1>1, <1>6, <1>t DEF ListInv, DefaultsInv
<1>8. \A b \in AgentId : agents'[b].ref + ListHolds(b) >= agents[b].ref + ListHolds(b)'
  <2> TAKE b \in AgentId
  <2>1. ListHolds(b)' = ListHolds(b) /\ ListHolds(b) \in {0, 1} /\ agents[b].ref \in Nat
    BY <1>1, Held DEF ListHolds
  <2> QED BY <1>1, <2>1
<1>9. Undisturbed
  BY <1>1 DEF Undisturbed
<1> QED BY <1>1, <1>4, <1>7, <1>8, <1>9, <1>t, ProgramStep

\* An agent leaves: those who hold it keep it.
LEMMA AgentDisconnectStep ==
  ASSUME AgentInv, NEW c \in Client, AgentDisconnect(c), UNCHANGED <<ops, bagent, authr>>
  PROVE  AgentInv' /\ Undisturbed
<1> DEFINE a == listed[c]
<1>1. /\ a # NoAgent /\ defaults' = Without(defaults, a)
      /\ listed' = [listed EXCEPT ![c] = NoAgent] /\ agents' = AgentUnref(agents, a)
  BY DEF AgentDisconnect
<1>t. /\ agents \in Table /\ listed \in [Client -> AgentId \cup {NoAgent}] /\ defaults \in Seq(AgentId)
      /\ ListInv /\ DefaultsInv
      /\ \A b \in AgentId : agents[b].ref = 0 => agents[b].request = NoRequest
  BY DEF AgentInv, CountInv
<1>k. \E e \in Client : listed[e] = a
  OBVIOUS
<1>a. a \in AgentId
  BY <1>1, <1>t
<1>i. \A b \in AgentId : b # a => ((\E e \in Client : e # c /\ listed[e] = b) <=> (\E e \in Client : listed[e] = b))
  OBVIOUS
<1>j. ~\E e \in Client : e # c /\ listed[e] = a
  BY <1>1, <1>t DEF ListInv
<1>l. \A e \in Client : e # c => listed'[e] = listed[e]
  BY <1>1, <1>t
<1>m. listed' \in [Client -> AgentId \cup {NoAgent}] /\ listed'[c] = NoAgent
  BY <1>1, <1>t
<1> HIDE DEF a
<1>2. /\ agents[a].ref # 0 /\ agents[a].ref \in Nat /\ ListHolds(a) = 1
      /\ \A d \in Dev : authr[d].agent = a => agents[a].ref # 1
  <2>1. /\ agents[a].ref \in Nat /\ BondHolds(a) \in Nat /\ AuthHolds(a) \in Nat /\ ListHolds(a) = 1
        /\ \A d \in Dev : authr[d].agent = a => AuthHolds(a) >= 1
        /\ agents[a].ref >= ListHolds(a) + BondHolds(a) + AuthHolds(a)
    BY <1>a, <1>k, Held
  <2> QED BY <2>1
<1>3. /\ agents' \in Table
      /\ \A b \in AgentId :
              /\ agents'[b].ref = agents[b].ref - Is(b, a)
              /\ agents'[b].request = IF b = a /\ agents[b].ref = 1 THEN NoRequest ELSE agents[b].request
  BY <1>1, <1>2, <1>a, <1>t, AgentUnrefFacts
<1>4. ListInv'
  BY <1>l, <1>m, <1>t DEF ListInv
<1>5. /\ defaults' \in Seq(AgentId)
      /\ \A k \in DOMAIN defaults' : \E j \in DOMAIN defaults : defaults'[k] = defaults[j] /\ defaults[j] # a
  BY <1>1, <1>t, WithoutFacts
<1>6. DefaultsInv'
  <2>1. \A k \in DOMAIN defaults' : \E e \in Client : listed'[e] = defaults'[k]
    <3> TAKE k \in DOMAIN defaults'
    <3>1. PICK j \in DOMAIN defaults : defaults'[k] = defaults[j] /\ defaults[j] # a
      BY <1>5
    <3>2. PICK e \in Client : listed[e] = defaults[j]
      BY <1>t DEF DefaultsInv
    <3>3. e # c
      BY <3>1, <3>2 DEF a
    <3> QED BY <1>l, <3>1, <3>2, <3>3
  <2> QED BY <1>5, <2>1 DEF DefaultsInv
<1>7. \A b \in AgentId : ListHolds(b)' = IF b = a THEN 0 ELSE ListHolds(b)
  <2> TAKE b \in AgentId
  <2>1. (\E e \in Client : listed'[e] = b) <=> (\E e \in Client : e # c /\ listed[e] = b)
    BY <1>l, <1>m, Bounds
  <2> QED BY <1>i, <1>j, <2>1 DEF ListHolds
<1>8. \A b \in AgentId : agents'[b].ref + ListHolds(b) >= agents[b].ref + ListHolds(b)'
  <2> TAKE b \in AgentId
  <2>0. agents[b].ref \in Nat /\ ListHolds(b) \in {0, 1}
    BY Held
  <2>1. CASE b = a
    BY <1>2, <1>3, <1>7, <2>0, <2>1 DEF Is
  <2>2. CASE b # a
    BY <1>3, <1>7, <2>0, <2>2 DEF Is
  <2> QED BY <2>1, <2>2
<1>9. \A b \in AgentId : agents'[b].ref = 0 => agents'[b].request = NoRequest
  <2> TAKE b \in AgentId
  <2>0. agents[b].ref \in Nat
    BY Held
  <2>1. CASE b = a
    BY <1>3, <2>0, <2>1 DEF Is
  <2>2. CASE b # a
    BY <1>3, <1>t, <2>0, <2>2 DEF Is
  <2> QED BY <2>1, <2>2
<1>10. \A b \in AgentId : agents'[b].request \in {agents[b].request, NoRequest}
  BY <1>3
<1>11. Undisturbed
  BY <1>2, <1>3 DEF Undisturbed
<1> QED BY <1>3, <1>4, <1>5, <1>6, <1>8, <1>9, <1>10, <1>11, <1>m, ProgramStep

\* Who has a question out is the one it was asked for.
LEMMA AskedFacts ==
  ASSUME AgentInv, "remove" \notin ops, NEW a \in AgentId, agents[a].request # NoRequest
  PROVE  /\ agents[a].request \in Dev
         /\ authr[agents[a].request] = [type |-> "ask", agent |-> a]
         /\ authr[agents[a].request].agent = a
<1>1. authr[agents[a].request] = [type |-> "ask", agent |-> a]
  BY DEF AgentInv, AskInv
<1>2. agents[a].request \in 0..NDev
  BY RecordFacts DEF AgentInv, Table
<1> QED BY <1>1, <1>2, Bounds

\* No agent and no authentication changes.
LEMMA SameAgents ==
  ASSUME AgentInv, UNCHANGED <<ops, agents, listed, defaults, bagent, authr>>
  PROVE  AgentInv'
<1>1. ListInv' /\ DefaultsInv' /\ AskInv'
  BY DEF AgentInv, ListInv, DefaultsInv, AskInv
<1>2. CountInv'
  BY DEF AgentInv, CountInv, ListHolds, BondHolds, AuthHolds
<1> QED BY <1>1, <1>2 DEF AgentInv

\* Pair takes a reference to its agent.
LEMMA TakeStep ==
  ASSUME AgentInv, NEW d \in Dev, NEW a \in AgentId \cup {NoAgent},
         bagent' = [bagent EXCEPT ![d] = a], UNCHANGED <<ops, listed, defaults, authr>>,
         agents' = IF a = NoAgent THEN agents ELSE AgentRef(agents, a)
  PROVE  /\ AgentInv'
         /\ \A b \in AgentId : agents'[b].request = agents[b].request
<1>t. agents \in Table /\ authr \in [Dev -> AuthRec] /\ \A b \in AgentId : agents[b].ref \in Nat /\ b # NoAgent
  BY Held, Bounds DEF AgentInv
<1>1. /\ agents' \in Table
      /\ \A b \in AgentId : agents'[b].ref = agents[b].ref + Is(a, b) /\ agents'[b].request = agents[b].request
  <2>1. CASE a = NoAgent
    BY <1>t, <2>1 DEF Is
  <2>2. CASE a # NoAgent
    <3>1. a \in AgentId
      BY <2>2
    <3>2. \A b \in AgentId : Is(b, a) = Is(a, b)
      BY DEF Is
    <3> QED BY <1>t, <2>2, <3>1, <3>2, AgentRefFacts
  <2> QED BY <2>1, <2>2
<1>2. authr' = [authr EXCEPT ![d] = authr[d]] /\ authr[d] \in AuthRec
  BY <1>t
<1>3. \A b \in AgentId : agents'[b].ref + Is(bagent[d], b) + Is(authr[d].agent, b)
                              >= agents[b].ref + Is(a, b) + Is(authr[d].agent, b)
  BY <1>1, <1>t DEF Is
<1>4. \A b \in AgentId : agents'[b].ref = 0 => agents'[b].request = NoRequest
  <2> TAKE b \in AgentId
  <2>1. agents[b].ref = 0 => agents[b].request = NoRequest
    BY DEF AgentInv, CountInv
  <2> QED BY <1>1, <1>t, <2>1 DEF Is
<1>5. "remove" \notin ops => \A b \in AgentId : agents'[b].request # NoRequest =>
            \/ agents'[b].request = d /\ authr[d] = [type |-> "ask", agent |-> b]
            \/ agents'[b].request # d /\ agents'[b].request = agents[b].request
  BY <1>1, AskedFacts
<1>6. authr[d].type = "none" => authr[d].agent = NoAgent
  BY DEF AgentInv
<1> QED BY <1>1, <1>2, <1>3, <1>4, <1>5, <1>6, HoldStep

\* An agent's question is cancelled and nobody lets it go.
LEMMA CancelStep ==
  ASSUME AgentInv, NEW a \in AgentId, agents' = AgentCancel(agents, a),
         UNCHANGED <<ops, listed, defaults, bagent, authr>>
  PROVE  AgentInv'
<1>1. /\ agents' \in Table
      /\ \A b \in AgentId : /\ agents'[b].ref = agents[b].ref
                            /\ agents'[b].request = IF b = a THEN NoRequest ELSE agents[b].request
  BY AgentCancelFacts DEF AgentInv
<1>2. \A b \in AgentId : agents'[b].ref + ListHolds(b) >= agents[b].ref + ListHolds(b)'
  <2> TAKE b \in AgentId
  <2>1. ListHolds(b)' = ListHolds(b) /\ ListHolds(b) \in {0, 1} /\ agents[b].ref \in Nat
    BY Held DEF ListHolds
  <2> QED BY <1>1, <2>1
<1>3. \A b \in AgentId : agents[b].ref = 0 => agents[b].request = NoRequest
  BY DEF AgentInv, CountInv
<1>4. /\ \A b \in AgentId : agents'[b].ref = 0 => agents'[b].request = NoRequest
      /\ \A b \in AgentId : agents'[b].request \in {agents[b].request, NoRequest}
  BY <1>1, <1>3
<1>5. /\ listed' \in [Client -> AgentId \cup {NoAgent}] /\ defaults' \in Seq(AgentId) /\ ListInv' /\ DefaultsInv'
  BY DEF AgentInv, ListInv, DefaultsInv
<1> QED BY <1>1, <1>2, <1>4, <1>5, ProgramStep

\* A new authentication refers to its agent.
LEMMA NewAuthStep ==
  ASSUME AgentInv, NEW d \in Dev, NewAuth(d), NEW t \in {"ask", "notify"},
         authr' = [authr EXCEPT ![d] = [type |-> t, agent |-> AgentOf(d)]],
         UNCHANGED <<ops, listed, defaults, bagent>>,
         \/ t = "notify" /\ agents' = AgentRef(agents, AgentOf(d))
         \/ /\ t = "ask" /\ ~Busy(agents, AgentOf(d))
            /\ agents' = AgentAsk(AgentRef(agents, AgentOf(d)), AgentOf(d), d)
  PROVE  /\ AgentInv' /\ AgentOf(d) \in AgentId
         /\ \A b \in AgentId : agents[b].request # NoRequest => agents'[b].request = agents[b].request
         /\ t = "ask" => agents'[AgentOf(d)].request = d
<1> DEFINE a == AgentOf(d)
           y == [type |-> t, agent |-> a]
<1>1. authr[d] = NoAuth /\ a \in AgentId
  BY GetFacts DEF NewAuth
<1> HIDE DEF a
<1>2. y \in AuthRec /\ y.agent = a /\ y.type = t
  BY <1>1 DEF AuthRec
<1>t. /\ agents \in Table /\ \A b \in AgentId : agents[b].ref \in Nat /\ b # NoAgent
      /\ bagent \in [Dev -> AgentId \cup {NoAgent}]
  BY Held, Bounds DEF AgentInv
<1>r. /\ AgentRef(agents, a) \in Table
      /\ \A b \in AgentId : /\ AgentRef(agents, a)[b].ref = agents[b].ref + Is(b, a)
                            /\ AgentRef(agents, a)[b].request = agents[b].request
  BY <1>1, <1>t, AgentRefFacts
<1>3. /\ agents' \in Table
      /\ \A b \in AgentId : /\ agents'[b].ref = agents[b].ref + Is(b, a)
                            /\ agents'[b].request = IF t = "ask" /\ b = a THEN d ELSE agents[b].request
      /\ t = "ask" => agents[a].request = NoRequest
  <2>1. CASE t = "notify"
    <3>1. agents' = AgentRef(agents, a)
      BY <2>1 DEF a
    <3> QED BY <1>r, <2>1, <3>1
  <2>2. CASE t = "ask"
    <3>1. agents' = AgentAsk(AgentRef(agents, a), a, d) /\ ~Busy(agents, a)
      BY <2>2 DEF a
    <3>2. d \in 0..NDev
      BY Bounds
    <3>3. /\ agents' \in Table
          /\ \A b \in AgentId : /\ agents'[b].ref = AgentRef(agents, a)[b].ref
                                /\ agents'[b].request = IF b = a THEN d ELSE AgentRef(agents, a)[b].request
      BY <1>1, <1>r, <3>1, <3>2, AgentAskFacts
    <3>4. agents[a].request = NoRequest
      BY <3>1 DEF Busy
    <3> QED BY <1>r, <2>2, <3>3, <3>4
  <2> QED BY <2>1, <2>2
<1>4. \A b \in AgentId : agents'[b].ref + Is(bagent[d], b) + Is(authr[d].agent, b)
                              >= agents[b].ref + Is(bagent[d], b) + Is(y.agent, b)
  <2> TAKE b \in AgentId
  <2>1. agents'[b].ref = agents[b].ref + Is(y.agent, b)
    BY <1>2, <1>3 DEF Is
  <2> HIDE DEF y
  <2>2. Is(authr[d].agent, b) \in {0, 1} /\ Is(bagent[d], b) \in {0, 1} /\ Is(y.agent, b) \in {0, 1}
    BY DEF Is
  <2> QED BY <1>t, <2>1, <2>2
<1>5. \A b \in AgentId : agents'[b].ref = 0 => agents'[b].request = NoRequest
  <2> TAKE b \in AgentId
  <2>1. agents[b].ref = 0 => agents[b].request = NoRequest
    BY DEF AgentInv, CountInv
  <2>2. CASE b = a
    BY <1>3, <1>t, <2>2 DEF Is
  <2>3. CASE b # a
    BY <1>3, <1>t, <2>1, <2>3 DEF Is
  <2> QED BY <2>2, <2>3
<1>6. "remove" \notin ops => \A b \in AgentId : agents'[b].request # NoRequest =>
            \/ agents'[b].request = d /\ y = [type |-> "ask", agent |-> b]
            \/ agents'[b].request # d /\ agents'[b].request = agents[b].request
  <2> SUFFICES ASSUME "remove" \notin ops, NEW b \in AgentId, agents'[b].request # NoRequest
               PROVE  \/ agents'[b].request = d /\ y = [type |-> "ask", agent |-> b]
                      \/ agents'[b].request # d /\ agents'[b].request = agents[b].request
    OBVIOUS
  <2>1. CASE t = "ask" /\ b = a
    BY <1>3, <2>1
  <2>2. CASE ~(t = "ask" /\ b = a)
    <3>1. agents'[b].request = agents[b].request
      BY <1>3, <2>2
    <3>2. authr[agents[b].request].agent = b
      BY <3>1, AskedFacts
    <3>3. agents[b].request # d
      BY <1>1, <1>t, <3>2, AuthFacts
    <3> QED BY <3>1, <3>3
  <2> QED BY <2>1, <2>2
<1>7. bagent' = [bagent EXCEPT ![d] = bagent[d]] /\ authr' = [authr EXCEPT ![d] = y] /\ bagent[d] \in AgentId \cup {NoAgent}
  BY <1>t DEF a
<1>8. y.type = "none" => y.agent = NoAgent
  BY <1>2
<1> HIDE DEF y
<1>9. AgentInv'
  BY <1>2, <1>3, <1>4, <1>5, <1>6, <1>7, <1>8, HoldStep
<1> QED BY <1>1, <1>3, <1>9 DEF a

\* The agent answers: the authentication lets it go.
LEMMA AgentReplyStep ==
  ASSUME AgentInv, NEW a \in AgentId, NEW d \in Dev, authr[d].agent = a, agents[a].request = d,
         authr' = [authr EXCEPT ![d].agent = NoAgent],
         agents' = AgentUnref(AgentCancel(agents, a), a), UNCHANGED <<ops, listed, defaults, bagent>>
  PROVE  /\ AgentInv' /\ \A e \in Dev : e # d => authr'[e] = authr[e]
         /\ authr'[d].agent = NoAgent
         /\ \A b \in AgentId : b # a => agents'[b].request = agents[b].request
<1> DEFINE y == [authr[d] EXCEPT !.agent = NoAgent]
<1>t. /\ agents \in Table /\ \A b \in AgentId : agents[b].ref \in Nat /\ b # NoAgent
      /\ bagent \in [Dev -> AgentId \cup {NoAgent}] /\ authr \in [Dev -> AuthRec]
  BY Held, Bounds DEF AgentInv
<1>1. y \in AuthRec /\ y.agent = NoAgent
  BY <1>t, AuthFacts
<1>2. authr' = [authr EXCEPT ![d] = y]
  OBVIOUS
<1>h. agents[a].ref # 0
  <2>1. /\ agents[a].ref \in Nat /\ BondHolds(a) \in Nat /\ AuthHolds(a) \in Nat /\ ListHolds(a) \in {0, 1}
        /\ AuthHolds(a) >= 1 /\ agents[a].ref >= ListHolds(a) + BondHolds(a) + AuthHolds(a)
    BY Held
  <2> QED BY <2>1
<1>3. /\ agents' \in Table
      /\ \A b \in AgentId : /\ agents'[b].ref = agents[b].ref - Is(b, a)
                            /\ agents'[b].request = IF b = a THEN NoRequest ELSE agents[b].request
  BY <1>h, <1>t, CancelUnrefFacts
<1> HIDE DEF y
<1>4. \A b \in AgentId : agents'[b].ref + Is(bagent[d], b) + Is(authr[d].agent, b)
                              >= agents[b].ref + Is(bagent[d], b) + Is(y.agent, b)
  <2> TAKE b \in AgentId
  <2>1. Is(y.agent, b) = 0 /\ Is(authr[d].agent, b) = Is(b, a)
    BY <1>1, <1>t DEF Is
  <2>2. Is(bagent[d], b) \in {0, 1} /\ Is(b, a) \in {0, 1}
    BY DEF Is
  <2> QED BY <1>3, <1>t, <2>1, <2>2
<1>5. \A b \in AgentId : agents'[b].ref = 0 => agents'[b].request = NoRequest
  <2> TAKE b \in AgentId
  <2>1. agents[b].ref = 0 => agents[b].request = NoRequest
    BY DEF AgentInv, CountInv
  <2>2. CASE b = a
    BY <1>3, <2>2
  <2>3. CASE b # a
    BY <1>3, <1>t, <2>1, <2>3 DEF Is
  <2> QED BY <2>2, <2>3
<1>6. "remove" \notin ops => \A b \in AgentId : agents'[b].request # NoRequest =>
            \/ agents'[b].request = d /\ y = [type |-> "ask", agent |-> b]
            \/ agents'[b].request # d /\ agents'[b].request = agents[b].request
  <2> SUFFICES ASSUME "remove" \notin ops, NEW b \in AgentId, agents'[b].request # NoRequest
               PROVE  agents'[b].request # d /\ agents'[b].request = agents[b].request
    OBVIOUS
  <2>1. b # a /\ agents'[b].request = agents[b].request
    BY <1>3
  <2>2. authr[agents[b].request].agent = b
    BY <2>1, AskedFacts
  <2> QED BY <2>1, <2>2
<1>7. bagent' = [bagent EXCEPT ![d] = bagent[d]] /\ bagent[d] \in AgentId \cup {NoAgent}
  BY <1>t
<1>8. AgentInv'
  BY <1>1, <1>2, <1>3, <1>4, <1>5, <1>6, <1>7, HoldStep
<1>9. authr'[d] = y /\ \A e \in Dev : e # d => authr'[e] = authr[e]
  BY <1>2, <1>t
<1> QED BY <1>1, <1>3, <1>8, <1>9

\* device_free lets the agent of an authentication go, without cancelling.
LEMMA FreeStep ==
  ASSUME AgentInv, NEW d \in Dev, "remove" \in ops, authr' = [authr EXCEPT ![d] = NoAuth],
         agents' = IF authr[d].agent = NoAgent THEN agents ELSE AgentUnref(agents, authr[d].agent),
         UNCHANGED <<ops, listed, defaults, bagent>>
  PROVE  AgentInv'
<1> DEFINE a == authr[d].agent
<1>t. /\ agents \in Table /\ \A b \in AgentId : agents[b].ref \in Nat /\ b # NoAgent
      /\ bagent \in [Dev -> AgentId \cup {NoAgent}] /\ a \in AgentId \cup {NoAgent}
  BY Held, Bounds, AuthFacts DEF AgentInv
<1>h. a # NoAgent => agents[a].ref # 0
  <2> SUFFICES ASSUME a \in AgentId PROVE agents[a].ref # 0
    BY <1>t
  <2>1. /\ agents[a].ref \in Nat /\ BondHolds(a) \in Nat /\ AuthHolds(a) \in Nat /\ ListHolds(a) \in {0, 1}
        /\ AuthHolds(a) >= 1 /\ agents[a].ref >= ListHolds(a) + BondHolds(a) + AuthHolds(a)
    BY Held
  <2> QED BY <2>1
<1>1. /\ agents' \in Table
      /\ \A b \in AgentId : /\ agents'[b].ref = agents[b].ref - Is(b, a)
                            /\ agents'[b].ref = 0 => agents'[b].request = NoRequest
  <2>0. \A b \in AgentId : agents[b].ref = 0 => agents[b].request = NoRequest
    BY DEF AgentInv, CountInv
  <2>1. CASE a = NoAgent
    BY <1>t, <2>0, <2>1 DEF Is
  <2>2. CASE a # NoAgent
    <3>1. a \in AgentId /\ agents' = AgentUnref(agents, a)
      BY <1>t, <2>2
    <3> HIDE DEF a
    <3>2. /\ agents' \in Table
          /\ \A b \in AgentId :
              /\ agents'[b].ref = agents[b].ref - Is(b, a)
              /\ agents'[b].request = IF b = a /\ agents[b].ref = 1 THEN NoRequest ELSE agents[b].request
      BY <1>h, <1>t, <2>2, <3>1, AgentUnrefFacts
    <3>3. \A b \in AgentId : agents'[b].ref = 0 => agents'[b].request = NoRequest
      BY <1>t, <2>0, <3>2 DEF Is
    <3> QED BY <3>2, <3>3
  <2> QED BY <2>1, <2>2
<1>2. \A b \in AgentId : agents'[b].ref + Is(bagent[d], b) + Is(authr[d].agent, b)
                              >= agents[b].ref + Is(bagent[d], b) + Is(NoAuth.agent, b)
  <2> TAKE b \in AgentId
  <2>1. Is(NoAuth.agent, b) = 0 /\ Is(authr[d].agent, b) = Is(b, a)
    BY <1>t, AuthFacts DEF Is
  <2>2. Is(bagent[d], b) \in {0, 1} /\ Is(b, a) \in {0, 1}
    BY DEF Is
  <2> HIDE DEF a
  <2> QED BY <1>1, <1>t, <2>1, <2>2
<1>3. bagent' = [bagent EXCEPT ![d] = bagent[d]] /\ bagent[d] \in AgentId \cup {NoAgent}
  BY <1>t
<1>4. NoAuth \in AuthRec /\ NoAuth.agent = NoAgent
  BY AuthFacts
<1> QED BY <1>1, <1>2, <1>3, <1>4, HoldStep

-----------------------------------------------------------------------------
(* The calls                                                                *)

\* A call that is not answered: in progress, with a discovery, or dropped.
Pending(i) == (\E d \in Dev : bonding[d] = i) \/ (\E d \in Dev : browse[d] = i) \/ i \in dropped

CallTypes ==
  /\ ncall \in 0..MaxCall /\ bonding \in [Dev -> 0..MaxCall] /\ browse \in [Dev -> -1..MaxCall]
  /\ answers \in [CallId -> Nat] /\ dropped \subseteq CallId

\* A call is in one place, and has been made.
CallPlaces ==
  /\ \A i \in CallId : Pending(i) => i <= ncall
  /\ \A d, e \in Dev : \A i \in CallId : (bonding[d] = i /\ bonding[e] = i) => d = e
  /\ \A d, e \in Dev : \A i \in CallId : (browse[d] = i /\ browse[e] = i) => d = e
  /\ \A d, e \in Dev : \A i \in CallId : ~(bonding[d] = i /\ browse[e] = i)
  /\ \A d \in Dev : \A i \in dropped : bonding[d] # i /\ browse[d] # i

CallAnswers == \A i \in CallId : answers[i] = IF i <= ncall /\ ~Pending(i) THEN 1 ELSE 0

CallInv == CallTypes /\ CallPlaces /\ CallAnswers

\* One device's calls move, are dropped (D) or answered (I), each to one place.
Moves(d, b, w, D, I) ==
  /\ ncall' = ncall /\ bonding' = [bonding EXCEPT ![d] = b] /\ browse' = [browse EXCEPT ![d] = w]
  /\ dropped' = dropped \cup D /\ Answer(I)
  /\ \A i \in CallId : (i = bonding[d] \/ i = browse[d]) <=> (i = b \/ i = w \/ i \in D \/ i \in I)
  /\ \A i \in CallId : /\ ~(i = b /\ i = w) /\ ~(i = b /\ i \in D) /\ ~(i = w /\ i \in D)
                       /\ i \in I => i # b /\ i # w /\ i \notin D

\* A step of one device that moves its calls keeps account of them.
LEMMA CallStep ==
  ASSUME CallInv, NEW d \in Dev, NEW b \in 0..MaxCall, NEW w \in -1..MaxCall,
         NEW D \in SUBSET CallId, NEW I \in SUBSET CallId, Moves(d, b, w, D, I)
  PROVE  CallInv'
<1>m. /\ ncall' = ncall /\ bonding' = [bonding EXCEPT ![d] = b] /\ browse' = [browse EXCEPT ![d] = w]
      /\ dropped' = dropped \cup D /\ Answer(I)
  BY DEF Moves
<1>u. \A i \in CallId : (i = bonding[d] \/ i = browse[d]) <=> (i = b \/ i = w \/ i \in D \/ i \in I)
  BY DEF Moves
<1>v. \A i \in CallId : /\ ~(i = b /\ i = w) /\ ~(i = b /\ i \in D) /\ ~(i = w /\ i \in D)
                        /\ i \in I => i # b /\ i # w /\ i \notin D
  BY DEF Moves
<1> USE <1>m, <1>u, <1>v
<1>t. /\ ncall \in 0..MaxCall /\ bonding \in [Dev -> 0..MaxCall] /\ browse \in [Dev -> -1..MaxCall]
      /\ answers \in [CallId -> Nat] /\ dropped \subseteq CallId
  BY DEF CallInv, CallTypes
<1>1. /\ bonding' \in [Dev -> 0..MaxCall] /\ bonding'[d] = b
      /\ \A e \in Dev : e # d => bonding'[e] = bonding[e]
  BY <1>t
<1>2. /\ browse' \in [Dev -> -1..MaxCall] /\ browse'[d] = w
      /\ \A e \in Dev : e # d => browse'[e] = browse[e]
  BY <1>t
<1>3. \A i \in CallId : answers'[i] = answers[i] + (IF i \in I THEN 1 ELSE 0)
  BY DEF Answer
<1>4. CallTypes'
  <2>1. answers' \in [CallId -> Nat]
    BY <1>t DEF Answer
  <2> QED BY <1>1, <1>2, <1>t, <2>1 DEF CallTypes
<1>5. \A i \in CallId : Pending(i)' <=> (Pending(i) /\ i \notin I)
  <2> TAKE i \in CallId
  <2>1. CASE i = bonding[d] \/ i = browse[d]
    <3>1. Pending(i)
      BY <2>1 DEF Pending
    <3>2. (i = b \/ i = w \/ i \in D) <=> i \notin I
      BY <2>1
    <3>3. \A e \in Dev : e # d => bonding[e] # i /\ browse[e] # i
      BY <2>1 DEF CallInv, CallPlaces
    <3>4. i \notin dropped
      BY <2>1 DEF CallInv, CallPlaces
    <3>5. Pending(i)' <=> (i = b \/ i = w \/ i \in D)
      BY <1>1, <1>2, <3>3, <3>4 DEF Pending
    <3> QED BY <3>1, <3>2, <3>5
  <2>2. CASE i # bonding[d] /\ i # browse[d]
    <3>1. i # b /\ i # w /\ i \notin D /\ i \notin I
      BY <2>2
    <3>2. \A e \in Dev : (bonding'[e] = i <=> bonding[e] = i) /\ (browse'[e] = i <=> browse[e] = i)
      BY <1>1, <1>2, <2>2, <3>1
    <3>3. Pending(i)' <=> Pending(i)
      BY <3>1, <3>2 DEF Pending
    <3> QED BY <3>1, <3>3
  <2> QED BY <2>1, <2>2
<1>6. CallPlaces'
  <2>1. \A i \in CallId : Pending(i)' => i <= ncall'
    BY <1>5 DEF CallInv, CallPlaces
  <2>2. \A e \in Dev : \A i \in CallId : bonding'[e] = i =>
           IF e = d THEN i = b /\ (i = bonding[d] \/ i = browse[d]) ELSE bonding[e] = i
    BY <1>1
  <2>3. \A e \in Dev : \A i \in CallId : browse'[e] = i =>
           IF e = d THEN i = w /\ (i = bonding[d] \/ i = browse[d]) ELSE browse[e] = i
    BY <1>2
  <2>4. \A e \in Dev : \A i \in CallId : (e # d /\ (bonding[e] = i \/ browse[e] = i)) => i # bonding[d] /\ i # browse[d]
    BY DEF CallInv, CallPlaces
  <2>5. \A e, f \in Dev : \A i \in CallId : (bonding'[e] = i /\ bonding'[f] = i) => e = f
    BY <2>2, <2>4 DEF CallInv, CallPlaces
  <2>6. \A e, f \in Dev : \A i \in CallId : (browse'[e] = i /\ browse'[f] = i) => e = f
    BY <2>3, <2>4 DEF CallInv, CallPlaces
  <2>7. \A e, f \in Dev : \A i \in CallId : ~(bonding'[e] = i /\ browse'[f] = i)
    BY <2>2, <2>3, <2>4 DEF CallInv, CallPlaces
  <2>8. \A e \in Dev : \A i \in dropped' : bonding'[e] # i /\ browse'[e] # i
    <3> SUFFICES ASSUME NEW e \in Dev, NEW i \in dropped', bonding'[e] = i \/ browse'[e] = i
                 PROVE  FALSE
      OBVIOUS
    <3>1. i \in CallId
      BY <1>t
    <3>2. CASE i \in D
      <4>1. i = bonding[d] \/ i = browse[d]
        BY <3>1, <3>2
      <4>2. e = d => bonding'[e] = b /\ browse'[e] = w
        BY <1>1, <1>2
      <4>3. e # d => bonding[e] = i \/ browse[e] = i
        BY <1>1, <1>2
      <4> QED BY <2>4, <3>1, <3>2, <4>1, <4>2, <4>3
    <3>3. CASE i \in dropped
      <4>1. bonding[e] # i /\ browse[e] # i /\ bonding[d] # i /\ browse[d] # i
        BY <3>3 DEF CallInv, CallPlaces
      <4> QED BY <2>2, <2>3, <3>1, <4>1
    <3> QED BY <3>2, <3>3
  <2> QED BY <2>1, <2>5, <2>6, <2>7, <2>8 DEF CallPlaces
<1>7. CallAnswers'
  <2> SUFFICES ASSUME NEW i \in CallId
               PROVE  answers'[i] = IF i <= ncall' /\ ~Pending(i)' THEN 1 ELSE 0
    BY DEF CallAnswers
  <2>1. answers[i] = IF i <= ncall /\ ~Pending(i) THEN 1 ELSE 0
    BY DEF CallInv, CallAnswers
  <2>2. i \in I => Pending(i) /\ i <= ncall
    <3>1. i \in I => Pending(i)
      BY DEF Pending
    <3> QED BY <3>1 DEF CallInv, CallPlaces
  <2>3. CASE i \in I
    <3>1. answers[i] = 0 /\ ~Pending(i)' /\ i <= ncall
      BY <1>5, <2>1, <2>2, <2>3
    <3> QED BY <1>3, <2>3, <3>1
  <2>4. CASE i \notin I
    <3>1. answers'[i] = answers[i] /\ (Pending(i)' <=> Pending(i))
      BY <1>3, <1>5, <1>t, <2>4
    <3> QED BY <2>1, <3>1
  <2> QED BY <2>3, <2>4
<1> QED BY <1>4, <1>6, <1>7 DEF CallInv

\* A call that is neither answered nor moved.
LEMMA NoAnswer ==
  ASSUME CallInv, UNCHANGED answers
  PROVE  Answer({})
BY DEF CallInv, CallTypes, Answer

\* Nothing is answered and no call moves.
LEMMA SameCalls ==
  ASSUME CallInv, UNCHANGED <<ncall, bonding, browse, answers, dropped>>
  PROVE  CallInv'
BY DEF CallInv, CallTypes, CallPlaces, CallAnswers, Pending

\* A new call is answered at once, or is in progress.
LEMMA NewCallStep ==
  ASSUME CallInv, ncall < MaxCall, ncall' = Me, UNCHANGED <<browse, dropped>>, NEW d \in Dev,
         \/ Answer({Me}) /\ UNCHANGED bonding
         \/ UNCHANGED answers /\ bonding[d] = NoCall /\ bonding' = [bonding EXCEPT ![d] = Me]
  PROVE  CallInv'
<1>t. /\ ncall \in 0..MaxCall /\ bonding \in [Dev -> 0..MaxCall] /\ browse \in [Dev -> -1..MaxCall]
      /\ answers \in [CallId -> Nat] /\ dropped \subseteq CallId
  BY DEF CallInv, CallTypes
<1>m. Me = ncall + 1 /\ Me \in CallId /\ Me \in 0..MaxCall /\ Me \in Nat /\ ncall \in Nat /\ CallId \subseteq Nat
  BY <1>t, Bounds DEF Me, CallId
<1>p. ~Pending(Me) /\ \A i \in CallId : Pending(i) => i <= ncall
  <2>1. \A i \in CallId : Pending(i) => i <= ncall
    BY DEF CallInv, CallPlaces
  <2>2. ~(Me <= ncall)
    BY <1>m
  <2> QED BY <1>m, <2>1, <2>2
<1>a. \A i \in CallId : answers[i] = IF i <= ncall /\ ~Pending(i) THEN 1 ELSE 0
  BY DEF CallInv, CallAnswers
<1>i. \A i \in CallId : i # Me => (i <= ncall' <=> i <= ncall)
  BY <1>m
<1>1. CASE Answer({Me}) /\ UNCHANGED bonding
  <2>1. \A i \in CallId : answers'[i] = answers[i] + (IF i = Me THEN 1 ELSE 0)
    BY <1>1 DEF Answer
  <2>2. CallTypes'
    <3>1. answers' \in [CallId -> Nat]
      BY <1>1, <1>t DEF Answer
    <3> QED BY <1>1, <1>m, <1>t, <3>1 DEF CallTypes
  <2>3. \A i : Pending(i)' <=> Pending(i)
    BY <1>1 DEF Pending
  <2>4. CallPlaces'
    <3>1. \A i \in CallId : Pending(i)' => i <= ncall'
      BY <1>m, <1>p, <2>3
    <3> QED BY <1>1, <3>1 DEF CallInv, CallPlaces
  <2>5. CallAnswers'
    <3> SUFFICES ASSUME NEW i \in CallId
                 PROVE  answers'[i] = IF i <= ncall' /\ ~Pending(i)' THEN 1 ELSE 0
      BY DEF CallAnswers
    <3>1. CASE i = Me
      <4>1. answers[i] = 0 /\ ~Pending(i)' /\ i <= ncall'
        BY <1>a, <1>m, <1>p, <2>3, <3>1
      <4> QED BY <2>1, <3>1, <4>1
    <3>2. CASE i # Me
      <4>1. answers'[i] = answers[i]
        BY <1>t, <2>1, <3>2
      <4> QED BY <1>a, <1>i, <2>3, <3>2, <4>1
    <3> QED BY <3>1, <3>2
  <2> QED BY <2>2, <2>4, <2>5 DEF CallInv
<1>2. CASE UNCHANGED answers /\ bonding[d] = NoCall /\ bonding' = [bonding EXCEPT ![d] = Me]
  <2>1. /\ bonding' \in [Dev -> 0..MaxCall] /\ bonding'[d] = Me
        /\ \A e \in Dev : e # d => bonding'[e] = bonding[e]
    BY <1>2, <1>m, <1>t
  <2>2. CallTypes'
    BY <1>2, <1>m, <1>t, <2>1 DEF CallTypes
  <2>3. \A i \in CallId : Pending(i)' <=> (Pending(i) \/ i = Me)
    <3> TAKE i \in CallId
    <3>1. i # bonding[d]
      BY <1>2, Bounds
    <3>2. (\E e \in Dev : bonding'[e] = i) <=> (i = Me \/ \E e \in Dev : bonding[e] = i)
      BY <2>1, <3>1
    <3> QED BY <3>2 DEF Pending
  <2>4. CallPlaces'
    <3>1. \A i \in CallId : Pending(i)' => i <= ncall'
      BY <1>m, <1>p, <2>3
    <3>2. /\ \A e \in Dev : bonding[e] # Me /\ browse[e] # Me
          /\ Me \notin dropped
      BY <1>p DEF Pending
    <3>3. \A e, f \in Dev : \A i \in CallId : (bonding'[e] = i /\ bonding'[f] = i) => e = f
      BY <2>1, <3>2 DEF CallInv, CallPlaces
    <3>4. \A e, f \in Dev : \A i \in CallId : ~(bonding'[e] = i /\ browse'[f] = i)
      BY <2>1, <3>2 DEF CallInv, CallPlaces
    <3>5. \A e \in Dev : \A i \in dropped' : bonding'[e] # i /\ browse'[e] # i
      BY <2>1, <3>2 DEF CallInv, CallPlaces
    <3>6. \A e, f \in Dev : \A i \in CallId : (browse'[e] = i /\ browse'[f] = i) => e = f
      BY DEF CallInv, CallPlaces
    <3> QED BY <3>1, <3>3, <3>4, <3>5, <3>6 DEF CallPlaces
  <2>5. CallAnswers'
    <3> SUFFICES ASSUME NEW i \in CallId
                 PROVE  answers'[i] = IF i <= ncall' /\ ~Pending(i)' THEN 1 ELSE 0
      BY DEF CallAnswers
    <3>1. CASE i = Me
      <4>1. answers[i] = 0 /\ Pending(i)'
        BY <1>a, <1>m, <2>3, <3>1
      <4> QED BY <1>2, <4>1
    <3>2. CASE i # Me
      BY <1>2, <1>a, <1>i, <2>3, <3>2
    <3> QED BY <3>1, <3>2
  <2> QED BY <2>2, <2>4, <2>5 DEF CallInv
<1> QED BY <1>1, <1>2

-----------------------------------------------------------------------------
(* Requests and commands                                                    *)

StateTypes ==
  /\ ops \in Uses /\ iter \in [Dev -> 0..(MaxPin + 1)] /\ retry \subseteq Dev /\ watched \subseteq Dev
  /\ cmds \in Seq(Dev) /\ ending \in BOOLEAN /\ pairId \in BOOLEAN
  /\ timers \subseteq Dev /\ pairTimeout \in 0..NDev /\ pinAsked \in BOOLEAN
  /\ link \subseteq Dev /\ paired \subseteq Dev /\ bonded \subseteq Dev /\ resolved \subseteq Dev

\* Without a bonding request there is nothing of it.
BondInv == \A d \in Dev : bonding[d] = NoCall =>
  bagent[d] = NoAgent /\ iter[d] = 0 /\ d \notin retry /\ d \notin watched

\* Nothing happens to the devices that are left alone.
InvolvedInv == \A d \in Dev : d \notin Involved =>
  bonding[d] = NoCall /\ authr[d] = NoAuth /\ d \notin Commanded /\ d \notin link

AwaitInv == \A d \in Dev : bonding[d] # NoCall => d \in retry \cup Commanded \cup paired

\* One command, one timer, which pair_device_timeout names.
CommandInv == RetriesAlone =>
  /\ Len(cmds) <= 1 /\ (pairId <=> cmds # <<>>)
  /\ timers \subseteq Commanded /\ timers \subseteq {pairTimeout}
  /\ (cmds # <<>> /\ ~ending) => timers = {Head(cmds)} /\ pairTimeout = Head(cmds)

\* Without PINs of plugins there is no second try, unless a PIN was asked for by
\* a device whose own pairing it is not.
NoPins == ops \cap {"pins", "remote"} = {}
PinInv ==
  /\ "pins" \notin ops => \A d \in Dev : iter[d] <= 1
  /\ NoPins => retry = {} /\ (pinAsked /\ cmds # <<>> => iter[Head(cmds)] = 0)

\* An authentication that waits for an agent which is not asked.
Lost(d) == /\ authr[d].type = "ask" /\ authr[d].agent # NoAgent
           /\ agents[authr[d].agent].request # d

\* A lone device's question is lost only to a Pair that is refused.
LostInv == "second" \notin ops => \A d \in Dev : Lost(d) => pairId /\ bonding[d] = NoCall

IInv == /\ AgentInv /\ CallInv /\ StateTypes /\ BondInv /\ InvolvedInv /\ AwaitInv
        /\ CommandInv /\ PinInv /\ LostInv

\* The circumstances stay; a device that is alone is the only one.
LEMMA InvolvedFacts ==
  /\ ops' = ops => Involved' = Involved /\ (RetriesAlone' <=> RetriesAlone) /\ (NoPins' <=> NoPins)
  /\ "second" \notin ops => \A d, e \in Involved : d = e
  /\ "second" \in ops => Involved = Dev
  /\ NoPins => RetriesAlone
  /\ NoPins => "pins" \notin ops /\ "remote" \notin ops
  /\ RetriesAlone => "second" \notin ops \/ NoPins
BY DEF Involved, RetriesAlone, NoPins

\* The commands, and one that is added or done.
LEMMA CommandFacts ==
  ASSUME cmds \in Seq(Dev)
  PROVE  /\ Commanded \subseteq Dev /\ Len(cmds) \in Nat
         /\ cmds = <<>> => Commanded = {} /\ Len(cmds) = 0
         /\ cmds # <<>> => Head(cmds) \in Commanded /\ Head(cmds) \in Dev
         /\ (cmds # <<>> /\ Len(cmds) <= 1) => Commanded = {Head(cmds)}
         /\ \A d \in Dev : Settled(d) <=> d \notin Commanded
<1>1. Len(cmds) \in Nat /\ DOMAIN cmds = 1..Len(cmds) /\ \A k \in DOMAIN cmds : cmds[k] \in Dev
  OBVIOUS
<1>2. cmds # <<>> => 1 \in DOMAIN cmds /\ Head(cmds) = cmds[1] /\ Len(cmds) >= 1
  OBVIOUS
<1>3. cmds = <<>> => DOMAIN cmds = {} /\ Len(cmds) = 0
  OBVIOUS
<1>4. (cmds # <<>> /\ Len(cmds) <= 1) => DOMAIN cmds = {1}
  BY <1>1, <1>2
<1>5. \A d \in Dev : Settled(d) <=> d \notin Commanded
  BY DEF Settled, Commanded
<1> QED BY <1>1, <1>2, <1>3, <1>4, <1>5 DEF Commanded

\* The kernel's answer takes the first command off.
LEMMA TailCommand ==
  ASSUME cmds \in Seq(Dev), cmds # <<>>, cmds' = Tail(cmds)
  PROVE  /\ cmds' \in Seq(Dev) /\ Commanded' \subseteq Commanded /\ Commanded \ {Head(cmds)} \subseteq Commanded'
         /\ Len(cmds) <= 1 => cmds' = <<>>
<1>1. Len(cmds) \in Nat /\ DOMAIN cmds = 1..Len(cmds) /\ Len(cmds) >= 1 /\ Head(cmds) = cmds[1]
  OBVIOUS
<1>2. /\ cmds' \in Seq(Dev) /\ Len(cmds') = Len(cmds) - 1 /\ DOMAIN cmds' = 1..(Len(cmds) - 1)
      /\ \A k \in 1..(Len(cmds) - 1) : cmds'[k] = cmds[k + 1]
  BY HeadTailProperties
<1>3. \A k \in 1..(Len(cmds) - 1) : k + 1 \in DOMAIN cmds
  BY <1>1
<1>4. Commanded' \subseteq Commanded
  BY <1>2, <1>3 DEF Commanded
<1>5. Commanded \ {Head(cmds)} \subseteq Commanded'
  <2> SUFFICES ASSUME NEW k \in DOMAIN cmds, cmds[k] # Head(cmds)
               PROVE  \E j \in DOMAIN cmds' : cmds'[j] = cmds[k]
    BY DEF Commanded
  <2>1. k - 1 \in 1..(Len(cmds) - 1) /\ (k - 1) + 1 = k
    BY <1>1
  <2> QED BY <1>2, <2>1
<1>6. Len(cmds) <= 1 => cmds' = <<>>
  BY <1>1, <1>2
<1> QED BY <1>2, <1>4, <1>5, <1>6

\* A command is queued.
LEMMA AppendCommand ==
  ASSUME cmds \in Seq(Dev), NEW d \in Dev, cmds' = Append(cmds, d)
  PROVE  /\ cmds' \in Seq(Dev) /\ cmds' # <<>> /\ Commanded' = Commanded \cup {d}
         /\ cmds = <<>> => Len(cmds') = 1 /\ Head(cmds') = d
<1>1. Len(cmds) \in Nat /\ DOMAIN cmds = 1..Len(cmds)
  OBVIOUS
<1>2. /\ Append(cmds, d) \in Seq(Dev) /\ Append(cmds, d) # <<>>
      /\ Len(Append(cmds, d)) = Len(cmds) + 1
      /\ DOMAIN Append(cmds, d) = DOMAIN cmds \cup {Len(cmds) + 1}
      /\ \A k \in DOMAIN cmds : Append(cmds, d)[k] = cmds[k]
      /\ Append(cmds, d)[Len(cmds) + 1] = d
  BY AppendList
<1>3. cmds' \in Seq(Dev) /\ cmds' # <<>>
  BY <1>2
<1>4. Commanded' = Commanded \cup {d}
  BY <1>2 DEF Commanded
<1>5. cmds = <<>> => Len(cmds) = 0
  OBVIOUS
<1>6. Head(cmds') = cmds'[1]
  BY <1>3
<1> QED BY <1>2, <1>3, <1>4, <1>5, <1>6

\* Devices other than the one a lone pairing is of have no authentication.
LEMMA AloneFacts ==
  ASSUME InvolvedInv, "second" \notin ops, NEW d \in Involved, NEW e \in Dev, e # d
  PROVE  authr[e] = NoAuth
BY InvolvedFacts DEF InvolvedInv

\* A step of one device keeps the invariant.
LEMMA StateStep ==
  ASSUME IInv, NEW d \in Dev, AgentInv', CallInv', StateTypes', BondInv', CommandInv', ops' = ops,
         \A e \in Dev : e # d => /\ bonding'[e] = bonding[e] /\ iter'[e] = iter[e] /\ authr'[e] = authr[e]
                                 /\ e \in retry' => e \in retry
                                 /\ e \in retry => e \in retry',
         iter'[d] \in {0, iter[d]},
         \/ d \in Involved /\ (authr'[d].type # "ask" \/ authr'[d].agent = NoAgent)
         \/ d \in Involved /\ UNCHANGED <<agents, authr, bonding>> /\ bonding[d] # NoCall
         \/ UNCHANGED <<agents, authr, bonding, pairId>>,
         bonding'[d] # NoCall => d \in retry' \cup Commanded' \cup paired',
         Commanded' \subseteq Commanded, Commanded \ {d} \subseteq Commanded',
         link' \subseteq link, paired \ {d} \subseteq paired',
         NoPins => /\ d \in retry' => d \in retry
                   /\ cmds' = cmds \/ cmds' = <<>>
                   /\ pinAsked' = pinAsked
  PROVE  IInv'
<1>0. InvolvedInv /\ AwaitInv /\ PinInv /\ LostInv /\ StateTypes
  BY DEF IInv
<1>1. InvolvedInv'
  <2> SUFFICES ASSUME NEW e \in Dev, e \notin Involved
               PROVE  bonding'[e] = NoCall /\ authr'[e] = NoAuth /\ e \notin Commanded' /\ e \notin link'
    BY InvolvedFacts DEF InvolvedInv
  <2>1. bonding[e] = NoCall /\ authr[e] = NoAuth /\ e \notin Commanded /\ e \notin link
    BY <1>0 DEF InvolvedInv
  <2>2. bonding'[e] = bonding[e] /\ authr'[e] = authr[e]
    OBVIOUS
  <2> QED BY <2>1, <2>2
<1>2. AwaitInv'
  <2> SUFFICES ASSUME NEW e \in Dev, bonding'[e] # NoCall
               PROVE  e \in retry' \cup Commanded' \cup paired'
    BY DEF AwaitInv
  <2>1. CASE e = d
    BY <2>1
  <2>2. CASE e # d
    <3>1. e \in retry \cup Commanded \cup paired
      BY <1>0, <2>2 DEF AwaitInv
    <3> QED BY <2>2, <3>1
  <2> QED BY <2>1, <2>2
<1>3. PinInv'
  <2>0. \A e \in Dev : iter[e] \in Nat /\ (iter'[e] = iter[e] \/ iter'[e] = 0)
    BY <1>0, Bounds DEF StateTypes
  <2>1. "pins" \notin ops => \A e \in Dev : iter'[e] <= 1
    BY <1>0, <2>0 DEF PinInv
  <2>2. NoPins => retry' = {}
    <3> SUFFICES ASSUME NoPins, NEW e \in retry' PROVE FALSE
      OBVIOUS
    <3>1. retry = {}
      BY <1>0 DEF PinInv
    <3>2. e \in Dev
      BY DEF StateTypes
    <3> QED BY <3>1, <3>2
  <2>3. NoPins => (pinAsked' /\ cmds' # <<>> => iter'[Head(cmds')] = 0)
    <3> SUFFICES ASSUME NoPins, pinAsked', cmds' # <<>> PROVE iter'[Head(cmds')] = 0
      OBVIOUS
    <3>1. cmds' = cmds /\ pinAsked' = pinAsked
      OBVIOUS
    <3>2. iter[Head(cmds)] = 0 /\ Head(cmds) \in Dev
      BY <1>0, <3>1, CommandFacts DEF PinInv, StateTypes
    <3> QED BY <2>0, <3>1, <3>2
  <2> QED BY <2>1, <2>2, <2>3, InvolvedFacts DEF PinInv
<1>4. LostInv'
  <2> SUFFICES ASSUME "second" \notin ops, NEW e \in Dev, Lost(e)'
               PROVE  pairId' /\ bonding'[e] = NoCall
    BY DEF LostInv
  <2>0. authr'[e].type = "ask" /\ authr'[e].agent # NoAgent /\ agents'[authr'[e].agent].request # e
    BY DEF Lost
  <2>1. CASE UNCHANGED <<agents, authr, bonding, pairId>>
    <3>1. Lost(e)
      BY <2>0, <2>1 DEF Lost
    <3> QED BY <1>0, <2>1, <3>1 DEF LostInv
  <2>2. CASE d \in Involved /\ e # d
    <3>1. authr'[e] = NoAuth
      BY <1>0, <2>2, AloneFacts
    <3> QED BY <2>0, <3>1, AuthFacts
  <2>3. CASE e = d /\ UNCHANGED <<agents, authr, bonding>> /\ bonding[d] # NoCall
    <3>1. Lost(d)
      BY <2>0, <2>3 DEF Lost
    <3> QED BY <1>0, <2>3, <3>1 DEF LostInv
  <2>4. CASE e = d /\ (authr'[d].type # "ask" \/ authr'[d].agent = NoAgent)
    BY <2>0, <2>4
  <2> QED BY <2>1, <2>2, <2>3, <2>4
<1> QED BY <1>1, <1>2, <1>3, <1>4 DEF IInv

\* The commands and timers stay; the kernel may have been told to cancel.
LEMMA SameCommands ==
  ASSUME CommandInv, UNCHANGED <<ops, cmds, pairId, timers, pairTimeout>>, ending => ending'
  PROVE  CommandInv'
BY InvolvedFacts DEF CommandInv, Commanded

-----------------------------------------------------------------------------
(* What the end of an attempt does                                          *)

\* Where the call of a bonding request goes.
Passes(d) ==
  \/ Answer({bonding[d]} \ {NoCall}) /\ UNCHANGED <<browse, dropped>>
  \/ /\ bonding[d] # NoCall /\ browse[d] = NoBrowse /\ browse' = [browse EXCEPT ![d] = bonding[d]]
     /\ UNCHANGED <<answers, dropped>>
  \/ /\ bonding[d] # NoCall /\ dropped' = dropped \cup {bonding[d]} /\ UNCHANGED <<answers, browse>>

\* The request stays for another try, is gone, or is overlooked.
Ended(d, status) ==
  /\ UNCHANGED <<listed, defaults>>
  /\ \/ /\ Retries(d, status) /\ retry' = retry \cup {d}
        /\ AuthGone(d) \/ UNCHANGED <<agents, authr>>
        /\ UNCHANGED <<bonding, bagent, iter, watched, answers, browse, dropped>>
     \/ BondingRequestFree(d) /\ BothGone(d) /\ Passes(d)
     \/ /\ status = "success" /\ (d \in paired \/ bonding[d] = NoCall) /\ AuthGone(d)
        /\ UNCHANGED <<bonding, bagent, iter, retry, watched, answers, browse, dropped>>

\* device_bonding_complete
LEMMA CompleteEnds ==
  ASSUME NEW d \in Dev, BondingComplete(d)
  PROVE  Ended(d, "success")
<1> DEFINE A == CancelAuthentication(agents, d, TRUE)
<1>0. TRUE \in BOOLEAN /\ UNCHANGED <<listed, defaults>> /\ authr' = [authr EXCEPT ![d] = NoAuth]
  BY DEF BondingComplete
<1>1. CASE d \in paired \/ bonding[d] = NoCall
  <2>1. agents' = A /\ UNCHANGED <<bondVars, answers, browse, dropped>>
    BY <1>1 DEF BondingComplete
  <2>2. AuthGone(d)
    BY <1>0, <2>1 DEF AuthGone
  <2> QED BY <1>0, <1>1, <2>1, <2>2 DEF Ended, bondVars
<1>2. CASE d \notin paired /\ bonding[d] # NoCall
  <2>1. BondingRequestFree(d) /\ agents' = LetGoBonding(A, d)
    BY <1>2 DEF BondingComplete
  <2>2. BothGone(d)
    BY <1>0, <2>1 DEF BothGone
  <2>3. Passes(d)
    <3>1. CASE Answer({bonding[d]}) /\ UNCHANGED <<browse, dropped>>
      <4>1. {bonding[d]} \ {NoCall} = {bonding[d]}
        BY <1>2
      <4> QED BY <3>1, <4>1 DEF Passes
    <3>2. CASE /\ browse[d] = NoBrowse /\ browse' = [browse EXCEPT ![d] = bonding[d]]
               /\ UNCHANGED <<answers, dropped>>
      BY <1>2, <3>2 DEF Passes
    <3>3. CASE dropped' = dropped \cup {bonding[d]} /\ UNCHANGED <<answers, browse>>
      BY <1>2, <3>3 DEF Passes
    <3> QED BY <1>2, <3>1, <3>2, <3>3 DEF BondingComplete
  <2> QED BY <1>0, <2>1, <2>2, <2>3 DEF Ended
<1> QED BY <1>1, <1>2

\* bonding_attempt_complete, with the authentication as it was or already ended.
LEMMA AttemptEnds ==
  ASSUME AgentInv, BondInv, NEW d \in Dev, NEW status, NEW A, NEW auth, AttemptComplete(d, status, A, auth),
         \/ A = agents /\ auth = authr[d]
         \/ /\ status # "success" /\ auth = NoAuth
            /\ \E ab \in BOOLEAN : A = CancelAuthentication(agents, d, ab)
  PROVE  Ended(d, status)
<1>t. authr \in [Dev -> AuthRec] /\ TRUE \in BOOLEAN
  BY DEF AgentInv
<1>1. CASE Retries(d, status)
  <2>1. /\ retry' = retry \cup {d} /\ agents' = A /\ authr' = [authr EXCEPT ![d] = auth]
        /\ UNCHANGED <<listed, defaults, bonding, bagent, iter, watched, answers, browse, dropped>>
    BY <1>1 DEF AttemptComplete
  <2>2. AuthGone(d) \/ UNCHANGED <<agents, authr>>
    <3>1. CASE A = agents /\ auth = authr[d]
      BY <1>t, <2>1, <3>1
    <3>2. CASE auth = NoAuth /\ \E ab \in BOOLEAN : A = CancelAuthentication(agents, d, ab)
      BY <2>1, <3>2 DEF AuthGone
    <3> QED BY <3>1, <3>2
  <2> QED BY <1>1, <2>1, <2>2 DEF Ended
<1>2. CASE ~Retries(d, status) /\ status = "success"
  <2>1. BondingComplete(d)
    BY <1>2 DEF AttemptComplete
  <2> QED BY <1>2, <2>1, CompleteEnds
<1>3. CASE ~Retries(d, status) /\ status # "success"
  <2> DEFINE B == IF auth = NoAuth THEN A ELSE CancelAuthentication(A, d, TRUE)
  <2>1. /\ authr' = [authr EXCEPT ![d] = NoAuth] /\ Answer({bonding[d]} \ {NoCall}) /\ BondingRequestFree(d)
        /\ agents' = (IF bonding[d] = NoCall THEN B ELSE LetGoBonding(B, d))
        /\ UNCHANGED <<listed, defaults, browse, dropped>>
    BY <1>3 DEF AttemptComplete, BondingFailed
  <2>2. \E ab \in BOOLEAN : B = CancelAuthentication(agents, d, ab)
    <3>1. CASE auth # NoAuth
      BY <1>t, <3>1
    <3>2. CASE auth = NoAuth /\ A = agents /\ auth = authr[d]
      <4>1. CancelAuthentication(agents, d, TRUE) = agents
        BY <3>2, AuthFacts DEF CancelAuthentication
      <4> QED BY <1>t, <3>2, <4>1
    <3>3. CASE auth = NoAuth /\ \E ab \in BOOLEAN : A = CancelAuthentication(agents, d, ab)
      BY <3>3
    <3> QED BY <3>1, <3>2, <3>3
  <2> HIDE DEF B
  <2>3. agents' = LetGoBonding(B, d)
    <3>1. bonding[d] = NoCall => bagent[d] = NoAgent
      BY DEF BondInv
    <3> QED BY <2>1, <3>1 DEF LetGoBonding
  <2>4. BothGone(d)
    BY <2>1, <2>2, <2>3 DEF BothGone
  <2>5. Passes(d)
    BY <2>1 DEF Passes
  <2> QED BY <2>1, <2>4, <2>5 DEF Ended
<1> QED BY <1>1, <1>2, <1>3

\* The agents after the end of an attempt.
LEMMA EndedAgents ==
  ASSUME AgentInv, NEW d \in Dev, NEW status, Ended(d, status), ops' = ops
  PROVE  AgentInv'
<1>0. UNCHANGED <<listed, defaults>>
  BY DEF Ended
<1>1. CASE AuthGone(d) /\ bagent' = bagent
  BY <1>0, <1>1, AuthGoneStep
<1>2. CASE UNCHANGED <<agents, authr, bagent>>
  BY <1>0, <1>2, SameAgents
<1>3. CASE BothGone(d) /\ BondingRequestFree(d)
  BY <1>0, <1>3, BothGoneStep DEF BondingRequestFree
<1> QED BY <1>1, <1>2, <1>3 DEF Ended

\* The calls after a bonding request is gone.
LEMMA PassesCalls ==
  ASSUME CallInv, NEW d \in Dev, bonding' = [bonding EXCEPT ![d] = NoCall], Passes(d), ncall' = ncall
  PROVE  CallInv'
<1>t. /\ bonding[d] \in 0..MaxCall /\ browse[d] \in -1..MaxCall /\ browse \in [Dev -> -1..MaxCall]
      /\ NoCall \in 0..MaxCall /\ NoCall \notin CallId /\ NoBrowse \notin CallId
      /\ bonding[d] # NoCall => bonding[d] \in CallId
      /\ 0..MaxCall \subseteq -1..MaxCall
  BY Bounds DEF CallInv, CallTypes
<1>d. bonding[d] \in CallId => bonding[d] # browse[d]
  BY DEF CallInv, CallPlaces
<1>1. CASE Answer({bonding[d]} \ {NoCall}) /\ UNCHANGED <<browse, dropped>>
  <2> DEFINE I == {bonding[d]} \ {NoCall}
  <2>1. I \in SUBSET CallId /\ \A i \in CallId : i \in I <=> i = bonding[d]
    BY <1>t
  <2>2. Moves(d, NoCall, browse[d], {}, I)
    BY <1>1, <1>d, <1>t, <2>1 DEF Moves
  <2> HIDE DEF I
  <2> QED BY <1>t, <2>1, <2>2, CallStep
<1>2. CASE /\ bonding[d] # NoCall /\ browse[d] = NoBrowse /\ browse' = [browse EXCEPT ![d] = bonding[d]]
           /\ UNCHANGED <<answers, dropped>>
  <2>1. Moves(d, NoCall, bonding[d], {}, {})
    BY <1>2, <1>t, NoAnswer DEF Moves
  <2> QED BY <1>t, <2>1, CallStep
<1>3. CASE bonding[d] # NoCall /\ dropped' = dropped \cup {bonding[d]} /\ UNCHANGED <<answers, browse>>
  <2>1. Moves(d, NoCall, browse[d], {bonding[d]}, {})
    BY <1>3, <1>d, <1>t, NoAnswer DEF Moves
  <2>2. {bonding[d]} \in SUBSET CallId
    BY <1>3, <1>t
  <2> QED BY <1>t, <2>1, <2>2, CallStep
<1> QED BY <1>1, <1>2, <1>3 DEF Passes

\* The calls after the end of an attempt.
LEMMA EndedCalls ==
  ASSUME CallInv, NEW d \in Dev, NEW status, Ended(d, status), ncall' = ncall
  PROVE  CallInv'
<1>1. CASE UNCHANGED <<bonding, answers, browse, dropped>>
  BY <1>1, SameCalls
<1>2. CASE BondingRequestFree(d) /\ Passes(d)
  BY <1>2, PassesCalls DEF BondingRequestFree
<1> QED BY <1>1, <1>2 DEF Ended

\* A bonding request is gone.
LEMMA FreeFacts ==
  ASSUME AgentInv, CallTypes, StateTypes, BondInv, NEW d \in Dev, BondingRequestFree(d)
  PROVE  /\ BondInv' /\ iter' \in [Dev -> 0..(MaxPin + 1)] /\ retry' \subseteq Dev /\ watched' \subseteq Dev
         /\ bonding'[d] = NoCall /\ iter'[d] = 0 /\ d \notin retry'
         /\ \A e \in Dev : e # d => /\ bonding'[e] = bonding[e] /\ iter'[e] = iter[e]
                                    /\ e \in retry' => e \in retry
                                    /\ e \in retry => e \in retry'
<1>t. /\ bonding \in [Dev -> 0..MaxCall] /\ bagent \in [Dev -> AgentId \cup {NoAgent}]
      /\ iter \in [Dev -> 0..(MaxPin + 1)] /\ retry \subseteq Dev /\ watched \subseteq Dev
  BY DEF AgentInv, CallTypes, StateTypes
<1>1. /\ bonding' = [bonding EXCEPT ![d] = NoCall] /\ bagent' = [bagent EXCEPT ![d] = NoAgent]
      /\ iter' = [iter EXCEPT ![d] = 0] /\ retry' = retry \ {d} /\ watched' = watched \ {d}
  BY DEF BondingRequestFree
<1>2. 0 \in 0..(MaxPin + 1)
  BY Bounds
<1>3. /\ bonding'[d] = NoCall /\ bagent'[d] = NoAgent /\ iter'[d] = 0
      /\ \A e \in Dev : e # d => bonding'[e] = bonding[e] /\ bagent'[e] = bagent[e] /\ iter'[e] = iter[e]
  BY <1>1, <1>t
<1>4. BondInv'
  BY <1>1, <1>3 DEF BondInv
<1>5. iter' \in [Dev -> 0..(MaxPin + 1)]
  BY <1>1, <1>2, <1>t
<1> QED BY <1>1, <1>3, <1>4, <1>5, <1>t

\* The requests after the end of an attempt.
LEMMA EndedFacts ==
  ASSUME IInv, NEW d \in Dev, NEW status \in Status, Ended(d, status)
  PROVE  /\ BondInv' /\ iter' \in [Dev -> 0..(MaxPin + 1)] /\ retry' \subseteq Dev /\ watched' \subseteq Dev
         /\ \A e \in Dev : e # d => /\ bonding'[e] = bonding[e] /\ iter'[e] = iter[e] /\ authr'[e] = authr[e]
                                    /\ e \in retry' => e \in retry
                                    /\ e \in retry => e \in retry'
         /\ iter'[d] \in {0, iter[d]}
         /\ \/ authr'[d].type # "ask"
            \/ UNCHANGED <<agents, authr, bonding>> /\ bonding[d] # NoCall
         /\ bonding'[d] # NoCall => d \in retry' \/ (status = "success" /\ d \in paired)
         /\ d \in retry' => d \in retry \/ (status = "authFailed" /\ pinAsked /\ iter[d] # 0)
<1>t. /\ authr \in [Dev -> AuthRec] /\ iter \in [Dev -> 0..(MaxPin + 1)] /\ retry \subseteq Dev /\ watched \subseteq Dev
      /\ AgentInv /\ CallTypes /\ StateTypes /\ BondInv
  BY DEF IInv, AgentInv, StateTypes, CallInv
<1>a. (AuthGone(d) \/ BothGone(d)) =>
         /\ authr'[d].type # "ask"
         /\ \A e \in Dev : e # d => authr'[e] = authr[e]
  <2> SUFFICES ASSUME authr' = [authr EXCEPT ![d] = NoAuth]
               PROVE  authr'[d].type # "ask" /\ \A e \in Dev : e # d => authr'[e] = authr[e]
    BY DEF AuthGone, BothGone
  <2> QED BY <1>t, AuthFacts
<1>1. CASE /\ Retries(d, status) /\ retry' = retry \cup {d}
           /\ AuthGone(d) \/ UNCHANGED <<agents, authr>>
           /\ UNCHANGED <<bonding, bagent, iter, watched, answers, browse, dropped>>
  <2>1. bonding[d] # NoCall
    BY <1>1, <1>t DEF Retries, BondInv
  <2>2. BondInv'
    BY <1>1, <1>t, <2>1 DEF BondInv
  <2>3. d \in retry \/ (status = "authFailed" /\ pinAsked /\ iter[d] # 0)
    BY <1>1 DEF Retries
  <2>4. \/ authr'[d].type # "ask"
        \/ UNCHANGED <<agents, authr, bonding>> /\ bonding[d] # NoCall
    BY <1>1, <1>a, <2>1
  <2>5. \A e \in Dev : e # d => authr'[e] = authr[e]
    BY <1>1, <1>a
  <2> QED BY <1>1, <1>t, <2>2, <2>3, <2>4, <2>5
<1>2. CASE BondingRequestFree(d) /\ BothGone(d)
  BY <1>2, <1>a, <1>t, FreeFacts
<1>3. CASE /\ status = "success" /\ (d \in paired \/ bonding[d] = NoCall) /\ AuthGone(d)
           /\ UNCHANGED <<bonding, bagent, iter, retry, watched, answers, browse, dropped>>
  <2>1. BondInv'
    BY <1>3, <1>t DEF BondInv
  <2> QED BY <1>3, <1>a, <1>t, <2>1
<1> QED BY <1>1, <1>2, <1>3 DEF Ended

\* The end of an attempt keeps the invariant.
LEMMA EndStep ==
  ASSUME IInv, NEW d \in Dev, d \in Involved, NEW status \in Status, Ended(d, status),
         UNCHANGED <<ops, ncall, pinAsked, resolved>>, CommandInv',
         cmds' \in Seq(Dev), ending' \in BOOLEAN, pairId' \in BOOLEAN, timers' \subseteq Dev,
         pairTimeout' \in 0..NDev, link' \subseteq link, paired' \subseteq Dev, bonded' \subseteq Dev,
         Commanded' \subseteq Commanded, Commanded \ {d} \subseteq Commanded',
         paired \ {d} \subseteq paired', status = "success" => d \in paired',
         NoPins => /\ cmds' = cmds \/ cmds' = <<>>
                   /\ status = "authFailed" => cmds # <<>> /\ d = Head(cmds)
  PROVE  IInv'
<1>1. AgentInv' /\ CallInv'
  BY EndedAgents, EndedCalls DEF IInv
<1>2. /\ BondInv' /\ iter' \in [Dev -> 0..(MaxPin + 1)] /\ retry' \subseteq Dev /\ watched' \subseteq Dev
      /\ \A e \in Dev : e # d => /\ bonding'[e] = bonding[e] /\ iter'[e] = iter[e] /\ authr'[e] = authr[e]
                                 /\ e \in retry' => e \in retry
                                 /\ e \in retry => e \in retry'
      /\ iter'[d] \in {0, iter[d]}
      /\ \/ authr'[d].type # "ask"
         \/ UNCHANGED <<agents, authr, bonding>> /\ bonding[d] # NoCall
      /\ bonding'[d] # NoCall => d \in retry' \/ (status = "success" /\ d \in paired)
      /\ d \in retry' => d \in retry \/ (status = "authFailed" /\ pinAsked /\ iter[d] # 0)
  BY EndedFacts
<1>3. StateTypes'
  <2>1. link \subseteq Dev /\ StateTypes
    BY DEF IInv, StateTypes
  <2> QED BY <1>2, <2>1 DEF StateTypes
<1>4. bonding'[d] # NoCall => d \in retry' \cup Commanded' \cup paired'
  BY <1>2
<1>5. NoPins => /\ d \in retry' => d \in retry
                /\ cmds' = cmds \/ cmds' = <<>>
                /\ pinAsked' = pinAsked
  <2>1. NoPins => (pinAsked /\ cmds # <<>> => iter[Head(cmds)] = 0)
    BY DEF IInv, PinInv
  <2> QED BY <1>2, <2>1
<1>6. \/ d \in Involved /\ (authr'[d].type # "ask" \/ authr'[d].agent = NoAgent)
      \/ d \in Involved /\ UNCHANGED <<agents, authr, bonding>> /\ bonding[d] # NoCall
  BY <1>2
<1> QED BY <1>1, <1>2, <1>3, <1>4, <1>5, <1>6, StateStep

-----------------------------------------------------------------------------
(* The ends of attempts, action by action                                   *)

\* What every step may use.
LEMMA Parts ==
  ASSUME IInv
  PROVE  /\ AgentInv /\ CallInv /\ StateTypes /\ BondInv /\ InvolvedInv /\ AwaitInv
         /\ CommandInv /\ PinInv /\ LostInv
         /\ cmds \in Seq(Dev) /\ link \subseteq Dev /\ paired \subseteq Dev /\ bonded \subseteq Dev
         /\ timers \subseteq Dev /\ retry \subseteq Dev /\ watched \subseteq Dev /\ resolved \subseteq Dev
         /\ pairId \in BOOLEAN /\ ending \in BOOLEAN /\ pinAsked \in BOOLEAN
         /\ pairTimeout \in 0..NDev /\ iter \in [Dev -> 0..(MaxPin + 1)]
         /\ bonding \in [Dev -> 0..MaxCall] /\ browse \in [Dev -> -1..MaxCall]
         /\ authr \in [Dev -> AuthRec] /\ bagent \in [Dev -> AgentId \cup {NoAgent}]
BY DEF IInv, StateTypes, CallInv, CallTypes, AgentInv

\* A device with a command, a request, a link or an authentication is involved.
LEMMA Involves ==
  ASSUME IInv, NEW d \in Dev,
         d \in Commanded \/ bonding[d] # NoCall \/ d \in link \/ authr[d] # NoAuth \/ Pairs(d)
  PROVE  d \in Involved
<1>1. InvolvedInv /\ (cmds # <<>> => Head(cmds) \in Commanded)
  BY Parts, CommandFacts
<1> QED BY <1>1 DEF InvolvedInv, Pairs

\* pair_device_complete keeps the invariant.
LEMMA PairDeviceCompleteStep ==
  ASSUME IInv, PairDeviceComplete
  PROVE  IInv'
<1> DEFINE d == Head(cmds)
<1>1. /\ cmds # <<>> /\ cmds' = Tail(cmds) /\ ending' = FALSE /\ pairId' = FALSE
      /\ timers' = timers \ {pairTimeout} /\ pairTimeout' = NoDev
      /\ UNCHANGED <<ops, pinAsked, link, bonded, ncall, resolved>>
  BY DEF PairDeviceComplete
<1>2. PICK status \in Status : /\ AttemptComplete(d, status, agents, authr[d])
                               /\ paired' = IF status = "success" THEN paired \cup {d} ELSE paired
  BY DEF PairDeviceComplete
<1>p. AgentInv /\ BondInv /\ CommandInv /\ cmds \in Seq(Dev) /\ timers \subseteq Dev /\ paired \subseteq Dev /\ link \subseteq Dev /\ bonded \subseteq Dev
  BY Parts
<1>3. d \in Dev /\ d \in Commanded
  BY <1>1, <1>p, CommandFacts
<1>4. d \in Involved
  BY <1>3, Involves
<1> HIDE DEF d
<1>5. Ended(d, status)
  BY <1>2, <1>3, <1>p, AttemptEnds
<1>6. /\ cmds' \in Seq(Dev) /\ Commanded' \subseteq Commanded /\ Commanded \ {d} \subseteq Commanded'
      /\ Len(cmds) <= 1 => cmds' = <<>>
  BY <1>1, <1>p, TailCommand DEF d
<1>7. CommandInv'
  <2> SUFFICES ASSUME RetriesAlone
               PROVE  cmds' = <<>> /\ timers' = {}
    <3>1. RetriesAlone' <=> RetriesAlone
      BY <1>1, InvolvedFacts
    <3>2. Len(<<>>) <= 1
      OBVIOUS
    <3> QED BY <1>1, <3>1, <3>2 DEF CommandInv
  <2> QED BY <1>1, <1>6, <1>p DEF CommandInv
<1>8. NoPins => cmds' = <<>>
  BY <1>6, <1>p, InvolvedFacts DEF CommandInv
<1>9. pairTimeout' \in 0..NDev /\ paired' \subseteq Dev /\ paired \subseteq paired' /\ (status = "success" => d \in paired')
  BY <1>1, <1>2, <1>3, <1>p, Bounds DEF NoDev
<1>10. cmds # <<>> /\ d = Head(cmds)
  BY <1>1 DEF d
<1> QED BY <1>1, <1>3, <1>4, <1>5, <1>6, <1>7, <1>8, <1>9, <1>10, <1>p, EndStep

\* new_link_key_callback keeps the invariant.
LEMMA NewLinkKeyStep ==
  ASSUME IInv, NEW d \in Dev, NewLinkKey(d)
  PROVE  IInv'
<1>1. /\ Pairs(d) /\ BondingComplete(d) /\ paired' = paired \cup {d} /\ bonded' \in {bonded, bonded \cup {d}}
      /\ UNCHANGED <<ops, cmds, ending, pairId, timers, pairTimeout, pinAsked, link, ncall, resolved>>
  BY DEF NewLinkKey, cmdVars
<1>2. d \in Involved /\ Ended(d, "success") /\ "success" \in Status
  BY <1>1, Involves, CompleteEnds DEF Status
<1>3. CommandInv' /\ Commanded' = Commanded
  BY <1>1, SameCommands, Parts DEF Commanded
<1> QED BY <1>1, <1>2, <1>3, Parts, EndStep

\* auth_failed_callback keeps the invariant.
LEMMA AuthFailedStep ==
  ASSUME IInv, NEW d \in Dev, AuthFailed(d)
  PROVE  IInv'
<1>1. /\ "remote" \in ops /\ d \in Involved
      /\ UNCHANGED <<ops, cmds, ending, pairId, timers, pairTimeout, pinAsked, link, paired, bonded, ncall, resolved>>
  BY DEF AuthFailed, cmdVars, keyVars
<1>2. PICK status \in {"authFailed", "failed"} : AttemptComplete(d, status, agents, authr[d])
  BY DEF AuthFailed
<1>3. Ended(d, status) /\ status \in Status /\ status # "success"
  BY <1>2, Parts, AttemptEnds DEF Status
<1>4. CommandInv' /\ Commanded' = Commanded /\ ~NoPins
  BY <1>1, SameCommands, Parts, InvolvedFacts DEF Commanded
<1> QED BY <1>1, <1>3, <1>4, Parts, EndStep

\* connect_failed_callback keeps the invariant.
LEMMA ConnectFailedStep ==
  ASSUME IInv, NEW d \in Dev, ConnectFailed(d)
  PROVE  IInv'
<1>1. /\ cmds # <<>> /\ Head(cmds) = d /\ ending' = TRUE
      /\ UNCHANGED <<ops, cmds, pairId, timers, pairTimeout, pinAsked, link, paired, bonded, ncall, resolved>>
  BY DEF ConnectFailed, keyVars
<1>2. PICK status \in {"authFailed", "failed"} :
         IF bonding[d] = NoCall THEN AttemptComplete(d, status, agents, authr[d])
         ELSE AttemptComplete(d, status, CancelAuthentication(agents, d, FALSE), NoAuth)
  BY DEF ConnectFailed
<1>3. status \in Status /\ status # "success" /\ FALSE \in BOOLEAN
  BY DEF Status
<1>4. Ended(d, status)
  <2>1. CASE AttemptComplete(d, status, agents, authr[d])
    BY <2>1, Parts, AttemptEnds
  <2>2. CASE AttemptComplete(d, status, CancelAuthentication(agents, d, FALSE), NoAuth)
    BY <1>3, <2>2, Parts, AttemptEnds
  <2> QED BY <1>2, <2>1, <2>2
<1>5. d \in Involved
  BY <1>1, Involves DEF Pairs
<1>6. CommandInv' /\ Commanded' = Commanded
  BY <1>1, SameCommands, Parts DEF Commanded
<1> QED BY <1>1, <1>3, <1>4, <1>5, <1>6, Parts, EndStep

\* dev_disconnected keeps the invariant.
LEMMA DisconnectedStep ==
  ASSUME IInv, NEW d \in Dev, Disconnected(d)
  PROVE  IInv'
<1>1. /\ d \in link /\ link' = link \ {d} /\ paired' = (IF d \in bonded THEN paired ELSE paired \ {d})
      /\ AttemptComplete(d, "disconnected", CancelAuthentication(agents, d, TRUE), NoAuth)
      /\ UNCHANGED <<ops, cmds, ending, pairId, timers, pairTimeout, pinAsked, bonded, ncall, resolved>>
  BY DEF Disconnected, cmdVars
<1>2. "disconnected" \in Status /\ "disconnected" # "success" /\ TRUE \in BOOLEAN
  BY DEF Status
<1>3. Ended(d, "disconnected")
  BY <1>1, <1>2, Parts, AttemptEnds
<1>4. d \in Involved
  BY <1>1, Involves
<1>5. CommandInv' /\ Commanded' = Commanded
  BY <1>1, SameCommands, Parts DEF Commanded
<1> QED BY <1>1, <1>2, <1>3, <1>4, <1>5, Parts, EndStep

\* cancel_pairing keeps the invariant.
LEMMA CancelPairingStep ==
  ASSUME IInv, NEW d \in Dev, CancelPairing(d)
  PROVE  IInv'
<1>1. /\ bonding[d] # NoCall
      /\ agents' = LetGoBonding(CancelAuthentication(agents, d, FALSE), d)
      /\ authr' = [authr EXCEPT ![d] = NoAuth] /\ Answer({bonding[d]})
      /\ AdapterCancelBonding(d) /\ BondingRequestFree(d)
      /\ UNCHANGED <<ops, listed, defaults, cmds, pairId, timers, pairTimeout, pinAsked, link, paired, bonded,
                     ncall, dropped, browse, resolved>>
  BY DEF CancelPairing, CancelBonding, keyVars, foundVars
<1>2. BothGone(d)
  <2>1. FALSE \in BOOLEAN
    OBVIOUS
  <2> QED BY <1>1, <2>1 DEF BothGone
<1>3. Passes(d)
  <2>1. {bonding[d]} \ {NoCall} = {bonding[d]}
    BY <1>1
  <2> QED BY <1>1, <2>1 DEF Passes
<1>4. Ended(d, "failed") /\ "failed" \in Status /\ "failed" # "success" /\ "failed" # "authFailed"
  BY <1>1, <1>2, <1>3 DEF Ended, Status
<1>5. ending' \in BOOLEAN /\ (ending => ending')
  BY <1>1, Zenon DEF AdapterCancelBonding
<1>6. CommandInv' /\ Commanded' = Commanded
  BY <1>1, <1>5, SameCommands, Parts DEF Commanded
<1>7. d \in Involved
  BY <1>1, Involves
<1> QED BY <1>1, <1>4, <1>5, <1>6, <1>7, Parts, EndStep

-----------------------------------------------------------------------------
(* The callers' other steps, the time-outs and discovery                    *)

\* A discovery is given up, and the call it was for with it.
LEMMA BrowseCancelStep ==
  ASSUME CallInv, NEW d \in Dev, BrowseCancel(d), ncall' = ncall,
         \/ UNCHANGED <<bonding, answers>>
         \/ bonding' = [bonding EXCEPT ![d] = NoCall] /\ Answer({bonding[d]}) /\ bonding[d] # NoCall
  PROVE  CallInv'
<1> DEFINE D == {browse[d]} \cap CallId
<1>t. /\ bonding[d] \in 0..MaxCall /\ browse[d] \in -1..MaxCall /\ bonding \in [Dev -> 0..MaxCall]
      /\ NoCall \in 0..MaxCall /\ NoCall \notin CallId /\ NoBrowse \notin CallId /\ NoBrowse \in -1..MaxCall
      /\ bonding[d] # NoCall => bonding[d] \in CallId
  BY Bounds DEF CallInv, CallTypes
<1>d. bonding[d] \in CallId => bonding[d] # browse[d]
  BY DEF CallInv, CallPlaces
<1>b. browse' = [browse EXCEPT ![d] = NoBrowse] /\ dropped' = dropped \cup D
  BY DEF BrowseCancel
<1>D. D \in SUBSET CallId /\ \A i \in CallId : i \in D <=> i = browse[d]
  OBVIOUS
<1> HIDE DEF D
<1>1. CASE UNCHANGED <<bonding, answers>>
  <2>1. Moves(d, bonding[d], NoBrowse, D, {})
    BY <1>1, <1>D, <1>b, <1>d, <1>t, NoAnswer DEF Moves
  <2> QED BY <1>D, <1>t, <2>1, CallStep
<1>2. CASE bonding' = [bonding EXCEPT ![d] = NoCall] /\ Answer({bonding[d]}) /\ bonding[d] # NoCall
  <2>1. {bonding[d]} \in SUBSET CallId
    BY <1>2, <1>t
  <2>2. Moves(d, NoCall, NoBrowse, D, {bonding[d]})
    BY <1>2, <1>D, <1>b, <1>d, <1>t DEF Moves
  <2> QED BY <1>D, <1>t, <2>1, <2>2, CallStep
<1> QED BY <1>1, <1>2

\* adapter_cancel_bonding may tell the kernel to cancel.
LEMMA CancelTells ==
  ASSUME NEW d \in Dev, AdapterCancelBonding(d)
  PROVE  /\ ending' \in BOOLEAN /\ (ending => ending')
         /\ (cmds # <<>> /\ Head(cmds) = d) => ending'
BY Zenon DEF AdapterCancelBonding

\* pair_device_timeout keeps the invariant.
LEMMA PairDeviceTimeoutStep ==
  ASSUME IInv, NEW d \in Dev, PairDeviceTimeout(d)
  PROVE  IInv'
<1>1. /\ d \in timers /\ timers' = timers \ {d} /\ pairTimeout' = NoDev /\ AdapterCancelBonding(d)
      /\ UNCHANGED <<ops, agents, listed, defaults, bonding, bagent, iter, retry, watched, authr, cmds, pairId,
                     pinAsked, link, paired, bonded, ncall, answers, dropped, browse, resolved>>
  BY DEF PairDeviceTimeout, agentVars, bondVars, keyVars, callVars, foundVars
<1>2. AgentInv' /\ CallInv'
  BY <1>1, Parts, SameAgents, SameCalls
<1>3. ending' \in BOOLEAN /\ ((cmds # <<>> /\ Head(cmds) = d) => ending')
  BY <1>1, CancelTells
<1>4. StateTypes' /\ BondInv' /\ Commanded' = Commanded
  BY <1>1, <1>3, Parts, Bounds DEF StateTypes, BondInv, Commanded, NoDev
<1>5. CommandInv'
  <2> SUFFICES ASSUME RetriesAlone
               PROVE  /\ Len(cmds) <= 1 /\ (pairId <=> cmds # <<>>) /\ timers' = {}
                      /\ cmds # <<>> => ending'
    BY <1>1, InvolvedFacts DEF CommandInv
  <2>1. /\ Len(cmds) <= 1 /\ (pairId <=> cmds # <<>>) /\ timers \subseteq Commanded /\ timers \subseteq {pairTimeout}
    BY Parts DEF CommandInv
  <2>2. cmds # <<>> /\ Commanded = {Head(cmds)}
    BY <1>1, <2>1, Parts, CommandFacts
  <2> QED BY <1>1, <1>3, <2>1, <2>2
<1>6. bonding'[d] # NoCall => d \in retry' \cup Commanded' \cup paired'
  BY <1>1, <1>4, Parts DEF AwaitInv
<1> QED BY <1>1, <1>2, <1>4, <1>5, <1>6, StateStep

\* A step that leaves the commands and the requests as they are.
LEMMA QuietStep ==
  ASSUME IInv, NEW d \in Dev, AgentInv', CallInv',
         UNCHANGED <<ops, bonding, bagent, iter, retry, cmds, pairId, timers, pairTimeout, pinAsked, link,
                     paired, bonded>>,
         watched' \subseteq watched, resolved' \subseteq Dev, ending' \in BOOLEAN, ending => ending',
         \/ UNCHANGED <<agents, authr>>
         \/ /\ d \in Involved /\ (authr'[d].type # "ask" \/ authr'[d].agent = NoAgent)
            /\ \A e \in Dev : e # d => authr'[e] = authr[e]
  PROVE  IInv'
<1>1. StateTypes' /\ Commanded' = Commanded
  BY Parts DEF StateTypes, Commanded
<1>2. BondInv'
  BY Parts DEF BondInv
<1>3. CommandInv'
  BY Parts, SameCommands
<1>4. bonding'[d] # NoCall => d \in retry' \cup Commanded' \cup paired'
  BY <1>1, Parts DEF AwaitInv
<1>5. \A e \in Dev : e # d => /\ bonding'[e] = bonding[e] /\ iter'[e] = iter[e] /\ authr'[e] = authr[e]
                              /\ e \in retry' => e \in retry
                              /\ e \in retry => e \in retry'
  OBVIOUS
<1>6. \/ d \in Involved /\ (authr'[d].type # "ask" \/ authr'[d].agent = NoAgent)
      \/ UNCHANGED <<agents, authr, bonding, pairId>>
  OBVIOUS
<1> QED BY <1>1, <1>2, <1>3, <1>4, <1>5, <1>6, StateStep

\* dev_disconnect keeps the invariant.
LEMMA DisconnectStep ==
  ASSUME IInv, NEW d \in Dev, Disconnect(d)
  PROVE  IInv'
<1>1. /\ AdapterCancelBonding(d) \/ UNCHANGED ending
      /\ BrowseCancel(d)
      /\ UNCHANGED <<ops, agents, listed, defaults, bonding, bagent, iter, retry, watched, authr, cmds, pairId,
                     timers, pairTimeout, pinAsked, link, paired, bonded, ncall, answers, resolved>>
  BY DEF Disconnect, agentVars, bondVars, keyVars
<1>2. AgentInv' /\ CallInv'
  BY <1>1, Parts, SameAgents, BrowseCancelStep
<1>3. ending' \in BOOLEAN /\ (ending => ending')
  BY <1>1, Parts, CancelTells
<1> QED BY <1>1, <1>2, <1>3, Parts, QuietStep

\* create_bond_req_exit keeps the invariant.
LEMMA CreateBondReqExitStep ==
  ASSUME IInv, NEW d \in Dev, CreateBondReqExit(d)
  PROVE  IInv'
<1>1. /\ d \in watched /\ watched' = watched \ {d} /\ agents' = CancelAuthentication(agents, d, FALSE)
      /\ authr' = [authr EXCEPT ![d] = NoAuth] /\ AdapterCancelBonding(d) /\ BrowseCancel(d)
      /\ UNCHANGED <<ops, listed, defaults, bonding, bagent, iter, retry, cmds, pairId, timers, pairTimeout,
                     pinAsked, link, paired, bonded, ncall, answers, resolved>>
  BY DEF CreateBondReqExit, keyVars
<1>2. AuthGone(d)
  <2>1. FALSE \in BOOLEAN
    OBVIOUS
  <2> QED BY <1>1, <2>1 DEF AuthGone
<1>3. AgentInv' /\ CallInv'
  BY <1>1, <1>2, Parts, AuthGoneStep, BrowseCancelStep
<1>4. ending' \in BOOLEAN /\ (ending => ending')
  BY <1>1, CancelTells
<1>5. d \in Involved
  BY <1>1, Parts, Involves DEF BondInv
<1>6. authr'[d].type # "ask" /\ \A e \in Dev : e # d => authr'[e] = authr[e]
  BY <1>1, Parts, AuthFacts
<1> QED BY <1>1, <1>3, <1>4, <1>5, <1>6, Parts, QuietStep

\* The answer of an agent keeps the invariant.
LEMMA AgentReplyKeeps ==
  ASSUME IInv, NEW a \in AgentId, AgentReply(a)
  PROVE  IInv'
<1> DEFINE d == agents[a].request
<1>1. /\ d \in Dev /\ authr[d].agent = a /\ authr' = [authr EXCEPT ![d].agent = NoAgent]
      /\ agents' = AgentUnref(AgentCancel(agents, a), a)
      /\ UNCHANGED <<ops, listed, defaults, bonding, bagent, iter, retry, watched, cmds, ending, pairId, timers,
                     pairTimeout, pinAsked, link, paired, bonded, ncall, answers, dropped, browse, resolved>>
  BY DEF AgentReply, bondVars, cmdVars, keyVars, callVars, foundVars
<1>0. d = agents[a].request
  OBVIOUS
<1> HIDE DEF d
<1>2. AgentInv' /\ (\A e \in Dev : e # d => authr'[e] = authr[e]) /\ authr'[d].agent = NoAgent
  BY <1>0, <1>1, Parts, AgentReplyStep
<1>3. CallInv'
  BY <1>1, Parts, SameCalls
<1>4. d \in Involved
  BY <1>1, Involves, AuthFacts, Bounds
<1> QED BY <1>1, <1>2, <1>3, <1>4, Parts, QuietStep

\* Discovery for somebody else keeps the invariant.
LEMMA BrowseStartStep ==
  ASSUME IInv, NEW d \in Dev, BrowseStart(d)
  PROVE  IInv'
<1>1. /\ browse[d] = NoBrowse /\ browse' = [browse EXCEPT ![d] = NoCall]
      /\ UNCHANGED <<ops, agents, listed, defaults, bonding, bagent, iter, retry, watched, authr, cmds, ending,
                     pairId, timers, pairTimeout, pinAsked, link, paired, bonded, ncall, answers, dropped, resolved>>
  BY DEF BrowseStart, agentVars, bondVars, cmdVars, keyVars, callVars
<1>2. CallInv'
  <2>1. NoCall \in -1..MaxCall /\ NoCall \notin CallId /\ NoBrowse \notin CallId /\ bonding[d] \in 0..MaxCall
    BY Bounds, Parts
  <2>2. Moves(d, bonding[d], NoCall, {}, {})
    BY <1>1, <2>1, Parts, NoAnswer DEF Moves
  <2>3. CallInv /\ {} \in SUBSET CallId
    BY Parts
  <2> QED BY <2>1, <2>2, <2>3, CallStep
<1>3. AgentInv'
  BY <1>1, Parts, SameAgents
<1> QED BY <1>1, <1>2, <1>3, Parts, QuietStep

\* browse_request_complete keeps the invariant.
LEMMA BrowseCompleteStep ==
  ASSUME IInv, NEW d \in Dev, BrowseComplete(d)
  PROVE  IInv'
<1> DEFINE I == {browse[d]} \cap CallId
<1>1. /\ Answer(I) /\ browse' = [browse EXCEPT ![d] = NoBrowse] /\ resolved' = resolved \cup {d}
      /\ UNCHANGED <<ops, agents, listed, defaults, bonding, bagent, iter, retry, watched, authr, cmds, ending,
                     pairId, timers, pairTimeout, pinAsked, link, paired, bonded, ncall, dropped>>
  BY DEF BrowseComplete, agentVars, bondVars, cmdVars, keyVars
<1>I. I \in SUBSET CallId /\ \A i \in CallId : i \in I <=> i = browse[d]
  OBVIOUS
<1> HIDE DEF I
<1>2. CallInv'
  <2>1. NoBrowse \in -1..MaxCall /\ NoBrowse \notin CallId /\ bonding[d] \in 0..MaxCall
    BY Bounds, Parts
  <2>2. bonding[d] \in CallId => bonding[d] # browse[d]
    BY Parts DEF CallInv, CallPlaces
  <2>3. Moves(d, bonding[d], NoBrowse, {}, I)
    BY <1>1, <1>I, <2>1, <2>2, Parts DEF Moves
  <2> QED BY <1>I, <2>1, <2>3, Parts, CallStep
<1>3. AgentInv'
  BY <1>1, Parts, SameAgents
<1> QED BY <1>1, <1>2, <1>3, Parts, QuietStep

\* device_remove and device_free keep the invariant.
LEMMA DeviceRemoveStep ==
  ASSUME IInv, NEW d \in Dev, DeviceRemove(d)
  PROVE  IInv'
<1>1. /\ "remove" \in ops /\ d \in Involved /\ BrowseCancel(d)
      /\ paired' = paired \ {d} /\ bonded' = bonded \ {d} /\ resolved' = resolved \ {d}
      /\ UNCHANGED <<ops, listed, defaults, cmds, pairId, timers, pairTimeout, pinAsked, link, ncall>>
  BY DEF DeviceRemove
<1>2. CASE bonding[d] # NoCall
  <2>1. /\ agents' = LetGoBonding(CancelAuthentication(agents, d, FALSE), d)
        /\ authr' = [authr EXCEPT ![d] = NoAuth] /\ Answer({bonding[d]})
        /\ AdapterCancelBonding(d) /\ BondingRequestFree(d)
    BY <1>2 DEF DeviceRemove, CancelBonding
  <2>2. BothGone(d)
    <3>1. FALSE \in BOOLEAN
      OBVIOUS
    <3> QED BY <2>1, <3>1 DEF BothGone
  <2>3. bonding' = [bonding EXCEPT ![d] = NoCall] /\ bagent' = [bagent EXCEPT ![d] = NoAgent]
    BY <2>1 DEF BondingRequestFree
  <2>4. AgentInv' /\ CallInv'
    BY <1>1, <1>2, <2>1, <2>2, <2>3, Parts, BothGoneStep, BrowseCancelStep
  <2>5. ending' \in BOOLEAN /\ (ending => ending')
    BY <2>1, CancelTells
  <2>6. /\ BondInv' /\ iter' \in [Dev -> 0..(MaxPin + 1)] /\ retry' \subseteq Dev /\ watched' \subseteq Dev
        /\ bonding'[d] = NoCall /\ iter'[d] = 0 /\ d \notin retry'
        /\ \A e \in Dev : e # d => /\ bonding'[e] = bonding[e] /\ iter'[e] = iter[e]
                                   /\ e \in retry' => e \in retry
                                   /\ e \in retry => e \in retry'
    BY <2>1, Parts, FreeFacts DEF CallInv
  <2>7. authr'[d].type # "ask" /\ \A e \in Dev : e # d => authr'[e] = authr[e]
    BY <2>1, Parts, AuthFacts
  <2>8. StateTypes' /\ CommandInv' /\ Commanded' = Commanded
    BY <1>1, <2>5, <2>6, Parts, SameCommands DEF StateTypes, Commanded
  <2> QED BY <1>1, <2>4, <2>6, <2>7, <2>8, StateStep
<1>3. CASE bonding[d] = NoCall
  <2>1. /\ agents' = (IF authr[d].agent = NoAgent THEN agents ELSE AgentUnref(agents, authr[d].agent))
        /\ authr' = [authr EXCEPT ![d] = NoAuth]
        /\ UNCHANGED <<bonding, bagent, iter, retry, watched, ending, answers>>
    BY <1>3 DEF DeviceRemove, DeviceFree, bondVars
  <2>2. AgentInv' /\ CallInv'
    BY <1>1, <2>1, Parts, FreeStep, BrowseCancelStep
  <2>3. authr'[d].type # "ask" /\ \A e \in Dev : e # d => authr'[e] = authr[e]
    BY <2>1, Parts, AuthFacts
  <2>4. StateTypes' /\ CommandInv' /\ Commanded' = Commanded
    BY <1>1, <2>1, Parts, SameCommands DEF StateTypes, Commanded
  <2>5. BondInv'
    BY <2>1, Parts DEF BondInv
  <2> QED BY <1>1, <1>3, <2>1, <2>2, <2>3, <2>4, <2>5, StateStep
<1> QED BY <1>2, <1>3

-----------------------------------------------------------------------------
(* The questions, the agents' programs and connections                      *)

\* The requests and the commands stay.
LEMMA RestStep ==
  ASSUME IInv, AgentInv', CallInv',
         UNCHANGED <<ops, bonding, bagent, retry, watched, cmds, ending, pairId, timers, pairTimeout,
                     paired, bonded, resolved>>,
         iter' \in [Dev -> 0..(MaxPin + 1)], pinAsked' \in BOOLEAN, link' \subseteq Dev,
         \A d \in Dev : d \notin Involved => authr'[d] = NoAuth /\ d \notin link',
         \A d \in Dev : bonding[d] = NoCall => iter'[d] = 0,
         PinInv', LostInv'
  PROVE  IInv'
<1>1. StateTypes' /\ Commanded' = Commanded
  BY Parts DEF StateTypes, Commanded
<1>2. BondInv'
  BY Parts DEF BondInv
<1>3. CommandInv'
  BY Parts, SameCommands
<1>4. InvolvedInv' /\ AwaitInv'
  BY <1>1, Parts, InvolvedFacts DEF InvolvedInv, AwaitInv
<1> QED BY <1>1, <1>2, <1>3, <1>4 DEF IInv

\* No PIN is asked for and none is used.
LEMMA SamePins ==
  ASSUME IInv, UNCHANGED <<ops, iter, retry, cmds, pinAsked>>
  PROVE  /\ PinInv' /\ iter' \in [Dev -> 0..(MaxPin + 1)] /\ pinAsked' \in BOOLEAN
         /\ \A d \in Dev : bonding[d] = NoCall => iter'[d] = 0
<1>1. PinInv'
  BY Parts, InvolvedFacts DEF PinInv
<1> QED BY <1>1, Parts DEF BondInv

\* device_request_pincode and its like: a question that is asked is out.
LEMMA AskStep ==
  ASSUME IInv, NEW d \in Dev, d \in Involved, Ask(d), UNCHANGED <<ops, bonding, bagent, pairId>>
  PROVE  /\ AgentInv' /\ LostInv'
         /\ \A e \in Dev : e \notin Involved => authr'[e] = NoAuth
<1> DEFINE a == AgentOf(d)
<1>0. UNCHANGED <<listed, defaults>>
  BY DEF Ask
<1>1. CASE NewAuth(d) /\ ~Busy(agents, a)
  <2>1. /\ authr' = [authr EXCEPT ![d] = [type |-> "ask", agent |-> a]]
        /\ agents' = AgentAsk(AgentRef(agents, a), a, d)
    BY <1>1 DEF Ask
  <2>2. AgentInv' /\ agents'[a].request = d
    BY <1>0, <1>1, <2>1, Parts, NewAuthStep
  <2>3. authr'[d].agent = a /\ \A e \in Dev : e # d => authr'[e] = authr[e]
    BY <2>1, Parts
  <2>4. LostInv'
    <3> SUFFICES ASSUME "second" \notin ops, NEW e \in Dev, Lost(e)'
                 PROVE  FALSE
      BY DEF LostInv
    <3>1. e # d
      BY <2>2, <2>3 DEF Lost
    <3>2. authr'[e] = NoAuth
      BY <2>3, <3>1, Parts, AloneFacts
    <3> QED BY <3>2, AuthFacts DEF Lost
  <2>5. \A e \in Dev : e \notin Involved => authr'[e] = NoAuth
    BY <2>3, Parts DEF InvolvedInv
  <2> QED BY <2>2, <2>4, <2>5
<1>2. CASE UNCHANGED <<agents, authr>>
  <2>1. AgentInv'
    BY <1>0, <1>2, Parts, SameAgents
  <2>2. LostInv'
    BY <1>2, Parts DEF LostInv, Lost
  <2> QED BY <1>2, <2>1, <2>2, Parts DEF InvolvedInv
<1> QED BY <1>1, <1>2 DEF Ask

\* user_confirm_request_callback and its like keep the invariant.
LEMMA UserRequestStep ==
  ASSUME IInv, NEW d \in Dev, UserRequest(d)
  PROVE  IInv'
<1>1. /\ Pairs(d) /\ Ask(d)
      /\ UNCHANGED <<ops, bonding, bagent, iter, retry, watched, cmds, ending, pairId, timers, pairTimeout,
                     pinAsked, link, paired, bonded, ncall, answers, dropped, browse, resolved>>
  BY DEF UserRequest, bondVars, cmdVars, keyVars, callVars, foundVars
<1>2. d \in Involved
  BY <1>1, Involves
<1>3. AgentInv' /\ LostInv' /\ \A e \in Dev : e \notin Involved => authr'[e] = NoAuth
  BY <1>1, <1>2, AskStep
<1>4. CallInv'
  BY <1>1, Parts, SameCalls
<1>5. /\ PinInv' /\ iter' \in [Dev -> 0..(MaxPin + 1)] /\ pinAsked' \in BOOLEAN
      /\ \A e \in Dev : bonding[e] = NoCall => iter'[e] = 0
  BY <1>1, SamePins
<1>6. link' \subseteq Dev /\ \A e \in Dev : e \notin Involved => e \notin link'
  BY <1>1, Parts DEF InvolvedInv
<1> QED BY <1>1, <1>3, <1>4, <1>5, <1>6, RestStep

\* user_passkey_notify_callback keeps the invariant.
LEMMA PasskeyNotifyStep ==
  ASSUME IInv, NEW d \in Dev, PasskeyNotify(d)
  PROVE  IInv'
<1>1. /\ Pairs(d) /\ NewAuth(d) /\ authr' = [authr EXCEPT ![d] = [type |-> "notify", agent |-> AgentOf(d)]]
      /\ agents' = AgentRef(agents, AgentOf(d))
      /\ UNCHANGED <<ops, listed, defaults, bonding, bagent, iter, retry, watched, cmds, ending, pairId, timers,
                     pairTimeout, pinAsked, link, paired, bonded, ncall, answers, dropped, browse, resolved>>
  BY DEF PasskeyNotify, bondVars, cmdVars, keyVars, callVars, foundVars
<1>2. d \in Involved
  BY <1>1, Involves
<1>3. AgentInv'
  BY <1>1, Parts, NewAuthStep
<1>4. CallInv'
  BY <1>1, Parts, SameCalls
<1>5. /\ PinInv' /\ iter' \in [Dev -> 0..(MaxPin + 1)] /\ pinAsked' \in BOOLEAN
      /\ \A e \in Dev : bonding[e] = NoCall => iter'[e] = 0
  BY <1>1, SamePins
<1>6. authr'[d].type = "notify" /\ \A e \in Dev : e # d => authr'[e] = authr[e]
  BY <1>1, Parts
<1>7. \A e \in Dev : e \notin Involved => authr'[e] = NoAuth /\ e \notin link'
  BY <1>1, <1>2, <1>6, Parts DEF InvolvedInv
<1>8. LostInv'
  <2> SUFFICES ASSUME "second" \notin ops, NEW e \in Dev, Lost(e)'
               PROVE  FALSE
    BY <1>1 DEF LostInv
  <2>1. e # d
    BY <1>6 DEF Lost
  <2>2. authr'[e] = NoAuth
    BY <1>2, <1>6, <2>1, Parts, AloneFacts
  <2> QED BY <2>2, AuthFacts DEF Lost
<1>9. link' \subseteq Dev
  BY <1>1, Parts
<1> QED BY <1>1, <1>3, <1>4, <1>5, <1>7, <1>8, <1>9, RestStep

\* pin_code_request_callback keeps the invariant.
LEMMA PinCodeRequestStep ==
  ASSUME IInv, NEW d \in Dev, PinCodeRequest(d)
  PROVE  IInv'
<1>1. /\ Pairs(d) /\ pinAsked' = TRUE
      /\ Ask(d) \/ UNCHANGED <<agents, listed, defaults, authr>>
      /\ \/ iter[d] > 1 /\ iter' = [iter EXCEPT ![d] = iter[d] - 1]
         \/ iter' = [iter EXCEPT ![d] = 0]
      /\ UNCHANGED <<ops, bonding, bagent, retry, watched, cmds, ending, pairId, timers, pairTimeout,
                     link, paired, bonded, ncall, answers, dropped, browse, resolved>>
  BY DEF PinCodeRequest, agentVars, cmdVars, keyVars, callVars, foundVars
<1>2. d \in Involved
  BY <1>1, Involves
<1>3. AgentInv' /\ LostInv' /\ \A e \in Dev : e \notin Involved => authr'[e] = NoAuth
  <2>1. CASE Ask(d)
    BY <1>1, <1>2, <2>1, AskStep
  <2>2. CASE UNCHANGED <<agents, listed, defaults, authr>>
    <3>1. AgentInv'
      BY <1>1, <2>2, Parts, SameAgents
    <3>2. LostInv'
      BY <1>1, <2>2, Parts DEF LostInv, Lost
    <3> QED BY <2>2, <3>1, <3>2, Parts DEF InvolvedInv
  <2> QED BY <1>1, <2>1, <2>2
<1>4. CallInv'
  BY <1>1, Parts, SameCalls
<1>5. /\ iter \in [Dev -> 0..(MaxPin + 1)] /\ iter[d] \in 0..(MaxPin + 1) /\ MaxPin \in Nat
      /\ iter[d] \in Nat /\ (iter[d] > 1 => iter[d] - 1 \in 0..(MaxPin + 1)) /\ 0 \in 0..(MaxPin + 1)
  BY Parts, Bounds
<1>6. /\ iter' \in [Dev -> 0..(MaxPin + 1)] /\ \A e \in Dev : e # d => iter'[e] = iter[e]
      /\ iter[d] <= 1 => iter'[d] = 0
  BY <1>1, <1>5
<1>7. \A e \in Dev : bonding[e] = NoCall => iter'[e] = 0
  <2>1. \A e \in Dev : bonding[e] = NoCall => iter[e] = 0
    BY Parts DEF BondInv
  <2> QED BY <1>6, <2>1
<1>8. PinInv'
  <2>0. "pins" \notin ops => \A e \in Dev : iter[e] <= 1
    BY Parts DEF PinInv
  <2>1. "pins" \notin ops => \A e \in Dev : iter'[e] <= 1
    BY <1>6, <2>0
  <2>2. NoPins => retry' = {}
    BY <1>1, Parts DEF PinInv
  <2>3. NoPins => (cmds' # <<>> => iter'[Head(cmds')] = 0)
    <3> SUFFICES ASSUME NoPins, cmds # <<>> PROVE iter'[Head(cmds)] = 0
      BY <1>1
    <3>1. "pins" \notin ops /\ d = Head(cmds)
      BY <1>1, InvolvedFacts DEF Pairs
    <3>2. iter[d] <= 1
      BY <3>1, Parts DEF PinInv
    <3> QED BY <1>6, <3>1, <3>2
  <2> QED BY <1>1, <2>1, <2>2, <2>3, InvolvedFacts DEF PinInv
<1>9. link' \subseteq Dev /\ pinAsked' \in BOOLEAN /\ \A e \in Dev : e \notin Involved => e \notin link'
  BY <1>1, Parts DEF InvolvedInv
<1> QED BY <1>1, <1>3, <1>4, <1>6, <1>7, <1>8, <1>9, RestStep

\* device_add_connection keeps the invariant.
LEMMA ConnectedStep ==
  ASSUME IInv, NEW d \in Dev, Connected(d)
  PROVE  IInv'
<1>1. /\ d \in Involved /\ link' = link \cup {d}
      /\ UNCHANGED <<ops, agents, listed, defaults, bonding, bagent, iter, retry, watched, authr, cmds, ending, pairId,
                     timers, pairTimeout, pinAsked, paired, bonded, ncall, answers, dropped, browse, resolved>>
  BY DEF Connected, agentVars, bondVars, cmdVars, keyVars, callVars, foundVars
<1>2. AgentInv' /\ CallInv'
  BY <1>1, Parts, SameAgents, SameCalls
<1>3. LostInv'
  BY <1>1, Parts DEF LostInv, Lost
<1>4. /\ PinInv' /\ iter' \in [Dev -> 0..(MaxPin + 1)] /\ pinAsked' \in BOOLEAN
      /\ \A e \in Dev : bonding[e] = NoCall => iter'[e] = 0
  BY <1>1, SamePins
<1>5. link' \subseteq Dev /\ \A e \in Dev : e \notin Involved => authr'[e] = NoAuth /\ e \notin link'
  BY <1>1, Parts DEF InvolvedInv
<1> QED BY <1>1, <1>2, <1>3, <1>4, <1>5, RestStep

\* What the agents' programs do keeps the invariant.
LEMMA AgentStepStep ==
  ASSUME IInv, NEW c \in Client, AgentStep(c)
  PROVE  IInv'
<1>1. /\ RegisterAgent(c) \/ RequestDefault(c) \/ AgentDisconnect(c)
      /\ UNCHANGED <<ops, bonding, bagent, iter, retry, watched, authr, cmds, ending, pairId,
                     timers, pairTimeout, pinAsked, link, paired, bonded, ncall, answers, dropped, browse, resolved>>
  BY DEF AgentStep, bondVars, cmdVars, keyVars, callVars, foundVars
<1>2. AgentInv' /\ Undisturbed
  BY <1>1, Parts, RegisterAgentStep, RequestDefaultStep, AgentDisconnectStep
<1>3. CallInv'
  BY <1>1, Parts, SameCalls
<1>4. LostInv'
  <2> SUFFICES ASSUME "second" \notin ops, NEW d \in Dev, Lost(d)'
               PROVE  pairId /\ bonding[d] = NoCall
    BY <1>1 DEF LostInv
  <2>1. authr[d].type = "ask" /\ authr[d].agent # NoAgent /\ agents'[authr[d].agent].request # d
    BY <1>1 DEF Lost
  <2>2. authr[d].agent \in AgentId
    BY <2>1, Parts, AuthFacts
  <2>3. Lost(d)
    BY <1>2, <2>1, <2>2 DEF Undisturbed, Lost
  <2> QED BY <2>3, Parts DEF LostInv
<1>5. /\ PinInv' /\ iter' \in [Dev -> 0..(MaxPin + 1)] /\ pinAsked' \in BOOLEAN
      /\ \A e \in Dev : bonding[e] = NoCall => iter'[e] = 0
  BY <1>1, SamePins
<1>6. link' \subseteq Dev /\ \A e \in Dev : e \notin Involved => authr'[e] = NoAuth /\ e \notin link'
  BY <1>1, Parts DEF InvolvedInv
<1> QED BY <1>1, <1>2, <1>3, <1>4, <1>5, <1>6, RestStep

-----------------------------------------------------------------------------
(* A new attempt                                                            *)

\* adapter_bonding_attempt, of a device that is paired alone when that matters.
LEMMA AttemptStep ==
  ASSUME IInv, NEW d \in Dev, d \in Involved, AdapterBondingAttempt(d), ops' = ops,
         RetriesAlone => cmds = <<>>
  PROVE  /\ CommandInv' /\ cmds' \in Seq(Dev) /\ Commanded' = Commanded \cup {d}
         /\ pairId' = TRUE /\ pinAsked' = FALSE /\ ending' = ending
         /\ timers' \subseteq Dev /\ pairTimeout' \in 0..NDev
<1>1. /\ cmds' = Append(cmds, d) /\ pairId' = TRUE /\ timers' = timers \cup {d} /\ pairTimeout' = d
      /\ pinAsked' = FALSE /\ ending' = ending
  BY DEF AdapterBondingAttempt
<1>2. /\ cmds' \in Seq(Dev) /\ cmds' # <<>> /\ Commanded' = Commanded \cup {d}
      /\ cmds = <<>> => Len(cmds') = 1 /\ Head(cmds') = d
  BY <1>1, Parts, AppendCommand
<1>3. CommandInv'
  <2> SUFFICES ASSUME RetriesAlone
               PROVE  Len(cmds') <= 1 /\ timers' = {d} /\ Head(cmds') = d
    BY <1>1, <1>2, InvolvedFacts DEF CommandInv
  <2>1. timers \subseteq Commanded /\ Commanded = {}
    BY Parts, CommandFacts DEF CommandInv
  <2> QED BY <1>1, <1>2, <2>1
<1> QED BY <1>1, <1>2, <1>3, Parts, Bounds

\* device_bonding_retry keeps the invariant.
LEMMA DeviceBondingRetryStep ==
  ASSUME IInv, NEW d \in Dev, DeviceBondingRetry(d)
  PROVE  IInv'
<1>1. /\ d \in retry /\ Settled(d) /\ retry' = retry \ {d} /\ AdapterBondingAttempt(d)
      /\ UNCHANGED <<ops, agents, listed, defaults, bonding, bagent, iter, watched, authr, link, paired, bonded,
                     ncall, answers, dropped, browse, resolved>>
  BY DEF DeviceBondingRetry, agentVars, keyVars, callVars, foundVars
<1>2. bonding[d] # NoCall /\ d \in Involved
  BY <1>1, Parts, Involves DEF BondInv
<1>3. ~NoPins
  BY <1>1, Parts DEF PinInv
<1>4. RetriesAlone => cmds = <<>>
  <2> SUFFICES ASSUME RetriesAlone, cmds # <<>> PROVE FALSE
    OBVIOUS
  <2>1. "second" \notin ops
    BY <1>3, InvolvedFacts
  <2>2. Head(cmds) \in Commanded /\ Head(cmds) \in Dev /\ d \notin Commanded
    BY <1>1, Parts, CommandFacts
  <2>3. Head(cmds) \in Involved
    BY <2>2, Involves
  <2> QED BY <1>2, <2>1, <2>2, <2>3, InvolvedFacts
<1>5. /\ CommandInv' /\ cmds' \in Seq(Dev) /\ Commanded' = Commanded \cup {d}
      /\ pairId' = TRUE /\ pinAsked' = FALSE /\ ending' = ending
      /\ timers' \subseteq Dev /\ pairTimeout' \in 0..NDev
  BY <1>1, <1>2, <1>4, AttemptStep
<1>6. AgentInv' /\ CallInv'
  BY <1>1, Parts, SameAgents, SameCalls
<1>7. StateTypes'
  BY <1>1, <1>5, Parts DEF StateTypes
<1>8. BondInv'
  BY <1>1, Parts DEF BondInv
<1>9. InvolvedInv' /\ AwaitInv'
  BY <1>1, <1>2, <1>5, Parts, InvolvedFacts DEF InvolvedInv, AwaitInv
<1>10. PinInv'
  BY <1>1, <1>3, Parts, InvolvedFacts DEF PinInv
<1>11. LostInv'
  BY <1>1, <1>5, Parts DEF LostInv, Lost
<1> QED BY <1>5, <1>6, <1>7, <1>8, <1>9, <1>10, <1>11 DEF IInv

\* pair_device keeps the invariant.
LEMMA PairStep ==
  ASSUME IInv, NEW c \in Client, NEW d \in Dev, Pair(c, d)
  PROVE  IInv'
<1> DEFINE a == AgentGet(c)
<1>1. /\ d \in Involved /\ ncall < MaxCall /\ ncall' = Me
      /\ UNCHANGED <<ops, listed, defaults, authr, link, paired, bonded, dropped, browse, resolved>>
  BY DEF Pair, keyVars, foundVars
<1>a. a \in AgentId \cup {NoAgent}
  BY Parts, GetFacts
<1>2. CASE /\ Answer({Me})
           /\ UNCHANGED <<agents, bonding, bagent, iter, retry, watched, cmds, ending, pairId, timers, pairTimeout, pinAsked>>
  <2>1. AgentInv' /\ CallInv'
    BY <1>1, <1>2, Parts, SameAgents, NewCallStep
  <2> QED BY <1>1, <1>2, <2>1, Parts, QuietStep
<1>3. CASE /\ bonding[d] = NoCall /\ pairId /\ Answer({Me})
           /\ agents' = (IF a = NoAgent THEN agents ELSE AgentCancel(agents, a))
           /\ UNCHANGED <<bonding, bagent, iter, retry, watched, cmds, ending, pairId, timers, pairTimeout, pinAsked>>
  <2>1. AgentInv'
    <3>1. CASE a = NoAgent
      BY <1>1, <1>3, <3>1, Parts, SameAgents
    <3>2. CASE a # NoAgent
      BY <1>1, <1>3, <1>a, <3>2, Parts, CancelStep
    <3> QED BY <3>1, <3>2
  <2>2. CallInv'
    BY <1>1, <1>3, Parts, NewCallStep
  <2>3. LostInv'
    <3> SUFFICES ASSUME "second" \notin ops, NEW e \in Dev, Lost(e)'
                 PROVE  pairId /\ bonding[e] = NoCall
      BY <1>1, <1>3 DEF LostInv
    <3>1. e = d
      BY <1>1, Parts, AloneFacts, AuthFacts DEF Lost
    <3> QED BY <1>3, <3>1
  <2>4. /\ PinInv' /\ iter' \in [Dev -> 0..(MaxPin + 1)] /\ pinAsked' \in BOOLEAN
        /\ \A e \in Dev : bonding[e] = NoCall => iter'[e] = 0
    BY <1>1, <1>3, SamePins
  <2>5. link' \subseteq Dev /\ \A e \in Dev : e \notin Involved => authr'[e] = NoAuth /\ e \notin link'
    BY <1>1, Parts DEF InvolvedInv
  <2> QED BY <1>1, <1>3, <2>1, <2>2, <2>3, <2>4, <2>5, RestStep
<1>4. CASE /\ bonding[d] = NoCall /\ ~pairId /\ bonding' = [bonding EXCEPT ![d] = Me]
           /\ bagent' = [bagent EXCEPT ![d] = a] /\ watched' = watched \cup {d}
           /\ iter' = [iter EXCEPT ![d] = IF "pins" \in ops THEN MaxPin + 1 ELSE 1]
           /\ agents' = (IF a = NoAgent THEN agents ELSE AgentRef(agents, a))
           /\ AdapterBondingAttempt(d) /\ UNCHANGED <<retry, answers>>
  <2>1. AgentInv' /\ \A b \in AgentId : agents'[b].request = agents[b].request
    BY <1>1, <1>4, <1>a, Parts, TakeStep
  <2>2. CallInv'
    BY <1>1, <1>4, Parts, NewCallStep
  <2>3. RetriesAlone => cmds = <<>>
    BY <1>4, Parts DEF CommandInv
  <2>4. /\ CommandInv' /\ cmds' \in Seq(Dev) /\ Commanded' = Commanded \cup {d}
        /\ pairId' = TRUE /\ pinAsked' = FALSE /\ ending' = ending
        /\ timers' \subseteq Dev /\ pairTimeout' \in 0..NDev
    BY <1>1, <1>4, <2>3, AttemptStep
  <2>5. MaxPin + 1 \in 0..(MaxPin + 1) /\ 1 \in 0..(MaxPin + 1)
    BY Bounds
  <2>6. /\ iter' \in [Dev -> 0..(MaxPin + 1)] /\ \A e \in Dev : e # d => iter'[e] = iter[e]
        /\ "pins" \notin ops => iter'[d] = 1
    BY <1>4, <2>5, Parts
  <2>7. StateTypes'
    BY <1>1, <1>4, <2>4, <2>6, Parts DEF StateTypes
  <2>8. bonding'[d] # NoCall /\ \A e \in Dev : e # d => bonding'[e] = bonding[e] /\ bagent'[e] = bagent[e]
    <3>1. Me # NoCall
      BY <1>1, Parts, Bounds DEF Me, CallInv, CallTypes
    <3> QED BY <1>4, <3>1, Parts
  <2>9. BondInv'
    BY <1>4, <2>6, <2>8, Parts DEF BondInv
  <2>10. InvolvedInv'
    BY <1>1, <2>4, <2>8, Parts, InvolvedFacts DEF InvolvedInv
  <2>11. AwaitInv'
    BY <1>1, <1>4, <2>4, <2>8, Parts DEF AwaitInv
  <2>12. PinInv'
    <3>0. "pins" \notin ops => \A e \in Dev : iter[e] <= 1
      BY Parts DEF PinInv
    <3>1. "pins" \notin ops => \A e \in Dev : iter'[e] <= 1
      BY <2>6, <3>0
    <3>2. NoPins => retry' = {}
      BY <1>4, Parts DEF PinInv
    <3> QED BY <1>1, <2>4, <3>1, <3>2, InvolvedFacts DEF PinInv
  <2>13. LostInv'
    <3> SUFFICES ASSUME "second" \notin ops, NEW e \in Dev, Lost(e)'
                 PROVE  FALSE
      BY <1>1 DEF LostInv
    <3>1. authr[e].type = "ask" /\ authr[e].agent # NoAgent /\ agents'[authr[e].agent].request # e
      BY <1>1 DEF Lost
    <3>2. authr[e].agent \in AgentId
      BY <3>1, Parts, AuthFacts
    <3>3. Lost(e)
      BY <2>1, <3>1, <3>2 DEF Lost
    <3> QED BY <1>4, <3>3, Parts DEF LostInv
  <2> QED BY <2>1, <2>2, <2>4, <2>7, <2>9, <2>10, <2>11, <2>12, <2>13 DEF IInv
<1> HIDE DEF a
<1>5. \/ /\ Answer({Me})
         /\ UNCHANGED <<agents, bonding, bagent, iter, retry, watched, cmds, ending, pairId, timers, pairTimeout, pinAsked>>
      \/ /\ bonding[d] = NoCall /\ pairId /\ Answer({Me})
         /\ agents' = (IF a = NoAgent THEN agents ELSE AgentCancel(agents, a))
         /\ UNCHANGED <<bonding, bagent, iter, retry, watched, cmds, ending, pairId, timers, pairTimeout, pinAsked>>
      \/ /\ bonding[d] = NoCall /\ ~pairId /\ bonding' = [bonding EXCEPT ![d] = Me]
         /\ bagent' = [bagent EXCEPT ![d] = a] /\ watched' = watched \cup {d}
         /\ iter' = [iter EXCEPT ![d] = IF "pins" \in ops THEN MaxPin + 1 ELSE 1]
         /\ agents' = (IF a = NoAgent THEN agents ELSE AgentRef(agents, a))
         /\ AdapterBondingAttempt(d) /\ UNCHANGED <<retry, answers>>
  BY DEF Pair, bondVars, cmdVars, a
<1> QED BY <1>2, <1>3, <1>4, <1>5

-----------------------------------------------------------------------------
(* The inductive invariant                                                  *)

\* An agent nobody has is held by nobody.
LEMMA NoneHolding ==
  ASSUME NEW f, NEW a, \A e \in Dev : f[e] # a
  PROVE  Holding(f, a) = 0
<1>1. {e \in Dev : f[e] = a} = {}
  OBVIOUS
<1> QED BY <1>1, FS_EmptySet DEF Holding

\* At first there are no agents, calls, commands and questions.
LEMMA InitInv == Init => IInv
<1> SUFFICES ASSUME Init PROVE IInv
  OBVIOUS
<1>1. /\ ops \in Uses /\ agents = [a \in AgentId |-> Freed] /\ listed = [c \in Client |-> NoAgent] /\ defaults = <<>>
      /\ bonding = [d \in Dev |-> NoCall] /\ bagent = [d \in Dev |-> NoAgent]
      /\ iter = [d \in Dev |-> 0] /\ retry = {} /\ watched = {} /\ authr = [d \in Dev |-> NoAuth]
      /\ cmds = <<>> /\ ending = FALSE /\ pairId = FALSE /\ timers = {} /\ pairTimeout = NoDev
      /\ pinAsked = FALSE /\ link = {} /\ paired = {} /\ bonded = {} /\ resolved \subseteq Dev
      /\ browse = [d \in Dev |-> NoBrowse]
      /\ ncall = 0 /\ answers = [i \in CallId |-> 0] /\ dropped = {}
  BY DEF Init, AgentInit
<1>2. AgentInv
  <2>1. \A a \in AgentId : agents[a] \in AgentRec /\ agents[a].ref = 0 /\ agents[a].request = NoRequest /\ a # NoAgent
    BY <1>1, Bounds DEF Freed, AgentRec
  <2>2. agents \in Table
    BY <1>1, <2>1 DEF Table
  <2>3. \A a \in AgentId : ListHolds(a) = 0 /\ BondHolds(a) = 0 /\ AuthHolds(a) = 0
    <3> TAKE a \in AgentId
    <3>1. ListHolds(a) = 0
      BY <1>1, <2>1 DEF ListHolds
    <3>2. BondHolds(a) = 0
      BY <1>1, <2>1, NoneHolding DEF BondHolds
    <3>3. AuthHolds(a) = 0
      <4> DEFINE f == [e \in Dev |-> authr[e].agent]
      <4>1. \A e \in Dev : f[e] # a
        BY <1>1, <2>1, AuthFacts
      <4> HIDE DEF f
      <4>2. Holding(f, a) = 0
        BY <4>1, NoneHolding
      <4> QED BY <4>2 DEF AuthHolds, f
    <3> QED BY <3>1, <3>2, <3>3
  <2>4. CountInv
    BY <2>1, <2>3 DEF CountInv
  <2>5. ListInv /\ DefaultsInv /\ AskInv
    BY <1>1, <2>1 DEF ListInv, DefaultsInv, AskInv
  <2>6. authr \in [Dev -> AuthRec] /\ \A d \in Dev : authr[d].agent = NoAgent
    BY <1>1, AuthFacts
  <2> QED BY <1>1, <2>2, <2>4, <2>5, <2>6 DEF AgentInv
<1>3. CallInv
  <2>1. CallTypes
    BY <1>1, Bounds DEF CallTypes
  <2>2. \A i \in CallId : ~Pending(i) /\ ~(i <= ncall)
    BY <1>1, Bounds DEF Pending, CallId
  <2>3. CallPlaces
    BY <1>1, <2>2, Bounds DEF CallPlaces
  <2>4. CallAnswers
    BY <1>1, <2>2 DEF CallAnswers
  <2> QED BY <2>1, <2>3, <2>4 DEF CallInv
<1>4. StateTypes
  <2>0. ending \in BOOLEAN /\ pairId \in BOOLEAN /\ pinAsked \in BOOLEAN
    BY <1>1, Zenon
  <2>1. cmds \in Seq(Dev)
    BY <1>1
  <2>2. iter \in [Dev -> 0..(MaxPin + 1)] /\ pairTimeout \in 0..NDev
    BY <1>1, Bounds DEF NoDev
  <2>3. retry \subseteq Dev /\ watched \subseteq Dev /\ timers \subseteq Dev /\ link \subseteq Dev
    BY <1>1
  <2>4. paired \subseteq Dev /\ bonded \subseteq Dev /\ resolved \subseteq Dev
    BY <1>1
  <2> QED BY <1>1, <2>0, <2>1, <2>2, <2>3, <2>4 DEF StateTypes
<1>5. Commanded = {} /\ Len(cmds) = 0
  BY <1>1, <1>4, CommandFacts DEF StateTypes
<1>6. BondInv /\ AwaitInv
  BY <1>1 DEF BondInv, AwaitInv
<1>7. InvolvedInv
  BY <1>1, <1>5 DEF InvolvedInv
<1>8. CommandInv
  BY <1>1, <1>5 DEF CommandInv
<1>9. PinInv
  BY <1>1 DEF PinInv
<1>10. LostInv
  BY <1>1, AuthFacts DEF LostInv, Lost
<1> QED BY <1>2, <1>3, <1>4, <1>6, <1>7, <1>8, <1>9, <1>10 DEF IInv

\* A step that changes nothing but whether the daemon crashed.
LEMMA StutterStep ==
  ASSUME IInv,
         UNCHANGED <<ops, agentVars, bondVars, authr, cmdVars, pinAsked, link, keyVars, callVars, foundVars>>
  PROVE  IInv'
<1>1. UNCHANGED <<ops, agents, listed, defaults, bonding, bagent, iter, retry, watched, authr, cmds, ending, pairId,
                  timers, pairTimeout, pinAsked, link, paired, bonded, ncall, answers, dropped, browse, resolved>>
  BY DEF agentVars, bondVars, cmdVars, keyVars, callVars, foundVars
<1>2. AgentInv' /\ CallInv'
  BY <1>1, Parts, SameAgents, SameCalls
<1>3. LostInv'
  BY <1>1, Parts DEF LostInv, Lost
<1>4. /\ PinInv' /\ iter' \in [Dev -> 0..(MaxPin + 1)] /\ pinAsked' \in BOOLEAN
      /\ \A d \in Dev : bonding[d] = NoCall => iter'[d] = 0
  BY <1>1, SamePins
<1>5. link' \subseteq Dev /\ \A d \in Dev : d \notin Involved => authr'[d] = NoAuth /\ d \notin link'
  BY <1>1, Parts DEF InvolvedInv
<1> QED BY <1>1, <1>2, <1>3, <1>4, <1>5, RestStep

\* Every step keeps the invariant.
LEMMA Inductive == IInv /\ [Next]_vars => IInv'
<1> SUFFICES ASSUME IInv, [Next]_vars PROVE IInv'
  OBVIOUS
<1>1. CASE UNCHANGED vars
  BY <1>1, StutterStep DEF vars
<1>2. ASSUME NEW c \in Client, AgentStep(c) PROVE IInv'
  BY <1>2, AgentStepStep
<1>3. ASSUME NEW c \in Client, NEW d \in Dev, Pair(c, d) PROVE IInv'
  BY <1>3, PairStep
<1>4. ASSUME NEW a \in AgentId, AgentReply(a) \/ StaleReply(a) PROVE IInv'
  BY <1>4, AgentReplyKeeps, StutterStep DEF StaleReply
<1>5. CASE PairDeviceComplete
  BY <1>5, PairDeviceCompleteStep
<1>6. ASSUME NEW d \in Dev, CancelPairing(d) \/ Disconnect(d) \/ CreateBondReqExit(d) \/ DeviceRemove(d)
      PROVE  IInv'
  BY <1>6, CancelPairingStep, DisconnectStep, CreateBondReqExitStep, DeviceRemoveStep
<1>7. ASSUME NEW d \in Dev, PairDeviceTimeout(d) \/ DeviceBondingRetry(d) PROVE IInv'
  BY <1>7, PairDeviceTimeoutStep, DeviceBondingRetryStep
<1>8. ASSUME NEW d \in Dev, UserRequest(d) \/ PinCodeRequest(d) \/ PasskeyNotify(d) PROVE IInv'
  BY <1>8, UserRequestStep, PinCodeRequestStep, PasskeyNotifyStep
<1>9. ASSUME NEW d \in Dev, NewLinkKey(d) \/ AuthFailed(d) \/ ConnectFailed(d) PROVE IInv'
  BY <1>9, NewLinkKeyStep, AuthFailedStep, ConnectFailedStep
<1>10. ASSUME NEW d \in Dev, Connected(d) \/ Disconnected(d) \/ BrowseStart(d) \/ BrowseComplete(d) PROVE IInv'
  BY <1>10, ConnectedStep, DisconnectedStep, BrowseStartStep, BrowseCompleteStep
<1> QED BY <1>1, <1>2, <1>3, <1>4, <1>5, <1>6, <1>7, <1>8, <1>9, <1>10 DEF Next, Step

-----------------------------------------------------------------------------
(* The callbacks that crash the daemon                                      *)

\* Only after a removal.
CrashInv == crashed \in BOOLEAN /\ (crashed => "remove" \in ops)

SafeInv == IInv /\ CrashInv

\* An agent that is asked has two holders while it is in the list: nobody who
\* takes it out of the list drops the last reference to it.
LEMMA DisconnectQuiet ==
  ASSUME IInv, "remove" \notin ops, NEW c \in Client, listed[c] # NoAgent
  PROVE  ~UnrefAnswers(agents, listed[c])
<1> DEFINE a == listed[c]
<1>1. AgentInv /\ AskInv /\ a \in AgentId /\ agents \in Table
  BY Parts DEF AgentInv
<1> SUFFICES ASSUME agents[a].ref = 1, agents[a].request # NoRequest PROVE FALSE
  BY DEF UnrefAnswers
<1>2. agents[a].request \in Dev
  BY <1>1, Bounds, RecordFacts DEF Table
<1>3. authr[agents[a].request].agent = a
  <2>1. authr[agents[a].request] = [type |-> "ask", agent |-> a]
    BY <1>1 DEF AskInv
  <2> QED BY ONLY <2>1
<1>4. /\ ListHolds(a) = 1 /\ AuthHolds(a) >= 1 /\ AuthHolds(a) \in Nat /\ BondHolds(a) \in Nat
      /\ agents[a].ref >= ListHolds(a) + BondHolds(a) + AuthHolds(a)
  <2> HIDE DEF a
  <2>1. \E e \in Client : listed[e] = a
    BY DEF a
  <2> QED BY <1>1, <1>2, <1>3, <2>1, Held
<1> HIDE DEF a
<1> QED BY <1>4

\* The callback of a question does not crash the daemon unless devices are
\* removed.
LEMMA CrashStep == SafeInv /\ [Next]_vars => CrashInv'
<1> SUFFICES ASSUME SafeInv, [Next]_vars PROVE CrashInv'
  OBVIOUS
<1>0. IInv /\ CrashInv
  BY DEF SafeInv
<1>1. CASE UNCHANGED <<ops, crashed>>
  BY <1>0, <1>1 DEF CrashInv
<1>2. CASE UNCHANGED vars
  BY <1>1, <1>2 DEF vars
<1>3. ASSUME NEW c \in Client, AgentStep(c) PROVE CrashInv'
  <2>1. UNCHANGED ops
    BY <1>3 DEF AgentStep
  <2>2. CASE UNCHANGED crashed
    BY <1>1, <2>1, <2>2
  <2>3. CASE listed[c] # NoAgent /\ crashed' = UnrefAnswers(agents, listed[c])
    <3>1. "remove" \notin ops => ~UnrefAnswers(agents, listed[c])
      BY <1>0, <2>3, DisconnectQuiet
    <3>2. crashed' \in BOOLEAN
      BY <2>3 DEF UnrefAnswers
    <3> QED BY <2>1, <2>3, <3>1, <3>2 DEF CrashInv
  <2> QED BY <1>3, <2>2, <2>3 DEF AgentStep, AgentDisconnect
<1>4. ASSUME NEW a \in AgentId, StaleReply(a) PROVE CrashInv'
  <2>1. agents[a].request # NoRequest /\ AskInv
    BY <1>0, <1>4, Parts, Bounds DEF StaleReply, AgentInv
  <2>2. "remove" \in ops
    BY <1>4, <2>1 DEF StaleReply, AskInv
  <2> QED BY <1>4, <2>2 DEF StaleReply, CrashInv
<1>5. ASSUME NEW d \in Dev, DeviceRemove(d) PROVE CrashInv'
  <2>1. "remove" \in ops /\ UNCHANGED ops
    BY <1>5 DEF DeviceRemove
  <2>2. crashed' \in BOOLEAN
    BY <1>0, <1>5 DEF DeviceRemove, DeviceFree, CrashInv, UnrefAnswers
  <2> QED BY <2>1, <2>2 DEF CrashInv
<1>6. ASSUME NEW c \in Client, NEW d \in Dev, Pair(c, d) PROVE CrashInv'
  BY <1>1, <1>6 DEF Pair
<1>7. ASSUME NEW a \in AgentId, AgentReply(a) PROVE CrashInv'
  BY <1>1, <1>7 DEF AgentReply
<1>8. CASE PairDeviceComplete
  BY <1>1, <1>8 DEF PairDeviceComplete
<1>9. ASSUME NEW d \in Dev,
             \/ CancelPairing(d) \/ Disconnect(d) \/ CreateBondReqExit(d)
             \/ PairDeviceTimeout(d) \/ DeviceBondingRetry(d)
             \/ UserRequest(d) \/ PinCodeRequest(d) \/ PasskeyNotify(d)
      PROVE  CrashInv'
  BY <1>1, <1>9 DEF CancelPairing, Disconnect, CreateBondReqExit, PairDeviceTimeout, DeviceBondingRetry,
                    UserRequest, PinCodeRequest, PasskeyNotify
<1>10. ASSUME NEW d \in Dev,
             \/ NewLinkKey(d) \/ AuthFailed(d) \/ ConnectFailed(d)
             \/ Connected(d) \/ Disconnected(d) \/ BrowseStart(d) \/ BrowseComplete(d)
      PROVE  CrashInv'
  BY <1>1, <1>10 DEF NewLinkKey, AuthFailed, ConnectFailed, Connected, Disconnected, BrowseStart, BrowseComplete
<1> QED BY <1>2, <1>3, <1>4, <1>5, <1>6, <1>7, <1>8, <1>9, <1>10 DEF Next, Step

\* The two together.
LEMMA SafeInductive ==
  /\ Init => SafeInv
  /\ SafeInv /\ [Next]_vars => SafeInv'
<1>1. Init => SafeInv
  BY InitInv DEF Init, SafeInv, CrashInv
<1>2. SafeInv /\ [Next]_vars => SafeInv'
  BY Inductive, CrashStep DEF SafeInv
<1> QED BY <1>1, <1>2

-----------------------------------------------------------------------------
(* What follows from it                                                     *)

\* Those who hold an agent, added up.
LEMMA HoldersCounted ==
  ASSUME AgentInv, NEW a \in AgentId
  PROVE  Holders(a) = ListHolds(a) + BondHolds(a) + AuthHolds(a)
<1> DEFINE L == {c \in Client : listed[c] = a}
<1>0. a # NoAgent
  BY Bounds
<1>1. Cardinality(L) = ListHolds(a)
  <2>1. CASE \E c \in Client : listed[c] = a
    <3>1. PICK c \in Client : listed[c] = a
      BY <2>1
    <3>2. L = {c}
      BY <1>0, <3>1 DEF AgentInv, ListInv
    <3>3. Cardinality(L) = 1
      BY <3>2, FS_Singleton
    <3> QED BY <2>1, <3>3 DEF ListHolds
  <2>2. CASE ~\E c \in Client : listed[c] = a
    <3>1. L = {}
      BY <2>2
    <3>2. Cardinality(L) = 0
      BY <3>1, FS_EmptySet
    <3> QED BY <2>2, <3>2 DEF ListHolds
  <2> QED BY <2>1, <2>2
<1>2. {d \in Dev : [e \in Dev |-> authr[e].agent][d] = a} = {d \in Dev : authr[d].agent = a}
  OBVIOUS
<1>3. AuthHolds(a) = Cardinality({d \in Dev : authr[d].agent = a})
  BY <1>2 DEF AuthHolds, Holding
<1> QED BY <1>1, <1>3 DEF Holders, BondHolds, Holding

\* The requests, the commands and the lists of agents keep their types, for every
\* number of programs, agents, devices, calls and PINs and in all circumstances.
THEOREM PairingTypeCorrect == Spec => []TypeOK
<1>1. SafeInv => TypeOK
  BY DEF SafeInv, CrashInv, IInv, AgentInv, StateTypes, CallInv, CallTypes, TypeOK, Table, AgentRec, AuthRec
<1> QED BY <1>1, SafeInductive, PTL DEF Spec

\* Until the daemon crashes, no path of pair_device, bonding_request_free,
\* device_cancel_authentication, device_free and the callbacks frees an agent
\* somebody holds.  While no device is removed, agent_unref never finds a question
\* with the agent whose last reference it drops, the callback of a question finds
\* the authentication it was asked for, and the daemon does not crash.
THEOREM CallbacksHaveData == Spec => []CallbackHasData
<1>1. SafeInv => CallbackHasData
  <2> SUFFICES ASSUME IInv, CrashInv PROVE CallbackHasData
    BY DEF SafeInv
  <2>1. \A a \in AgentId : agents[a].ref >= Holders(a)
    BY Parts, HoldersCounted DEF AgentInv, CountInv
  <2>2. AskInv
    BY DEF IInv, AgentInv
  <2> QED BY <2>1, <2>2 DEF CallbackHasData, AskInv, CrashInv
<1> QED BY <1>1, SafeInductive, PTL DEF Spec

\* A Pair of a lone device that waits for its agent has its question with the
\* agent, although pair_device cancels what the agent is asked when it refuses a
\* call, and although the device may pair of its own accord.
THEOREM QuestionsAreOut == Spec => []QuestionIsOut
<1>1. IInv => QuestionIsOut
  BY DEF IInv, LostInv, Lost, QuestionIsOut, AwaitsAgent
<1> QED BY <1>1, InitInv, Inductive, PTL DEF Spec

\* A Pair in progress has a command, a retry, or a device that is paired already;
\* and where no retry comes while another device is paired, there is one command,
\* which pair_device_id tells, and its timer runs until the kernel is told.
THEOREM BondingsAwait == Spec => []BondingAwaitsSomething
<1>1. IInv => BondingAwaitsSomething
  BY DEF IInv, AwaitInv, CommandInv, BondingAwaitsSomething
<1> QED BY <1>1, InitInv, Inductive, PTL DEF Spec

\* device_bonding_complete, device_bonding_failed, device_cancel_bonding and
\* browse_request_complete answer every Pair once between them, or not while it
\* is in progress, waits for services or was dropped with them.
THEOREM PairsAnsweredOnce == Spec => []PairAnsweredOnce
<1>1. IInv => PairAnsweredOnce
  <2> SUFFICES ASSUME IInv, NEW i \in 1..ncall
               PROVE  answers[i] = IF i \in {bonding[d] : d \in Dev} \cup {browse[d] : d \in Dev} \cup dropped
                                     THEN 0 ELSE 1
    BY DEF PairAnsweredOnce
  <2>1. i \in CallId /\ i <= ncall
    BY Parts, Bounds DEF CallInv, CallTypes, CallId
  <2>2. answers[i] = IF i <= ncall /\ ~Pending(i) THEN 1 ELSE 0
    BY <2>1, Parts DEF CallInv, CallAnswers
  <2> QED BY <2>1, <2>2 DEF Pending
<1> QED BY <1>1, InitInv, Inductive, PTL DEF Spec
=============================================================================
