------------------------------ MODULE AuthQueue ------------------------------
(***************************************************************************)
(* The queue of service authorizations of an adapter (src/adapter.c): a     *)
(* profile asks whether a device may use it, the head of the queue is asked *)
(* of the default agent, and the answer goes to whoever is at the head when *)
(* it comes.  A pairing uses the same agents; here it is one reference and  *)
(* one question (the whole of it is in Pairing).                           *)
(*                                                                         *)
(* The daemon has one thread; a step is one callback of its main loop.      *)
(***************************************************************************)
EXTENDS AgentManager

CONSTANTS
  Dev,         \* devices
  MaxReq,      \* bound: authorizations asked for in a behaviour
  Uses         \* the sets of operations a behaviour may have besides asking

ASSUME MaxReqAssumption == MaxReq \in Nat
ASSUME UsesAssumption == Uses \subseteq SUBSET {"cancel", "remove", "trust", "bond"}

VARIABLES
  ops,         \* the operations of this behaviour, one of Uses
  auths,       \* adapter->auths
  idle,        \* process_auth_queue is in the main loop
  idleId,      \* adapter->auth_idle_id > 0
  nreq,        \* authorizations asked for so far
  outcome,     \* what the one who asked was told
  devs,        \* the adapter's devices
  trusted,     \* the devices that are trusted
  bond,        \* the agent a pairing holds (bonding->agent)
  bondAsked,   \* the pairing has a question out (device->authr)
  reentered    \* an agent was freed while it was asked, see below

queueVars == <<auths, idle, idleId, nreq, outcome>>
devVars == <<devs, trusted>>
bondVars == <<bond, bondAsked>>
vars == <<ops, agentVars, queueVars, devVars, bondVars, reentered>>

ReqId == 1..MaxReq
\* struct service_auth.  svc: what svc_id waits for, an idle callback or the
\* end of service discovery
Entry == [id : ReqId, dev : Dev, svc : {"no", "idle", "wait"}, agent : AgentId \cup {NoAgent}]
BondRequest == MaxReq + 1

Init ==
  /\ ops \in Uses
  /\ AgentInit
  /\ auths = <<>> /\ idle = FALSE /\ idleId = FALSE /\ nreq = 0
  /\ outcome = [i \in ReqId |-> "none"]
  /\ devs = Dev /\ trusted \in SUBSET Dev
  /\ bond = NoAgent /\ bondAsked = FALSE /\ reentered = FALSE

\* what an entry's callback is told, for the entries in a set of places
Told(I, verdict) ==
  [i \in ReqId |-> IF \E k \in I : auths[k].id = i THEN verdict ELSE outcome[i]]

-----------------------------------------------------------------------------
(***************************************************************************)
(* Asking and cancelling                                                   *)
(***************************************************************************)
\* g_idle_add(process_auth_queue), unless it is thought to be pending
Schedule ==
  /\ idle' = (idle \/ ~idleId)
  /\ idleId' = TRUE

Push(d, s) ==
  /\ nreq < MaxReq /\ d \in devs
  /\ nreq' = nreq + 1
  /\ auths' = Append(auths, [id |-> nreq + 1, dev |-> d, svc |-> s, agent |-> NoAgent])
  /\ outcome' = [outcome EXCEPT ![nreq + 1] = "queued"]

\* btd_request_authorization: the services of the device come first
RequestAuthorization(d) ==
  /\ \E s \in {"idle", "wait"} : Push(d, s)
  /\ UNCHANGED <<idle, idleId>>
  /\ UNCHANGED <<ops, agentVars, devVars, bondVars, reentered>>

\* btd_request_authorization_cable_configured
RequestCableConfigured(d) ==
  /\ Push(d, "no") /\ Schedule
  /\ UNCHANGED <<ops, agentVars, devVars, bondVars, reentered>>

Waiting(k) == k \in DOMAIN auths /\ auths[k].svc # "no"

\* [mutant] the queue is not run again
SvcCompleteSilent(I) ==
  /\ I # {} /\ \A k \in I : Waiting(k)
  /\ auths' = [k \in DOMAIN auths |-> IF k \in I THEN [auths[k] EXCEPT !.svc = "no"] ELSE auths[k]]
  /\ UNCHANGED <<idle, idleId>>

\* svc_complete of the entries at I
SvcComplete(I) ==
  /\ I # {} /\ \A k \in I : Waiting(k)
  /\ auths' = [k \in DOMAIN auths |-> IF k \in I THEN [auths[k] EXCEPT !.svc = "no"] ELSE auths[k]]
  /\ Schedule

\* svc_idle_cb
SvcIdleCb(k) ==
  /\ Waiting(k) /\ auths[k].svc = "idle"
  /\ SvcComplete({k})
  /\ UNCHANGED <<nreq, outcome, ops, agentVars, devVars, bondVars, reentered>>

\* device_svc_resolved
SvcResolved(d) ==
  /\ SvcComplete({k \in DOMAIN auths : auths[k].dev = d /\ auths[k].svc # "no"})
  /\ UNCHANGED <<nreq, outcome, ops, agentVars, devVars, bondVars, reentered>>

\* [mutant] the reference is dropped twice
LetGoTwice(I) ==
  [a \in AgentId |->
     IF \E k \in I : auths[k].agent = a
       THEN AgentUnref(AgentUnref(AgentCancel(agents, a), a), a)[a] ELSE agents[a]]

\* the agents after the entries at I, which are given up, let go of theirs
LetGo(I) ==
  [a \in AgentId |->
     IF \E k \in I : auths[k].agent = a THEN AgentUnref(AgentCancel(agents, a), a)[a]
                                        ELSE agents[a]]

Except(I) == Keep(auths, DOMAIN auths \ I)

\* [mutant] the agent's answer is still awaited
CancelAuthorizationKeeps(k) ==
  /\ "cancel" \in ops /\ k \in DOMAIN auths
  /\ auths' = Except({k})
  /\ outcome' = Told({k}, "cancelled")
  /\ agents' = IF auths[k].agent = NoAgent THEN agents ELSE AgentUnref(agents, auths[k].agent)
  /\ UNCHANGED <<idle, idleId, nreq, listed, defaults, ops, devVars, bondVars, reentered>>

\* btd_cancel_authorization: the callback is not called
CancelAuthorization(k) ==
  /\ "cancel" \in ops /\ k \in DOMAIN auths
  /\ auths' = Except({k})
  /\ outcome' = Told({k}, "cancelled")
  /\ agents' = LetGo({k})
  /\ UNCHANGED <<idle, idleId, nreq, listed, defaults, ops, devVars, bondVars, reentered>>

\* btd_adapter_remove_device and service_auth_cancel
RemoveDevice(d) ==
  /\ "remove" \in ops /\ d \in devs
  /\ devs' = devs \ {d}
  /\ LET I == {k \in DOMAIN auths : auths[k].dev = d} IN
       /\ auths' = Except(I)
       /\ outcome' = Told(I, "no")
       /\ agents' = LetGo(I)
  /\ UNCHANGED <<trusted, idle, idleId, nreq, listed, defaults, ops, bondVars, reentered>>

\* btd_device_set_trusted
SetTrusted(d) ==
  /\ "trust" \in ops /\ d \in devs
  /\ trusted' = IF d \in trusted THEN trusted \ {d} ELSE trusted \cup {d}
  /\ UNCHANGED <<devs, ops, agentVars, queueVars, bondVars, reentered>>

-----------------------------------------------------------------------------
(***************************************************************************)
(* The queue.  process_auth_queue runs through the entries from the head: a *)
(* trusted device is let in, an entry that nobody can be asked about, or    *)
(* whose question cannot be sent, is rejected, and it stops at the first    *)
(* one that waits for its services, is being asked about, or is asked now.  *)
(***************************************************************************)
CanAsk == Default # NoAgent /\ ~Busy(agents, Default)
Waits(e) == e.svc # "no" \/ (e.dev \notin trusted /\ e.agent # NoAgent)
Stops(e) == Waits(e) \/ (e.dev \notin trusted /\ CanAsk)

\* the number of entries that are dealt with: up to one that waits, or one whose
\* question is sent
Passed(n) ==
  /\ \A k \in 1..n : ~Waits(auths[k])
  /\ n # Len(auths) => Stops(auths[n + 1])

\* what those are told
Verdict(k) == IF auths[k].dev \in trusted THEN "yes" ELSE "no"

\* the entry the loop stops at is asked about now
AsksNow(e) == e.svc = "no" /\ e.dev \notin trusted /\ e.agent = NoAgent

\* the agents of the entries that are dealt with; only a trusted one has one
AgentsLeft(n) == {auths[k].agent : k \in 1..n} \ {NoAgent}

ProcessAuthQueue ==
  /\ idle /\ idle' = FALSE /\ idleId' = FALSE
  /\ \E n \in 0..Len(auths) :
     LET left == SubSeq(auths, n + 1, Len(auths))
         free == [a \in AgentId |-> IF a \in AgentsLeft(n) THEN AgentUnref(agents, a)[a] ELSE agents[a]]
     IN /\ Passed(n)
        /\ outcome' = [i \in ReqId |-> IF \E k \in 1..n : auths[k].id = i
                                         THEN Verdict(CHOOSE k \in 1..n : auths[k].id = i)
                                         ELSE outcome[i]]
        /\ reentered' = (\E a \in AgentsLeft(n) : UnrefAnswers(agents, a))
        /\ IF left # <<>> /\ AsksNow(left[1])
             THEN /\ auths' = [left EXCEPT ![1].agent = Default]
                  /\ agents' = AgentAsk(AgentRef(free, Default), Default, left[1].id)
             ELSE auths' = left /\ agents' = free
  /\ UNCHANGED <<nreq, listed, defaults, ops, devVars, bondVars>>

\* the agents after the head, if there is one, is answered and freed
HeadLetGo(A) ==
  IF auths # <<>> /\ auths[1].agent # NoAgent THEN AgentUnref(A, auths[1].agent) ELSE A

\* [mutant] the queue is left alone after an answer
AgentAuthCbStops(verdict) ==
  /\ auths' = IF auths = <<>> THEN auths ELSE Tail(auths)
  /\ outcome' = IF auths = <<>> THEN outcome ELSE Told({1}, verdict)
  /\ UNCHANGED <<idle, idleId>>

\* agent_auth_cb: whoever is at the head gets the answer.  When the queue is
\* empty then, the idle source is removed and auth_idle_id is left as it is.
AgentAuthCb(verdict) ==
  IF auths = <<>> THEN UNCHANGED <<auths, outcome, idle, idleId>>
  ELSE /\ auths' = Tail(auths)
       /\ outcome' = Told({1}, verdict)
       /\ IF Len(auths) = 1 THEN idle' = FALSE /\ UNCHANGED idleId ELSE Schedule

\* simple_agent_reply for AuthorizeService: an answer, an error, the time-out
AuthorizeServiceReply(a) ==
  /\ agents[a].request \in ReqId
  /\ \E verdict \in {"yes", "no"} : AgentAuthCb(verdict)
  /\ agents' = AgentUnref(AgentCancel(HeadLetGo(AgentRef(agents, a)), a), a)
  /\ reentered' = (auths # <<>> /\ auths[1].agent \notin {NoAgent, a}
                     /\ UnrefAnswers(agents, auths[1].agent))
  /\ UNCHANGED <<nreq, listed, defaults, ops, devVars, bondVars>>

\* the agent's program leaves.  If nobody holds the agent any more while it is
\* asked, its callback runs; the model follows none of these.
AgentLeaves(c) ==
  /\ AgentDisconnect(c)
  /\ reentered' = UnrefAnswers(agents, listed[c])
  /\ UNCHANGED <<queueVars, ops, devVars, bondVars>>

-----------------------------------------------------------------------------
(***************************************************************************)
(* A pairing at the same agents                                            *)
(***************************************************************************)
\* pair_device: agent_get and bonding_request_new
BondStart(c) ==
  /\ "bond" \in ops /\ bond = NoAgent /\ AgentGet(c) # NoAgent
  /\ bond' = AgentGet(c) /\ agents' = AgentRef(agents, AgentGet(c))
  /\ UNCHANGED <<bondAsked, queueVars, listed, defaults, ops, devVars, reentered>>

\* new_auth and a request, if the agent is free
BondAsk ==
  /\ bond # NoAgent /\ ~bondAsked /\ ~Busy(agents, bond)
  /\ bondAsked' = TRUE
  /\ agents' = AgentAsk(AgentRef(agents, bond), bond, BondRequest)
  /\ UNCHANGED <<bond, queueVars, listed, defaults, ops, devVars, reentered>>

\* the answer to the pairing: confirm_cb
BondReply ==
  /\ bond # NoAgent /\ agents[bond].request = BondRequest
  /\ bondAsked' = FALSE
  /\ agents' = AgentUnref(AgentCancel(agents, bond), bond)
  /\ UNCHANGED <<bond, queueVars, listed, defaults, ops, devVars, reentered>>

\* device_auth_req_free and bonding_request_free: agent_cancel, whatever the
\* agent is asked
BondEnd ==
  /\ bond # NoAgent
  /\ bond' = NoAgent /\ bondAsked' = FALSE
  /\ agents' = LET A == AgentCancel(agents, bond)
               IN AgentUnref(IF bondAsked THEN AgentUnref(A, bond) ELSE A, bond)
  /\ UNCHANGED <<queueVars, listed, defaults, ops, devVars, reentered>>

Register(c) ==
  /\ RegisterAgent(c) \/ RequestDefault(c)
  /\ UNCHANGED <<queueVars, ops, devVars, bondVars, reentered>>

Next ==
  /\ ~reentered
  /\ \/ \E c \in Client : Register(c) \/ AgentLeaves(c) \/ BondStart(c)
     \/ \E d \in Dev : \/ RequestAuthorization(d) \/ RequestCableConfigured(d)
                       \/ SvcResolved(d) \/ RemoveDevice(d) \/ SetTrusted(d)
     \/ \E k \in ReqId : SvcIdleCb(k) \/ CancelAuthorization(k)
     \/ \E a \in AgentId : AuthorizeServiceReply(a)
     \/ ProcessAuthQueue \/ BondAsk \/ BondReply \/ BondEnd

Spec == Init /\ [][Next]_vars

(***************************************************************************)
(* The main loop runs its idle callbacks, service discovery ends, and a     *)
(* question is answered or times out (REQUEST_TIMEOUT).                    *)
(***************************************************************************)
FairSpec ==
  /\ Spec
  /\ WF_vars(~reentered /\ ProcessAuthQueue)
  /\ \A d \in Dev : WF_vars(~reentered /\ SvcResolved(d))
  /\ \A a \in AgentId : WF_vars(~reentered /\ AuthorizeServiceReply(a))

-----------------------------------------------------------------------------
(***************************************************************************)
(* Properties                                                              *)
(***************************************************************************)
\* The agents, the queue and what its entries hold keep their types.
TypeOK ==
  /\ agents \in [AgentId -> [ref : Nat, request : 0..BondRequest]]
  /\ listed \in [Client -> AgentId \cup {NoAgent}]
  /\ defaults \in Seq(AgentId)
  /\ ops \in Uses /\ auths \in Seq(Entry) /\ idle \in BOOLEAN /\ idleId \in BOOLEAN
  /\ nreq \in 0..MaxReq
  /\ outcome \in [ReqId -> {"none", "queued", "yes", "no", "cancelled"}]
  /\ devs \subseteq Dev /\ trusted \subseteq Dev
  /\ bond \in AgentId \cup {NoAgent} /\ bondAsked \in BOOLEAN /\ reentered \in BOOLEAN

\* Those agent_ref was called for: the list of agents, the entries of the queue
\* that asked it, and the pairing.
Holders(a) ==
  Cardinality({c \in Client : listed[c] = a})
    + Cardinality({k \in DOMAIN auths : auths[k].agent = a})
    + (IF bond = a THEN (IF bondAsked THEN 2 ELSE 1) ELSE 0)

\* The count of an agent is the number of its holders, so no agent is freed
\* under somebody who holds it and none stays when nobody does, up to the step
\* in which agent_unref itself calls an answer's callback, where the model ends;
\* and the default agents are agents of the list, each once: nobody who left is
\* asked, and whoever was the default before becomes it again.
AgentsAccounted ==
  /\ ~reentered => \A a \in AgentId : agents[a].ref = Holders(a)
  /\ \A k \in DOMAIN defaults : \E c \in Client : listed[c] = defaults[k]
  /\ \A j, k \in DOMAIN defaults : defaults[j] = defaults[k] => j = k

AllowsIn(i) ==
  \/ \E k \in DOMAIN auths : auths[k].id = i /\ auths[k].dev \in trusted
  \/ \E a \in AgentId : agents[a].request = i

\* While no device's trust changes, who is let in is trusted or is the one the
\* agent was asked about: no answer goes to somebody else.
AnswerIsForAsked ==
  [][("trust" \notin ops) =>
       \A i \in ReqId : (outcome[i] = "queued" /\ outcome'[i] = "yes") => AllowsIn(i)]_vars

Undisturbed == ops = {}
HeadMoves ==
  \/ idle \/ auths[1].svc # "no"
  \/ \E a \in AgentId : agents[a].request \in ReqId

\* As long as nothing is cancelled, no device's trust changes and no pairing uses
\* the agents, a queue that is not empty is scheduled, or waits for services or
\* for an answer.  (An answer that comes when its request is gone takes the last
\* entry and the idle source with it and leaves auth_idle_id set: later requests
\* are not scheduled.)
QueueAdvances == (Undisturbed /\ ~reentered /\ auths # <<>>) => HeadMoves

\* ... and so every authorization is answered.
RequestsAnswered ==
  \A i \in ReqId : (Undisturbed /\ outcome[i] = "queued") ~> (outcome[i] # "queued" \/ reentered)

(***************************************************************************)
(* Statements of comments and documentation that the code does not keep     *)
(***************************************************************************)
\* agent-api.txt on AuthorizeService: the method "gets called when the service
\* daemon needs to authorize a connection/service request": who is let in is
\* trusted, or is the one the agent was asked about.
LetInIfAsked ==
  [][\A i \in ReqId : (outcome[i] = "queued" /\ outcome'[i] = "yes") => AllowsIn(i)]_vars
=============================================================================
