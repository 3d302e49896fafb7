---------------------------- MODULE AgentManager ----------------------------
(***************************************************************************)
(* The agents of bluetoothd (src/agent.c): programs that answer the user's  *)
(* questions.  A struct agent is counted: the list of agents holds it, and  *)
(* so does everybody who wants to ask it something.  It has room for one    *)
(* request; asking an agent that has one fails with -EBUSY.                *)
(*                                                                         *)
(* The operators below take the agents and give the agents after a call,    *)
(* because one callback of the daemon makes several calls.                 *)
(***************************************************************************)
EXTENDS Integers, Sequences, FiniteSets, Sublists

CONSTANTS
  Client,      \* programs on the bus
  MaxAgent     \* bound: agents that exist at a time

ASSUME MaxAgentAssumption == MaxAgent \in Nat

VARIABLES
  agents,      \* each struct agent: its references and its request; ref 0: freed
  listed,      \* agent_list: the agent of each program, NoAgent if none
  defaults     \* default_agents, the newest first

agentVars == <<agents, listed, defaults>>

AgentId == 1..MaxAgent
NoAgent == 0
NoRequest == 0

Freed == [ref |-> 0, request |-> NoRequest]
Default == IF defaults = <<>> THEN NoAgent ELSE Head(defaults)

AgentInit ==
  /\ agents = [a \in AgentId |-> Freed]
  /\ listed = [c \in Client |-> NoAgent]
  /\ defaults = <<>>

-----------------------------------------------------------------------------
AgentRef(A, a) == [A EXCEPT ![a].ref = @ + 1]

\* the last reference frees the agent
AgentUnref(A, a) ==
  [A EXCEPT ![a] = IF A[a].ref = 1 THEN Freed ELSE [A[a] EXCEPT !.ref = @ - 1]]

\* the last reference goes while the agent is asked: agent_unref then calls
\* the request's callback with an error
UnrefAnswers(A, a) == A[a].ref = 1 /\ A[a].request # NoRequest

\* agent_cancel: the call is given up and its callback never runs
AgentCancel(A, a) == [A EXCEPT ![a].request = NoRequest]

\* agent_get: the program's own agent, or else the default one
AgentGet(c) == IF listed[c] # NoAgent THEN listed[c] ELSE Default

Busy(A, a) == A[a].request # NoRequest
AgentAsk(A, a, r) == [A EXCEPT ![a].request = r]

Without(s, a) == Keep(s, {k \in DOMAIN s : s[k] # a})

-----------------------------------------------------------------------------
\* register_agent and agent_create
RegisterAgent(c) ==
  /\ listed[c] = NoAgent
  /\ \E a \in AgentId :
       /\ agents[a].ref = 0 /\ \A b \in AgentId : agents[b].ref = 0 => a <= b
       /\ agents' = [agents EXCEPT ![a] = [ref |-> 1, request |-> NoRequest]]
       /\ listed' = [listed EXCEPT ![c] = a]
  /\ UNCHANGED defaults

\* request_default and add_default_agent
RequestDefault(c) ==
  /\ listed[c] # NoAgent
  /\ defaults' = <<listed[c]>> \o Without(defaults, listed[c])
  /\ UNCHANGED <<agents, listed>>

\* [mutant] the default agent is only dropped when it is the first
AgentDisconnectFirst(c) ==
  /\ listed[c] # NoAgent
  /\ defaults' = IF Default = listed[c] THEN Tail(defaults) ELSE defaults
  /\ listed' = [listed EXCEPT ![c] = NoAgent]
  /\ agents' = AgentUnref(agents, listed[c])

\* unregister_agent, and agent_disconnect when the program leaves the bus,
\* with agent_destroy: the agent leaves both lists, those who asked it keep it
AgentDisconnect(c) ==
  /\ listed[c] # NoAgent
  /\ defaults' = Without(defaults, listed[c])
  /\ listed' = [listed EXCEPT ![c] = NoAgent]
  /\ agents' = AgentUnref(agents, listed[c])
=============================================================================
