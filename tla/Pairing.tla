------------------------------- MODULE Pairing -------------------------------
(***************************************************************************)
(* Pairing (src/device.c, src/adapter.c): the D-Bus calls Pair and          *)
(* CancelPairing, MGMT_OP_PAIR_DEVICE with its time-out, the questions of   *)
(* the kernel and the agent that answers them, the retries with the next    *)
(* PIN of a plugin, and service discovery before Pair is answered.  BR/EDR   *)
(* only; a device has at most one command and one timer at a time.          *)
(*                                                                         *)
(* The daemon has one thread; a step is one callback of its main loop.      *)
(***************************************************************************)
EXTENDS AgentManager

CONSTANTS
  NDev,        \* devices
  MaxCall,     \* bound: Pair calls in a behaviour
  MaxPin,      \* bound: PINs the plugins know for a device
  Uses         \* the sets of circumstances a behaviour may have

Dev == 1..NDev
CallId == 1..MaxCall
NoCall == 0
NoDev == 0
NoBrowse == -1

ASSUME BoundsAssumption == NDev \in Nat /\ MaxCall \in Nat /\ MaxPin \in Nat
\* second: other devices than the first are paired too, and their services are
\* known; remote: the device may start pairing itself; pins: plugins know PINs;
\* busy: services are discovered for other reasons; remove: devices are removed
ASSUME UsesAssumption == Uses \subseteq SUBSET {"second", "remote", "pins", "busy", "remove"}

VARIABLES
  ops,         \* the circumstances of this behaviour, one of Uses
  bonding,     \* device->bonding: the Pair call, NoCall if none
  bagent,      \* bonding->agent
  iter,        \* bonding->cb_iter: 0 at its end, else one more than the PINs left
  retry,       \* devices with bonding->retry_timer
  watched,     \* devices with bonding->listener_id
  authr,       \* device->authr: what kind, and its agent
  cmds,        \* MGMT_OP_PAIR_DEVICE: the first is with the kernel, others queue
  ending,      \* the kernel was told to cancel the first, or said it failed
  pairId,      \* adapter->pair_device_id > 0
  timers,      \* the devices whose pair_device_timeout runs
  pairTimeout, \* the timer adapter->pair_device_timeout names
  pinAsked,    \* adapter->pincode_requested
  link,        \* connected devices
  paired, bonded, resolved,   \* bearer_state
  browse,      \* device->browse: NoBrowse, or the Pair call it is for
  ncall,       \* Pair calls so far
  answers,     \* how often each was answered
  dropped,     \* calls whose discovery was cancelled or never began
  crashed      \* a question's callback ran on freed memory, or without end

bondVars == <<bonding, bagent, iter, retry, watched>>
cmdVars == <<cmds, ending, pairId, timers, pairTimeout>>
keyVars == <<paired, bonded>>
callVars == <<ncall, answers, dropped>>
foundVars == <<browse, resolved>>
vars == <<ops, crashed, agentVars, bondVars, authr, cmdVars, pinAsked, link, keyVars, callVars, foundVars>>

\* the devices of this behaviour
Involved == {d \in Dev : d = 1 \/ "second" \in ops}

NoAuth == [type |-> "none", agent |-> NoAgent]

Init ==
  /\ ops \in Uses /\ crashed = FALSE /\ AgentInit
  /\ bonding = [d \in Dev |-> NoCall] /\ bagent = [d \in Dev |-> NoAgent]
  /\ iter = [d \in Dev |-> 0] /\ retry = {} /\ watched = {} /\ authr = [d \in Dev |-> NoAuth]
  /\ cmds = <<>> /\ ending = FALSE /\ pairId = FALSE /\ timers = {} /\ pairTimeout = NoDev
  /\ pinAsked = FALSE /\ link = {} /\ paired = {} /\ bonded = {} /\ resolved = (IF "second" \in ops THEN Dev ELSE {})
  /\ browse = [d \in Dev |-> NoBrowse]
  /\ ncall = 0 /\ answers = [i \in CallId |-> 0] /\ dropped = {}

-----------------------------------------------------------------------------
(***************************************************************************)
(* Helpers                                                                 *)
(***************************************************************************)
Answer(I) == answers' = [i \in CallId |-> answers[i] + (IF i \in I THEN 1 ELSE 0)]

\* [mutant] the call to the agent is not cancelled
CancelAuthenticationQuiet(A, d, aborted) ==
  IF authr[d].agent # NoAgent /\ aborted THEN AgentUnref(A, authr[d].agent) ELSE A

\* the agents after device_cancel_authentication; when the authentication was
\* not aborted, cancel_authentication has cleared auth->agent and the reference
\* to it is never dropped
CancelAuthentication(A, d, aborted) ==
  LET a == authr[d].agent
  IN IF a = NoAgent THEN A
     ELSE IF aborted THEN AgentUnref(AgentCancel(A, a), a) ELSE AgentCancel(A, a)

\* the agents after bonding_request_free
LetGoBonding(A, d) ==
  IF bagent[d] = NoAgent THEN A ELSE AgentUnref(AgentCancel(A, bagent[d]), bagent[d])

BondingRequestFree(d) ==
  /\ bonding' = [bonding EXCEPT ![d] = NoCall]
  /\ bagent' = [bagent EXCEPT ![d] = NoAgent]
  /\ iter' = [iter EXCEPT ![d] = 0]
  /\ retry' = retry \ {d} /\ watched' = watched \ {d}

\* adapter_cancel_bonding: the kernel knows of the first command only
AdapterCancelBonding(d) == ending' = (ending \/ (cmds # <<>> /\ Head(cmds) = d))

\* [mutant] pincode_requested stays
AttemptKeepsPin(d) ==
  /\ d \notin timers /\ \A k \in DOMAIN cmds : cmds[k] # d
  /\ cmds' = Append(cmds, d) /\ pairId' = TRUE
  /\ timers' = timers \cup {d} /\ pairTimeout' = d
  /\ UNCHANGED <<ending, pinAsked>>

\* adapter_bonding_attempt
AdapterBondingAttempt(d) ==
  /\ d \notin timers /\ \A k \in DOMAIN cmds : cmds[k] # d
  /\ cmds' = Append(cmds, d) /\ pairId' = TRUE
  /\ timers' = timers \cup {d} /\ pairTimeout' = d
  /\ pinAsked' = FALSE
  /\ UNCHANGED ending

-----------------------------------------------------------------------------
(***************************************************************************)
(* The end of an attempt                                                   *)
(***************************************************************************)
\* device_bonding_failed, with the agents A after the authentication's end
BondingFailed(d, A) ==
  /\ authr' = [authr EXCEPT ![d] = NoAuth]
  /\ Answer({bonding[d]} \ {NoCall})
  /\ BondingRequestFree(d)
  /\ agents' = IF bonding[d] = NoCall THEN A ELSE LetGoBonding(A, d)
  /\ UNCHANGED <<listed, defaults, browse, dropped>>

\* device_bonding_complete without an error: Pair is answered now or after
\* service discovery.  Discovery that cannot begin, because one is under way or
\* the search fails at once, takes the call with it.
BondingComplete(d) ==
  LET A == CancelAuthentication(agents, d, TRUE)
      i == bonding[d]
  IN /\ authr' = [authr EXCEPT ![d] = NoAuth]
     /\ UNCHANGED <<listed, defaults>>
     /\ IF d \in paired \/ i = NoCall
          THEN agents' = A /\ UNCHANGED <<bondVars, answers, browse, dropped>>
          ELSE /\ BondingRequestFree(d) /\ agents' = LetGoBonding(A, d)
               /\ \/ d \in resolved /\ Answer({i}) /\ UNCHANGED <<browse, dropped>>
                  \/ /\ d \notin resolved /\ browse[d] = NoBrowse
                     /\ browse' = [browse EXCEPT ![d] = i] /\ UNCHANGED <<answers, dropped>>
                  \/ /\ d \notin resolved
                     /\ dropped' = dropped \cup {i} /\ UNCHANGED <<answers, browse>>

Status == {"success", "authFailed", "failed", "disconnected"}

\* device_bonding_attempt_retry: a retry is or will be scheduled
Retries(d, status) ==
  \/ status = "authFailed" /\ pinAsked /\ bonding[d] # NoCall /\ (d \in retry \/ iter[d] # 0)
  \/ status = "disconnected" /\ d \in retry

\* bonding_attempt_complete; A, auth: the agents and authr if there is a retry
AttemptComplete(d, status, A, auth) ==
  IF Retries(d, status)
    THEN /\ retry' = retry \cup {d}
         /\ agents' = A /\ authr' = [authr EXCEPT ![d] = auth]
         /\ UNCHANGED <<listed, defaults, bonding, bagent, iter, watched, answers, browse, dropped>>
    ELSE IF status = "success" THEN BondingComplete(d)
    ELSE BondingFailed(d, IF auth = NoAuth THEN A ELSE CancelAuthentication(A, d, TRUE))

\* pair_device_complete: the kernel's answer, which may be a success that was on
\* its way when the kernel was told to cancel.  A device is paired when its
\* bonding is complete.  (The kernel's answer is never too short to be read.)
PairDeviceComplete ==
  /\ cmds # <<>>
  /\ cmds' = Tail(cmds) /\ ending' = FALSE /\ pairId' = FALSE
  /\ timers' = timers \ {pairTimeout} /\ pairTimeout' = NoDev
  /\ \E status \in Status :
       /\ AttemptComplete(Head(cmds), status, agents, authr[Head(cmds)])
       /\ paired' = IF status = "success" THEN paired \cup {Head(cmds)} ELSE paired
  /\ UNCHANGED <<ops, crashed, pinAsked, link, bonded, ncall, resolved>>

\* pair_device_timeout
PairDeviceTimeout(d) ==
  /\ d \in timers /\ timers' = timers \ {d} /\ pairTimeout' = NoDev
  /\ AdapterCancelBonding(d)
  /\ UNCHANGED <<ops, crashed, agentVars, bondVars, authr, cmds, pairId, pinAsked, link, keyVars, callVars, foundVars>>

\* the kernel reports a failed command before the retry, three seconds later
Settled(d) == \A k \in DOMAIN cmds : cmds[k] # d

\* [mutant] the retry is given up when the device is not connected
DeviceBondingRetryLinked(d) ==
  /\ d \in retry /\ Settled(d)
  /\ retry' = retry \ {d}
  /\ IF d \in link THEN AdapterBondingAttempt(d) ELSE UNCHANGED <<cmdVars, pinAsked>>
  /\ UNCHANGED <<ops, crashed, agentVars, bonding, bagent, iter, watched, authr, link, keyVars, callVars, foundVars>>

\* device_bonding_retry
DeviceBondingRetry(d) ==
  /\ d \in retry /\ Settled(d)
  /\ retry' = retry \ {d}
  /\ AdapterBondingAttempt(d)
  /\ UNCHANGED <<ops, crashed, agentVars, bonding, bagent, iter, watched, authr, link, keyVars, callVars, foundVars>>

-----------------------------------------------------------------------------
(***************************************************************************)
(* The callers                                                             *)
(***************************************************************************)
Me == ncall + 1

\* [mutant] a call that comes while the device is paired cancels too
PairCancels(c, d) ==
  /\ d \in Involved /\ ncall < MaxCall /\ ncall' = Me
  /\ LET a == AgentGet(c) IN
       \/ /\ bonding[d] # NoCall \/ pairId
          /\ Answer({Me}) /\ UNCHANGED <<bondVars, cmdVars, pinAsked>>
          /\ agents' = IF a = NoAgent THEN agents ELSE AgentCancel(agents, a)
       \/ /\ bonding[d] = NoCall /\ d \notin bonded /\ ~pairId
          /\ bonding' = [bonding EXCEPT ![d] = Me]
          /\ bagent' = [bagent EXCEPT ![d] = a] /\ watched' = watched \cup {d}
          /\ iter' = [iter EXCEPT ![d] = 1]
          /\ agents' = IF a = NoAgent THEN agents ELSE AgentRef(agents, a)
          /\ AdapterBondingAttempt(d) /\ UNCHANGED <<retry, answers>>
  /\ UNCHANGED <<ops, crashed, listed, defaults, authr, link, keyVars, dropped, foundVars>>

\* pair_device.  A command of another device is in the way: the agent, whatever
\* it is asked, is cancelled with the new request.
Pair(c, d) ==
  /\ d \in Involved
  /\ ncall < MaxCall /\ ncall' = Me
  /\ LET a == AgentGet(c) IN
       \/ /\ bonding[d] # NoCall \/ d \in bonded
          /\ Answer({Me}) /\ UNCHANGED <<agents, bondVars, cmdVars, pinAsked>>
       \/ /\ bonding[d] = NoCall /\ d \notin bonded /\ pairId
          /\ Answer({Me}) /\ UNCHANGED <<bondVars, cmdVars, pinAsked>>
          /\ agents' = IF a = NoAgent THEN agents ELSE AgentCancel(agents, a)
       \/ /\ bonding[d] = NoCall /\ d \notin bonded /\ ~pairId
          /\ bonding' = [bonding EXCEPT ![d] = Me]
          /\ bagent' = [bagent EXCEPT ![d] = a] /\ watched' = watched \cup {d}
          /\ iter' = [iter EXCEPT ![d] = IF "pins" \in ops THEN MaxPin + 1 ELSE 1]
          /\ agents' = IF a = NoAgent THEN agents ELSE AgentRef(agents, a)
          /\ AdapterBondingAttempt(d)
          /\ UNCHANGED <<retry, answers>>
  /\ UNCHANGED <<ops, crashed, listed, defaults, authr, link, keyVars, dropped, foundVars>>

\* [mutant] the call is not answered
CancelBondingSilent(d) ==
  /\ agents' = LetGoBonding(CancelAuthentication(agents, d, FALSE), d)
  /\ authr' = [authr EXCEPT ![d] = NoAuth]
  /\ AdapterCancelBonding(d)
  /\ BondingRequestFree(d)
  /\ UNCHANGED answers

\* device_cancel_bonding
CancelBonding(d) ==
  /\ agents' = LetGoBonding(CancelAuthentication(agents, d, FALSE), d)
  /\ authr' = [authr EXCEPT ![d] = NoAuth]
  /\ Answer({bonding[d]})
  /\ AdapterCancelBonding(d)
  /\ BondingRequestFree(d)

\* cancel_pairing
CancelPairing(d) ==
  /\ bonding[d] # NoCall
  /\ CancelBonding(d)
  /\ UNCHANGED <<ops, crashed, listed, defaults, cmds, pairId, timers, pairTimeout, pinAsked, link, keyVars,
                 ncall, dropped, foundVars>>

\* browse_request_cancel, on the way of device_request_disconnect
BrowseCancel(d) ==
  /\ browse' = [browse EXCEPT ![d] = NoBrowse]
  /\ dropped' = dropped \cup ({browse[d]} \cap CallId)

\* dev_disconnect, as far as pairing goes: device_request_disconnect
Disconnect(d) ==
  /\ bonding[d] # NoCall \/ browse[d] # NoBrowse
  /\ IF bonding[d] # NoCall THEN AdapterCancelBonding(d) ELSE UNCHANGED ending
  /\ BrowseCancel(d)
  /\ UNCHANGED <<ops, crashed, agentVars, bondVars, authr, cmds, pairId, timers, pairTimeout, pinAsked, link,
                 keyVars, ncall, answers, resolved>>

\* create_bond_req_exit
CreateBondReqExit(d) ==
  /\ d \in watched /\ watched' = watched \ {d}
  /\ agents' = CancelAuthentication(agents, d, FALSE)
  /\ authr' = [authr EXCEPT ![d] = NoAuth]
  /\ AdapterCancelBonding(d) /\ BrowseCancel(d)
  /\ UNCHANGED <<ops, crashed, listed, defaults, bonding, bagent, iter, retry, cmds, pairId, timers, pairTimeout,
                 pinAsked, link, keyVars, ncall, answers, resolved>>

\* device_free drops the authentication's reference and cancels nothing: when it
\* was the last one, agent_unref calls the question's callback, which calls
\* agent_unref again before it forgets the agent, without end; when it was not,
\* the question is left with a pointer to freed memory
DeviceFree(d) ==
  LET a == authr[d].agent IN
  /\ agents' = IF a = NoAgent THEN agents ELSE AgentUnref(agents, a)
  /\ crashed' = (a # NoAgent /\ UnrefAnswers(agents, a))
  /\ authr' = [authr EXCEPT ![d] = NoAuth]

\* device_remove, of a device that is not connected; it is new when it is met
\* again.  Cancelling a bonding ends the authentication, so that device_free
\* finds none.
DeviceRemove(d) ==
  /\ "remove" \in ops /\ d \in Involved /\ d \notin link
  /\ IF bonding[d] # NoCall THEN CancelBonding(d) /\ UNCHANGED crashed
     ELSE DeviceFree(d) /\ UNCHANGED <<bondVars, ending, answers>>
  /\ BrowseCancel(d)
  /\ paired' = paired \ {d} /\ bonded' = bonded \ {d} /\ resolved' = resolved \ {d}
  /\ UNCHANGED <<ops, listed, defaults, cmds, pairId, timers, pairTimeout, pinAsked, link, ncall>>

-----------------------------------------------------------------------------
(***************************************************************************)
(* The kernel's events and the agent's answers                             *)
(***************************************************************************)
\* the kernel pairs with d
Pairs(d) == (cmds # <<>> /\ Head(cmds) = d) \/ ("remote" \in ops /\ d \in Involved)

\* new_auth: the agent of the Pair call, or else the default one
AgentOf(d) == IF bagent[d] # NoAgent THEN bagent[d] ELSE Default
NewAuth(d) == authr[d] = NoAuth /\ AgentOf(d) # NoAgent

\* device_request_pincode and its like; a question that cannot be asked is
\* answered for the user, with no
Ask(d) ==
  /\ UNCHANGED <<listed, defaults>>
  /\ IF NewAuth(d) /\ ~Busy(agents, AgentOf(d))
       THEN /\ authr' = [authr EXCEPT ![d] = [type |-> "ask", agent |-> AgentOf(d)]]
            /\ agents' = AgentAsk(AgentRef(agents, AgentOf(d)), AgentOf(d), d)
       ELSE UNCHANGED <<agents, authr>>

\* user_confirm_request_callback and user_passkey_request_callback
UserRequest(d) ==
  /\ Pairs(d) /\ Ask(d)
  /\ UNCHANGED <<ops, crashed, bondVars, cmdVars, pinAsked, link, keyVars, callVars, foundVars>>

\* pin_code_request_callback: a plugin's PIN, shown to the user or not, or the
\* user's
PinCodeRequest(d) ==
  /\ Pairs(d) /\ pinAsked' = TRUE
  /\ \/ /\ iter[d] > 1 /\ iter' = [iter EXCEPT ![d] = @ - 1]
        /\ Ask(d) \/ UNCHANGED <<agentVars, authr>>
     \/ iter' = [iter EXCEPT ![d] = 0] /\ Ask(d)
  /\ UNCHANGED <<ops, crashed, bonding, bagent, retry, watched, cmdVars, link, keyVars, callVars, foundVars>>

\* user_passkey_notify_callback: the agent is told and not asked
PasskeyNotify(d) ==
  /\ Pairs(d) /\ NewAuth(d)
  /\ authr' = [authr EXCEPT ![d] = [type |-> "notify", agent |-> AgentOf(d)]]
  /\ agents' = AgentRef(agents, AgentOf(d))
  /\ UNCHANGED <<ops, crashed, listed, defaults, bondVars, cmdVars, pinAsked, link, keyVars, callVars, foundVars>>

\* [mutant] the reference is dropped twice
AgentReplyTwice(a) ==
  /\ agents[a].request \in Dev
  /\ authr' = [authr EXCEPT ![agents[a].request].agent = NoAgent]
  /\ agents' = AgentUnref(AgentUnref(AgentCancel(agents, a), a), a)
  /\ UNCHANGED <<ops, crashed, listed, defaults, bondVars, cmdVars, pinAsked, link, keyVars, callVars, foundVars>>

\* pincode_cb, confirm_cb, passkey_cb: an answer, an error or the time-out; the
\* authentication stays, without its agent
AgentReply(a) ==
  /\ agents[a].request \in Dev /\ authr[agents[a].request] = [type |-> "ask", agent |-> a]
  /\ authr' = [authr EXCEPT ![agents[a].request].agent = NoAgent]
  /\ agents' = AgentUnref(AgentCancel(agents, a), a)
  /\ UNCHANGED <<ops, crashed, listed, defaults, bondVars, cmdVars, pinAsked, link, keyVars, callVars, foundVars>>

\* the same callbacks, for an authentication that was freed with its device
StaleReply(a) ==
  /\ agents[a].request \in Dev /\ authr[agents[a].request] # [type |-> "ask", agent |-> a]
  /\ crashed' = TRUE
  /\ UNCHANGED <<ops, agentVars, bondVars, authr, cmdVars, pinAsked, link, keyVars, callVars, foundVars>>

\* new_link_key_callback
NewLinkKey(d) ==
  /\ Pairs(d)
  /\ BondingComplete(d) /\ paired' = paired \cup {d}
  /\ bonded' \in {bonded, bonded \cup {d}}
  /\ UNCHANGED <<ops, crashed, cmdVars, pinAsked, link, ncall, resolved>>

\* auth_failed_callback: the kernel spares the one who sent the command
AuthFailed(d) ==
  /\ "remote" \in ops /\ d \in Involved /\ Settled(d)
  /\ \E status \in {"authFailed", "failed"} : AttemptComplete(d, status, agents, authr[d])
  /\ UNCHANGED <<ops, crashed, cmdVars, pinAsked, link, keyVars, ncall, resolved>>

\* connect_failed_callback.  Pair made the device permanent, so that it is not
\* removed at the end.
ConnectFailed(d) ==
  /\ d \notin link /\ cmds # <<>> /\ Head(cmds) = d /\ ~ending /\ ending' = TRUE
  /\ \E status \in {"authFailed", "failed"} :
       IF bonding[d] = NoCall THEN AttemptComplete(d, status, agents, authr[d])
       ELSE AttemptComplete(d, status, CancelAuthentication(agents, d, FALSE), NoAuth)
  /\ UNCHANGED <<ops, crashed, cmds, pairId, timers, pairTimeout, pinAsked, link, keyVars, ncall, resolved>>

\* device_add_connection
Connected(d) ==
  /\ d \in Involved /\ d \notin link /\ link' = link \cup {d}
  /\ UNCHANGED <<ops, crashed, agentVars, bondVars, authr, cmdVars, pinAsked, keyVars, callVars, foundVars>>

\* dev_disconnected and adapter_remove_connection: a key that is not stored is
\* forgotten
Disconnected(d) ==
  /\ d \in link /\ link' = link \ {d}
  /\ paired' = IF d \in bonded THEN paired ELSE paired \ {d}
  /\ AttemptComplete(d, "disconnected", CancelAuthentication(agents, d, TRUE), NoAuth)
  /\ UNCHANGED <<ops, crashed, cmdVars, pinAsked, bonded, ncall, resolved>>

-----------------------------------------------------------------------------
(***************************************************************************)
(* Discovery, and the agents' programs                                     *)
(***************************************************************************)
\* device_browse_sdp, for somebody else
BrowseStart(d) ==
  /\ "busy" \in ops /\ d \in Involved /\ browse[d] = NoBrowse /\ browse' = [browse EXCEPT ![d] = NoCall]
  /\ UNCHANGED <<ops, crashed, agentVars, bondVars, authr, cmdVars, pinAsked, link, keyVars, callVars, resolved>>

\* browse_request_complete: Pair is answered whether discovery went well or not
BrowseComplete(d) ==
  /\ browse[d] # NoBrowse
  /\ Answer({browse[d]} \cap CallId)
  /\ browse' = [browse EXCEPT ![d] = NoBrowse] /\ resolved' = resolved \cup {d}
  /\ UNCHANGED <<ops, crashed, agentVars, bondVars, authr, cmdVars, pinAsked, link, keyVars, ncall, dropped>>

\* a program that leaves may hold the last reference to an agent that is asked
AgentStep(c) ==
  /\ \/ (RegisterAgent(c) \/ RequestDefault(c)) /\ UNCHANGED crashed
     \/ AgentDisconnect(c) /\ crashed' = UnrefAnswers(agents, listed[c])
  /\ UNCHANGED <<ops, bondVars, authr, cmdVars, pinAsked, link, keyVars, callVars, foundVars>>

Step ==
  \/ \E c \in Client : AgentStep(c) \/ \E d \in Dev : Pair(c, d)
  \/ \E a \in AgentId : AgentReply(a) \/ StaleReply(a)
  \/ PairDeviceComplete
  \/ \E d \in Dev :
       \/ CancelPairing(d) \/ Disconnect(d) \/ CreateBondReqExit(d) \/ DeviceRemove(d)
       \/ PairDeviceTimeout(d) \/ DeviceBondingRetry(d)
       \/ UserRequest(d) \/ PinCodeRequest(d) \/ PasskeyNotify(d)
       \/ NewLinkKey(d) \/ AuthFailed(d) \/ ConnectFailed(d)
       \/ Connected(d) \/ Disconnected(d) \/ BrowseStart(d) \/ BrowseComplete(d)

Next == ~crashed /\ Step

Spec == Init /\ [][Next]_vars

(***************************************************************************)
(* Timers fire, and the kernel ends a command it is told to cancel, or says  *)
(* has failed; without that it may never end one.                          *)
(***************************************************************************)
FairSpec ==
  /\ Spec
  /\ \A d \in Dev : /\ WF_vars(~crashed /\ PairDeviceTimeout(d))
                   /\ WF_vars(~crashed /\ DeviceBondingRetry(d))
  /\ WF_vars(~crashed /\ ending /\ PairDeviceComplete)

-----------------------------------------------------------------------------
(***************************************************************************)
(* Properties                                                              *)
(***************************************************************************)
Commanded == {cmds[k] : k \in DOMAIN cmds}

\* The requests, the commands and the lists keep their types.
TypeOK ==
  /\ agents \in [AgentId -> [ref : Nat, request : 0..NDev]]
  /\ listed \in [Client -> AgentId \cup {NoAgent}] /\ defaults \in Seq(AgentId)
  /\ ops \in Uses
  /\ bonding \in [Dev -> 0..MaxCall] /\ bagent \in [Dev -> AgentId \cup {NoAgent}]
  /\ iter \in [Dev -> 0..(MaxPin + 1)] /\ retry \subseteq Dev
  /\ authr \in [Dev -> [type : {"none", "ask", "notify"}, agent : AgentId \cup {NoAgent}]]
  /\ cmds \in Seq(Dev) /\ ending \in BOOLEAN /\ pairId \in BOOLEAN
  /\ timers \subseteq Dev /\ pairTimeout \in 0..NDev /\ pinAsked \in BOOLEAN
  /\ link \subseteq Dev /\ paired \subseteq Dev /\ bonded \subseteq Dev /\ resolved \subseteq Dev
  /\ browse \in [Dev -> -1..MaxCall]
  /\ ncall \in 0..MaxCall /\ answers \in [CallId -> Nat]
  /\ dropped \subseteq CallId /\ watched \subseteq Dev /\ crashed \in BOOLEAN

\* Those agent_ref was called for.
Holders(a) ==
  Cardinality({c \in Client : listed[c] = a}) + Cardinality({d \in Dev : bagent[d] = a})
    + Cardinality({d \in Dev : authr[d].agent = a})

\* Nobody's agent is freed under him: its count is at least the number of its
\* holders (it can be more, see CancelAuthentication).  While no device is
\* removed, the callback of a question finds the authentication it was asked
\* for, with its agent, and no agent_unref calls it: nothing frees one and
\* leaves the question with the agent, and who drops the last reference to an
\* agent has cancelled its question.  (device_free does neither: a removal may
\* crash the daemon, at once or when the agent answers.)
CallbackHasData ==
  /\ ~crashed => \A a \in AgentId : agents[a].ref >= Holders(a)
  /\ ("remove" \notin ops) =>
     /\ ~crashed
     /\ \A a \in AgentId : agents[a].request # NoRequest =>
          authr[agents[a].request] = [type |-> "ask", agent |-> a]

AwaitsAgent(d) == bonding[d] # NoCall /\ authr[d].type = "ask" /\ authr[d].agent # NoAgent

\* While one device is paired at a time, a pairing that waits for its agent has
\* its question with the agent.
QuestionIsOut ==
  ("second" \notin ops) =>
     \A d \in Dev : AwaitsAgent(d) => agents[authr[d].agent].request = d

\* No retry of one device comes while another is paired: there is one device, or
\* no cause for a retry.
RetriesAlone == "second" \notin ops \/ ops \cap {"pins", "remote"} = {}

\* A Pair in progress has a command or a retry ahead, unless the device was paired
\* without a key to store, which Pair then does not notice.
\* There is one command at a time, its timer runs until the kernel was told to
\* cancel it, and no timer outlives its command.  (A retry of one device while
\* another is paired breaks this: device_bonding_retry does not look at
\* pair_device_id.  A PIN that another device asks for is a cause, since
\* pincode_requested belongs to the adapter.)
BondingAwaitsSomething ==
  /\ \A d \in Dev : bonding[d] # NoCall => d \in retry \cup Commanded \cup paired
  /\ RetriesAlone =>
     /\ Len(cmds) <= 1 /\ (pairId <=> cmds # <<>>)
     /\ timers \subseteq Commanded
     /\ (cmds # <<>> /\ ~ending) => timers = {Head(cmds)} /\ pairTimeout = Head(cmds)

\* A Pair is answered once; one that is not answered is in progress, or waits for
\* services, or was dropped with them.
PairAnsweredOnce ==
  \A i \in 1..ncall :
     LET held == i \in {bonding[d] : d \in Dev} \cup {browse[d] : d \in Dev} \cup dropped
     IN answers[i] = IF held THEN 0 ELSE 1

\* When one device is paired, Pair comes to an end, however often it is tried
\* again and whether or not the kernel answers, unless the daemon crashes.
PairingEnds ==
  \A i \in CallId : ("second" \notin ops /\ bonding[1] = i) ~>
                    (bonding[1] # i \/ 1 \in paired \/ crashed)
=============================================================================
