---------------------------- MODULE DeviceConnect ----------------------------
(***************************************************************************)
(* Connecting and disconnecting a BR/EDR device (src/device.c): the D-Bus   *)
(* calls Connect, ConnectProfile, Disconnect and DisconnectProfile, the list *)
(* of services still to be connected (dev->pending), the services' states   *)
(* (src/service.c) with service_state_changed as their callback, service    *)
(* discovery on behalf of a call, and the link.  The LE bearer is left out,  *)
(* and every profile has connect, disconnect and auto_connect.              *)
(*                                                                         *)
(* The daemon has one thread; a step is one callback of its main loop.      *)
(***************************************************************************)
EXTENDS Integers, Sequences, FiniteSets, Sublists

CONSTANTS
  NSvc,        \* services, numbered by priority
  MaxCall,     \* bound: D-Bus calls in a behaviour
  Uses         \* the sets of operations a behaviour may have besides the usual ones

Svc == 1..NSvc
CallId == 1..MaxCall
NoCall == 0

ASSUME BoundsAssumption == NSvc \in Nat /\ MaxCall \in Nat
ASSUME UsesAssumption == Uses \subseteq SUBSET {"disconnectProfile", "profiles"}

VARIABLES
  ops,         \* the operations of this behaviour, one of Uses
  svc,         \* the state of each service; "none": the device lacks it
  pending,     \* dev->pending
  connect,     \* dev->connect: the Connect or ConnectProfile call
  disconnect,  \* dev->disconnect: the DisconnectProfile call
  disconnects, \* dev->disconnects: the Disconnect calls
  browse,      \* dev->browse: "no", or the call discovery is for
  link,        \* the device is connected
  resolved,    \* bredr_state.svc_resolved
  refreshed,   \* dev->svc_refreshed
  timer,       \* dev->disconn_timer
  leaving,     \* MGMT_OP_DISCONNECT was sent
  general,     \* dev->general_connect
  calls,       \* what each call asked for
  answers,     \* how often each was answered
  dropped,     \* calls whose discovery was cancelled by Disconnect
  left         \* calls whose caller has left the bus

svcVars == <<svc, pending>>
callVars == <<connect, disconnect, disconnects, browse, calls, answers, dropped, left>>
linkVars == <<link, timer, leaving>>
foundVars == <<resolved, refreshed, general>>
vars == <<ops, svcVars, callVars, linkVars, foundVars>>

NoBrowse == -1
State == {"none", "disconnected", "connecting", "connected", "disconnecting"}

\* what a call asks for: Connect, ConnectProfile (the service), Disconnect or
\* DisconnectProfile
All == 0
ADisconnect == -1
ADisconnectProfile == -2

Init ==
  /\ ops \in Uses
  /\ \E S \in SUBSET Svc : svc = [s \in Svc |-> IF s \in S THEN "disconnected" ELSE "none"]
  /\ pending = <<>> /\ connect = NoCall /\ disconnect = NoCall /\ disconnects = {}
  /\ browse = NoBrowse /\ link \in BOOLEAN /\ resolved \in BOOLEAN /\ refreshed = FALSE
  /\ timer = FALSE /\ leaving = FALSE
  /\ calls = <<>> /\ answers = [i \in CallId |-> 0]
  /\ dropped = {} /\ left = {} /\ general = FALSE

-----------------------------------------------------------------------------
(***************************************************************************)
(* Helpers                                                                 *)
(***************************************************************************)
Count(i, I) == IF i \in I THEN 1 ELSE 0
\* the calls in I are answered once more
Answer(I) == answers' = [i \in CallId |-> answers[i] + Count(i, I)]
Here == {s \in Svc : svc[s] # "none"}
Others(s) == Keep(pending, {k \in DOMAIN pending : pending[k] # s})

\* [mutant] a service that is already connected counts as the one to wait for
ConnectNextAny(p, S) ==
  \E k \in 0..Len(p) :
     /\ \A j \in 1..k : S[p[j]] \notin {"connecting", "connected"}
     /\ k < Len(p) => S[p[k + 1]] # "disconnecting"
     /\ pending' = SubSeq(p, k + 1, Len(p))
     /\ svc' = IF k < Len(p) /\ S[p[k + 1]] # "connected"
                 THEN [S EXCEPT ![p[k + 1]] = "connecting"] ELSE S

\* connect_next from a list and the services' states: the first that can be
\* connected, or is being connected, stays at the head; those before it failed
ConnectNext(p, S) ==
  \E k \in 0..Len(p) :
     /\ \A j \in 1..k : S[p[j]] # "connecting"
     /\ k < Len(p) => S[p[k + 1]] \in {"disconnected", "connecting"}
     /\ pending' = SubSeq(p, k + 1, Len(p))
     /\ svc' = IF k < Len(p) THEN [S EXCEPT ![p[k + 1]] = "connecting"] ELSE S

\* create_pending_list, with the services' states S: the service that is named,
\* or all those that are disconnected, in the order of their priority
PendingList(kind, S) ==
  IF kind # All THEN (IF S[kind] # "none" THEN <<kind>> ELSE <<>>)
  ELSE Keep([s \in Svc |-> s], {s \in Svc : S[s] = "disconnected"})

-----------------------------------------------------------------------------
(***************************************************************************)
(* Connect and ConnectProfile (dev_connect, connect_profile)                *)
(***************************************************************************)
NewCall(kind) == Len(calls) < MaxCall /\ calls' = Append(calls, kind)
Me == Len(calls) + 1

\* connect_profiles, for call i with the services S, when no discovery runs: an
\* answer at once (the device is busy, the adapter is not powered, which may be
\* at any time, or there is nothing to connect), discovery first, or the
\* services of the list
ConnectProfiles(i, kind, S, found, fresh) ==
  LET p == PendingList(kind, S)
      busy == pending # <<>> \/ connect # NoCall
  IN \/ /\ Answer({i}) /\ browse' = NoBrowse
        /\ svc' = S /\ UNCHANGED <<pending, connect>>
     \/ /\ ~busy /\ (~found \/ (p = <<>> /\ ~fresh))      \* resolve_services
        /\ svc' = S /\ UNCHANGED <<pending, connect>>
        /\ \/ browse' = i /\ UNCHANGED answers
           \/ browse' = NoBrowse /\ Answer({i})           \* device_browse_sdp failed
     \/ /\ ~busy /\ found /\ p # <<>>
        /\ ConnectNext(p, S)
        /\ IF pending' = <<>> THEN Answer({i}) /\ UNCHANGED connect
                              ELSE connect' = i /\ UNCHANGED answers
        /\ browse' = NoBrowse

Connect(kind) ==
  /\ NewCall(kind)
  /\ IF browse = NoBrowse THEN ConnectProfiles(Me, kind, svc, resolved, refreshed)
     ELSE Answer({Me}) /\ UNCHANGED <<svcVars, connect, browse>>
  /\ UNCHANGED <<disconnect, disconnects, dropped, left, ops, linkVars, foundVars>>

\* btd_device_connect_services, for a plugin
ConnectServices(p) ==
  /\ pending = <<>> /\ connect = NoCall /\ browse = NoBrowse /\ resolved /\ p # <<>>
  /\ \A s \in Svc : (\E j \in DOMAIN p : p[j] = s) => svc[s] # "none"
  /\ ConnectNext(p, svc)
  /\ UNCHANGED <<callVars, ops, linkVars, foundVars>>

-----------------------------------------------------------------------------
(***************************************************************************)
(* service_state_changed                                                   *)
(***************************************************************************)
\* [mutant] the call is answered and kept
ProfileDoneKeeps(ok, fine) ==
  /\ pending' = <<>>
  /\ Answer({connect} \ {NoCall})
  /\ UNCHANGED <<connect, browse, general>>

\* "done" of device_profile_connected: the call is answered, and discovery
\* is started, if it can be, when it went well and the services are not fresh
ProfileDone(ok, fine) ==
  /\ pending' = <<>> /\ connect' = NoCall
  /\ general' = (general \/ (ok /\ connect # NoCall /\ calls[connect] = All))
  /\ IF connect = NoCall THEN UNCHANGED <<answers, browse>>
     ELSE /\ Answer({connect})
          /\ \/ UNCHANGED browse
             \/ fine /\ ~refreshed /\ browse = NoBrowse /\ browse' = NoCall

\* device_profile_connected, for service s whose state is now S[s].  down: the
\* error says that the device or the adapter is not there
ProfileConnected(s, S, ok, down) ==
  LET rest == Others(s)
      fine == ok \/ \E e \in Svc : S[e] = "connected"
  IN \/ /\ pending = <<>> \/ (~link /\ down)
        /\ svc' = S /\ ProfileDone(ok, fine)
     \/ /\ pending # <<>> /\ ~(~link /\ down) /\ pending[1] # s
        /\ pending' = rest /\ svc' = S /\ UNCHANGED <<connect, answers, browse, general>>
     \/ /\ pending # <<>> /\ ~(~link /\ down) /\ pending[1] = s /\ rest # <<>>
        /\ ConnectNext(rest, S) /\ pending' # <<>>
        /\ UNCHANGED <<connect, answers, browse, general>>
     \/ /\ pending # <<>> /\ ~(~link /\ down) /\ pending[1] = s
        /\ \A j \in DOMAIN rest : S[rest[j]] # "connecting"   \* connect_next: all fail
        /\ svc' = S /\ ProfileDone(ok, fine)

\* btd_service_connecting_complete, from the profile
ConnectingComplete(s) ==
  /\ \E ok, down \in BOOLEAN :
       /\ ok => ~down
       /\ \/ /\ svc[s] = "connecting"
             /\ ProfileConnected(s, [svc EXCEPT ![s] = IF ok THEN "connected" ELSE "disconnected"], ok, down)
          \/ /\ svc[s] = "disconnected" /\ ok
             /\ svc' = [svc EXCEPT ![s] = "connected"]
             /\ UNCHANGED <<pending, connect, answers, browse, general>>
  /\ UNCHANGED <<disconnect, disconnects, calls, dropped, left, ops, linkVars, resolved, refreshed>>

\* service_accept and service_set_connecting: the device connects
Incoming(s) ==
  /\ svc[s] = "disconnected" /\ link
  /\ svc' = [svc EXCEPT ![s] = "connecting"]
  /\ UNCHANGED <<pending, callVars, ops, linkVars, foundVars>>

\* btd_service_disconnecting_complete, from the profile: a failure leaves the
\* service connected; device_profile_disconnected answers dev->disconnect
DisconnectingComplete(s) ==
  /\ svc[s] \in {"connected", "disconnecting"}
  /\ \E t \in {"disconnected", "connected"} : svc' = [svc EXCEPT ![s] = t]
  /\ IF svc[s] = "disconnecting" /\ disconnect # NoCall
       THEN Answer({disconnect}) /\ disconnect' = NoCall
       ELSE UNCHANGED <<answers, disconnect>>
  /\ UNCHANGED <<pending, connect, disconnects, browse, calls, dropped, left, ops, linkVars, foundVars>>

-----------------------------------------------------------------------------
(***************************************************************************)
(* Disconnecting                                                           *)
(***************************************************************************)
Up(s) == svc[s] \in {"connecting", "connected"}

\* the calls device_request_disconnect answers with an error
Cancelled == {connect} \ {NoCall}

\* Disconnect: device_request_disconnect.  Each service that is up goes
\* through btd_service_disconnect, which may end at once, and that answers
\* dev->disconnect.  A cancelled discovery takes its call with it.
Disconnect ==
  /\ NewCall(ADisconnect)
  /\ connect' = NoCall /\ browse' = NoBrowse
  /\ dropped' = dropped \cup ({browse} \ {NoBrowse, NoCall})
  /\ disconnects' = IF link THEN disconnects \cup {Me} ELSE disconnects
  /\ IF timer
       THEN /\ UNCHANGED <<svcVars, timer, disconnect>>
            /\ Answer(Cancelled)
       ELSE /\ pending' = <<>> /\ timer' = link
            /\ \E S \in [Svc -> State] :
                 /\ \A s \in Svc : IF Up(s) THEN S[s] \in {"disconnecting", "disconnected", "connected"}
                                            ELSE S[s] = svc[s]
                 /\ svc' = S
                 /\ LET ended == {s \in Svc : Up(s) /\ S[s] # "disconnecting"}
                        told == IF ended = {} THEN {} ELSE {disconnect} \ {NoCall}
                    IN /\ Answer(Cancelled \cup told \cup (IF link THEN {} ELSE {Me}))
                       /\ disconnect' = IF ended = {} THEN disconnect ELSE NoCall
  /\ UNCHANGED <<left, ops, link, leaving, foundVars>>

\* DisconnectProfile.  When the profile fails at once, device_profile_disconnected
\* has answered already and the error that is returned answers again.
DisconnectProfile(s) ==
  /\ "disconnectProfile" \in ops /\ NewCall(ADisconnectProfile)
  /\ \/ /\ disconnect # NoCall \/ ~Up(s)
        /\ Answer({Me}) /\ UNCHANGED <<svc, disconnect>>
     \/ /\ disconnect = NoCall /\ Up(s)
        /\ \/ svc' = [svc EXCEPT ![s] = "disconnecting"] /\ disconnect' = Me /\ UNCHANGED answers
           \/ svc' = [svc EXCEPT ![s] = "disconnected"] /\ Answer({Me}) /\ UNCHANGED disconnect
           \/ /\ svc' = [svc EXCEPT ![s] = "connected"]
              /\ answers' = [answers EXCEPT ![Me] = 2] /\ UNCHANGED disconnect
  /\ UNCHANGED <<pending, connect, disconnects, browse, dropped, left, ops, linkVars, foundVars>>

\* device_probe_profile: a profile is registered while the device is connected
AddProfile(s) ==
  /\ "profiles" \in ops /\ svc[s] = "none"
  /\ LET S == [svc EXCEPT ![s] = "disconnected"] IN
       IF general /\ pending = <<>> THEN ConnectNext(<<s>>, S)
       ELSE svc' = S /\ pending' = IF general THEN Append(pending, s) ELSE pending
  /\ UNCHANGED <<callVars, ops, linkVars, foundVars>>

\* [mutant] the service stays in dev->pending
RemoveProfileKept(s) ==
  /\ "profiles" \in ops /\ svc[s] # "none"
  /\ svc' = [svc EXCEPT ![s] = "none"]
  /\ UNCHANGED <<pending, callVars, ops, linkVars, foundVars>>

\* device_remove_profile and service_remove: a service that was being connected
\* is reported as aborted, one that was being disconnected too
RemoveProfile(s) ==
  /\ "profiles" \in ops /\ svc[s] # "none"
  /\ svc' = [svc EXCEPT ![s] = "none"]
  /\ IF svc[s] = "connecting" /\ (Others(s) = <<>> \/ ~link)
       THEN /\ ProfileDone(FALSE, \E e \in Svc \ {s} : svc[e] = "connected")
            /\ UNCHANGED disconnect
       ELSE /\ pending' = Others(s)
            /\ UNCHANGED <<connect, browse, general>>
            /\ IF svc[s] = "disconnecting" /\ disconnect # NoCall
                 THEN Answer({disconnect}) /\ disconnect' = NoCall
                 ELSE UNCHANGED <<answers, disconnect>>
  /\ UNCHANGED <<disconnects, calls, dropped, left, ops, linkVars, resolved, refreshed>>

-----------------------------------------------------------------------------
(***************************************************************************)
(* Discovery and the link                                                  *)
(***************************************************************************)
\* device_svc_resolved and browse_request_complete: the services that are
\* found are probed, and the call goes back to connect_profiles
BrowseComplete ==
  /\ browse # NoBrowse
  /\ resolved' = TRUE /\ refreshed' = (refreshed \/ link) /\ UNCHANGED general
  /\ \/ /\ browse' = NoBrowse /\ UNCHANGED <<svcVars, connect>>     \* an error
        /\ Answer({browse} \ {NoCall})
     \/ \E F \in SUBSET {s \in Svc : svc[s] = "none"} :
          LET S == [s \in Svc |-> IF s \in F THEN "disconnected" ELSE svc[s]] IN
            IF browse = NoCall
              THEN svc' = S /\ browse' = NoBrowse /\ UNCHANGED <<pending, connect, answers>>
              ELSE ConnectProfiles(browse, calls[browse], S, TRUE, refreshed \/ link)
  /\ UNCHANGED <<disconnect, disconnects, calls, dropped, left, ops, linkVars>>

\* browse_request_exit: the program that called has left
CallerExits ==
  /\ browse \in CallId
  /\ browse' = NoBrowse /\ left' = left \cup {browse}
  /\ UNCHANGED <<svcVars, connect, disconnect, disconnects, calls, answers, dropped, ops, linkVars, foundVars>>

\* device_add_connection
LinkUp ==
  /\ ~link /\ link' = TRUE
  /\ UNCHANGED <<timer, leaving, svcVars, callVars, ops, foundVars>>

\* [mutant] the messages stay in the list
LinkDownKept ==
  /\ link /\ link' = FALSE /\ timer' = FALSE /\ leaving' = FALSE
  /\ refreshed' = FALSE /\ general' = FALSE
  /\ Answer(disconnects)
  /\ UNCHANGED <<disconnects, resolved, svcVars, connect, disconnect, browse, calls, dropped, left, ops>>

\* device_remove_connection
LinkDown ==
  /\ link /\ link' = FALSE /\ timer' = FALSE /\ leaving' = FALSE
  /\ refreshed' = FALSE /\ general' = FALSE
  /\ Answer(disconnects) /\ disconnects' = {}
  /\ UNCHANGED <<resolved, svcVars, connect, disconnect, browse, calls, dropped, left, ops>>

\* disconnect_all
DisconnectAll ==
  /\ timer /\ timer' = FALSE /\ leaving' = link
  /\ UNCHANGED <<link, svcVars, callVars, ops, foundVars>>

Complete(s) == \/ svc[s] = "connecting" /\ ConnectingComplete(s)
               \/ svc[s] = "disconnecting" /\ DisconnectingComplete(s)

Next ==
  \/ \E kind \in {All} \cup Here : Connect(kind)
  \/ ConnectServices([s \in Svc |-> s]) \/ \E s \in Svc : ConnectServices(<<s>>)
  \/ \E s \in Svc : \/ ConnectingComplete(s) \/ DisconnectingComplete(s)
                    \/ Incoming(s) \/ DisconnectProfile(s)
                    \/ AddProfile(s) \/ RemoveProfile(s)
  \/ Disconnect \/ BrowseComplete \/ CallerExits \/ LinkUp \/ LinkDown \/ DisconnectAll

Spec == Init /\ [][Next]_vars

(***************************************************************************)
(* Profiles report the end of what they began, timers fire, and the         *)
(* controller ends a connection it is told to end.                         *)
(***************************************************************************)
FairSpec ==
  /\ Spec
  /\ \A s \in Svc : WF_vars(Complete(s))
  /\ WF_vars(DisconnectAll) /\ WF_vars(leaving /\ LinkDown)

-----------------------------------------------------------------------------
(***************************************************************************)
(* Properties                                                              *)
(***************************************************************************)
\* The services, the lists and the calls keep their types.
TypeOK ==
  /\ ops \in Uses /\ svc \in [Svc -> State] /\ pending \in Seq(Svc)
  /\ connect \in 0..MaxCall /\ disconnect \in 0..MaxCall /\ disconnects \subseteq CallId
  /\ browse \in -1..MaxCall
  /\ link \in BOOLEAN /\ resolved \in BOOLEAN /\ refreshed \in BOOLEAN
  /\ timer \in BOOLEAN /\ leaving \in BOOLEAN
  /\ calls \in Seq(-2..NSvc) /\ Len(calls) <= MaxCall
  /\ answers \in [CallId -> 0..2] /\ general \in BOOLEAN
  /\ dropped \subseteq CallId /\ left \subseteq CallId

\* dev->pending holds services of the device, each once; and while no profile
\* comes or goes, a Connect call in progress has services to wait for and no
\* discovery runs for another call.  While nobody disconnects or removes a single
\* profile, the first pending service is being connected: every order of its end,
\* of other services' ends and of the link's end moves the list on.
PendingIsSound ==
  /\ \A j \in DOMAIN pending : svc[pending[j]] # "none"
  /\ \A j, k \in DOMAIN pending : pending[j] = pending[k] => j = k
  /\ "profiles" \notin ops => /\ connect # NoCall => pending # <<>>
                              /\ browse \in CallId => pending = <<>> /\ connect = NoCall
  /\ (ops = {} /\ pending # <<>>) => svc[pending[1]] = "connecting"

Held == ({connect, disconnect, browse} \cup disconnects) \cap CallId

\* A call that was not answered is held, so that something will answer it; only
\* calls whose discovery was cancelled are not.  While nobody disconnects a
\* single profile, no call is answered twice, nor after it was dropped, nor is an
\* answered one still held.
CallsAnsweredOnce ==
  /\ \A i \in DOMAIN calls : answers[i] = 0 => i \in Held \cup dropped \cup left
  /\ ("disconnectProfile" \notin ops) =>
     \A i \in DOMAIN calls : answers[i] > 0 => answers[i] = 1 /\ i \notin Held \cup dropped \cup left

\* A Connect that waits for services, and a Disconnect, are answered.
HeldCallsAnswered ==
  \A i \in CallId : (ops = {} /\ (connect = i \/ i \in disconnects)) ~> (answers[i] > 0)

(***************************************************************************)
(* Statements of the documentation that the code does not keep              *)
(***************************************************************************)
\* device-api.txt on Disconnect: "This method can be also used to cancel a
\* preceding Connect call before a reply to it has been received."  Without
\* DisconnectProfile and removals, whoever did not leave gets one.
CancelledConnectAnswered ==
  \A i \in DOMAIN calls : answers[i] = 0 => i \in Held \cup left
=============================================================================
