------------------------------ MODULE ExtProfile ------------------------------
(***************************************************************************)
(* bluetoothd's side of a profile: the connection records (struct ext_io)   *)
(* of one external profile in src/profile.c, and the service of each device *)
(* for that profile in src/service.c.                                      *)
(*                                                                         *)
(* The daemon has one thread; a step is one callback of its main loop.  The *)
(* connections are numbered in the order in which they enter ext->conns.    *)
(* The profile has both roles, the default (ext_set_defaults) and what the   *)
(* tutorial's Listener registers: every connection starts with a service.   *)
(***************************************************************************)
EXTENDS Integers, FiniteSets

CONSTANTS
  Dev,         \* Bluetooth devices
  MaxConn      \* bound: connection records made in a behaviour

ASSUME MaxConnAssumption == MaxConn \in Nat

VARIABLES
  registered,  \* the program's ext_profile exists
  authorize,   \* ext->authorize: incoming connections need authorization
  devs,        \* the devices the adapter knows
  service,     \* the state of each device's service; "none": there is none
  nconn,       \* connection records made so far
  conns        \* ext->conns: the records that exist, by number

vars == <<registered, authorize, devs, service, nconn, conns>>

ConnId == 1..MaxConn
live == DOMAIN conns
State == {"none", "disconnected", "connecting", "connected", "disconnecting"}

\* own: dev is still the adapter's device, and conn->service its service
\* watch: io_id # 0     auth: auth_id # 0     connected: the field
\* step: the SDP search or the connect/accept callback that is awaited
\* pending: the Profile1 call whose reply is awaited
Conn == [dev : Dev, own : BOOLEAN, watch : BOOLEAN, auth : BOOLEAN,
         step : {"none", "sdp", "io"}, pending : {"none", "new", "disc"}, connected : BOOLEAN]

Incoming(d) == [dev |-> d, own |-> TRUE, watch |-> TRUE, auth |-> authorize,
                step |-> "none", pending |-> "none", connected |-> FALSE]
Outgoing(d, s) == [dev |-> d, own |-> TRUE, watch |-> FALSE, auth |-> FALSE,
                   step |-> s, pending |-> "none", connected |-> FALSE]

\* the connections of device d, and the first of them (find_connection)
ConnsOf(d) == {c \in live : conns[c].own /\ conns[c].dev = d}
FindConnection(d) == CHOOSE c \in ConnsOf(d) : \A e \in ConnsOf(d) : c <= e

Init ==
  /\ registered = FALSE /\ authorize = TRUE
  /\ devs \in SUBSET Dev
  /\ service = [d \in Dev |-> "none"]
  /\ nconn = 0 /\ conns = [c \in {} |-> 0]

-----------------------------------------------------------------------------
(***************************************************************************)
(* src/service.c: the state a service goes to                              *)
(***************************************************************************)
\* [mutant] a failed attempt is not reported
ConnectingCompleteStrict(s, ok) ==
  IF s = "connecting" /\ ok THEN "connected" ELSE s

ConnectingComplete(s, ok) ==
  IF s \notin {"disconnected", "connecting"} THEN s
  ELSE IF ok THEN "connected" ELSE "disconnected"

\* [mutant] a disconnection counts only for a connected service
DisconnectingCompleteLate(s, ok) ==
  IF s # "connected" THEN s ELSE IF ok THEN "disconnected" ELSE "connected"

\* "If disconnect fails, we assume it remains connected"
DisconnectingComplete(s, ok) ==
  IF s \notin {"connected", "disconnecting"} THEN s
  ELSE IF ok THEN "disconnected" ELSE "connected"

\* service_set_connecting: refused for a service that is gone or disconnecting
MayConnect(s) == s \notin {"none", "disconnecting"}
SetConnecting(s) == IF s = "disconnected" THEN "connecting" ELSE s

\* the service a connection holds, "none" when it was removed, and the
\* services after that one changes
ServiceOf(c) == IF conns[c].own THEN service[conns[c].dev] ELSE "none"
WithService(c, s) == IF conns[c].own THEN [service EXCEPT ![conns[c].dev] = s] ELSE service

-----------------------------------------------------------------------------
(***************************************************************************)
(* Registration.  remove_ext removes the services of every device and frees *)
(* every connection; it runs for UnregisterProfile, when the program leaves *)
(* the bus, and (after Release) when the daemon exits.                      *)
(***************************************************************************)
RegisterProfile ==
  /\ ~registered
  /\ registered' = TRUE
  /\ authorize' \in BOOLEAN
  /\ \E S \in SUBSET devs :      \* the devices that list the profile's UUID
       service' = [d \in Dev |-> IF d \in S THEN "disconnected" ELSE "none"]
  /\ UNCHANGED <<devs, nconn, conns>>

\* [mutant] the connections are not freed
RemoveExtKeeps ==
  /\ registered
  /\ registered' = FALSE
  /\ service' = [d \in Dev |-> "none"]
  /\ UNCHANGED <<authorize, devs, nconn, conns>>

RemoveExt ==
  /\ registered
  /\ registered' = FALSE
  /\ service' = [d \in Dev |-> "none"]
  /\ conns' = [c \in {} |-> 0]
  /\ UNCHANGED <<authorize, devs, nconn>>

-----------------------------------------------------------------------------
(***************************************************************************)
(* Connections                                                             *)
(***************************************************************************)
\* ext->conns = g_slist_remove(...); ext_io_destroy(conn)
Drop(c) == conns' = [e \in live \ {c} |-> conns[e]]
Update(c, r) == conns' = [conns EXCEPT ![c] = r]

\* g_slist_append(ext->conns, conn)
Add(r) ==
  /\ nconn < MaxConn
  /\ nconn' = nconn + 1
  /\ conns' = [e \in live \cup {nconn + 1} |-> IF e = nconn + 1 THEN r ELSE conns[e]]

\* [mutant] the probe does not leave the UNAVAILABLE state
ProbedNot(d) == IF service[d] = "none" THEN "unavailable" ELSE service[d]

\* create_conn adds the UUID to the device, which probes the service
Probed(d) == IF service[d] = "none" THEN "disconnected" ELSE service[d]

\* ext_confirm: an incoming connection that asks for authorization
ExtConfirm(d) ==
  /\ registered /\ authorize /\ d \in devs
  /\ Add(Incoming(d))
  /\ service' = [service EXCEPT ![d] = Probed(d)]
  /\ UNCHANGED <<registered, authorize, devs>>

\* ext_auth: the answer, and bt_io_accept when it is yes
ExtAuth(c) ==
  /\ c \in live /\ conns[c].auth
  /\ \/ Update(c, [conns[c] EXCEPT !.auth = FALSE, !.step = "io"])
     \/ Drop(c)
  /\ UNCHANGED <<registered, authorize, devs, service, nconn>>

\* [mutant] a connection whose service refuses stays in the list
ExtConnectKept(c) ==
  /\ c \in live /\ conns[c].step = "io"
  /\ IF MayConnect(ServiceOf(c))
       THEN /\ service' = WithService(c, SetConnecting(ServiceOf(c)))
            /\ Update(c, [conns[c] EXCEPT !.watch = TRUE, !.step = "none", !.pending = "new"])
       ELSE /\ UNCHANGED service
            /\ Update(c, [conns[c] EXCEPT !.watch = TRUE, !.step = "none"])
  /\ UNCHANGED <<registered, authorize, devs, nconn>>

\* ext_connect: the channel is up (or not), the service is told, and the
\* program gets NewConnection
ExtConnect(c) ==
  /\ c \in live /\ conns[c].step = "io"
  /\ \/ /\ MayConnect(ServiceOf(c))
        /\ service' = WithService(c, SetConnecting(ServiceOf(c)))
        /\ Update(c, [conns[c] EXCEPT !.watch = TRUE, !.step = "none", !.pending = "new"])
     \/ /\ service' = WithService(c, ConnectingComplete(ServiceOf(c), FALSE))
        /\ Drop(c)
  /\ UNCHANGED <<registered, authorize, devs, nconn>>

\* ext_direct_connect: create_conn and ext_connect in one callback
ExtDirectConnect(d) ==
  /\ registered /\ ~authorize /\ d \in devs
  /\ \/ /\ MayConnect(Probed(d))
        /\ service' = [service EXCEPT ![d] = SetConnecting(Probed(d))]
        /\ Add([Incoming(d) EXCEPT !.pending = "new"])
     \/ /\ service' = [service EXCEPT ![d] = ConnectingComplete(Probed(d), FALSE)]
        /\ UNCHANGED <<nconn, conns>>
  /\ UNCHANGED <<registered, authorize, devs>>

\* new_conn_reply: the program's answer, an error, or the time-out
NewConnReply(c) ==
  /\ c \in live /\ conns[c].pending = "new"
  /\ \E ok \in BOOLEAN :
       /\ service' = WithService(c, ConnectingComplete(ServiceOf(c), ok))
       /\ IF ok THEN Update(c, [conns[c] EXCEPT !.pending = "none", !.connected = TRUE])
                ELSE Drop(c)
  /\ UNCHANGED <<registered, authorize, devs, nconn>>

\* disconn_reply: whatever the answer, the connection goes
DisconnReply(c) ==
  /\ c \in live /\ conns[c].pending = "disc"
  /\ \E ok \in BOOLEAN : service' = WithService(c, DisconnectingComplete(ServiceOf(c), ok))
  /\ Drop(c)
  /\ UNCHANGED <<registered, authorize, devs, nconn>>

\* [mutant] a hang-up always completes a disconnection
HangUpAsDisconnect(c) ==
  /\ c \in live /\ conns[c].watch
  /\ service' = WithService(c, DisconnectingComplete(ServiceOf(c), TRUE))
  /\ Drop(c)
  /\ UNCHANGED <<registered, authorize, devs, nconn>>

\* ext_io_disconnected: the peer hung up, at any moment
ExtIoDisconnected(c) ==
  /\ c \in live /\ conns[c].watch
  /\ service' = WithService(c, IF ServiceOf(c) = "connecting"
                                 THEN ConnectingComplete(ServiceOf(c), FALSE)
                                 ELSE DisconnectingComplete(ServiceOf(c), TRUE))
  /\ Drop(c)
  /\ UNCHANGED <<registered, authorize, devs, nconn>>

-----------------------------------------------------------------------------
(***************************************************************************)
(* Connecting and disconnecting a service from this side                   *)
(***************************************************************************)
\* btd_service_connect with ext_connect_dev, which looks up the channel first
\* unless it is configured
ServiceConnect(d) ==
  /\ service[d] = "disconnected" /\ ConnsOf(d) = {}
  /\ \E s \in {"sdp", "io"} : Add(Outgoing(d, s))
  /\ service' = [service EXCEPT ![d] = "connecting"]
  /\ UNCHANGED <<registered, authorize, devs>>

\* record_cb: the SDP records, and connect_io when they name a channel
RecordCb(c) ==
  /\ c \in live /\ conns[c].step = "sdp"
  /\ \/ /\ Update(c, [conns[c] EXCEPT !.step = "io"])
        /\ UNCHANGED service
     \/ /\ service' = WithService(c, ConnectingComplete(ServiceOf(c), FALSE))
        /\ Drop(c)
  /\ UNCHANGED <<registered, authorize, devs, nconn>>

Accepted(d) == ConnsOf(d) # {} /\ conns[FindConnection(d)].connected

\* btd_service_disconnect with ext_disconnect_dev: RequestDisconnection goes
\* to the program for a connection it accepted; otherwise -ENOTCONN counts as
\* disconnected, -EBUSY and a failed send as still connected
ServiceDisconnect(d) ==
  /\ service[d] \in {"connecting", "connected"}
  /\ IF ~Accepted(d)
       THEN service' = [service EXCEPT ![d] = "disconnected"] /\ UNCHANGED conns
       ELSE LET c == FindConnection(d) IN
              \/ /\ service' = [service EXCEPT ![d] = "connected"]
                 /\ UNCHANGED conns
              \/ /\ conns[c].pending = "none"
                 /\ service' = [service EXCEPT ![d] = "disconnecting"]
                 /\ Update(c, [conns[c] EXCEPT !.pending = "disc"])
  /\ UNCHANGED <<registered, authorize, devs, nconn>>

-----------------------------------------------------------------------------
(***************************************************************************)
(* Devices                                                                 *)
(***************************************************************************)
DeviceAdded(d) ==
  /\ d \notin devs
  /\ devs' = devs \cup {d}
  /\ UNCHANGED <<registered, authorize, service, nconn, conns>>

\* the device's UUIDs become known and device_probe_profiles finds this one
ServiceProbe(d) ==
  /\ registered /\ d \in devs /\ service[d] = "none"
  /\ service' = [service EXCEPT ![d] = "disconnected"]
  /\ UNCHANGED <<registered, authorize, devs, nconn, conns>>

\* btd_adapter_remove_device cancels the device's authorizations, so that
\* ext_auth drops their connections; then service_remove and ext_device_remove
\* drop the first connection that is left.  Others stay, with a dead service.
DeviceRemoved(d) ==
  /\ d \in devs
  /\ devs' = devs \ {d}
  /\ LET rest == {c \in ConnsOf(d) : ~conns[c].auth}
         first == {c \in rest : \A e \in rest : c <= e}
         left == live \ ((ConnsOf(d) \ rest) \cup first)
     IN conns' = [c \in left |-> IF c \in rest THEN [conns[c] EXCEPT !.own = FALSE]
                                               ELSE conns[c]]
  /\ service' = [service EXCEPT ![d] = "none"]
  /\ UNCHANGED <<registered, authorize, nconn>>

Callback(c) ==
  ExtConnect(c) \/ NewConnReply(c) \/ DisconnReply(c) \/ RecordCb(c)

Next ==
  \/ RegisterProfile \/ RemoveExt
  \/ \E d \in Dev : \/ ExtConfirm(d) \/ ExtDirectConnect(d)
                    \/ ServiceConnect(d) \/ ServiceDisconnect(d)
                    \/ DeviceAdded(d) \/ ServiceProbe(d) \/ DeviceRemoved(d)
  \/ \E c \in ConnId : Callback(c) \/ ExtAuth(c) \/ ExtIoDisconnected(c)

Spec == Init /\ [][Next]_vars

(***************************************************************************)
(* What the daemon awaits comes: a call to the program is answered or times *)
(* out, a search and a connection attempt end.  Authorization is not        *)
(* assumed to be answered, nor anybody to hang up or to connect.            *)
(***************************************************************************)
FairSpec == Spec /\ \A c \in ConnId : WF_vars(Callback(c))

-----------------------------------------------------------------------------
(***************************************************************************)
(* Properties                                                              *)
(***************************************************************************)
\* The records, the services and the list of connections keep their types.
TypeOK ==
  /\ registered \in BOOLEAN /\ authorize \in BOOLEAN /\ devs \subseteq Dev
  /\ service \in [Dev -> State]
  /\ nconn \in 0..MaxConn /\ live \subseteq 1..nconn
  /\ conns \in [live -> Conn]

\* A record in ext->conns always has a way out: it waits for exactly one of
\* the authorization, the search, the channel and a reply, or the program
\* accepted it and its hang-up is watched.
ConnectionsAwaitSomething ==
  \A c \in live :
     LET k == conns[c] IN
       \/ k.auth /\ k.watch /\ k.step = "none" /\ k.pending = "none" /\ ~k.connected
       \/ k.step # "none" /\ ~k.auth /\ k.pending = "none" /\ ~k.connected
       \/ k.pending = "new" /\ k.watch /\ ~k.auth /\ k.step = "none" /\ ~k.connected
       \/ k.connected /\ k.watch /\ ~k.auth /\ k.step = "none" /\ k.pending # "new"

\* A service is CONNECTING only while a connection of its device is being made:
\* no order of replies, hang-ups and disconnects leaves it there.
ConnectingHasAttempt ==
  \A d \in Dev : service[d] = "connecting" =>
     \E c \in ConnsOf(d) : ~conns[c].connected /\ ~conns[c].auth

\* A service is DISCONNECTING only while the program owes the answer to a
\* RequestDisconnection for one of the device's connections.
DisconnectingHasRequest ==
  \A d \in Dev : service[d] = "disconnecting" =>
     \E c \in ConnsOf(d) : conns[c].pending = "disc"

\* A service in transition comes to rest, although nobody promises that an
\* authorization is ever answered.
TransitionsEnd ==
  \A d \in Dev : (service[d] \in {"connecting", "disconnecting"}) ~>
                 (service[d] \notin {"connecting", "disconnecting"})

\* After the profile is gone, or a device, no service of it is left, and every
\* connection that is left belongs to no service; a connection of a known
\* device has its service.
NothingWithoutProfile ==
  /\ ~registered => live = {} /\ \A d \in Dev : service[d] = "none"
  /\ \A d \in Dev \ devs : service[d] = "none"
  /\ \A c \in live : conns[c].own => ServiceOf(c) # "none"

\* service.c: "If disconnect fails, we assume it remains connected": a
\* CONNECTED service has a connection that the program accepted.
ConnectedServiceHasConnection ==
  \A d \in Dev : service[d] = "connected" => \E c \in ConnsOf(d) : conns[c].connected
=============================================================================
