------------------------------ MODULE Listener ------------------------------
(***************************************************************************)
(* The profile application of src/Profile: one Listener object, the Socket  *)
(* its owner lent it, the owner's thread, the listen thread that runs the   *)
(* D-Bus handlers, the process's descriptor table, and bluetoothd as far as *)
(* org.bluez.ProfileManager1 / Profile1 / Adapter1 show it to the program.  *)
(*                                                                         *)
(* Every method call the daemon sends has a number, its place in calls; the *)
(* RFCOMM link a NewConnection carries is known by the number of the call.  *)
(***************************************************************************)
EXTENDS Integers, Sequences, FiniteSets

CONSTANTS
  Dev,        \* Bluetooth devices (object paths containing "dev_")
  NoDev,      \* the empty path _dbusObjectPathCtdDevice starts with
  Hci0Dev,    \* the devices below /org/bluez/hci0
  Use,        \* what the owner calls after startListening
  Faults,     \* how bluetoothd may go away
  FdLimit,    \* bound: descriptors free when the program starts
  MaxCalls    \* bound: method calls the daemon makes in a behaviour

ASSUME DevAssumption == /\ NoDev \notin Dev
                        /\ Hci0Dev \subseteq Dev
ASSUME UseAssumption == /\ Use \subseteq {"stop", "disconnect", "destroy"}
                        /\ Faults \subseteq {"exit", "crash"}
ASSUME BoundAssumption == FdLimit \in Nat /\ MaxCalls \in Nat

VARIABLES
  \* the Listener object
  iface,      \* _p_bluezProfileInterface != NULL: the skeleton is exported
  psocket,    \* _p_socket != NULL
  heartbeat,  \* _heartbeat
  sock,       \* the Socket the owner passed by reference
  ctd,        \* _dbusObjectPathCtdDevice
  \* the owner's thread
  opc, oop, ofd, obad,
  \* the listen thread: pc "none" is a std::thread that is not joinable
  lpc, batch, cur, newfd, todo, perror, lfd,
  \* the process: why it aborted, and its descriptors
  aborted, fds,
  \* the bus and the daemon
  calls, status, registered, daemon, devs

objVars == <<iface, psocket, heartbeat, sock, ctd>>
ownVars == <<opc, oop, ofd, obad>>
lisVars == <<lpc, batch, cur, newfd, todo, perror, lfd>>
busVars == <<calls, status, registered, daemon, devs>>
vars == <<objVars, ownVars, lisVars, aborted, fds, busVars>>

NoFd == -1
Free == 0
Fd == 3..(FdLimit + 2)
CallId == 1..MaxCalls
Method == {"NewConnection", "Release"}
Status == {"queued", "stale", "running", "taken", "error"}
Call == [m : Method, dev : Dev \cup {NoDev}, fd : Fd \cup {NoFd}]

(***************************************************************************)
(* The kernel's descriptor table.  A new descriptor is the lowest free one. *)
(***************************************************************************)
FreeFds == {f \in Fd : fds[f] = Free}
LowestFree == CHOOSE f \in FreeFds : \A g \in FreeFds : f <= g
Closed(table, f) == [g \in Fd |-> IF g = f THEN Free ELSE table[g]]

\* a failed assert(), g_assert_no_error() or glibc abort ends the process
Abort(why) ==
  /\ aborted' = why
  /\ UNCHANGED <<objVars, ownVars, lisVars, fds, busVars>>

Running == aborted = "no"

(***************************************************************************)
(* class Socket                                                            *)
(***************************************************************************)
SocketOf(f) == [fd |-> f, st |-> IF f > 0 THEN "Connected" ELSE "NotConnected"]
\* [mutant] the descriptor is reset to 0
AfterCloseZero(f) == [fd |-> IF f = NoFd THEN sock.fd ELSE 0, st |-> "NotConnected"]

\* [mutant] the descriptor is not reset after the close
AfterCloseKept(f) == [fd |-> sock.fd, st |-> "NotConnected"]

\* what closeConnection leaves in the Socket when it loaded the descriptor f
AfterClose(f) == [fd |-> IF f = NoFd THEN sock.fd ELSE NoFd, st |-> "NotConnected"]

\* setsockopt and fcntl of setupSocket succeed on an open descriptor only
SetupOk(f) == f \in Fd /\ fds[f] # Free

Init ==
  /\ iface = FALSE /\ psocket = FALSE /\ heartbeat = FALSE
  /\ sock = SocketOf(NoFd) /\ ctd = NoDev
  /\ opc = "idle" /\ oop = "none" /\ ofd = NoFd /\ obad = FALSE
  /\ lpc = "none" /\ batch = {} /\ cur = 0 /\ newfd = NoFd
  /\ todo = {} /\ perror = FALSE /\ lfd = NoFd
  /\ aborted = "no" /\ fds = [f \in Fd |-> Free]
  /\ calls = <<>> /\ status = <<>> /\ registered = FALSE
  /\ daemon = "up" /\ devs \in SUBSET Dev

-----------------------------------------------------------------------------
(***************************************************************************)
(* The owner's thread: startListening, stopListening, disconnect and the    *)
(* destructor.  A synchronous D-Bus call is two steps, the call and the     *)
(* reply, so that everything else may happen in between.                   *)
(***************************************************************************)
OwnerGoes(pc) == opc' = pc /\ UNCHANGED <<oop, ofd, obad>>

\* startListening up to the RegisterProfile call.  The assertion that no
\* interface exists is the caller's obligation: nobody starts twice.
StartListening ==
  /\ Running /\ opc = "idle" /\ ~iface
  /\ iface' = TRUE
  /\ opc' = "registering" /\ oop' = "start"
  /\ UNCHANGED <<psocket, heartbeat, sock, ctd, ofd, obad, lisVars, aborted, fds, busVars>>

\* the daemon's answer to RegisterProfile
RegisterReply ==
  /\ Running /\ opc = "registering"
  /\ IF daemon = "up"
       THEN /\ registered' = TRUE
            /\ OwnerGoes("starting")
            /\ UNCHANGED <<objVars, lisVars, aborted, fds, calls, status, daemon, devs>>
       ELSE Abort("register")
\* [mutant] startListening forgets to store the Socket
StartThreadNoSocket ==
  /\ Running /\ opc = "starting"
  /\ heartbeat' = TRUE /\ lpc' = "top"
  /\ opc' = "idle" /\ oop' = "none"
  /\ UNCHANGED <<iface, psocket, sock, ctd, ofd, obad, batch, cur, newfd, todo, perror, lfd,
                 aborted, fds, busVars>>

\* the rest of startListening: only now is there a Socket to hand out
StartThread ==
  /\ Running /\ opc = "starting"
  /\ psocket' = TRUE /\ heartbeat' = TRUE
  /\ lpc' = "top"
  /\ opc' = "idle" /\ oop' = "none"
  /\ UNCHANGED <<iface, sock, ctd, ofd, obad, batch, cur, newfd, todo, perror, lfd,
                 aborted, fds, busVars>>
\* [mutant] stopListening does not wait for the thread
StopWithoutJoin ==
  /\ Running /\ opc = "idle"
  /\ \/ "stop" \in Use /\ iface /\ oop' = "stop"
     \/ "destroy" \in Use /\ oop' = "destroy"
  /\ heartbeat' = FALSE
  /\ opc' = "unregister"
  /\ UNCHANGED <<iface, psocket, sock, ctd, ofd, obad, lisVars, aborted, fds, busVars>>

\* [mutant] stopListening does not tell the thread
StopWithoutSignal ==
  /\ Running /\ opc = "idle"
  /\ "stop" \in Use /\ iface /\ oop' = "stop"
  /\ opc' = IF lpc = "none" THEN "unregister" ELSE "joining"
  /\ UNCHANGED <<iface, psocket, heartbeat, sock, ctd, ofd, obad, lisVars, aborted, fds, busVars>>

\* stopListening, called for a Listener that listens, or by ~Listener
StopListening ==
  /\ Running /\ opc = "idle"
  /\ \/ "stop" \in Use /\ iface /\ oop' = "stop"
     \/ "destroy" \in Use /\ oop' = "destroy"
  /\ heartbeat' = FALSE
  /\ opc' = IF lpc = "none" THEN "unregister" ELSE "joining"
  /\ UNCHANGED <<iface, psocket, sock, ctd, ofd, obad, lisVars, aborted, fds, busVars>>

Join ==
  /\ Running /\ opc = "joining" /\ lpc = "done"
  /\ lpc' = "none"
  /\ OwnerGoes("unregister")
  /\ UNCHANGED <<objVars, batch, cur, newfd, todo, perror, lfd, aborted, fds, busVars>>

\* unregisterProfile up to the UnregisterProfile call
UnregisterProfile ==
  /\ Running /\ opc = "unregister"
  /\ IF iface
       THEN /\ OwnerGoes("unregistering")
            /\ UNCHANGED <<objVars, lisVars, aborted, fds, busVars>>
       ELSE Abort("iface")

UnregisterReply ==
  /\ Running /\ opc = "unregistering"
  /\ IF daemon = "up" /\ registered
       THEN /\ registered' = FALSE
            /\ OwnerGoes("unexport")
            /\ UNCHANGED <<objVars, lisVars, aborted, fds, calls, status, daemon, devs>>
       ELSE Abort("unregister")

\* a call that was scheduled for the skeleton being unexported outlives it
StaleStatus == [i \in DOMAIN status |-> IF status[i] = "queued" THEN "stale" ELSE status[i]]

Unexport ==
  /\ Running /\ opc = "unexport"
  /\ iface' = FALSE
  /\ status' = StaleStatus
  /\ IF psocket THEN OwnerGoes("load") /\ UNCHANGED aborted
                ELSE aborted' = "psocket" /\ UNCHANGED ownVars
  /\ UNCHANGED <<psocket, heartbeat, sock, ctd, lisVars, fds, calls, registered, daemon, devs>>

\* disconnect(): the GError pointer handed to g_dbus_proxy_new_sync is never
\* initialised.  When it happens to be NULL the daemon is asked, by a call
\* whose answer nobody waits for; when it is not, no proxy is made and the
\* garbage is freed at the end.  Nobody disconnects a Listener that never
\* listened: the assertion on _p_socket is the caller's obligation here.
Disconnect ==
  /\ Running /\ opc = "idle" /\ "disconnect" \in Use /\ psocket
  /\ obad' \in BOOLEAN
  /\ opc' = "load" /\ oop' = "disconnect"
  /\ UNCHANGED <<objVars, ofd, lisVars, aborted, fds, busVars>>

\* closeConnection in the owner's thread: the test, the close, the store
OwnerLoad ==
  /\ Running /\ opc = "load"
  /\ ofd' = sock.fd
  /\ opc' = IF sock.fd = NoFd THEN "clear" ELSE "close"
  /\ UNCHANGED <<objVars, oop, obad, lisVars, aborted, fds, busVars>>

OwnerClose ==
  /\ Running /\ opc = "close"
  /\ fds' = Closed(fds, ofd)
  /\ OwnerGoes("clear")
  /\ UNCHANGED <<objVars, lisVars, aborted, busVars>>

OwnerClear ==
  /\ Running /\ opc = "clear"
  /\ sock' = AfterClose(ofd)
  /\ opc' = IF oop = "destroy" THEN "ended" ELSE "idle"
  /\ oop' = "none" /\ ofd' = NoFd /\ obad' = FALSE
  /\ aborted' = IF obad THEN "uninitialised" ELSE aborted
  /\ UNCHANGED <<iface, psocket, heartbeat, ctd, lisVars, fds, busVars>>

Owner == \/ RegisterReply \/ StartThread \/ Join \/ UnregisterProfile
         \/ UnregisterReply \/ Unexport \/ OwnerLoad \/ OwnerClose \/ OwnerClear

-----------------------------------------------------------------------------
(***************************************************************************)
(* The listen thread.  One turn of listenTask's loop dispatches the calls   *)
(* that were ready when g_main_context_iteration polled, in order.          *)
(***************************************************************************)
Waiting == {i \in DOMAIN status : status[i] \in {"queued", "stale"}}
First(S) == CHOOSE i \in S : \A j \in S : i <= j
With(i, s) == [status EXCEPT ![i] = s]

\* a handler has returned TRUE: its locals are gone, its invocation is not
HandlerReturns ==
  /\ lpc' = "dispatch" /\ cur' = 0 /\ newfd' = NoFd
  /\ todo' = {} /\ perror' = FALSE /\ lfd' = NoFd
  /\ status' = With(cur, "taken")
  /\ UNCHANGED batch

\* the test of the while loop, and the poll when it succeeds
ListenTask ==
  /\ Running /\ lpc = "top"
  /\ IF heartbeat THEN lpc' = "dispatch" /\ batch' = Waiting
                  ELSE lpc' = "done" /\ UNCHANGED batch
  /\ UNCHANGED <<objVars, ownVars, cur, newfd, todo, perror, lfd, aborted, fds, busVars>>
\* [mutant] the main context is iterated once
IterationDoneOnce ==
  /\ Running /\ lpc = "dispatch" /\ batch = {}
  /\ lpc' = "done"
  /\ UNCHANGED <<objVars, ownVars, batch, cur, newfd, todo, perror, lfd, aborted, fds, busVars>>

\* the end of an iteration (and of the sleep that follows it)
IterationDone ==
  /\ Running /\ lpc = "dispatch" /\ batch = {}
  /\ lpc' = "top"
  /\ UNCHANGED <<objVars, ownVars, batch, cur, newfd, todo, perror, lfd, aborted, fds, busVars>>

\* a call whose skeleton is gone is answered with an error and freed,
\* the descriptor it carries included
DispatchStale ==
  /\ Running /\ lpc = "dispatch" /\ batch # {}
  /\ LET i == First(batch) IN
       /\ status[i] = "stale"
       /\ batch' = batch \ {i}
       /\ status' = With(i, "error")
       /\ fds' = Closed(fds, calls[i].fd)
  /\ UNCHANGED <<objVars, ownVars, lpc, cur, newfd, todo, perror, lfd, aborted,
                 calls, registered, daemon, devs>>

\* _org_bluez_profile1_skeleton_handle_method_call emits the signal the
\* method is connected to
Dispatch(m) ==
  /\ Running /\ lpc = "dispatch" /\ batch # {}
  /\ status[First(batch)] = "queued"
  /\ calls[First(batch)].m = m
  /\ batch' = batch \ {First(batch)}
  /\ cur' = First(batch)
  /\ status' = With(First(batch), "running")
  /\ UNCHANGED <<objVars, ownVars, todo, perror, lfd, calls, registered, daemon, devs>>
\* [mutant] the handler asks for the second descriptor of the message
HandleNewConnectionNoFd ==
  /\ Dispatch("NewConnection")
  /\ newfd' = NoFd
  /\ lpc' = "find" /\ UNCHANGED <<fds, aborted>>

\* [mutant] the handler keeps the message's own descriptor
HandleNewConnectionPeek ==
  /\ Dispatch("NewConnection")
  /\ newfd' = calls[First(batch)].fd
  /\ lpc' = "find" /\ UNCHANGED <<fds, aborted>>

\* handleNewConnectionCallback: g_unix_fd_list_get duplicates the descriptor
\* of the message; without one it returns -1 and sets no error
HandleNewConnection ==
  /\ Dispatch("NewConnection")
  /\ LET f == calls[First(batch)].fd IN
       \/ /\ f # NoFd /\ FreeFds # {}
          /\ newfd' = LowestFree
          /\ fds' = [fds EXCEPT ![LowestFree] = First(batch)]
          /\ lpc' = "find" /\ UNCHANGED aborted
       \/ /\ f = NoFd
          /\ newfd' = NoFd
          /\ lpc' = "find" /\ UNCHANGED <<fds, aborted>>
       \/ /\ f # NoFd /\ FreeFds = {}
          /\ aborted' = "descriptor"
          /\ UNCHANGED <<newfd, fds, lpc>>

\* handleReleaseCallback up to the test of disconnectSocket.  The handler of
\* RequestDisconnection does the same, but no call of it comes: the daemon
\* sends it for connections whose NewConnection was answered.
HandleRelease ==
  /\ Dispatch("Release")
  /\ IF psocket THEN lpc' = "load" /\ UNCHANGED aborted
                ELSE aborted' = "psocket" /\ UNCHANGED lpc
  /\ UNCHANGED <<newfd, fds>>

\* removeAllDevicesExcept and findAllRecognizedDevices up to the reply to
\* GetManagedObjects; the order of the objects in it is the daemon's
FindAllRecognizedDevices ==
  /\ Running /\ lpc = "find"
  /\ IF daemon = "up"
       THEN /\ todo' = devs \ {calls[cur].dev}
            /\ lpc' = "remove"
            /\ UNCHANGED <<objVars, ownVars, batch, cur, newfd, perror, lfd, aborted, fds, busVars>>
       ELSE Abort("objects")

\* Adapter1.RemoveDevice of hci0 knows only the devices of that adapter
RemoveDeviceOk(d) == daemon = "up" /\ d \in devs /\ d \in Hci0Dev

\* one turn of the loop of removeAllDevicesExcept.  The GError is never
\* cleared, and g_dbus_proxy_call_sync calls nobody when it is set.
RemoveDevice(d) ==
  /\ Running /\ lpc = "remove" /\ d \in todo
  /\ todo' = todo \ {d}
  /\ IF ~perror /\ RemoveDeviceOk(d)
       THEN devs' = devs \ {d} /\ UNCHANGED perror
       ELSE perror' = TRUE /\ UNCHANGED devs
  /\ UNCHANGED <<objVars, ownVars, lpc, batch, cur, newfd, lfd, aborted, fds,
                 calls, status, registered, daemon>>
\* [mutant] the path of the connected device is not stored
CreateWithoutPath ==
  /\ Running /\ lpc = "remove" /\ todo = {}
  /\ psocket /\ SetupOk(newfd)
  /\ sock' = SocketOf(newfd)
  /\ HandlerReturns
  /\ UNCHANGED <<iface, psocket, heartbeat, ctd, ownVars, aborted, fds,
                 calls, registered, daemon, devs>>

\* createNewSocketConnection and the return of the handler.  The descriptor
\* the Socket held before is overwritten, not closed.
CreateNewSocketConnection ==
  /\ Running /\ lpc = "remove" /\ todo = {}
  /\ \/ ~psocket /\ Abort("psocket")
     \/ psocket /\ ~SetupOk(newfd) /\ Abort("setup")
     \/ /\ psocket /\ SetupOk(newfd)
        /\ sock' = SocketOf(newfd)
        /\ ctd' = calls[cur].dev
        /\ HandlerReturns
        /\ UNCHANGED <<iface, psocket, heartbeat, ownVars, aborted, fds,
                       calls, registered, daemon, devs>>

\* closeConnection in the listen thread: the test, the close, the store
ListenerLoad ==
  /\ Running /\ lpc = "load"
  /\ lfd' = sock.fd
  /\ lpc' = IF sock.fd = NoFd THEN "clear" ELSE "close"
  /\ UNCHANGED <<objVars, ownVars, batch, cur, newfd, todo, perror, aborted, fds, busVars>>

ListenerClose ==
  /\ Running /\ lpc = "close"
  /\ fds' = Closed(fds, lfd)
  /\ lpc' = "clear"
  /\ UNCHANGED <<objVars, ownVars, batch, cur, newfd, todo, perror, lfd, aborted, busVars>>

ListenerClear ==
  /\ Running /\ lpc = "clear"
  /\ sock' = AfterClose(lfd)
  /\ HandlerReturns
  /\ UNCHANGED <<iface, psocket, heartbeat, ctd, ownVars, aborted, fds,
                 calls, registered, daemon, devs>>

ListenThread ==
  \/ ListenTask \/ IterationDone \/ DispatchStale
  \/ HandleNewConnection \/ HandleRelease
  \/ FindAllRecognizedDevices \/ (\E d \in Dev : RemoveDevice(d))
  \/ CreateNewSocketConnection
  \/ ListenerLoad \/ ListenerClose \/ ListenerClear

-----------------------------------------------------------------------------
(***************************************************************************)
(* bluetoothd, as doc/profile-api.txt and src/profile.c let a profile see   *)
(* it.  The bus keeps the order of one sender's messages, so a call sent    *)
(* before the answer to UnregisterProfile is in the queue before it.        *)
(***************************************************************************)
Received(m, d, f) ==
  /\ Len(calls) < MaxCalls
  /\ calls' = Append(calls, [m |-> m, dev |-> d, fd |-> f])
  /\ status' = Append(status, "queued")

\* GDBus' worker thread receives the message and with it a descriptor of the
\* link, unless the table is full
NewConnection(d) ==
  /\ Running /\ registered /\ d \in devs
  /\ IF FreeFds = {}
       THEN Received("NewConnection", d, NoFd) /\ UNCHANGED fds
       ELSE /\ Received("NewConnection", d, LowestFree)
            /\ fds' = [fds EXCEPT ![LowestFree] = Len(calls) + 1]
  /\ UNCHANGED <<objVars, ownVars, lisVars, aborted, registered, daemon, devs>>

\* the daemon exits in order (btd_profile_cleanup), or without a word
DaemonExit ==
  /\ Running /\ "exit" \in Faults /\ daemon = "up"
  /\ IF registered THEN Received("Release", NoDev, NoFd)
                   ELSE UNCHANGED <<calls, status>>
  /\ registered' = FALSE /\ daemon' = "down"
  /\ UNCHANGED <<objVars, ownVars, lisVars, aborted, fds, devs>>

DaemonCrash ==
  /\ Running /\ "crash" \in Faults /\ daemon = "up"
  /\ registered' = FALSE /\ daemon' = "down"
  /\ UNCHANGED <<objVars, ownVars, lisVars, aborted, fds, calls, status, devs>>

DaemonStart ==
  /\ Running /\ daemon = "down"
  /\ daemon' = "up"
  /\ UNCHANGED <<objVars, ownVars, lisVars, aborted, fds, calls, status, registered, devs>>

\* other clients and the radio make device objects come and go
DeviceAdded(d) ==
  /\ Running /\ daemon = "up" /\ d \notin devs
  /\ devs' = devs \cup {d}
  /\ UNCHANGED <<objVars, ownVars, lisVars, aborted, fds, calls, status, registered, daemon>>

DeviceRemoved(d) ==
  /\ Running /\ daemon = "up" /\ d \in devs
  /\ devs' = devs \ {d}
  /\ UNCHANGED <<objVars, ownVars, lisVars, aborted, fds, calls, status, registered, daemon>>

Daemon ==
  \/ \E d \in Dev : NewConnection(d) \/ DeviceAdded(d) \/ DeviceRemoved(d)
  \/ DaemonExit \/ DaemonCrash \/ DaemonStart

Next == StartListening \/ StopListening \/ Disconnect \/ Owner \/ ListenThread \/ Daemon

Spec == Init /\ [][Next]_vars

(***************************************************************************)
(* Both threads run, and every synchronous call returns: the daemon answers *)
(* or the D-Bus timeout does.  Nothing obliges the owner to call anything,  *)
(* nor the daemon or the radio to do anything.                             *)
(***************************************************************************)
Fairness == WF_vars(Owner) /\ WF_vars(ListenThread)
FairSpec == Spec /\ Fairness

-----------------------------------------------------------------------------
(***************************************************************************)
(* Properties                                                              *)
(***************************************************************************)
AbortReason == {"no", "register", "iface", "unregister", "psocket", "descriptor",
                "objects", "setup", "uninitialised"}

ObjectTypes ==
  /\ iface \in BOOLEAN /\ psocket \in BOOLEAN /\ heartbeat \in BOOLEAN
  /\ sock \in [fd : Fd \cup {NoFd}, st : {"Connected", "NotConnected"}]
  /\ ctd \in Dev \cup {NoDev}

OwnerTypes ==
  /\ opc \in {"idle", "registering", "starting", "joining", "unregister",
              "unregistering", "unexport", "load", "close", "clear", "ended"}
  /\ oop \in {"none", "start", "stop", "destroy", "disconnect"}
  /\ ofd \in Fd \cup {NoFd} /\ obad \in BOOLEAN

ListenTypes ==
  /\ lpc \in {"none", "top", "dispatch", "find", "remove", "load", "close", "clear", "done"}
  /\ batch \subseteq CallId /\ cur \in CallId \cup {0}
  /\ newfd \in Fd \cup {NoFd} /\ lfd \in Fd \cup {NoFd}
  /\ todo \subseteq Dev /\ perror \in BOOLEAN

ProcessTypes ==
  /\ aborted \in AbortReason
  /\ fds \in [Fd -> CallId \cup {Free}]

BusTypes ==
  /\ calls \in Seq(Call) /\ Len(calls) <= MaxCalls
  /\ status \in Seq(Status) /\ Len(status) = Len(calls)
  /\ registered \in BOOLEAN /\ daemon \in {"up", "down"} /\ devs \subseteq Dev

\* Every variable of the object, of the two threads, of the process and of
\* the bus keeps its type, and there is one status per call.
TypeOK == ObjectTypes /\ OwnerTypes /\ ListenTypes /\ ProcessTypes /\ BusTypes

\* When the Listener is started and stopped and neither disconnected nor
\* destroyed, with a daemon that stays and two descriptors per connection, no
\* assertion of Listener.cpp or socket.cpp ever fails.
NoAssertionFails == Running

\* The assertion that _p_socket is set (createNewSocketConnection,
\* disconnectSocket) never fails, although startListening registers the
\* profile, and so invites calls, before it sets _p_socket.
SocketPointerSet == aborted # "psocket"

\* The listen thread lives only while the skeleton is exported and _p_socket
\* is set: stopListening joins it before unregisterProfile takes both away.
ListenThreadInsideExport == lpc # "none" => iface /\ psocket

\* the Socket's descriptor is closed and the field not yet overwritten
Closing == \/ lpc = "clear" /\ lfd # NoFd
           \/ opc = "clear" /\ ofd # NoFd

Open == sock.fd # NoFd /\ ~Closing

Adopted == {i \in DOMAIN status : status[i] = "taken" /\ calls[i].m = "NewConnection"}

\* When only the handlers and stopListening touch the Socket, the descriptor
\* in it is open, belongs to the last connection a handler took, and that
\* connection's device is the one disconnect() would disconnect.
SocketHoldsLatestLink ==
  ("disconnect" \notin Use /\ Open) =>
     LET i == fds[sock.fd] IN
       /\ i \in Adopted /\ \A j \in Adopted : j <= i
       /\ calls[i].dev = ctd

\* A call that waits in the main context still owns the descriptor it came
\* with: no handler, no stopListening and no disconnect() closed it under the
\* call, although closeConnection takes no lock and numbers are reused.
QueuedDescriptorsOpen ==
  \A i \in Waiting : calls[i].fd # NoFd => fds[calls[i].fd] = i

\* f is the duplicate that a handler put into the Socket
Handed(f) == fds[f] \in Adopted /\ calls[fds[f]].fd # f

\* A step closes a duplicate that was handed to the Socket, or the descriptor
\* of a call that is answered with an error, and no other: when closeConnection
\* of disconnect() runs between the steps of a handler, or of the other
\* thread's closeConnection, it never closes the descriptor of a connection
\* that is still on its way to the Socket.
ClosesItsOwnOnly ==
  [][\A f \in Fd : (fds[f] # Free /\ fds'[f] = Free) =>
        \/ Handed(f)
        \/ \E i \in DOMAIN status :
              status[i] # "error" /\ status'[i] = "error" /\ calls[i].fd = f]_vars

\* Whatever the owner calls returns, or the process has aborted: join waits
\* for a handler that waits for the daemon, and for no longer.
OwnerCallReturns == (opc # "idle") ~> (opc \in {"idle", "ended"} \/ ~Running)

NewestAdopted == IF Adopted = {} THEN 0 ELSE CHOOSE i \in Adopted : \A j \in Adopted : j <= i

Slot == INSTANCE ConnectionSlot WITH
          MaxLink <- MaxCalls,
          link <- IF Open THEN fds[sock.fd] ELSE 0,
          newest <- NewestAdopted

\* Without disconnect(), the Socket is a ConnectionSlot: links enter it in the
\* order of delivery, each at most once, whatever stopListening does meanwhile.
SocketIsSlot == Slot!SlotSpec

Is(i, s) == i \in DOMAIN status /\ status[i] = s

\* A call that reaches an exported profile is taken by a handler, unless the
\* owner stops listening first: the loop polls again after every batch.
CallsAreTaken ==
  \A i \in CallId :
     Is(i, "queued") ~> (~Is(i, "queued") \/ opc \in {"joining", "unregister"} \/ ~Running)
=============================================================================
