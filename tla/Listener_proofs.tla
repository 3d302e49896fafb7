--------------------------- MODULE Listener_proofs ---------------------------
(***************************************************************************)
(* Type correctness of Listener, and the two facts about its threads: the   *)
(* listen thread lives only while the skeleton is exported and a Socket is  *)
(* set, and the assertion that a Socket is set never fails.  Then the       *)
(* descriptors: with disconnect() and a daemon that exits, closeConnection  *)
(* hits no descriptor but the Socket's; without disconnect(), the Socket    *)
(* holds the newest link and is a ConnectionSlot.                           *)
(***************************************************************************)
EXTENDS Listener, TLAPS, WellFoundedInduction, SequenceTheorems, FiniteSetTheorems

Handling == {"find", "remove", "load", "close", "clear"}

\* The calls the listen thread works on exist.
CallInv ==
  /\ batch \subseteq 1..Len(calls)
  /\ lpc \in Handling => cur \in 1..Len(calls)
  /\ \A i \in 1..Len(calls) : calls[i].m = "NewConnection" => calls[i].dev \in Dev

\* Where the owner is tells whether there is a listen thread, an exported
\* skeleton and a Socket.
ThreadInv ==
  /\ ListenThreadInsideExport
  /\ SocketPointerSet
  /\ iface => psocket \/ opc \in {"registering", "starting"}
  /\ opc \in {"registering", "starting"} => lpc = "none" /\ iface
  /\ opc = "joining" => iface
  /\ opc \in {"unregister", "unregistering", "unexport"} => lpc = "none"
  /\ opc \in {"unregistering", "unexport"} => iface
  /\ opc \in {"load", "close", "clear"} =>
       (oop = "disconnect" /\ "disconnect" \in Use) \/ (lpc = "none" /\ ~iface)
  /\ opc = "ended" => ~iface

IInv == TypeOK /\ CallInv /\ ThreadInv

-----------------------------------------------------------------------------
\* A nonempty set of natural numbers has a least element, so the CHOOSE of
\* LowestFree and of First picks a member of the set.
LEMMA LeastElement ==
  ASSUME NEW S \in SUBSET Nat, S # {}
  PROVE  \E i \in S : \A j \in S : i <= j
<1> DEFINE R == {ss \in Nat \X Nat : ss[1] < ss[2]}
<1>1. IsWellFoundedOn(R, Nat)
  BY NatLessThanWellFounded DEF OpToRel
<1>2. \E i \in S : \A j \in S : ~(<<j, i>> \in R)
  <2> HIDE DEF R
  <2> QED BY <1>1, WFMin
<1>3. PICK i \in S : \A j \in S : ~(<<j, i>> \in R)
  BY <1>2
<1>4. \A j \in S : i <= j
  <2> TAKE j \in S
  <2>1. ~(<<j, i>> \in R)
    BY <1>3
  <2> QED BY <2>1
<1> QED BY <1>4

\* A new descriptor was free before.
LEMMA LowestFreeIsFree ==
  ASSUME FreeFds # {}
  PROVE  LowestFree \in FreeFds
<1>1. FreeFds \in SUBSET Nat
  BY BoundAssumption DEF FreeFds, Fd
<1>2. \E f \in FreeFds : \A g \in FreeFds : f <= g
  BY <1>1, LeastElement
<1> QED BY <1>2 DEF LowestFree

\* The first of a non-empty batch is one of its calls.
LEMMA FirstIsMember ==
  ASSUME NEW S \in SUBSET Nat, S # {}
  PROVE  First(S) \in S /\ \A j \in S : First(S) <= j
<1>1. \E i \in S : \A j \in S : i <= j
  BY LeastElement
<1> QED BY <1>1 DEF First

-----------------------------------------------------------------------------
\* The constructor establishes the invariant.
LEMMA InitInv == Init => IInv
<1> SUFFICES ASSUME Init PROVE IInv
  OBVIOUS
<1>1. ObjectTypes /\ OwnerTypes
  BY DEF Init, ObjectTypes, OwnerTypes, SocketOf, NoFd
<1>2. ListenTypes /\ ProcessTypes
  BY DEF Init, ListenTypes, ProcessTypes, AbortReason
<1>3. BusTypes
  <2>1. calls \in Seq(Call) /\ status \in Seq(Status) /\ Len(calls) = 0 /\ Len(status) = 0
    BY DEF Init
  <2>2. registered \in BOOLEAN /\ daemon \in {"up", "down"} /\ devs \subseteq Dev
    BY DEF Init
  <2> QED BY <2>1, <2>2, BoundAssumption DEF BusTypes
<1>4. CallInv /\ ThreadInv
  BY DEF Init, CallInv, ThreadInv, ListenThreadInsideExport, SocketPointerSet, Handling
<1> QED BY <1>1, <1>2, <1>3, <1>4 DEF IInv, TypeOK

\* Each action keeps the types of the variables it changes, and the calls the
\* listen thread works on exist.
LEMMA TypeStep ==
  ASSUME TypeOK, CallInv, [Next]_vars
  PROVE  TypeOK' /\ CallInv'
<1>0. ObjectTypes /\ OwnerTypes /\ ListenTypes /\ ProcessTypes /\ BusTypes /\ CallInv
  BY DEF TypeOK
<1>f. batch # {} => First(batch) \in batch /\ First(batch) \in 1..Len(calls)
                                         /\ First(batch) \in CallId
  <2>1. batch \in SUBSET Nat /\ batch \subseteq 1..Len(calls) /\ batch \subseteq CallId
    BY <1>0, BoundAssumption DEF CallInv, ListenTypes, CallId
  <2> QED BY <2>1, FirstIsMember
<1>g. FreeFds # {} => LowestFree \in Fd
  BY LowestFreeIsFree DEF FreeFds
<1>n. 1..Len(calls) \subseteq CallId
  BY <1>0, BoundAssumption DEF BusTypes, CallId
<1>d. lpc \in Handling => calls[cur].dev \in Dev \cup {NoDev}
  <2>1. \A i \in 1..Len(calls) : calls[i] \in Call
    BY <1>0 DEF BusTypes
  <2> QED BY <1>0, <2>1 DEF CallInv, Call
<1>w. \A i \in 1..Len(calls), t \in Status :
         With(i, t) \in Seq(Status) /\ Len(With(i, t)) = Len(status)
  BY <1>0, ExceptSeq DEF With, BusTypes
<1>r. ASSUME NEW m \in Method, NEW e \in Dev \cup {NoDev}, NEW f \in Fd \cup {NoFd},
             Received(m, e, f)
      PROVE  /\ calls' \in Seq(Call) /\ Len(calls') <= MaxCalls
             /\ status' \in Seq(Status) /\ Len(status') = Len(calls')
  <2>1. [m |-> m, dev |-> e, fd |-> f] \in Call /\ "queued" \in Status
    BY DEF Call, Status
  <2>2. calls' \in Seq(Call) /\ Len(calls') = Len(calls) + 1
    BY <1>0, <1>r, <2>1 DEF Received, BusTypes
  <2>3. status' \in Seq(Status) /\ Len(status') = Len(status) + 1
    BY <1>0, <1>r, <2>1 DEF Received, BusTypes
  <2> QED BY <1>0, <1>r, <2>2, <2>3, BoundAssumption DEF Received, BusTypes
<1>uO. UNCHANGED objVars => ObjectTypes'
  BY <1>0 DEF objVars, ObjectTypes
<1>uW. UNCHANGED ownVars => OwnerTypes'
  BY <1>0 DEF ownVars, OwnerTypes
<1>uL. UNCHANGED lisVars => ListenTypes'
  BY <1>0 DEF lisVars, ListenTypes
<1>uP. UNCHANGED <<aborted, fds>> => ProcessTypes'
  BY <1>0 DEF ProcessTypes
<1>uB. UNCHANGED busVars => BusTypes'
  BY <1>0 DEF busVars, BusTypes
<1>1. CASE StartListening
  <2>1. ObjectTypes'
    BY <1>0, <1>1 DEF ObjectTypes, StartListening, objVars, ownVars, lisVars, busVars
  <2>2. OwnerTypes'
    BY <1>0, <1>1 DEF OwnerTypes, StartListening, objVars, ownVars, lisVars, busVars
  <2>3. CallInv'
    BY <1>0, <1>1 DEF CallInv, Handling, StartListening, objVars, ownVars, lisVars, busVars
  <2> QED BY <2>1, <2>2, <2>3, <1>1, <1>uL, <1>uP, <1>uB DEF TypeOK, StartListening, objVars, ownVars, lisVars, busVars
<1>2. CASE StopListening
  <2>1. ObjectTypes'
    BY <1>0, <1>2 DEF ObjectTypes, StopListening, objVars, ownVars, lisVars, busVars
  <2>2. OwnerTypes'
    BY <1>0, <1>2 DEF OwnerTypes, StopListening, objVars, ownVars, lisVars, busVars
  <2>3. CallInv'
    BY <1>0, <1>2 DEF CallInv, Handling, StopListening, objVars, ownVars, lisVars, busVars
  <2> QED BY <2>1, <2>2, <2>3, <1>2, <1>uL, <1>uP, <1>uB DEF TypeOK, StopListening, objVars, ownVars, lisVars, busVars
<1>3. CASE Disconnect
  <2>1. OwnerTypes'
    BY <1>0, <1>3 DEF OwnerTypes, Disconnect, objVars, ownVars, lisVars, busVars
  <2>2. CallInv'
    BY <1>0, <1>3 DEF CallInv, Handling, Disconnect, objVars, ownVars, lisVars, busVars
  <2> QED BY <2>1, <2>2, <1>3, <1>uO, <1>uL, <1>uP, <1>uB DEF TypeOK, Disconnect, objVars, ownVars, lisVars, busVars
<1>4. CASE RegisterReply
  <2>1. OwnerTypes'
    BY <1>0, <1>4 DEF OwnerTypes, RegisterReply, OwnerGoes, Abort, objVars, ownVars, lisVars, busVars
  <2>2. ProcessTypes'
    BY <1>0, <1>4 DEF ProcessTypes, RegisterReply, OwnerGoes, Abort, AbortReason, objVars, ownVars, lisVars, busVars
  <2>3. BusTypes'
    BY <1>0, <1>4 DEF BusTypes, RegisterReply, OwnerGoes, Abort, objVars, ownVars, lisVars, busVars
  <2>4. CallInv'
    BY <1>0, <1>4 DEF CallInv, Handling, RegisterReply, OwnerGoes, Abort, objVars, ownVars, lisVars, busVars
  <2> QED BY <2>1, <2>2, <2>3, <2>4, <1>4, <1>uO, <1>uL DEF TypeOK, RegisterReply, OwnerGoes, Abort, objVars, ownVars, lisVars, busVars
<1>5. CASE StartThread
  <2>1. ObjectTypes'
    BY <1>0, <1>5 DEF ObjectTypes, StartThread, objVars, ownVars, lisVars, busVars
  <2>2. OwnerTypes'
    BY <1>0, <1>5 DEF OwnerTypes, StartThread, objVars, ownVars, lisVars, busVars
  <2>3. ListenTypes'
    BY <1>0, <1>5 DEF ListenTypes, StartThread, objVars, ownVars, lisVars, busVars
  <2>4. CallInv'
    BY <1>0, <1>5 DEF CallInv, Handling, StartThread, objVars, ownVars, lisVars, busVars
  <2> QED BY <2>1, <2>2, <2>3, <2>4, <1>5, <1>uP, <1>uB DEF TypeOK, StartThread, objVars, ownVars, lisVars, busVars
<1>6. CASE Join
  <2>1. OwnerTypes'
    BY <1>0, <1>6 DEF OwnerTypes, Join, OwnerGoes, objVars, ownVars, lisVars, busVars
  <2>2. ListenTypes'
    BY <1>0, <1>6 DEF ListenTypes, Join, OwnerGoes, objVars, ownVars, lisVars, busVars
  <2>3. CallInv'
    BY <1>0, <1>6 DEF CallInv, Handling, Join, OwnerGoes, objVars, ownVars, lisVars, busVars
  <2> QED BY <2>1, <2>2, <2>3, <1>6, <1>uO, <1>uP, <1>uB DEF TypeOK, Join, OwnerGoes, objVars, ownVars, lisVars, busVars
<1>7. CASE UnregisterProfile
  <2>1. OwnerTypes'
    BY <1>0, <1>7 DEF OwnerTypes, UnregisterProfile, OwnerGoes, Abort, objVars, ownVars, lisVars, busVars
  <2>2. ProcessTypes'
    BY <1>0, <1>7 DEF ProcessTypes, UnregisterProfile, OwnerGoes, Abort, AbortReason, objVars, ownVars, lisVars, busVars
  <2>3. CallInv'
    BY <1>0, <1>7 DEF CallInv, Handling, UnregisterProfile, OwnerGoes, Abort, objVars, ownVars, lisVars, busVars
  <2> QED BY <2>1, <2>2, <2>3, <1>7, <1>uO, <1>uL, <1>uB DEF TypeOK, UnregisterProfile, OwnerGoes, Abort, objVars, ownVars, lisVars, busVars
<1>8. CASE UnregisterReply
  <2>1. OwnerTypes'
    BY <1>0, <1>8 DEF OwnerTypes, UnregisterReply, OwnerGoes, Abort, objVars, ownVars, lisVars, busVars
  <2>2. ProcessTypes'
    BY <1>0, <1>8 DEF ProcessTypes, UnregisterReply, OwnerGoes, Abort, AbortReason, objVars, ownVars, lisVars, busVars
  <2>3. BusTypes'
    BY <1>0, <1>8 DEF BusTypes, UnregisterReply, OwnerGoes, Abort, objVars, ownVars, lisVars, busVars
  <2>4. CallInv'
    BY <1>0, <1>8 DEF CallInv, Handling, UnregisterReply, OwnerGoes, Abort, objVars, ownVars, lisVars, busVars
  <2> QED BY <2>1, <2>2, <2>3, <2>4, <1>8, <1>uO, <1>uL DEF TypeOK, UnregisterReply, OwnerGoes, Abort, objVars, ownVars, lisVars, busVars
<1>9. CASE Unexport
  <2>1. ObjectTypes'
    BY <1>0, <1>9 DEF ObjectTypes, Unexport, OwnerGoes, StaleStatus, objVars, ownVars, lisVars, busVars
  <2>2. OwnerTypes'
    BY <1>0, <1>9 DEF OwnerTypes, Unexport, OwnerGoes, StaleStatus, objVars, ownVars, lisVars, busVars
  <2>3. ProcessTypes'
    BY <1>0, <1>9 DEF ProcessTypes, Unexport, OwnerGoes, StaleStatus, AbortReason, objVars, ownVars, lisVars, busVars
  <2>4. BusTypes'
    BY <1>0, <1>9 DEF BusTypes, Unexport, OwnerGoes, StaleStatus, Status, objVars, ownVars, lisVars, busVars
  <2>5. CallInv'
    BY <1>0, <1>9 DEF CallInv, Handling, Unexport, OwnerGoes, StaleStatus, objVars, ownVars, lisVars, busVars
  <2> QED BY <2>1, <2>2, <2>3, <2>4, <2>5, <1>9, <1>uL DEF TypeOK, Unexport, OwnerGoes, StaleStatus, objVars, ownVars, lisVars, busVars
<1>10. CASE OwnerLoad
  <2>1. OwnerTypes'
    BY <1>0, <1>10 DEF OwnerTypes, ObjectTypes, OwnerLoad, objVars, ownVars, lisVars, busVars
  <2>2. CallInv'
    BY <1>0, <1>10 DEF CallInv, Handling, OwnerLoad, objVars, ownVars, lisVars, busVars
  <2> QED BY <2>1, <2>2, <1>10, <1>uO, <1>uL, <1>uP, <1>uB DEF TypeOK, OwnerLoad, objVars, ownVars, lisVars, busVars
<1>11. CASE OwnerClose
  <2>1. OwnerTypes'
    BY <1>0, <1>11 DEF OwnerTypes, OwnerClose, OwnerGoes, Closed, objVars, ownVars, lisVars, busVars
  <2>2. ProcessTypes'
    BY <1>0, <1>11 DEF ProcessTypes, OwnerClose, OwnerGoes, Closed, AbortReason, objVars, ownVars, lisVars, busVars
  <2>3. CallInv'
    BY <1>0, <1>11 DEF CallInv, Handling, OwnerClose, OwnerGoes, Closed, objVars, ownVars, lisVars, busVars
  <2> QED BY <2>1, <2>2, <2>3, <1>11, <1>uO, <1>uL, <1>uB DEF TypeOK, OwnerClose, OwnerGoes, Closed, objVars, ownVars, lisVars, busVars
<1>12. CASE OwnerClear
  <2>1. ObjectTypes'
    BY <1>0, <1>12 DEF ObjectTypes, OwnerClear, AfterClose, objVars, ownVars, lisVars, busVars
  <2>2. OwnerTypes'
    BY <1>0, <1>12 DEF OwnerTypes, OwnerClear, AfterClose, objVars, ownVars, lisVars, busVars
  <2>3. ProcessTypes'
    BY <1>0, <1>12 DEF ProcessTypes, OwnerClear, AfterClose, AbortReason, objVars, ownVars, lisVars, busVars
  <2>4. CallInv'
    BY <1>0, <1>12 DEF CallInv, Handling, OwnerClear, AfterClose, objVars, ownVars, lisVars, busVars
  <2> QED BY <2>1, <2>2, <2>3, <2>4, <1>12, <1>uL, <1>uB DEF TypeOK, OwnerClear, AfterClose, objVars, ownVars, lisVars, busVars
<1>13. CASE ListenTask
  <2>1. ListenTypes'
    BY <1>0, <1>13, <1>n DEF ListenTypes, BusTypes, ListenTask, Waiting, objVars, ownVars, lisVars, busVars
  <2>2. Waiting \subseteq 1..Len(calls)
    BY <1>0 DEF Waiting, BusTypes
  <2>3. CallInv'
    BY <1>0, <1>13, <2>2 DEF CallInv, Handling, ListenTask, busVars
  <2> QED BY <2>1, <2>3, <1>13, <1>uO, <1>uW, <1>uP, <1>uB DEF TypeOK, ListenTask, Waiting, objVars, ownVars, lisVars, busVars
<1>14. CASE IterationDone
  <2>1. ListenTypes'
    BY <1>0, <1>14 DEF ListenTypes, IterationDone, objVars, ownVars, lisVars, busVars
  <2>2. CallInv'
    BY <1>0, <1>14 DEF CallInv, Handling, IterationDone, objVars, ownVars, lisVars, busVars
  <2> QED BY <2>1, <2>2, <1>14, <1>uO, <1>uW, <1>uP, <1>uB DEF TypeOK, IterationDone, objVars, ownVars, lisVars, busVars
<1>15. CASE DispatchStale
  <2>1. ListenTypes'
    BY <1>0, <1>15, <1>f DEF ListenTypes, DispatchStale, With, Closed, objVars, ownVars, lisVars, busVars
  <2>2. ProcessTypes'
    BY <1>0, <1>15, <1>f DEF ProcessTypes, DispatchStale, With, Closed, AbortReason, objVars, ownVars, lisVars, busVars
  <2>3. BusTypes'
    BY <1>0, <1>15, <1>f, <1>w DEF BusTypes, CallInv, Handling, Status, DispatchStale, Closed, objVars, ownVars, lisVars, busVars
  <2>4. CallInv'
    BY <1>0, <1>15, <1>f DEF CallInv, Handling, DispatchStale, With, Closed, objVars, ownVars, lisVars, busVars
  <2> QED BY <2>1, <2>2, <2>3, <2>4, <1>15, <1>uO, <1>uW DEF TypeOK, DispatchStale, With, Closed, objVars, ownVars, lisVars, busVars
<1>16. CASE HandleNewConnection
  <2>1. ListenTypes'
    BY <1>0, <1>16, <1>f, <1>g DEF ListenTypes, HandleNewConnection, Dispatch, With, objVars, ownVars, lisVars, busVars
  <2>2. ProcessTypes'
    BY <1>0, <1>16, <1>f, <1>g DEF ProcessTypes, HandleNewConnection, Dispatch, With, AbortReason, objVars, ownVars, lisVars, busVars
  <2>3. BusTypes'
    BY <1>0, <1>16, <1>f, <1>g, <1>w DEF BusTypes, CallInv, Handling, Status, HandleNewConnection, Dispatch, objVars, ownVars, lisVars, busVars
  <2>4. CallInv'
    BY <1>0, <1>16, <1>f, <1>g DEF CallInv, Handling, HandleNewConnection, Dispatch, With, objVars, ownVars, lisVars, busVars
  <2> QED BY <2>1, <2>2, <2>3, <2>4, <1>16, <1>uO, <1>uW DEF TypeOK, HandleNewConnection, Dispatch, With, objVars, ownVars, lisVars, busVars
<1>17. CASE HandleRelease
  <2>1. ListenTypes'
    BY <1>0, <1>17, <1>f DEF ListenTypes, HandleRelease, Dispatch, With, objVars, ownVars, lisVars, busVars
  <2>2. ProcessTypes'
    BY <1>0, <1>17, <1>f DEF ProcessTypes, HandleRelease, Dispatch, With, AbortReason, objVars, ownVars, lisVars, busVars
  <2>3. BusTypes'
    BY <1>0, <1>17, <1>f, <1>w DEF BusTypes, CallInv, Handling, Status, HandleRelease, Dispatch, objVars, ownVars, lisVars, busVars
  <2>4. CallInv'
    BY <1>0, <1>17, <1>f DEF CallInv, Handling, HandleRelease, Dispatch, With, objVars, ownVars, lisVars, busVars
  <2> QED BY <2>1, <2>2, <2>3, <2>4, <1>17, <1>uO, <1>uW DEF TypeOK, HandleRelease, Dispatch, With, objVars, ownVars, lisVars, busVars
<1>18. CASE FindAllRecognizedDevices
  <2>1. ListenTypes'
    BY <1>0, <1>18 DEF ListenTypes, BusTypes, FindAllRecognizedDevices, Abort, objVars, ownVars, lisVars, busVars
  <2>2. ProcessTypes'
    BY <1>0, <1>18 DEF ProcessTypes, FindAllRecognizedDevices, Abort, AbortReason, objVars, ownVars, lisVars, busVars
  <2>3. CallInv'
    BY <1>0, <1>18 DEF CallInv, Handling, FindAllRecognizedDevices, Abort, objVars, ownVars, lisVars, busVars
  <2> QED BY <2>1, <2>2, <2>3, <1>18, <1>uO, <1>uW, <1>uB DEF TypeOK, FindAllRecognizedDevices, Abort, objVars, ownVars, lisVars, busVars
<1>19. ASSUME NEW d \in Dev, RemoveDevice(d) PROVE TypeOK' /\ CallInv'
  <2>1. ListenTypes'
    BY <1>0, <1>19 DEF ListenTypes, RemoveDevice, objVars, ownVars, lisVars, busVars
  <2>2. BusTypes'
    BY <1>0, <1>19 DEF BusTypes, RemoveDevice, objVars, ownVars, lisVars, busVars
  <2>3. CallInv'
    BY <1>0, <1>19 DEF CallInv, Handling, RemoveDevice, objVars, ownVars, lisVars, busVars
  <2> QED BY <2>1, <2>2, <2>3, <1>19, <1>uO, <1>uW, <1>uP DEF TypeOK, RemoveDevice, objVars, ownVars, lisVars, busVars
<1>20. CASE CreateNewSocketConnection
  <2>1. ObjectTypes'
    BY <1>0, <1>20, <1>d DEF ObjectTypes, Handling, NoFd, CreateNewSocketConnection, Abort, SetupOk, SocketOf, HandlerReturns, With, objVars, ownVars, lisVars, busVars
  <2>2. ListenTypes'
    BY <1>0, <1>20 DEF ListenTypes, CreateNewSocketConnection, Abort, SetupOk, SocketOf, HandlerReturns, With, objVars, ownVars, lisVars, busVars
  <2>3. ProcessTypes'
    BY <1>0, <1>20 DEF ProcessTypes, CreateNewSocketConnection, Abort, SetupOk, SocketOf, HandlerReturns, With, AbortReason, objVars, ownVars, lisVars, busVars
  <2>4. BusTypes'
    BY <1>0, <1>20, <1>w DEF BusTypes, CallInv, Handling, Status, CreateNewSocketConnection, Abort, SetupOk, SocketOf, HandlerReturns, objVars, ownVars, lisVars, busVars
  <2>5. CallInv'
    BY <1>0, <1>20 DEF CallInv, Handling, CreateNewSocketConnection, Abort, SetupOk, SocketOf, HandlerReturns, With, objVars, ownVars, lisVars, busVars
  <2> QED BY <2>1, <2>2, <2>3, <2>4, <2>5, <1>20, <1>uW DEF TypeOK, CreateNewSocketConnection, Abort, SetupOk, SocketOf, HandlerReturns, With, objVars, ownVars, lisVars, busVars
<1>21. CASE ListenerLoad
  <2>1. ListenTypes'
    BY <1>0, <1>21 DEF ListenTypes, ObjectTypes, ListenerLoad, objVars, ownVars, lisVars, busVars
  <2>2. CallInv'
    BY <1>0, <1>21 DEF CallInv, Handling, ListenerLoad, objVars, ownVars, lisVars, busVars
  <2> QED BY <2>1, <2>2, <1>21, <1>uO, <1>uW, <1>uP, <1>uB DEF TypeOK, ListenerLoad, objVars, ownVars, lisVars, busVars
<1>22. CASE ListenerClose
  <2>1. ListenTypes'
    BY <1>0, <1>22 DEF ListenTypes, ListenerClose, Closed, objVars, ownVars, lisVars, busVars
  <2>2. ProcessTypes'
    BY <1>0, <1>22 DEF ProcessTypes, ListenerClose, Closed, AbortReason, objVars, ownVars, lisVars, busVars
  <2>3. CallInv'
    BY <1>0, <1>22 DEF CallInv, Handling, ListenerClose, Closed, objVars, ownVars, lisVars, busVars
  <2> QED BY <2>1, <2>2, <2>3, <1>22, <1>uO, <1>uW, <1>uB DEF TypeOK, ListenerClose, Closed, objVars, ownVars, lisVars, busVars
<1>23. CASE ListenerClear
  <2>1. ObjectTypes'
    BY <1>0, <1>23 DEF ObjectTypes, ListenerClear, AfterClose, HandlerReturns, With, objVars, ownVars, lisVars, busVars
  <2>2. ListenTypes'
    BY <1>0, <1>23 DEF ListenTypes, ListenerClear, AfterClose, HandlerReturns, With, objVars, ownVars, lisVars, busVars
  <2>3. BusTypes'
    BY <1>0, <1>23, <1>w DEF BusTypes, CallInv, Handling, Status, ListenerClear, AfterClose, HandlerReturns, objVars, ownVars, lisVars, busVars
  <2>4. CallInv'
    BY <1>0, <1>23 DEF CallInv, Handling, ListenerClear, AfterClose, HandlerReturns, With, objVars, ownVars, lisVars, busVars
  <2> QED BY <2>1, <2>2, <2>3, <2>4, <1>23, <1>uW, <1>uP DEF TypeOK, ListenerClear, AfterClose, HandlerReturns, With, objVars, ownVars, lisVars, busVars
<1>24. ASSUME NEW d \in Dev, NewConnection(d) PROVE TypeOK' /\ CallInv'
  <2>1. ProcessTypes'
    BY <1>0, <1>24, <1>g, BoundAssumption DEF ProcessTypes, BusTypes, CallId, NewConnection, Received, AbortReason, objVars, ownVars, lisVars, busVars
  <2>2. BusTypes'
    BY <1>0, <1>24, <1>g, <1>r DEF BusTypes, NewConnection, Method, objVars, ownVars, lisVars, busVars
  <2>3. CallInv'
    BY <1>0, <1>24, <1>g DEF CallInv, Handling, NewConnection, Received, objVars, ownVars, lisVars, busVars
  <2> QED BY <2>1, <2>2, <2>3, <1>24, <1>uO, <1>uW, <1>uL DEF TypeOK, NewConnection, Received, objVars, ownVars, lisVars, busVars
<1>26. CASE DaemonExit
  <2>1. BusTypes'
    BY <1>0, <1>26, <1>r DEF BusTypes, DaemonExit, Method, objVars, ownVars, lisVars, busVars
  <2>2. CallInv'
    <3>1. UNCHANGED <<batch, lpc, cur>> /\ calls \in Seq(Call)
      BY <1>0, <1>26 DEF DaemonExit, lisVars, BusTypes
    <3>2. CASE calls' = calls
      BY <1>0, <3>1, <3>2 DEF CallInv
    <3>3. CASE calls' = Append(calls, [m |-> "Release", dev |-> NoDev, fd |-> NoFd])
      <4>1. /\ Len(calls') = Len(calls) + 1 /\ Len(calls) \in Nat
            /\ \A i \in 1..Len(calls) : calls'[i] = calls[i]
            /\ calls'[Len(calls) + 1].m = "Release"
        BY <3>1, <3>3
      <4>2. 1..Len(calls') = (1..Len(calls)) \cup {Len(calls) + 1}
        BY <4>1
      <4> QED BY <1>0, <3>1, <4>1, <4>2 DEF CallInv
    <3> QED BY <1>26, <3>2, <3>3 DEF DaemonExit, Received
  <2> QED BY <2>1, <2>2, <1>26, <1>uO, <1>uW, <1>uL, <1>uP DEF TypeOK, DaemonExit, Received, objVars, ownVars, lisVars, busVars
<1>27. CASE DaemonCrash
  <2>1. BusTypes'
    BY <1>0, <1>27 DEF BusTypes, DaemonCrash, objVars, ownVars, lisVars, busVars
  <2>2. CallInv'
    BY <1>0, <1>27 DEF CallInv, Handling, DaemonCrash, objVars, ownVars, lisVars, busVars
  <2> QED BY <2>1, <2>2, <1>27, <1>uO, <1>uW, <1>uL, <1>uP DEF TypeOK, DaemonCrash, objVars, ownVars, lisVars, busVars
<1>28. CASE DaemonStart
  <2>1. BusTypes'
    BY <1>0, <1>28 DEF BusTypes, DaemonStart, objVars, ownVars, lisVars, busVars
  <2>2. CallInv'
    BY <1>0, <1>28 DEF CallInv, Handling, DaemonStart, objVars, ownVars, lisVars, busVars
  <2> QED BY <2>1, <2>2, <1>28, <1>uO, <1>uW, <1>uL, <1>uP DEF TypeOK, DaemonStart, objVars, ownVars, lisVars, busVars
<1>29. ASSUME NEW d \in Dev, DeviceAdded(d) PROVE TypeOK' /\ CallInv'
  <2>1. BusTypes'
    BY <1>0, <1>29 DEF BusTypes, DeviceAdded, objVars, ownVars, lisVars, busVars
  <2>2. CallInv'
    BY <1>0, <1>29 DEF CallInv, Handling, DeviceAdded, objVars, ownVars, lisVars, busVars
  <2> QED BY <2>1, <2>2, <1>29, <1>uO, <1>uW, <1>uL, <1>uP DEF TypeOK, DeviceAdded, objVars, ownVars, lisVars, busVars
<1>30. ASSUME NEW d \in Dev, DeviceRemoved(d) PROVE TypeOK' /\ CallInv'
  <2>1. BusTypes'
    BY <1>0, <1>30 DEF BusTypes, DeviceRemoved, objVars, ownVars, lisVars, busVars
  <2>2. CallInv'
    BY <1>0, <1>30 DEF CallInv, Handling, DeviceRemoved, objVars, ownVars, lisVars, busVars
  <2> QED BY <2>1, <2>2, <1>30, <1>uO, <1>uW, <1>uL, <1>uP DEF TypeOK, DeviceRemoved, objVars, ownVars, lisVars, busVars
<1>31. CASE UNCHANGED vars
  <2>1. CallInv'
    BY <1>0, <1>31 DEF CallInv, vars, lisVars, busVars
  <2> QED BY <2>1, <1>31, <1>uO, <1>uW, <1>uL, <1>uP, <1>uB DEF TypeOK, vars
<1> QED
  BY <1>1, <1>2, <1>3, <1>4, <1>5, <1>6, <1>7, <1>8, <1>9, <1>10, <1>11, <1>12, <1>13, <1>14, <1>15, <1>16, <1>17, <1>18, <1>19, <1>20, <1>21, <1>22, <1>23, <1>24, <1>26, <1>27, <1>28, <1>29, <1>30, <1>31 DEF Next, Owner, ListenThread, Daemon

\* Each action keeps the relation between where the owner is and what the
\* listen thread may use.
LEMMA ThreadStep ==
  ASSUME TypeOK, ThreadInv, [Next]_vars
  PROVE  ThreadInv'
<1> USE DEF ThreadInv, ListenThreadInsideExport, SocketPointerSet
<1>0. OwnerTypes /\ ListenTypes
  BY DEF TypeOK
<1>1. CASE StartListening
  BY <1>0, <1>1 DEF StartListening, OwnerTypes, objVars, ownVars, lisVars
<1>2. CASE StopListening
  BY <1>0, <1>2 DEF StopListening, OwnerTypes, objVars, ownVars, lisVars
<1>3. CASE Disconnect
  BY <1>0, <1>3 DEF Disconnect, OwnerTypes, objVars, ownVars, lisVars
<1>4. CASE RegisterReply
  BY <1>0, <1>4 DEF RegisterReply, OwnerGoes, Abort, objVars, ownVars, lisVars
<1>5. CASE StartThread
  BY <1>0, <1>5 DEF StartThread, objVars, ownVars, lisVars
<1>6. CASE Join
  BY <1>0, <1>6 DEF Join, OwnerGoes, objVars, ownVars, lisVars
<1>7. CASE UnregisterProfile
  BY <1>0, <1>7 DEF UnregisterProfile, OwnerGoes, Abort, objVars, ownVars, lisVars
<1>8. CASE UnregisterReply
  BY <1>0, <1>8 DEF UnregisterReply, OwnerGoes, Abort, objVars, ownVars, lisVars
<1>9. CASE Unexport
  BY <1>0, <1>9 DEF Unexport, OwnerGoes, objVars, ownVars, lisVars
<1>10. CASE OwnerLoad
  BY <1>0, <1>10 DEF OwnerLoad, objVars, ownVars, lisVars
<1>11. CASE OwnerClose
  BY <1>0, <1>11 DEF OwnerClose, OwnerGoes, objVars, ownVars, lisVars
<1>12. CASE OwnerClear
  BY <1>0, <1>12 DEF OwnerClear, OwnerTypes, objVars, ownVars, lisVars
<1>13. CASE ListenTask
  BY <1>0, <1>13 DEF ListenTask, objVars, ownVars, lisVars
<1>14. CASE IterationDone
  BY <1>0, <1>14 DEF IterationDone, objVars, ownVars, lisVars
<1>15. CASE DispatchStale
  BY <1>0, <1>15 DEF DispatchStale, objVars, ownVars, lisVars
<1>16. CASE HandleNewConnection
  BY <1>0, <1>16 DEF HandleNewConnection, Dispatch, objVars, ownVars, lisVars
<1>17. CASE HandleRelease
  BY <1>0, <1>17 DEF HandleRelease, Dispatch, objVars, ownVars, lisVars
<1>18. CASE FindAllRecognizedDevices
  BY <1>0, <1>18 DEF FindAllRecognizedDevices, Abort, objVars, ownVars, lisVars
<1>19. ASSUME NEW d \in Dev, RemoveDevice(d) PROVE ThreadInv'
  BY <1>0, <1>19 DEF RemoveDevice, objVars, ownVars, lisVars
<1>20. CASE CreateNewSocketConnection
  <2>1. psocket
    BY <1>20 DEF CreateNewSocketConnection
  <2>2. CASE Abort("setup")
    BY <1>0, <2>2 DEF Abort, objVars, ownVars, lisVars
  <2>3. CASE HandlerReturns /\ UNCHANGED <<iface, psocket, heartbeat, ownVars, aborted>>
    BY <1>0, <1>20, <2>3 DEF CreateNewSocketConnection, HandlerReturns, ownVars
  <2> QED BY <1>20, <2>1, <2>2, <2>3 DEF CreateNewSocketConnection
<1>21. CASE ListenerLoad
  BY <1>0, <1>21 DEF ListenerLoad, objVars, ownVars, lisVars
<1>22. CASE ListenerClose
  BY <1>0, <1>22 DEF ListenerClose, objVars, ownVars, lisVars
<1>23. CASE ListenerClear
  BY <1>0, <1>23 DEF ListenerClear, HandlerReturns, objVars, ownVars, lisVars
<1>24. ASSUME NEW d \in Dev, NewConnection(d) PROVE ThreadInv'
  BY <1>0, <1>24 DEF NewConnection, objVars, ownVars, lisVars
<1>26. CASE DaemonExit
  BY <1>0, <1>26 DEF DaemonExit, objVars, ownVars, lisVars
<1>27. CASE DaemonCrash
  BY <1>0, <1>27 DEF DaemonCrash, objVars, ownVars, lisVars
<1>28. CASE DaemonStart
  BY <1>0, <1>28 DEF DaemonStart, objVars, ownVars, lisVars
<1>29. ASSUME NEW d \in Dev, DeviceAdded(d) PROVE ThreadInv'
  BY <1>0, <1>29 DEF DeviceAdded, objVars, ownVars, lisVars
<1>30. ASSUME NEW d \in Dev, DeviceRemoved(d) PROVE ThreadInv'
  BY <1>0, <1>30 DEF DeviceRemoved, objVars, ownVars, lisVars
<1>31. CASE UNCHANGED vars
  BY <1>31 DEF vars, objVars, ownVars, lisVars
<1> QED
  BY <1>1, <1>2, <1>3, <1>4, <1>5, <1>6, <1>7, <1>8, <1>9, <1>10, <1>11, <1>12, <1>13, <1>14, <1>15, <1>16, <1>17, <1>18, <1>19, <1>20, <1>21, <1>22, <1>23, <1>24, <1>26, <1>27, <1>28, <1>29, <1>30, <1>31 DEF Next, Owner, ListenThread, Daemon

\* IInv holds in every reachable state.
LEMMA Invariance == Spec => []IInv
<1>1. Init => IInv
  BY InitInv
<1>2. IInv /\ [Next]_vars => IInv'
  BY TypeStep, ThreadStep DEF IInv
<1> QED BY <1>1, <1>2, PTL DEF Spec

-----------------------------------------------------------------------------
\* Every variable of the program, of the descriptor table and of the bus keeps
\* its type, for every number of devices, descriptors and calls.
THEOREM TypeCorrect == Spec => []TypeOK
<1>1. IInv => TypeOK
  BY DEF IInv
<1> QED BY <1>1, Invariance, PTL

\* stopListening joins the listen thread before unregisterProfile takes the
\* skeleton away: no handler runs in a Listener that is not exported.
THEOREM ThreadInsideExport == Spec => []ListenThreadInsideExport
<1>1. IInv => ListenThreadInsideExport
  BY DEF IInv, ThreadInv
<1> QED BY <1>1, Invariance, PTL

\* assert( _p_socket != NULL ) never fails, whatever the owner calls and
\* however the daemon goes away.
THEOREM SocketPointerIsSet == Spec => []SocketPointerSet
<1>1. IInv => SocketPointerSet
  BY DEF IInv, ThreadInv
<1> QED BY <1>1, Invariance, PTL

-----------------------------------------------------------------------------
(***************************************************************************)
(* Calls are handled in the order of delivery.                             *)
(***************************************************************************)
\* Calls are handled in the order of delivery: what waits is newer than what
\* was handled, and the batch is a prefix of what waits.
OrderInv ==
  /\ lpc \in {"none", "top", "done"} => batch = {}
  /\ batch \subseteq Waiting
  /\ \A i \in batch, j \in Waiting : j \notin batch => i < j
  /\ \A i \in DOMAIN status, j \in Waiting : i \notin Waiting => i < j
  /\ lpc \in Handling => /\ status[cur] = "running"
                         /\ \A i \in Adopted : i < cur
  /\ lpc \in {"find", "remove"} => calls[cur].m = "NewConnection"
  /\ lpc \in {"load", "close", "clear"} => calls[cur].m # "NewConnection"

-----------------------------------------------------------------------------
\* The types of the parts of a call the daemon sent.
LEMMA CallTypes ==
  ASSUME BusTypes
  PROVE  /\ DOMAIN status = 1..Len(calls)
         /\ DOMAIN status \subseteq Nat \ {0}
         /\ \A i \in DOMAIN status : calls[i].fd \in Fd \cup {NoFd}
<1>1. DOMAIN status = 1..Len(calls) /\ Len(calls) \in Nat
  BY DEF BusTypes
<1>2. \A i \in 1..Len(calls) : calls[i] \in Call
  BY DEF BusTypes
<1>3. \A c \in Call : c.fd \in Fd \cup {NoFd}
  BY DEF Call
<1> QED BY <1>1, <1>2, <1>3

\* One call changes its status: what that does to the sets of calls.
LEMMA WithFacts ==
  ASSUME BusTypes, NEW i \in DOMAIN status, NEW t \in Status, status' = With(i, t)
  PROVE  /\ DOMAIN status' = DOMAIN status
         /\ status'[i] = t
         /\ \A j \in DOMAIN status : j # i => status'[j] = status[j]
  BY DEF With, BusTypes

\* A message arrives: the new call is the newest and waits.
LEMMA ReceivedFacts ==
  ASSUME BusTypes, NEW m, NEW d, NEW f, Received(m, d, f)
  PROVE  /\ DOMAIN status' = DOMAIN status \cup {Len(calls) + 1}
         /\ Len(calls) + 1 \notin DOMAIN status
         /\ \A j \in DOMAIN status : /\ j < Len(calls) + 1
                                     /\ status'[j] = status[j]
                                     /\ calls'[j] = calls[j]
         /\ status'[Len(calls) + 1] = "queued"
         /\ calls'[Len(calls) + 1].fd = f
<1>1. /\ Len(calls) \in Nat /\ Len(status) = Len(calls)
      /\ DOMAIN status = 1..Len(calls) /\ DOMAIN calls = 1..Len(calls)
  BY DEF BusTypes
<1>2. /\ DOMAIN status' = 1..(Len(calls) + 1)
      /\ \A j \in 1..Len(calls) : status'[j] = status[j]
      /\ status'[Len(calls) + 1] = "queued"
  BY <1>1 DEF Received, BusTypes
<1>3. /\ \A j \in 1..Len(calls) : calls'[j] = calls[j]
      /\ calls'[Len(calls) + 1] = [m |-> m, dev |-> d, fd |-> f]
  BY <1>1 DEF Received, BusTypes
<1>4. 1..(Len(calls) + 1) = 1..Len(calls) \cup {Len(calls) + 1}
  BY <1>1
<1> QED BY <1>1, <1>2, <1>3, <1>4

\* The first call of the batch is the oldest one that waits.
LEMMA DispatchOrder ==
  ASSUME IInv, OrderInv, lpc = "dispatch", batch # {}
  PROVE  /\ First(batch) \in batch /\ First(batch) \in DOMAIN status
         /\ First(batch) \in Waiting
         /\ \A j \in Waiting : First(batch) <= j
         /\ \A j \in DOMAIN status : j \notin Waiting => j < First(batch)
<1>1. batch \subseteq Waiting /\ Waiting \subseteq DOMAIN status /\ DOMAIN status \subseteq Nat
  BY CallTypes DEF IInv, TypeOK, OrderInv, Waiting
<1>2. First(batch) \in batch /\ \A j \in batch : First(batch) <= j
  BY <1>1, FirstIsMember
<1>3. \A j \in Waiting : First(batch) <= j
  BY <1>1, <1>2 DEF OrderInv
<1> QED BY <1>1, <1>2, <1>3 DEF OrderInv

\* A call is handed to a handler.
LEMMA RunningOrder ==
  ASSUME IInv, OrderInv, NEW m, Dispatch(m)
  PROVE  /\ opc' = opc /\ ofd' = ofd /\ lfd' = lfd /\ sock' = sock /\ ctd' = ctd
         /\ iface' = iface /\ registered' = registered
         /\ calls' = calls /\ lpc = "dispatch"
         /\ cur' \in DOMAIN status /\ calls[cur'].m = m /\ cur' = First(batch)
         /\ DOMAIN status' = DOMAIN status /\ status'[cur'] = "running"
         /\ status[cur'] = "queued" /\ cur' \in Waiting
         /\ \A j \in DOMAIN status : j # cur' => status'[j] = status[j]
         /\ Adopted' = Adopted
         /\ \A j \in Adopted : j < cur'
         /\ Waiting' = Waiting \ {cur'}
         /\ batch' \subseteq Waiting'
         /\ \A a \in batch', b \in Waiting' : b \notin batch' => a < b
         /\ \A a \in DOMAIN status', b \in Waiting' : a \notin Waiting' => a < b
<1> DEFINE i == First(batch)
<1>1. /\ i \in batch /\ i \in DOMAIN status /\ i \in Waiting
      /\ \A j \in Waiting : i <= j
      /\ \A j \in DOMAIN status : j \notin Waiting => j < i
  BY DispatchOrder DEF Dispatch
<1>2. /\ UNCHANGED <<opc, ofd, lfd, sock, ctd, calls, iface, registered>>
      /\ lpc = "dispatch" /\ batch' = batch \ {i} /\ status[i] = "queued"
      /\ cur' = i /\ calls[i].m = m /\ status' = With(i, "running")
  BY DEF Dispatch, objVars, ownVars
<1>3. /\ DOMAIN status' = DOMAIN status /\ status'[i] = "running"
      /\ \A j \in DOMAIN status : j # i => status'[j] = status[j]
  BY <1>1, <1>2, WithFacts DEF IInv, TypeOK, Status
<1>4. DOMAIN status \subseteq Nat \ {0} /\ Waiting \subseteq DOMAIN status
  BY CallTypes DEF IInv, TypeOK, Waiting
<1> HIDE DEF i
<1>5. Waiting' = Waiting \ {i}
  BY <1>1, <1>2, <1>3 DEF Waiting
<1>6. Adopted' = Adopted /\ Adopted \cap Waiting = {} /\ Adopted \subseteq DOMAIN status
  BY <1>1, <1>2, <1>3 DEF Adopted, Waiting
<1>7. \A j \in Adopted : j < i
  BY <1>1, <1>6
<1>8. \A a \in DOMAIN status', b \in Waiting' : a \notin Waiting' => a < b
  BY <1>1, <1>3, <1>4, <1>5
<1>9. /\ batch' \subseteq Waiting'
      /\ \A a \in batch', b \in Waiting' : b \notin batch' => a < b
  BY <1>2, <1>5 DEF OrderInv
<1> QED BY <1>1, <1>2, <1>3, <1>5, <1>6, <1>7, <1>8, <1>9 DEF i

\* What a handler that returns leaves of the order of calls.
LEMMA ReturnOrder ==
  ASSUME IInv, OrderInv, lpc \in Handling, HandlerReturns, calls' = calls
  PROVE  /\ OrderInv'
         /\ DOMAIN status' = DOMAIN status /\ cur \in DOMAIN status
         /\ status[cur] = "running" /\ status'[cur] = "taken"
         /\ \A j \in DOMAIN status : j # cur => status'[j] = status[j]
         /\ Waiting' = Waiting
         /\ Adopted' = Adopted \cup (IF calls[cur].m = "NewConnection" THEN {cur} ELSE {})
         /\ lpc' = "dispatch" /\ newfd' = NoFd
<1>1. cur \in DOMAIN status /\ status[cur] = "running"
  BY CallTypes DEF IInv, TypeOK, CallInv, OrderInv
<1>2. /\ DOMAIN status' = DOMAIN status /\ status'[cur] = "taken"
      /\ \A j \in DOMAIN status : j # cur => status'[j] = status[j]
  BY <1>1, WithFacts DEF IInv, TypeOK, Status, HandlerReturns
<1>3. Waiting' = Waiting
  BY <1>1, <1>2 DEF Waiting
<1>4. Adopted' = Adopted \cup (IF calls[cur].m = "NewConnection" THEN {cur} ELSE {})
  BY <1>1, <1>2 DEF Adopted
<1>5. OrderInv'
  BY <1>2, <1>3 DEF OrderInv, HandlerReturns, Handling
<1> QED BY <1>1, <1>2, <1>3, <1>4, <1>5 DEF HandlerReturns

\* A message arrives, and is the newest.
LEMMA ArrivalOrder ==
  ASSUME IInv, OrderInv, NEW m, NEW d, NEW f, Received(m, d, f), UNCHANGED lisVars
  PROVE  /\ OrderInv'
         /\ Waiting' = Waiting \cup {Len(calls) + 1}
         /\ Adopted' = Adopted
<1> DEFINE n == Len(calls) + 1
<1>1. UNCHANGED <<lpc, batch, cur>>
  BY DEF lisVars
<1>2. /\ DOMAIN status' = DOMAIN status \cup {n} /\ n \notin DOMAIN status
      /\ \A j \in DOMAIN status : j < n /\ status'[j] = status[j] /\ calls'[j] = calls[j]
      /\ status'[n] = "queued"
  <2>1. BusTypes
    BY DEF IInv, TypeOK
  <2> QED BY <2>1, ReceivedFacts
<1>3. lpc \in Handling => cur \in DOMAIN status
  BY CallTypes DEF IInv, TypeOK, CallInv
<1> HIDE DEF n
<1>4. /\ Waiting' = Waiting \cup {n} /\ Waiting \subseteq DOMAIN status
      /\ Adopted' = Adopted /\ Adopted \subseteq DOMAIN status
  BY <1>2 DEF Waiting, Adopted
<1>5. batch' \subseteq Waiting' /\ (lpc' \in {"none", "top", "done"} => batch' = {})
  BY <1>1, <1>4 DEF OrderInv
<1>6. \A i \in batch', j \in Waiting' : j \notin batch' => i < j
  BY <1>1, <1>2, <1>4 DEF OrderInv
<1>7. \A i \in DOMAIN status', j \in Waiting' : i \notin Waiting' => i < j
  BY <1>2, <1>4 DEF OrderInv
<1>8. lpc' \in Handling => status'[cur'] = "running" /\ \A i \in Adopted' : i < cur'
  BY <1>1, <1>2, <1>3, <1>4 DEF OrderInv
<1>9. /\ lpc' \in {"find", "remove"} => calls'[cur'].m = "NewConnection"
      /\ lpc' \in {"load", "close", "clear"} => calls'[cur'].m # "NewConnection"
  BY <1>1, <1>2, <1>3 DEF OrderInv, Handling
<1> QED BY <1>4, <1>5, <1>6, <1>7, <1>8, <1>9 DEF OrderInv, n

\* Every step keeps the order of the calls.
LEMMA OrderStep ==
  ASSUME IInv, OrderInv, [Next]_vars
  PROVE  OrderInv'
<1> USE DEF objVars, ownVars, lisVars, busVars
<1>1. ASSUME UNCHANGED <<lpc, batch, cur, calls, status>>
      PROVE  OrderInv'
  <2>1. Waiting' = Waiting /\ Adopted' = Adopted
    BY <1>1 DEF Waiting, Adopted
  <2> QED BY <1>1, <2>1 DEF OrderInv
<1>2. CASE StartListening \/ StopListening \/ Disconnect
  BY <1>1, <1>2 DEF StartListening, StopListening, Disconnect
<1>3. CASE Owner
  <2>1. CASE StartThread \/ Join
    <3>1. /\ UNCHANGED <<batch, cur, calls, status>>
          /\ lpc \in {"none", "done"} /\ lpc' \in {"none", "top"}
      BY <2>1 DEF IInv, ThreadInv, StartThread, Join, OwnerGoes
    <3>2. Waiting' = Waiting /\ Adopted' = Adopted
      BY <3>1 DEF Waiting, Adopted
    <3> QED BY <3>1, <3>2 DEF OrderInv, Handling
  <2>2. CASE Unexport
    <3>1. /\ UNCHANGED <<lpc, batch, cur, calls>> /\ lpc = "none"
      BY <2>2 DEF IInv, ThreadInv, Unexport, OwnerGoes
    <3>2. /\ DOMAIN status' = DOMAIN status
          /\ \A i \in DOMAIN status : status'[i] = IF status[i] = "queued" THEN "stale" ELSE status[i]
      BY <2>2 DEF Unexport, StaleStatus
    <3>3. Waiting' = Waiting /\ Adopted' = Adopted
      BY <3>1, <3>2 DEF Waiting, Adopted
    <3> QED BY <3>1, <3>2, <3>3 DEF OrderInv, Handling
  <2> QED BY <1>1, <1>3, <2>1, <2>2 DEF Owner, RegisterReply, UnregisterProfile, UnregisterReply,
             OwnerLoad, OwnerClose, OwnerClear, OwnerGoes, Abort
<1>4. CASE ListenThread
  <2>1. CASE ListenTask \/ IterationDone
    <3>1. /\ UNCHANGED <<cur, calls, status>>
          /\ lpc' \in {"top", "dispatch", "done"}
          /\ batch' = {} \/ (lpc' = "dispatch" /\ batch' = Waiting)
      BY <2>1 DEF ListenTask, IterationDone, OrderInv
    <3>2. Waiting' = Waiting /\ Adopted' = Adopted
      BY <3>1 DEF Waiting, Adopted
    <3> QED BY <3>1, <3>2 DEF OrderInv, Handling
  <2>2. CASE DispatchStale
    <3> DEFINE i == First(batch)
    <3>1. /\ i \in DOMAIN status /\ i \in Waiting
          /\ \A j \in Waiting : i <= j
          /\ \A j \in DOMAIN status : j \notin Waiting => j < i
      BY <2>2, DispatchOrder DEF DispatchStale
    <3>2. /\ UNCHANGED <<lpc, cur, calls>>
          /\ lpc = "dispatch" /\ batch' = batch \ {i} /\ status[i] = "stale"
          /\ status' = With(i, "error")
      BY <2>2 DEF DispatchStale
    <3> HIDE DEF i
    <3>3. /\ DOMAIN status' = DOMAIN status /\ status'[i] = "error"
          /\ \A j \in DOMAIN status : j # i => status'[j] = status[j]
      BY <3>1, <3>2, WithFacts DEF IInv, TypeOK, Status
    <3>4. DOMAIN status \subseteq Nat \ {0} /\ Waiting \subseteq DOMAIN status
      BY CallTypes DEF IInv, TypeOK, Waiting
    <3>5. Waiting' = Waiting \ {i}
      BY <3>1, <3>2, <3>3 DEF Waiting
    <3>6. \A a \in DOMAIN status', b \in Waiting' : a \notin Waiting' => a < b
      BY <3>1, <3>3, <3>4, <3>5
    <3>7. /\ batch' \subseteq Waiting'
          /\ \A a \in batch', b \in Waiting' : b \notin batch' => a < b
      BY <3>2, <3>5 DEF OrderInv
    <3> QED BY <3>2, <3>6, <3>7 DEF OrderInv, Handling
  <2>3. CASE HandleNewConnection
    <3>1. Dispatch("NewConnection") /\ lpc' \in {"dispatch", "find"}
      BY <2>3, RunningOrder DEF HandleNewConnection
    <3> QED BY <3>1, RunningOrder DEF OrderInv, Handling
  <2>4. CASE HandleRelease
    <3>1. Dispatch("Release") /\ lpc' \in {"dispatch", "load"}
      BY <2>4, RunningOrder DEF HandleRelease
    <3> QED BY <3>1, RunningOrder DEF OrderInv, Handling
  <2>5. CASE CreateNewSocketConnection
    <3>1. ASSUME NEW why, Abort(why) PROVE OrderInv'
      BY <1>1, <3>1 DEF Abort
    <3>2. lpc \in Handling
      BY <2>5 DEF CreateNewSocketConnection, Handling
    <3> QED BY <2>5, <3>1, <3>2, ReturnOrder DEF CreateNewSocketConnection
  <2>6. CASE ListenerClear
    <3>1. lpc \in Handling
      BY <2>6 DEF ListenerClear, Handling
    <3> QED BY <2>6, <3>1, ReturnOrder DEF ListenerClear
  <2>7. CASE FindAllRecognizedDevices \/ ListenerLoad \/ ListenerClose \/ \E d \in Dev : RemoveDevice(d)
    <3>1. CASE UNCHANGED lpc
      BY <1>1, <2>7, <3>1 DEF FindAllRecognizedDevices, ListenerLoad, ListenerClose, RemoveDevice, Abort
    <3>2. CASE lpc' # lpc
      <4>1. /\ UNCHANGED <<batch, cur, calls, status>>
            /\ \/ lpc = "find" /\ lpc' = "remove"
               \/ lpc \in {"load", "close"} /\ lpc' \in {"close", "clear"}
        BY <2>7, <3>2 DEF FindAllRecognizedDevices, ListenerLoad, ListenerClose, RemoveDevice, Abort
      <4>2. Waiting' = Waiting /\ Adopted' = Adopted
        BY <4>1 DEF Waiting, Adopted
      <4> QED BY <4>1, <4>2 DEF OrderInv, Handling
    <3> QED BY <3>1, <3>2
  <2> QED BY <1>4, <2>1, <2>2, <2>3, <2>4, <2>5, <2>6, <2>7 DEF ListenThread
<1>5. CASE Daemon
  <2>1. ASSUME NEW d \in Dev, NewConnection(d) PROVE OrderInv'
    BY <2>1, ArrivalOrder DEF NewConnection
  <2>2. CASE DaemonExit
    BY <1>1, <2>2, ArrivalOrder DEF DaemonExit
  <2> QED BY <1>1, <1>5, <2>1, <2>2 DEF Daemon, DaemonCrash, DaemonStart, DeviceAdded, DeviceRemoved
<1>6. CASE UNCHANGED vars
  BY <1>1, <1>6 DEF vars
<1> QED BY <1>2, <1>3, <1>4, <1>5, <1>6 DEF Next

-----------------------------------------------------------------------------
(***************************************************************************)
(* Whatever the owner calls, closeConnection closes a descriptor that was   *)
(* handed to the Socket, although it takes no lock.                         *)
(***************************************************************************)
\* After Release nothing else comes: the profile stays unregistered, and what
\* follows would first have to unregister it.
ReleaseInv ==
  /\ registered => iface /\ opc \notin {"registering", "unexport"}
  /\ \A i \in DOMAIN status : calls[i].m = "Release" =>
       /\ i = Len(calls) /\ calls[i].fd = NoFd
       /\ iface /\ ~registered /\ opc \notin {"registering", "unexport"}

\* The handler of Release has begun.
Released == \E i \in DOMAIN status : calls[i].m = "Release" /\ status[i] \in {"running", "taken"}

\* A connection that has its descriptor but is not in the Socket yet.
Pending(i) == i \in Waiting \/ (i = cur /\ calls[i].m = "NewConnection")

\* The descriptors of the messages and of the handler at work are open and
\* refer to their links.
OwnInv ==
  /\ \A i \in DOMAIN status :
       (status[i] # "error" /\ calls[i].fd # NoFd) => fds[calls[i].fd] = i
  /\ \A f \in Fd : fds[f] \in Waiting => calls[fds[f]].fd = f
  /\ newfd # NoFd => lpc \in {"find", "remove"} /\ fds[newfd] = cur /\ newfd # calls[cur].fd
  /\ (Running /\ lpc \notin Handling) => cur = 0

\* What closeConnection read and will close is a descriptor handed to the
\* Socket, or one the other thread has closed after the last arrival.  The
\* number in the Socket may be somebody else's only while the owner is between
\* the close and the store, and then it is not in the Socket's use yet.
SockInv ==
  /\ sock.fd # NoFd => \/ Handed(sock.fd)
                       \/ fds[sock.fd] = Free /\ Released
                       \/ /\ opc = "clear" /\ ofd = sock.fd
                          /\ fds[sock.fd] = Free \/ Pending(fds[sock.fd])
  /\ opc = "close" => ofd # NoFd /\ (Handed(ofd) \/ (fds[ofd] = Free /\ Released))
  /\ lpc = "close" => lfd # NoFd /\ (Handed(lfd) \/ fds[lfd] = Free)

\* Every open descriptor came with a call that has arrived.
OpenInv == \A f \in Fd : fds[f] = Free \/ fds[f] \in DOMAIN status

RaceInv == ReleaseInv /\ OpenInv /\ OwnInv /\ SockInv

\* Every step keeps what is known of a daemon that has sent Release.
LEMMA ReleaseStep ==
  ASSUME IInv, OrderInv, ReleaseInv, [Next]_vars
  PROVE  ReleaseInv'
<1> USE DEF objVars, ownVars, lisVars, busVars
<1>1. ASSUME UNCHANGED <<calls, registered, iface>>, DOMAIN status' = DOMAIN status,
             opc' = opc \/ opc' \notin {"registering", "unexport"}
      PROVE  ReleaseInv'
  BY <1>1 DEF ReleaseInv
<1>2. CASE StartListening
  BY <1>2 DEF StartListening, ReleaseInv
<1>3. CASE StopListening \/ Disconnect
  BY <1>1, <1>3 DEF StopListening, Disconnect
<1>4. CASE Owner
  <2>1. CASE RegisterReply
    <3>1. opc = "registering" /\ iface
      BY <2>1 DEF RegisterReply, IInv, ThreadInv
    <3> QED BY <2>1, <3>1 DEF RegisterReply, OwnerGoes, Abort, ReleaseInv
  <2>2. CASE UnregisterReply
    BY <2>2 DEF UnregisterReply, OwnerGoes, Abort, ReleaseInv
  <2>3. CASE Unexport
    BY <2>3 DEF Unexport, OwnerGoes, ReleaseInv, StaleStatus
  <2> QED BY <1>1, <1>4, <2>1, <2>2, <2>3 DEF Owner, StartThread, Join, UnregisterProfile,
             OwnerLoad, OwnerClose, OwnerClear, OwnerGoes, Abort
<1>5. CASE ListenThread
  <2>1. DOMAIN status' = DOMAIN status
    BY <1>5 DEF ListenThread, ListenTask, IterationDone, DispatchStale, HandleNewConnection,
         HandleRelease, Dispatch, FindAllRecognizedDevices, RemoveDevice, HandlerReturns,
         CreateNewSocketConnection, ListenerLoad, ListenerClose, ListenerClear, Abort, With
  <2>2. UNCHANGED <<calls, registered, iface, opc>>
    BY <1>5 DEF ListenThread, ListenTask, IterationDone, DispatchStale, HandleNewConnection,
         HandleRelease, Dispatch, FindAllRecognizedDevices, RemoveDevice,
         CreateNewSocketConnection, ListenerLoad, ListenerClose, ListenerClear, Abort
  <2> QED BY <1>1, <2>1, <2>2
<1>6. CASE Daemon
  <2>1. ASSUME NEW m, NEW d, NEW f, Received(m, d, f), registered,
               UNCHANGED <<iface, opc>>,
               m = "Release" => f = NoFd /\ ~registered'
        PROVE  ReleaseInv'
    <3> DEFINE n == Len(calls) + 1
    <3>1. Len(calls) \in Nat /\ Len(calls') = n /\ calls'[n].m = m /\ calls'[n].fd = f
      BY <2>1 DEF Received, IInv, TypeOK, BusTypes
    <3>2. /\ DOMAIN status' = DOMAIN status \cup {n}
          /\ \A j \in DOMAIN status : calls'[j] = calls[j]
      BY <2>1, ReceivedFacts DEF IInv, TypeOK
    <3> HIDE DEF n
    <3> QED BY <2>1, <3>1, <3>2 DEF ReleaseInv
  <2>2. CASE DaemonExit
    <3>1. CASE registered
      BY <2>1, <2>2, <3>1 DEF DaemonExit
    <3>2. CASE ~registered
      BY <2>2, <3>2 DEF DaemonExit, ReleaseInv
    <3> QED BY <3>1, <3>2
  <2>3. ASSUME NEW d \in Dev, NewConnection(d) PROVE ReleaseInv'
    <3>1. registered /\ UNCHANGED <<iface, opc>>
      BY <2>3 DEF NewConnection
    <3> QED BY <2>1, <2>3, <3>1 DEF NewConnection
  <2>4. CASE DaemonCrash
    BY <2>4 DEF DaemonCrash, ReleaseInv
  <2> QED BY <1>1, <1>6, <2>2, <2>3, <2>4 DEF Daemon, DaemonStart, DeviceAdded, DeviceRemoved
<1>7. CASE UNCHANGED vars
  BY <1>1, <1>7 DEF vars
<1> QED BY <1>2, <1>3, <1>4, <1>5, <1>6, <1>7 DEF Next

\* Every step keeps the descriptors of the calls that have arrived.
LEMMA OpenStep ==
  ASSUME IInv, OrderInv, OpenInv, [Next]_vars
  PROVE  OpenInv'
<1> USE DEF objVars, ownVars, lisVars, busVars
<1>1. ASSUME DOMAIN status' = DOMAIN status,
             \A f \in Fd : fds'[f] \in {fds[f], Free}
      PROVE  OpenInv'
  BY <1>1 DEF OpenInv
<1>2. CASE StartListening \/ StopListening \/ Disconnect \/ Owner
  <2>1. \A f \in Fd : fds'[f] \in {fds[f], Free}
    BY <1>2 DEF StartListening, StopListening, Disconnect, Owner, RegisterReply, StartThread, Join,
         UnregisterProfile, UnregisterReply, Unexport, OwnerLoad, OwnerClose, OwnerClear, Abort, Closed
  <2>2. DOMAIN status' = DOMAIN status
    BY <1>2 DEF StartListening, StopListening, Disconnect, Owner, RegisterReply, StartThread, Join,
         UnregisterProfile, UnregisterReply, Unexport, OwnerLoad, OwnerClose, OwnerClear, Abort, StaleStatus
  <2> QED BY <1>1, <2>1, <2>2
<1>3. CASE ListenThread
  <2>1. DOMAIN status' = DOMAIN status
    BY <1>3 DEF ListenThread, ListenTask, IterationDone, DispatchStale, HandleNewConnection,
         HandleRelease, Dispatch, FindAllRecognizedDevices, RemoveDevice, HandlerReturns,
         CreateNewSocketConnection, ListenerLoad, ListenerClose, ListenerClear, Abort, With
  <2>2. CASE HandleNewConnection
    <3>1. First(batch) \in DOMAIN status
      BY <2>2, DispatchOrder DEF HandleNewConnection, Dispatch
    <3>2. \A f \in Fd : fds'[f] \in {fds[f], First(batch)}
      BY <2>2 DEF HandleNewConnection, IInv, TypeOK, ProcessTypes
    <3> QED BY <2>1, <3>1, <3>2 DEF OpenInv
  <2>3. CASE ~HandleNewConnection
    <3>1. \A f \in Fd : fds'[f] \in {fds[f], Free}
      BY <1>3, <2>3 DEF ListenThread, ListenTask, IterationDone, DispatchStale,
           HandleRelease, FindAllRecognizedDevices, RemoveDevice,
           CreateNewSocketConnection, ListenerLoad, ListenerClose, ListenerClear, Abort, Closed
    <3> QED BY <1>1, <2>1, <3>1
  <2> QED BY <2>2, <2>3
<1>4. CASE Daemon
  <2>1. ASSUME NEW m, NEW d, NEW f, Received(m, d, f),
               \A g \in Fd : fds'[g] \in {fds[g], Len(calls) + 1}
        PROVE  OpenInv'
    <3>1. DOMAIN status' = DOMAIN status \cup {Len(calls) + 1}
      BY <2>1, ReceivedFacts DEF IInv, TypeOK
    <3> QED BY <2>1, <3>1 DEF OpenInv
  <2>2. ASSUME NEW d \in Dev, NewConnection(d) PROVE OpenInv'
    <3>1. \A g \in Fd : fds'[g] \in {fds[g], Len(calls) + 1}
      BY <2>2 DEF NewConnection, IInv, TypeOK, ProcessTypes
    <3> QED BY <2>1, <2>2, <3>1 DEF NewConnection
  <2>3. CASE DaemonExit
    BY <1>1, <2>1, <2>3 DEF DaemonExit
  <2> QED BY <1>1, <1>4, <2>2, <2>3 DEF Daemon, DaemonCrash, DaemonStart, DeviceAdded, DeviceRemoved
<1>5. CASE UNCHANGED vars
  BY <1>1, <1>5 DEF vars
<1> QED BY <1>2, <1>3, <1>4, <1>5 DEF Next

\* The descriptors that matter are descriptors, and no call has the number 0.
LEMMA RaceTypes ==
  ASSUME IInv
  PROVE  /\ NoFd \notin Fd /\ fds \in [Fd -> CallId \cup {Free}]
         /\ sock.fd \in Fd \cup {NoFd} /\ newfd \in Fd \cup {NoFd}
         /\ ofd \in Fd \cup {NoFd} /\ lfd \in Fd \cup {NoFd}
         /\ \A j \in DOMAIN status : calls[j].fd \in Fd \cup {NoFd} /\ j # Free
         /\ Free \notin Waiting /\ Free \notin Adopted
         /\ Adopted \subseteq DOMAIN status /\ Waiting \subseteq DOMAIN status
         /\ Adopted \cap Waiting = {}
<1>1. \A j \in DOMAIN status : calls[j].fd \in Fd \cup {NoFd} /\ j # Free
  BY CallTypes DEF IInv, TypeOK, Free
<1>2. /\ Adopted \subseteq DOMAIN status /\ Waiting \subseteq DOMAIN status
      /\ Adopted \cap Waiting = {}
  BY DEF Adopted, Waiting
<1> QED BY <1>1, <1>2, BoundAssumption
       DEF IInv, TypeOK, ProcessTypes, ObjectTypes, OwnerTypes, ListenTypes, NoFd, Fd

\* Once the handler of Release has begun, nothing waits.
LEMMA NothingAfterRelease ==
  ASSUME IInv, OrderInv, ReleaseInv, Released
  PROVE  Waiting = {} /\ ~registered
<1>1. PICK i \in DOMAIN status : calls[i].m = "Release" /\ status[i] \in {"running", "taken"}
  BY DEF Released
<1>2. i = Len(calls) /\ ~registered /\ i \notin Waiting
  BY <1>1 DEF ReleaseInv, Waiting
<1>3. \A j \in Waiting : i < j /\ j \in 1..Len(calls) /\ Len(calls) \in Nat
  BY <1>1, <1>2, CallTypes DEF OrderInv, IInv, TypeOK, BusTypes, Waiting
<1> QED BY <1>2, <1>3

\* The listen thread calls closeConnection for Release only.
LEMMA ClosesForRelease ==
  ASSUME IInv, OrderInv, lpc \in {"load", "close", "clear"}
  PROVE  Released /\ newfd \in Fd \cup {NoFd} /\ calls[cur].m = "Release"
<1>1. cur \in DOMAIN status /\ status[cur] = "running" /\ calls[cur].m # "NewConnection"
  BY CallTypes DEF IInv, TypeOK, CallInv, OrderInv, Handling
<1>2. calls[cur] \in Call
  BY <1>1 DEF IInv, TypeOK, BusTypes
<1>3. calls[cur].m = "Release"
  BY <1>1, <1>2 DEF Call, Method
<1> QED BY <1>1, <1>3, RaceTypes DEF Released

\* A step that leaves descriptors, calls and threads' places alone.
LEMMA QuietRace ==
  ASSUME OwnInv, SockInv,
         UNCHANGED <<cur, newfd, lfd, ofd, sock, fds, calls, status>>,
         aborted' = aborted \/ ~Running',
         \/ lpc' = lpc
         \/ lpc = "find" /\ lpc' = "remove"
         \/ {lpc, lpc'} \cap Handling = {},
         opc' = opc \/ (opc # "clear" /\ opc' # "close")
  PROVE  OwnInv' /\ SockInv'
<1>1. Waiting' = Waiting /\ Adopted' = Adopted
  BY DEF Waiting, Adopted
<1>2. Released' = Released
  BY DEF Released
<1>3. \A f : Handed(f)' = Handed(f) /\ Pending(f)' = Pending(f)
  BY <1>1 DEF Handed, Pending
<1>4. OwnInv'
  BY <1>1 DEF OwnInv, Running, Handling
<1>5. SockInv'
  BY <1>1, <1>2, <1>3 DEF SockInv, Handling
<1> QED BY <1>4, <1>5

\* closeConnection in the owner's thread, with the listen thread anywhere.
LEMMA OwnerCloseRace ==
  ASSUME IInv, OrderInv, RaceInv, OwnerLoad \/ OwnerClose \/ OwnerClear
  PROVE  OwnInv' /\ SockInv'
<1> USE DEF objVars, ownVars, lisVars, busVars
<1>1. UNCHANGED <<lpc, cur, newfd, lfd, calls, status>>
  BY DEF OwnerLoad, OwnerClose, OwnerClear, OwnerGoes
<1>2. Waiting' = Waiting /\ Adopted' = Adopted
  BY <1>1 DEF Waiting, Adopted
<1>3. Released' = Released /\ \A i : Pending(i)' = Pending(i)
  BY <1>1, <1>2 DEF Released, Pending
<1>4. OwnInv /\ SockInv
  BY DEF RaceInv
<1>5. ASSUME fds' = fds PROVE \A f : Handed(f)' = Handed(f)
  BY <1>1, <1>2, <1>5 DEF Handed
<1>6. CASE OwnerLoad
  <2>1. OwnInv'
    BY <1>1, <1>2, <1>4, <1>6 DEF OwnInv, OwnerLoad, Running
  <2>2. SockInv'
    BY <1>1, <1>3, <1>4, <1>5, <1>6 DEF SockInv, OwnerLoad
  <2> QED BY <2>1, <2>2
<1>7. CASE OwnerClose
  <2>1. /\ ofd # NoFd /\ ofd \in Fd /\ (Handed(ofd) \/ (fds[ofd] = Free /\ Released))
        /\ opc = "close" /\ opc' = "clear" /\ UNCHANGED <<ofd, sock, aborted>>
    BY <1>4, <1>7, RaceTypes DEF SockInv, OwnerClose, OwnerGoes
  <2>2. fds'[ofd] = Free /\ \A f \in Fd : f # ofd => fds'[f] = fds[f]
    BY <1>7, <2>1 DEF OwnerClose, Closed
  <2>3. \A f \in Fd : f # ofd => Handed(f)' = Handed(f)
    BY <1>1, <1>2, <2>2 DEF Handed
  <2>4. \A i \in DOMAIN status : (status[i] # "error" /\ calls[i].fd # NoFd) => calls[i].fd # ofd
    BY <1>4, <2>1, RaceTypes DEF OwnInv, Handed
  <2>5. newfd # NoFd => newfd # ofd
    <3>1. SUFFICES ASSUME newfd # NoFd, newfd = ofd PROVE FALSE
      OBVIOUS
    <3>2. lpc \in Handling /\ fds[ofd] = cur /\ cur \in DOMAIN status /\ status[cur] = "running"
      BY <1>4, <3>1, CallTypes DEF OwnInv, OrderInv, Handling, IInv, TypeOK, CallInv
    <3> QED BY <2>1, <3>2, RaceTypes DEF Handed, Adopted
  <2>6. OwnInv'
    BY <1>1, <1>2, <1>4, <2>1, <2>2, <2>4, <2>5, RaceTypes DEF OwnInv, Running
  <2>7. sock'.fd # NoFd => \/ Handed(sock.fd)'
                           \/ fds'[sock'.fd] = Free /\ Released'
                           \/ /\ opc' = "clear" /\ ofd' = sock'.fd
                              /\ fds'[sock'.fd] = Free
    BY <1>3, <1>4, <2>1, <2>2, <2>3, RaceTypes DEF SockInv
  <2>8. lpc' = "close" => lfd' # NoFd /\ (Handed(lfd)' \/ fds'[lfd'] = Free)
    BY <1>1, <1>4, <2>1, <2>2, <2>3, RaceTypes DEF SockInv
  <2>9. SockInv'
    BY <2>1, <2>7, <2>8 DEF SockInv
  <2> QED BY <2>6, <2>9
<1>8. CASE OwnerClear
  <2>1. OwnInv'
    BY <1>1, <1>2, <1>4, <1>8 DEF OwnInv, OwnerClear, Running
  <2>2. opc' \notin {"close", "clear"} /\ sock'.fd = (IF ofd = NoFd THEN sock.fd ELSE NoFd) /\ fds' = fds
    BY <1>8 DEF OwnerClear, AfterClose
  <2>3. SockInv'
    BY <1>1, <1>3, <1>4, <1>5, <2>2 DEF SockInv
  <2> QED BY <2>1, <2>3
<1> QED BY <1>6, <1>7, <1>8

\* Unexport: what waits goes on waiting.
LEMMA UnexportRace ==
  ASSUME IInv, RaceInv, Unexport
  PROVE  OwnInv' /\ SockInv'
<1>1. /\ UNCHANGED <<lpc, cur, newfd, lfd, ofd, sock, fds, calls>>
      /\ opc = "unexport" /\ opc' \in {"unexport", "load"}
      /\ aborted' = aborted \/ ~Running'
  BY DEF Unexport, OwnerGoes, lisVars, ownVars, Running
<1>2. /\ DOMAIN status' = DOMAIN status
      /\ \A i \in DOMAIN status : status'[i] = IF status[i] = "queued" THEN "stale" ELSE status[i]
  BY DEF Unexport, StaleStatus
<1>3. Waiting' = Waiting /\ Adopted' = Adopted
  BY <1>1, <1>2 DEF Waiting, Adopted
<1>4. Released' = Released
  BY <1>1, <1>2 DEF Released
<1>5. \A f : Handed(f)' = Handed(f) /\ Pending(f)' = Pending(f)
  BY <1>1, <1>3 DEF Handed, Pending
<1>6. OwnInv'
  BY <1>1, <1>2, <1>3 DEF RaceInv, OwnInv, Running
<1>7. SockInv'
  BY <1>1, <1>4, <1>5 DEF RaceInv, SockInv
<1> QED BY <1>6, <1>7

\* A stale call is answered and its own descriptor is closed.
LEMMA StaleRace ==
  ASSUME IInv, OrderInv, RaceInv, DispatchStale
  PROVE  OwnInv' /\ SockInv'
<1> DEFINE i == First(batch)
<1>1. i \in DOMAIN status /\ i \in Waiting
  BY DispatchOrder DEF DispatchStale
<1>2. /\ UNCHANGED <<lpc, opc, cur, newfd, lfd, ofd, sock, calls, aborted>>
      /\ lpc = "dispatch" /\ status[i] = "stale" /\ Running
      /\ status' = With(i, "error") /\ fds' = Closed(fds, calls[i].fd)
  BY DEF DispatchStale, objVars, ownVars
<1> HIDE DEF i
<1>3. /\ DOMAIN status' = DOMAIN status /\ status'[i] = "error"
      /\ \A j \in DOMAIN status : j # i => status'[j] = status[j]
  BY <1>1, <1>2, WithFacts DEF IInv, TypeOK, Status
<1>4. Waiting' = Waiting \ {i} /\ Adopted' = Adopted /\ i \notin Adopted
  BY <1>1, <1>2, <1>3 DEF Waiting, Adopted
<1>5. /\ \A f \in Fd : f # calls[i].fd => fds'[f] = fds[f]
      /\ \A f \in Fd : f = calls[i].fd => fds'[f] = Free
  BY <1>2 DEF Closed
<1>6. calls[i].fd # NoFd => fds[calls[i].fd] = i
  BY <1>1, <1>2 DEF RaceInv, OwnInv
<1>7. newfd = NoFd /\ cur = 0
  BY <1>2 DEF RaceInv, OwnInv, Handling
<1>8. OwnInv'
  <2>1. \A j \in DOMAIN status : (j # i /\ status[j] # "error" /\ calls[j].fd # NoFd) =>
           fds[calls[j].fd] = j /\ calls[j].fd # calls[i].fd
    BY <1>6 DEF RaceInv, OwnInv
  <2>2. \A j \in DOMAIN status' : (status'[j] # "error" /\ calls'[j].fd # NoFd) => fds'[calls'[j].fd] = j
    BY <1>2, <1>3, <1>5, <2>1, RaceTypes
  <2>3. \A f \in Fd : fds'[f] \in Waiting' => calls'[fds'[f]].fd = f
    BY <1>2, <1>4, <1>5, RaceTypes DEF RaceInv, OwnInv
  <2> QED BY <1>2, <1>7, <2>2, <2>3 DEF OwnInv
<1>9. \A f \in Fd : Handed(f) => Handed(f)'
  <2>1. \A f \in Fd : Handed(f) => f # calls[i].fd
    BY <1>4, <1>6, RaceTypes DEF Handed
  <2> QED BY <1>2, <1>4, <1>5, <2>1 DEF Handed
<1>10. Released => Released'
  BY <1>2, <1>3 DEF Released
<1>11. sock.fd # NoFd => \/ Handed(sock.fd)'
                         \/ fds'[sock.fd] = Free /\ Released'
                         \/ /\ opc = "clear" /\ ofd = sock.fd
                            /\ fds'[sock.fd] = Free \/ fds'[sock.fd] \in Waiting'
  <2>1. sock.fd # NoFd => sock.fd \in Fd
    BY RaceTypes
  <2>2. sock.fd # NoFd => \/ Handed(sock.fd)
                          \/ fds[sock.fd] = Free /\ Released
                          \/ /\ opc = "clear" /\ ofd = sock.fd
                             /\ fds[sock.fd] = Free \/ fds[sock.fd] \in Waiting
    BY <1>7, RaceTypes DEF RaceInv, SockInv, Pending, Free
  <2>3. sock.fd # NoFd => fds'[sock.fd] = Free \/ (fds'[sock.fd] = fds[sock.fd] /\ fds[sock.fd] # i)
    BY <1>1, <1>5, <2>1 DEF RaceInv, OwnInv
  <2>4. fds[sock.fd] \in Waiting /\ fds[sock.fd] # i => fds[sock.fd] \in Waiting'
    BY <1>4
  <2>5. sock.fd # NoFd /\ fds[sock.fd] = Free => fds'[sock.fd] = Free
    BY <1>5, <2>1
  <2>6. sock' = sock
    BY <1>2
  <2> QED BY <1>9, <1>10, <2>1, <2>2, <2>3, <2>4, <2>5, <2>6
<1>12. opc = "close" => ofd # NoFd /\ (Handed(ofd)' \/ (fds'[ofd] = Free /\ Released'))
  BY <1>2, <1>5, <1>9, <1>10, RaceTypes DEF RaceInv, SockInv
<1>13. SockInv'
  BY <1>2, <1>11, <1>12 DEF SockInv, Pending
<1> QED BY <1>8, <1>13

\* handleNewConnectionCallback duplicates the descriptor of its message, maybe
\* into the number the owner has just closed.
LEMMA NewConnectionRace ==
  ASSUME IInv, OrderInv, RaceInv, HandleNewConnection
  PROVE  OwnInv' /\ SockInv'
<1>1. Dispatch("NewConnection") /\ Running
  BY DEF HandleNewConnection, Dispatch
<1>2. /\ lpc = "dispatch" /\ lpc' \in {"dispatch", "find"} /\ newfd = NoFd /\ cur = 0
      /\ UNCHANGED <<opc, ofd, lfd, sock, calls>>
      /\ cur' \in DOMAIN status /\ cur' \in Waiting /\ calls[cur'].m = "NewConnection"
      /\ DOMAIN status' = DOMAIN status
      /\ \A j \in DOMAIN status : status[j] # "error" <=> status'[j] # "error"
      /\ Adopted' = Adopted /\ Waiting' = Waiting \ {cur'}
      /\ lpc' = "find" \/ ~Running'
  BY <1>1, RunningOrder DEF HandleNewConnection, RaceInv, OwnInv, Handling, Running
<1>3. ~Released
  BY <1>2, NothingAfterRelease DEF RaceInv
<1>4. /\ sock.fd # NoFd => \/ Handed(sock.fd)
                           \/ /\ opc = "clear" /\ ofd = sock.fd
                              /\ fds[sock.fd] = Free \/ fds[sock.fd] \in Waiting
      /\ opc = "close" => ofd # NoFd /\ Handed(ofd)
  BY <1>2, <1>3, RaceTypes DEF RaceInv, SockInv, Pending, Free
<1>5. CASE newfd' = NoFd /\ fds' = fds
  <2>1. OwnInv'
    BY <1>2, <1>5 DEF RaceInv, OwnInv, Handling
  <2>2. \A f : Handed(f)' = Handed(f)
    BY <1>2, <1>5 DEF Handed
  <2>3. \A i \in Waiting : Pending(i)'
    BY <1>2 DEF Pending
  <2>4. SockInv'
    BY <1>2, <1>4, <1>5, <2>2, <2>3 DEF SockInv
  <2> QED BY <2>1, <2>4
<1>6. CASE /\ FreeFds # {} /\ newfd' = LowestFree /\ lpc' = "find"
           /\ fds' = [fds EXCEPT ![LowestFree] = First(batch)]
  <2>1. newfd' \in Fd /\ fds[newfd'] = Free
    BY <1>6, LowestFreeIsFree DEF FreeFds
  <2>2. fds'[newfd'] = cur' /\ \A f \in Fd : f # newfd' => fds'[f] = fds[f]
    BY <1>1, <1>6, <2>1, RaceTypes DEF Dispatch
  <2>3. \A j \in DOMAIN status : (status[j] # "error" /\ calls[j].fd # NoFd) =>
           fds[calls[j].fd] = j /\ calls[j].fd # newfd'
    BY <2>1, RaceTypes DEF RaceInv, OwnInv
  <2>4. cur' \notin Waiting' /\ newfd' # calls[cur'].fd
    BY <1>1, <1>2, <2>1, <2>3, RaceTypes, RunningOrder
  <2>5. OwnInv'
    <3>1. \A j \in DOMAIN status' : (status'[j] # "error" /\ calls'[j].fd # NoFd) =>
             fds'[calls'[j].fd] = j
      BY <1>2, <2>2, <2>3, RaceTypes
    <3>2. \A f \in Fd : fds'[f] \in Waiting' => calls'[fds'[f]].fd = f
      BY <1>2, <2>2, <2>4 DEF RaceInv, OwnInv
    <3> QED BY <1>2, <1>6, <2>2, <2>4, <3>1, <3>2 DEF OwnInv, Handling
  <2>6. \A f \in Fd : Handed(f) => Handed(f)'
    <3>1. \A f \in Fd : Handed(f) => f # newfd'
      BY <2>1, RaceTypes DEF Handed
    <3> QED BY <1>2, <2>2, <3>1 DEF Handed
  <2>7. /\ \A i \in Waiting : Pending(i)'
        /\ Pending(cur)'
    BY <1>2 DEF Pending
  <2>8. sock.fd # NoFd /\ fds[sock.fd] \in Waiting \cup {Free} =>
           fds'[sock.fd] \in Waiting \cup {Free}
    BY <1>2, <2>2, RaceTypes
  <2>9. \A i \in Waiting \cup {Free} : i = Free \/ Pending(i)'
    BY <2>7
  <2>10. sock'.fd # NoFd => \/ Handed(sock.fd)'
                            \/ /\ opc' = "clear" /\ ofd' = sock'.fd
                               /\ fds'[sock'.fd] = Free \/ Pending(fds[sock.fd])'
    BY <1>2, <1>4, <2>6, <2>8, <2>9, RaceTypes
  <2>11. opc' = "close" => ofd' # NoFd /\ Handed(ofd)'
    BY <1>2, <1>4, <2>6, RaceTypes
  <2>12. lpc' # "close"
    BY <1>2
  <2>13. SockInv'
    BY <2>10, <2>11, <2>12 DEF SockInv
  <2> QED BY <2>5, <2>13
<1> QED BY <1>1, <1>2, <1>5, <1>6 DEF HandleNewConnection

\* handleReleaseCallback begins: from here on nothing arrives.
LEMMA ReleaseRace ==
  ASSUME IInv, OrderInv, RaceInv, HandleRelease
  PROVE  OwnInv' /\ SockInv'
<1>1. Dispatch("Release") /\ Running
  BY DEF HandleRelease, Dispatch
<1>2. /\ lpc = "dispatch" /\ lpc' \in {"dispatch", "load"} /\ newfd = NoFd /\ cur = 0
      /\ UNCHANGED <<opc, ofd, lfd, sock, calls, fds, newfd>>
      /\ cur' \in DOMAIN status /\ cur' \in Waiting /\ calls[cur'].m = "Release"
      /\ DOMAIN status' = DOMAIN status /\ status'[cur'] = "running"
      /\ \A j \in DOMAIN status : status[j] # "error" <=> status'[j] # "error"
      /\ Adopted' = Adopted /\ Waiting' = Waiting \ {cur'}
      /\ lpc' = "load" \/ ~Running'
  BY <1>1, RunningOrder DEF HandleRelease, RaceInv, OwnInv, Handling, Running
<1>3. Released'
  BY <1>2 DEF Released
<1>4. \A f : Handed(f)' = Handed(f)
  BY <1>2 DEF Handed
<1>5. OwnInv'
  BY <1>2 DEF RaceInv, OwnInv, Handling
<1>6. \A i \in Waiting : i # cur' => Pending(i)'
  BY <1>2 DEF Pending
<1>7. sock.fd # NoFd => fds[sock.fd] # cur'
  BY <1>2, RaceTypes DEF RaceInv, ReleaseInv, OwnInv
<1>8. SockInv'
  BY <1>2, <1>3, <1>4, <1>6, <1>7, RaceTypes DEF RaceInv, SockInv, Pending, Free
<1> QED BY <1>5, <1>8

\* createNewSocketConnection hands the duplicate to the Socket.
LEMMA CreateRace ==
  ASSUME IInv, OrderInv, RaceInv, CreateNewSocketConnection
  PROVE  OwnInv' /\ SockInv'
<1> USE DEF objVars, ownVars, lisVars, busVars
<1>1. ASSUME NEW why, why # "no", Abort(why)
      PROVE  OwnInv' /\ SockInv'
  BY <1>1, QuietRace DEF Abort, RaceInv, Running
<1>2. CASE /\ SetupOk(newfd) /\ sock' = SocketOf(newfd) /\ Running
           /\ HandlerReturns /\ UNCHANGED <<ownVars, fds, calls, aborted>>
  <2>1. lpc = "remove" /\ calls[cur].m = "NewConnection" /\ lpc \in Handling
    BY <1>2 DEF CreateNewSocketConnection, OrderInv, Handling
  <2>2. /\ DOMAIN status' = DOMAIN status /\ cur \in DOMAIN status
        /\ status[cur] = "running" /\ status'[cur] = "taken"
        /\ \A j \in DOMAIN status : j # cur => status'[j] = status[j]
        /\ Adopted' = Adopted \cup {cur} /\ Waiting' = Waiting
        /\ lpc' = "dispatch" /\ newfd' = NoFd /\ cur' = 0
    BY <1>2, <2>1, ReturnOrder DEF HandlerReturns
  <2>3. newfd \in Fd /\ newfd # NoFd /\ fds[newfd] = cur /\ newfd # calls[cur].fd
    BY <1>2, RaceTypes DEF SetupOk, RaceInv, OwnInv
  <2>4. sock'.fd = newfd
    BY <1>2 DEF SocketOf
  <2>5. OwnInv'
    BY <1>2, <2>2 DEF RaceInv, OwnInv
  <2>7. \A f : Handed(f) => (fds'[f] \in Adopted' /\ calls'[fds'[f]].fd # f)
    BY <1>2, <2>2 DEF Handed
  <2>8. fds'[sock'.fd] \in Adopted' /\ calls'[fds'[sock'.fd]].fd # sock'.fd
    BY <1>2, <2>2, <2>3, <2>4
  <2>9. Released => Released'
    BY <1>2, <2>2 DEF Released
  <2>10. opc' = "close" => /\ ofd' # NoFd
                           /\ Handed(ofd)' \/ (fds'[ofd'] = Free /\ Released')
    BY <1>2, <2>7, <2>9 DEF RaceInv, SockInv, Handed
  <2>11. SockInv'
    BY <2>2, <2>8, <2>10 DEF SockInv, Handed
  <2> QED BY <2>5, <2>11
<1> QED BY <1>1, <1>2 DEF CreateNewSocketConnection

\* closeConnection in the listen thread, with the owner anywhere.
LEMMA ListenerCloseRace ==
  ASSUME IInv, OrderInv, RaceInv, ListenerLoad \/ ListenerClose \/ ListenerClear
  PROVE  OwnInv' /\ SockInv'
<1> USE DEF objVars, ownVars, lisVars, busVars
<1>1. /\ UNCHANGED <<opc, ofd, calls, aborted>>
      /\ lpc \in {"load", "close", "clear"}
  BY DEF ListenerLoad, ListenerClose, ListenerClear
<1>2. Released /\ Waiting = {} /\ newfd = NoFd /\ lpc \in Handling /\ calls[cur].m = "Release"
  BY <1>1, ClosesForRelease, NothingAfterRelease DEF RaceInv, OwnInv, Handling
<1>3. sock.fd # NoFd => Handed(sock.fd) \/ fds[sock.fd] = Free
  BY <1>2 DEF RaceInv, SockInv, Pending
<1>4. CASE ListenerLoad
  <2>1. UNCHANGED <<cur, newfd, sock, fds, status>> /\ lpc' \in {"close", "clear"} /\ lfd' = sock.fd
        /\ (lpc' = "close" => sock.fd # NoFd)
    BY <1>4 DEF ListenerLoad
  <2>2. Waiting' = Waiting /\ Adopted' = Adopted /\ Released'
    BY <1>1, <1>2, <2>1 DEF Waiting, Adopted, Released
  <2>3. \A f : Handed(f)' = Handed(f)
    BY <1>1, <2>1, <2>2 DEF Handed
  <2>4. OwnInv'
    BY <1>1, <1>2, <2>1, <2>2 DEF RaceInv, OwnInv, Handling, NoFd
  <2>5. SockInv'
    BY <1>1, <1>3, <2>1, <2>2, <2>3 DEF RaceInv, SockInv
  <2> QED BY <2>4, <2>5
<1>5. CASE ListenerClose
  <2>1. /\ UNCHANGED <<cur, newfd, lfd, sock, status>> /\ lpc = "close" /\ lpc' = "clear"
        /\ lfd \in Fd /\ (Handed(lfd) \/ fds[lfd] = Free)
    BY <1>5, RaceTypes DEF ListenerClose, RaceInv, SockInv
  <2>2. Waiting' = Waiting /\ Adopted' = Adopted /\ Released'
    BY <1>1, <1>2, <2>1 DEF Waiting, Adopted, Released
  <2>3. fds'[lfd] = Free /\ \A f \in Fd : f # lfd => fds'[f] = fds[f]
    BY <1>5, <2>1 DEF ListenerClose, Closed
  <2>4. \A f \in Fd : f # lfd => Handed(f)' = Handed(f)
    BY <1>1, <2>2, <2>3 DEF Handed
  <2>5. \A i \in DOMAIN status : (status[i] # "error" /\ calls[i].fd # NoFd) => calls[i].fd # lfd
    BY <2>1, RaceTypes DEF RaceInv, OwnInv, Handed
  <2>6. OwnInv'
    BY <1>1, <1>2, <2>1, <2>2, <2>3, <2>5, RaceTypes DEF RaceInv, OwnInv, Handling
  <2>7. \A f \in Fd : Handed(f) \/ fds[f] = Free => fds'[f] = Free \/ (f # lfd /\ Handed(f))
    BY <2>3
  <2>8. sock'.fd # NoFd => Handed(sock.fd)' \/ fds'[sock'.fd] = Free
    BY <1>3, <2>1, <2>4, <2>7, RaceTypes
  <2>9. opc' = "close" => ofd' # NoFd /\ (Handed(ofd)' \/ fds'[ofd'] = Free)
    BY <1>1, <2>4, <2>7, RaceTypes DEF RaceInv, SockInv
  <2>10. SockInv'
    BY <2>1, <2>2, <2>8, <2>9 DEF SockInv
  <2> QED BY <2>6, <2>10
<1>6. CASE ListenerClear
  <2>1. HandlerReturns /\ fds' = fds /\ sock'.fd \in {sock.fd, NoFd}
    BY <1>6 DEF ListenerClear, AfterClose
  <2>2. /\ DOMAIN status' = DOMAIN status /\ cur \in DOMAIN status
        /\ status[cur] = "running" /\ status'[cur] = "taken"
        /\ \A j \in DOMAIN status : j # cur => status'[j] = status[j]
        /\ Adopted' = Adopted /\ Waiting' = Waiting
        /\ lpc' = "dispatch" /\ newfd' = NoFd /\ cur' = 0
    BY <1>1, <1>2, <2>1, ReturnOrder DEF HandlerReturns
  <2>3. Released'
    BY <1>1, <1>2, <2>2 DEF Released
  <2>4. \A f : Handed(f) => (fds'[f] \in Adopted' /\ calls'[fds'[f]].fd # f)
    BY <1>1, <2>1, <2>2 DEF Handed
  <2>5. OwnInv'
    BY <1>1, <2>1, <2>2 DEF RaceInv, OwnInv
  <2>6. sock'.fd # NoFd => Handed(sock.fd)' \/ fds'[sock'.fd] = Free
    BY <1>3, <2>1, <2>4 DEF Handed
  <2>7. opc' = "close" => ofd' # NoFd /\ (Handed(ofd)' \/ fds'[ofd'] = Free)
    BY <1>1, <2>1, <2>4 DEF RaceInv, SockInv, Handed
  <2>8. SockInv'
    BY <2>2, <2>3, <2>6, <2>7 DEF SockInv
  <2> QED BY <2>5, <2>8
<1> QED BY <1>4, <1>5, <1>6

\* A message arrives, maybe with the number the owner has just closed.
LEMMA ArrivalRace ==
  ASSUME IInv, OrderInv, RaceInv, NEW m, NEW d, NEW f, Received(m, d, f), registered, Running,
         UNCHANGED <<objVars, ownVars, lisVars, aborted>>,
         \/ f = NoFd /\ fds' = fds
         \/ /\ f \in Fd /\ fds[f] = Free
            /\ fds' = [fds EXCEPT ![f] = Len(calls) + 1]
  PROVE  OwnInv' /\ SockInv'
<1> DEFINE n == Len(calls) + 1
<1>1. UNCHANGED <<lpc, cur, newfd, lfd, opc, ofd, sock>>
  BY DEF objVars, ownVars, lisVars
<1>2. /\ DOMAIN status' = DOMAIN status \cup {n} /\ n \notin DOMAIN status
      /\ \A j \in DOMAIN status : status'[j] = status[j] /\ calls'[j] = calls[j]
      /\ status'[n] = "queued" /\ calls'[n].fd = f
  <2>1. BusTypes
    BY DEF IInv, TypeOK
  <2> QED BY <2>1, ReceivedFacts
<1>3. Waiting' = Waiting \cup {n} /\ Adopted' = Adopted
  BY ArrivalOrder
<1>4. /\ f # NoFd => f \in Fd /\ fds[f] = Free /\ fds'[f] = n
      /\ \A g \in Fd : g # f => fds'[g] = fds[g]
  BY RaceTypes
<1>5. ~Released /\ lpc \notin {"load", "close", "clear"}
  BY ClosesForRelease, NothingAfterRelease DEF RaceInv
<1>6. newfd # NoFd => lpc \in {"find", "remove"} /\ cur \in DOMAIN status /\ fds[newfd] = cur
                      /\ newfd # calls[cur].fd
  BY CallTypes DEF RaceInv, OwnInv, IInv, TypeOK, CallInv, Handling
<1> HIDE DEF n
<1>7. OwnInv'
  <2>1. \A j \in DOMAIN status' : (status'[j] # "error" /\ calls'[j].fd # NoFd) =>
           fds'[calls'[j].fd] = j
    BY <1>2, <1>4, RaceTypes DEF RaceInv, OwnInv
  <2>2. \A g \in Fd : fds'[g] \in Waiting' => calls'[fds'[g]].fd = g
    <3> TAKE g \in Fd
    <3>1. CASE g = f
      BY <1>2, <1>4, <3>1, RaceTypes
    <3>2. CASE g # f
      <4>0. fds[g] # Free => fds[g] \in DOMAIN status
        BY DEF RaceInv, OpenInv
      <4>1. fds'[g] = fds[g]
        BY <1>4, <3>2
      <4>2. fds[g] = Free => fds[g] # n
        BY CallTypes DEF n, Free, IInv, TypeOK, BusTypes
      <4> QED BY <1>2, <1>3, <4>0, <4>1, <4>2, RaceTypes DEF RaceInv, OwnInv
    <3> QED BY <3>1, <3>2
  <2>3. newfd' # NoFd => lpc' \in {"find", "remove"} /\ fds'[newfd'] = cur' /\ newfd' # calls'[cur'].fd
    BY <1>1, <1>2, <1>4, <1>6, RaceTypes
  <2>4. (Running' /\ lpc' \notin Handling) => cur' = 0
    BY <1>1 DEF RaceInv, OwnInv, Running
  <2> QED BY <2>1, <2>2, <2>3, <2>4 DEF OwnInv
<1>8. \A g \in Fd : Handed(g) => (fds'[g] \in Adopted' /\ calls'[fds'[g]].fd # g)
  BY <1>2, <1>3, <1>4, RaceTypes DEF Handed
<1>9. \A i : Pending(i) => i = Free \/ Pending(i)'
  <2>1. cur = Free \/ cur \in DOMAIN status
    BY CallTypes DEF IInv, TypeOK, CallInv, RaceInv, OwnInv, Free
  <2> QED BY <1>1, <1>2, <1>3, <2>1 DEF Pending
<1>10. sock'.fd # NoFd => \/ Handed(sock.fd)'
                          \/ /\ opc' = "clear" /\ ofd' = sock'.fd
                             /\ fds'[sock'.fd] = Free \/ Pending(fds[sock.fd])'
  <2>1. CASE sock.fd = f
    BY <1>1, <1>3, <1>4, <1>5, <2>1, RaceTypes DEF RaceInv, SockInv, Handed, Pending
  <2>2. CASE sock.fd # f
    <3>1. sock.fd # NoFd => fds'[sock.fd] = fds[sock.fd]
      BY <1>4, <2>2, RaceTypes
    <3> QED BY <1>1, <1>5, <1>8, <1>9, <3>1, RaceTypes DEF RaceInv, SockInv, Handed
  <2> QED BY <2>1, <2>2
<1>11. opc' = "close" => ofd' # NoFd /\ Handed(ofd)'
  BY <1>1, <1>5, <1>8, RaceTypes DEF RaceInv, SockInv, Handed
<1>12. SockInv'
  BY <1>1, <1>5, <1>10, <1>11 DEF SockInv
<1> QED BY <1>7, <1>12

\* The invariant holds of a Listener that was just constructed.
LEMMA RaceInit == Init => RaceInv
  BY DEF Init, RaceInv, ReleaseInv, OpenInv, OwnInv, SockInv, Waiting, SocketOf, Handling, Free

\* Every step keeps the invariant, with any use of the Listener.
LEMMA RaceStep ==
  ASSUME IInv, OrderInv, RaceInv, [Next]_vars
  PROVE  RaceInv'
<1> USE DEF objVars, ownVars, lisVars, busVars
<1>0. OwnInv /\ SockInv
  BY DEF RaceInv
<1> SUFFICES OwnInv' /\ SockInv'
  BY ReleaseStep, OpenStep DEF RaceInv
<1>1. CASE StartListening \/ StopListening \/ Disconnect
  BY <1>0, <1>1, QuietRace DEF StartListening, StopListening, Disconnect
<1>2. CASE Owner
  <2>1. CASE StartThread \/ Join
    <3>1. lpc \in {"none", "done"} /\ lpc' \in {"none", "top"}
      BY <2>1 DEF IInv, ThreadInv, StartThread, Join
    <3> QED BY <1>0, <2>1, <3>1, QuietRace DEF StartThread, Join, OwnerGoes, Handling
  <2>2. CASE RegisterReply \/ UnregisterProfile \/ UnregisterReply
    BY <1>0, <2>2, QuietRace
       DEF RegisterReply, UnregisterProfile, UnregisterReply, OwnerGoes, Abort, Running
  <2> QED BY <1>2, <2>1, <2>2, UnexportRace, OwnerCloseRace DEF Owner
<1>3. CASE ListenThread
  <2>1. CASE ListenTask \/ IterationDone
    BY <1>0, <2>1, QuietRace DEF ListenTask, IterationDone, Handling
  <2>2. CASE FindAllRecognizedDevices
    BY <1>0, <2>2, QuietRace DEF FindAllRecognizedDevices, Abort, Running
  <2>3. ASSUME NEW d \in Dev, RemoveDevice(d) PROVE OwnInv' /\ SockInv'
    BY <1>0, <2>3, QuietRace DEF RemoveDevice
  <2> QED BY <1>3, <2>1, <2>2, <2>3, StaleRace, NewConnectionRace, ReleaseRace, CreateRace,
             ListenerCloseRace DEF ListenThread
<1>4. CASE Daemon
  <2>1. ASSUME NEW d \in Dev, NewConnection(d) PROVE OwnInv' /\ SockInv'
    <3>1. CASE FreeFds = {}
      BY <2>1, <3>1, ArrivalRace DEF NewConnection
    <3>2. CASE FreeFds # {}
      <4>1. LowestFree \in Fd /\ fds[LowestFree] = Free
        BY <3>2, LowestFreeIsFree DEF FreeFds
      <4> QED BY <2>1, <3>2, <4>1, ArrivalRace DEF NewConnection
    <3> QED BY <3>1, <3>2
  <2>2. CASE DaemonExit /\ registered
    BY <2>2, ArrivalRace DEF DaemonExit
  <2>3. CASE DaemonExit /\ ~registered
    BY <1>0, <2>3, QuietRace DEF DaemonExit
  <2>4. CASE DaemonCrash \/ DaemonStart \/ \E d \in Dev : DeviceAdded(d) \/ DeviceRemoved(d)
    BY <1>0, <2>4, QuietRace DEF DaemonCrash, DaemonStart, DeviceAdded, DeviceRemoved
  <2> QED BY <1>4, <2>1, <2>2, <2>3, <2>4 DEF Daemon
<1>5. CASE UNCHANGED vars
  BY <1>0, <1>5, QuietRace DEF vars
<1> QED BY <1>1, <1>2, <1>3, <1>4, <1>5 DEF Next

-----------------------------------------------------------------------------
(***************************************************************************)
(* When disconnect() is not used, the Socket always holds the newest link   *)
(* and every close hits a descriptor of its own: the Socket implements      *)
(* ConnectionSlot.  When the owner only starts and stops, the daemon stays  *)
(* and descriptors suffice, no assertion fails.                            *)
(***************************************************************************)
\* A thread inside closeConnection works on the Socket's descriptor.
CloseInv ==
  /\ lpc \in {"close", "clear"} => lfd = sock.fd
  /\ opc \in {"close", "clear"} => ofd = sock.fd
  /\ lpc = "close" => lfd # NoFd
  /\ opc = "close" => ofd # NoFd

HoldsLatest ==
  (sock.fd # NoFd /\ ~Closing) =>
     LET i == fds[sock.fd] IN
       /\ i \in Adopted /\ \A j \in Adopted : j <= i
       /\ calls[i].dev = ctd

\* The descriptors of the messages, of the handler at work and of the Socket
\* are open, are different, and refer to the links they should.
FdInv ==
  /\ \A i \in DOMAIN status :
       (status[i] # "error" /\ calls[i].fd # NoFd) =>
          /\ fds[calls[i].fd] = i
          /\ calls[i].fd # newfd
          /\ calls[i].fd = sock.fd => Closing
  /\ newfd # NoFd => /\ lpc \in {"find", "remove"}
                     /\ fds[newfd] = cur
                     /\ newfd # sock.fd

DescInv == OrderInv /\ CloseInv /\ HoldsLatest /\ FdInv

-----------------------------------------------------------------------------
\* The invariant holds of a Listener that was just constructed.
LEMMA DescInit == Init => DescInv
  BY DEF Init, DescInv, OrderInv, CloseInv, HoldsLatest, FdInv, Waiting, SocketOf, Handling

\* A step that leaves the Socket, the descriptors, the calls and the listen
\* thread's place alone keeps the invariant.
LEMMA QuietStep ==
  ASSUME DescInv,
         UNCHANGED <<lpc, batch, cur, newfd, lfd, ofd, sock, ctd, fds, calls, status>>,
         opc' = opc \/ {opc, opc'} \cap {"close", "clear"} = {}
  PROVE  DescInv'
<1>1. Waiting' = Waiting /\ Adopted' = Adopted
  BY DEF Waiting, Adopted
<1>2. Closing' = Closing
  BY DEF Closing
<1>3. OrderInv'
  BY <1>1 DEF DescInv, OrderInv
<1>4. CloseInv'
  BY DEF DescInv, CloseInv
<1>5. HoldsLatest'
  BY <1>1, <1>2 DEF DescInv, HoldsLatest
<1>6. FdInv'
  BY <1>2 DEF DescInv, FdInv
<1> QED BY <1>3, <1>4, <1>5, <1>6 DEF DescInv

-----------------------------------------------------------------------------
\* The owner's steps of startListening and stopListening up to closeConnection.
LEMMA OwnerDesc ==
  ASSUME IInv, DescInv, "disconnect" \notin Use,
         StartListening \/ StopListening \/ Disconnect \/ RegisterReply \/ StartThread
         \/ Join \/ UnregisterProfile \/ UnregisterReply
  PROVE  DescInv'
<1> USE DEF objVars, ownVars, lisVars, busVars
<1>1. CASE StartListening
  BY <1>1, QuietStep DEF StartListening
<1>2. CASE StopListening
  BY <1>2, QuietStep DEF StopListening
<1>3. CASE Disconnect
  BY <1>3 DEF Disconnect
<1>4. CASE RegisterReply
  BY <1>4, QuietStep DEF RegisterReply, OwnerGoes, Abort
<1>5. CASE UnregisterProfile
  BY <1>5, QuietStep DEF UnregisterProfile, OwnerGoes, Abort
<1>6. CASE UnregisterReply
  BY <1>6, QuietStep DEF UnregisterReply, OwnerGoes, Abort
<1>7. ASSUME StartThread \/ Join
      PROVE  DescInv'
  <2>1. /\ UNCHANGED <<batch, cur, newfd, lfd, ofd, sock, ctd, fds, calls, status>>
        /\ lpc \in {"none", "done"} /\ lpc' \in {"none", "top"}
        /\ {opc, opc'} \cap {"close", "clear"} = {}
    BY <1>7 DEF IInv, ThreadInv, StartThread, Join, OwnerGoes
  <2>2. Waiting' = Waiting /\ Adopted' = Adopted /\ Closing' = Closing
    BY <2>1 DEF Waiting, Adopted, Closing
  <2>3. OrderInv'
    BY <2>1, <2>2 DEF DescInv, OrderInv, Handling
  <2>4. CloseInv'
    BY <2>1 DEF CloseInv
  <2>5. HoldsLatest'
    BY <2>1, <2>2 DEF DescInv, HoldsLatest
  <2>6. FdInv'
    BY <2>1, <2>2 DEF DescInv, FdInv
  <2> QED BY <2>3, <2>4, <2>5, <2>6 DEF DescInv
<1> QED BY <1>1, <1>2, <1>3, <1>4, <1>5, <1>6, <1>7

\* Unexport turns waiting calls into stale ones, which wait as well.
LEMMA UnexportDesc ==
  ASSUME IInv, DescInv, Unexport
  PROVE  DescInv'
<1>1. /\ UNCHANGED <<lpc, batch, cur, newfd, lfd, ofd, sock, ctd, fds, calls>>
      /\ {opc, opc'} \cap {"close", "clear"} = {}
      /\ lpc = "none"
  BY DEF IInv, ThreadInv, Unexport, OwnerGoes, lisVars, ownVars
<1>2. /\ DOMAIN status' = DOMAIN status
      /\ \A i \in DOMAIN status : status'[i] = IF status[i] = "queued" THEN "stale" ELSE status[i]
  BY DEF Unexport, StaleStatus
<1>3. Waiting' = Waiting /\ Adopted' = Adopted /\ Closing' = Closing
  BY <1>1, <1>2 DEF Waiting, Adopted, Closing
<1>4. OrderInv'
  BY <1>1, <1>2, <1>3 DEF DescInv, OrderInv, Handling
<1>5. CloseInv'
  BY <1>1 DEF CloseInv
<1>6. HoldsLatest'
  BY <1>1, <1>3 DEF DescInv, HoldsLatest
<1>7. FdInv'
  BY <1>1, <1>2, <1>3 DEF DescInv, FdInv
<1> QED BY <1>4, <1>5, <1>6, <1>7 DEF DescInv

\* closeConnection in the owner's thread: nobody else touches the Socket.
LEMMA OwnerCloseDesc ==
  ASSUME IInv, DescInv, "disconnect" \notin Use, OwnerLoad \/ OwnerClose \/ OwnerClear
  PROVE  DescInv'
<1> USE DEF objVars, ownVars, lisVars, busVars
<1>1. /\ UNCHANGED <<lpc, batch, cur, newfd, lfd, ctd, calls, status>>
      /\ lpc = "none"
  BY DEF IInv, ThreadInv, OwnerLoad, OwnerClose, OwnerClear, OwnerGoes
<1>2. Waiting' = Waiting /\ Adopted' = Adopted
  BY <1>1 DEF Waiting, Adopted
<1>3. OrderInv'
  BY <1>1, <1>2 DEF DescInv, OrderInv, Handling
<1>4. CASE OwnerLoad
  <2>1. CloseInv'
    BY <1>1, <1>4 DEF DescInv, CloseInv, OwnerLoad
  <2>2. HoldsLatest'
    BY <1>1, <1>2, <1>4 DEF DescInv, HoldsLatest, Closing, OwnerLoad
  <2>3. FdInv'
    BY <1>1, <1>4 DEF DescInv, FdInv, Closing, OwnerLoad
  <2> QED BY <1>3, <2>1, <2>2, <2>3 DEF DescInv
<1>5. CASE OwnerClose
  <2>1. ~Closing /\ Closing' /\ ofd = sock.fd /\ ofd # NoFd /\ newfd = NoFd
    BY <1>1, <1>5 DEF DescInv, CloseInv, FdInv, Closing, OwnerClose, OwnerGoes
  <2>2. CloseInv'
    BY <1>1, <1>5, <2>1 DEF DescInv, CloseInv, OwnerClose, OwnerGoes
  <2>3. HoldsLatest'
    BY <2>1 DEF HoldsLatest
  <2>4. \A f \in Fd : f # ofd => fds'[f] = fds[f]
    BY <1>5 DEF OwnerClose, Closed
  <2>5. \A i \in DOMAIN status : calls[i].fd \in Fd \cup {NoFd}
    BY CallTypes DEF IInv, TypeOK
  <2>6. FdInv'
    BY <1>1, <1>5, <2>1, <2>4, <2>5 DEF DescInv, FdInv, OwnerClose
  <2> QED BY <1>3, <2>2, <2>3, <2>6 DEF DescInv
<1>6. CASE OwnerClear
  <2>1. sock'.fd = NoFd /\ fds' = fds /\ opc' \notin {"close", "clear"}
    BY <1>6 DEF DescInv, CloseInv, OwnerClear, AfterClose
  <2>2. CloseInv'
    BY <1>1, <2>1 DEF CloseInv
  <2>3. HoldsLatest'
    BY <2>1 DEF HoldsLatest, NoFd
  <2>4. FdInv'
    BY <1>1, <2>1 DEF DescInv, FdInv, NoFd
  <2> QED BY <1>3, <2>2, <2>3, <2>4 DEF DescInv
<1> QED BY <1>4, <1>5, <1>6

-----------------------------------------------------------------------------
\* The listen thread's loop.
LEMMA LoopDesc ==
  ASSUME IInv, DescInv, ListenTask \/ IterationDone
  PROVE  DescInv'
<1> USE DEF objVars, ownVars, lisVars, busVars
<1>1. /\ UNCHANGED <<opc, cur, newfd, lfd, ofd, sock, ctd, fds, calls, status>>
      /\ lpc \in {"top", "dispatch"} /\ lpc' \in {"top", "dispatch", "done"}
      /\ batch' = {} \/ (lpc' = "dispatch" /\ batch' = Waiting)
      /\ lpc' = "dispatch" \/ batch' = {}
  BY DEF ListenTask, IterationDone, DescInv, OrderInv
<1>2. Waiting' = Waiting /\ Adopted' = Adopted
  BY <1>1 DEF Waiting, Adopted
<1>3. Closing' = Closing
  BY <1>1 DEF Closing
<1>4. OrderInv'
  BY <1>1, <1>2 DEF DescInv, OrderInv, Handling
<1>5. CloseInv'
  BY <1>1 DEF DescInv, CloseInv
<1>6. HoldsLatest'
  BY <1>1, <1>2, <1>3 DEF DescInv, HoldsLatest
<1>7. FdInv'
  BY <1>1, <1>3 DEF DescInv, FdInv
<1> QED BY <1>4, <1>5, <1>6, <1>7 DEF DescInv

\* While the listen thread dispatches, the owner is not inside closeConnection.
LEMMA DispatchFacts ==
  ASSUME IInv, DescInv, "disconnect" \notin Use, lpc = "dispatch", batch # {}
  PROVE  /\ ~Closing /\ opc \notin {"load", "close", "clear"} /\ newfd = NoFd
         /\ First(batch) \in batch /\ First(batch) \in DOMAIN status
         /\ First(batch) \in Waiting
         /\ \A j \in Waiting : First(batch) <= j
         /\ \A j \in DOMAIN status : j \notin Waiting => j < First(batch)
<1>1. opc \notin {"load", "close", "clear"}
  BY DEF IInv, ThreadInv
<1>2. ~Closing /\ newfd = NoFd
  BY <1>1 DEF Closing, DescInv, FdInv
<1> QED BY <1>1, <1>2, DispatchOrder DEF DescInv

\* A stale call is answered and its own descriptor is closed.
LEMMA StaleDesc ==
  ASSUME IInv, DescInv, "disconnect" \notin Use, DispatchStale
  PROVE  DescInv'
<1> DEFINE i == First(batch)
<1>1. /\ ~Closing /\ newfd = NoFd /\ i \in batch /\ i \in DOMAIN status /\ i \in Waiting
      /\ \A j \in Waiting : i <= j
      /\ \A j \in DOMAIN status : j \notin Waiting => j < i
      /\ opc \notin {"load", "close", "clear"}
  BY DispatchFacts DEF DispatchStale
<1>2. /\ UNCHANGED <<lpc, opc, cur, newfd, lfd, ofd, sock, ctd, calls>>
      /\ lpc = "dispatch" /\ batch' = batch \ {i} /\ status[i] = "stale"
      /\ status' = With(i, "error") /\ fds' = Closed(fds, calls[i].fd)
  BY DEF DispatchStale, objVars, ownVars
<1> HIDE DEF i
<1>3. /\ DOMAIN status' = DOMAIN status /\ status'[i] = "error"
      /\ \A j \in DOMAIN status : j # i => status'[j] = status[j]
  BY <1>1, <1>2, WithFacts DEF IInv, TypeOK, Status
<1>4. /\ DOMAIN status \subseteq Nat \ {0}
      /\ \A j \in DOMAIN status : calls[j].fd \in Fd \cup {NoFd}
  BY CallTypes DEF IInv, TypeOK
<1>5. Waiting' = Waiting \ {i} /\ Adopted' = Adopted /\ ~Closing'
  BY <1>1, <1>2, <1>3 DEF Waiting, Adopted, Closing
<1>6. \A f \in Fd : f # calls[i].fd => fds'[f] = fds[f]
  BY <1>2 DEF Closed
<1>7. OrderInv'
  <2>1. Waiting \subseteq DOMAIN status
    BY DEF Waiting
  <2>2. \A a \in DOMAIN status', b \in Waiting' : a \notin Waiting' => a < b
    BY <1>1, <1>3, <1>4, <1>5, <2>1
  <2>3. batch' \subseteq Waiting'
    BY <1>2, <1>5 DEF DescInv, OrderInv
  <2>4. \A a \in batch', b \in Waiting' : b \notin batch' => a < b
    BY <1>2, <1>5 DEF DescInv, OrderInv
  <2> QED BY <1>2, <2>2, <2>3, <2>4 DEF OrderInv, Handling
<1>8. CloseInv'
  BY <1>1, <1>2 DEF DescInv, CloseInv
<1>9. sock.fd \in Fd \cup {NoFd} /\ (sock.fd = calls[i].fd => sock.fd = NoFd)
  BY <1>1, <1>2 DEF IInv, TypeOK, ObjectTypes, DescInv, FdInv
<1>10. HoldsLatest'
  BY <1>1, <1>2, <1>5, <1>6, <1>9 DEF DescInv, HoldsLatest
<1>11. \A j \in DOMAIN status :
          (j # i /\ status[j] # "error" /\ calls[j].fd # NoFd) => calls[j].fd # calls[i].fd
  BY <1>1, <1>2 DEF DescInv, FdInv
<1>12. FdInv'
  BY <1>1, <1>2, <1>3, <1>4, <1>5, <1>6, <1>11 DEF DescInv, FdInv
<1> QED BY <1>7, <1>8, <1>10, <1>12 DEF DescInv

\* A call is handed to a handler.
LEMMA RunningDesc ==
  ASSUME IInv, DescInv, "disconnect" \notin Use, NEW m, Dispatch(m)
  PROVE  /\ ~Closing /\ newfd = NoFd /\ opc \notin {"load", "close", "clear"}
         /\ opc' = opc /\ ofd' = ofd /\ lfd' = lfd /\ sock' = sock /\ ctd' = ctd
         /\ calls' = calls /\ lpc = "dispatch"
         /\ cur' \in DOMAIN status /\ calls[cur'].m = m
         /\ DOMAIN status' = DOMAIN status /\ status'[cur'] = "running"
         /\ status[cur'] = "queued"
         /\ \A j \in DOMAIN status : j # cur' => status'[j] = status[j]
         /\ Adopted' = Adopted
         /\ \A j \in Adopted : j < cur'
         /\ Waiting' = Waiting \ {cur'}
         /\ batch' \subseteq Waiting'
         /\ \A a \in batch', b \in Waiting' : b \notin batch' => a < b
         /\ \A a \in DOMAIN status', b \in Waiting' : a \notin Waiting' => a < b
<1>1. lpc = "dispatch" /\ batch # {}
  BY DEF Dispatch
<1>2. /\ ~Closing /\ newfd = NoFd /\ opc \notin {"load", "close", "clear"}
  BY <1>1, DispatchFacts
<1> QED BY <1>2, RunningOrder DEF DescInv

\* handleNewConnectionCallback duplicates the descriptor of its message.
LEMMA HandleNewConnectionDesc ==
  ASSUME IInv, DescInv, "disconnect" \notin Use, HandleNewConnection
  PROVE  DescInv'
<1>1. Dispatch("NewConnection")
  BY DEF HandleNewConnection
<1>2. OrderInv'
  BY <1>1, RunningDesc DEF HandleNewConnection, OrderInv, Handling
<1>3. lpc' \in {"dispatch", "find"} /\ ~Closing' /\ CloseInv'
  BY <1>1, RunningDesc DEF HandleNewConnection, CloseInv, Closing
<1>4. sock.fd \in Fd \cup {NoFd} /\ NoFd \notin Fd
  BY BoundAssumption DEF IInv, TypeOK, ObjectTypes, NoFd, Fd
<1>5. \A j \in DOMAIN status : calls[j].fd \in Fd \cup {NoFd} /\ j # Free
  BY CallTypes DEF IInv, TypeOK, Free
<1>6. CASE newfd' = NoFd /\ fds' = fds
  <2>1. HoldsLatest'
    BY <1>1, <1>3, <1>6, RunningDesc DEF DescInv, HoldsLatest
  <2>2. FdInv'
    BY <1>1, <1>3, <1>6, RunningDesc DEF DescInv, FdInv
  <2> QED BY <1>2, <1>3, <2>1, <2>2 DEF DescInv
<1>7. CASE /\ FreeFds # {} /\ newfd' = LowestFree /\ lpc' = "find"
           /\ fds' = [fds EXCEPT ![LowestFree] = First(batch)]
  <2>1. newfd' \in Fd /\ fds[newfd'] = Free
    BY <1>7, LowestFreeIsFree DEF FreeFds
  <2>2. fds'[newfd'] = cur' /\ \A f \in Fd : f # newfd' => fds'[f] = fds[f]
    BY <1>1, <1>7, <2>1 DEF IInv, TypeOK, ProcessTypes, Dispatch
  <2>3. sock.fd # NoFd => fds[sock.fd] \in DOMAIN status
    BY <1>1, RunningDesc DEF DescInv, HoldsLatest, Adopted
  <2>4. sock.fd # newfd'
    BY <1>4, <1>5, <2>1, <2>3
  <2>5. HoldsLatest'
    BY <1>1, <1>3, <1>4, <2>2, <2>4, RunningDesc DEF DescInv, HoldsLatest
  <2>6. \A j \in DOMAIN status : (status[j] # "error" /\ calls[j].fd # NoFd) =>
                                   calls[j].fd # newfd'
    BY <1>5, <2>1 DEF DescInv, FdInv
  <2>7. FdInv'
    BY <1>1, <1>3, <1>5, <1>7, <2>2, <2>4, <2>6, RunningDesc DEF DescInv, FdInv
  <2> QED BY <1>2, <1>3, <2>5, <2>7 DEF DescInv
<1> QED BY <1>1, <1>6, <1>7, RunningDesc DEF HandleNewConnection

\* handleReleaseCallback begins.
LEMMA HandleReleaseDesc ==
  ASSUME IInv, DescInv, "disconnect" \notin Use, HandleRelease
  PROVE  DescInv'
<1>1. PICK m : Dispatch(m) /\ m # "NewConnection"
  BY DEF HandleRelease
<1>2. lpc' \in {"dispatch", "load"} /\ newfd' = newfd /\ fds' = fds
  BY <1>1, RunningDesc DEF HandleRelease
<1>3. OrderInv'
  BY <1>1, <1>2, RunningDesc DEF OrderInv, Handling
<1>4. CloseInv' /\ ~Closing'
  BY <1>1, <1>2, RunningDesc DEF CloseInv, Closing
<1>5. HoldsLatest'
  BY <1>1, <1>2, <1>4, RunningDesc DEF DescInv, HoldsLatest
<1>6. FdInv'
  BY <1>1, <1>2, <1>4, RunningDesc DEF DescInv, FdInv
<1> QED BY <1>3, <1>4, <1>5, <1>6 DEF DescInv

-----------------------------------------------------------------------------
\* Inside a handler.
LEMMA FindDesc ==
  ASSUME IInv, DescInv, FindAllRecognizedDevices
  PROVE  DescInv'
<1> USE DEF objVars, ownVars, lisVars, busVars
<1>1. CASE Abort("objects")
  BY <1>1, QuietStep DEF Abort
<1>2. CASE /\ lpc' = "remove"
           /\ UNCHANGED <<objVars, ownVars, batch, cur, newfd, perror, lfd, aborted, fds, busVars>>
  <2>1. lpc = "find"
    BY DEF FindAllRecognizedDevices
  <2>2. Waiting' = Waiting /\ Adopted' = Adopted /\ Closing' = Closing
    BY <1>2, <2>1 DEF Waiting, Adopted, Closing
  <2>3. OrderInv'
    BY <1>2, <2>1, <2>2 DEF DescInv, OrderInv, Handling
  <2>4. CloseInv'
    BY <1>2 DEF DescInv, CloseInv
  <2>5. HoldsLatest'
    BY <1>2, <2>2 DEF DescInv, HoldsLatest
  <2>6. FdInv'
    BY <1>2, <2>1, <2>2 DEF DescInv, FdInv
  <2> QED BY <2>3, <2>4, <2>5, <2>6 DEF DescInv
<1> QED BY <1>1, <1>2 DEF FindAllRecognizedDevices

\* createNewSocketConnection puts the newest connection into the Socket.
LEMMA CreateDesc ==
  ASSUME IInv, DescInv, "disconnect" \notin Use, CreateNewSocketConnection
  PROVE  DescInv'
<1>1. ASSUME NEW why, Abort(why)
      PROVE  DescInv'
  BY <1>1, QuietStep DEF Abort, objVars, ownVars, lisVars, busVars
<1>2. CASE /\ SetupOk(newfd) /\ sock' = SocketOf(newfd) /\ ctd' = calls[cur].dev
           /\ HandlerReturns /\ UNCHANGED <<ownVars, fds, calls>>
  <2>1. /\ lpc = "remove" /\ opc' = opc /\ ofd' = ofd /\ opc \notin {"load", "close", "clear"}
        /\ calls[cur].m = "NewConnection"
    BY <1>2 DEF CreateNewSocketConnection, IInv, ThreadInv, DescInv, OrderInv, ownVars
  <2>2. /\ OrderInv' /\ DOMAIN status' = DOMAIN status /\ cur \in DOMAIN status
        /\ status'[cur] = "taken"
        /\ \A j \in DOMAIN status : j # cur => status'[j] = status[j]
        /\ Adopted' = Adopted \cup {cur}
        /\ lpc' = "dispatch" /\ newfd' = NoFd
    BY <1>2, <2>1, ReturnOrder DEF DescInv, Handling
  <2>3. /\ sock'.fd = newfd /\ newfd \in Fd /\ newfd # NoFd /\ fds[newfd] = cur
        /\ ~Closing' /\ CloseInv'
    BY <1>2, <2>1, <2>2, BoundAssumption
       DEF SocketOf, SetupOk, DescInv, FdInv, Closing, CloseInv, NoFd, Fd
  <2>4. cur \in Adopted' /\ \A j \in Adopted' : j <= cur
    <3>1. cur \in Nat /\ \A j \in Adopted : j < cur
      BY <2>1, <2>2, CallTypes DEF IInv, TypeOK, DescInv, OrderInv, Handling
    <3> QED BY <2>2, <3>1, CallTypes DEF IInv, TypeOK, Adopted
  <2>5. HoldsLatest'
    BY <1>2, <2>3, <2>4 DEF HoldsLatest
  <2>6. status[cur] = "running"
    BY <2>1 DEF DescInv, OrderInv, Handling
  <2>7. \A j \in DOMAIN status : (status[j] # "error" /\ calls[j].fd # NoFd) =>
           fds[calls[j].fd] = j /\ calls[j].fd # newfd
    BY DEF DescInv, FdInv
  <2>8. FdInv'
    BY <1>2, <2>2, <2>3, <2>6, <2>7 DEF FdInv
  <2> QED BY <2>2, <2>3, <2>5, <2>8 DEF DescInv
<1> QED BY <1>1, <1>2 DEF CreateNewSocketConnection

\* closeConnection in the listen thread: the owner is elsewhere.
LEMMA ListenerCloseDesc ==
  ASSUME IInv, DescInv, "disconnect" \notin Use,
         ListenerLoad \/ ListenerClose \/ ListenerClear
  PROVE  DescInv'
<1> USE DEF objVars, ownVars, lisVars, busVars
<1>1. /\ UNCHANGED <<opc, ofd, ctd, calls>> /\ opc \notin {"load", "close", "clear"}
      /\ lpc \in {"load", "close", "clear"} /\ newfd = NoFd
  BY DEF IInv, ThreadInv, DescInv, FdInv, ListenerLoad, ListenerClose, ListenerClear
<1>2. CASE ListenerLoad
  <2>1. UNCHANGED <<batch, cur, newfd, sock, fds, status>> /\ lpc' \in {"close", "clear"}
    BY <1>2 DEF ListenerLoad
  <2>2. Waiting' = Waiting /\ Adopted' = Adopted
    BY <1>1, <2>1 DEF Waiting, Adopted
  <2>3. OrderInv'
    BY <1>1, <2>1, <2>2 DEF DescInv, OrderInv, Handling
  <2>4. CloseInv'
    BY <1>1, <1>2 DEF CloseInv, ListenerLoad
  <2>5. ~Closing /\ (Closing' => sock.fd = NoFd)
    BY <1>1, <1>2 DEF Closing, ListenerLoad
  <2>6. HoldsLatest'
    BY <1>1, <2>1, <2>2, <2>5 DEF DescInv, HoldsLatest
  <2>7. FdInv'
    BY <1>1, <2>1, <2>5 DEF DescInv, FdInv
  <2> QED BY <2>3, <2>4, <2>6, <2>7 DEF DescInv
<1>3. CASE ListenerClose
  <2>1. UNCHANGED <<batch, cur, newfd, lfd, sock, status>> /\ lpc = "close" /\ lpc' = "clear"
    BY <1>3 DEF ListenerClose
  <2>2. Waiting' = Waiting /\ Adopted' = Adopted
    BY <1>1, <2>1 DEF Waiting, Adopted
  <2>3. OrderInv'
    BY <1>1, <2>1, <2>2 DEF DescInv, OrderInv, Handling
  <2>4. ~Closing /\ Closing' /\ lfd = sock.fd /\ CloseInv'
    BY <1>1, <2>1 DEF DescInv, CloseInv, Closing
  <2>5. HoldsLatest'
    BY <2>4 DEF HoldsLatest
  <2>6. \A f \in Fd : f # lfd => fds'[f] = fds[f]
    BY <1>3 DEF ListenerClose, Closed
  <2>7. \A i \in DOMAIN status : calls[i].fd \in Fd \cup {NoFd}
    BY CallTypes DEF IInv, TypeOK
  <2>8. FdInv'
    BY <1>1, <2>1, <2>4, <2>6, <2>7 DEF DescInv, FdInv
  <2> QED BY <2>3, <2>4, <2>5, <2>8 DEF DescInv
<1>4. CASE ListenerClear
  <2>1. HandlerReturns /\ fds' = fds /\ lpc = "clear"
    BY <1>4 DEF ListenerClear
  <2>2. sock'.fd = NoFd
    BY <1>4, <2>1 DEF DescInv, CloseInv, ListenerClear, AfterClose
  <2>3. /\ OrderInv' /\ DOMAIN status' = DOMAIN status /\ status[cur] # "error"
        /\ \A j \in DOMAIN status : j # cur => status'[j] = status[j]
        /\ lpc' = "dispatch" /\ newfd' = NoFd
    BY <1>1, <2>1, ReturnOrder DEF DescInv, Handling, DescInv, OrderInv
  <2>4. CloseInv'
    BY <1>1, <2>3 DEF CloseInv
  <2>5. HoldsLatest'
    BY <2>2 DEF HoldsLatest, NoFd
  <2>6. FdInv'
    BY <1>1, <2>1, <2>2, <2>3 DEF DescInv, FdInv, NoFd
  <2> QED BY <2>3, <2>4, <2>5, <2>6 DEF DescInv
<1> QED BY <1>2, <1>3, <1>4

-----------------------------------------------------------------------------
\* A message arrives, with a descriptor that was free or with none.
LEMMA ArrivalDesc ==
  ASSUME IInv, DescInv, NEW m, NEW d, NEW f, Received(m, d, f),
         UNCHANGED <<objVars, ownVars, lisVars>>,
         \/ f = NoFd /\ fds' = fds
         \/ /\ f \in Fd /\ fds[f] = Free
            /\ fds' = [fds EXCEPT ![f] = Len(calls) + 1]
  PROVE  DescInv'
<1> DEFINE n == Len(calls) + 1
<1>1. /\ UNCHANGED <<lpc, batch, cur, newfd, lfd, opc, ofd, sock, ctd>>
      /\ Closing' = Closing
  BY DEF objVars, ownVars, lisVars, Closing
<1>2. /\ DOMAIN status' = DOMAIN status \cup {n} /\ n \notin DOMAIN status
      /\ \A j \in DOMAIN status : j < n /\ status'[j] = status[j] /\ calls'[j] = calls[j]
      /\ status'[n] = "queued" /\ calls'[n].fd = f
  <2>1. BusTypes
    BY DEF IInv, TypeOK
  <2> QED BY <2>1, ReceivedFacts
<1>3. /\ DOMAIN status \subseteq Nat \ {0} /\ NoFd \notin Fd
      /\ \A j \in DOMAIN status : calls[j].fd \in Fd \cup {NoFd} /\ j # Free
      /\ lpc \in Handling => cur \in DOMAIN status
  BY CallTypes, BoundAssumption DEF IInv, TypeOK, CallInv, Free, NoFd, Fd
<1>4. /\ f # NoFd => f \in Fd /\ fds[f] = Free /\ fds'[f] = n
      /\ \A g \in Fd : g # f => fds'[g] = fds[g]
  BY <1>3 DEF IInv, TypeOK, ProcessTypes
<1> HIDE DEF n
<1>5. /\ Waiting' = Waiting \cup {n} /\ Waiting \subseteq DOMAIN status
      /\ Adopted' = Adopted /\ Adopted \subseteq DOMAIN status
  BY <1>2 DEF Waiting, Adopted
<1>6. OrderInv'
  BY ArrivalOrder DEF DescInv
<1>7. CloseInv'
  BY <1>1 DEF DescInv, CloseInv
<1>8. sock.fd \in Fd \cup {NoFd} /\ newfd \in Fd \cup {NoFd}
  BY DEF IInv, TypeOK, ObjectTypes, ListenTypes
<1>9. f # NoFd => (sock.fd = f => Closing) /\ newfd # f
  BY <1>3, <1>4, <1>5 DEF DescInv, HoldsLatest, FdInv, Handling
<1>10. HoldsLatest'
  BY <1>1, <1>2, <1>3, <1>4, <1>5, <1>8, <1>9 DEF DescInv, HoldsLatest
<1>11. FdInv'
  BY <1>1, <1>2, <1>3, <1>4, <1>8, <1>9 DEF DescInv, FdInv
<1> QED BY <1>6, <1>7, <1>10, <1>11 DEF DescInv

\* What the daemon and the radio do keeps the invariant.
LEMMA DaemonDesc ==
  ASSUME IInv, DescInv, Daemon
  PROVE  DescInv'
<1>1. ASSUME NEW d \in Dev, NewConnection(d)
      PROVE  DescInv'
  <2>1. CASE FreeFds = {}
    BY <1>1, <2>1, ArrivalDesc DEF NewConnection
  <2>2. CASE FreeFds # {}
    <3>1. LowestFree \in Fd /\ fds[LowestFree] = Free
      BY <2>2, LowestFreeIsFree DEF FreeFds
    <3> QED BY <1>1, <2>2, <3>1, ArrivalDesc DEF NewConnection
  <2> QED BY <2>1, <2>2
<1>3. CASE DaemonExit /\ registered
  BY <1>3, ArrivalDesc DEF DaemonExit
<1>4. CASE DaemonExit /\ ~registered
  BY <1>4, QuietStep DEF DaemonExit, objVars, ownVars, lisVars
<1>5. CASE DaemonCrash \/ DaemonStart
  BY <1>5, QuietStep DEF DaemonCrash, DaemonStart, objVars, ownVars, lisVars
<1>6. ASSUME NEW d \in Dev, DeviceAdded(d) \/ DeviceRemoved(d)
      PROVE  DescInv'
  BY <1>6, QuietStep DEF DeviceAdded, DeviceRemoved, objVars, ownVars, lisVars
<1> QED BY <1>1, <1>3, <1>4, <1>5, <1>6 DEF Daemon

\* Every step keeps the invariant about descriptors.
LEMMA DescStep ==
  ASSUME IInv, DescInv, "disconnect" \notin Use, [Next]_vars
  PROVE  DescInv'
<1>1. CASE StartListening \/ StopListening \/ Disconnect
  BY <1>1, OwnerDesc
<1>2. CASE Owner
  BY <1>2, OwnerDesc, UnexportDesc, OwnerCloseDesc DEF Owner
<1>3. CASE ListenThread
  <2>1. ASSUME NEW d \in Dev, RemoveDevice(d)
        PROVE  DescInv'
    BY <2>1, QuietStep DEF RemoveDevice, objVars, ownVars
  <2> QED BY <1>3, <2>1, LoopDesc, StaleDesc, HandleNewConnectionDesc, HandleReleaseDesc,
             FindDesc, CreateDesc, ListenerCloseDesc DEF ListenThread
<1>4. CASE Daemon
  BY <1>4, DaemonDesc
<1>5. CASE UNCHANGED vars
  BY <1>5, QuietStep DEF vars, objVars, ownVars, lisVars, busVars
<1> QED BY <1>1, <1>2, <1>3, <1>4, <1>5 DEF Next

SafeInv == IInv /\ OrderInv /\ RaceInv /\ ("disconnect" \notin Use => DescInv)

\* SafeInv holds in every reachable state.
LEMMA SafeInvariance == Spec => []SafeInv
<1>1. Init => SafeInv
  BY InitInv, DescInit, RaceInit DEF SafeInv, DescInv
<1>2. SafeInv /\ [Next]_vars => SafeInv'
  BY TypeStep, ThreadStep, OrderStep, RaceStep, DescStep DEF SafeInv, IInv
<1> QED BY <1>1, <1>2, PTL DEF Spec

-----------------------------------------------------------------------------
\* Without disconnect(), an open Socket holds the newest connection a handler
\* took, and _dbusObjectPathCtdDevice names the device of that connection.
THEOREM SocketIsLatest == Spec => []SocketHoldsLatestLink
<1>1. SafeInv => SocketHoldsLatestLink
  BY DEF SafeInv, DescInv, HoldsLatest, SocketHoldsLatestLink, Open
<1> QED BY <1>1, SafeInvariance, PTL

\* Whatever the owner calls and however the daemon goes, the descriptor of a
\* call that waits is not closed before a handler has duplicated it.
THEOREM QueuedStayOpen == Spec => []QueuedDescriptorsOpen
<1>1. SafeInv => QueuedDescriptorsOpen
  BY DEF SafeInv, RaceInv, OwnInv, QueuedDescriptorsOpen, Waiting
<1> QED BY <1>1, SafeInvariance, PTL

\* A single step closes only what it may close.
LEMMA ClosesOwnStep ==
  ASSUME SafeInv, [Next]_vars,
         NEW f \in Fd, fds[f] # Free, fds'[f] = Free
  PROVE  \/ Handed(f)
         \/ \E i \in DOMAIN status :
               status[i] # "error" /\ status'[i] = "error" /\ calls[i].fd = f
<1> USE DEF objVars, ownVars, lisVars, busVars
<1>0. IInv /\ OrderInv /\ RaceInv
  BY DEF SafeInv
<1>1. CASE StartListening \/ StopListening \/ Disconnect
  BY <1>1 DEF StartListening, StopListening, Disconnect
<1>2. CASE Owner
  <2>1. CASE OwnerClose
    <3>1. f = ofd
      BY <2>1 DEF OwnerClose, Closed
    <3> QED BY <1>0, <2>1, <3>1 DEF OwnerClose, RaceInv, SockInv
  <2>2. CASE ~OwnerClose
    BY <1>2, <2>2 DEF Owner, RegisterReply, StartThread, Join, UnregisterProfile, UnregisterReply,
                      Unexport, OwnerLoad, OwnerClear, Abort
  <2> QED BY <2>1, <2>2
<1>3. CASE ListenThread
  <2>1. CASE ListenerClose
    <3>1. f = lfd
      BY <2>1 DEF ListenerClose, Closed
    <3> QED BY <1>0, <2>1, <3>1 DEF ListenerClose, RaceInv, SockInv
  <2>2. CASE DispatchStale
    <3>1. First(batch) \in DOMAIN status
      BY <1>0, <2>2, DispatchOrder DEF DispatchStale
    <3>2. status'[First(batch)] = "error"
      BY <1>0, <2>2, <3>1, WithFacts DEF DispatchStale, IInv, TypeOK, Status
    <3>3. status[First(batch)] = "stale" /\ calls[First(batch)].fd = f
      BY <2>2 DEF DispatchStale, Closed
    <3> QED BY <3>1, <3>2, <3>3
  <2>3. CASE HandleNewConnection
    <3>1. First(batch) # Free
      BY <1>0, <2>3, DispatchOrder, CallTypes
         DEF HandleNewConnection, Dispatch, IInv, TypeOK, Free
    <3> QED BY <1>0, <2>3, <3>1 DEF HandleNewConnection, IInv, TypeOK, ProcessTypes
  <2>4. CASE ~(ListenerClose \/ DispatchStale \/ HandleNewConnection)
    BY <1>3, <2>4 DEF ListenThread, ListenTask, IterationDone, HandleRelease,
         FindAllRecognizedDevices, RemoveDevice, CreateNewSocketConnection, ListenerLoad,
         ListenerClear, Abort
  <2> QED BY <2>1, <2>2, <2>3, <2>4
<1>4. CASE Daemon
  <2>1. ASSUME NEW d \in Dev, NewConnection(d)
        PROVE  FALSE
    BY <1>0, <2>1 DEF NewConnection, IInv, TypeOK, ProcessTypes, BusTypes, Free
  <2> QED BY <1>4, <2>1 DEF Daemon, DaemonExit, DaemonCrash, DaemonStart,
                            DeviceAdded, DeviceRemoved
<1>5. CASE UNCHANGED vars
  BY <1>5 DEF vars
<1> QED BY <1>1, <1>2, <1>3, <1>4, <1>5 DEF Next

\* Whatever the owner calls and however the daemon goes, no step closes a
\* descriptor that is neither a duplicate handed to the Socket nor that of a
\* call it answers with an error.
THEOREM ClosesOwn == Spec => ClosesItsOwnOnly
<1>1. SafeInv /\ [Next]_vars =>
        [\A f \in Fd : (fds[f] # Free /\ fds'[f] = Free) =>
           \/ Handed(f)
           \/ \E i \in DOMAIN status :
                 status[i] # "error" /\ status'[i] = "error" /\ calls[i].fd = f]_vars
  BY ClosesOwnStep
<1> QED BY <1>1, SafeInvariance, PTL DEF Spec, ClosesItsOwnOnly

-----------------------------------------------------------------------------
\* Refinement of ConnectionSlot.
LEMMA GreatestElement ==
  ASSUME NEW n \in Nat, NEW S \in SUBSET (1..n), S # {}
  PROVE  \E i \in S : \A j \in S : j <= i
<1> DEFINE T == {n - i : i \in S}
<1>1. T \in SUBSET Nat /\ T # {}
  <2>1. \A i \in S : n - i \in Nat
    OBVIOUS
  <2>2. PICK i \in S : TRUE
    OBVIOUS
  <2>3. n - i \in T
    OBVIOUS
  <2> QED BY <2>1, <2>3
<1>2. PICK k \in T : \A l \in T : k <= l
  <2> HIDE DEF T
  <2> QED BY <1>1, LeastElement
<1>3. PICK i \in S : k = n - i
  BY <1>2
<1>4. \A j \in S : n - i <= n - j
  BY <1>2, <1>3
<1> QED BY <1>3, <1>4

\* The newest connection taken is the greatest of them.
LEMMA NewestIsGreatest ==
  BusTypes => /\ Adopted = {} => NewestAdopted = 0
              /\ Adopted # {} => /\ NewestAdopted \in Adopted
                                  /\ \A j \in Adopted : j <= NewestAdopted
              /\ NewestAdopted \in Nat
<1> HAVE BusTypes
<1>1. Adopted \in SUBSET (1..Len(calls)) /\ Len(calls) \in Nat
  BY CallTypes DEF Adopted, BusTypes
<1>2. CASE Adopted = {}
  BY <1>2 DEF NewestAdopted
<1>3. CASE Adopted # {}
  <2>1. \E i \in Adopted : \A j \in Adopted : j <= i
    BY <1>1, <1>3, GreatestElement
  <2>2. NewestAdopted \in Adopted /\ \A j \in Adopted : j <= NewestAdopted
    BY <1>3, <2>1 DEF NewestAdopted
  <2>3. Adopted \subseteq Nat
    BY <1>1
  <2> QED BY <1>3, <2>2, <2>3
<1> QED BY <1>2, <1>3

\* An open Socket holds the newest link, so the slot is the pair of whether
\* it is open and which link is newest.
LEMMA OpenHoldsNewest ==
  IInv /\ DescInv /\ Open => fds[sock.fd] = NewestAdopted /\ NewestAdopted # 0
<1> HAVE IInv /\ DescInv /\ Open
<1>1. fds[sock.fd] \in Adopted /\ \A j \in Adopted : j <= fds[sock.fd]
  BY DEF DescInv, HoldsLatest, Open
<1>2. BusTypes
  BY DEF IInv, TypeOK
<1>3. Adopted \subseteq Nat \ {0}
  BY <1>2, CallTypes DEF Adopted
<1>4. NewestAdopted \in Adopted /\ \A j \in Adopted : j <= NewestAdopted
  BY <1>1, <1>2, NewestIsGreatest
<1>5. fds[sock.fd] \in Nat \ {0} /\ NewestAdopted \in Nat \ {0}
  BY <1>1, <1>3, <1>4
<1>6. fds[sock.fd] <= NewestAdopted /\ NewestAdopted <= fds[sock.fd]
  BY <1>1, <1>4
<1> QED BY <1>5, <1>6

\* What a step may do to the slot.
Keeps == Adopted' = Adopted /\ (Open' => Open)
Adopts == /\ Open' /\ cur \in CallId
          /\ Adopted' = Adopted \cup {cur} /\ \A j \in Adopted : j < cur

\* A step takes no connection, or one that is newer than all before it.
LEMMA KeepsOrAdopts ==
  ASSUME IInv, DescInv, "disconnect" \notin Use, [Next]_vars
  PROVE  Keeps \/ Adopts
<1> USE DEF objVars, ownVars, lisVars, busVars
<1>a. ASSUME calls' = calls, status' = status
      PROVE  Adopted' = Adopted
  BY <1>a DEF Adopted
<1>b. ASSUME UNCHANGED <<sock, lpc, lfd, opc, ofd>>
      PROVE  Open' = Open
  BY <1>b DEF Open, Closing
<1>c. ASSUME NEW m, NEW d, NEW f, Received(m, d, f)
      PROVE  Adopted' = Adopted
  <2>1. BusTypes
    BY DEF IInv, TypeOK
  <2> QED BY <1>c, <2>1, ReceivedFacts DEF Adopted
<1>1. CASE StartListening \/ StopListening \/ Disconnect
  BY <1>1, <1>a DEF StartListening, StopListening, Disconnect, Keeps, Open, Closing
<1>2. CASE Owner
  <2>1. CASE Unexport
    <3>1. Adopted' = Adopted
      BY <2>1 DEF Unexport, StaleStatus, Adopted
    <3> QED BY <2>1, <3>1 DEF Unexport, OwnerGoes, Keeps, Open, Closing
  <2>2. CASE OwnerClear
    BY <2>2, <1>a DEF OwnerClear, AfterClose, Keeps, Open, Closing, DescInv, CloseInv, NoFd
  <2>3. CASE RegisterReply \/ StartThread \/ Join \/ UnregisterProfile \/ UnregisterReply
    <3>1. UNCHANGED <<sock, calls, status, lfd, ofd>>
      BY <2>3 DEF RegisterReply, StartThread, Join, UnregisterProfile, UnregisterReply,
                  OwnerGoes, Abort
    <3>2. ~Closing
      BY <2>3 DEF RegisterReply, StartThread, Join, UnregisterProfile, UnregisterReply,
                  IInv, ThreadInv, Closing
    <3> QED BY <3>1, <3>2, <1>a DEF Keeps, Open
  <2>4. CASE OwnerLoad \/ OwnerClose
    BY <2>4, <1>a DEF OwnerLoad, OwnerClose, OwnerGoes, Keeps, Open, Closing
  <2> QED BY <1>2, <2>1, <2>2, <2>3, <2>4 DEF Owner
<1>3. CASE ListenThread
  <2>1. CASE CreateNewSocketConnection
    <3>1. ASSUME NEW why, Abort(why)
          PROVE  Keeps
      BY <3>1, <1>a, <1>b DEF Abort, Keeps
    <3>2. CASE /\ SetupOk(newfd) /\ sock' = SocketOf(newfd)
               /\ HandlerReturns /\ UNCHANGED <<ownVars, calls>>
      <4>1. /\ lpc = "remove" /\ opc \notin {"load", "close", "clear"}
            /\ calls[cur].m = "NewConnection" /\ cur \in CallId
            /\ \A j \in Adopted : j < cur
        BY <2>1, BoundAssumption DEF CreateNewSocketConnection, IInv, ThreadInv, CallInv, TypeOK,
              BusTypes, CallId, DescInv, OrderInv, Handling
      <4>2. Adopted' = Adopted \cup {cur} /\ lpc' = "dispatch"
        BY <3>2, <4>1, ReturnOrder DEF DescInv, Handling
      <4>3. Open'
        BY <3>2, <4>1, <4>2, BoundAssumption DEF Open, Closing, SocketOf, SetupOk, NoFd, Fd
      <4> QED BY <4>1, <4>2, <4>3 DEF Adopts
    <3> QED BY <2>1, <3>1, <3>2 DEF CreateNewSocketConnection
  <2>2. CASE ListenerClear
    <3>1. Adopted' = Adopted
      BY <2>2, ReturnOrder DEF DescInv, ListenerClear, Handling, DescInv, OrderInv
    <3>2. ~Open'
      BY <2>2 DEF ListenerClear, AfterClose, DescInv, CloseInv, Open, NoFd
    <3> QED BY <3>1, <3>2 DEF Keeps
  <2>3. CASE DispatchStale
    <3>1. First(batch) \in DOMAIN status
      BY <2>3, DispatchFacts DEF DispatchStale
    <3>2. Adopted' = Adopted
      BY <2>3, <3>1, WithFacts DEF DispatchStale, Adopted, IInv, TypeOK, Status
    <3> QED BY <2>3, <3>2, <1>b DEF DispatchStale, Keeps
  <2>4. CASE HandleNewConnection \/ HandleRelease
    <3>1. PICK m : Dispatch(m)
      BY <2>4 DEF HandleNewConnection, HandleRelease
    <3>2. Adopted' = Adopted /\ ~Closing
      BY <3>1, RunningDesc
    <3>3. sock' = sock
      BY <3>1, RunningDesc
    <3> QED BY <3>2, <3>3 DEF Keeps, Open
  <2>5. CASE ListenTask \/ IterationDone
    BY <2>5, <1>a DEF ListenTask, IterationDone, Keeps, Open, Closing
  <2>6. CASE FindAllRecognizedDevices \/ \E d \in Dev : RemoveDevice(d)
    BY <2>6, <1>a DEF FindAllRecognizedDevices, RemoveDevice, Abort, Keeps, Open, Closing
  <2>7. CASE ListenerLoad \/ ListenerClose
    BY <2>7, <1>a DEF ListenerLoad, ListenerClose, Keeps, Open, Closing
  <2> QED BY <1>3, <2>1, <2>2, <2>3, <2>4, <2>5, <2>6, <2>7 DEF ListenThread
<1>4. CASE Daemon
  <2>1. UNCHANGED <<sock, lpc, lfd, opc, ofd>>
    BY <1>4 DEF Daemon, NewConnection, DaemonExit, DaemonCrash,
                DaemonStart, DeviceAdded, DeviceRemoved
  <2>2. Adopted' = Adopted
    BY <1>4, <1>a, <1>c DEF Daemon, NewConnection, DaemonExit, DaemonCrash,
                            DaemonStart, DeviceAdded, DeviceRemoved
  <2> QED BY <2>1, <2>2, <1>b DEF Keeps
<1>5. CASE UNCHANGED vars
  BY <1>5, <1>a, <1>b DEF vars, Keeps
<1> QED BY <1>1, <1>2, <1>3, <1>4, <1>5 DEF Next

\* A step of the Listener is a step of the slot, or changes nothing in it.
LEMMA SlotStep ==
  ASSUME SafeInv, SafeInv', "disconnect" \notin Use, [Next]_vars
  PROVE  [Slot!SlotNext]_(Slot!slotVars)
<1>0. IInv /\ DescInv /\ IInv' /\ DescInv'
  BY DEF SafeInv
<1>1. Open => fds[sock.fd] = NewestAdopted /\ NewestAdopted # 0
  BY <1>0, OpenHoldsNewest
<1>2. Open' => fds'[sock'.fd] = NewestAdopted'
  <2>1. (IInv /\ DescInv /\ Open => fds[sock.fd] = NewestAdopted /\ NewestAdopted # 0)'
    BY OpenHoldsNewest, PTL
  <2> QED BY <1>0, <2>1
<1>3. CASE Keeps
  <2>1. NewestAdopted' = NewestAdopted
    BY <1>3 DEF Keeps, NewestAdopted
  <2>2. CASE Open => Open'
    BY <1>1, <1>2, <1>3, <2>1, <2>2 DEF Keeps, Slot!slotVars
  <2>3. CASE Open /\ ~Open'
    BY <1>1, <2>1, <2>3 DEF Slot!SlotNext, Slot!Drop
  <2> QED BY <2>2, <2>3
<1>4. CASE Adopts
  <2>1. BusTypes /\ BusTypes'
    BY <1>0 DEF IInv, TypeOK
  <2>2. /\ Adopted' = {} => NewestAdopted' = 0
        /\ Adopted' # {} => /\ NewestAdopted' \in Adopted'
                             /\ \A j \in Adopted' : j <= NewestAdopted'
    <3>1. (BusTypes => /\ Adopted = {} => NewestAdopted = 0
                       /\ Adopted # {} => /\ NewestAdopted \in Adopted
                                           /\ \A j \in Adopted : j <= NewestAdopted
                       /\ NewestAdopted \in Nat)'
      BY NewestIsGreatest, PTL
    <3> QED BY <2>1, <3>1
  <2>3. cur \in Nat /\ cur > 0 /\ cur \in 1..MaxCalls
    BY <1>4, BoundAssumption DEF Adopts, CallId
  <2>4. Adopted \subseteq Nat
    BY <2>1, CallTypes DEF Adopted
  <2>5. NewestAdopted' = cur
    <3>1. cur \in Adopted' /\ Adopted' \subseteq Nat
      BY <1>4, <2>3, <2>4 DEF Adopts
    <3>2. NewestAdopted' \in Adopted' /\ cur <= NewestAdopted'
      BY <2>2, <3>1
    <3>3. NewestAdopted' \in Adopted => NewestAdopted' < cur
      BY <1>4 DEF Adopts
    <3>4. NewestAdopted' \in Nat
      BY <3>1, <3>2
    <3> QED BY <1>4, <2>3, <3>2, <3>3, <3>4 DEF Adopts
  <2>6. cur > NewestAdopted
    BY <1>4, <2>1, <2>3, <2>4, NewestIsGreatest DEF Adopts
  <2>7. Slot!Adopt(cur)
    BY <1>2, <1>4, <2>5, <2>6 DEF Slot!Adopt, Adopts
  <2> QED BY <2>3, <2>7 DEF Slot!SlotNext
<1> QED BY <1>0, <1>3, <1>4, KeepsOrAdopts

\* Without disconnect(), the Socket implements ConnectionSlot: whatever the
\* daemon sends and whenever the owner stops and starts, links enter the
\* Socket in the order of delivery and each at most once.
THEOREM SocketImplementsSlot ==
  ASSUME "disconnect" \notin Use
  PROVE  Spec => SocketIsSlot
<1>1. Init => Slot!SlotInit
  BY DEF Init, Slot!SlotInit, Open, SocketOf, NewestAdopted, Adopted
<1>2. SafeInv /\ SafeInv' /\ [Next]_vars => [Slot!SlotNext]_(Slot!slotVars)
  BY SlotStep
<1> QED BY <1>1, <1>2, SafeInvariance, PTL DEF Spec, SocketIsSlot, Slot!SlotSpec

-----------------------------------------------------------------------------
(***************************************************************************)
(* No assertion fails when the owner only starts and stops the Listener,    *)
(* the daemon stays, and the process may open two descriptors for every     *)
(* connection: that of the message and the one the handler duplicates.      *)
(***************************************************************************)
Ample == Use \subseteq {"stop"} /\ Faults = {} /\ 2 * MaxCalls <= FdLimit

\* Nothing failed yet, and from the answer to RegisterProfile to the call of
\* UnregisterProfile the daemon knows the profile.
CalmInv ==
  /\ Running /\ daemon = "up" /\ ~obad
  /\ opc = "starting" => registered
  /\ opc = "idle" /\ iface => registered
  /\ opc \in {"joining", "unregister", "unregistering"} => iface /\ registered

\* A connection has at most two open descriptors, and one until its handler
\* runs; it came with one.
LinkInv ==
  /\ \A f \in Fd : fds[f] # Free => fds[f] \in 1..Len(calls)
  /\ \A f, g \in Fd : (fds[f] # Free /\ fds[f] = fds[g] /\ calls[fds[f]].fd \notin {f, g}) => f = g
  /\ \A f \in Fd : fds[f] \in Waiting => calls[fds[f]].fd = f
  /\ \A i \in 1..Len(calls) : calls[i].m = "NewConnection" => calls[i].fd # NoFd
  /\ lpc \in {"find", "remove"} => newfd # NoFd

\* As long as one of the calls to come, or one that waits, has not been given
\* its second descriptor, a descriptor is left.
LEMMA DescriptorLeft ==
  ASSUME IInv, LinkInv, Ample,
         NEW i \in CallId, \A f \in Fd : fds[f] = i => calls[i].fd = f
  PROVE  FreeFds # {}
<1> DEFINE T == (CallId \X {0, 1}) \ {<<i, 0>>}
           h == [f \in Fd |-> <<fds[f], IF calls[fds[f]].fd = f THEN 1 ELSE 0>>]
<1>1. MaxCalls \in Nat /\ FdLimit \in Nat /\ MaxCalls >= 1 /\ 2 * MaxCalls <= FdLimit
  BY BoundAssumption DEF CallId, Ample
<1>2. IsFiniteSet(CallId) /\ Cardinality(CallId) = MaxCalls
  BY <1>1, FS_Interval DEF CallId
<1>3. IsFiniteSet({0, 1}) /\ Cardinality({0, 1}) = 2
  <2>1. IsFiniteSet({0}) /\ Cardinality({0}) = 1
    BY FS_Singleton
  <2>2. /\ IsFiniteSet({0} \cup {1})
        /\ Cardinality({0} \cup {1}) = IF 1 \in {0} THEN Cardinality({0}) ELSE Cardinality({0}) + 1
    BY <2>1, FS_AddElement
  <2>3. {0} \cup {1} = {0, 1}
    OBVIOUS
  <2> QED BY <2>1, <2>2, <2>3
<1>4. IsFiniteSet(CallId \X {0, 1}) /\ Cardinality(CallId \X {0, 1}) = MaxCalls * 2
  BY <1>2, <1>3, FS_Product
<1>5. <<i, 0>> \in CallId \X {0, 1}
  OBVIOUS
<1>6. IsFiniteSet(T) /\ Cardinality(T) = MaxCalls * 2 - 1
  BY <1>4, <1>5, FS_RemoveElement
<1>7. IsFiniteSet(Fd) /\ Cardinality(Fd) = FdLimit
  BY <1>1, FS_Interval DEF Fd
<1>8. Cardinality(T) < Cardinality(Fd)
  <2> HIDE DEF T
  <2> QED BY <1>1, <1>6, <1>7
<1>9. SUFFICES ASSUME FreeFds = {} PROVE FALSE
  OBVIOUS
<1>10. \A f \in Fd : fds[f] # Free /\ fds[f] \in CallId
  BY <1>9 DEF FreeFds, IInv, TypeOK, ProcessTypes
<1>11. h \in [Fd -> T]
  <2> SUFFICES ASSUME NEW f \in Fd PROVE h[f] \in T
    OBVIOUS
  <2>1. h[f] \in CallId \X {0, 1}
    BY <1>10
  <2>2. h[f] # <<i, 0>>
    OBVIOUS
  <2> QED BY <2>1, <2>2
<1>12. PICK f \in Fd, g \in Fd : f # g /\ h[f] = h[g]
  <2> HIDE DEF T, h
  <2> QED BY <1>6, <1>7, <1>8, <1>11, FS_PigeonHole
<1>13. fds[f] = fds[g] /\ (calls[fds[f]].fd = f <=> calls[fds[f]].fd = g)
  BY <1>12
<1> QED BY <1>10, <1>12, <1>13 DEF LinkInv

\* Closing descriptors and taking calls keeps LinkInv.
LEMMA FewerLinks ==
  ASSUME IInv, LinkInv, calls' = calls, Waiting' \subseteq Waiting,
         \A f \in Fd : fds'[f] \in {fds[f], Free},
         lpc' \in {"find", "remove"} => lpc \in {"find", "remove"} /\ newfd' = newfd
  PROVE  LinkInv'
<1>1. Free \notin Waiting
  BY CallTypes DEF IInv, TypeOK, Waiting, Free
<1>2. \A f \in Fd : fds'[f] # Free => fds'[f] = fds[f]
  OBVIOUS
<1>3. \A f \in Fd : fds'[f] # Free => fds'[f] \in 1..Len(calls')
  BY <1>2 DEF LinkInv
<1>4. \A f, g \in Fd : (fds'[f] # Free /\ fds'[f] = fds'[g] /\ calls'[fds'[f]].fd \notin {f, g})
                          => f = g
  BY <1>2 DEF LinkInv
<1>5. \A f \in Fd : fds'[f] \in Waiting' => calls'[fds'[f]].fd = f
  BY <1>1, <1>2 DEF LinkInv
<1> QED BY <1>3, <1>4, <1>5 DEF LinkInv

\* A handler that returns takes its call.
LEMMA ReturnWaits ==
  ASSUME HandlerReturns
  PROVE  Waiting' \subseteq Waiting
  BY DEF HandlerReturns, With, Waiting

\* A NewConnection arrives, and with it a descriptor.
LEMMA ConnectionLinks ==
  ASSUME IInv, LinkInv, Ample, NEW d \in Dev, NewConnection(d)
  PROVE  LinkInv'
<1> DEFINE n == Len(calls) + 1
<1>1. Len(calls) \in Nat /\ n \in CallId
  BY BoundAssumption DEF NewConnection, Received, IInv, TypeOK, BusTypes, CallId
<1>2. FreeFds # {}
  <2>1. \A f \in Fd : fds[f] # n
    BY <1>1 DEF LinkInv, Free
  <2> QED BY <1>1, <2>1, DescriptorLeft
<1>3. LowestFree \in Fd /\ fds[LowestFree] = Free
  BY <1>2, LowestFreeIsFree DEF FreeFds
<1>4. /\ Received("NewConnection", d, LowestFree)
      /\ fds' = [fds EXCEPT ![LowestFree] = n]
      /\ lpc' = lpc /\ newfd' = newfd
  BY <1>2 DEF NewConnection, lisVars
<1>5. /\ fds'[LowestFree] = n
      /\ \A f \in Fd : f # LowestFree => fds'[f] = fds[f]
  BY <1>3, <1>4 DEF IInv, TypeOK, ProcessTypes
<1>6. /\ Len(calls') = n
      /\ \A j \in 1..Len(calls) : calls'[j] = calls[j] /\ j < n
      /\ calls'[n].fd = LowestFree
  BY <1>1, <1>4 DEF Received, IInv, TypeOK, BusTypes
<1>7. Waiting' \subseteq Waiting \cup {n}
  BY <1>4, ReceivedFacts DEF IInv, TypeOK, Waiting
<1>8. LowestFree # NoFd /\ NoFd \notin Fd
  BY <1>3, BoundAssumption DEF Fd, NoFd
<1> HIDE DEF n
<1>9. \A f \in Fd : /\ fds'[f] # Free => fds'[f] \in 1..Len(calls')
                    /\ f # LowestFree => fds'[f] # n
                    /\ f # LowestFree /\ fds'[f] # Free => fds'[f] \in 1..Len(calls)
  BY <1>1, <1>5, <1>6 DEF LinkInv, Free, n
<1>10. \A f, g \in Fd : (fds'[f] # Free /\ fds'[f] = fds'[g] /\ calls'[fds'[f]].fd \notin {f, g})
                          => f = g
  BY <1>5, <1>6, <1>9 DEF LinkInv
<1>11. Free \notin Waiting /\ Waiting \subseteq 1..Len(calls)
  BY CallTypes DEF IInv, TypeOK, Waiting, Free
<1>12. ASSUME NEW f \in Fd, fds'[f] \in Waiting'
       PROVE  calls'[fds'[f]].fd = f
  <2>1. CASE f = LowestFree
    BY <1>5, <1>6, <2>1
  <2>2. CASE f # LowestFree
    <3>1. fds'[f] = fds[f] /\ fds[f] \in Waiting
      BY <1>5, <1>7, <1>9, <1>12, <2>2
    <3> QED BY <1>6, <1>11, <3>1 DEF LinkInv
  <2> QED BY <2>1, <2>2
<1>13. \A i \in 1..Len(calls') : calls'[i].m = "NewConnection" => calls'[i].fd # NoFd
  BY <1>1, <1>6, <1>8 DEF LinkInv, n
<1> QED BY <1>4, <1>9, <1>10, <1>12, <1>13 DEF LinkInv

\* The handler of a NewConnection finds a descriptor to duplicate and one free.
LEMMA NewConnectionFacts ==
  ASSUME IInv, DescInv, LinkInv, Ample, HandleNewConnection
  PROVE  /\ FreeFds # {} /\ aborted' = aborted
         /\ newfd' = LowestFree /\ fds' = [fds EXCEPT ![LowestFree] = First(batch)]
         /\ First(batch) \in Waiting /\ First(batch) \in 1..Len(calls)
<1>1. lpc = "dispatch" /\ batch # {} /\ "disconnect" \notin Use
  BY DEF HandleNewConnection, Dispatch, Ample
<1>2. First(batch) \in Waiting /\ First(batch) \in DOMAIN status
  BY <1>1, DispatchFacts
<1>3. First(batch) \in 1..Len(calls) /\ First(batch) \in CallId
  BY <1>2, CallTypes, BoundAssumption DEF IInv, TypeOK, BusTypes, CallId
<1>4. calls[First(batch)].fd # NoFd
  BY <1>3 DEF LinkInv, HandleNewConnection, Dispatch
<1>5. FreeFds # {}
  BY <1>2, <1>3, DescriptorLeft DEF LinkInv
<1> QED BY <1>2, <1>3, <1>4, <1>5 DEF HandleNewConnection

\* The handler's duplicate is the second descriptor of its connection.
LEMMA DuplicateLinks ==
  ASSUME IInv, DescInv, LinkInv, Ample, HandleNewConnection
  PROVE  LinkInv'
<1> DEFINE i == First(batch)
<1>1. /\ FreeFds # {} /\ newfd' = LowestFree
      /\ fds' = [fds EXCEPT ![LowestFree] = i]
      /\ i \in Waiting /\ i \in 1..Len(calls)
  BY NewConnectionFacts
<1>2. LowestFree \in Fd /\ fds[LowestFree] = Free
  BY <1>1, LowestFreeIsFree DEF FreeFds
<1>3. calls' = calls /\ status' = With(i, "running")
  BY DEF HandleNewConnection, Dispatch
<1> HIDE DEF i
<1>4. /\ fds'[LowestFree] = i
      /\ \A f \in Fd : f # LowestFree => fds'[f] = fds[f]
  BY <1>1, <1>2 DEF IInv, TypeOK, ProcessTypes
<1>5. Waiting' \subseteq Waiting /\ i \notin Waiting' /\ Free \notin Waiting
  BY <1>1, <1>3, CallTypes DEF Waiting, With, IInv, TypeOK, Free
<1>6. \A f \in Fd : fds'[f] # Free => fds'[f] \in 1..Len(calls')
  BY <1>1, <1>3, <1>4 DEF LinkInv
<1>7. \A f \in Fd : f # LowestFree /\ fds'[f] = i => calls[i].fd = f
  BY <1>1, <1>4 DEF LinkInv
<1>8. \A f, g \in Fd : (fds'[f] # Free /\ fds'[f] = fds'[g] /\ calls'[fds'[f]].fd \notin {f, g})
                          => f = g
  BY <1>3, <1>4, <1>7 DEF LinkInv
<1>9. \A f \in Fd : fds'[f] \in Waiting' => calls'[fds'[f]].fd = f
  BY <1>3, <1>4, <1>5 DEF LinkInv
<1>10. newfd' # NoFd
  BY <1>1, <1>2, BoundAssumption DEF Fd, NoFd
<1> QED BY <1>3, <1>6, <1>8, <1>9, <1>10 DEF LinkInv

\* Every step keeps LinkInv.
LEMMA LinkStep ==
  ASSUME IInv, DescInv, LinkInv, Ample, [Next]_vars
  PROVE  LinkInv'
<1> USE DEF objVars, ownVars, lisVars, busVars
<1>1. ASSUME UNCHANGED <<calls, status, fds, newfd>>,
             lpc' \in {"find", "remove"} => lpc \in {"find", "remove"}
      PROVE  LinkInv'
  <2>1. Waiting' = Waiting
    BY <1>1 DEF Waiting
  <2> QED BY <1>1, <2>1, FewerLinks
<1>2. CASE StartListening \/ StopListening \/ Disconnect
  BY <1>1, <1>2 DEF StartListening, StopListening, Disconnect
<1>3. CASE Owner
  <2>1. CASE OwnerClose
    <3>1. Waiting' = Waiting
      BY <2>1 DEF OwnerClose, Waiting
    <3> QED BY <2>1, <3>1, FewerLinks DEF OwnerClose, Closed
  <2>2. CASE Unexport
    <3>1. Waiting' = Waiting
      BY <2>2 DEF Unexport, Waiting, StaleStatus
    <3> QED BY <2>2, <3>1, FewerLinks DEF Unexport
  <2>3. CASE ~(OwnerClose \/ Unexport)
    BY <1>1, <1>3, <2>3 DEF Owner, RegisterReply, StartThread, Join, UnregisterProfile,
                            UnregisterReply, OwnerLoad, OwnerClear, OwnerGoes, Abort
  <2> QED BY <2>1, <2>2, <2>3
<1>4. CASE ListenThread
  <2>1. CASE ListenTask \/ IterationDone \/ FindAllRecognizedDevices \/ ListenerLoad
             \/ \E d \in Dev : RemoveDevice(d)
    BY <1>1, <2>1 DEF ListenTask, IterationDone, FindAllRecognizedDevices, ListenerLoad,
                      RemoveDevice, Abort
  <2>2. CASE DispatchStale
    <3>1. Waiting' \subseteq Waiting
      BY <2>2 DEF DispatchStale, Waiting, With
    <3> QED BY <2>2, <3>1, FewerLinks DEF DispatchStale, Closed
  <2>3. CASE HandleNewConnection
    BY <2>3, DuplicateLinks
  <2>4. CASE HandleRelease
    <3>1. /\ status' = With(First(batch), "running") /\ calls' = calls /\ lpc = "dispatch"
          /\ fds' = fds /\ lpc' \in {"load", "dispatch"}
      BY <2>4 DEF HandleRelease, Dispatch
    <3>2. Waiting' \subseteq Waiting
      BY <3>1 DEF Waiting, With
    <3> QED BY <3>1, <3>2, FewerLinks
  <2>5. CASE CreateNewSocketConnection
    <3>1. ASSUME NEW why, Abort(why) PROVE LinkInv'
      BY <1>1, <3>1 DEF Abort
    <3>2. CASE HandlerReturns /\ UNCHANGED <<fds, calls>>
      BY <3>2, ReturnWaits, FewerLinks DEF HandlerReturns
    <3> QED BY <2>5, <3>1, <3>2 DEF CreateNewSocketConnection
  <2>6. CASE ListenerClose
    <3>1. Waiting' = Waiting
      BY <2>6 DEF ListenerClose, Waiting
    <3> QED BY <2>6, <3>1, FewerLinks DEF ListenerClose, Closed
  <2>7. CASE ListenerClear
    BY <2>7, ReturnWaits, FewerLinks DEF ListenerClear, HandlerReturns
  <2> QED BY <1>4, <2>1, <2>2, <2>3, <2>4, <2>5, <2>6, <2>7 DEF ListenThread
<1>5. CASE Daemon
  <2>1. CASE DaemonExit \/ DaemonCrash
    BY <2>1 DEF DaemonExit, DaemonCrash, Ample
  <2>2. CASE DaemonStart \/ \E d \in Dev : DeviceAdded(d) \/ DeviceRemoved(d)
    BY <1>1, <2>2 DEF DaemonStart, DeviceAdded, DeviceRemoved
  <2> QED BY <1>5, <2>1, <2>2, ConnectionLinks DEF Daemon
<1>6. CASE UNCHANGED vars
  BY <1>1, <1>6 DEF vars
<1> QED BY <1>2, <1>3, <1>4, <1>5, <1>6 DEF Next

\* Every step keeps CalmInv: no assertion fails in it.
LEMMA CalmStep ==
  ASSUME IInv, DescInv, LinkInv, CalmInv, Ample, [Next]_vars
  PROVE  CalmInv'
<1> USE DEF objVars, ownVars, lisVars, busVars, Running
<1>0. /\ registered \in BOOLEAN /\ iface \in BOOLEAN /\ obad \in BOOLEAN
      /\ "disconnect" \notin Use /\ "destroy" \notin Use
  BY DEF IInv, TypeOK, BusTypes, ObjectTypes, OwnerTypes, Ample
<1>1. ASSUME UNCHANGED <<aborted, daemon, obad, opc, iface, registered>>
      PROVE  CalmInv'
  BY <1>1 DEF CalmInv
<1>2. CASE StartListening
  BY <1>2 DEF StartListening, CalmInv
<1>3. CASE StopListening
  BY <1>0, <1>3 DEF StopListening, CalmInv
<1>4. CASE Disconnect
  BY <1>0, <1>4 DEF Disconnect
<1>5. CASE Owner
  <2>1. CASE RegisterReply \/ StartThread
    BY <2>1 DEF RegisterReply, StartThread, OwnerGoes, CalmInv, Abort
  <2>2. CASE Join \/ UnregisterProfile \/ UnregisterReply
    BY <2>2 DEF Join, UnregisterProfile, UnregisterReply, OwnerGoes, CalmInv, Abort
  <2>3. CASE Unexport
    <3>1. psocket
      BY <2>3 DEF Unexport, IInv, ThreadInv
    <3> QED BY <2>3, <3>1 DEF Unexport, OwnerGoes, CalmInv
  <2>4. CASE OwnerLoad \/ OwnerClose
    BY <2>4 DEF OwnerLoad, OwnerClose, OwnerGoes, CalmInv
  <2>5. CASE OwnerClear
    <3>1. ~iface
      BY <1>0, <2>5 DEF OwnerClear, IInv, ThreadInv
    <3> QED BY <1>0, <2>5, <3>1 DEF OwnerClear, CalmInv
  <2> QED BY <1>5, <2>1, <2>2, <2>3, <2>4, <2>5 DEF Owner
<1>6. CASE ListenThread
  <2>1. lpc # "none" => psocket
    BY DEF IInv, ThreadInv, ListenThreadInsideExport
  <2>2. UNCHANGED <<daemon, obad, opc, iface, registered>>
    BY <1>6 DEF ListenThread, ListenTask, IterationDone, DispatchStale, HandleNewConnection,
         HandleRelease, Dispatch, FindAllRecognizedDevices, RemoveDevice,
         CreateNewSocketConnection, ListenerLoad, ListenerClose, ListenerClear, Abort
  <2>3. CASE HandleNewConnection
    BY <1>1, <2>2, <2>3, NewConnectionFacts
  <2>4. CASE HandleRelease
    BY <1>1, <2>1, <2>2, <2>4 DEF HandleRelease, Dispatch
  <2>5. CASE FindAllRecognizedDevices
    BY <1>1, <2>2, <2>5 DEF FindAllRecognizedDevices, CalmInv
  <2>6. CASE CreateNewSocketConnection
    <3>1. lpc = "remove" /\ psocket
      BY <2>1, <2>6 DEF CreateNewSocketConnection
    <3>2. newfd \in Fd /\ fds[newfd] = cur /\ cur # Free
      BY <3>1 DEF LinkInv, DescInv, FdInv, IInv, TypeOK, ListenTypes, CallInv, Handling, Free
    <3> QED BY <1>1, <2>2, <2>6, <3>1, <3>2 DEF CreateNewSocketConnection, SetupOk
  <2>7. CASE aborted' = aborted
    BY <1>1, <2>2, <2>7
  <2> QED BY <1>6, <2>3, <2>4, <2>5, <2>6, <2>7 DEF ListenThread, ListenTask, IterationDone,
             DispatchStale, RemoveDevice, ListenerLoad, ListenerClose, ListenerClear
<1>7. CASE Daemon
  <2>1. CASE DaemonExit \/ DaemonCrash \/ DaemonStart
    BY <2>1 DEF DaemonExit, DaemonCrash, DaemonStart, Ample, CalmInv
  <2> QED BY <1>1, <1>7, <2>1 DEF Daemon, NewConnection, Received,
                                  DeviceAdded, DeviceRemoved
<1>8. CASE UNCHANGED vars
  BY <1>1, <1>8 DEF vars
<1> QED BY <1>2, <1>3, <1>4, <1>5, <1>6, <1>7, <1>8 DEF Next

\* An owner that starts and stops the Listener, a daemon that stays and two
\* descriptors per connection: none of the assertions of Listener.cpp and
\* socket.cpp fails, whatever the daemon and the devices do and in whatever
\* order the threads run.
THEOREM NoAssertion ==
  ASSUME Use \subseteq {"stop"}, Faults = {}, 2 * MaxCalls <= FdLimit
  PROVE  Spec => []NoAssertionFails
<1> DEFINE Inv == IInv /\ DescInv /\ LinkInv /\ CalmInv
<1>0. Ample /\ "disconnect" \notin Use
  BY DEF Ample
<1>1. Init => Inv
  <2>1. Init => CalmInv
    BY DEF Init, CalmInv, Running
  <2>2. ASSUME Init PROVE LinkInv
    <3>1. 1..Len(calls) = {} /\ Waiting = {}
      BY <2>2 DEF Init, Waiting
    <3>2. \A f \in Fd : fds[f] = Free
      BY <2>2 DEF Init
    <3>3. lpc = "none"
      BY <2>2 DEF Init
    <3> QED BY <3>1, <3>2, <3>3 DEF LinkInv
  <2> QED BY <2>1, <2>2, InitInv, DescInit
<1>2. Inv /\ [Next]_vars => Inv'
  BY <1>0, TypeStep, ThreadStep, DescStep, LinkStep, CalmStep DEF IInv
<1>3. Inv => NoAssertionFails
  BY DEF CalmInv, NoAssertionFails
<1> QED BY <1>1, <1>2, <1>3, PTL DEF Spec
=============================================================================
