-------------------------- MODULE ExtProfile_proofs --------------------------
(***************************************************************************)
(* Type correctness of ExtProfile, and that no service is left in a state   *)
(* of transition without a connection that will end it.                     *)
(***************************************************************************)
EXTENDS ExtProfile, WellFoundedInduction, TLAPS

\* The properties support each other: that a dropped connection was not the
\* one a service waits for follows from what each connection awaits.
IInv == /\ TypeOK
        /\ ConnectionsAwaitSomething
        /\ ConnectingHasAttempt
        /\ DisconnectingHasRequest
        /\ NothingWithoutProfile

\* What ConnectionsAwaitSomething says of one record.
Awaits(k) ==
  \/ k.auth /\ k.watch /\ k.step = "none" /\ k.pending = "none" /\ ~k.connected
  \/ k.step # "none" /\ ~k.auth /\ k.pending = "none" /\ ~k.connected
  \/ k.pending = "new" /\ k.watch /\ ~k.auth /\ k.step = "none" /\ ~k.connected
  \/ k.connected /\ k.watch /\ ~k.auth /\ k.step = "none" /\ k.pending # "new"

\* ConnectionsAwaitSomething, record by record.
LEMMA AwaitsAll == ConnectionsAwaitSomething <=> \A c \in live : Awaits(conns[c])
  BY DEF ConnectionsAwaitSomething, Awaits

-----------------------------------------------------------------------------
\* A record is taken out of ext->conns.
LEMMA DropFacts ==
  ASSUME TypeOK, NEW c \in live, Drop(c)
  PROVE  /\ live' = live \ {c}
         /\ \A e \in live' : conns'[e] = conns[e]
         /\ conns' \in [live' -> Conn]
<1>1. live' = live \ {c}
  BY DEF Drop, live
<1>2. \A e \in live \ {c} : conns'[e] = conns[e]
  BY DEF Drop
<1>3. conns' = [e \in live' |-> conns[e]]
  BY <1>1 DEF Drop
<1>4. \A e \in live' : conns[e] \in Conn
  BY <1>1 DEF TypeOK
<1> HIDE DEF live
<1>5. conns' \in [live' -> Conn]
  BY <1>3, <1>4
<1> QED BY <1>1, <1>2, <1>5

\* A record is overwritten.
LEMMA UpdateFacts ==
  ASSUME TypeOK, NEW c \in live, NEW r \in Conn, Update(c, r)
  PROVE  /\ live' = live
         /\ conns'[c] = r
         /\ \A e \in live \ {c} : conns'[e] = conns[e]
         /\ conns' \in [live' -> Conn]
<1>1. conns \in [live -> Conn]
  BY DEF TypeOK
<1>2. conns' \in [live -> Conn]
  BY <1>1 DEF Update
<1>3. live' = live
  BY <1>2, <1>1 DEF live, Update
<1>4. conns'[c] = r /\ \A e \in live \ {c} : conns'[e] = conns[e]
  BY <1>1 DEF Update
<1> QED BY <1>2, <1>3, <1>4

\* A record is appended, under a number that is new.
LEMMA AddFacts ==
  ASSUME TypeOK, NEW r \in Conn, Add(r)
  PROVE  /\ nconn' = nconn + 1 /\ nconn' \in 0..MaxConn
         /\ live' = live \cup {nconn'} /\ nconn' \notin live
         /\ live' \subseteq 1..nconn'
         /\ conns'[nconn'] = r
         /\ \A e \in live : conns'[e] = conns[e]
         /\ conns' \in [live' -> Conn]
<1>1. nconn' = nconn + 1 /\ nconn' \in 0..MaxConn /\ nconn \in Nat
  BY MaxConnAssumption DEF TypeOK, Add
<1>2. nconn' \notin live
  BY <1>1 DEF TypeOK
<1>3. live' = live \cup {nconn'}
  BY <1>1 DEF Add, live
<1>4. live' \subseteq 1..nconn'
  BY <1>1, <1>3 DEF TypeOK
<1>5. conns' = [e \in live' |-> IF e = nconn' THEN r ELSE conns[e]]
  BY <1>1, <1>3 DEF Add
<1>6. \A e \in live : conns[e] \in Conn
  BY DEF TypeOK
<1>7. conns' \in [live' -> Conn]
  BY <1>3, <1>5, <1>6
<1>8. conns'[nconn'] = r /\ \A e \in live : conns'[e] = conns[e]
  BY <1>2, <1>3, <1>5
<1> QED BY <1>1, <1>2, <1>3, <1>4, <1>7, <1>8

\* The records that are appended.
LEMMA NewRecordFacts ==
  ASSUME TypeOK, NEW d \in Dev
  PROVE  /\ Incoming(d) \in Conn
         /\ [Incoming(d) EXCEPT !.pending = "new"] \in Conn
         /\ \A s \in {"sdp", "io"} : Outgoing(d, s) \in Conn
  BY DEF TypeOK, Incoming, Outgoing, Conn

\* The service of a connection changes, and no other.
LEMMA ServiceFacts ==
  ASSUME TypeOK, NEW c \in live, NEW s \in State, service' = WithService(c, s)
  PROVE  /\ conns[c] \in Conn /\ conns[c].dev \in Dev
         /\ ServiceOf(c) \in State
         /\ service' \in [Dev -> State]
         /\ conns[c].own => service'[conns[c].dev] = s
         /\ ~conns[c].own => service' = service
         /\ \A d \in Dev : d # conns[c].dev => service'[d] = service[d]
<1>1. conns[c] \in Conn
  BY DEF TypeOK
<1>2. conns[c].dev \in Dev /\ conns[c].own \in BOOLEAN
  BY <1>1 DEF Conn
<1>3. ServiceOf(c) \in State
  BY <1>2 DEF TypeOK, ServiceOf, State
<1>4. service \in [Dev -> State]
  BY DEF TypeOK
<1>5. CASE conns[c].own
  <2>1. service' = [service EXCEPT ![conns[c].dev] = s]
    BY <1>5 DEF WithService
  <2> QED BY <1>1, <1>2, <1>3, <1>4, <1>5, <2>1
<1>6. CASE ~conns[c].own
  <2>1. service' = service
    BY <1>6 DEF WithService
  <2> QED BY <1>1, <1>2, <1>3, <1>4, <1>6, <2>1
<1> QED BY <1>5, <1>6

-----------------------------------------------------------------------------
\* The daemon starts with no profile and no connection.
LEMMA InitInv == Init => IInv
<1> SUFFICES ASSUME Init PROVE IInv
  OBVIOUS
<1>1. live = {}
  BY DEF Init, live
<1>2. conns \in [live -> Conn]
  BY <1>1 DEF Init
<1>3. service \in [Dev -> State]
  BY DEF Init, State
<1>4. registered \in BOOLEAN /\ authorize \in BOOLEAN /\ devs \subseteq Dev
  BY DEF Init
<1>5. nconn \in 0..MaxConn
  BY MaxConnAssumption DEF Init
<1>6. TypeOK
  BY <1>1, <1>2, <1>3, <1>4, <1>5 DEF TypeOK
<1> QED
  BY <1>1, <1>6 DEF Init, IInv, ConnectionsAwaitSomething, ConnectingHasAttempt,
         DisconnectingHasRequest, NothingWithoutProfile

-----------------------------------------------------------------------------
\* A step that frees connection c and sets its service to s keeps the
\* invariant, provided c was not what the service waits for.
LEMMA DropStep ==
  ASSUME IInv, NEW c \in live, Drop(c), NEW s \in State,
         service' = WithService(c, s), UNCHANGED <<registered, authorize, devs, nconn>>,
         conns[c].own => s # "none",
         conns[c].own /\ s = "connecting" =>
            ServiceOf(c) = "connecting" /\ (conns[c].connected \/ conns[c].auth),
         conns[c].own /\ s = "disconnecting" =>
            ServiceOf(c) = "disconnecting" /\ conns[c].pending # "disc"
  PROVE  IInv'
<1> DEFINE k == conns[c]
<1>0. TypeOK /\ conns \in [live -> Conn]
  BY DEF IInv, TypeOK
<1>1. /\ live' = live \ {c}
      /\ \A e \in live' : conns'[e] = conns[e]
      /\ conns' \in [live' -> Conn]
  BY <1>0, DropFacts
<1>2. /\ k \in Conn /\ k.dev \in Dev
      /\ service' \in [Dev -> State]
      /\ k.own => service'[k.dev] = s
      /\ ~k.own => service' = service
      /\ \A d \in Dev : d # k.dev => service'[d] = service[d]
  BY <1>0, ServiceFacts
<1>3. TypeOK'
  BY <1>0, <1>1, <1>2 DEF TypeOK
<1>4. ConnectionsAwaitSomething'
  <2>1. \A e \in live' : Awaits(conns'[e])
    BY <1>1, AwaitsAll DEF IInv
  <2> QED BY <2>1 DEF ConnectionsAwaitSomething, Awaits
<1>5. ConnectingHasAttempt'
  <2> SUFFICES ASSUME NEW d \in Dev, service'[d] = "connecting"
               PROVE  \E e \in live' : /\ conns'[e].own /\ conns'[e].dev = d
                                        /\ ~conns'[e].connected /\ ~conns'[e].auth
    BY DEF ConnectingHasAttempt, ConnsOf
  <2>1. service[d] = "connecting" /\ (k.own /\ k.dev = d => k.connected \/ k.auth)
    BY <1>2 DEF ServiceOf
  <2>2. PICK e \in live : /\ conns[e].own /\ conns[e].dev = d
                          /\ ~conns[e].connected /\ ~conns[e].auth
    BY <2>1 DEF IInv, ConnectingHasAttempt, ConnsOf
  <2>3. e # c
    BY <2>1, <2>2
  <2> QED BY <1>1, <2>2, <2>3
<1>6. DisconnectingHasRequest'
  <2> SUFFICES ASSUME NEW d \in Dev, service'[d] = "disconnecting"
               PROVE  \E e \in live' : /\ conns'[e].own /\ conns'[e].dev = d
                                        /\ conns'[e].pending = "disc"
    BY DEF DisconnectingHasRequest, ConnsOf
  <2>1. service[d] = "disconnecting" /\ (k.own /\ k.dev = d => k.pending # "disc")
    BY <1>2 DEF ServiceOf
  <2>2. PICK e \in live : /\ conns[e].own /\ conns[e].dev = d
                          /\ conns[e].pending = "disc"
    BY <2>1 DEF IInv, DisconnectingHasRequest, ConnsOf
  <2>3. e # c
    BY <2>1, <2>2
  <2> QED BY <1>1, <2>2, <2>3
<1>7. NothingWithoutProfile'
  <2>1. registered
    BY DEF IInv, NothingWithoutProfile
  <2>2. \A d \in Dev \ devs : service'[d] = "none"
    BY <1>2 DEF IInv, NothingWithoutProfile, ServiceOf
  <2>3. \A e \in live' : conns'[e].own => service'[conns'[e].dev] # "none"
    BY <1>0, <1>1, <1>2 DEF IInv, NothingWithoutProfile, ServiceOf, Conn
  <2> QED BY <2>1, <2>2, <2>3 DEF NothingWithoutProfile, ServiceOf
<1> QED BY <1>3, <1>4, <1>5, <1>6, <1>7 DEF IInv

\* A step that writes the record r over connection c and sets its service to
\* s keeps the invariant, provided a service that is now in transition has r
\* to wait for, or has what it waited for before.
LEMMA UpdateStep ==
  ASSUME IInv, NEW c \in live, NEW r \in Conn, Update(c, r), NEW s \in State,
         r.dev = conns[c].dev, r.own = conns[c].own, Awaits(r),
         service' = WithService(c, s), UNCHANGED <<registered, authorize, devs, nconn>>,
         conns[c].own => s # "none",
         conns[c].own /\ s = "connecting" =>
            \/ ~r.connected /\ ~r.auth
            \/ ServiceOf(c) = "connecting" /\ (conns[c].connected \/ conns[c].auth),
         conns[c].own /\ s = "disconnecting" =>
            \/ r.pending = "disc"
            \/ ServiceOf(c) = "disconnecting" /\ conns[c].pending # "disc"
  PROVE  IInv'
<1> DEFINE k == conns[c]
<1>0. TypeOK /\ conns \in [live -> Conn]
  BY DEF IInv, TypeOK
<1>1. /\ live' = live
      /\ conns'[c] = r
      /\ \A e \in live \ {c} : conns'[e] = conns[e]
      /\ conns' \in [live' -> Conn]
  BY <1>0, UpdateFacts
<1>2. /\ k \in Conn /\ k.dev \in Dev
      /\ service' \in [Dev -> State]
      /\ k.own => service'[k.dev] = s
      /\ ~k.own => service' = service
      /\ \A d \in Dev : d # k.dev => service'[d] = service[d]
  BY <1>0, ServiceFacts
<1>3. TypeOK'
  BY <1>0, <1>1, <1>2 DEF TypeOK
<1>4. ConnectionsAwaitSomething'
  <2>1. \A e \in live' : Awaits(conns'[e])
    BY <1>1, AwaitsAll DEF IInv
  <2> QED BY <2>1 DEF ConnectionsAwaitSomething, Awaits
<1>5. ConnectingHasAttempt'
  <2> SUFFICES ASSUME NEW d \in Dev, service'[d] = "connecting"
               PROVE  \E e \in live' : /\ conns'[e].own /\ conns'[e].dev = d
                                        /\ ~conns'[e].connected /\ ~conns'[e].auth
    BY DEF ConnectingHasAttempt, ConnsOf
  <2>1. CASE k.own /\ k.dev = d /\ ~r.connected /\ ~r.auth
    BY <1>1, <2>1
  <2>2. CASE ~(k.own /\ k.dev = d /\ ~r.connected /\ ~r.auth)
    <3>1. service[d] = "connecting" /\ (k.own /\ k.dev = d => k.connected \/ k.auth)
      BY <1>2, <2>2 DEF ServiceOf
    <3>2. PICK e \in live : /\ conns[e].own /\ conns[e].dev = d
                            /\ ~conns[e].connected /\ ~conns[e].auth
      BY <3>1 DEF IInv, ConnectingHasAttempt, ConnsOf
    <3>3. e # c
      BY <3>1, <3>2
    <3> QED BY <1>1, <3>2, <3>3
  <2> QED BY <2>1, <2>2
<1>6. DisconnectingHasRequest'
  <2> SUFFICES ASSUME NEW d \in Dev, service'[d] = "disconnecting"
               PROVE  \E e \in live' : /\ conns'[e].own /\ conns'[e].dev = d
                                        /\ conns'[e].pending = "disc"
    BY DEF DisconnectingHasRequest, ConnsOf
  <2>1. CASE k.own /\ k.dev = d /\ r.pending = "disc"
    BY <1>1, <2>1
  <2>2. CASE ~(k.own /\ k.dev = d /\ r.pending = "disc")
    <3>1. service[d] = "disconnecting" /\ (k.own /\ k.dev = d => k.pending # "disc")
      BY <1>2, <2>2 DEF ServiceOf
    <3>2. PICK e \in live : /\ conns[e].own /\ conns[e].dev = d
                            /\ conns[e].pending = "disc"
      BY <3>1 DEF IInv, DisconnectingHasRequest, ConnsOf
    <3>3. e # c
      BY <3>1, <3>2
    <3> QED BY <1>1, <3>2, <3>3
  <2> QED BY <2>1, <2>2
<1>7. NothingWithoutProfile'
  <2>1. registered
    BY DEF IInv, NothingWithoutProfile
  <2>2. \A d \in Dev \ devs : service'[d] = "none"
    BY <1>2 DEF IInv, NothingWithoutProfile, ServiceOf
  <2>3. \A e \in live' : conns'[e].own => service'[conns'[e].dev] # "none"
    <3> SUFFICES ASSUME NEW e \in live, conns'[e].own
                 PROVE  service'[conns'[e].dev] # "none"
      BY <1>1
    <3>1. conns[e].own /\ conns'[e].dev = conns[e].dev
      BY <1>1
    <3>2. conns[e].dev \in Dev /\ service[conns[e].dev] # "none"
      BY <1>0, <3>1 DEF IInv, NothingWithoutProfile, ServiceOf, Conn
    <3> QED BY <1>2, <3>1, <3>2
  <2> QED BY <2>1, <2>2, <2>3 DEF NothingWithoutProfile, ServiceOf
<1> QED BY <1>3, <1>4, <1>5, <1>6, <1>7 DEF IInv

\* A step that appends the record r of device d and sets the device's service
\* to s keeps the invariant, provided s waits for r or for what it waited for.
LEMMA AddStep ==
  ASSUME IInv, NEW d \in Dev, NEW r \in Conn, Add(r), NEW s \in State,
         r.dev = d, r.own, Awaits(r),
         service' = [service EXCEPT ![d] = s], UNCHANGED <<registered, authorize, devs>>,
         registered, d \in devs, s # "none",
         s = "connecting" => (~r.connected /\ ~r.auth) \/ service[d] = "connecting",
         s = "disconnecting" => service[d] = "disconnecting"
  PROVE  IInv'
<1>0. TypeOK /\ conns \in [live -> Conn] /\ service \in [Dev -> State]
  BY DEF IInv, TypeOK
<1>1. /\ nconn' \in 0..MaxConn
      /\ live' = live \cup {nconn'} /\ nconn' \notin live
      /\ live' \subseteq 1..nconn'
      /\ conns'[nconn'] = r
      /\ \A e \in live : conns'[e] = conns[e]
      /\ conns' \in [live' -> Conn]
  BY <1>0, AddFacts
<1>2. /\ service' \in [Dev -> State]
      /\ service'[d] = s
      /\ \A x \in Dev : x # d => service'[x] = service[x]
  BY <1>0
<1>3. TypeOK'
  BY <1>0, <1>1, <1>2 DEF TypeOK
<1>4. ConnectionsAwaitSomething'
  <2>1. \A e \in live' : Awaits(conns'[e])
    BY <1>1, AwaitsAll DEF IInv
  <2> QED BY <2>1 DEF ConnectionsAwaitSomething, Awaits
<1>5. ConnectingHasAttempt'
  <2> SUFFICES ASSUME NEW x \in Dev, service'[x] = "connecting"
               PROVE  \E e \in live' : /\ conns'[e].own /\ conns'[e].dev = x
                                        /\ ~conns'[e].connected /\ ~conns'[e].auth
    BY DEF ConnectingHasAttempt, ConnsOf
  <2>1. CASE x = d /\ ~r.connected /\ ~r.auth
    BY <1>1, <2>1
  <2>2. CASE service[x] = "connecting"
    <3>1. PICK e \in live : /\ conns[e].own /\ conns[e].dev = x
                            /\ ~conns[e].connected /\ ~conns[e].auth
      BY <2>2 DEF IInv, ConnectingHasAttempt, ConnsOf
    <3> QED BY <1>1, <3>1
  <2> QED BY <1>2, <2>1, <2>2
<1>6. DisconnectingHasRequest'
  <2> SUFFICES ASSUME NEW x \in Dev, service'[x] = "disconnecting"
               PROVE  \E e \in live' : /\ conns'[e].own /\ conns'[e].dev = x
                                        /\ conns'[e].pending = "disc"
    BY DEF DisconnectingHasRequest, ConnsOf
  <2>1. PICK e \in live : /\ conns[e].own /\ conns[e].dev = x
                          /\ conns[e].pending = "disc"
    BY <1>2 DEF IInv, DisconnectingHasRequest, ConnsOf
  <2> QED BY <1>1, <2>1
<1>7. NothingWithoutProfile'
  <2>1. \A x \in Dev \ devs : service'[x] = "none"
    BY <1>2 DEF IInv, NothingWithoutProfile
  <2>2. \A e \in live' : conns'[e].own => service'[conns'[e].dev] # "none"
    <3> SUFFICES ASSUME NEW e \in live', conns'[e].own
                 PROVE  service'[conns'[e].dev] # "none"
      OBVIOUS
    <3>1. CASE e = nconn'
      BY <1>1, <1>2, <3>1
    <3>2. CASE e \in live
      <4>1. conns[e].dev \in Dev /\ service[conns[e].dev] # "none"
        BY <1>0, <1>1, <3>2 DEF IInv, NothingWithoutProfile, ServiceOf, Conn
      <4> QED BY <1>1, <1>2, <3>2, <4>1
    <3> QED BY <1>1, <3>1, <3>2
  <2> QED BY <2>1, <2>2 DEF NothingWithoutProfile, ServiceOf
<1> QED BY <1>3, <1>4, <1>5, <1>6, <1>7 DEF IInv

\* A step that only sets the service of device d keeps the invariant, provided
\* it does not put it into a transition.
LEMMA ServiceStep ==
  ASSUME IInv, NEW d \in Dev, NEW s \in State,
         service' = [service EXCEPT ![d] = s],
         UNCHANGED <<registered, authorize, devs, nconn, conns>>,
         registered, d \in devs, s # "none",
         s \in {"connecting", "disconnecting"} => service[d] = s
  PROVE  IInv'
<1>0. conns \in [live -> Conn] /\ service \in [Dev -> State]
  BY DEF IInv, TypeOK
<1>1. live' = live
  BY DEF live
<1>2. /\ service' \in [Dev -> State]
      /\ service'[d] = s
      /\ \A x \in Dev : x # d => service'[x] = service[x]
  BY <1>0
<1>3. TypeOK'
  BY <1>1, <1>2 DEF TypeOK, IInv
<1>4. ConnectionsAwaitSomething'
  BY <1>1 DEF IInv, ConnectionsAwaitSomething
<1>5. ConnectingHasAttempt'
  BY <1>1, <1>2 DEF IInv, ConnectingHasAttempt, ConnsOf
<1>6. DisconnectingHasRequest'
  BY <1>1, <1>2 DEF IInv, DisconnectingHasRequest, ConnsOf
<1>7. NothingWithoutProfile'
  <2>1. \A x \in Dev \ devs : service'[x] = "none"
    BY <1>2 DEF IInv, NothingWithoutProfile
  <2>2. \A e \in live : conns[e].own => service'[conns[e].dev] # "none"
    BY <1>0, <1>2 DEF IInv, NothingWithoutProfile, ServiceOf, Conn
  <2> QED BY <1>1, <2>1, <2>2 DEF NothingWithoutProfile, ServiceOf
<1> QED BY <1>3, <1>4, <1>5, <1>6, <1>7 DEF IInv

-----------------------------------------------------------------------------
\* What a callback finds when it runs for connection c.
LEMMA CallbackFacts ==
  ASSUME IInv, NEW c \in live
  PROVE  /\ conns[c] \in Conn /\ Awaits(conns[c])
         /\ ServiceOf(c) \in State
         /\ conns[c].own => ServiceOf(c) # "none"
         /\ service = WithService(c, ServiceOf(c))
<1>1. conns[c] \in Conn /\ Awaits(conns[c]) /\ service \in [Dev -> State]
  BY AwaitsAll DEF IInv, TypeOK
<1>2. conns[c].dev \in Dev
  BY <1>1 DEF Conn
<1>3. ServiceOf(c) \in State /\ (conns[c].own => ServiceOf(c) # "none")
  BY <1>1, <1>2 DEF ServiceOf, State, IInv, NothingWithoutProfile
<1>4. service = WithService(c, ServiceOf(c))
  BY <1>1, <1>2 DEF WithService, ServiceOf
<1> QED BY <1>1, <1>3, <1>4

\* ext_auth keeps the invariant.
LEMMA ExtAuthStep == ASSUME IInv, NEW c \in ConnId, ExtAuth(c) PROVE IInv'
<1>0. c \in live /\ conns[c].auth
  BY DEF ExtAuth
<1>1. /\ conns[c] \in Conn /\ Awaits(conns[c]) /\ ServiceOf(c) \in State
      /\ conns[c].own => ServiceOf(c) # "none"
      /\ service' = WithService(c, ServiceOf(c))
      /\ UNCHANGED <<registered, authorize, devs, nconn>>
  BY <1>0, CallbackFacts DEF ExtAuth
<1> DEFINE r == [conns[c] EXCEPT !.auth = FALSE, !.step = "io"]
<1>2. CASE Update(c, r)
  <2>1. /\ r \in Conn /\ r.dev = conns[c].dev /\ r.own = conns[c].own /\ ~r.auth
        /\ r.step = "io" /\ r.pending = conns[c].pending /\ r.connected = conns[c].connected
    BY <1>1 DEF Conn
  <2> HIDE DEF r
  <2>2. Awaits(r) /\ ~r.connected /\ ~r.auth /\ conns[c].pending # "disc"
    BY <1>0, <1>1, <2>1 DEF Awaits
  <2> QED BY <1>0, <1>1, <1>2, <2>1, <2>2, UpdateStep
<1>3. CASE Drop(c)
  <2>1. conns[c].pending # "disc"
    BY <1>0, <1>1 DEF Awaits
  <2> QED BY <1>0, <1>1, <1>3, <2>1, DropStep
<1> QED BY <1>2, <1>3 DEF ExtAuth

\* ext_connect keeps the invariant.
LEMMA ExtConnectStep == ASSUME IInv, NEW c \in ConnId, ExtConnect(c) PROVE IInv'
<1>0. c \in live /\ conns[c].step = "io" /\ UNCHANGED <<registered, authorize, devs, nconn>>
  BY DEF ExtConnect
<1>1. /\ conns[c] \in Conn /\ Awaits(conns[c]) /\ ServiceOf(c) \in State
      /\ conns[c].own => ServiceOf(c) # "none"
  BY <1>0, CallbackFacts
<1>2. ~conns[c].auth /\ conns[c].pending = "none" /\ ~conns[c].connected
  BY <1>0, <1>1 DEF Awaits
<1> DEFINE r == [conns[c] EXCEPT !.watch = TRUE, !.step = "none", !.pending = "new"]
           s == SetConnecting(ServiceOf(c))
           f == ConnectingComplete(ServiceOf(c), FALSE)
<1>3. CASE MayConnect(ServiceOf(c)) /\ service' = WithService(c, s) /\ Update(c, r)
  <2>1. /\ r \in Conn /\ r.dev = conns[c].dev /\ r.own = conns[c].own /\ r.watch
        /\ r.auth = conns[c].auth /\ r.step = "none" /\ r.pending = "new"
        /\ r.connected = conns[c].connected
    BY <1>1 DEF Conn
  <2>2. s \in State /\ s # "none" /\ s # "disconnecting"
    BY <1>1, <1>3 DEF State, SetConnecting, MayConnect
  <2> HIDE DEF r, s
  <2>3. Awaits(r) /\ ~r.connected /\ ~r.auth
    BY <1>2, <2>1 DEF Awaits
  <2> QED BY <1>0, <1>1, <1>3, <2>1, <2>2, <2>3, UpdateStep
<1>4. CASE service' = WithService(c, f) /\ Drop(c)
  <2>1. /\ f \in State /\ (conns[c].own => f # "none") /\ f # "connecting"
        /\ f = "disconnecting" => ServiceOf(c) = "disconnecting"
    BY <1>1 DEF State, ConnectingComplete
  <2> HIDE DEF f
  <2> QED BY <1>0, <1>2, <1>4, <2>1, DropStep
<1> QED BY <1>3, <1>4 DEF ExtConnect

\* record_cb keeps the invariant.
LEMMA RecordCbStep == ASSUME IInv, NEW c \in ConnId, RecordCb(c) PROVE IInv'
<1>0. c \in live /\ conns[c].step = "sdp" /\ UNCHANGED <<registered, authorize, devs, nconn>>
  BY DEF RecordCb
<1>1. /\ conns[c] \in Conn /\ Awaits(conns[c]) /\ ServiceOf(c) \in State
      /\ conns[c].own => ServiceOf(c) # "none"
      /\ service = WithService(c, ServiceOf(c))
  BY <1>0, CallbackFacts
<1>2. ~conns[c].auth /\ conns[c].pending = "none" /\ ~conns[c].connected
  BY <1>0, <1>1 DEF Awaits
<1> DEFINE r == [conns[c] EXCEPT !.step = "io"]
           f == ConnectingComplete(ServiceOf(c), FALSE)
<1>3. CASE Update(c, r) /\ UNCHANGED service
  <2>1. /\ r \in Conn /\ r.dev = conns[c].dev /\ r.own = conns[c].own
        /\ r.auth = conns[c].auth /\ r.step = "io" /\ r.pending = conns[c].pending
        /\ r.connected = conns[c].connected
    BY <1>1 DEF Conn
  <2> HIDE DEF r
  <2>2. Awaits(r) /\ ~r.connected /\ ~r.auth
    BY <1>2, <2>1 DEF Awaits
  <2>3. service' = WithService(c, ServiceOf(c))
    BY <1>1, <1>3
  <2> QED BY <1>0, <1>1, <1>2, <1>3, <2>1, <2>2, <2>3, UpdateStep
<1>4. CASE service' = WithService(c, f) /\ Drop(c)
  <2>1. /\ f \in State /\ (conns[c].own => f # "none") /\ f # "connecting"
        /\ f = "disconnecting" => ServiceOf(c) = "disconnecting"
    BY <1>1 DEF State, ConnectingComplete
  <2> HIDE DEF f
  <2> QED BY <1>0, <1>2, <1>4, <2>1, DropStep
<1> QED BY <1>3, <1>4 DEF RecordCb

\* new_conn_reply keeps the invariant.
LEMMA NewConnReplyStep == ASSUME IInv, NEW c \in ConnId, NewConnReply(c) PROVE IInv'
<1>0. c \in live /\ conns[c].pending = "new" /\ UNCHANGED <<registered, authorize, devs, nconn>>
  BY DEF NewConnReply
<1>1. /\ conns[c] \in Conn /\ Awaits(conns[c]) /\ ServiceOf(c) \in State
      /\ conns[c].own => ServiceOf(c) # "none"
  BY <1>0, CallbackFacts
<1>2. conns[c].watch /\ ~conns[c].auth /\ conns[c].step = "none" /\ ~conns[c].connected
  BY <1>0, <1>1 DEF Awaits
<1>3. PICK ok \in BOOLEAN :
        /\ service' = WithService(c, ConnectingComplete(ServiceOf(c), ok))
        /\ IF ok THEN Update(c, [conns[c] EXCEPT !.pending = "none", !.connected = TRUE])
                 ELSE Drop(c)
  BY DEF NewConnReply
<1> DEFINE r == [conns[c] EXCEPT !.pending = "none", !.connected = TRUE]
           s == ConnectingComplete(ServiceOf(c), ok)
<1>4. /\ s \in State /\ (conns[c].own => s # "none") /\ s # "connecting"
      /\ s = "disconnecting" => ServiceOf(c) = "disconnecting"
  BY <1>1 DEF State, ConnectingComplete
<1>5. CASE ok
  <2>1. /\ r \in Conn /\ r.dev = conns[c].dev /\ r.own = conns[c].own
        /\ r.watch = conns[c].watch /\ r.auth = conns[c].auth /\ r.step = conns[c].step
        /\ r.pending = "none" /\ r.connected
    BY <1>1 DEF Conn
  <2>2. Update(c, r) /\ service' = WithService(c, s)
    BY <1>3, <1>5
  <2> HIDE DEF r, s
  <2>3. Awaits(r)
    BY <1>2, <2>1 DEF Awaits
  <2> QED BY <1>0, <1>1, <1>4, <2>1, <2>2, <2>3, UpdateStep
<1>6. CASE ~ok
  <2>1. Drop(c) /\ service' = WithService(c, s)
    BY <1>3, <1>6
  <2> HIDE DEF s
  <2> QED BY <1>0, <1>4, <2>1, DropStep
<1> QED BY <1>5, <1>6

\* disconn_reply keeps the invariant: the connection it frees was accepted, so
\* no CONNECTING service waits for it.
LEMMA DisconnReplyStep == ASSUME IInv, NEW c \in ConnId, DisconnReply(c) PROVE IInv'
<1>0. /\ c \in live /\ conns[c].pending = "disc" /\ Drop(c)
      /\ UNCHANGED <<registered, authorize, devs, nconn>>
  BY DEF DisconnReply
<1>1. /\ conns[c] \in Conn /\ Awaits(conns[c]) /\ ServiceOf(c) \in State
      /\ conns[c].own => ServiceOf(c) # "none"
  BY <1>0, CallbackFacts
<1>2. conns[c].connected
  BY <1>0, <1>1 DEF Awaits
<1>3. PICK ok \in BOOLEAN : service' = WithService(c, DisconnectingComplete(ServiceOf(c), ok))
  BY DEF DisconnReply
<1> DEFINE s == DisconnectingComplete(ServiceOf(c), ok)
<1>4. /\ s \in State /\ (conns[c].own => s # "none") /\ s # "disconnecting"
      /\ s = "connecting" => ServiceOf(c) = "connecting"
  BY <1>1 DEF State, DisconnectingComplete
<1>5. service' = WithService(c, s)
  BY <1>3
<1> HIDE DEF s
<1> QED BY <1>0, <1>2, <1>4, <1>5, DropStep

\* ext_io_disconnected keeps the invariant: it ends either transition.
LEMMA ExtIoDisconnectedStep == ASSUME IInv, NEW c \in ConnId, ExtIoDisconnected(c) PROVE IInv'
<1>0. c \in live /\ Drop(c) /\ UNCHANGED <<registered, authorize, devs, nconn>>
  BY DEF ExtIoDisconnected
<1>1. ServiceOf(c) \in State /\ (conns[c].own => ServiceOf(c) # "none")
  BY <1>0, CallbackFacts
<1> DEFINE s == IF ServiceOf(c) = "connecting" THEN ConnectingComplete(ServiceOf(c), FALSE)
                                              ELSE DisconnectingComplete(ServiceOf(c), TRUE)
<1>2. /\ s \in State /\ (conns[c].own => s # "none")
      /\ s # "disconnecting" /\ s # "connecting"
  BY <1>1 DEF State, DisconnectingComplete, ConnectingComplete
<1>3. service' = WithService(c, s)
  BY DEF ExtIoDisconnected
<1> HIDE DEF s
<1> QED BY <1>0, <1>2, <1>3, DropStep

\* ext_confirm keeps the invariant.
LEMMA ExtConfirmStep == ASSUME IInv, NEW d \in Dev, ExtConfirm(d) PROVE IInv'
<1> DEFINE r == Incoming(d)
           s == Probed(d)
<1>1. /\ registered /\ authorize /\ d \in devs /\ Add(r)
      /\ service' = [service EXCEPT ![d] = s] /\ UNCHANGED <<registered, authorize, devs>>
  BY DEF ExtConfirm
<1>2. r \in Conn /\ r.dev = d /\ r.own /\ Awaits(r)
  BY <1>1, NewRecordFacts DEF Incoming, Awaits, IInv
<1>3. s \in State /\ s # "none" /\ (s \in {"connecting", "disconnecting"} => service[d] = s)
  BY DEF Probed, State, IInv, TypeOK
<1> HIDE DEF r, s
<1> QED BY <1>1, <1>2, <1>3, AddStep

\* ext_direct_connect keeps the invariant.
LEMMA ExtDirectConnectStep == ASSUME IInv, NEW d \in Dev, ExtDirectConnect(d) PROVE IInv'
<1> DEFINE r == [Incoming(d) EXCEPT !.pending = "new"]
           s == SetConnecting(Probed(d))
           f == ConnectingComplete(Probed(d), FALSE)
<1>0. Probed(d) \in State /\ Probed(d) # "none"
      /\ (Probed(d) \in {"connecting", "disconnecting"} => service[d] = Probed(d))
  BY DEF Probed, State, IInv, TypeOK
<1>1. registered /\ ~authorize /\ d \in devs /\ UNCHANGED <<registered, authorize, devs>>
  BY DEF ExtDirectConnect
<1>2. CASE MayConnect(Probed(d)) /\ service' = [service EXCEPT ![d] = s] /\ Add(r)
  <2>1. r \in Conn
    BY NewRecordFacts DEF IInv
  <2>2. r.dev = d /\ r.own /\ Awaits(r) /\ ~r.connected /\ ~r.auth
    BY <1>1 DEF Incoming, Awaits
  <2>3. s \in State /\ s # "none" /\ s # "disconnecting"
    BY <1>0, <1>2 DEF SetConnecting, MayConnect, State
  <2> HIDE DEF r, s
  <2> QED BY <1>1, <1>2, <2>1, <2>2, <2>3, AddStep
<1>3. CASE service' = [service EXCEPT ![d] = f] /\ UNCHANGED <<nconn, conns>>
  <2>1. f \in State /\ f # "none" /\ (f \in {"connecting", "disconnecting"} => service[d] = f)
    BY <1>0 DEF ConnectingComplete, State
  <2> HIDE DEF f
  <2> QED BY <1>1, <1>3, <2>1, ServiceStep
<1> QED BY <1>2, <1>3 DEF ExtDirectConnect

\* A service that exists belongs to a registered profile and a known device.
LEMMA ServiceExists ==
  ASSUME IInv, NEW d \in Dev, service[d] # "none"
  PROVE  registered /\ d \in devs
  BY DEF IInv, NothingWithoutProfile

\* btd_service_connect keeps the invariant.
LEMMA ServiceConnectStep == ASSUME IInv, NEW d \in Dev, ServiceConnect(d) PROVE IInv'
<1>1. /\ service[d] = "disconnected" /\ service' = [service EXCEPT ![d] = "connecting"]
      /\ UNCHANGED <<registered, authorize, devs>>
  BY DEF ServiceConnect
<1>2. PICK s \in {"sdp", "io"} : Add(Outgoing(d, s))
  BY DEF ServiceConnect
<1> DEFINE r == Outgoing(d, s)
<1>3. r \in Conn
  BY NewRecordFacts DEF IInv
<1>4. r.dev = d /\ r.own /\ Awaits(r) /\ ~r.connected /\ ~r.auth
  BY DEF Outgoing, Awaits
<1>5. registered /\ d \in devs
  BY <1>1, ServiceExists
<1>6. Add(r) /\ "connecting" \in State
  BY <1>2 DEF State
<1> HIDE DEF r
<1> QED BY <1>1, <1>3, <1>4, <1>5, <1>6, AddStep

\* A nonempty set of natural numbers has a least element.
LEMMA FirstExists ==
  ASSUME NEW S \in SUBSET Nat, S # {}
  PROVE  \E i \in S : \A j \in S : i <= j
<1> DEFINE R == {p \in Nat \X Nat : p[1] < p[2]}
<1>1. IsWellFoundedOn(R, Nat)
  BY NatLessThanWellFounded DEF OpToRel
<1>2. PICK i \in S : \A j \in S : ~(<<j, i>> \in R)
  <2> HIDE DEF R
  <2> QED BY <1>1, WFMin
<1>3. \A j \in S : i <= j
  <2> TAKE j \in S
  <2>1. ~(<<j, i>> \in R)
    BY <1>2
  <2> QED BY <2>1
<1> QED BY <1>3

\* find_connection returns a connection of the device.
LEMMA FindFacts ==
  ASSUME IInv, NEW d \in Dev, ConnsOf(d) # {}
  PROVE  FindConnection(d) \in ConnsOf(d)
<1>1. ConnsOf(d) \in SUBSET Nat
  <2>1. nconn \in Nat /\ live \subseteq 1..nconn
    BY MaxConnAssumption DEF IInv, TypeOK
  <2>2. \A c \in live : c \in Nat
    BY <2>1
  <2> QED BY <2>2 DEF ConnsOf
<1>2. \E c \in ConnsOf(d) : \A e \in ConnsOf(d) : c <= e
  BY <1>1, FirstExists
<1> QED BY <1>2 DEF FindConnection

\* btd_service_disconnect keeps the invariant.
LEMMA ServiceDisconnectStep == ASSUME IInv, NEW d \in Dev, ServiceDisconnect(d) PROVE IInv'
<1> DEFINE c == FindConnection(d)
<1>1. /\ service[d] \in {"connecting", "connected"}
      /\ UNCHANGED <<registered, authorize, devs, nconn>>
  BY DEF ServiceDisconnect
<1>2. registered /\ d \in devs
  BY <1>1, ServiceExists
<1>3. CASE \E s \in {"disconnected", "connected"} :
             service' = [service EXCEPT ![d] = s] /\ UNCHANGED conns
  <2>1. PICK s \in {"disconnected", "connected"} :
               service' = [service EXCEPT ![d] = s] /\ UNCHANGED conns
    BY <1>3
  <2>2. s \in State /\ s # "none" /\ s \notin {"connecting", "disconnecting"}
    BY DEF State
  <2> QED BY <1>1, <1>2, <2>1, <2>2, ServiceStep
<1>4. CASE /\ Accepted(d) /\ conns[c].pending = "none"
           /\ service' = [service EXCEPT ![d] = "disconnecting"]
           /\ Update(c, [conns[c] EXCEPT !.pending = "disc"])
  <2> DEFINE r == [conns[c] EXCEPT !.pending = "disc"]
  <2>1. c \in live /\ conns[c].own /\ conns[c].dev = d /\ conns[c].connected
    BY <1>4, FindFacts DEF Accepted, ConnsOf
  <2>2. conns[c] \in Conn /\ Awaits(conns[c])
    BY <2>1, CallbackFacts
  <2>3. /\ r \in Conn /\ r.dev = conns[c].dev /\ r.own = conns[c].own
        /\ r.watch = conns[c].watch /\ r.auth = conns[c].auth /\ r.step = conns[c].step
        /\ r.pending = "disc" /\ r.connected = conns[c].connected
    BY <2>2 DEF Conn
  <2>4. Update(c, r) /\ "disconnecting" \in State /\ service' = WithService(c, "disconnecting")
    BY <1>4, <2>1 DEF State, WithService
  <2> HIDE DEF r, c
  <2>5. Awaits(r)
    BY <2>1, <2>2, <2>3 DEF Awaits
  <2> QED BY <1>1, <2>1, <2>3, <2>4, <2>5, UpdateStep
<1> QED BY <1>3, <1>4 DEF ServiceDisconnect

\* The first probe of a device's service keeps the invariant.
LEMMA ServiceProbeStep == ASSUME IInv, NEW d \in Dev, ServiceProbe(d) PROVE IInv'
<1>1. "disconnected" \in State
  BY DEF State
<1> QED BY <1>1, ServiceStep DEF ServiceProbe

\* A device appears.
LEMMA DeviceAddedStep == ASSUME IInv, NEW d \in Dev, DeviceAdded(d) PROVE IInv'
<1>1. live' = live /\ UNCHANGED <<registered, authorize, service, nconn, conns>>
  BY DEF DeviceAdded, live
<1>2. devs' = devs \cup {d}
  BY DEF DeviceAdded
<1>3. TypeOK'
  BY <1>1, <1>2 DEF TypeOK, IInv
<1>4. ConnectionsAwaitSomething' /\ ConnectingHasAttempt' /\ DisconnectingHasRequest'
  BY <1>1 DEF IInv, ConnectionsAwaitSomething, ConnectingHasAttempt, DisconnectingHasRequest,
              ConnsOf
<1>5. NothingWithoutProfile'
  BY <1>1, <1>2 DEF IInv, NothingWithoutProfile, ServiceOf
<1> QED BY <1>3, <1>4, <1>5 DEF IInv

\* The profile is registered: there are no connections yet.
LEMMA RegisterProfileStep == ASSUME IInv, RegisterProfile PROVE IInv'
<1>1. live' = live /\ live = {} /\ UNCHANGED <<devs, nconn, conns>> /\ registered'
  BY DEF RegisterProfile, live, IInv, NothingWithoutProfile
<1>2. PICK S \in SUBSET devs :
        service' = [d \in Dev |-> IF d \in S THEN "disconnected" ELSE "none"]
  BY DEF RegisterProfile
<1>3. service' \in [Dev -> State]
  BY <1>2 DEF State
<1>4. registered' \in BOOLEAN /\ authorize' \in BOOLEAN
  BY DEF RegisterProfile
<1>5. TypeOK'
  BY <1>1, <1>3, <1>4 DEF TypeOK, IInv
<1>6. ConnectionsAwaitSomething'
  BY <1>1 DEF ConnectionsAwaitSomething
<1>7. \A d \in Dev : service'[d] \in {"disconnected", "none"} /\ (d \notin devs => service'[d] = "none")
  BY <1>2
<1>8. ConnectingHasAttempt' /\ DisconnectingHasRequest'
  BY <1>7 DEF ConnectingHasAttempt, DisconnectingHasRequest
<1>9. NothingWithoutProfile'
  BY <1>1, <1>7 DEF NothingWithoutProfile
<1> QED BY <1>5, <1>6, <1>8, <1>9 DEF IInv

\* remove_ext leaves neither services nor connections.
LEMMA RemoveExtStep == ASSUME IInv, RemoveExt PROVE IInv'
<1>1. /\ conns' = [c \in {} |-> 0] /\ service' = [d \in Dev |-> "none"]
      /\ registered' = FALSE /\ UNCHANGED <<authorize, devs, nconn>>
  BY DEF RemoveExt
<1>2. live' = {}
  BY <1>1 DEF live
<1>3. conns' \in [live' -> Conn]
  BY <1>1, <1>2
<1>4. service' \in [Dev -> State]
  BY <1>1 DEF State
<1>5. TypeOK'
  BY <1>1, <1>2, <1>3, <1>4 DEF TypeOK, IInv
<1> QED
  BY <1>1, <1>2, <1>5 DEF IInv, ConnectionsAwaitSomething, ConnectingHasAttempt,
         DisconnectingHasRequest, NothingWithoutProfile

\* A device is removed: its connections are freed or lose their service, and
\* those of other devices stay as they are.
LEMMA DeviceRemovedStep == ASSUME IInv, NEW d \in Dev, DeviceRemoved(d) PROVE IInv'
<1> DEFINE rest == {c \in ConnsOf(d) : ~conns[c].auth}
           first == {c \in rest : \A e \in rest : c <= e}
           left == live \ ((ConnsOf(d) \ rest) \cup first)
           orphan(c) == [conns[c] EXCEPT !.own = FALSE]
<1>0. /\ TypeOK /\ service \in [Dev -> State]
      /\ \A e \in live : conns[e] \in Conn /\ Awaits(conns[e])
  BY AwaitsAll DEF IInv, TypeOK
<1>1. /\ devs' = devs \ {d} /\ service' = [service EXCEPT ![d] = "none"]
      /\ UNCHANGED <<registered, authorize, nconn>>
      /\ conns' = [c \in left |-> IF c \in rest THEN orphan(c) ELSE conns[c]]
  BY DEF DeviceRemoved
<1>2. left \subseteq live /\ live' = left
  BY <1>1 DEF live
<1>3. \A e \in live : /\ e \in rest => conns[e].own /\ conns[e].dev = d
                      /\ e \in left /\ e \notin rest => ~(conns[e].own /\ conns[e].dev = d)
                      /\ ~(conns[e].own /\ conns[e].dev = d) => e \in left /\ e \notin rest
  BY DEF ConnsOf
<1>4. \A e \in live : orphan(e) \in Conn /\ ~orphan(e).own /\ Awaits(orphan(e))
  <2> TAKE e \in live
  <2> DEFINE r == orphan(e)
  <2>1. /\ r \in Conn /\ ~r.own /\ r.watch = conns[e].watch /\ r.auth = conns[e].auth
        /\ r.step = conns[e].step /\ r.pending = conns[e].pending
        /\ r.connected = conns[e].connected
    BY <1>0 DEF Conn
  <2> HIDE DEF r
  <2>2. Awaits(r)
    BY <1>0, <2>1 DEF Awaits
  <2> QED BY <2>1, <2>2 DEF r
<1> HIDE DEF rest, left, orphan
<1>5. \A e \in live' : conns'[e] = IF e \in rest THEN orphan(e) ELSE conns[e]
  BY <1>1, <1>2
<1>6. conns' \in [live' -> Conn]
  BY <1>0, <1>1, <1>2, <1>4
<1>7. /\ service' \in [Dev -> State] /\ service'[d] = "none"
      /\ \A x \in Dev : x # d => service'[x] = service[x]
  <2>1. "none" \in State
    BY DEF State
  <2> QED BY <1>0, <1>1, <2>1
<1>8. TypeOK'
  BY <1>0, <1>1, <1>2, <1>6, <1>7 DEF TypeOK
<1>9. ConnectionsAwaitSomething'
  <2>1. \A e \in live' : Awaits(conns'[e])
    BY <1>0, <1>2, <1>4, <1>5
  <2> QED BY <2>1 DEF ConnectionsAwaitSomething, Awaits
<1>10. ConnectingHasAttempt'
  <2> SUFFICES ASSUME NEW x \in Dev, service'[x] = "connecting"
               PROVE  \E e \in live' : /\ conns'[e].own /\ conns'[e].dev = x
                                        /\ ~conns'[e].connected /\ ~conns'[e].auth
    BY DEF ConnectingHasAttempt, ConnsOf
  <2>1. x # d /\ service[x] = "connecting"
    BY <1>7
  <2>2. PICK e \in live : /\ conns[e].own /\ conns[e].dev = x
                          /\ ~conns[e].connected /\ ~conns[e].auth
    BY <2>1 DEF IInv, ConnectingHasAttempt, ConnsOf
  <2>3. e \in live' /\ conns'[e] = conns[e]
    BY <1>2, <1>3, <1>5, <2>1, <2>2
  <2> QED BY <2>2, <2>3
<1>11. DisconnectingHasRequest'
  <2> SUFFICES ASSUME NEW x \in Dev, service'[x] = "disconnecting"
               PROVE  \E e \in live' : /\ conns'[e].own /\ conns'[e].dev = x
                                        /\ conns'[e].pending = "disc"
    BY DEF DisconnectingHasRequest, ConnsOf
  <2>1. x # d /\ service[x] = "disconnecting"
    BY <1>7
  <2>2. PICK e \in live : /\ conns[e].own /\ conns[e].dev = x
                          /\ conns[e].pending = "disc"
    BY <2>1 DEF IInv, DisconnectingHasRequest, ConnsOf
  <2>3. e \in live' /\ conns'[e] = conns[e]
    BY <1>2, <1>3, <1>5, <2>1, <2>2
  <2> QED BY <2>2, <2>3
<1>12. NothingWithoutProfile'
  <2>1. ~registered => live' = {} /\ \A x \in Dev : service'[x] = "none"
    BY <1>2, <1>7 DEF IInv, NothingWithoutProfile
  <2>2. \A x \in Dev \ devs' : service'[x] = "none"
    BY <1>1, <1>7 DEF IInv, NothingWithoutProfile
  <2>3. \A e \in live' : conns'[e].own => service'[conns'[e].dev] # "none"
    <3> SUFFICES ASSUME NEW e \in live', conns'[e].own
                 PROVE  service'[conns'[e].dev] # "none"
      OBVIOUS
    <3>1. e \in live /\ e \notin rest
      BY <1>2, <1>4, <1>5
    <3>2. conns'[e] = conns[e] /\ conns[e].dev # d /\ conns[e].dev \in Dev
      BY <1>0, <1>2, <1>3, <1>5, <3>1 DEF Conn
    <3>3. service[conns[e].dev] # "none"
      BY <3>1, <3>2 DEF IInv, NothingWithoutProfile, ServiceOf
    <3> QED BY <1>7, <3>2, <3>3
  <2> QED BY <1>1, <2>1, <2>2, <2>3 DEF NothingWithoutProfile, ServiceOf
<1> QED BY <1>8, <1>9, <1>10, <1>11, <1>12 DEF IInv

-----------------------------------------------------------------------------
\* Every callback, call and event of the daemon keeps the invariant.
LEMMA NextInv == IInv /\ [Next]_vars => IInv'
<1> SUFFICES ASSUME IInv, [Next]_vars PROVE IInv'
  OBVIOUS
<1>1. CASE RegisterProfile
  BY <1>1, RegisterProfileStep
<1>2. CASE RemoveExt
  BY <1>2, RemoveExtStep
<1>3. CASE \E d \in Dev : \/ ExtConfirm(d) \/ ExtDirectConnect(d)
                          \/ ServiceConnect(d) \/ ServiceDisconnect(d)
                          \/ DeviceAdded(d) \/ ServiceProbe(d) \/ DeviceRemoved(d)
  BY <1>3, ExtConfirmStep, ExtDirectConnectStep, ServiceConnectStep, ServiceDisconnectStep,
     DeviceAddedStep, ServiceProbeStep, DeviceRemovedStep
<1>4. CASE \E c \in ConnId : Callback(c) \/ ExtAuth(c) \/ ExtIoDisconnected(c)
  BY <1>4, ExtConnectStep, NewConnReplyStep, DisconnReplyStep, RecordCbStep, ExtAuthStep,
     ExtIoDisconnectedStep DEF Callback
<1>5. CASE UNCHANGED vars
  <2>1. live' = live
    BY <1>5 DEF vars, live
  <2> QED
    BY <1>5, <2>1 DEF vars, IInv, TypeOK, ConnectionsAwaitSomething, ConnectingHasAttempt,
         DisconnectingHasRequest, NothingWithoutProfile, ConnsOf, ServiceOf
<1> QED BY <1>1, <1>2, <1>3, <1>4, <1>5 DEF Next

\* The invariant holds throughout every behaviour of the daemon.
LEMMA Invariance == Spec => []IInv
  BY InitInv, NextInv, PTL DEF Spec

\* The connection list and the services keep their types, for any devices and
\* any number of connections.
THEOREM ExtTypeCorrect == Spec => []TypeOK
<1>1. IInv => TypeOK
  BY DEF IInv
<1> QED BY <1>1, Invariance, PTL

\* No connection record of profile.c is ever left without something that will
\* free it or that its owner watches.
THEOREM NoConnectionForgotten == Spec => []ConnectionsAwaitSomething
<1>1. IInv => ConnectionsAwaitSomething
  BY DEF IInv
<1> QED BY <1>1, Invariance, PTL

\* A service in BTD_SERVICE_STATE_CONNECTING has a connection being made.
THEOREM ConnectingIsAttempted == Spec => []ConnectingHasAttempt
<1>1. IInv => ConnectingHasAttempt
  BY DEF IInv
<1> QED BY <1>1, Invariance, PTL

\* A service in BTD_SERVICE_STATE_DISCONNECTING has a RequestDisconnection
\* that the program has not answered.
THEOREM DisconnectingIsRequested == Spec => []DisconnectingHasRequest
<1>1. IInv => DisconnectingHasRequest
  BY DEF IInv
<1> QED BY <1>1, Invariance, PTL

\* remove_ext and btd_adapter_remove_device leave no service behind, and no
\* connection that would use one.
THEOREM NothingLeftBehind == Spec => []NothingWithoutProfile
<1>1. IInv => NothingWithoutProfile
  BY DEF IInv
<1> QED BY <1>1, Invariance, PTL
=============================================================================
