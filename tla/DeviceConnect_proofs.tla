------------------------ MODULE DeviceConnect_proofs ------------------------
(***************************************************************************)
(* DeviceConnect: types, that dev->pending is sound, and that no D-Bus call *)
(* is lost or answered twice.                                               *)
(***************************************************************************)
EXTENDS DeviceConnect, Sublists_proofs

\* The calls somebody still has to answer, or will never answer.
Owed == Held \cup dropped \cup left

\* A call is in one place: the fields of struct btd_device that hold a call
\* never hold the same one.
SlotInv ==
  /\ connect # NoCall => connect \notin {disconnect, browse} \cup disconnects \cup dropped \cup left
  /\ disconnect # NoCall => disconnect \notin {browse} \cup disconnects \cup dropped \cup left
  /\ browse \in CallId => browse \notin disconnects \cup dropped \cup left
  /\ disconnects \cap (dropped \cup left) = {}
  /\ browse \in CallId => browse \in DOMAIN calls /\ calls[browse] \in 0..NSvc

\* The calls that are owed an answer were made and got none, the others did.
AnswersInv ==
  /\ Owed \subseteq DOMAIN calls
  /\ \A i \in CallId : (i \in Owed \/ i \notin DOMAIN calls) => answers[i] = 0
  /\ \A i \in DOMAIN calls : answers[i] = 0 => i \in Owed
  /\ "disconnectProfile" \notin ops => \A i \in CallId : answers[i] <= 1

IInv == TypeOK /\ SlotInv /\ AnswersInv /\ PendingIsSound

\* The timer of Disconnect runs while there is a link: a second Disconnect
\* that finds it running is kept, and answered when the link ends.
TimerInv == timer => link

\* A list of services of the device, each once, with the states S.
Sound(p, S) ==
  /\ \A j \in DOMAIN p : S[p[j]] # "none"
  /\ \A j, k \in DOMAIN p : p[j] = p[k] => j = k

-----------------------------------------------------------------------------
(* Lists of services                                                        *)

\* connect_next leaves a sound list, and its first service is being connected.
LEMMA ConnectNextFacts ==
  ASSUME NEW p \in Seq(Svc), NEW S \in [Svc -> State], Sound(p, S), ConnectNext(p, S)
  PROVE  /\ pending' \in Seq(Svc) /\ svc' \in [Svc -> State] /\ Sound(pending', svc')
         /\ pending' # <<>> => svc'[pending'[1]] = "connecting"
<1>1. PICK k \in 0..Len(p) :
         /\ k < Len(p) => S[p[k + 1]] \in {"disconnected", "connecting"}
         /\ pending' = SubSeq(p, k + 1, Len(p))
         /\ svc' = IF k < Len(p) THEN [S EXCEPT ![p[k + 1]] = "connecting"] ELSE S
  BY DEF ConnectNext
<1>2. /\ Len(p) \in Nat /\ DOMAIN p = 1..Len(p) /\ k \in Nat /\ k <= Len(p)
      /\ \A j \in DOMAIN p : p[j] \in Svc
  OBVIOUS
<1>3. /\ pending' \in Seq(Svc) /\ Len(pending') = Len(p) - k
      /\ DOMAIN pending' = 1..(Len(p) - k)
      /\ \A j \in 1..(Len(p) - k) : k + j \in DOMAIN p /\ pending'[j] = p[k + j]
  BY <1>1, SuffixFacts
<1>5. svc' \in [Svc -> State] /\ \A s \in Svc : S[s] # "none" => svc'[s] # "none"
  <2>1. k < Len(p) => p[k + 1] \in Svc
    BY <1>2
  <2> QED BY <1>1, <2>1 DEF State
<1>6. \A j \in DOMAIN pending' : svc'[pending'[j]] # "none"
  <2> TAKE j \in DOMAIN pending'
  <2>1. k + j \in DOMAIN p /\ pending'[j] = p[k + j]
    BY <1>3
  <2>2. p[k + j] \in Svc /\ S[p[k + j]] # "none"
    BY <1>2, <2>1 DEF Sound
  <2> QED BY <1>5, <2>1, <2>2
<1>7. \A i, j \in DOMAIN pending' : pending'[i] = pending'[j] => i = j
  <2> SUFFICES ASSUME NEW i \in 1..(Len(p) - k), NEW j \in 1..(Len(p) - k), p[k + i] = p[k + j]
               PROVE  i = j
    BY <1>3
  <2>1. k + i = k + j
    BY <1>3 DEF Sound
  <2> QED BY <1>2, <2>1
<1>8. pending' # <<>> => svc'[pending'[1]] = "connecting"
  <2> SUFFICES ASSUME pending' # <<>> PROVE svc'[pending'[1]] = "connecting"
    OBVIOUS
  <2>1. k < Len(p)
    BY <1>2, <1>3
  <2>2. pending'[1] = p[k + 1] /\ p[k + 1] \in Svc
    BY <1>2, <1>3, <2>1
  <2> QED BY <1>1, <2>1, <2>2
<1> QED BY <1>3, <1>5, <1>6, <1>7, <1>8 DEF Sound

\* What create_pending_list makes is sound.
LEMMA PendingListFacts ==
  ASSUME NEW kind \in 0..NSvc, NEW S \in [Svc -> State]
  PROVE  PendingList(kind, S) \in Seq(Svc) /\ Sound(PendingList(kind, S), S)
<1>0. NSvc \in Nat
  BY BoundsAssumption
<1>1. CASE kind # All
  <2>1. kind \in Svc
    BY <1>0, <1>1 DEF All, Svc
  <2>2. <<kind>> \in Seq(Svc) /\ Len(<<kind>>) = 1 /\ <<kind>>[1] = kind
    BY <2>1
  <2>3. DOMAIN <<kind>> = {1}
    BY <2>2
  <2>4. S[kind] # "none" => Sound(<<kind>>, S)
    BY <2>2, <2>3 DEF Sound
  <2>5. <<>> \in Seq(Svc) /\ Sound(<<>>, S)
    BY DEF Sound
  <2> QED BY <1>1, <2>2, <2>4, <2>5 DEF PendingList
<1>2. CASE kind = All
  <2> DEFINE q == [s \in Svc |-> s]
             K == {s \in Svc : S[s] = "disconnected"}
  <2>1. q \in Seq(Svc) /\ DOMAIN q = Svc /\ \A s \in Svc : q[s] = s
    BY <1>0 DEF Svc
  <2>2. K \in SUBSET (DOMAIN q)
    BY <2>1
  <2>3. \A j, k \in DOMAIN q : q[j] = q[k] => j = k
    BY <2>1
  <2>4. PendingList(kind, S) = Keep(q, K)
    BY <1>2 DEF PendingList
  <2> HIDE DEF q
  <2>5. /\ Keep(q, K) \in Seq(Svc)
        /\ \A n \in DOMAIN Keep(q, K) : Nth(K, n) \in K /\ Keep(q, K)[n] = q[Nth(K, n)]
    BY <2>1, <2>2, KeepFacts
  <2>6. \A j, k \in DOMAIN Keep(q, K) : Keep(q, K)[j] = Keep(q, K)[k] => j = k
    BY <2>1, <2>2, <2>3, KeepOrder
  <2>7. \A n \in DOMAIN Keep(q, K) : S[Keep(q, K)[n]] # "none"
    <3> TAKE n \in DOMAIN Keep(q, K)
    <3>1. Nth(K, n) \in K /\ Keep(q, K)[n] = Nth(K, n)
      BY <2>1, <2>5
    <3> QED BY <3>1
  <2> QED BY <2>4, <2>5, <2>6, <2>7 DEF Sound
<1> QED BY <1>1, <1>2

\* dev->pending without service s is sound for states that differ at s only,
\* and keeps its head when that is not s.
LEMMA OthersFacts ==
  ASSUME TypeOK, PendingIsSound, NEW s \in Svc,
         NEW S \in [Svc -> State], \A e \in Svc \ {s} : S[e] = svc[e]
  PROVE  /\ Others(s) \in Seq(Svc) /\ Sound(Others(s), S)
         /\ \A j \in DOMAIN Others(s) : Others(s)[j] # s
         /\ (pending # <<>> /\ pending[1] # s) => Others(s) # <<>> /\ Others(s)[1] = pending[1]
<1> DEFINE K == {k \in DOMAIN pending : pending[k] # s}
<1>0. pending \in Seq(Svc) /\ K \in SUBSET (DOMAIN pending) /\ Others(s) = Keep(pending, K)
  BY DEF TypeOK, Others
<1>1. /\ Keep(pending, K) \in Seq(Svc)
      /\ \A n \in DOMAIN Keep(pending, K) : Nth(K, n) \in K /\ Keep(pending, K)[n] = pending[Nth(K, n)]
  BY <1>0, KeepFacts
<1>2. \A j, k \in DOMAIN Keep(pending, K) : Keep(pending, K)[j] = Keep(pending, K)[k] => j = k
  BY <1>0, KeepOrder DEF PendingIsSound
<1>3. \A n \in DOMAIN Keep(pending, K) : /\ Keep(pending, K)[n] # s
                                         /\ S[Keep(pending, K)[n]] # "none"
  <2> TAKE n \in DOMAIN Keep(pending, K)
  <2>1. Nth(K, n) \in K /\ Keep(pending, K)[n] = pending[Nth(K, n)]
    BY <1>1
  <2>2. /\ Nth(K, n) \in DOMAIN pending /\ pending[Nth(K, n)] # s
        /\ pending[Nth(K, n)] \in Svc /\ svc[pending[Nth(K, n)]] # "none"
    BY <1>0, <2>1 DEF PendingIsSound
  <2> QED BY <2>1, <2>2
<1>4. (pending # <<>> /\ pending[1] # s) =>
         Keep(pending, K) # <<>> /\ Keep(pending, K)[1] = pending[1]
  <2> SUFFICES ASSUME pending # <<>>, pending[1] # s
               PROVE  Keep(pending, K) # <<>> /\ Keep(pending, K)[1] = pending[1]
    OBVIOUS
  <2>1. 1 \in K
    BY <1>0
  <2> HIDE DEF K
  <2> QED BY <1>0, <2>1, KeepOrder
<1> QED BY <1>0, <1>1, <1>2, <1>3, <1>4 DEF Sound

-----------------------------------------------------------------------------
(* Calls and answers                                                        *)

\* The calls in I are answered, or there is nothing to answer.
Settles(I) == Answer(I) \/ (I = {} /\ UNCHANGED answers)

\* A new call has a number of its own; the earlier ones stay what they were.
LEMMA NewCallFacts ==
  ASSUME TypeOK, NEW kind \in -2..NSvc, NewCall(kind)
  PROVE  /\ calls' \in Seq(-2..NSvc) /\ Len(calls') <= MaxCall
         /\ Me \in CallId /\ Me \notin DOMAIN calls /\ DOMAIN calls' = DOMAIN calls \cup {Me}
         /\ \A i \in DOMAIN calls : calls'[i] = calls[i]
         /\ calls'[Me] = kind
<1>1. /\ calls \in Seq(-2..NSvc) /\ Len(calls) < MaxCall /\ calls' = Append(calls, kind)
      /\ Len(calls) \in Nat /\ DOMAIN calls = 1..Len(calls) /\ MaxCall \in Nat
  BY BoundsAssumption DEF TypeOK, NewCall
<1>2. /\ calls' \in Seq(-2..NSvc) /\ Len(calls') = Len(calls) + 1
      /\ calls'[Len(calls) + 1] = kind /\ \A i \in 1..Len(calls) : calls'[i] = calls[i]
  BY <1>1, AppendProperties
<1>3. DOMAIN calls' = 1..(Len(calls) + 1)
  BY <1>2
<1>4. 1..(Len(calls) + 1) = 1..Len(calls) \cup {Len(calls) + 1} /\ Len(calls) + 1 \notin 1..Len(calls)
  BY <1>1
<1>5. Len(calls) + 1 <= MaxCall /\ Len(calls) + 1 \in 1..MaxCall
  BY <1>1
<1> QED BY <1>1, <1>2, <1>3, <1>4, <1>5 DEF Me, CallId

\* The calls are numbered by CallId, and those that are owed are among them.
LEMMA OwedFacts ==
  ASSUME TypeOK, AnswersInv
  PROVE  /\ DOMAIN calls \subseteq CallId /\ Owed \subseteq DOMAIN calls
         /\ \A i \in Owed : answers[i] = 0
         /\ \A i \in CallId \ DOMAIN calls : answers[i] = 0
<1>1. DOMAIN calls \subseteq CallId
  BY BoundsAssumption DEF TypeOK, CallId
<1> QED BY <1>1 DEF AnswersInv

\* N are the new calls and I those that are answered: what is owed afterwards
\* decides that no call is lost or answered twice.
LEMMA AnswersStep ==
  ASSUME TypeOK, AnswersInv, ops' = ops,
         NEW N \in SUBSET CallId, N \cap DOMAIN calls = {}, DOMAIN calls' = DOMAIN calls \cup N,
         NEW I \in SUBSET (Owed \cup N), Settles(I),
         Owed' = (Owed \cup N) \ I
  PROVE  AnswersInv' /\ answers' \in [CallId -> 0..2]
<1>1. /\ DOMAIN calls \subseteq CallId /\ Owed \subseteq DOMAIN calls
      /\ \A i \in Owed \cup N : answers[i] = 0
      /\ \A i \in CallId \ DOMAIN calls : answers[i] = 0
  BY OwedFacts
<1>2. answers \in [CallId -> 0..2] /\ \A i \in CallId : answers[i] \in 0..2
  BY DEF TypeOK
<1>3. \A i \in CallId : answers'[i] = IF i \in I THEN 1 ELSE answers[i]
  <2> TAKE i \in CallId
  <2>1. CASE Answer(I)
    <3>1. answers'[i] = answers[i] + Count(i, I)
      BY <2>1 DEF Answer
    <3>2. i \in I => answers[i] = 0
      BY <1>1
    <3> QED BY <1>2, <3>1, <3>2 DEF Count
  <2>2. CASE I = {} /\ UNCHANGED answers
    BY <2>2
  <2> QED BY <2>1, <2>2 DEF Settles
<1>4. answers' \in [CallId -> 0..2]
  <2>1. \A i \in CallId : answers'[i] \in 0..2
    BY <1>2, <1>3
  <2>2. answers' = [i \in CallId |-> answers'[i]]
    BY <1>2 DEF Settles, Answer
  <2> QED BY <2>1, <2>2
<1>5. Owed' \subseteq DOMAIN calls'
  BY <1>1
<1>6. \A i \in CallId : (i \in Owed' \/ i \notin DOMAIN calls') => answers'[i] = 0
  BY <1>1, <1>3
<1>7. \A i \in DOMAIN calls' : answers'[i] = 0 => i \in Owed'
  <2> TAKE i \in DOMAIN calls'
  <2>1. i \in CallId /\ (i \in N \/ i \in DOMAIN calls)
    BY <1>1
  <2>2. i \in I => answers'[i] = 1
    BY <1>3, <2>1
  <2>3. i \notin I => answers'[i] = answers[i]
    BY <1>3, <2>1
  <2>4. i \in DOMAIN calls /\ answers[i] = 0 => i \in Owed
    BY DEF AnswersInv
  <2> QED BY <2>1, <2>2, <2>3, <2>4
<1>8. "disconnectProfile" \notin ops' => \A i \in CallId : answers'[i] <= 1
  BY <1>2, <1>3 DEF AnswersInv
<1> QED BY <1>4, <1>5, <1>6, <1>7, <1>8 DEF AnswersInv

\* The fields keep their calls or are cleared.
LEMMA SlotsCleared ==
  ASSUME TypeOK, SlotInv, connect' \in {connect, NoCall}, disconnect' \in {disconnect, NoCall},
         disconnects' \subseteq disconnects, browse' \in {browse, NoCall, NoBrowse},
         dropped' = dropped, left' = left,
         DOMAIN calls \subseteq DOMAIN calls', \A i \in DOMAIN calls : calls'[i] = calls[i]
  PROVE  SlotInv'
<1>1. NoCall \notin CallId /\ NoBrowse \notin CallId /\ NoCall = 0
  BY BoundsAssumption DEF NoCall, NoBrowse, CallId
<1>2. /\ connect # NoCall => connect \in CallId
      /\ disconnect # NoCall => disconnect \in CallId
  BY <1>1, BoundsAssumption DEF TypeOK, CallId
<1>3. connect' # NoCall => connect' = connect /\ connect' \in CallId
  BY <1>2
<1>4. disconnect' # NoCall => disconnect' = disconnect /\ disconnect' \in CallId
  BY <1>2
<1>5. browse' \in CallId => browse' = browse
  BY <1>1
<1>6. connect' # NoCall => connect' \notin {disconnect', browse'} \cup disconnects' \cup dropped' \cup left'
  BY <1>1, <1>3 DEF SlotInv
<1>7. disconnect' # NoCall => disconnect' \notin {browse'} \cup disconnects' \cup dropped' \cup left'
  BY <1>1, <1>4 DEF SlotInv
<1>8. browse' \in CallId => /\ browse' \notin disconnects' \cup dropped' \cup left'
                            /\ browse' \in DOMAIN calls' /\ calls'[browse'] \in 0..NSvc
  BY <1>5 DEF SlotInv
<1>9. disconnects' \cap (dropped' \cup left') = {}
  BY DEF SlotInv
<1> QED BY <1>6, <1>7, <1>8, <1>9 DEF SlotInv, CallId

\* Nothing happens to the calls.
LEMMA CallsKept ==
  ASSUME TypeOK, SlotInv, AnswersInv, UNCHANGED <<callVars, ops>>
  PROVE  SlotInv' /\ AnswersInv'
<1>1. SlotInv'
  BY DEF SlotInv, callVars
<1>2. Owed' = Owed
  BY DEF Owed, Held, callVars
<1>3. AnswersInv'
  BY <1>2 DEF AnswersInv, callVars
<1> QED BY <1>1, <1>3

-----------------------------------------------------------------------------
(* Connect and the end of a discovery                                       *)

\* What connect_profiles makes of call i: an answer, a discovery, or the call
\* the services are connected for.
Outcome(i) ==
  \/ /\ Answer({i}) /\ browse' = NoBrowse
     /\ connect' = connect /\ (pending' = pending \/ connect = NoCall)
  \/ /\ UNCHANGED answers /\ browse' = i
     /\ connect = NoCall /\ connect' = NoCall /\ pending' = <<>>
  \/ /\ UNCHANGED answers /\ browse' = NoBrowse
     /\ connect = NoCall /\ connect' = i /\ pending' # <<>>

\* The list dev->pending after a step, with the states of the services.
ListIsSound ==
  /\ pending' \in Seq(Svc) /\ svc' \in [Svc -> State] /\ Sound(pending', svc')
  /\ (ops = {} /\ pending' # <<>>) => svc'[pending'[1]] = "connecting"

\* The list stays, and the services of the device keep their states.
LEMMA ListKept ==
  ASSUME TypeOK, PendingIsSound, NEW S \in [Svc -> State],
         \A s \in Svc : svc[s] # "none" => S[s] # "none",
         \A s \in Svc : svc[s] = "connecting" => (S[s] = "connecting" \/ pending = <<>> \/ pending[1] # s),
         pending' = pending, svc' = S
  PROVE  ListIsSound
<1>1. pending \in Seq(Svc) /\ DOMAIN pending = 1..Len(pending) /\ \A j \in DOMAIN pending : pending[j] \in Svc
  BY DEF TypeOK
<1>2. pending # <<>> => 1 \in DOMAIN pending
  BY <1>1
<1>3. Sound(pending, S)
  BY <1>1 DEF Sound, PendingIsSound
<1>4. (ops = {} /\ pending # <<>>) => S[pending[1]] = "connecting"
  BY <1>1, <1>2 DEF PendingIsSound
<1> QED BY <1>1, <1>3, <1>4 DEF ListIsSound

\* connect_profiles answers its call, keeps it or starts a discovery for it.
LEMMA ConnectProfilesOutcome ==
  ASSUME TypeOK, PendingIsSound, NEW i \in CallId, NEW kind \in 0..NSvc,
         NEW S \in [Svc -> State], \A s \in Svc : svc[s] # "none" => S[s] = svc[s],
         NEW found \in BOOLEAN, NEW fresh \in BOOLEAN,
         ConnectProfiles(i, kind, S, found, fresh)
  PROVE  ListIsSound /\ Outcome(i)
<1> DEFINE p == PendingList(kind, S)
           busy == pending # <<>> \/ connect # NoCall
<1>1. p \in Seq(Svc) /\ Sound(p, S)
  BY PendingListFacts
<1> HIDE DEF p
<1>2. (pending' = pending /\ svc' = S) => ListIsSound
  BY ListKept
<1>3. ASSUME svc' = S, pending' = pending, connect' = connect, Answer({i}), browse' = NoBrowse
      PROVE  ListIsSound /\ Outcome(i)
  BY <1>2, <1>3 DEF Outcome
<1>4. ASSUME ~busy, svc' = S, pending' = pending, connect' = connect, browse' = i, UNCHANGED answers
      PROVE  ListIsSound /\ Outcome(i)
  BY <1>2, <1>4 DEF Outcome
<1>5. ASSUME ~busy, ConnectNext(p, S), browse' = NoBrowse,
             IF pending' = <<>> THEN Answer({i}) /\ UNCHANGED connect
                                ELSE connect' = i /\ UNCHANGED answers
      PROVE  ListIsSound /\ Outcome(i)
  <2>1. ListIsSound
    BY <1>1, <1>5, ConnectNextFacts DEF ListIsSound
  <2>2. Outcome(i)
    BY <1>5 DEF Outcome
  <2> QED BY <2>1, <2>2
<1> QED BY <1>3, <1>4, <1>5 DEF ConnectProfiles, p

\* Call i, new or with a discovery that ends, has an outcome.
LEMMA OutcomeStep ==
  ASSUME IInv, ops' = ops, UNCHANGED <<disconnect, disconnects, dropped, left>>,
         NEW N \in SUBSET CallId, N \cap DOMAIN calls = {}, DOMAIN calls' = DOMAIN calls \cup N,
         \A j \in DOMAIN calls : calls'[j] = calls[j],
         NEW i \in CallId, i \in DOMAIN calls', calls'[i] \in 0..NSvc,
         (browse = NoBrowse /\ N = {i}) \/ (browse = i /\ N = {}),
         ListIsSound, Outcome(i)
  PROVE  SlotInv' /\ AnswersInv' /\ answers' \in [CallId -> 0..2] /\ PendingIsSound'
<1> USE DEF IInv
<1>1. NoCall \notin CallId /\ NoBrowse \notin CallId /\ NoCall # NoBrowse
  BY BoundsAssumption DEF NoCall, NoBrowse, CallId
<1>2. /\ connect # NoCall => connect \in CallId
      /\ disconnect # NoCall => disconnect \in CallId
  BY <1>1, BoundsAssumption DEF TypeOK, CallId, NoCall
<1> DEFINE rest == (({connect, disconnect} \cup disconnects) \cap CallId) \cup dropped \cup left
<1>3. Owed \subseteq DOMAIN calls
  BY DEF AnswersInv
<1>4. rest \subseteq Owed /\ i \notin rest
  <2>1. rest \subseteq Owed
    BY DEF Owed, Held
  <2>2. CASE browse = NoBrowse /\ N = {i}
    BY <1>3, <2>1, <2>2
  <2>3. CASE browse = i /\ N = {}
    <3>1. i # NoCall /\ connect # i /\ disconnect # i
      BY <1>1, <2>3 DEF SlotInv
    <3>2. i \notin disconnects \cup dropped \cup left
      BY <2>3 DEF SlotInv
    <3> QED BY <2>1, <3>1, <3>2
  <2> QED BY <2>1, <2>2, <2>3
<1>5. Owed \cup N = rest \cup {i}
  <2>1. CASE browse = NoBrowse /\ N = {i}
    BY <1>1, <2>1 DEF Owed, Held
  <2>2. CASE browse = i /\ N = {}
    BY <2>2 DEF Owed, Held
  <2> QED BY <2>1, <2>2
<1>6. CASE Answer({i}) /\ browse' = NoBrowse /\ connect' = connect /\ (pending' = pending \/ connect = NoCall)
  <2>1. SlotInv'
    BY <1>6, SlotsCleared
  <2>2. Owed' = rest
    BY <1>1, <1>6 DEF Owed, Held
  <2>3. AnswersInv' /\ answers' \in [CallId -> 0..2]
    <3>1. {i} \in SUBSET (Owed \cup N) /\ Owed' = (Owed \cup N) \ {i} /\ Settles({i})
      BY <1>4, <1>5, <1>6, <2>2 DEF Settles
    <3> QED BY <3>1, AnswersStep
  <2>4. PendingIsSound'
    BY <1>1, <1>6 DEF ListIsSound, Sound, PendingIsSound, CallId
  <2> QED BY <2>1, <2>3, <2>4
<1>7. CASE UNCHANGED answers /\ browse' = i /\ connect = NoCall /\ connect' = NoCall /\ pending' = <<>>
  <2>1. SlotInv'
    <3>1. disconnect # NoCall => disconnect # i
      BY <1>2, <1>4
    <3>2. i \notin disconnects \cup dropped \cup left
      BY <1>4
    <3> QED BY <1>7, <3>1, <3>2 DEF SlotInv, CallId
  <2>2. Owed' = rest \cup {i}
    BY <1>1, <1>7 DEF Owed, Held
  <2>3. AnswersInv' /\ answers' \in [CallId -> 0..2]
    <3>1. {} \in SUBSET (Owed \cup N) /\ Owed' = (Owed \cup N) \ {} /\ Settles({})
      BY <1>5, <1>7, <2>2 DEF Settles
    <3> QED BY <3>1, AnswersStep
  <2>4. PendingIsSound'
    BY <1>7 DEF ListIsSound, Sound, PendingIsSound, CallId
  <2> QED BY <2>1, <2>3, <2>4
<1>8. CASE UNCHANGED answers /\ browse' = NoBrowse /\ connect = NoCall /\ connect' = i /\ pending' # <<>>
  <2>1. SlotInv'
    <3>1. disconnect # NoCall => disconnect # i
      BY <1>2, <1>4
    <3>2. i \notin disconnects \cup dropped \cup left
      BY <1>4
    <3>3. i # NoBrowse /\ disconnect # NoBrowse
      BY <1>1, BoundsAssumption DEF TypeOK, NoBrowse
    <3>4. i # disconnect
      BY <1>1, <3>1
    <3> QED BY <1>1, <1>8, <3>1, <3>2, <3>3, <3>4 DEF SlotInv, CallId
  <2>2. Owed' = rest \cup {i}
    BY <1>1, <1>8 DEF Owed, Held
  <2>3. AnswersInv' /\ answers' \in [CallId -> 0..2]
    <3>1. {} \in SUBSET (Owed \cup N) /\ Owed' = (Owed \cup N) \ {} /\ Settles({})
      BY <1>5, <1>8, <2>2 DEF Settles
    <3> QED BY <3>1, AnswersStep
  <2>4. PendingIsSound'
    BY <1>1, <1>8 DEF ListIsSound, Sound, PendingIsSound, CallId
  <2> QED BY <2>1, <2>3, <2>4
<1> QED BY <1>6, <1>7, <1>8 DEF Outcome

\* Connect and ConnectProfile keep the invariant.
LEMMA ConnectStep ==
  ASSUME IInv, NEW kind \in {All} \cup Here, Connect(kind)
  PROVE  IInv'
<1> USE DEF IInv
<1>0. kind \in 0..NSvc /\ kind \in -2..NSvc
  BY BoundsAssumption DEF All, Here, Svc
<1>1. /\ calls' \in Seq(-2..NSvc) /\ Len(calls') <= MaxCall
      /\ Me \in CallId /\ Me \notin DOMAIN calls /\ DOMAIN calls' = DOMAIN calls \cup {Me}
      /\ \A i \in DOMAIN calls : calls'[i] = calls[i]
      /\ calls'[Me] = kind
  BY <1>0, NewCallFacts DEF Connect
<1> HIDE DEF IInv
<1>2. CASE browse = NoBrowse
  <2>1. ListIsSound /\ Outcome(Me)
    <3>1. ConnectProfiles(Me, kind, svc, resolved, refreshed)
      BY <1>2 DEF Connect
    <3>2. svc \in [Svc -> State] /\ resolved \in BOOLEAN /\ refreshed \in BOOLEAN
      BY DEF IInv, TypeOK
    <3> QED BY <1>0, <1>1, <3>1, <3>2, ConnectProfilesOutcome DEF IInv
  <2>2. UNCHANGED <<disconnect, disconnects, dropped, left>> /\ ops' = ops
    BY DEF Connect
  <2>3. SlotInv' /\ AnswersInv' /\ answers' \in [CallId -> 0..2] /\ PendingIsSound'
    <3>1. {Me} \in SUBSET CallId /\ {Me} \cap DOMAIN calls = {} /\ Me \in DOMAIN calls'
      BY <1>1
    <3> QED BY <1>0, <1>1, <1>2, <2>1, <2>2, <3>1, OutcomeStep
  <2>4. browse' \in {NoBrowse, Me} /\ connect' \in {connect, Me}
    BY <2>1 DEF Outcome
  <2>5. TypeOK'
    <3>1. browse' \in -1..MaxCall /\ connect' \in 0..MaxCall
      BY <1>1, <2>4, BoundsAssumption DEF IInv, TypeOK, CallId, NoBrowse
    <3> QED BY <1>1, <2>1, <2>2, <2>3, <3>1 DEF IInv, TypeOK, Connect, ListIsSound, linkVars, foundVars
  <2> QED BY <2>3, <2>5 DEF IInv
<1>3. CASE browse # NoBrowse
  <2>1. /\ Answer({Me}) /\ UNCHANGED <<svcVars, connect, browse>>
        /\ UNCHANGED <<disconnect, disconnects, dropped, left, ops, linkVars, foundVars>>
    BY <1>3 DEF Connect
  <2>2. SlotInv'
    BY <1>1, <2>1, SlotsCleared DEF IInv
  <2>3. Owed' = Owed
    BY <2>1 DEF Owed, Held
  <2>4. AnswersInv' /\ answers' \in [CallId -> 0..2]
    <3>1. Me \notin Owed
      BY <1>1 DEF IInv, AnswersInv
    <3>2. {Me} \in SUBSET CallId /\ {Me} \in SUBSET (Owed \cup {Me}) /\ {Me} \cap DOMAIN calls = {}
          /\ Owed' = (Owed \cup {Me}) \ {Me} /\ Settles({Me}) /\ ops' = ops
      BY <1>1, <2>1, <2>3, <3>1 DEF Settles
    <3> QED BY <1>1, <3>2, AnswersStep DEF IInv
  <2>5. TypeOK'
    BY <1>1, <2>1, <2>4 DEF IInv, TypeOK, svcVars, linkVars, foundVars
  <2>6. PendingIsSound'
    BY <2>1 DEF IInv, PendingIsSound, svcVars, CallId
  <2> QED BY <2>2, <2>4, <2>5, <2>6 DEF IInv
<1> QED BY <1>2, <1>3

\* A discovery ends, with an error or with services for the call it was for.
LEMMA BrowseCompleteStep ==
  ASSUME IInv, BrowseComplete
  PROVE  IInv'
<1>0. /\ UNCHANGED <<disconnect, disconnects, calls, dropped, left, ops, linkVars>>
      /\ resolved' = TRUE /\ refreshed' = (refreshed \/ link) /\ general' = general
  BY DEF BrowseComplete
<1>1. browse \in {NoCall} \cup CallId /\ NoCall \notin CallId /\ NoBrowse \notin CallId
  <2>1. browse # NoBrowse
    BY DEF BrowseComplete
  <2> QED BY <2>1, BoundsAssumption DEF IInv, TypeOK, NoCall, NoBrowse, CallId
<1>2. refreshed' \in BOOLEAN
  BY <1>0
<1>3. ASSUME ListIsSound, SlotInv', AnswersInv', answers' \in [CallId -> 0..2], PendingIsSound',
             connect' \in {connect, browse, NoCall}, browse' \in {browse, NoBrowse}
      PROVE  IInv'
  <2>1. browse' \in -1..MaxCall /\ connect' \in 0..MaxCall
    BY <1>1, <1>3, BoundsAssumption DEF IInv, TypeOK, CallId, NoBrowse, NoCall
  <2>2. TypeOK'
    BY <1>0, <1>2, <1>3, <2>1 DEF IInv, TypeOK, ListIsSound, linkVars
  <2> QED BY <1>3, <2>2 DEF IInv
<1>4. CASE browse' = NoBrowse /\ UNCHANGED <<svcVars, connect>> /\ Answer({browse} \ {NoCall})
  <2>1. SlotInv'
    BY <1>0, <1>4, SlotsCleared DEF IInv
  <2>2. Owed' = Owed \ ({browse} \ {NoCall}) /\ {browse} \ {NoCall} \subseteq Owed
    <3>1. /\ browse \in CallId => browse \notin disconnects \cup dropped \cup left
          /\ browse \in CallId => browse # connect /\ browse # disconnect
      BY <1>1 DEF IInv, SlotInv
    <3> QED BY <1>0, <1>1, <1>4, <3>1 DEF Owed, Held
  <2>3. AnswersInv' /\ answers' \in [CallId -> 0..2]
    <3> DEFINE I == {browse} \ {NoCall}
    <3>1. {} \in SUBSET CallId /\ I \in SUBSET (Owed \cup {}) /\ {} \cap DOMAIN calls = {}
          /\ Owed' = (Owed \cup {}) \ I /\ Settles(I) /\ ops' = ops /\ DOMAIN calls' = DOMAIN calls \cup {}
      BY <1>0, <1>4, <2>2 DEF Settles
    <3> QED BY <3>1, AnswersStep DEF IInv
  <2>4. ListIsSound
    BY <1>4, ListKept DEF IInv, TypeOK, svcVars
  <2>5. PendingIsSound'
    BY <1>0, <1>1, <1>4, <2>4 DEF IInv, PendingIsSound, svcVars, CallId
  <2> QED BY <1>3, <1>4, <2>1, <2>3, <2>4, <2>5
<1>5. ASSUME NEW F \in SUBSET {s \in Svc : svc[s] = "none"},
             LET S == [s \in Svc |-> IF s \in F THEN "disconnected" ELSE svc[s]] IN
               IF browse = NoCall
                 THEN svc' = S /\ browse' = NoBrowse /\ UNCHANGED <<pending, connect, answers>>
                 ELSE ConnectProfiles(browse, calls[browse], S, TRUE, refreshed \/ link)
      PROVE  IInv'
  <2> DEFINE S == [s \in Svc |-> IF s \in F THEN "disconnected" ELSE svc[s]]
  <2>1. S \in [Svc -> State] /\ \A s \in Svc : svc[s] # "none" => S[s] = svc[s]
    BY DEF IInv, TypeOK, State
  <2>2. CASE browse = NoCall
    <3>1. svc' = S /\ browse' = NoBrowse /\ UNCHANGED <<pending, connect, answers>>
      BY <1>5, <2>2
    <3> HIDE DEF S
    <3>2. SlotInv'
      BY <1>0, <3>1, SlotsCleared DEF IInv
    <3>3. Owed' = Owed
      BY <1>0, <1>1, <2>2, <3>1 DEF Owed, Held
    <3>4. AnswersInv' /\ answers' \in [CallId -> 0..2]
      BY <1>0, <3>1, <3>3 DEF IInv, AnswersInv, TypeOK
    <3>5. ListIsSound
      BY <2>1, <3>1, ListKept DEF IInv
    <3>6. PendingIsSound'
      BY <1>0, <1>1, <3>1, <3>5 DEF IInv, PendingIsSound, ListIsSound, Sound, CallId
    <3> QED BY <1>3, <3>1, <3>2, <3>4, <3>5, <3>6
  <2>3. CASE browse # NoCall
    <3>1. ConnectProfiles(browse, calls[browse], S, TRUE, refreshed \/ link)
      BY <1>5, <2>3
    <3> HIDE DEF S
    <3>2. browse \in CallId /\ browse \in DOMAIN calls /\ calls[browse] \in 0..NSvc
      BY <1>1, <2>3 DEF IInv, SlotInv
    <3>3. TRUE \in BOOLEAN /\ (refreshed \/ link) \in BOOLEAN
      OBVIOUS
    <3>4. ListIsSound /\ Outcome(browse)
      BY <2>1, <3>1, <3>2, <3>3, ConnectProfilesOutcome DEF IInv
    <3>5. SlotInv' /\ AnswersInv' /\ answers' \in [CallId -> 0..2] /\ PendingIsSound'
      <4>1. {} \in SUBSET CallId /\ {} \cap DOMAIN calls = {} /\ DOMAIN calls' = DOMAIN calls \cup {}
            /\ \A j \in DOMAIN calls : calls'[j] = calls[j]
        BY <1>0
      <4>2. browse \in DOMAIN calls' /\ calls'[browse] \in 0..NSvc
        BY <1>0, <3>2
      <4> QED BY <1>0, <3>2, <3>4, <4>1, <4>2, OutcomeStep
    <3>6. connect' \in {connect, browse, NoCall} /\ browse' \in {browse, NoBrowse}
      BY <3>4 DEF Outcome
    <3> QED BY <1>3, <3>4, <3>5, <3>6
  <2> QED BY <2>2, <2>3
<1> QED BY <1>4, <1>5 DEF BrowseComplete

-----------------------------------------------------------------------------
(* The ends of services                                                     *)

\* What "done" of device_profile_connected does to the calls and to the list.
LEMMA ProfileDoneFacts ==
  ASSUME IInv, NEW ok \in BOOLEAN, NEW fine \in BOOLEAN, ProfileDone(ok, fine)
  PROVE  /\ pending' = <<>> /\ connect' = NoCall /\ general' \in BOOLEAN
         /\ Settles({connect} \ {NoCall})
         /\ browse' \in {browse, NoCall} /\ (browse' # browse => browse = NoBrowse)
<1>1. pending' = <<>> /\ connect' = NoCall /\ general' \in BOOLEAN
  BY DEF ProfileDone
<1>2. Settles({connect} \ {NoCall})
  <2>1. CASE connect = NoCall
    <3>1. {connect} \ {NoCall} = {} /\ UNCHANGED answers
      BY <2>1 DEF ProfileDone
    <3> QED BY <3>1 DEF Settles
  <2>2. CASE connect # NoCall
    <3>1. {connect} \ {NoCall} = {connect} /\ Answer({connect})
      BY <2>2 DEF ProfileDone
    <3> QED BY <3>1 DEF Settles
  <2> QED BY <2>1, <2>2
<1>3. browse' \in {browse, NoCall} /\ (browse' # browse => browse = NoBrowse)
  BY DEF ProfileDone
<1> QED BY <1>1, <1>2, <1>3

\* After "done" everything is in order, whatever became of the services.
LEMMA DoneStep ==
  ASSUME IInv, svc' \in [Svc -> State], NEW ok \in BOOLEAN, NEW fine \in BOOLEAN, ProfileDone(ok, fine),
         UNCHANGED <<disconnect, disconnects, calls, dropped, left, ops, linkVars, resolved, refreshed>>
  PROVE  IInv'
<1>1. /\ pending' = <<>> /\ connect' = NoCall /\ general' \in BOOLEAN
      /\ Settles({connect} \ {NoCall})
      /\ browse' \in {browse, NoCall} /\ (browse' # browse => browse = NoBrowse)
  BY ProfileDoneFacts
<1>2. NoCall \notin CallId /\ NoBrowse \notin CallId /\ (connect # NoCall => connect \in CallId)
  BY BoundsAssumption DEF IInv, TypeOK, NoCall, NoBrowse, CallId
<1>3. SlotInv'
  BY <1>1, SlotsCleared DEF IInv
<1>4. Owed' = Owed \ ({connect} \ {NoCall}) /\ {connect} \ {NoCall} \subseteq Owed
  <2>1. connect # NoCall => connect \notin {disconnect, browse} \cup disconnects \cup dropped \cup left
    BY DEF IInv, SlotInv
  <2>2. browse' \in CallId <=> browse \in CallId
    BY <1>1, <1>2
  <2>3. browse' \in CallId => browse' = browse
    BY <1>1, <1>2
  <2>4. CASE connect = NoCall
    BY <1>1, <1>2, <2>2, <2>3, <2>4 DEF Owed, Held
  <2>5. CASE connect # NoCall
    <3>1. connect \in Owed
      BY <1>2, <2>5 DEF Owed, Held
    <3>2. Owed' = Owed \ {connect}
      BY <1>1, <1>2, <2>1, <2>2, <2>3, <2>5 DEF Owed, Held
    <3> QED BY <2>5, <3>1, <3>2
  <2> QED BY <2>4, <2>5
<1>5. AnswersInv' /\ answers' \in [CallId -> 0..2]
  <2> DEFINE I == {connect} \ {NoCall}
  <2>1. {} \in SUBSET CallId /\ I \in SUBSET (Owed \cup {}) /\ {} \cap DOMAIN calls = {}
        /\ Owed' = (Owed \cup {}) \ I /\ Settles(I) /\ ops' = ops /\ DOMAIN calls' = DOMAIN calls \cup {}
    BY <1>1, <1>4
  <2> QED BY <2>1, AnswersStep DEF IInv
<1>6. TypeOK'
  <2>1. connect' \in 0..MaxCall /\ browse' \in -1..MaxCall
    BY <1>1, BoundsAssumption DEF IInv, TypeOK, NoCall
  <2> QED BY <1>1, <1>5, <2>1 DEF IInv, TypeOK, linkVars
<1>7. PendingIsSound'
  BY <1>1 DEF PendingIsSound
<1> QED BY <1>3, <1>5, <1>6, <1>7 DEF IInv

\* The list moves on for the same call.
LEMMA ListStep ==
  ASSUME IInv, ListIsSound, pending # <<>>, pending' # <<>>,
         UNCHANGED <<connect, answers, browse, general, disconnect, disconnects, calls, dropped, left,
                     ops, linkVars, resolved, refreshed>>
  PROVE  IInv'
<1>1. SlotInv' /\ AnswersInv'
  BY CallsKept DEF IInv, callVars
<1>2. TypeOK'
  BY DEF IInv, TypeOK, ListIsSound, linkVars
<1>3. PendingIsSound'
  BY DEF IInv, PendingIsSound, ListIsSound, Sound, CallId
<1> QED BY <1>1, <1>2, <1>3 DEF IInv

\* device_profile_connected moves the list on or answers the Connect.
LEMMA ProfileConnectedStep ==
  ASSUME IInv, NEW s \in Svc, NEW t \in {"connected", "disconnected"},
         NEW ok \in BOOLEAN, NEW down \in BOOLEAN,
         ProfileConnected(s, [svc EXCEPT ![s] = t], ok, down),
         UNCHANGED <<disconnect, disconnects, calls, dropped, left, ops, linkVars, resolved, refreshed>>
  PROVE  IInv'
<1> DEFINE S == [svc EXCEPT ![s] = t]
           fine == ok \/ \E e \in Svc : S[e] = "connected"
<1>1. S \in [Svc -> State] /\ S[s] = t /\ t # "none" /\ \A e \in Svc \ {s} : S[e] = svc[e]
  BY DEF IInv, TypeOK, State
<1>2. fine \in BOOLEAN
  OBVIOUS
<1>3. /\ Others(s) \in Seq(Svc) /\ Sound(Others(s), S)
      /\ (pending # <<>> /\ pending[1] # s) => Others(s) # <<>> /\ Others(s)[1] = pending[1]
  BY <1>1, OthersFacts DEF IInv
<1>4. ASSUME svc' = S, ProfileDone(ok, fine) PROVE IInv'
  BY <1>1, <1>2, <1>4, DoneStep
<1>5. ASSUME pending # <<>>, pending[1] # s, pending' = Others(s), svc' = S,
             UNCHANGED <<connect, answers, browse, general>>
      PROVE  IInv'
  <2>1. 1 \in DOMAIN pending /\ pending[1] \in Svc
    BY <1>5 DEF IInv, TypeOK
  <2>2. ops = {} => S[pending[1]] = "connecting"
    BY <1>1, <1>5, <2>1 DEF IInv, PendingIsSound
  <2>3. ListIsSound
    BY <1>1, <1>3, <1>5, <2>2 DEF ListIsSound
  <2>4. pending' # <<>>
    BY <1>3, <1>5
  <2> QED BY <1>5, <2>3, <2>4, ListStep
<1>6. ASSUME pending # <<>>, ConnectNext(Others(s), S), pending' # <<>>,
             UNCHANGED <<connect, answers, browse, general>>
      PROVE  IInv'
  <2>1. ListIsSound
    BY <1>1, <1>3, <1>6, ConnectNextFacts DEF ListIsSound
  <2> QED BY <1>6, <2>1, ListStep
<1> HIDE DEF S, fine
<1> QED BY <1>4, <1>5, <1>6 DEF ProfileConnected, S, fine

\* btd_service_connecting_complete keeps the invariant.
LEMMA ConnectingCompleteStep ==
  ASSUME IInv, NEW s \in Svc, ConnectingComplete(s)
  PROVE  IInv'
<1>0. UNCHANGED <<disconnect, disconnects, calls, dropped, left, ops, linkVars, resolved, refreshed>>
  BY DEF ConnectingComplete
<1>1. PICK ok \in BOOLEAN, down \in BOOLEAN :
         \/ ProfileConnected(s, [svc EXCEPT ![s] = IF ok THEN "connected" ELSE "disconnected"], ok, down)
         \/ /\ svc[s] = "disconnected"
            /\ svc' = [svc EXCEPT ![s] = "connected"]
            /\ UNCHANGED <<pending, connect, answers, browse, general>>
  BY DEF ConnectingComplete
<1>2. CASE ProfileConnected(s, [svc EXCEPT ![s] = IF ok THEN "connected" ELSE "disconnected"], ok, down)
  <2>1. (IF ok THEN "connected" ELSE "disconnected") \in {"connected", "disconnected"}
    OBVIOUS
  <2> QED BY <1>0, <1>2, <2>1, ProfileConnectedStep
<1>3. CASE /\ svc[s] = "disconnected"
           /\ svc' = [svc EXCEPT ![s] = "connected"]
           /\ UNCHANGED <<pending, connect, answers, browse, general>>
  <2>1. SlotInv' /\ AnswersInv'
    BY <1>0, <1>3, CallsKept DEF IInv, callVars
  <2>2. ListIsSound
    <3> DEFINE S == [svc EXCEPT ![s] = "connected"]
    <3>1. /\ S \in [Svc -> State] /\ \A e \in Svc : svc[e] # "none" => S[e] # "none"
          /\ \A e \in Svc : svc[e] = "connecting" => S[e] = "connecting"
      BY <1>3 DEF IInv, TypeOK, State
    <3> HIDE DEF S
    <3> QED BY <1>3, <3>1, ListKept DEF IInv, S
  <2>3. TypeOK'
    BY <1>0, <1>3, <2>2 DEF IInv, TypeOK, ListIsSound, linkVars
  <2>4. PendingIsSound'
    BY <1>0, <1>3, <2>2 DEF IInv, PendingIsSound, ListIsSound, Sound, CallId
  <2> QED BY <2>1, <2>3, <2>4 DEF IInv
<1> QED BY <1>1, <1>2, <1>3

\* dev->disconnect is answered and cleared when a service's end asks for it.
LEMMA DisconnectAnswered ==
  ASSUME IInv, NEW c \in BOOLEAN,
         IF c /\ disconnect # NoCall THEN Answer({disconnect}) /\ disconnect' = NoCall
                                     ELSE UNCHANGED <<answers, disconnect>>,
         UNCHANGED <<connect, disconnects, browse, calls, dropped, left, ops>>
  PROVE  SlotInv' /\ AnswersInv' /\ answers' \in [CallId -> 0..2] /\ disconnect' \in 0..MaxCall
<1>1. CASE c /\ disconnect # NoCall
  <2>1. Answer({disconnect}) /\ disconnect' = NoCall
    BY <1>1
  <2>2. disconnect \in CallId /\ NoCall \notin CallId /\ NoCall \in 0..MaxCall
    BY <1>1, BoundsAssumption DEF IInv, TypeOK, CallId, NoCall
  <2>3. SlotInv'
    BY <2>1, SlotsCleared DEF IInv
  <2>4. Owed' = Owed \ {disconnect} /\ disconnect \in Owed
    <3>1. disconnect \notin {browse} \cup disconnects \cup dropped \cup left /\ connect # disconnect
      BY <1>1 DEF IInv, SlotInv
    <3> QED BY <2>1, <2>2, <3>1 DEF Owed, Held
  <2>5. {} \in SUBSET CallId /\ {disconnect} \in SUBSET (Owed \cup {}) /\ {} \cap DOMAIN calls = {}
        /\ Owed' = (Owed \cup {}) \ {disconnect} /\ Settles({disconnect}) /\ ops' = ops
        /\ DOMAIN calls' = DOMAIN calls \cup {}
    BY <2>1, <2>4 DEF Settles
  <2>6. AnswersInv' /\ answers' \in [CallId -> 0..2]
    BY <2>5, AnswersStep DEF IInv
  <2> QED BY <2>1, <2>2, <2>3, <2>6
<1>2. CASE ~(c /\ disconnect # NoCall)
  <2>1. UNCHANGED <<answers, disconnect>>
    BY <1>2
  <2> QED BY <2>1, CallsKept DEF IInv, TypeOK, callVars
<1> QED BY <1>1, <1>2

\* btd_service_disconnecting_complete keeps the invariant.
LEMMA DisconnectingCompleteStep ==
  ASSUME IInv, NEW s \in Svc, DisconnectingComplete(s)
  PROVE  IInv'
<1>0. UNCHANGED <<pending, connect, disconnects, browse, calls, dropped, left, ops, linkVars, foundVars>>
  BY DEF DisconnectingComplete
<1>1. PICK t \in {"disconnected", "connected"} : svc' = [svc EXCEPT ![s] = t]
  BY DEF DisconnectingComplete
<1>2. SlotInv' /\ AnswersInv' /\ answers' \in [CallId -> 0..2] /\ disconnect' \in 0..MaxCall
  <2>1. IF (svc[s] = "disconnecting") /\ disconnect # NoCall
          THEN Answer({disconnect}) /\ disconnect' = NoCall ELSE UNCHANGED <<answers, disconnect>>
    BY DEF DisconnectingComplete
  <2>2. (svc[s] = "disconnecting") \in BOOLEAN
    OBVIOUS
  <2> QED BY <1>0, <2>1, <2>2, DisconnectAnswered
<1>3. ListIsSound
  <2> DEFINE S == [svc EXCEPT ![s] = t]
  <2>1. /\ S \in [Svc -> State] /\ \A e \in Svc : svc[e] # "none" => S[e] # "none"
        /\ \A e \in Svc : svc[e] = "connecting" => S[e] = "connecting"
    BY DEF IInv, TypeOK, State, DisconnectingComplete
  <2> HIDE DEF S
  <2> QED BY <1>0, <1>1, <2>1, ListKept DEF IInv, S
<1>4. TypeOK'
  BY <1>0, <1>2, <1>3 DEF IInv, TypeOK, ListIsSound, linkVars, foundVars
<1>5. PendingIsSound'
  BY <1>0, <1>3 DEF IInv, PendingIsSound, ListIsSound, Sound, CallId
<1> QED BY <1>2, <1>4, <1>5 DEF IInv

\* A service that the remote side connects keeps the invariant.
LEMMA IncomingStep ==
  ASSUME IInv, NEW s \in Svc, Incoming(s)
  PROVE  IInv'
<1>0. UNCHANGED <<pending, callVars, ops, linkVars, foundVars>>
  BY DEF Incoming
<1>1. SlotInv' /\ AnswersInv'
  BY <1>0, CallsKept DEF IInv
<1>2. ListIsSound
  <2> DEFINE S == [svc EXCEPT ![s] = "connecting"]
  <2>1. /\ S \in [Svc -> State] /\ \A e \in Svc : svc[e] # "none" => S[e] # "none"
        /\ \A e \in Svc : svc[e] = "connecting" => S[e] = "connecting"
    BY DEF IInv, TypeOK, State
  <2>2. svc' = S
    BY DEF Incoming
  <2> HIDE DEF S
  <2> QED BY <1>0, <2>1, <2>2, ListKept DEF IInv
<1>3. TypeOK'
  BY <1>0, <1>2 DEF IInv, TypeOK, ListIsSound, callVars, linkVars, foundVars
<1>4. PendingIsSound'
  BY <1>0, <1>2 DEF IInv, PendingIsSound, ListIsSound, Sound, CallId, callVars
<1> QED BY <1>1, <1>3, <1>4 DEF IInv

-----------------------------------------------------------------------------
(* Disconnecting                                                            *)

\* Which calls Disconnect answers: the Connect in progress, DisconnectProfile
\* when a service ends at once (D), and itself without a link (M).
LEMMA DisconnectCalls ==
  ASSUME IInv, NewCall(ADisconnect), connect' = NoCall, browse' = NoBrowse,
         dropped' = dropped \cup ({browse} \ {NoBrowse, NoCall}), UNCHANGED <<left, ops>>,
         disconnects' = IF link THEN disconnects \cup {Me} ELSE disconnects,
         NEW D \in SUBSET ({disconnect} \ {NoCall}),
         disconnect' = IF D = {} THEN disconnect ELSE NoCall,
         Answer(Cancelled \cup D \cup (IF link THEN {} ELSE {Me}))
  PROVE  /\ SlotInv' /\ AnswersInv' /\ answers' \in [CallId -> 0..2]
         /\ calls' \in Seq(-2..NSvc) /\ Len(calls') <= MaxCall
         /\ connect' \in 0..MaxCall /\ browse' \in -1..MaxCall /\ disconnect' \in 0..MaxCall
         /\ disconnects' \subseteq CallId /\ dropped' \subseteq CallId
<1>0. ADisconnect \in -2..NSvc
  BY BoundsAssumption DEF ADisconnect
<1>1. /\ calls' \in Seq(-2..NSvc) /\ Len(calls') <= MaxCall
      /\ Me \in CallId /\ Me \notin DOMAIN calls /\ DOMAIN calls' = DOMAIN calls \cup {Me}
      /\ \A i \in DOMAIN calls : calls'[i] = calls[i]
  BY <1>0, NewCallFacts DEF IInv
<1>2. /\ NoCall \notin CallId /\ NoBrowse \notin CallId /\ NoCall # NoBrowse
      /\ (connect # NoCall => connect \in CallId) /\ (disconnect # NoCall => disconnect \in CallId)
      /\ browse \in {NoCall, NoBrowse} \cup CallId
  BY BoundsAssumption DEF IInv, TypeOK, NoCall, NoBrowse, CallId
<1>3. NoCall \in 0..MaxCall /\ NoBrowse \in -1..MaxCall
  BY BoundsAssumption DEF NoCall, NoBrowse
<1>4. /\ Owed \subseteq DOMAIN calls /\ Me \notin Owed
      /\ disconnects \subseteq CallId /\ dropped \subseteq CallId /\ left \subseteq CallId
  BY <1>1 DEF IInv, AnswersInv, TypeOK
<1>5. /\ connect # NoCall => connect \notin {disconnect, browse} \cup disconnects \cup dropped \cup left
      /\ disconnect # NoCall => disconnect \notin {browse} \cup disconnects \cup dropped \cup left
      /\ browse \in CallId => browse \notin disconnects \cup dropped \cup left
      /\ disconnects \cap (dropped \cup left) = {}
  BY DEF IInv, SlotInv
<1>6. dropped' = dropped \cup ({browse} \cap CallId)
  BY <1>2
<1>7. Me \notin {connect, disconnect, browse} \cup disconnects \cup dropped \cup left
  BY <1>1, <1>4 DEF Owed, Held
<1>8. disconnect' # NoCall => disconnect' = disconnect
  BY <1>2
<1>9. SlotInv'
  <2>1. disconnect' # NoCall => disconnect' \notin {browse'} \cup disconnects' \cup dropped' \cup left'
    <3> SUFFICES ASSUME disconnect' # NoCall
                 PROVE  disconnect' \notin {browse'} \cup disconnects' \cup dropped' \cup left'
      OBVIOUS
    <3>1. disconnect' = disconnect /\ disconnect \in CallId /\ disconnect # Me
      BY <1>2, <1>7, <1>8
    <3>2. disconnect \notin {browse} \cup disconnects \cup dropped \cup left /\ disconnect # NoBrowse
      BY <1>2, <1>5, <3>1
    <3> QED BY <1>6, <3>1, <3>2
  <2>2. disconnects' \cap (dropped' \cup left') = {}
    <3>1. disconnects' \subseteq disconnects \cup {Me}
      OBVIOUS
    <3> QED BY <1>5, <1>6, <1>7, <3>1
  <2>3. connect' = NoCall /\ browse' \notin CallId
    BY <1>2
  <2> QED BY <2>1, <2>2, <2>3 DEF SlotInv, CallId
<1>10. DEFINE I == Cancelled \cup D \cup (IF link THEN {} ELSE {Me})
<1>11. I \subseteq Owed \cup {Me}
  <2>1. Cancelled \subseteq Owed
    BY <1>2 DEF Cancelled, Owed, Held
  <2>2. D \subseteq Owed
    BY <1>2 DEF Owed, Held
  <2> QED BY <2>1, <2>2
<1>12. Owed' = (Owed \cup {Me}) \ I
  <2>1. D = {} \/ (D = {disconnect} /\ disconnect # NoCall)
    <3>1. \A d \in D : d = disconnect /\ d # NoCall
      OBVIOUS
    <3> QED BY <3>1, Zenon
  <2>2. Owed' = (({disconnect'} \cup disconnects') \cap CallId) \cup dropped' \cup left
    BY <1>2 DEF Owed, Held
  <2>3. /\ ({disconnect'} \cap CallId) = ({disconnect} \cap CallId) \ D
    BY <1>2, <2>1
  <2>4. disconnects' \cap CallId = (disconnects \cup {Me}) \ (IF link THEN {} ELSE {Me})
    BY <1>1, <1>4, <1>7
  <2> DEFINE X == {disconnect} \cap CallId
             Y == disconnects \cup {Me}
             Z == dropped \cup ({browse} \cap CallId) \cup left
             L == IF link THEN {} ELSE {Me}
  <2>5. Owed' = (X \ D) \cup (Y \ L) \cup Z
    BY <1>6, <2>2, <2>3, <2>4
  <2>6. Owed \cup {Me} = Cancelled \cup X \cup Y \cup Z
    BY <1>2, <1>4 DEF Owed, Held, Cancelled
  <2>7. /\ Cancelled \cap (X \cup Y \cup Z) = {}
        /\ D \cap (Y \cup Z) = {} /\ L \cap (X \cup Z) = {}
    <3>1. Cancelled \cap (X \cup Y \cup Z) = {}
      BY <1>2, <1>5, <1>7 DEF Cancelled
    <3>2. D \cap (Y \cup Z) = {}
      BY <1>2, <1>5, <1>7, <2>1
    <3>3. L \cap (X \cup Z) = {}
      BY <1>7
    <3> QED BY <3>1, <3>2, <3>3
  <2> HIDE DEF X, Y, Z, L
  <2>8. I = Cancelled \cup D \cup L
    BY DEF L, I
  <2> HIDE DEF I
  <2> QED BY <2>5, <2>6, <2>7, <2>8
<1>13. AnswersInv' /\ answers' \in [CallId -> 0..2]
  <2>1. {Me} \in SUBSET CallId /\ I \in SUBSET (Owed \cup {Me}) /\ {Me} \cap DOMAIN calls = {} /\ Settles(I)
    BY <1>1, <1>11 DEF Settles
  <2> HIDE DEF I
  <2> QED BY <1>1, <1>12, <2>1, AnswersStep DEF IInv
<1>14. /\ connect' \in 0..MaxCall /\ browse' \in -1..MaxCall /\ disconnect' \in 0..MaxCall
       /\ disconnects' \subseteq CallId /\ dropped' \subseteq CallId
  BY <1>1, <1>3, <1>4, <1>6 DEF IInv, TypeOK
<1> QED BY <1>1, <1>9, <1>13, <1>14

\* Disconnect keeps the invariant.
LEMMA DisconnectStep ==
  ASSUME IInv, TimerInv, Disconnect
  PROVE  IInv'
<1>0. /\ NewCall(ADisconnect) /\ connect' = NoCall /\ browse' = NoBrowse
      /\ dropped' = dropped \cup ({browse} \ {NoBrowse, NoCall})
      /\ disconnects' = IF link THEN disconnects \cup {Me} ELSE disconnects
      /\ UNCHANGED <<left, ops, link, leaving, foundVars>>
  BY DEF Disconnect
<1>1. NoBrowse \notin CallId
  BY BoundsAssumption DEF NoBrowse, CallId
<1>2. ASSUME /\ SlotInv' /\ AnswersInv' /\ answers' \in [CallId -> 0..2]
             /\ calls' \in Seq(-2..NSvc) /\ Len(calls') <= MaxCall
             /\ connect' \in 0..MaxCall /\ browse' \in -1..MaxCall /\ disconnect' \in 0..MaxCall
             /\ disconnects' \subseteq CallId /\ dropped' \subseteq CallId,
             timer' \in BOOLEAN, ListIsSound
      PROVE  IInv'
  <2>1. TypeOK'
    BY <1>0, <1>2 DEF IInv, TypeOK, ListIsSound, foundVars
  <2>2. PendingIsSound'
    BY <1>0, <1>1, <1>2 DEF PendingIsSound, ListIsSound, Sound, CallId
  <2> QED BY <1>2, <2>1, <2>2 DEF IInv
<1>3. CASE timer
  <2>1. UNCHANGED <<svcVars, timer, disconnect>> /\ Answer(Cancelled)
    BY <1>3 DEF Disconnect
  <2>2. ListIsSound /\ timer' \in BOOLEAN
    BY <2>1, ListKept DEF IInv, TypeOK, svcVars
  <2>3. /\ {} \in SUBSET ({disconnect} \ {NoCall})
        /\ disconnect' = IF {} = {} THEN disconnect ELSE NoCall
        /\ Answer(Cancelled \cup {} \cup (IF link THEN {} ELSE {Me}))
    <3>1. Cancelled \cup {} \cup (IF link THEN {} ELSE {Me}) = Cancelled
      BY <1>3 DEF TimerInv
    <3> QED BY <2>1, <3>1
  <2> QED BY <1>0, <1>2, <2>2, <2>3, DisconnectCalls
<1>4. CASE ~timer
  <2>1. PICK S \in [Svc -> State] :
          /\ svc' = S /\ pending' = <<>> /\ timer' = link
          /\ LET ended == {s \in Svc : Up(s) /\ S[s] # "disconnecting"}
                 told == IF ended = {} THEN {} ELSE {disconnect} \ {NoCall}
             IN /\ Answer(Cancelled \cup told \cup (IF link THEN {} ELSE {Me}))
                /\ disconnect' = IF ended = {} THEN disconnect ELSE NoCall
    BY <1>4 DEF Disconnect
  <2> DEFINE ended == {s \in Svc : Up(s) /\ S[s] # "disconnecting"}
             told == IF ended = {} THEN {} ELSE {disconnect} \ {NoCall}
  <2>2. ListIsSound
    BY <2>1 DEF ListIsSound, Sound
  <2>3. timer' \in BOOLEAN
    BY <2>1 DEF IInv, TypeOK
  <2>4. /\ told \in SUBSET ({disconnect} \ {NoCall})
        /\ disconnect' = IF told = {} THEN disconnect ELSE NoCall
        /\ Answer(Cancelled \cup told \cup (IF link THEN {} ELSE {Me}))
    BY <2>1
  <2> HIDE DEF told
  <2> QED BY <1>0, <1>2, <2>2, <2>3, <2>4, DisconnectCalls
<1> QED BY <1>3, <1>4

\* DisconnectProfile keeps the invariant.
LEMMA DisconnectProfileStep ==
  ASSUME IInv, NEW s \in Svc, DisconnectProfile(s)
  PROVE  IInv'
<1>0. /\ "disconnectProfile" \in ops /\ NewCall(ADisconnectProfile)
      /\ UNCHANGED <<pending, connect, disconnects, browse, dropped, left, ops, linkVars, foundVars>>
  BY DEF DisconnectProfile
<1>1. ADisconnectProfile \in -2..NSvc
  BY BoundsAssumption DEF ADisconnectProfile
<1>2. /\ calls' \in Seq(-2..NSvc) /\ Len(calls') <= MaxCall
      /\ Me \in CallId /\ Me \notin DOMAIN calls /\ DOMAIN calls' = DOMAIN calls \cup {Me}
      /\ \A i \in DOMAIN calls : calls'[i] = calls[i]
  BY <1>0, <1>1, NewCallFacts DEF IInv
<1>3. /\ NoCall \notin CallId /\ NoBrowse \notin CallId
      /\ (connect # NoCall => connect \in CallId) /\ (disconnect # NoCall => disconnect \in CallId)
  BY BoundsAssumption DEF IInv, TypeOK, NoCall, NoBrowse, CallId
<1>4. /\ Owed \subseteq DOMAIN calls /\ Me \notin Owed
      /\ Me \notin {connect, disconnect, browse} \cup disconnects \cup dropped \cup left
  <2>1. Owed \subseteq DOMAIN calls /\ Me \notin Owed
    BY <1>2 DEF IInv, AnswersInv
  <2> QED BY <1>2, <2>1 DEF Owed, Held
<1>5. ASSUME svc' \in [Svc -> State], \A e \in Svc : svc[e] # "none" => svc'[e] # "none",
             SlotInv', AnswersInv', answers' \in [CallId -> 0..2], disconnect' \in 0..MaxCall
      PROVE  IInv'
  <2>1. TypeOK'
    BY <1>0, <1>2, <1>5 DEF IInv, TypeOK, linkVars, foundVars
  <2>2. Sound(pending', svc')
    <3>1. \A j \in DOMAIN pending : pending[j] \in Svc
      BY DEF IInv, TypeOK
    <3> QED BY <1>0, <1>5, <3>1 DEF IInv, PendingIsSound, Sound
  <2>3. PendingIsSound'
    BY <1>0, <2>2 DEF IInv, PendingIsSound, Sound, CallId
  <2> QED BY <1>5, <2>1, <2>3 DEF IInv
<1>6. ASSUME Answer({Me}), UNCHANGED disconnect
      PROVE  SlotInv' /\ AnswersInv' /\ answers' \in [CallId -> 0..2] /\ disconnect' \in 0..MaxCall
  <2>1. SlotInv'
    BY <1>0, <1>2, <1>6, SlotsCleared DEF IInv
  <2>2. Owed' = Owed
    BY <1>0, <1>6 DEF Owed, Held
  <2>3. {Me} \in SUBSET CallId /\ {Me} \in SUBSET (Owed \cup {Me}) /\ {Me} \cap DOMAIN calls = {}
        /\ Owed' = (Owed \cup {Me}) \ {Me} /\ Settles({Me}) /\ ops' = ops
    BY <1>0, <1>2, <1>4, <1>6, <2>2 DEF Settles
  <2>4. AnswersInv' /\ answers' \in [CallId -> 0..2]
    BY <1>2, <2>3, AnswersStep DEF IInv
  <2> QED BY <1>6, <2>1, <2>4 DEF IInv, TypeOK
<1>7. ASSUME NEW t \in State \ {"none"}, svc' = [svc EXCEPT ![s] = t]
      PROVE  svc' \in [Svc -> State] /\ \A e \in Svc : svc[e] # "none" => svc'[e] # "none"
  BY <1>7 DEF IInv, TypeOK
<1>8. CASE Answer({Me}) /\ UNCHANGED <<svc, disconnect>>
  BY <1>5, <1>6, <1>8 DEF IInv, TypeOK
<1>9. CASE svc' = [svc EXCEPT ![s] = "disconnecting"] /\ disconnect = NoCall /\ disconnect' = Me /\ UNCHANGED answers
  <2>1. SlotInv'
    <3>1. connect # NoCall => connect \notin {Me, browse} \cup disconnects \cup dropped \cup left
      BY <1>4 DEF IInv, SlotInv
    <3>2. Me \notin {browse} \cup disconnects \cup dropped \cup left
      BY <1>4
    <3>3. browse \in CallId => browse \in DOMAIN calls' /\ calls'[browse] \in 0..NSvc
      BY <1>2 DEF IInv, SlotInv
    <3> QED BY <1>0, <1>9, <3>1, <3>2, <3>3 DEF IInv, SlotInv, CallId
  <2>2. Owed' = Owed \cup {Me}
    BY <1>0, <1>2, <1>3, <1>9 DEF Owed, Held
  <2>3. {Me} \in SUBSET CallId /\ {} \in SUBSET (Owed \cup {Me}) /\ {Me} \cap DOMAIN calls = {}
        /\ Owed' = (Owed \cup {Me}) \ {} /\ Settles({}) /\ ops' = ops
    BY <1>0, <1>2, <1>9, <2>2 DEF Settles
  <2>4. AnswersInv' /\ answers' \in [CallId -> 0..2]
    BY <1>2, <2>3, AnswersStep DEF IInv
  <2>5. disconnect' \in 0..MaxCall
    BY <1>2, <1>9, BoundsAssumption DEF CallId
  <2>6. "disconnecting" \in State \ {"none"}
    BY DEF State
  <2> QED BY <1>5, <1>7, <1>9, <2>1, <2>4, <2>5, <2>6
<1>10. CASE svc' = [svc EXCEPT ![s] = "disconnected"] /\ Answer({Me}) /\ UNCHANGED disconnect
  <2>1. "disconnected" \in State \ {"none"}
    BY DEF State
  <2> QED BY <1>5, <1>6, <1>7, <1>10, <2>1
<1>11. CASE /\ svc' = [svc EXCEPT ![s] = "connected"]
            /\ answers' = [answers EXCEPT ![Me] = 2] /\ UNCHANGED disconnect
  <2>1. SlotInv'
    BY <1>0, <1>2, <1>11, SlotsCleared DEF IInv
  <2>2. Owed' = Owed
    BY <1>0, <1>11 DEF Owed, Held
  <2>3. answers' \in [CallId -> 0..2] /\ \A i \in CallId : answers'[i] = IF i = Me THEN 2 ELSE answers[i]
    BY <1>2, <1>11 DEF IInv, TypeOK
  <2>4. AnswersInv'
    <3>1. DOMAIN calls \subseteq CallId
      BY OwedFacts DEF IInv
    <3>2. \A i \in CallId : (i \in Owed' \/ i \notin DOMAIN calls') => answers'[i] = 0
      BY <1>2, <1>4, <2>2, <2>3 DEF IInv, AnswersInv
    <3>3. \A i \in DOMAIN calls' : answers'[i] = 0 => i \in Owed'
      <4> TAKE i \in DOMAIN calls'
      <4>1. i = Me \/ i \in DOMAIN calls
        BY <1>2
      <4>2. i \in CallId
        BY <1>2, <3>1, <4>1
      <4> QED BY <2>2, <2>3, <4>1, <4>2 DEF IInv, AnswersInv
    <3>4. Owed' \subseteq DOMAIN calls'
      BY <1>2, <1>4, <2>2
    <3> QED BY <1>0, <3>2, <3>3, <3>4 DEF AnswersInv
  <2>5. disconnect' \in 0..MaxCall
    BY <1>11 DEF IInv, TypeOK
  <2>6. "connected" \in State \ {"none"}
    BY DEF State
  <2> QED BY <1>5, <1>7, <1>11, <2>1, <2>3, <2>4, <2>5, <2>6
<1> QED BY <1>8, <1>9, <1>10, <1>11 DEF DisconnectProfile

-----------------------------------------------------------------------------
(* Profiles that come and go, plugins, the link                             *)

\* A list of one service of the device is sound.
LEMMA SoundSingle ==
  ASSUME NEW s \in Svc, NEW S \in [Svc -> State], S[s] # "none"
  PROVE  <<s>> \in Seq(Svc) /\ Sound(<<s>>, S)
<1>1. <<s>> \in Seq(Svc) /\ Len(<<s>>) = 1 /\ <<s>>[1] = s
  OBVIOUS
<1>2. DOMAIN <<s>> = {1}
  BY <1>1
<1> QED BY <1>1, <1>2 DEF Sound

\* device_probe_profile keeps the invariant.
LEMMA AddProfileStep ==
  ASSUME IInv, NEW s \in Svc, AddProfile(s)
  PROVE  IInv'
<1> DEFINE S == [svc EXCEPT ![s] = "disconnected"]
<1>0. /\ "profiles" \in ops /\ svc[s] = "none" /\ UNCHANGED <<callVars, ops, linkVars, foundVars>>
      /\ IF general /\ pending = <<>> THEN ConnectNext(<<s>>, S)
         ELSE svc' = S /\ pending' = IF general THEN Append(pending, s) ELSE pending
  BY DEF AddProfile
<1>1. S \in [Svc -> State] /\ S[s] # "none" /\ \A e \in Svc : svc[e] # "none" => S[e] # "none"
  BY DEF IInv, TypeOK, State
<1> HIDE DEF S
<1>2. pending \in Seq(Svc) /\ Sound(pending, S)
  <2>1. pending \in Seq(Svc) /\ \A j \in DOMAIN pending : pending[j] \in Svc
    BY DEF IInv, TypeOK
  <2> QED BY <1>1, <2>1 DEF IInv, PendingIsSound, Sound
<1>3. pending' \in Seq(Svc) /\ svc' \in [Svc -> State] /\ Sound(pending', svc')
  <2>1. CASE general /\ pending = <<>>
    BY <1>0, <1>1, <2>1, SoundSingle, ConnectNextFacts
  <2>2. CASE svc' = S /\ pending' = Append(pending, s)
    <3>1. /\ Len(pending) \in Nat /\ DOMAIN pending = 1..Len(pending)
          /\ pending' \in Seq(Svc) /\ Len(pending') = Len(pending) + 1 /\ pending'[Len(pending) + 1] = s
          /\ \A j \in 1..Len(pending) : pending'[j] = pending[j]
      BY <1>2, <2>2, AppendProperties
    <3>2. DOMAIN pending' = 1..(Len(pending) + 1)
      BY <3>1
    <3>3. \A j \in DOMAIN pending' : j \in DOMAIN pending \/ j = Len(pending) + 1
      BY <3>1, <3>2
    <3>4. \A j \in DOMAIN pending : pending[j] # s
      BY <1>0 DEF IInv, PendingIsSound
    <3>5. \A j \in DOMAIN pending' : S[pending'[j]] # "none"
      BY <1>1, <1>2, <3>1, <3>3 DEF Sound
    <3>6. \A j, k \in DOMAIN pending' : pending'[j] = pending'[k] => j = k
      BY <1>2, <3>1, <3>3, <3>4 DEF Sound
    <3> QED BY <1>1, <2>2, <3>1, <3>5, <3>6 DEF Sound
  <2>3. CASE svc' = S /\ pending' = pending
    BY <1>1, <1>2, <2>3
  <2> QED BY <1>0, <2>1, <2>2, <2>3
<1>4. SlotInv' /\ AnswersInv'
  BY <1>0, CallsKept DEF IInv
<1>5. TypeOK'
  BY <1>0, <1>3 DEF IInv, TypeOK, callVars, linkVars, foundVars
<1>6. PendingIsSound'
  BY <1>0, <1>3 DEF PendingIsSound, Sound
<1> QED BY <1>4, <1>5, <1>6 DEF IInv

\* device_remove_profile keeps the invariant.
LEMMA RemoveProfileStep ==
  ASSUME IInv, NEW s \in Svc, RemoveProfile(s)
  PROVE  IInv'
<1> DEFINE S == [svc EXCEPT ![s] = "none"]
<1>0. /\ "profiles" \in ops /\ svc' = S
      /\ UNCHANGED <<disconnects, calls, dropped, left, ops, linkVars, resolved, refreshed>>
  BY DEF RemoveProfile
<1>1. S \in [Svc -> State] /\ \A e \in Svc \ {s} : S[e] = svc[e]
  BY DEF IInv, TypeOK, State
<1>2. CASE svc[s] = "connecting" /\ (Others(s) = <<>> \/ ~link)
  <2> DEFINE fine == \E e \in Svc \ {s} : svc[e] = "connected"
  <2>1. ProfileDone(FALSE, fine) /\ UNCHANGED disconnect
    BY <1>2 DEF RemoveProfile
  <2>2. fine \in BOOLEAN /\ FALSE \in BOOLEAN
    OBVIOUS
  <2> HIDE DEF fine, S
  <2> QED BY <1>0, <1>1, <2>1, <2>2, DoneStep
<1>3. CASE ~(svc[s] = "connecting" /\ (Others(s) = <<>> \/ ~link))
  <2>1. /\ pending' = Others(s) /\ UNCHANGED <<connect, browse, general>>
        /\ IF (svc[s] = "disconnecting") /\ disconnect # NoCall
             THEN Answer({disconnect}) /\ disconnect' = NoCall ELSE UNCHANGED <<answers, disconnect>>
    BY <1>3 DEF RemoveProfile
  <2>2. (svc[s] = "disconnecting") \in BOOLEAN
    OBVIOUS
  <2>3. SlotInv' /\ AnswersInv' /\ answers' \in [CallId -> 0..2] /\ disconnect' \in 0..MaxCall
    BY <1>0, <2>1, <2>2, DisconnectAnswered
  <2> HIDE DEF S
  <2>4. Others(s) \in Seq(Svc) /\ Sound(Others(s), S)
    BY <1>1, OthersFacts DEF IInv
  <2>5. TypeOK'
    BY <1>0, <1>1, <2>1, <2>3, <2>4 DEF IInv, TypeOK, linkVars
  <2>6. PendingIsSound'
    BY <1>0, <2>1, <2>4 DEF PendingIsSound, Sound
  <2> QED BY <2>3, <2>5, <2>6 DEF IInv
<1> QED BY <1>2, <1>3

\* A plugin asks for services of the device that differ.
LEMMA ConnectServicesStep ==
  ASSUME IInv, NEW p \in Seq(Svc), \A j, k \in DOMAIN p : p[j] = p[k] => j = k, ConnectServices(p)
  PROVE  IInv'
<1>0. /\ connect = NoCall /\ browse = NoBrowse /\ ConnectNext(p, svc)
      /\ UNCHANGED <<callVars, ops, linkVars, foundVars>>
  BY DEF ConnectServices
<1>1. svc \in [Svc -> State] /\ Sound(p, svc)
  <2>1. \A j \in DOMAIN p : p[j] \in Svc
    OBVIOUS
  <2> QED BY <2>1 DEF IInv, TypeOK, Sound, ConnectServices
<1>2. ListIsSound
  BY <1>0, <1>1, ConnectNextFacts DEF ListIsSound
<1>3. SlotInv' /\ AnswersInv'
  BY <1>0, CallsKept DEF IInv
<1>4. TypeOK'
  BY <1>0, <1>2 DEF IInv, TypeOK, ListIsSound, callVars, linkVars, foundVars
<1>5. PendingIsSound'
  <2>1. connect' = NoCall /\ browse' \notin CallId
    BY <1>0, BoundsAssumption DEF callVars, NoBrowse, CallId
  <2> QED BY <1>0, <1>2, <2>1 DEF PendingIsSound, ListIsSound, Sound, CallId
<1> QED BY <1>3, <1>4, <1>5 DEF IInv

\* browse_request_exit keeps the invariant.
LEMMA CallerExitsStep ==
  ASSUME IInv, CallerExits
  PROVE  IInv'
<1>0. /\ browse \in CallId /\ browse' = NoBrowse /\ left' = left \cup {browse}
      /\ UNCHANGED <<svcVars, connect, disconnect, disconnects, calls, answers, dropped, ops, linkVars, foundVars>>
  BY DEF CallerExits
<1>1. NoCall \notin CallId /\ NoBrowse \notin CallId /\ NoBrowse \in -1..MaxCall
      /\ connect # NoBrowse /\ disconnect # NoBrowse
  BY BoundsAssumption DEF IInv, TypeOK, NoBrowse, NoCall, CallId
<1>2. SlotInv'
  <2>1. connect # NoCall => connect \notin {disconnect, NoBrowse} \cup disconnects \cup dropped \cup (left \cup {browse})
    BY <1>1 DEF IInv, SlotInv
  <2>2. disconnect # NoCall => disconnect \notin {NoBrowse} \cup disconnects \cup dropped \cup (left \cup {browse})
    BY <1>1 DEF IInv, SlotInv
  <2>3. disconnects \cap (dropped \cup (left \cup {browse})) = {}
    BY <1>0 DEF IInv, SlotInv
  <2> QED BY <1>0, <1>1, <2>1, <2>2, <2>3 DEF SlotInv, CallId
<1>3. Owed' = Owed
  BY <1>0, <1>1 DEF Owed, Held
<1>4. AnswersInv'
  BY <1>0, <1>3 DEF IInv, AnswersInv
<1>5. TypeOK'
  BY <1>0, <1>1 DEF IInv, TypeOK, svcVars, linkVars, foundVars
<1>6. PendingIsSound'
  BY <1>0, <1>1 DEF IInv, PendingIsSound, svcVars, CallId
<1> QED BY <1>2, <1>4, <1>5, <1>6 DEF IInv

\* device_remove_connection answers everyone who waits for the link to go.
LEMMA LinkDownStep ==
  ASSUME IInv, LinkDown
  PROVE  IInv'
<1>0. /\ link' = FALSE /\ timer' = FALSE /\ leaving' = FALSE /\ refreshed' = FALSE /\ general' = FALSE
      /\ Answer(disconnects) /\ disconnects' = {}
      /\ UNCHANGED <<resolved, svcVars, connect, disconnect, browse, calls, dropped, left, ops>>
  BY DEF LinkDown
<1>1. SlotInv'
  BY <1>0, SlotsCleared DEF IInv
<1>2. Owed' = Owed \ disconnects /\ disconnects \subseteq Owed
  <2>1. /\ connect \in CallId => connect \notin disconnects
        /\ disconnect \in CallId => disconnect \notin disconnects
        /\ browse \in CallId => browse \notin disconnects
        /\ disconnects \cap (dropped \cup left) = {} /\ disconnects \subseteq CallId
    BY BoundsAssumption DEF IInv, SlotInv, TypeOK, CallId, NoCall
  <2> QED BY <1>0, <2>1 DEF Owed, Held
<1>3. {} \in SUBSET CallId /\ disconnects \in SUBSET (Owed \cup {}) /\ {} \cap DOMAIN calls = {}
      /\ Owed' = (Owed \cup {}) \ disconnects /\ Settles(disconnects) /\ ops' = ops
      /\ DOMAIN calls' = DOMAIN calls \cup {}
  BY <1>0, <1>2 DEF Settles
<1>4. AnswersInv' /\ answers' \in [CallId -> 0..2]
  BY <1>3, AnswersStep DEF IInv
<1>5. TypeOK'
  BY <1>0, <1>4 DEF IInv, TypeOK, svcVars
<1>6. PendingIsSound'
  BY <1>0 DEF IInv, PendingIsSound, svcVars, CallId
<1> QED BY <1>1, <1>4, <1>5, <1>6 DEF IInv

\* A link that comes up and the disconnect timer keep the invariant.
LEMMA LinkOrTimerStep ==
  ASSUME IInv, LinkUp \/ DisconnectAll
  PROVE  IInv'
<1>0. UNCHANGED <<svcVars, callVars, ops, foundVars>>
  BY DEF LinkUp, DisconnectAll
<1>1. SlotInv' /\ AnswersInv'
  BY <1>0, CallsKept DEF IInv
<1>2. link' \in BOOLEAN /\ timer' \in BOOLEAN /\ leaving' \in BOOLEAN
  BY DEF IInv, TypeOK, LinkUp, DisconnectAll
<1>3. TypeOK'
  BY <1>0, <1>2 DEF IInv, TypeOK, svcVars, callVars, foundVars
<1>4. PendingIsSound'
  BY <1>0 DEF IInv, PendingIsSound, svcVars, callVars, CallId
<1> QED BY <1>1, <1>3, <1>4 DEF IInv

-----------------------------------------------------------------------------
(* The theorems                                                             *)

\* The disconnect timer runs on a link only.
LEMMA TimerStep ==
  ASSUME TypeOK, TimerInv, Next
  PROVE  TimerInv'
<1>1. ASSUME UNCHANGED linkVars PROVE TimerInv'
  BY <1>1 DEF TimerInv, linkVars
<1>2. CASE \E kind \in {All} \cup Here : Connect(kind)
  BY <1>1, <1>2 DEF Connect
<1>3. CASE ConnectServices([s \in Svc |-> s]) \/ \E s \in Svc : ConnectServices(<<s>>)
  BY <1>1, <1>3 DEF ConnectServices
<1>4. ASSUME NEW s \in Svc, \/ ConnectingComplete(s) \/ DisconnectingComplete(s)
                            \/ Incoming(s) \/ DisconnectProfile(s)
                            \/ AddProfile(s) \/ RemoveProfile(s)
      PROVE  TimerInv'
  BY <1>1, <1>4 DEF ConnectingComplete, DisconnectingComplete, Incoming, DisconnectProfile,
                    AddProfile, RemoveProfile
<1>5. CASE Disconnect
  <2>1. link' = link /\ (timer' = timer \/ timer' = link)
    BY <1>5 DEF Disconnect
  <2> QED BY <2>1 DEF TimerInv
<1>6. CASE BrowseComplete \/ CallerExits
  BY <1>1, <1>6 DEF BrowseComplete, CallerExits
<1>7. CASE LinkUp \/ LinkDown \/ DisconnectAll
  BY <1>7 DEF LinkUp, LinkDown, DisconnectAll, TimerInv
<1> QED BY <1>2, <1>3, <1>4, <1>5, <1>6, <1>7 DEF Next

\* Every step keeps the invariant.
LEMMA NextStep ==
  ASSUME IInv, TimerInv, Next
  PROVE  IInv'
<1>1. CASE \E kind \in {All} \cup Here : Connect(kind)
  BY <1>1, ConnectStep
<1>2. CASE ConnectServices([s \in Svc |-> s])
  <2> DEFINE q == [s \in Svc |-> s]
  <2>1. q \in Seq(Svc) /\ DOMAIN q = Svc /\ \A s \in Svc : q[s] = s
    BY BoundsAssumption DEF Svc
  <2>2. ConnectServices(q)
    BY <1>2
  <2> HIDE DEF q
  <2> QED BY <2>1, <2>2, ConnectServicesStep
<1>3. ASSUME NEW s \in Svc, ConnectServices(<<s>>) PROVE IInv'
  <2>1. <<s>> \in Seq(Svc) /\ Len(<<s>>) = 1
    OBVIOUS
  <2>2. DOMAIN <<s>> = {1}
    BY <2>1
  <2>3. \A j, k \in DOMAIN <<s>> : <<s>>[j] = <<s>>[k] => j = k
    BY <2>2
  <2> QED BY <1>3, <2>1, <2>3, ConnectServicesStep
<1>4. ASSUME NEW s \in Svc, \/ ConnectingComplete(s) \/ DisconnectingComplete(s)
                            \/ Incoming(s) \/ DisconnectProfile(s)
                            \/ AddProfile(s) \/ RemoveProfile(s)
      PROVE  IInv'
  BY <1>4, ConnectingCompleteStep, DisconnectingCompleteStep, IncomingStep, DisconnectProfileStep,
     AddProfileStep, RemoveProfileStep
<1>5. CASE Disconnect \/ BrowseComplete \/ CallerExits
  BY <1>5, DisconnectStep, BrowseCompleteStep, CallerExitsStep
<1>6. CASE LinkUp \/ LinkDown \/ DisconnectAll
  BY <1>6, LinkDownStep, LinkOrTimerStep
<1> QED BY <1>1, <1>2, <1>3, <1>4, <1>5, <1>6 DEF Next

\* A device starts with no call and nothing to connect.
LEMMA InitInv ==
  ASSUME Init
  PROVE  IInv /\ TimerInv
<1>1. PICK S0 \in SUBSET Svc : svc = [s \in Svc |-> IF s \in S0 THEN "disconnected" ELSE "none"]
  BY DEF Init
<1>2. svc \in [Svc -> State]
  BY <1>1 DEF State
<1>3. NoCall \in 0..MaxCall /\ NoBrowse \in -1..MaxCall /\ NoCall \notin CallId /\ NoBrowse \notin CallId
  BY BoundsAssumption DEF NoCall, NoBrowse, CallId
<1>4. answers \in [CallId -> 0..2] /\ \A i \in CallId : answers[i] = 0
  BY DEF Init
<1>5. calls = <<>> /\ calls \in Seq(-2..NSvc) /\ Len(calls) <= MaxCall /\ DOMAIN calls = {}
  BY BoundsAssumption DEF Init
<1>6. pending \in Seq(Svc) /\ pending = <<>> /\ DOMAIN pending = {}
  BY DEF Init
<1>7. TypeOK
  BY <1>2, <1>3, <1>4, <1>5, <1>6 DEF Init, TypeOK
<1>8. Owed = {} /\ SlotInv
  BY <1>3 DEF Init, SlotInv, Owed, Held
<1>9. AnswersInv
  BY <1>4, <1>5, <1>8 DEF AnswersInv
<1>10. PendingIsSound
  BY <1>3, <1>6 DEF Init, PendingIsSound
<1> QED BY <1>7, <1>8, <1>9, <1>10 DEF IInv, TimerInv, Init

\* A step that changes nothing keeps the invariant.
LEMMA StutterStep ==
  ASSUME IInv, TimerInv, UNCHANGED vars
  PROVE  IInv' /\ TimerInv'
<1>1. SlotInv' /\ AnswersInv'
  BY CallsKept DEF IInv, vars
<1>2. TypeOK'
  BY DEF IInv, TypeOK, vars, svcVars, callVars, linkVars, foundVars
<1>3. PendingIsSound'
  BY DEF IInv, PendingIsSound, vars, svcVars, callVars, CallId
<1> QED BY <1>1, <1>2, <1>3 DEF IInv, TimerInv, vars, linkVars

\* The invariant holds in every reachable state.
LEMMA Inductive == Spec => [](IInv /\ TimerInv)
<1>1. Init => IInv /\ TimerInv
  BY InitInv
<1>2. IInv /\ TimerInv /\ [Next]_vars => (IInv /\ TimerInv)'
  <2>1. ASSUME IInv, TimerInv, Next PROVE IInv' /\ TimerInv'
    BY <2>1, NextStep, TimerStep DEF IInv
  <2> QED BY <2>1, StutterStep
<1> QED BY <1>1, <1>2, PTL DEF Spec

\* The fields of struct btd_device that hold services and calls keep their types.
THEOREM ConnectTypeCorrect == Spec => []TypeOK
<1>1. IInv /\ TimerInv => TypeOK
  BY DEF IInv
<1> QED BY <1>1, Inductive, PTL

\* dev->pending holds services of the device, each once; a Connect in progress
\* has services to wait for and excludes a discovery for a call; and the first
\* service of the list is being connected, as PendingIsSound says when.
THEOREM PendingSound == Spec => []PendingIsSound
<1>1. IInv /\ TimerInv => PendingIsSound
  BY DEF IInv
<1> QED BY <1>1, Inductive, PTL

\* Connect, ConnectProfile, Disconnect and DisconnectProfile: a call without an
\* answer is held by a field of the device, unless its discovery was cancelled
\* or its caller left, and without DisconnectProfile none is answered twice.
THEOREM CallsOnce == Spec => []CallsAnsweredOnce
<1>1. IInv /\ TimerInv => CallsAnsweredOnce
  <2> SUFFICES ASSUME IInv PROVE CallsAnsweredOnce
    OBVIOUS
  <2>1. DOMAIN calls \subseteq CallId
    BY OwedFacts DEF IInv
  <2>2. \A i \in DOMAIN calls : answers[i] = 0 => i \in Owed
    BY DEF IInv, AnswersInv
  <2>3. \A i \in Owed : answers[i] = 0
    BY OwedFacts DEF IInv
  <2>4. "disconnectProfile" \notin ops =>
          \A i \in DOMAIN calls : answers[i] > 0 => answers[i] = 1 /\ i \notin Owed
    <3> SUFFICES ASSUME "disconnectProfile" \notin ops, NEW i \in DOMAIN calls, answers[i] > 0
                 PROVE  answers[i] = 1 /\ i \notin Owed
      OBVIOUS
    <3>1. answers[i] \in 0..2 /\ answers[i] <= 1
      BY <2>1 DEF IInv, TypeOK, AnswersInv
    <3> QED BY <2>3, <3>1
  <2> QED BY <2>2, <2>4 DEF CallsAnsweredOnce, Owed
<1> QED BY <1>1, Inductive, PTL
=============================================================================
