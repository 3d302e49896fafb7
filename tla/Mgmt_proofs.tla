---------------------------- MODULE Mgmt_proofs ----------------------------
(***************************************************************************)
(* Mgmt: types, that a request is in one place whatever its callbacks do,   *)
(* that no wake-up of the writer is lost, and that the client is torn down  *)
(* whole.                                                                  *)
(***************************************************************************)
EXTENDS Mgmt, Sublists_proofs

\* The requests of the three lists, and those whose callback runs.
Queued == Range(requestQ) \cup Range(replyQ) \cup Range(pending)
Running == {stack[k].id : k \in DOMAIN stack} \ {0}

\* A request is in one list, once, or in the hands of a callback, or destroyed.
PlaceInv ==
  /\ Distinct(requestQ) /\ Distinct(replyQ) /\ Distinct(pending)
  /\ Range(requestQ) \cap Range(replyQ) = {}
  /\ Range(requestQ) \cap Range(pending) = {}
  /\ Range(replyQ) \cap Range(pending) = {}
  /\ Running \cap Queued = {}
  /\ \A id \in Ids : destroyed[id] = IF id \in Queued \cup Running THEN 0 ELSE 1

\* The main loop calls one handler; what callbacks call is mgmt_send_nowait.
FrameInv ==
  /\ \A k \in DOMAIN stack : k # 1 => stack[k].kind = "nowait"
  /\ \A k \in DOMAIN stack : stack[k].kind = "notify" \/ stack[k].id \in Ids
  /\ \A k \in DOMAIN stack : stack[k].kind = "notify" => stack[k].id = 0
  /\ \A j, k \in DOMAIN stack : stack[j].id = stack[k].id => j = k

\* What is pending was written and not answered, in the order of writing.
OutInv ==
  /\ Distinct(out)
  /\ Range(out) \cap (Range(requestQ) \cup Range(replyQ)) = {}
  /\ Range(pending) \subseteq Range(out)
  /\ \A j, k \in DOMAIN pending : \A a, b \in DOMAIN out :
       (j < k /\ out[a] = pending[j] /\ out[b] = pending[k]) => a < b

Answering == stack # <<>> /\ stack[1].kind = "answer"

\* What waits will be written: the writer is on its way, or something wakes it.
WakeInv ==
  /\ replyQ # <<>> => writer
  /\ requestQ # <<>> => writer \/ out # <<>> \/ Answering

\* The references are the client's and that of can_read_data.
RefInv ==
  /\ refs = (IF held THEN 1 ELSE 0) + (IF InRead THEN 1 ELSE 0)
  /\ ~held => stack = <<>> \/ InRead
  /\ refs = 0 => requestQ = <<>> /\ replyQ = <<>> /\ pending = <<>> /\ notifies = <<>>

NotifyInv ==
  /\ \A k \in DOMAIN notifies : k <= notifies[k].id /\ notifies[k].id < nextNotify
  /\ \A j, k \in DOMAIN notifies : notifies[j].id = notifies[k].id => j = k
  /\ \A k \in DOMAIN notifies : notifies[k].removed => cleanup
  /\ cleanup => InNotify
  /\ IdsOf(notifies) \cup released = 1..(nextNotify - 1)
  /\ IdsOf(notifies) \cap released = {}

IInv == /\ TypeOK /\ PlaceInv /\ FrameInv /\ OutInv /\ WakeInv
        /\ RefInv /\ NotifyInv

-----------------------------------------------------------------------------
(* Types                                                                    *)

\* The lists hold numbers of requests that were made.
LEMMA TypeFacts ==
  ASSUME TypeOK
  PROVE  /\ Len(requests) \in Nat /\ Ids = 1..Len(requests) /\ 0 \notin Ids
         /\ requestQ \in Seq(Ids) /\ replyQ \in Seq(Ids) /\ pending \in Seq(Ids) /\ out \in Seq(Ids)
         /\ Range(requestQ) \subseteq Ids /\ Range(replyQ) \subseteq Ids
         /\ Range(pending) \subseteq Ids /\ Range(out) \subseteq Ids
         /\ Ids \subseteq 1..MaxReq
<1>1. Len(requests) \in Nat /\ Ids = 1..Len(requests) /\ Len(requests) <= MaxReq /\ MaxReq \in Nat
  BY MgmtAssumption DEF TypeOK, Ids
<1>2. requestQ \in Seq(Ids) /\ replyQ \in Seq(Ids) /\ pending \in Seq(Ids) /\ out \in Seq(Ids)
  BY DEF TypeOK
<1>3. \A q \in Seq(Ids) : Range(q) \subseteq Ids
  BY DEF Range
<1> QED BY <1>1, <1>2, <1>3

\* A request is made: it has a number of its own.
LEMMA NewRequest ==
  ASSUME TypeOK, NEW c \in Commands, Len(requests) < MaxReq,
         requests' = Append(requests, c), destroyed' = Append(destroyed, 0)
  PROVE  /\ requests' \in Seq(Commands) /\ Len(requests') <= MaxReq
         /\ Ids' = Ids \cup {Len(requests')} /\ Len(requests') \notin Ids
         /\ Len(requests') \in 1..MaxReq
         /\ \A id \in Ids : destroyed'[id] = destroyed[id]
         /\ destroyed'[Len(requests')] = 0
         /\ destroyed' \in [Ids' -> 0..1]
         /\ Seq(Ids) \subseteq Seq(Ids')
<1>1. /\ requests \in Seq(Commands) /\ Len(requests) \in Nat /\ MaxReq \in Nat
      /\ DOMAIN requests = 1..Len(requests) /\ Ids = 1..Len(requests)
  BY MgmtAssumption DEF TypeOK, Ids
<1>2. /\ requests' \in Seq(Commands) /\ Len(requests') = Len(requests) + 1
      /\ DOMAIN requests' = DOMAIN requests \cup {Len(requests) + 1}
      /\ Len(requests) + 1 \notin DOMAIN requests
  BY <1>1, AppendList
<1>3. destroyed \in [1..Len(requests) -> 0..1]
  BY <1>1 DEF TypeOK
<1>4. destroyed \in Seq(0..1) /\ Len(destroyed) = Len(requests) /\ DOMAIN destroyed = Ids
  BY <1>1, <1>3
<1>5. /\ destroyed' \in Seq(0..1) /\ DOMAIN destroyed' = Ids \cup {Len(requests) + 1}
      /\ \A k \in Ids : destroyed'[k] = destroyed[k]
      /\ destroyed'[Len(requests) + 1] = 0
  BY <1>4, AppendList
<1>6. Ids' = Ids \cup {Len(requests')}
  BY <1>2 DEF Ids
<1>7. destroyed' \in [Ids' -> 0..1]
  <2>1. \A d \in Seq(0..1) : d \in [DOMAIN d -> 0..1]
    OBVIOUS
  <2>2. DOMAIN destroyed' = Ids'
    BY <1>2, <1>5, <1>6
  <2> QED BY <1>5, <2>1, <2>2
<1>8. Len(requests') <= MaxReq /\ Len(requests') \in 1..MaxReq
  BY <1>1, <1>2
<1>9. Seq(Ids) \subseteq Seq(Ids')
  <2> SUFFICES ASSUME NEW q \in Seq(Ids) PROVE q \in Seq(Ids')
    OBVIOUS
  <2>1. Len(q) \in Nat /\ q \in [1..Len(q) -> Ids]
    OBVIOUS
  <2>2. q \in [1..Len(q) -> Ids']
    BY <1>6, <2>1
  <2> QED BY <2>1, <2>2
<1> QED BY <1>1, <1>2, <1>5, <1>6, <1>7, <1>8, <1>9 DEF Ids

-----------------------------------------------------------------------------
(* The stack of callbacks                                                   *)

\* A callback begins.
LEMMA Push ==
  ASSUME TypeOK, FrameInv, NEW f \in Frame, stack' = Append(stack, f),
         Ids \subseteq Ids', f.kind = "notify" => f.id = 0,
         f.kind # "notify" => f.id \in Ids' /\ f.id # 0 /\ f.id \notin Running,
         stack = <<>> \/ f.kind = "nowait"
  PROVE  /\ stack' \in Seq(Frame) /\ FrameInv' /\ stack' # <<>>
         /\ Running' = Running \cup ({f.id} \ {0})
         /\ stack'[1] = IF stack = <<>> THEN f ELSE stack[1]
<1>1. stack \in Seq(Frame) /\ Len(stack) \in Nat /\ DOMAIN stack = 1..Len(stack)
  BY DEF TypeOK
<1>2. /\ stack' \in Seq(Frame) /\ stack' # <<>>
      /\ DOMAIN stack' = DOMAIN stack \cup {Len(stack) + 1} /\ Len(stack) + 1 \notin DOMAIN stack
      /\ \A k \in DOMAIN stack : stack'[k] = stack[k]
      /\ stack'[Len(stack) + 1] = f
  BY <1>1, AppendList
<1>3. Running' = Running \cup ({f.id} \ {0})
  BY <1>2 DEF Running
<1>4. stack = <<>> <=> Len(stack) = 0
  BY <1>1
<1>5. stack'[1] = IF stack = <<>> THEN f ELSE stack[1]
  <2>1. CASE stack = <<>>
    <3>1. Len(stack) + 1 = 1
      BY <1>4, <2>1
    <3> QED BY <1>2, <2>1, <3>1
  <2>2. CASE stack # <<>>
    <3>1. 1 \in DOMAIN stack
      BY <1>1, <1>4, <2>2
    <3> QED BY <1>2, <2>2, <3>1
  <2> QED BY <2>1, <2>2
<1>6. FrameInv'
  <2>1. \A k \in DOMAIN stack' : k # 1 => stack'[k].kind = "nowait"
    <3> SUFFICES ASSUME NEW k \in DOMAIN stack', k # 1 PROVE stack'[k].kind = "nowait"
      OBVIOUS
    <3>1. CASE k \in DOMAIN stack
      BY <1>2, <3>1 DEF FrameInv
    <3>2. CASE k = Len(stack) + 1
      <4>1. stack # <<>>
        BY <1>1, <1>4, <3>2
      <4> QED BY <1>2, <3>2, <4>1
    <3> QED BY <1>2, <3>1, <3>2
  <2>2. \A k \in DOMAIN stack' : stack'[k].kind = "notify" \/ stack'[k].id \in Ids'
    BY <1>2 DEF FrameInv
  <2>3. \A k \in DOMAIN stack' : stack'[k].kind = "notify" => stack'[k].id = 0
    BY <1>2 DEF FrameInv
  <2>4. \A k \in DOMAIN stack : stack[k].id # f.id
    <3>1. CASE stack = <<>>
      BY <1>1, <1>4, <3>1
    <3>2. CASE stack # <<>>
      <4>1. f.id # 0 /\ f.id \notin Running
        BY <3>2
      <4> QED BY <4>1 DEF Running
    <3> QED BY <3>1, <3>2
  <2>5. \A j, k \in DOMAIN stack' : stack'[j].id = stack'[k].id => j = k
    BY <1>2, <2>4 DEF FrameInv
  <2> QED BY <2>1, <2>2, <2>3, <2>5 DEF FrameInv
<1> QED BY <1>2, <1>3, <1>5, <1>6

\* A callback returns.
LEMMA Pop ==
  ASSUME TypeOK, FrameInv, stack # <<>>, stack' = Front(stack), Ids' = Ids
  PROVE  /\ stack' \in Seq(Frame) /\ FrameInv'
         /\ Last(stack) \in Frame
         /\ Running' = Running \ {Last(stack).id}
         /\ Last(stack).id # 0 => Last(stack).id \in Running
         /\ stack' # <<>> => stack'[1] = stack[1] /\ Last(stack).kind = "nowait"
         /\ stack' = <<>> => stack[1] = Last(stack)
<1>1. stack \in Seq(Frame) /\ Len(stack) \in Nat /\ DOMAIN stack = 1..Len(stack)
      /\ \A k \in DOMAIN stack : stack[k] \in Frame
  BY DEF TypeOK
<1>2. /\ Len(stack) \in DOMAIN stack /\ stack' \in Seq(Frame)
      /\ DOMAIN stack' = DOMAIN stack \ {Len(stack)}
      /\ \A k \in DOMAIN stack' : stack'[k] = stack[k]
  <2>1. stack' = SubSeq(stack, 1, Len(stack) - 1)
    BY DEF Front
  <2> QED BY <1>1, <2>1, FrontList
<1>3. Last(stack) = stack[Len(stack)] /\ Last(stack) \in Frame
  BY <1>1, <1>2 DEF Last
<1>4. Running' = Running \ {Last(stack).id}
  <2>1. \A k \in DOMAIN stack' : stack[k].id # stack[Len(stack)].id
    BY <1>2 DEF FrameInv
  <2> QED BY <1>2, <1>3, <2>1 DEF Running
<1>5. Last(stack).id # 0 => Last(stack).id \in Running
  BY <1>2, <1>3 DEF Running
<1>6. FrameInv'
  BY <1>2 DEF FrameInv
<1>7. stack' # <<>> => stack'[1] = stack[1] /\ Last(stack).kind = "nowait"
  <2> SUFFICES ASSUME stack' # <<>> PROVE stack'[1] = stack[1] /\ Last(stack).kind = "nowait"
    OBVIOUS
  <2>1. 1 \in DOMAIN stack'
    BY <1>2
  <2>2. Len(stack) # 1
    BY <1>2, <2>1
  <2> QED BY <1>2, <1>3, <2>1, <2>2 DEF FrameInv
<1>8. stack' = <<>> => stack[1] = Last(stack)
  <2> SUFFICES ASSUME stack' = <<>> PROVE stack[1] = Last(stack)
    OBVIOUS
  <2>1. DOMAIN stack' = {} /\ 1 \in DOMAIN stack
    BY <1>1, <1>2
  <2>2. Len(stack) = 1
    BY <1>2, <2>1
  <2> QED BY <1>3, <2>2
<1> QED BY <1>2, <1>3, <1>4, <1>5, <1>6, <1>7, <1>8

-----------------------------------------------------------------------------
(* What is pending and what the kernel has                                  *)

\* t has entries of q in the order of q.
Sub(t, q) ==
  \A j, k \in DOMAIN t : \E a, b \in DOMAIN q : t[j] = q[a] /\ t[k] = q[b] /\ (j < k <=> a < b)

\* A list that lost entries holds the others in their order.
LEMMA SubKeep ==
  ASSUME NEW S, NEW q \in Seq(S), NEW K \in SUBSET (DOMAIN q)
  PROVE  Sub(Keep(q, K), q) /\ Sub(q, q) /\ Sub(<<>>, q)
<1>1. Sub(Keep(q, K), q)
  <2> SUFFICES ASSUME NEW j \in DOMAIN Keep(q, K), NEW k \in DOMAIN Keep(q, K)
               PROVE  \E a, b \in DOMAIN q : /\ Keep(q, K)[j] = q[a] /\ Keep(q, K)[k] = q[b]
                                             /\ (j < k <=> a < b)
    BY DEF Sub
  <2>1. PICK a \in K, b \in K : /\ Keep(q, K)[j] = q[a] /\ Keep(q, K)[k] = q[b]
                                /\ (j < k <=> a < b) /\ j <= a /\ k <= b
    BY KeepSorted
  <2> QED BY <2>1
<1>2. Sub(q, q)
  BY DEF Sub
<1>3. Sub(<<>>, q)
  BY DEF Sub
<1> QED BY <1>1, <1>2, <1>3

\* Requests leave the lists, and what stays pending is still out.
LEMMA OutShrinks ==
  ASSUME TypeOK, OutInv, Sub(out', out), Sub(pending', pending), Distinct(out'),
         pending' \in Seq(Ids), out' \in Seq(Ids),
         Range(pending') \subseteq Range(out'), Range(out') \subseteq Range(out),
         Range(requestQ') \subseteq Range(requestQ), Range(replyQ') \subseteq Range(replyQ)
  PROVE  OutInv'
<1>1. ASSUME NEW j \in DOMAIN pending', NEW k \in DOMAIN pending', NEW a \in DOMAIN out', NEW b \in DOMAIN out',
             j < k, out'[a] = pending'[j], out'[b] = pending'[k]
      PROVE  a < b
  <2>1. PICK j0 \in DOMAIN pending, k0 \in DOMAIN pending :
           pending'[j] = pending[j0] /\ pending'[k] = pending[k0] /\ (j < k <=> j0 < k0)
    BY DEF Sub
  <2>2. PICK a0 \in DOMAIN out, b0 \in DOMAIN out :
           out'[a] = out[a0] /\ out'[b] = out[b0] /\ (a < b <=> a0 < b0)
    BY DEF Sub
  <2>3. j0 < k0 /\ out[a0] = pending[j0] /\ out[b0] = pending[k0]
    BY <1>1, <2>1, <2>2
  <2>4. a0 < b0
    BY <2>3 DEF OutInv
  <2> QED BY <2>2, <2>4
<1>2. Range(out') \cap (Range(requestQ') \cup Range(replyQ')) = {}
  BY DEF OutInv
<1> QED BY <1>1, <1>2 DEF OutInv

\* A command is written.
LEMMA OutGrows ==
  ASSUME TypeOK, OutInv, Ids \subseteq Ids', Seq(Ids) \subseteq Seq(Ids'),
         NEW x \in Ids', x \notin Range(out), x \notin Range(pending),
         out' = Append(out, x), pending' = Append(pending, x),
         Range(requestQ') \subseteq Range(requestQ) \ {x}, Range(replyQ') \subseteq Range(replyQ) \ {x}
  PROVE  /\ OutInv' /\ out' \in Seq(Ids') /\ pending' \in Seq(Ids') /\ out' # <<>>
         /\ Range(pending') = Range(pending) \cup {x}
         /\ Distinct(pending) => Distinct(pending')
<1>0. out \in Seq(Ids') /\ pending \in Seq(Ids')
  BY TypeFacts
<1>1. /\ out' \in Seq(Ids') /\ out' # <<>> /\ Range(out') = Range(out) \cup {x} /\ Distinct(out')
      /\ DOMAIN out' = DOMAIN out \cup {Len(out) + 1}
      /\ \A a \in DOMAIN out : out'[a] = out[a]
      /\ out'[Len(out) + 1] = x
      /\ Len(out) \in Nat /\ DOMAIN out = 1..Len(out)
  <2>1. Distinct(out)
    BY DEF OutInv
  <2> QED BY <1>0, <2>1, AppendList
<1>2. /\ pending' \in Seq(Ids') /\ Range(pending') = Range(pending) \cup {x}
      /\ Distinct(pending) => Distinct(pending')
      /\ DOMAIN pending' = DOMAIN pending \cup {Len(pending) + 1}
      /\ \A a \in DOMAIN pending : pending'[a] = pending[a]
      /\ pending'[Len(pending) + 1] = x
      /\ Len(pending) \in Nat /\ DOMAIN pending = 1..Len(pending)
  BY <1>0, AppendList
<1>3. ASSUME NEW j \in DOMAIN pending', NEW k \in DOMAIN pending', NEW a \in DOMAIN out', NEW b \in DOMAIN out',
             j < k, out'[a] = pending'[j], out'[b] = pending'[k]
      PROVE  a < b
  <2>1. j \in DOMAIN pending /\ pending'[j] = pending[j]
    BY <1>2, <1>3
  <2>2. a \in DOMAIN out /\ out'[a] = out[a]
    <3>1. pending[j] # x
      BY <2>1 DEF Range
    <3> QED BY <1>1, <1>3, <2>1, <3>1
  <2>3. CASE k = Len(pending) + 1
    <3>1. out'[b] = x
      BY <1>2, <1>3, <2>3
    <3>2. b = Len(out) + 1
      BY <1>1, <3>1 DEF Range
    <3> QED BY <1>1, <2>2, <3>2
  <2>4. CASE k \in DOMAIN pending
    <3>1. pending'[k] = pending[k] /\ pending[k] # x
      BY <1>2, <2>4 DEF Range
    <3>2. b \in DOMAIN out /\ out'[b] = out[b]
      BY <1>1, <1>3, <3>1
    <3> QED BY <1>3, <2>1, <2>2, <2>4, <3>1, <3>2 DEF OutInv
  <2> QED BY <1>2, <2>3, <2>4
<1>4. Range(out') \cap (Range(requestQ') \cup Range(replyQ')) = {}
  BY <1>1 DEF OutInv
<1>5. Range(pending') \subseteq Range(out')
  BY <1>1, <1>2 DEF OutInv
<1>6. \A j, k \in DOMAIN pending' : \A a, b \in DOMAIN out' :
         (j < k /\ out'[a] = pending'[j] /\ out'[b] = pending'[k]) => a < b
  BY <1>3
<1>7. OutInv'
  BY <1>1, <1>4, <1>5, <1>6, Zenon DEF OutInv
<1> QED BY <1>1, <1>2, <1>7

\* The kernel answers out[n]: when it is still pending, it is the one that
\* gets the answer, for what is pending is in the order of writing.
LEMMA OldestAnswered ==
  ASSUME TypeOK, OutInv, NEW n \in DOMAIN out, Oldest(n), out[n] \in Range(pending),
         NEW k \in DOMAIN pending, requests[pending[k]] = requests[out[n]],
         \A j \in DOMAIN pending : requests[pending[j]] = requests[out[n]] => k <= j
  PROVE  pending[k] = out[n]
<1>0. /\ Len(pending) \in Nat /\ DOMAIN pending = 1..Len(pending)
      /\ Len(out) \in Nat /\ DOMAIN out = 1..Len(out)
  BY TypeFacts
<1>1. PICK j \in DOMAIN pending : pending[j] = out[n]
  BY DEF Range
<1>2. k <= j
  BY <1>1
<1>3. CASE k < j
  <2>1. pending[k] \in Range(out)
    BY DEF OutInv, Range
  <2>2. PICK a \in DOMAIN out : out[a] = pending[k]
    BY <2>1 DEF Range
  <2>3. a < n
    BY <1>1, <1>3, <2>2 DEF OutInv
  <2>4. a \in 1..(n - 1)
    BY <1>0, <2>3
  <2> QED BY <2>2, <2>4 DEF Oldest
<1>4. CASE k = j
  BY <1>1, <1>4
<1> QED BY <1>0, <1>2, <1>3, <1>4

\* While something is pending the kernel owes an answer.
LEMMA PendingIsOut ==
  ASSUME TypeOK, OutInv, pending # <<>>
  PROVE  out # <<>>
<1>1. 1 \in DOMAIN pending
  BY TypeFacts
<1>2. pending[1] \in Range(out)
  BY <1>1 DEF OutInv, Range
<1>3. PICK a \in DOMAIN out : out[a] = pending[1]
  BY <1>2 DEF Range
<1> QED BY <1>3

\* The requests of the callbacks that run were made.
LEMMA RunningFacts ==
  ASSUME TypeOK, FrameInv
  PROVE  Running \subseteq Ids
BY DEF FrameInv, Running

-----------------------------------------------------------------------------
(* What an action leaves alone                                              *)

\* A step that leaves the listeners alone keeps what is known of them.
LEMMA NotifyKept ==
  ASSUME NotifyInv, UNCHANGED notifyVars, InNotify => InNotify'
  PROVE  NotifyInv'
<1>1. IdsOf(notifies)' = IdsOf(notifies)
  BY DEF IdsOf, notifyVars, Range
<1> QED BY <1>1 DEF NotifyInv, notifyVars

\* The stack stays, or a mgmt_send_nowait joins or leaves a handler's callback.
LEMMA SameHandler ==
  ASSUME stack' = stack \/ (stack # <<>> /\ stack' # <<>> /\ stack'[1] = stack[1])
  PROVE  InNotify' = InNotify /\ InRead' = InRead /\ Answering' = Answering
BY DEF InNotify, InRead, Answering

\* A step that keeps the references of a client in use keeps what is known of
\* them.
LEMMA HeldRefs ==
  ASSUME RefInv, held, UNCHANGED <<refs, held>>, InRead' = InRead
  PROVE  RefInv'
<1>1. refs # 0
  BY DEF RefInv
<1> QED BY <1>1 DEF RefInv

\* A step that leaves the callbacks alone keeps their order.
LEMMA FramesKept ==
  ASSUME FrameInv, stack' = stack, Ids \subseteq Ids'
  PROVE  FrameInv' /\ Running' = Running
<1>1. Running' = Running
  BY DEF Running
<1> QED BY <1>1 DEF FrameInv

-----------------------------------------------------------------------------
(* Requests are made                                                        *)

\* mgmt_send keeps the invariant.
LEMMA SendStep ==
  ASSUME IInv, NEW c \in Commands, Send(c)
  PROVE  IInv'
<1> DEFINE n == Len(requests')
<1>0. /\ held /\ Len(requests) < MaxReq /\ requests' = Append(requests, c)
      /\ destroyed' = Append(destroyed, 0) /\ requestQ' = Append(requestQ, n)
      /\ writer' = Woken(writer, pending, replyQ)
      /\ UNCHANGED <<use, replyQ, pending, notifyVars, refs, held, stack, out, events>>
  BY DEF Send, ClientRuns
<1>1. /\ requests' \in Seq(Commands) /\ Len(requests') <= MaxReq
      /\ Ids' = Ids \cup {n} /\ n \notin Ids
      /\ \A id \in Ids : destroyed'[id] = destroyed[id]
      /\ destroyed'[n] = 0 /\ destroyed' \in [Ids' -> 0..1] /\ Seq(Ids) \subseteq Seq(Ids')
  BY <1>0, NewRequest DEF IInv
<1> HIDE DEF n
<1>2. /\ requestQ \in Seq(Ids') /\ replyQ \in Seq(Ids') /\ pending \in Seq(Ids') /\ out \in Seq(Ids')
      /\ Range(requestQ) \subseteq Ids /\ Range(replyQ) \subseteq Ids
      /\ Range(pending) \subseteq Ids /\ Range(out) \subseteq Ids /\ Running \subseteq Ids
  BY <1>1, TypeFacts, RunningFacts DEF IInv
<1>3. /\ requestQ' \in Seq(Ids') /\ Range(requestQ') = Range(requestQ) \cup {n}
      /\ Distinct(requestQ')
  <2>1. Distinct(requestQ) /\ n \in Ids' /\ n \notin Range(requestQ)
    BY <1>1, <1>2 DEF IInv, PlaceInv
  <2> QED BY <1>0, <1>2, <2>1, AppendList
<1>4. FrameInv' /\ Running' = Running
  BY <1>0, <1>1, FramesKept DEF IInv
<1>5. InNotify' = InNotify /\ InRead' = InRead /\ Answering' = Answering
  BY <1>0, SameHandler
<1>6. writer' \in BOOLEAN /\ (writer => writer') /\ (writer' \/ pending # <<>>)
  BY <1>0 DEF IInv, TypeOK, Woken
<1>7. TypeOK'
  BY <1>0, <1>1, <1>2, <1>3, <1>6 DEF IInv, TypeOK, notifyVars
<1>8. PlaceInv'
  <2>1. Queued' = Queued \cup {n}
    BY <1>0, <1>3 DEF Queued
  <2>2. n \notin Queued \cup Running
    BY <1>1, <1>2 DEF Queued
  <2>3. \A id \in Ids' : destroyed'[id] = IF id \in Queued' \cup Running' THEN 0 ELSE 1
    BY <1>1, <1>4, <2>1, <2>2 DEF IInv, PlaceInv
  <2>4. Running' \cap Queued' = {}
    BY <1>4, <2>1, <2>2 DEF IInv, PlaceInv
  <2>5. n \notin Range(replyQ) /\ n \notin Range(pending)
    BY <1>1, <1>2
  <2> QED BY <1>0, <1>3, <2>3, <2>4, <2>5 DEF IInv, PlaceInv
<1>9. OutInv'
  <2>1. Range(out) \cap (Range(requestQ') \cup Range(replyQ)) = {}
    BY <1>1, <1>2, <1>3 DEF IInv, OutInv
  <2> QED BY <1>0, <2>1 DEF IInv, OutInv
<1>10. WakeInv'
  <2>1. writer' \/ out # <<>>
    BY <1>6, PendingIsOut DEF IInv
  <2> QED BY <1>0, <1>6, <2>1 DEF IInv, WakeInv
<1>11. RefInv'
  BY <1>0, <1>5, HeldRefs DEF IInv
<1>12. NotifyInv'
  BY <1>0, <1>5, NotifyKept DEF IInv
<1> QED BY <1>4, <1>7, <1>8, <1>9, <1>10, <1>11, <1>12 DEF IInv

\* mgmt_reply keeps the invariant.
LEMMA ReplyStep ==
  ASSUME IInv, NEW c \in Commands, Reply(c)
  PROVE  IInv'
<1> DEFINE n == Len(requests')
<1>0. /\ held /\ Len(requests) < MaxReq /\ requests' = Append(requests, c)
      /\ destroyed' = Append(destroyed, 0) /\ replyQ' = Append(replyQ, n)
      /\ writer' = Woken(writer, pending, replyQ')
      /\ UNCHANGED <<use, requestQ, pending, notifyVars, refs, held, stack, out, events>>
  BY DEF Reply, ClientRuns
<1>1. /\ requests' \in Seq(Commands) /\ Len(requests') <= MaxReq
      /\ Ids' = Ids \cup {n} /\ n \notin Ids
      /\ \A id \in Ids : destroyed'[id] = destroyed[id]
      /\ destroyed'[n] = 0 /\ destroyed' \in [Ids' -> 0..1] /\ Seq(Ids) \subseteq Seq(Ids')
  BY <1>0, NewRequest DEF IInv
<1> HIDE DEF n
<1>2. /\ requestQ \in Seq(Ids') /\ replyQ \in Seq(Ids') /\ pending \in Seq(Ids') /\ out \in Seq(Ids')
      /\ Range(requestQ) \subseteq Ids /\ Range(replyQ) \subseteq Ids
      /\ Range(pending) \subseteq Ids /\ Range(out) \subseteq Ids /\ Running \subseteq Ids
  BY <1>1, TypeFacts, RunningFacts DEF IInv
<1>3. /\ replyQ' \in Seq(Ids') /\ Range(replyQ') = Range(replyQ) \cup {n}
      /\ Distinct(replyQ') /\ replyQ' # <<>>
  <2>1. Distinct(replyQ) /\ n \in Ids' /\ n \notin Range(replyQ)
    BY <1>1, <1>2 DEF IInv, PlaceInv
  <2> QED BY <1>0, <1>2, <2>1, AppendList
<1>4. FrameInv' /\ Running' = Running
  BY <1>0, <1>1, FramesKept DEF IInv
<1>5. InNotify' = InNotify /\ InRead' = InRead /\ Answering' = Answering
  BY <1>0, SameHandler
<1>6. writer' = TRUE
  BY <1>0, <1>3 DEF Woken
<1>7. TypeOK'
  BY <1>0, <1>1, <1>2, <1>3, <1>6 DEF IInv, TypeOK, notifyVars
<1>8. PlaceInv'
  <2>1. Queued' = Queued \cup {n}
    BY <1>0, <1>3 DEF Queued
  <2>2. n \notin Queued \cup Running
    BY <1>1, <1>2 DEF Queued
  <2>3. \A id \in Ids' : destroyed'[id] = IF id \in Queued' \cup Running' THEN 0 ELSE 1
    BY <1>1, <1>4, <2>1, <2>2 DEF IInv, PlaceInv
  <2>4. Running' \cap Queued' = {}
    BY <1>4, <2>1, <2>2 DEF IInv, PlaceInv
  <2>5. n \notin Range(requestQ) /\ n \notin Range(pending)
    BY <1>1, <1>2
  <2> QED BY <1>0, <1>3, <2>3, <2>4, <2>5 DEF IInv, PlaceInv
<1>9. OutInv'
  <2>1. Range(out) \cap (Range(requestQ) \cup Range(replyQ')) = {}
    BY <1>1, <1>2, <1>3 DEF IInv, OutInv
  <2> QED BY <1>0, <2>1 DEF IInv, OutInv
<1>10. WakeInv'
  BY <1>6 DEF WakeInv
<1>11. RefInv'
  BY <1>0, <1>5, HeldRefs DEF IInv
<1>12. NotifyInv'
  BY <1>0, <1>5, NotifyKept DEF IInv
<1> QED BY <1>4, <1>7, <1>8, <1>9, <1>10, <1>11, <1>12 DEF IInv

\* mgmt_send_nowait in a callback leaves the handler's frame at the bottom;
\* outside one it is the handler.
LEMMA SendNowaitStep ==
  ASSUME IInv, NEW c \in Commands, SendNowait(c)
  PROVE  IInv'
<1> DEFINE n == Len(requests')
           f == RequestFrame("nowait", n)
<1>0. /\ held /\ Len(requests) < MaxReq /\ requests' = Append(requests, c)
      /\ destroyed' = Append(destroyed, 0)
      /\ \/ pending' = Append(pending, n) /\ out' = Append(out, n) /\ UNCHANGED stack
         \/ stack' = Append(stack, f) /\ UNCHANGED <<pending, out>>
      /\ UNCHANGED <<use, requestQ, replyQ, writer, notifyVars, refs, held, events>>
  BY DEF SendNowait, ClientRuns
<1>1. /\ requests' \in Seq(Commands) /\ Len(requests') <= MaxReq /\ n \in 1..MaxReq
      /\ Ids' = Ids \cup {n} /\ n \notin Ids
      /\ \A id \in Ids : destroyed'[id] = destroyed[id]
      /\ destroyed'[n] = 0 /\ destroyed' \in [Ids' -> 0..1] /\ Seq(Ids) \subseteq Seq(Ids')
  BY <1>0, NewRequest DEF IInv
<1>f. f \in Frame /\ f.kind = "nowait" /\ f.id = n /\ n # 0
  <2>1. n \in 0..MaxReq /\ n # 0 /\ 0 \in 0..MaxNotify
    BY <1>1, MgmtAssumption
  <2> QED BY <2>1 DEF Frame, RequestFrame
<1> HIDE DEF n, f
<1>2. /\ requestQ \in Seq(Ids') /\ replyQ \in Seq(Ids') /\ pending \in Seq(Ids') /\ out \in Seq(Ids')
      /\ Range(requestQ) \subseteq Ids /\ Range(replyQ) \subseteq Ids
      /\ Range(pending) \subseteq Ids /\ Range(out) \subseteq Ids /\ Running \subseteq Ids
  BY <1>1, TypeFacts, RunningFacts DEF IInv
<1>3. n \notin Queued \cup Running /\ n \notin Range(out)
  BY <1>1, <1>2 DEF Queued
<1>4. CASE pending' = Append(pending, n) /\ out' = Append(out, n) /\ UNCHANGED stack
  <2>1. /\ OutInv' /\ out' \in Seq(Ids') /\ pending' \in Seq(Ids') /\ out' # <<>>
        /\ Range(pending') = Range(pending) \cup {n} /\ Distinct(pending')
    <3>1. n \in Ids' /\ Ids \subseteq Ids' /\ n \notin Range(pending)
          /\ Range(requestQ') \subseteq Range(requestQ) \ {n} /\ Range(replyQ') \subseteq Range(replyQ) \ {n}
      BY <1>0, <1>1, <1>2
    <3> QED BY <1>1, <1>3, <1>4, <3>1, OutGrows DEF IInv, PlaceInv
  <2>2. FrameInv' /\ Running' = Running
    BY <1>1, <1>4, FramesKept DEF IInv
  <2>3. InNotify' = InNotify /\ InRead' = InRead /\ Answering' = Answering
    BY <1>4, SameHandler
  <2>4. TypeOK'
    BY <1>0, <1>1, <1>2, <1>4, <2>1 DEF IInv, TypeOK, notifyVars
  <2>5. PlaceInv'
    <3>1. Queued' = Queued \cup {n}
      BY <1>0, <2>1 DEF Queued
    <3>2. \A id \in Ids' : destroyed'[id] = IF id \in Queued' \cup Running' THEN 0 ELSE 1
      BY <1>1, <1>3, <2>2, <3>1 DEF IInv, PlaceInv
    <3>3. Running' \cap Queued' = {}
      BY <1>3, <2>2, <3>1 DEF IInv, PlaceInv
    <3>4. n \notin Range(requestQ) /\ n \notin Range(replyQ)
      BY <1>1, <1>2
    <3> QED BY <1>0, <2>1, <3>2, <3>3, <3>4 DEF IInv, PlaceInv
  <2>6. WakeInv'
    BY <1>0, <2>1 DEF IInv, WakeInv
  <2>7. RefInv'
    BY <1>0, <2>3, HeldRefs DEF IInv
  <2>8. NotifyInv'
    BY <1>0, <2>3, NotifyKept DEF IInv
  <2> QED BY <2>1, <2>2, <2>4, <2>5, <2>6, <2>7, <2>8 DEF IInv
<1>5. CASE stack' = Append(stack, f) /\ UNCHANGED <<pending, out>>
  <2>1. /\ stack' \in Seq(Frame) /\ FrameInv' /\ stack' # <<>>
        /\ Running' = Running \cup ({f.id} \ {0})
        /\ stack'[1] = IF stack = <<>> THEN f ELSE stack[1]
    BY <1>1, <1>3, <1>5, <1>f, Push DEF IInv
  <2>2. Running' = Running \cup {n}
    BY <1>f, <2>1
  <2>3. InNotify' = InNotify /\ InRead' = InRead /\ Answering' = Answering
    <3>1. CASE stack = <<>>
      BY <1>f, <2>1, <3>1 DEF InNotify, InRead, Answering
    <3>2. CASE stack # <<>>
      BY <2>1, <3>2, SameHandler
    <3> QED BY <3>1, <3>2
  <2>4. TypeOK'
    BY <1>0, <1>1, <1>2, <1>5, <2>1 DEF IInv, TypeOK, notifyVars
  <2>5. PlaceInv'
    <3>1. Queued' = Queued
      BY <1>0, <1>5 DEF Queued
    <3>2. \A id \in Ids' : destroyed'[id] = IF id \in Queued' \cup Running' THEN 0 ELSE 1
      BY <1>1, <1>3, <2>2, <3>1 DEF IInv, PlaceInv
    <3>3. Running' \cap Queued' = {}
      BY <1>3, <2>2, <3>1 DEF IInv, PlaceInv
    <3> QED BY <1>0, <1>5, <3>2, <3>3 DEF IInv, PlaceInv
  <2>6. OutInv'
    BY <1>0, <1>5 DEF IInv, OutInv
  <2>7. WakeInv'
    BY <1>0, <1>5, <2>3 DEF IInv, WakeInv
  <2>8. RefInv'
    BY <1>0, <2>3, HeldRefs DEF IInv
  <2>9. NotifyInv'
    BY <1>0, <2>3, NotifyKept DEF IInv
  <2> QED BY <2>1, <2>4, <2>5, <2>6, <2>7, <2>8, <2>9 DEF IInv
<1> QED BY <1>0, <1>4, <1>5

-----------------------------------------------------------------------------
(* Requests are cancelled                                                   *)

\* Cancelled requests leave a list and the others keep their order.
LEMMA WithoutFacts ==
  ASSUME NEW S, NEW q \in Seq(S), Distinct(q), NEW C
  PROVE  /\ Without(q, C) \in Seq(S) /\ Distinct(Without(q, C))
         /\ Range(Without(q, C)) = Range(q) \ C
         /\ Sub(Without(q, C), q) /\ (q = <<>> => Without(q, C) = <<>>)
<1> DEFINE K == {k \in DOMAIN q : q[k] \notin C}
<1>1. K \in SUBSET (DOMAIN q) /\ Without(q, C) = Keep(q, K)
  BY DEF Without
<1>2. {q[k] : k \in K} = Range(q) \ C
  BY DEF Range
<1>3. q = <<>> => K = {}
  OBVIOUS
<1> HIDE DEF K
<1> QED BY <1>1, <1>2, <1>3, KeepList, SubKeep, KeepOrder

\* Cancelling moves requests from the lists to the destroyed ones, each once.
LEMMA CancelPlaces ==
  ASSUME IInv, NEW C, CancelSet(C), UNCHANGED <<requests, stack, out>>
  PROVE  /\ requestQ' \in Seq(Ids) /\ replyQ' \in Seq(Ids) /\ pending' \in Seq(Ids)
         /\ destroyed' \in [Ids -> 0..1] /\ PlaceInv' /\ OutInv'
         /\ (requestQ = <<>> => requestQ' = <<>>) /\ (replyQ = <<>> => replyQ' = <<>>)
<1>0. /\ requestQ' = Without(requestQ, C) /\ replyQ' = Without(replyQ, C)
      /\ pending' = Without(pending, C) /\ destroyed' = Destroy(C \cap Queued)
  BY DEF CancelSet, Queued
<1>1. requestQ \in Seq(Ids) /\ replyQ \in Seq(Ids) /\ pending \in Seq(Ids) /\ out \in Seq(Ids)
  BY TypeFacts DEF IInv
<1>2. Distinct(requestQ) /\ Distinct(replyQ) /\ Distinct(pending)
  BY DEF IInv, PlaceInv
<1>3. /\ requestQ' \in Seq(Ids) /\ Distinct(requestQ') /\ Range(requestQ') = Range(requestQ) \ C
      /\ (requestQ = <<>> => requestQ' = <<>>)
  BY <1>0, <1>1, <1>2, WithoutFacts
<1>4. /\ replyQ' \in Seq(Ids) /\ Distinct(replyQ') /\ Range(replyQ') = Range(replyQ) \ C
      /\ (replyQ = <<>> => replyQ' = <<>>)
  BY <1>0, <1>1, <1>2, WithoutFacts
<1>5. /\ pending' \in Seq(Ids) /\ Distinct(pending') /\ Range(pending') = Range(pending) \ C
      /\ Sub(pending', pending)
  BY <1>0, <1>1, <1>2, WithoutFacts
<1>6. Queued' = Queued \ C /\ Running' = Running /\ Ids' = Ids
  BY <1>3, <1>4, <1>5 DEF Queued, Running, Ids
<1>7. \A id \in Ids : destroyed'[id] = IF id \in Queued' \cup Running' THEN 0 ELSE 1
  <2> TAKE id \in Ids
  <2>1. destroyed[id] = IF id \in Queued \cup Running THEN 0 ELSE 1
    BY DEF IInv, PlaceInv
  <2>2. destroyed'[id] = IF id \in C \cap Queued THEN destroyed[id] + 1 ELSE destroyed[id]
    BY <1>0 DEF Destroy
  <2>3. id \notin Running \/ id \notin Queued
    BY DEF IInv, PlaceInv
  <2>4. CASE id \in C \cap Queued
    BY <1>6, <2>1, <2>2, <2>3, <2>4
  <2>5. CASE id \notin C \cap Queued
    BY <1>6, <2>1, <2>2, <2>5
  <2> QED BY <2>4, <2>5
<1>8. destroyed' \in [Ids -> 0..1]
  <2>1. destroyed' = [id \in Ids |-> destroyed'[id]]
    BY <1>0 DEF Destroy
  <2>2. \A id \in Ids : destroyed'[id] \in 0..1
    BY <1>7
  <2> QED BY <2>1, <2>2
<1>9. PlaceInv'
  <2>1. /\ Range(requestQ') \cap Range(replyQ') = {}
        /\ Range(requestQ') \cap Range(pending') = {}
        /\ Range(replyQ') \cap Range(pending') = {}
    BY <1>3, <1>4, <1>5 DEF IInv, PlaceInv
  <2>2. Running' \cap Queued' = {}
    BY <1>6 DEF IInv, PlaceInv
  <2>3. \A id \in Ids' : destroyed'[id] = IF id \in Queued' \cup Running' THEN 0 ELSE 1
    BY <1>6, <1>7
  <2> QED BY <1>3, <1>4, <1>5, <2>1, <2>2, <2>3 DEF PlaceInv
<1>10. OutInv'
  <2>1. /\ Sub(out', out) /\ Distinct(out') /\ out' \in Seq(Ids) /\ Range(out') = Range(out)
        /\ Range(pending') \subseteq Range(out')
    BY <1>1, <1>5 DEF IInv, OutInv, Sub
  <2> QED BY <1>3, <1>4, <1>5, <2>1, OutShrinks DEF IInv
<1> QED BY <1>3, <1>4, <1>5, <1>8, <1>9, <1>10

\* mgmt_cancel wakes the writer, mgmt_cancel_index and mgmt_cancel_all do not.
LEMMA CancelStep ==
  ASSUME IInv, held, NEW C, CancelSet(C),
         writer' = writer \/ writer' = Woken(writer, pending', replyQ'),
         UNCHANGED <<use, requests, notifyVars, refs, held, stack, out, events>>
  PROVE  IInv'
<1>1. /\ requestQ' \in Seq(Ids) /\ replyQ' \in Seq(Ids) /\ pending' \in Seq(Ids)
      /\ destroyed' \in [Ids -> 0..1] /\ PlaceInv' /\ OutInv'
      /\ (requestQ = <<>> => requestQ' = <<>>) /\ (replyQ = <<>> => replyQ' = <<>>)
  BY CancelPlaces
<1>2. InNotify' = InNotify /\ InRead' = InRead /\ Answering' = Answering /\ Ids' = Ids
  BY SameHandler DEF Ids
<1>3. FrameInv'
  BY <1>2, FramesKept DEF IInv
<1>4. writer' \in BOOLEAN /\ (writer => writer')
  BY DEF IInv, TypeOK, Woken
<1>5. TypeOK'
  BY <1>1, <1>2, <1>4 DEF IInv, TypeOK, notifyVars
<1>6. WakeInv'
  BY <1>1, <1>2, <1>4 DEF IInv, WakeInv
<1>7. RefInv' /\ NotifyInv'
  BY <1>2, HeldRefs, NotifyKept DEF IInv
<1> QED BY <1>1, <1>3, <1>5, <1>6, <1>7 DEF IInv

-----------------------------------------------------------------------------
(* Writing                                                                  *)

\* The writer stops when nothing is to be written.
LEMMA WriterIdlesStep ==
  ASSUME IInv, WriterIdles
  PROVE  IInv'
<1>0. /\ writer' = FALSE /\ ~CanTake
      /\ UNCHANGED <<use, requests, requestQ, replyQ, pending, destroyed, notifyVars, refs, held, stack, out, events>>
  BY DEF WriterIdles
<1>1. InNotify' = InNotify /\ InRead' = InRead /\ Ids' = Ids
  BY <1>0, SameHandler DEF Ids
<1>2. FrameInv' /\ Running' = Running
  BY <1>0, <1>1, FramesKept DEF IInv
<1>3. TypeOK'
  BY <1>0, <1>1 DEF IInv, TypeOK, notifyVars
<1>4. PlaceInv'
  <2>1. Queued' = Queued
    BY <1>0 DEF Queued
  <2> QED BY <1>0, <1>1, <1>2, <2>1 DEF IInv, PlaceInv
<1>5. OutInv'
  BY <1>0 DEF IInv, OutInv
<1>6. WakeInv'
  <2>1. replyQ' = <<>> /\ (requestQ' # <<>> => out' # <<>>)
    BY <1>0, PendingIsOut DEF CanTake, IInv
  <2> QED BY <2>1 DEF WakeInv
<1>7. RefInv' /\ NotifyInv'
  BY <1>0, <1>1, NotifyKept DEF IInv, RefInv, notifyVars
<1> QED BY <1>2, <1>3, <1>4, <1>5, <1>6, <1>7 DEF IInv

\* can_write_data keeps the invariant.
LEMMA CanWriteDataStep ==
  ASSUME IInv, CanWriteData
  PROVE  IInv'
<1> DEFINE x == IF replyQ # <<>> THEN Head(replyQ) ELSE Head(requestQ)
           f == RequestFrame("write", x)
<1>0. /\ writer /\ stack = <<>> /\ refs > 0 /\ CanTake
      /\ replyQ' = IF replyQ # <<>> THEN Tail(replyQ) ELSE replyQ
      /\ requestQ' = IF replyQ # <<>> THEN requestQ ELSE Tail(requestQ)
      /\ \/ /\ pending' = Append(pending, x) /\ out' = Append(out, x)
            /\ writer' = (replyQ' # <<>>) /\ UNCHANGED stack
         \/ /\ stack' = Append(stack, f) /\ UNCHANGED <<pending, out, writer>>
      /\ UNCHANGED <<use, requests, destroyed, notifyVars, refs, held, events>>
  BY DEF CanWriteData
<1>1. /\ requestQ \in Seq(Ids) /\ replyQ \in Seq(Ids) /\ pending \in Seq(Ids) /\ out \in Seq(Ids)
      /\ Range(requestQ) \subseteq Ids /\ Range(replyQ) \subseteq Ids /\ Range(pending) \subseteq Ids
      /\ Running \subseteq Ids /\ 0 \notin Ids /\ Ids \subseteq 1..MaxReq
  BY TypeFacts, RunningFacts DEF IInv
<1>2. /\ Distinct(requestQ) /\ Distinct(replyQ) /\ Distinct(pending)
      /\ Range(requestQ) \cap Range(replyQ) = {}
      /\ Range(requestQ) \cap Range(pending) = {}
      /\ Range(replyQ) \cap Range(pending) = {}
      /\ Running \cap Queued = {}
  BY DEF IInv, PlaceInv
<1>3. /\ requestQ' \in Seq(Ids) /\ replyQ' \in Seq(Ids) /\ Distinct(requestQ') /\ Distinct(replyQ')
      /\ x \in Range(requestQ) \cup Range(replyQ)
      /\ Range(requestQ') = Range(requestQ) \ {x} /\ Range(replyQ') = Range(replyQ) \ {x}
  <2>1. CASE replyQ # <<>>
    <3>1. /\ Head(replyQ) \in Range(replyQ) /\ Tail(replyQ) \in Seq(Ids) /\ Distinct(Tail(replyQ))
          /\ Range(Tail(replyQ)) = Range(replyQ) \ {Head(replyQ)}
      BY <1>1, <1>2, <2>1, TailList
    <3> QED BY <1>0, <1>1, <1>2, <2>1, <3>1
  <2>2. CASE replyQ = <<>>
    <3>1. requestQ # <<>>
      BY <1>0, <2>2 DEF CanTake
    <3>2. /\ Head(requestQ) \in Range(requestQ) /\ Tail(requestQ) \in Seq(Ids) /\ Distinct(Tail(requestQ))
          /\ Range(Tail(requestQ)) = Range(requestQ) \ {Head(requestQ)}
      BY <1>1, <1>2, <3>1, TailList
    <3> QED BY <1>0, <1>1, <1>2, <2>2, <3>2
  <2> QED BY <2>1, <2>2
<1>f. f \in Frame /\ f.kind = "write" /\ f.id = x /\ x # 0 /\ x \in Ids
  <2>1. x \in Ids /\ x # 0 /\ x \in 1..MaxReq
    BY <1>1, <1>3
  <2>2. x \in 0..MaxReq /\ 0 \in 0..MaxNotify
    BY <2>1, MgmtAssumption
  <2> QED BY <2>1, <2>2 DEF Frame, RequestFrame
<1>i. Ids' = Ids
  BY <1>0 DEF Ids
<1> HIDE DEF x, f
<1>4. x \in Queued /\ x \notin Running /\ x \notin Range(pending) /\ x \notin Range(out)
  BY <1>2, <1>3 DEF Queued, IInv, OutInv
<1>5. held /\ refs = 1
  BY <1>0, MgmtAssumption DEF IInv, RefInv, InRead
<1>6. CASE /\ pending' = Append(pending, x) /\ out' = Append(out, x)
           /\ writer' = (replyQ' # <<>>) /\ UNCHANGED stack
  <2>1. /\ OutInv' /\ out' \in Seq(Ids') /\ pending' \in Seq(Ids') /\ out' # <<>>
        /\ Range(pending') = Range(pending) \cup {x} /\ Distinct(pending')
    <3>1. x \in Ids' /\ Ids \subseteq Ids' /\ Seq(Ids) \subseteq Seq(Ids')
          /\ Range(requestQ') \subseteq Range(requestQ) \ {x} /\ Range(replyQ') \subseteq Range(replyQ) \ {x}
      BY <1>3, <1>f, <1>i
    <3> QED BY <1>2, <1>4, <1>6, <3>1, OutGrows DEF IInv
  <2>2. FrameInv' /\ Running' = Running
    BY <1>6, <1>i, FramesKept DEF IInv
  <2>3. InNotify' = InNotify /\ InRead' = InRead /\ Answering' = Answering
    BY <1>6, SameHandler
  <2>4. writer' \in BOOLEAN
    BY <1>6
  <2>5. TypeOK'
    BY <1>0, <1>3, <1>6, <1>i, <2>1, <2>4 DEF IInv, TypeOK, notifyVars
  <2>6. PlaceInv'
    <3>1. Queued' = Queued
      BY <1>3, <1>4, <2>1 DEF Queued
    <3>2. /\ Range(requestQ') \cap Range(replyQ') = {}
          /\ Range(requestQ') \cap Range(pending') = {}
          /\ Range(replyQ') \cap Range(pending') = {}
      BY <1>2, <1>3, <2>1
    <3>3. \A id \in Ids' : destroyed'[id] = IF id \in Queued' \cup Running' THEN 0 ELSE 1
      BY <1>0, <1>i, <2>2, <3>1 DEF IInv, PlaceInv
    <3> QED BY <1>2, <1>3, <2>1, <2>2, <3>1, <3>2, <3>3 DEF PlaceInv
  <2>7. WakeInv'
    BY <1>6, <2>1 DEF WakeInv
  <2>8. RefInv' /\ NotifyInv'
    BY <1>0, <1>5, <2>3, HeldRefs, NotifyKept DEF IInv
  <2> QED BY <2>1, <2>2, <2>5, <2>6, <2>7, <2>8 DEF IInv
<1>7. CASE stack' = Append(stack, f) /\ UNCHANGED <<pending, out, writer>>
  <2>1. /\ stack' \in Seq(Frame) /\ FrameInv' /\ stack' # <<>>
        /\ Running' = Running \cup ({f.id} \ {0})
        /\ stack'[1] = IF stack = <<>> THEN f ELSE stack[1]
    BY <1>0, <1>4, <1>7, <1>f, <1>i, Push DEF IInv
  <2>2. Running' = Running \cup {x} /\ stack'[1] = f
    BY <1>0, <1>f, <2>1
  <2>3. InNotify' = InNotify /\ InRead' = InRead
    BY <1>0, <1>f, <2>2 DEF InNotify, InRead
  <2>4. TypeOK'
    BY <1>0, <1>3, <1>7, <1>i, <2>1 DEF IInv, TypeOK, notifyVars
  <2>5. PlaceInv'
    <3>1. Queued' = Queued \ {x}
      BY <1>3, <1>4, <1>7 DEF Queued
    <3>2. /\ Range(requestQ') \cap Range(replyQ') = {}
          /\ Range(requestQ') \cap Range(pending') = {}
          /\ Range(replyQ') \cap Range(pending') = {}
      BY <1>2, <1>3, <1>7
    <3>3. \A id \in Ids' : destroyed'[id] = IF id \in Queued' \cup Running' THEN 0 ELSE 1
      BY <1>0, <1>4, <1>i, <2>2, <3>1 DEF IInv, PlaceInv
    <3>4. Running' \cap Queued' = {}
      BY <1>2, <2>2, <3>1
    <3> QED BY <1>2, <1>3, <1>7, <3>2, <3>3, <3>4 DEF PlaceInv
  <2>6. OutInv'
    <3>1. Range(out') \cap (Range(requestQ') \cup Range(replyQ')) = {}
      BY <1>3, <1>7 DEF IInv, OutInv
    <3> QED BY <1>7, <3>1 DEF IInv, OutInv
  <2>7. WakeInv'
    BY <1>0, <1>7 DEF WakeInv
  <2>8. RefInv' /\ NotifyInv'
    BY <1>0, <1>5, <2>3, HeldRefs, NotifyKept DEF IInv
  <2> QED BY <2>1, <2>4, <2>5, <2>6, <2>7, <2>8 DEF IInv
<1> QED BY <1>0, <1>6, <1>7

\* send_request ends the request of the callback that returned.
LEMMA WriteFailedStep ==
  ASSUME IInv, WriteFailed
  PROVE  IInv'
<1> DEFINE x == Last(stack).id
<1>0. /\ stack # <<>> /\ Last(stack).kind \in {"write", "nowait"}
      /\ destroyed' = Destroy({x}) /\ stack' = Front(stack)
      /\ UNCHANGED <<use, requests, requestQ, replyQ, pending, writer, notifyVars, refs, held, out, events>>
  BY DEF WriteFailed
<1>i. Ids' = Ids
  BY <1>0 DEF Ids
<1>1. /\ stack' \in Seq(Frame) /\ FrameInv'
      /\ Running' = Running \ {x} /\ (x # 0 => x \in Running)
      /\ stack' # <<>> => stack'[1] = stack[1]
      /\ stack' = <<>> => stack[1] = Last(stack)
  BY <1>0, <1>i, Pop DEF IInv
<1>2. x \in Ids /\ x # 0
  <2>1. Len(stack) \in DOMAIN stack /\ Last(stack) = stack[Len(stack)]
    BY <1>0, FrontList DEF IInv, TypeOK, Last
  <2>2. x \in Ids
    BY <1>0, <2>1 DEF IInv, FrameInv
  <2> QED BY <2>2, TypeFacts DEF IInv
<1> HIDE DEF x
<1>3. InNotify' = InNotify /\ InRead' = InRead /\ Answering' = Answering
  <2>1. CASE stack' # <<>>
    BY <1>0, <1>1, <2>1, SameHandler
  <2>2. CASE stack' = <<>>
    BY <1>0, <1>1, <2>2 DEF InNotify, InRead, Answering
  <2> QED BY <2>1, <2>2
<1>4. Queued' = Queued /\ x \notin Queued /\ x \in Running
  BY <1>0, <1>1, <1>2 DEF Queued, IInv, PlaceInv
<1>5. \A id \in Ids : destroyed'[id] = IF id \in Queued' \cup Running' THEN 0 ELSE 1
  <2> TAKE id \in Ids
  <2>1. destroyed[id] = IF id \in Queued \cup Running THEN 0 ELSE 1
    BY DEF IInv, PlaceInv
  <2>2. destroyed'[id] = IF id = x THEN destroyed[id] + 1 ELSE destroyed[id]
    BY <1>0 DEF Destroy
  <2>3. CASE id = x
    BY <1>1, <1>4, <2>1, <2>2, <2>3
  <2>4. CASE id # x
    BY <1>1, <1>4, <2>1, <2>2, <2>4
  <2> QED BY <2>3, <2>4
<1>6. destroyed' \in [Ids -> 0..1]
  <2>1. destroyed' = [id \in Ids |-> destroyed'[id]]
    BY <1>0 DEF Destroy
  <2>2. \A id \in Ids : destroyed'[id] \in 0..1
    BY <1>5
  <2> QED BY <2>1, <2>2
<1>7. TypeOK'
  BY <1>0, <1>1, <1>6, <1>i DEF IInv, TypeOK, notifyVars
<1>8. PlaceInv'
  <2>1. Running' \cap Queued' = {}
    BY <1>1, <1>4 DEF IInv, PlaceInv
  <2> QED BY <1>0, <1>5, <1>i, <2>1 DEF IInv, PlaceInv
<1>9. OutInv' /\ WakeInv'
  BY <1>0, <1>3 DEF IInv, OutInv, WakeInv
<1>10. RefInv'
  BY <1>0, <1>3 DEF IInv, RefInv, notifyVars
<1>11. NotifyInv'
  BY <1>0, <1>3, NotifyKept DEF IInv
<1> QED BY <1>1, <1>7, <1>8, <1>9, <1>10, <1>11 DEF IInv

-----------------------------------------------------------------------------
(* Answers                                                                  *)

\* request_complete takes the oldest pending command that matches.
LEMMA CommandAnsweredStep ==
  ASSUME IInv, NEW n \in DOMAIN out, CommandAnswered(n)
  PROVE  IInv'
<1> DEFINE x == out[n]
           waiting == {k \in DOMAIN pending : requests[pending[k]] = requests[x]}
<1>0. /\ stack = <<>> /\ refs > 0 /\ Oldest(n) /\ out' = Keep(out, DOMAIN out \ {n})
      /\ UNCHANGED <<use, requests, requestQ, replyQ, destroyed, notifyVars, held, events>>
  BY DEF CommandAnswered
<1>i. Ids' = Ids
  BY <1>0 DEF Ids
<1>1. /\ requestQ \in Seq(Ids) /\ replyQ \in Seq(Ids) /\ pending \in Seq(Ids) /\ out \in Seq(Ids)
      /\ Range(pending) \subseteq Ids /\ 0 \notin Ids /\ Ids \subseteq 1..MaxReq
      /\ DOMAIN pending \subseteq Nat
  BY TypeFacts DEF IInv
<1>2. held /\ refs = 1 /\ ~InRead /\ ~InNotify /\ Running = {}
  <2>1. ~InRead /\ ~InNotify /\ Running = {}
    BY <1>0 DEF InRead, InNotify, Running
  <2> QED BY <1>0, <2>1 DEF IInv, RefInv
<1>3. Distinct(out) /\ out' \in Seq(Ids) /\ Distinct(out') /\ Range(out') = Range(out) \ {x} /\ Sub(out', out)
  <2>1. Distinct(out) /\ DOMAIN out \ {n} \in SUBSET (DOMAIN out)
    BY DEF IInv, OutInv
  <2> QED BY <1>0, <1>1, <2>1, RemoveList, SubKeep
<1>4. CASE waiting = {}
  <2>1. writer' = Woken(writer, pending, replyQ) /\ UNCHANGED <<pending, stack, refs>>
    BY <1>4 DEF CommandAnswered
  <2>2. x \notin Range(pending)
    BY <1>4 DEF Range
  <2>3. OutInv'
    <3>1. Sub(pending', pending) /\ Range(pending') \subseteq Range(out') /\ Range(out') \subseteq Range(out)
          /\ pending' \in Seq(Ids)
      BY <1>1, <1>3, <2>1, <2>2 DEF Sub, IInv, OutInv
    <3> QED BY <1>0, <1>3, <3>1, OutShrinks DEF IInv
  <2>4. FrameInv' /\ Running' = Running
    BY <1>i, <2>1, FramesKept DEF IInv
  <2>5. InNotify' = InNotify /\ InRead' = InRead /\ Answering' = Answering
    BY <2>1, SameHandler
  <2>6. writer' \in BOOLEAN /\ (writer => writer')
    BY <2>1 DEF IInv, TypeOK, Woken
  <2>7. TypeOK'
    BY <1>0, <1>3, <1>i, <2>1, <2>6 DEF IInv, TypeOK, notifyVars
  <2>8. PlaceInv'
    <3>1. Queued' = Queued
      BY <1>0, <2>1 DEF Queued
    <3> QED BY <1>0, <1>i, <2>1, <2>4, <3>1 DEF IInv, PlaceInv
  <2>9. WakeInv'
    <3>1. CASE writer'
      BY <3>1 DEF WakeInv
    <3>2. CASE ~writer'
      <4>1. pending' # <<>> /\ replyQ' = <<>>
        BY <1>0, <2>1, <3>2 DEF Woken
      <4>2. out' # <<>>
        <5>1. 1 \in DOMAIN pending'
          BY <1>1, <2>1, <4>1
        <5>2. pending'[1] \in Range(out')
          BY <2>3, <5>1 DEF OutInv, Range
        <5>3. PICK a \in DOMAIN out' : out'[a] = pending'[1]
          BY <5>2 DEF Range
        <5> QED BY <5>3
      <4> QED BY <4>1, <4>2 DEF WakeInv
    <3> QED BY <3>1, <3>2
  <2>10. RefInv' /\ NotifyInv'
    BY <1>0, <1>2, <2>1, <2>5, HeldRefs, NotifyKept DEF IInv
  <2> QED BY <2>3, <2>4, <2>7, <2>8, <2>9, <2>10 DEF IInv
<1>5. CASE waiting # {}
  <2> DEFINE k == CHOOSE m \in waiting : \A j \in waiting : m <= j
             y == pending[k]
             f == RequestFrame("answer", y)
  <2>1. /\ pending' = Keep(pending, DOMAIN pending \ {k})
        /\ stack' = Append(stack, f) /\ refs' = Ref(refs) /\ UNCHANGED writer
    BY <1>5 DEF CommandAnswered
  <2>2. k \in waiting /\ \A j \in waiting : k <= j
    <3>1. waiting \in SUBSET Nat
      BY <1>1
    <3>2. \E m \in waiting : \A j \in waiting : m <= j
      <4> HIDE DEF waiting
      <4> QED BY <1>5, <3>1, LeastOf
    <3> HIDE DEF waiting
    <3> QED BY <3>2
  <2> HIDE DEF k
  <2>3. k \in DOMAIN pending /\ requests[y] = requests[x]
        /\ \A j \in DOMAIN pending : requests[pending[j]] = requests[out[n]] => k <= j
    BY <2>2
  <2>4. y \in Range(pending) /\ y \in Ids /\ y # 0
    BY <1>1, <2>3 DEF Range
  <2>5. f \in Frame /\ f.kind = "answer" /\ f.id = y
    <3>1. (\A i \in 1..MaxReq : i \in 0..MaxReq) /\ 0 \in 0..MaxNotify
      BY MgmtAssumption
    <3>2. y \in 0..MaxReq
      BY <1>1, <2>4, <3>1, Zenon
    <3> HIDE DEF y
    <3> QED BY <3>1, <3>2 DEF Frame, RequestFrame
  <2>6. pending' \in Seq(Ids) /\ Distinct(pending') /\ Range(pending') = Range(pending) \ {y} /\ Sub(pending', pending)
    <3>1. Distinct(pending) /\ DOMAIN pending \ {k} \in SUBSET (DOMAIN pending)
      BY DEF IInv, PlaceInv
    <3> QED BY <1>1, <2>1, <2>3, <3>1, RemoveList, SubKeep
  <2>7. x \in Range(pending) => y = x
    BY <1>0, <2>3, OldestAnswered DEF IInv
  <2> HIDE DEF x, y, f, waiting
  <2>8. OutInv'
    <3>1. Range(pending') \subseteq Range(out') /\ Range(out') \subseteq Range(out)
      BY <1>3, <2>6, <2>7 DEF IInv, OutInv
    <3> QED BY <1>0, <1>3, <2>6, <3>1, OutShrinks DEF IInv
  <2>9. /\ stack' \in Seq(Frame) /\ FrameInv' /\ stack' # <<>>
        /\ Running' = Running \cup ({f.id} \ {0})
        /\ stack'[1] = IF stack = <<>> THEN f ELSE stack[1]
    BY <1>0, <1>2, <1>i, <2>1, <2>4, <2>5, Push DEF IInv
  <2>10. Running' = {y} /\ InRead' /\ Answering'
    BY <1>0, <1>2, <2>4, <2>5, <2>9 DEF InRead, Answering
  <2>11. refs' = 2
    BY <1>2, <2>1 DEF Ref
  <2>12. TypeOK'
    BY <1>0, <1>1, <1>3, <1>i, <2>1, <2>6, <2>9, <2>11 DEF IInv, TypeOK, notifyVars
  <2>13. PlaceInv'
    <3>1. /\ Range(requestQ) \cap Range(replyQ) = {}
          /\ Range(requestQ) \cap Range(pending) = {}
          /\ Range(replyQ) \cap Range(pending) = {}
      BY DEF IInv, PlaceInv
    <3>2. Queued' = Queued \ {y} /\ y \in Queued
      BY <1>0, <2>4, <2>6, <3>1 DEF Queued
    <3>3. \A id \in Ids' : destroyed'[id] = IF id \in Queued' \cup Running' THEN 0 ELSE 1
      BY <1>0, <1>2, <1>i, <2>10, <3>2 DEF IInv, PlaceInv
    <3>4. Running' \cap Queued' = {}
      BY <2>10, <3>2
    <3>5. /\ Range(requestQ') \cap Range(pending') = {}
          /\ Range(replyQ') \cap Range(pending') = {}
      BY <1>0, <2>6, <3>1
    <3> QED BY <1>0, <2>6, <3>3, <3>4, <3>5 DEF IInv, PlaceInv
  <2>14. WakeInv'
    BY <1>0, <2>1, <2>10 DEF IInv, WakeInv
  <2>15. RefInv'
    BY <1>0, <1>2, <2>10, <2>11 DEF RefInv
  <2>16. NotifyInv'
    BY <1>0, <1>2, NotifyKept DEF IInv
  <2> QED BY <2>8, <2>9, <2>12, <2>13, <2>14, <2>15, <2>16 DEF IInv
<1> QED BY <1>4, <1>5

\* The last mgmt_unref: every request ends and every listener is released.
\* d is what was destroyed before.
LEMMA LastUnrefStep ==
  ASSUME TypeOK, NotifyInv, NEW d, NEW b \in BOOLEAN, ~b, LastUnref(b, d),
         \A id \in Ids : d[id] = IF id \in Queued THEN 0 ELSE 1,
         OutInv, stack' = <<>>, refs' = 0, held' = FALSE, UNCHANGED <<use, requests, nextNotify, out, events>>
  PROVE  IInv'
<1>0. /\ requestQ' = <<>> /\ replyQ' = <<>> /\ pending' = <<>> /\ writer' = FALSE
      /\ destroyed' = [id \in Ids |-> d[id] + (IF id \in Queued THEN 1 ELSE 0)]
      /\ notifies' = <<>> /\ released' = released \cup IdsOf(notifies) /\ cleanup' = FALSE
  BY DEF LastUnref, Queued
<1>i. Ids' = Ids
  BY DEF Ids
<1>1. \A id \in Ids : destroyed'[id] = 1
  <2> TAKE id \in Ids
  <2>1. destroyed'[id] = d[id] + (IF id \in Queued THEN 1 ELSE 0)
    BY <1>0
  <2>2. d[id] = IF id \in Queued THEN 0 ELSE 1
    OBVIOUS
  <2>3. CASE id \in Queued
    BY <2>1, <2>2, <2>3
  <2>4. CASE id \notin Queued
    BY <2>1, <2>2, <2>4
  <2> QED BY <2>3, <2>4
<1>2. destroyed' \in [Ids -> 0..1]
  <2>1. destroyed' = [id \in Ids |-> destroyed'[id]]
    BY <1>0
  <2>2. \A id \in Ids : destroyed'[id] \in 0..1
    BY <1>1
  <2> QED BY <2>1, <2>2
<1>3. /\ <<>> \in Seq(Ids) /\ <<>> \in Seq(Frame) /\ DOMAIN <<>> = {}
      /\ <<>> \in Seq([id : 1..MaxNotify, index : Index \cup {"none"}, removed : BOOLEAN])
  OBVIOUS
<1>4. Range(requestQ') = {} /\ Range(replyQ') = {} /\ Range(pending') = {} /\ Running' = {} /\ Queued' = {}
  BY <1>0, <1>3 DEF Range, Running, Queued
<1>5. released' = 1..(nextNotify - 1) /\ IdsOf(notifies)' = {} /\ released' \subseteq 1..MaxNotify
  <2>1. released' = 1..(nextNotify - 1)
    BY <1>0 DEF NotifyInv
  <2>2. IdsOf(notifies)' = {}
    BY <1>0, <1>3 DEF IdsOf, Range
  <2>3. nextNotify \in 1..(MaxNotify + 1) /\ MaxNotify \in Nat
    BY MgmtAssumption DEF TypeOK
  <2>4. 1..(nextNotify - 1) \subseteq 1..MaxNotify
    BY <2>3
  <2> QED BY <2>1, <2>2, <2>4
<1>6. TypeOK'
  <2>1. 0 \in 0..2 /\ out' \in Seq(Ids)
    BY TypeFacts
  <2> QED BY <1>0, <1>2, <1>3, <1>5, <1>i, <2>1 DEF TypeOK
<1>7. PlaceInv'
  BY <1>0, <1>1, <1>3, <1>4, <1>i DEF PlaceInv, Distinct
<1>8. FrameInv'
  BY <1>3 DEF FrameInv
<1>9. OutInv'
  BY <1>0, <1>3, <1>4 DEF OutInv, Range
<1>10. WakeInv'
  BY <1>0 DEF WakeInv
<1>11. RefInv'
  BY <1>0 DEF RefInv, InRead
<1>12. NotifyInv'
  BY <1>0, <1>3, <1>5 DEF NotifyInv
<1> QED BY <1>6, <1>7, <1>8, <1>9, <1>10, <1>11, <1>12 DEF IInv

\* request_complete ends the request, and can_read_data drops its reference.
LEMMA AnswerTakenStep ==
  ASSUME IInv, AnswerTaken
  PROVE  IInv'
<1> DEFINE x == Last(stack).id
           d == Destroy({x})
<1>0. /\ stack # <<>> /\ Last(stack).kind = "answer" /\ stack' = Front(stack) /\ refs' = refs - 1
      /\ UNCHANGED <<use, requests, nextNotify, held, out, events>>
  BY DEF AnswerTaken
<1>i. Ids' = Ids
  BY <1>0 DEF Ids
<1>1. /\ stack' \in Seq(Frame) /\ FrameInv'
      /\ Running' = Running \ {x} /\ (x # 0 => x \in Running)
      /\ stack' # <<>> => Last(stack).kind = "nowait"
      /\ stack' = <<>> => stack[1] = Last(stack)
  BY <1>0, <1>i, Pop DEF IInv
<1>2. stack' = <<>> /\ stack[1].kind = "answer" /\ Running' = {}
  BY <1>0, <1>1 DEF Running
<1>3. x \in Ids /\ x # 0 /\ x \in Running
  <2>1. Len(stack) \in DOMAIN stack /\ Last(stack) = stack[Len(stack)]
    BY <1>0, FrontList DEF IInv, TypeOK, Last
  <2>2. x \in Ids
    BY <1>0, <2>1 DEF IInv, FrameInv
  <2> QED BY <1>1, <2>2, TypeFacts DEF IInv
<1>4. Running = {x} /\ Running \cap Queued = {}
  BY <1>1, <1>2, <1>3 DEF IInv, PlaceInv
<1>5. InRead /\ ~InNotify /\ ~InRead' /\ ~InNotify' /\ ~Answering'
  BY <1>0, <1>2 DEF InRead, InNotify, Answering
<1>6. \A id \in Ids : d[id] = IF id \in Queued THEN 0 ELSE 1
  <2> TAKE id \in Ids
  <2>1. destroyed[id] = IF id \in Queued \cup Running THEN 0 ELSE 1
    BY DEF IInv, PlaceInv
  <2>2. d[id] = IF id = x THEN destroyed[id] + 1 ELSE destroyed[id]
    BY DEF Destroy
  <2>3. CASE id = x
    BY <1>4, <2>1, <2>2, <2>3
  <2>4. CASE id # x
    BY <1>4, <2>1, <2>2, <2>4
  <2> QED BY <2>3, <2>4
<1>7. d \in [Ids -> 0..1]
  <2>1. d = [id \in Ids |-> d[id]]
    BY DEF Destroy
  <2>2. \A id \in Ids : d[id] \in 0..1
    BY <1>6
  <2> QED BY <2>1, <2>2
<1> HIDE DEF x, d
<1>8. CASE refs = 1
  <2>1. LastUnref(FALSE, d)
    BY <1>8 DEF AnswerTaken, d, x
  <2>2. ~held /\ refs' = 0 /\ held' = FALSE
    BY <1>0, <1>5, <1>8 DEF IInv, RefInv, TypeOK
  <2>3. FALSE \in BOOLEAN /\ ~FALSE
    OBVIOUS
  <2> QED BY <1>0, <1>2, <1>6, <2>1, <2>2, <2>3, LastUnrefStep DEF IInv
<1>9. CASE refs # 1
  <2>1. /\ destroyed' = d /\ writer' = Woken(writer, pending, replyQ)
        /\ UNCHANGED <<requestQ, replyQ, pending, notifies, released, cleanup>>
    BY <1>9 DEF AnswerTaken, d, x
  <2>2. held /\ refs' = 1
    BY <1>0, <1>5, <1>9 DEF IInv, RefInv
  <2>3. writer' \in BOOLEAN /\ (writer => writer') /\ (writer' \/ pending # <<>>)
    BY <2>1 DEF IInv, TypeOK, Woken
  <2>4. TypeOK'
    BY <1>0, <1>1, <1>7, <1>i, <2>1, <2>2, <2>3 DEF IInv, TypeOK
  <2>5. PlaceInv'
    <3>1. Queued' = Queued
      BY <2>1 DEF Queued
    <3>2. \A id \in Ids' : destroyed'[id] = IF id \in Queued' \cup Running' THEN 0 ELSE 1
      BY <1>2, <1>6, <1>i, <2>1, <3>1
    <3> QED BY <1>2, <2>1, <3>1, <3>2 DEF IInv, PlaceInv
  <2>6. OutInv'
    BY <1>0, <2>1 DEF IInv, OutInv
  <2>7. WakeInv'
    <3>1. writer' \/ out' # <<>>
      BY <1>0, <2>3, PendingIsOut DEF IInv
    <3> QED BY <2>1, <2>3, <3>1 DEF IInv, WakeInv
  <2>8. RefInv'
    <3>1. held'
      BY <1>0, <2>2
    <3> QED BY <1>5, <2>2, <3>1 DEF RefInv
  <2>9. NotifyInv'
    BY <1>0, <1>5, <2>1, NotifyKept DEF IInv, notifyVars
  <2> QED BY <1>1, <2>4, <2>5, <2>6, <2>7, <2>8, <2>9 DEF IInv
<1> QED BY <1>8, <1>9

\* mgmt_unref keeps the invariant.
LEMMA UnrefStep ==
  ASSUME IInv, Unref
  PROVE  IInv'
<1>0. /\ held /\ (stack = <<>> \/ InRead) /\ held' = FALSE /\ refs' = refs - 1
      /\ UNCHANGED <<use, requests, nextNotify, stack, out, events>>
  BY DEF Unref, ClientRuns
<1>1. CASE refs = 1
  <2>1. ~InRead /\ stack = <<>> /\ refs' = 0
    BY <1>0, <1>1 DEF IInv, RefInv
  <2>2. LastUnref(InNotify, destroyed) /\ ~InNotify /\ InNotify \in BOOLEAN
    BY <1>1, <2>1 DEF Unref, InNotify
  <2>3. Running = {}
    BY <2>1 DEF Running
  <2>4. \A id \in Ids : destroyed[id] = IF id \in Queued THEN 0 ELSE 1
    BY <2>3 DEF IInv, PlaceInv
  <2>5. stack' = <<>>
    BY <1>0, <2>1
  <2> QED BY <1>0, <2>1, <2>2, <2>4, <2>5, LastUnrefStep DEF IInv
<1>2. CASE refs # 1
  <2>1. UNCHANGED <<requestQ, replyQ, pending, destroyed, writer, notifies, released, cleanup>>
    BY <1>2 DEF Unref
  <2>2. InRead /\ refs = 2 /\ refs' = 1
    BY <1>0, <1>2 DEF IInv, RefInv
  <2>3. InNotify' = InNotify /\ InRead' = InRead /\ Answering' = Answering /\ Ids' = Ids
    BY <1>0, SameHandler DEF Ids
  <2>4. FrameInv' /\ Running' = Running
    BY <1>0, <2>3, FramesKept DEF IInv
  <2>5. TypeOK'
    <3>1. held' \in BOOLEAN
      BY <1>0, Zenon
    <3>2. refs' \in 0..2
      BY <2>2
    <3> QED BY <1>0, <2>1, <2>3, <3>1, <3>2 DEF IInv, TypeOK
  <2>6. PlaceInv'
    <3>1. Queued' = Queued
      BY <2>1 DEF Queued
    <3> QED BY <2>1, <2>3, <2>4, <3>1 DEF IInv, PlaceInv
  <2>7. OutInv' /\ WakeInv'
    BY <1>0, <2>1, <2>3 DEF IInv, OutInv, WakeInv
  <2>8. RefInv'
    BY <1>0, <2>2, <2>3 DEF RefInv
  <2>9. NotifyInv'
    BY <1>0, <2>1, <2>3, NotifyKept DEF IInv, notifyVars
  <2> QED BY <2>4, <2>5, <2>6, <2>7, <2>8, <2>9 DEF IInv
<1> QED BY <1>1, <1>2

-----------------------------------------------------------------------------
(* Listeners of events                                                      *)

Entry == [id : 1..MaxNotify, index : Index \cup {"none"}, removed : BOOLEAN]

\* The numbers of the listeners of a list.
LEMMA IdsOfList ==
  ASSUME NEW s
  PROVE  IdsOf(s) = {s[k].id : k \in DOMAIN s}
BY DEF IdsOf, Range

\* The positions of notify_list are numbers a frame can hold.
LEMMA ListenerFacts ==
  ASSUME TypeOK, NotifyInv
  PROVE  /\ notifies \in Seq(Entry) /\ Len(notifies) \in Nat /\ DOMAIN notifies = 1..Len(notifies)
         /\ \A k \in DOMAIN notifies : notifies[k] \in Entry /\ notifies[k].id \in 1..MaxNotify
         /\ Len(notifies) <= MaxNotify /\ Len(notifies) < nextNotify
         /\ nextNotify \in 1..(MaxNotify + 1) /\ MaxNotify \in Nat
<1>1. notifies \in Seq(Entry) /\ nextNotify \in 1..(MaxNotify + 1) /\ MaxNotify \in Nat
  BY MgmtAssumption DEF TypeOK, Entry
<1>2. /\ Len(notifies) \in Nat /\ DOMAIN notifies = 1..Len(notifies)
      /\ \A k \in DOMAIN notifies : notifies[k] \in Entry
  BY <1>1
<1>3. \A k \in DOMAIN notifies : notifies[k].id \in 1..MaxNotify
  BY <1>2 DEF Entry
<1>4. Len(notifies) <= MaxNotify /\ Len(notifies) < nextNotify
  <2>1. CASE Len(notifies) = 0
    BY <1>1, <2>1
  <2>2. CASE Len(notifies) # 0
    <3>1. Len(notifies) \in DOMAIN notifies
      BY <1>2, <2>2
    <3>2. PICK m \in 1..MaxNotify : m = notifies[Len(notifies)].id
      BY <1>3, <3>1
    <3>3. Len(notifies) <= m /\ m < nextNotify
      BY <3>1, <3>2 DEF NotifyInv
    <3> QED BY <1>1, <1>2, <3>3
  <2> QED BY <2>1, <2>2
<1> QED BY <1>1, <1>2, <1>3, <1>4

\* The rest of the state while listeners come and go.
LEMMA ListenersStep ==
  ASSUME IInv, held, NotifyInv', notifies' \in Seq(Entry), released' \subseteq 1..MaxNotify,
         cleanup' \in BOOLEAN, nextNotify' \in 1..(MaxNotify + 1),
         UNCHANGED <<use, queueVars, refs, held, stack, out, events>>
  PROVE  IInv'
<1>1. InNotify' = InNotify /\ InRead' = InRead /\ Answering' = Answering /\ Ids' = Ids
  BY SameHandler DEF Ids, queueVars
<1>2. FrameInv' /\ Running' = Running
  BY <1>1, FramesKept DEF IInv
<1>3. TypeOK'
  BY <1>1 DEF IInv, TypeOK, queueVars, Entry
<1>4. PlaceInv'
  <2>1. Queued' = Queued
    BY DEF Queued, queueVars
  <2> QED BY <1>1, <1>2, <2>1 DEF IInv, PlaceInv, queueVars
<1>5. OutInv' /\ WakeInv'
  BY <1>1 DEF IInv, OutInv, WakeInv, queueVars
<1>6. RefInv'
  BY <1>1, HeldRefs DEF IInv
<1> QED BY <1>2, <1>3, <1>4, <1>5, <1>6 DEF IInv

\* mgmt_register keeps the invariant.
LEMMA RegisterStep ==
  ASSUME IInv, NEW i \in Index \cup {"none"}, Register(i)
  PROVE  IInv'
<1> DEFINE e == [id |-> nextNotify, index |-> i, removed |-> FALSE]
<1>0. /\ held /\ nextNotify <= MaxNotify /\ notifies' = Append(notifies, e) /\ nextNotify' = nextNotify + 1
      /\ UNCHANGED <<use, queueVars, cleanup, released, refs, held, stack, out, events>>
  BY DEF Register, ClientRuns
<1>1. /\ notifies \in Seq(Entry) /\ Len(notifies) \in Nat /\ DOMAIN notifies = 1..Len(notifies)
      /\ \A k \in DOMAIN notifies : notifies[k] \in Entry /\ notifies[k].id \in 1..MaxNotify
      /\ Len(notifies) < nextNotify /\ nextNotify \in 1..(MaxNotify + 1) /\ MaxNotify \in Nat
  BY ListenerFacts DEF IInv
<1>2. e \in Entry /\ e.id = nextNotify /\ e.removed = FALSE
  <2>1. nextNotify \in 1..MaxNotify
    BY <1>0, <1>1
  <2> QED BY <2>1 DEF Entry
<1> HIDE DEF e
<1>3. /\ notifies' \in Seq(Entry)
      /\ DOMAIN notifies' = DOMAIN notifies \cup {Len(notifies) + 1} /\ Len(notifies) + 1 \notin DOMAIN notifies
      /\ \A k \in DOMAIN notifies : notifies'[k] = notifies[k]
      /\ notifies'[Len(notifies) + 1] = e
  BY <1>0, <1>1, <1>2, AppendList
<1>4. InNotify' = InNotify
  BY <1>0, SameHandler
<1>5. \A k \in DOMAIN notifies : k <= notifies[k].id /\ notifies[k].id < nextNotify /\ k \in Nat
                                 /\ notifies[k].id \in Nat
  BY <1>1 DEF IInv, NotifyInv
<1>6. \A k \in DOMAIN notifies' : k <= notifies'[k].id /\ notifies'[k].id < nextNotify'
  <2> TAKE k \in DOMAIN notifies'
  <2>1. CASE k \in DOMAIN notifies
    <3>1. k <= notifies[k].id /\ notifies[k].id < nextNotify /\ notifies[k].id \in Nat
      BY <1>5, <2>1
    <3>2. notifies[k].id < nextNotify + 1
      BY <1>1, <3>1
    <3> QED BY <1>0, <1>3, <2>1, <3>1, <3>2
  <2>2. CASE k = Len(notifies) + 1
    <3>1. notifies'[k].id = nextNotify
      BY <1>2, <1>3, <2>2
    <3> QED BY <1>0, <1>1, <2>2, <3>1
  <2> QED BY <1>3, <2>1, <2>2
<1>7. \A k \in DOMAIN notifies : notifies[k].id # nextNotify
  BY <1>1, <1>5
<1>8. \A j, k \in DOMAIN notifies' : notifies'[j].id = notifies'[k].id => j = k
  BY <1>2, <1>3, <1>7 DEF IInv, NotifyInv
<1>9. \A k \in DOMAIN notifies' : notifies'[k].removed => cleanup
  BY <1>2, <1>3 DEF IInv, NotifyInv
<1>10. IdsOf(notifies)' = IdsOf(notifies) \cup {nextNotify}
  <2>1. IdsOf(notifies') = IdsOf(notifies) \cup {nextNotify}
    BY <1>2, <1>3, IdsOfList
  <2> QED BY <2>1 DEF IdsOf
<1>11. IdsOf(notifies)' \cup released' = 1..(nextNotify' - 1)
  <2>1. IdsOf(notifies) \cup released = 1..(nextNotify - 1)
    BY DEF IInv, NotifyInv
  <2>2. 1..(nextNotify' - 1) = 1..(nextNotify - 1) \cup {nextNotify}
    BY <1>0, <1>1
  <2> QED BY <1>0, <1>10, <2>1, <2>2
<1>12. IdsOf(notifies)' \cap released' = {}
  <2>1. nextNotify \notin 1..(nextNotify - 1)
    BY <1>1
  <2>2. released \subseteq 1..(nextNotify - 1) /\ IdsOf(notifies) \cap released = {}
    BY DEF IInv, NotifyInv
  <2> QED BY <1>0, <1>10, <2>1, <2>2
<1>13. NotifyInv'
  BY <1>0, <1>4, <1>6, <1>8, <1>9, <1>11, <1>12 DEF IInv, NotifyInv
<1>14. nextNotify' \in 1..(MaxNotify + 1)
  BY <1>0, <1>1
<1>15. released' \subseteq 1..MaxNotify /\ cleanup' \in BOOLEAN
  BY <1>0 DEF IInv, TypeOK
<1> QED BY <1>0, <1>3, <1>13, <1>14, <1>15, ListenersStep

\* Listeners are removed from the list and released: those at K stay.
LEMMA ListenersLeave ==
  ASSUME TypeOK, NotifyInv, NEW K \in SUBSET (DOMAIN notifies), notifies' = Keep(notifies, K),
         released' = released \cup {notifies[k].id : k \in DOMAIN notifies \ K},
         UNCHANGED nextNotify,
         \A k \in K : notifies[k].removed => cleanup', cleanup' => InNotify'
  PROVE  NotifyInv' /\ notifies' \in Seq(Entry) /\ released' \subseteq 1..MaxNotify
<1>1. /\ notifies \in Seq(Entry) /\ Len(notifies) \in Nat /\ DOMAIN notifies = 1..Len(notifies)
      /\ \A k \in DOMAIN notifies : notifies[k] \in Entry /\ notifies[k].id \in 1..MaxNotify
      /\ nextNotify \in 1..(MaxNotify + 1) /\ MaxNotify \in Nat
  BY ListenerFacts
<1>2. notifies' \in Seq(Entry) /\ Range(notifies') = {notifies[k] : k \in K}
  BY <1>1, KeepList
<1>3. ASSUME NEW j \in DOMAIN notifies', NEW k \in DOMAIN notifies'
      PROVE  \E a, b \in K : /\ notifies'[j] = notifies[a] /\ notifies'[k] = notifies[b]
                             /\ (j < k <=> a < b) /\ j <= a /\ k <= b
  BY <1>1, KeepSorted
<1>4. \A k \in DOMAIN notifies' : /\ k <= notifies'[k].id /\ notifies'[k].id < nextNotify'
                                  /\ notifies'[k].removed => cleanup'
  <2> TAKE k \in DOMAIN notifies'
  <2>1. PICK a \in K : notifies'[k] = notifies[a] /\ k <= a
    BY <1>3
  <2>2. a <= notifies[a].id /\ notifies[a].id < nextNotify /\ notifies[a].id \in 1..MaxNotify
        /\ a \in 1..Len(notifies)
    BY <1>1 DEF NotifyInv
  <2>3. k \in 1..Len(notifies')
    BY <1>2
  <2>4. Len(notifies') \in Nat
    BY <1>2
  <2>5. k <= notifies[a].id
    BY <1>1, <2>1, <2>2, <2>3, <2>4
  <2> QED BY <2>1, <2>2, <2>5
<1>5. \A j, k \in DOMAIN notifies' : notifies'[j].id = notifies'[k].id => j = k
  <2> SUFFICES ASSUME NEW j \in DOMAIN notifies', NEW k \in DOMAIN notifies', notifies'[j].id = notifies'[k].id
               PROVE  j = k
    OBVIOUS
  <2>1. PICK a \in K, b \in K : /\ notifies'[j] = notifies[a] /\ notifies'[k] = notifies[b] /\ (j < k <=> a < b)
    BY <1>3
  <2>2. a = b
    BY <2>1 DEF NotifyInv
  <2>3. PICK c \in K, d \in K : /\ notifies'[k] = notifies[c] /\ notifies'[j] = notifies[d] /\ (k < j <=> c < d)
    BY <1>3
  <2>4. c = d
    BY <2>3 DEF NotifyInv
  <2>5. ~(j < k) /\ ~(k < j)
    BY <1>1, <2>1, <2>2, <2>3, <2>4
  <2>6. j \in Nat /\ k \in Nat
    BY <1>2
  <2> QED BY <2>5, <2>6
<1>6. IdsOf(notifies)' = {notifies[k].id : k \in K}
  <2>1. IdsOf(notifies') = {notifies[k].id : k \in K}
    BY <1>2 DEF IdsOf
  <2> QED BY <2>1 DEF IdsOf
<1>7. IdsOf(notifies) = {notifies[k].id : k \in DOMAIN notifies}
  BY IdsOfList
<1>8. IdsOf(notifies)' \cup released' = 1..(nextNotify' - 1)
  <2>1. {notifies[k].id : k \in DOMAIN notifies} =
          {notifies[k].id : k \in K} \cup {notifies[k].id : k \in DOMAIN notifies \ K}
    OBVIOUS
  <2>2. IdsOf(notifies) \cup released = 1..(nextNotify - 1)
    BY DEF NotifyInv
  <2> QED BY <1>6, <1>7, <2>1, <2>2
<1>9. IdsOf(notifies)' \cap released' = {}
  <2>1. {notifies[k].id : k \in K} \cap {notifies[k].id : k \in DOMAIN notifies \ K} = {}
    BY DEF NotifyInv
  <2>2. {notifies[k].id : k \in K} \subseteq IdsOf(notifies) /\ IdsOf(notifies) \cap released = {}
    BY <1>7 DEF NotifyInv
  <2> QED BY <1>6, <2>1, <2>2
<1>10. released' \subseteq 1..MaxNotify
  BY <1>1 DEF TypeOK
<1>11. NotifyInv'
  BY <1>4, <1>5, <1>8, <1>9 DEF NotifyInv
<1> QED BY <1>2, <1>10, <1>11

\* mgmt_unregister keeps the invariant.
LEMMA UnregisterStep ==
  ASSUME IInv, NEW n \in DOMAIN notifies, Unregister(n)
  PROVE  IInv'
<1> DEFINE K == DOMAIN notifies \ {n}
<1>0. /\ held /\ ~InNotify /\ notifies' = Keep(notifies, K)
      /\ released' = released \cup {notifies[n].id}
      /\ UNCHANGED <<use, queueVars, cleanup, nextNotify, refs, held, stack, out, events>>
  BY DEF Unregister, ClientRuns
<1>1. released' = released \cup {notifies[k].id : k \in DOMAIN notifies \ K} /\ K \in SUBSET (DOMAIN notifies)
  BY <1>0
<1>2. InNotify' = InNotify /\ (cleanup' => InNotify') /\ \A k \in K : notifies[k].removed => cleanup'
  BY <1>0, SameHandler DEF IInv, NotifyInv
<1> HIDE DEF K
<1>3. NotifyInv' /\ notifies' \in Seq(Entry) /\ released' \subseteq 1..MaxNotify
  BY <1>0, <1>1, <1>2, ListenersLeave DEF IInv
<1>4. cleanup' \in BOOLEAN /\ nextNotify' \in 1..(MaxNotify + 1)
  BY <1>0 DEF IInv, TypeOK
<1> QED BY <1>0, <1>3, <1>4, ListenersStep

\* mgmt_unregister_index and mgmt_unregister_all, in an event and outside.
LEMMA UnregisterEntriesStep ==
  ASSUME IInv, held, NEW S \in SUBSET IdsOf(notifies), UnregisterEntries(S),
         UNCHANGED <<use, queueVars, nextNotify, refs, held, stack, out, events>>
  PROVE  IInv'
<1>0. InNotify' = InNotify
  BY SameHandler
<1>1. CASE ~InNotify
  <2> DEFINE K == {n \in DOMAIN notifies : notifies[n].id \notin S}
  <2>1. notifies' = Keep(notifies, K) /\ released' = released \cup S /\ UNCHANGED cleanup
    BY <1>1 DEF UnregisterEntries
  <2>2. S = {notifies[k].id : k \in DOMAIN notifies \ K}
    BY IdsOfList
  <2>3. K \in SUBSET (DOMAIN notifies) /\ (cleanup' => InNotify') /\ \A k \in K : notifies[k].removed => cleanup'
    BY <1>0, <2>1 DEF IInv, NotifyInv
  <2> HIDE DEF K
  <2>4. NotifyInv' /\ notifies' \in Seq(Entry) /\ released' \subseteq 1..MaxNotify
    BY <2>1, <2>2, <2>3, ListenersLeave DEF IInv
  <2>5. cleanup' \in BOOLEAN /\ nextNotify' \in 1..(MaxNotify + 1)
    BY <2>1 DEF IInv, TypeOK
  <2> QED BY <2>4, <2>5, ListenersStep
<1>2. CASE InNotify
  <2>1. /\ notifies' = [n \in DOMAIN notifies |->
                         [notifies[n] EXCEPT !.removed = @ \/ notifies[n].id \in S]]
        /\ cleanup' = TRUE /\ UNCHANGED released
    BY <1>2 DEF UnregisterEntries
  <2>2. /\ notifies \in Seq(Entry) /\ Len(notifies) \in Nat /\ DOMAIN notifies = 1..Len(notifies)
        /\ \A k \in DOMAIN notifies : notifies[k] \in Entry
    BY ListenerFacts DEF IInv
  <2>3. /\ DOMAIN notifies' = DOMAIN notifies
        /\ \A k \in DOMAIN notifies : notifies'[k] \in Entry /\ notifies'[k].id = notifies[k].id
    BY <2>1, <2>2 DEF Entry
  <2>4. notifies' \in Seq(Entry)
    <3>1. notifies' \in [1..Len(notifies) -> Entry]
      BY <2>1, <2>2, <2>3
    <3> QED BY <2>2, <3>1
  <2>5. IdsOf(notifies)' = IdsOf(notifies)
    <3>1. IdsOf(notifies') = IdsOf(notifies)
      BY <2>3, IdsOfList
    <3> QED BY <3>1 DEF IdsOf
  <2>6. NotifyInv'
    <3>1. cleanup' /\ InNotify'
      BY <1>0, <1>2, <2>1
    <3>2. \A k \in DOMAIN notifies' : k <= notifies'[k].id /\ notifies'[k].id < nextNotify'
      BY <2>3 DEF IInv, NotifyInv
    <3>3. \A j, k \in DOMAIN notifies' : notifies'[j].id = notifies'[k].id => j = k
      BY <2>3 DEF IInv, NotifyInv
    <3>4. /\ IdsOf(notifies)' \cup released' = 1..(nextNotify' - 1)
          /\ IdsOf(notifies)' \cap released' = {}
      BY <2>1, <2>5 DEF IInv, NotifyInv
    <3> QED BY <3>1, <3>2, <3>3, <3>4 DEF NotifyInv
  <2>7. cleanup' \in BOOLEAN
    BY <2>1, Zenon
  <2>8. released' \subseteq 1..MaxNotify /\ nextNotify' \in 1..(MaxNotify + 1)
    BY <2>1 DEF IInv, TypeOK
  <2> QED BY <2>4, <2>6, <2>7, <2>8, ListenersStep
<1> QED BY <1>1, <1>2

\* The main loop or a callback that returned calls a listener.
LEMMA NotifyFrameFacts ==
  ASSUME IInv, NEW i \in Index \cup {"none"}, NEW n \in 0..MaxNotify, Listening(n, i) # {}
  PROVE  LET k == CHOOSE k \in Listening(n, i) : \A j \in Listening(n, i) : k <= j
         IN  /\ NotifyFrame(i, k) \in Frame
             /\ NotifyFrame(i, k).kind = "notify" /\ NotifyFrame(i, k).id = 0
<1> DEFINE L == Listening(n, i)
           k == CHOOSE k \in L : \A j \in L : k <= j
<1>1. /\ Len(notifies) \in Nat /\ DOMAIN notifies = 1..Len(notifies)
      /\ Len(notifies) <= MaxNotify /\ MaxNotify \in Nat
  BY ListenerFacts DEF IInv
<1>2. L \in SUBSET (DOMAIN notifies) /\ L \in SUBSET Nat
  BY <1>1 DEF Listening
<1> HIDE DEF L
<1>3. \E m \in L : \A j \in L : m <= j
  BY <1>2, LeastOf DEF L
<1>4. k \in L
  BY <1>3
<1> HIDE DEF k
<1>5. k \in 1..Len(notifies)
  BY <1>1, <1>2, <1>4
<1>6. (IF k = Len(notifies) THEN 0 ELSE k + 1) \in 0..MaxNotify /\ 0 \in 0..MaxReq
  <2>1. CASE k = Len(notifies)
    BY <1>1, <2>1, MgmtAssumption
  <2>2. CASE k # Len(notifies)
    <3>1. \A m, l, b \in Nat : (m \in 1..l /\ m # l /\ l <= b) => m + 1 \in 0..b
      OBVIOUS
    <3>2. k \in Nat
      BY <1>2, <1>4
    <3>3. k + 1 \in 0..MaxNotify
      BY <1>1, <1>5, <2>2, <3>1, <3>2
    <3> QED BY <2>2, <3>3, MgmtAssumption
  <2> QED BY <2>1, <2>2
<1>7. /\ NotifyFrame(i, k) \in Frame
      /\ NotifyFrame(i, k).kind = "notify" /\ NotifyFrame(i, k).id = 0
  BY <1>6 DEF NotifyFrame, Frame
<1> QED BY <1>7 DEF k, L

\* can_read_data begins to tell the listeners of an event.
LEMMA EventStep ==
  ASSUME IInv, NEW i \in Index, Event(i)
  PROVE  IInv'
<1>0. /\ stack = <<>> /\ refs > 0 /\ events < MaxEvent /\ events' = events + 1
      /\ UNCHANGED <<use, queueVars, notifyVars, held, out>>
  BY DEF Event
<1>1. held /\ refs = 1 /\ ~InRead /\ ~InNotify /\ Running = {} /\ Ids' = Ids
  <2>1. ~InRead /\ ~InNotify /\ Running = {} /\ Ids' = Ids
    BY <1>0 DEF InRead, InNotify, Running, Ids, queueVars
  <2> QED BY <1>0, <2>1 DEF IInv, RefInv
<1>2. events' \in 0..MaxEvent
  BY <1>0, MgmtAssumption DEF IInv, TypeOK
<1>3. ASSUME stack' \in Seq(Frame), FrameInv', Running' = Running, refs' \in 0..2, RefInv'
      PROVE  IInv'
  <2>1. TypeOK'
    BY <1>0, <1>1, <1>2, <1>3 DEF IInv, TypeOK, queueVars, notifyVars
  <2>2. PlaceInv'
    <3>1. Queued' = Queued
      BY <1>0 DEF Queued, queueVars
    <3> QED BY <1>0, <1>1, <1>3, <3>1 DEF IInv, PlaceInv, queueVars
  <2>3. OutInv'
    BY <1>0 DEF IInv, OutInv, queueVars
  <2>4. WakeInv'
    BY <1>0 DEF IInv, WakeInv, queueVars, Answering
  <2>5. NotifyInv'
    BY <1>0, <1>1, NotifyKept DEF IInv
  <2> QED BY <1>3, <2>1, <2>2, <2>3, <2>4, <2>5 DEF IInv
<1>4. CASE Listening(1, i) = {}
  <2>1. UNCHANGED <<stack, refs>>
    BY <1>4 DEF Event
  <2>2. FrameInv' /\ Running' = Running /\ InRead' = InRead
    BY <1>1, <2>1, FramesKept, SameHandler DEF IInv
  <2>3. RefInv'
    BY <1>0, <1>1, <2>1, <2>2, HeldRefs DEF IInv
  <2> QED BY <1>3, <2>1, <2>2, <2>3 DEF IInv, TypeOK
<1>5. CASE Listening(1, i) # {}
  <2> DEFINE k == CHOOSE k \in Listening(1, i) : \A j \in Listening(1, i) : k <= j
             f == NotifyFrame(i, k)
  <2>1. stack' = Append(stack, f) /\ refs' = Ref(refs)
    BY <1>5 DEF Event
  <2>2. f \in Frame /\ f.kind = "notify" /\ f.id = 0
    <3>1. 1 \in 0..MaxNotify
      <4>1. PICK m \in DOMAIN notifies : TRUE
        BY <1>5 DEF Listening
      <4> QED BY <4>1, ListenerFacts DEF IInv
    <3> QED BY <1>5, <3>1, NotifyFrameFacts
  <2> HIDE DEF f
  <2>3. /\ stack' \in Seq(Frame) /\ FrameInv' /\ stack' # <<>>
        /\ Running' = Running \cup ({f.id} \ {0})
        /\ stack'[1] = IF stack = <<>> THEN f ELSE stack[1]
    BY <1>0, <1>1, <2>1, <2>2, Push DEF IInv
  <2>4. Running' = Running /\ InRead' /\ refs' = 2
    <3>1. Running' = Running /\ InRead'
      BY <1>0, <2>2, <2>3 DEF InRead
    <3> QED BY <1>1, <2>1, <3>1 DEF Ref
  <2>5. RefInv'
    <3>1. held'
      BY <1>0, <1>1
    <3> QED BY <2>4, <3>1 DEF RefInv
  <2> QED BY <1>3, <2>3, <2>4, <2>5
<1> QED BY <1>4, <1>5

\* A listener's callback is the only one that runs when the next is called.
LEMMA NotifyAlone ==
  ASSUME IInv, stack # <<>>, Last(stack).kind = "notify"
  PROVE  /\ Last(stack) \in Frame /\ Last(stack).id = 0
         /\ Front(stack) = <<>> /\ Len(stack) = 1 /\ stack[1] = Last(stack)
         /\ Running = {} /\ InNotify /\ InRead
<1>1. /\ stack \in Seq(Frame) /\ Len(stack) \in Nat /\ DOMAIN stack = 1..Len(stack)
      /\ Len(stack) \in DOMAIN stack /\ Last(stack) = stack[Len(stack)]
  BY FrontList DEF IInv, TypeOK, Last
<1>2. Len(stack) = 1
  BY <1>1 DEF IInv, FrameInv
<1>3. stack[1] = Last(stack) /\ Last(stack) \in Frame /\ Last(stack).id = 0
  BY <1>1, <1>2 DEF IInv, FrameInv
<1>d. DOMAIN stack = {1}
  <2>1. 1..1 = {1}
    OBVIOUS
  <2> QED BY <1>1, <1>2, <2>1
<1>4. Front(stack) = <<>>
  <2>1. Front(stack) \in Seq(Frame) /\ DOMAIN Front(stack) = DOMAIN stack \ {Len(stack)}
    BY <1>1, FrontList DEF Front
  <2>2. DOMAIN Front(stack) = {}
    BY <1>2, <1>d, <2>1, Zenon
  <2>3. DOMAIN Front(stack) = 1..Len(Front(stack)) /\ Len(Front(stack)) \in Nat
    BY <2>1
  <2>4. Len(Front(stack)) = 0
    BY <2>2, <2>3
  <2> QED BY <2>1, <2>4, EmptySeq
<1>5. Running = {}
  BY <1>3, <1>d, Zenon DEF Running
<1>6. InNotify /\ InRead
  BY <1>3 DEF InNotify, InRead
<1> QED BY <1>1, <1>2, <1>3, <1>4, <1>5, <1>6

\* The next listener is told.
LEMMA NextListenerStep ==
  ASSUME IInv, NextListener
  PROVE  IInv'
<1> DEFINE top == Last(stack)
           k == CHOOSE k \in Listening(top.next, top.index) :
                  \A j \in Listening(top.next, top.index) : k <= j
           f == NotifyFrame(top.index, k)
<1>0. /\ stack # <<>> /\ top.kind = "notify" /\ Listening(top.next, top.index) # {}
      /\ stack' = Append(Front(stack), f)
      /\ UNCHANGED <<use, queueVars, notifyVars, refs, held, out, events>>
  BY DEF NextListener
<1>1. /\ top \in Frame /\ Front(stack) = <<>> /\ Running = {} /\ InNotify /\ InRead
  BY <1>0, NotifyAlone
<1>2. f \in Frame /\ f.kind = "notify" /\ f.id = 0
  <2>1. top.next \in 0..MaxNotify /\ top.index \in Index \cup {"none"}
    BY <1>1 DEF Frame
  <2> QED BY <1>0, <2>1, NotifyFrameFacts
<1> HIDE DEF f
<1>3. stack' = <<f>> /\ stack' \in Seq(Frame) /\ Len(stack') = 1 /\ DOMAIN stack' = {1}
      /\ stack'[1] = f /\ stack' # <<>>
  BY <1>0, <1>1, <1>2
<1>4. FrameInv' /\ Running' = {}
  <2>1. Running' = {}
    BY <1>2, <1>3 DEF Running
  <2> QED BY <1>2, <1>3, <2>1 DEF FrameInv
<1>5. InNotify' /\ InRead' /\ Answering' = Answering
  BY <1>1, <1>2, <1>3 DEF InNotify, InRead, Answering
<1>6. TypeOK'
  <2>1. Ids' = Ids
    BY <1>0 DEF Ids, queueVars
  <2> QED BY <1>0, <1>3, <2>1 DEF IInv, TypeOK, queueVars, notifyVars
<1>7. PlaceInv'
  <2>1. Queued' = Queued /\ Ids' = Ids
    BY <1>0 DEF Queued, Ids, queueVars
  <2> QED BY <1>0, <1>1, <1>4, <2>1 DEF IInv, PlaceInv, queueVars
<1>8. OutInv'
  BY <1>0 DEF IInv, OutInv, queueVars
<1>9. WakeInv'
  BY <1>0, <1>5 DEF IInv, WakeInv, queueVars
<1>10. RefInv'
  <2>1. refs # 0
    BY <1>1 DEF IInv, RefInv
  <2> QED BY <1>0, <1>1, <1>5, <2>1 DEF IInv, RefInv
<1>11. NotifyInv'
  BY <1>0, <1>5, NotifyKept DEF IInv
<1> QED BY <1>4, <1>6, <1>7, <1>8, <1>9, <1>10, <1>11 DEF IInv

\* After the last listener those marked as removed are released.
LEMMA NotifyDoneStep ==
  ASSUME IInv, NotifyDone
  PROVE  IInv'
<1> DEFINE gone == {n \in DOMAIN notifies : notifies[n].removed}
           K == DOMAIN notifies \ gone
<1>0. /\ stack # <<>> /\ Last(stack).kind = "notify" /\ stack' = Front(stack) /\ refs' = refs - 1
      /\ UNCHANGED <<use, requests, nextNotify, held, out, events>>
  BY DEF NotifyDone
<1>1. /\ Front(stack) = <<>> /\ Running = {} /\ InNotify /\ InRead /\ stack' = <<>>
      /\ stack[1].kind = "notify"
  BY <1>0, NotifyAlone
<1>2. ~InNotify' /\ ~InRead' /\ ~Answering' /\ ~Answering
  BY <1>1 DEF InNotify, InRead, Answering
<1>3. Ids' = Ids /\ Queued \cup Running = Queued
  BY <1>0, <1>1 DEF Ids
<1>4. CASE refs = 1
  <2>1. LastUnref(FALSE, destroyed)
    BY <1>4 DEF NotifyDone
  <2>2. ~held /\ refs' = 0 /\ held' = FALSE
    BY <1>0, <1>1, <1>4 DEF IInv, RefInv, TypeOK
  <2>3. FALSE \in BOOLEAN /\ ~FALSE
    OBVIOUS
  <2>4. \A id \in Ids : destroyed[id] = IF id \in Queued THEN 0 ELSE 1
    BY <1>3 DEF IInv, PlaceInv
  <2> QED BY <1>0, <1>1, <2>1, <2>2, <2>3, <2>4, LastUnrefStep DEF IInv
<1>5. CASE refs # 1
  <2>1. /\ notifies' = IF cleanup THEN Keep(notifies, K) ELSE notifies
        /\ released' = released \cup IF cleanup THEN {notifies[n].id : n \in gone} ELSE {}
        /\ cleanup' = FALSE
        /\ UNCHANGED <<requestQ, replyQ, pending, destroyed, writer>>
    BY <1>5 DEF NotifyDone
  <2>2. held /\ refs' = 1 /\ held'
    BY <1>0, <1>1, <1>5 DEF IInv, RefInv
  <2>3. NotifyInv' /\ notifies' \in Seq(Entry) /\ released' \subseteq 1..MaxNotify
    <3>1. CASE cleanup
      <4>1. /\ K \in SUBSET (DOMAIN notifies) /\ gone = DOMAIN notifies \ K
            /\ \A k \in K : ~notifies[k].removed
        OBVIOUS
      <4>2. notifies' = Keep(notifies, K) /\ released' = released \cup {notifies[n].id : n \in DOMAIN notifies \ K}
        BY <2>1, <3>1, <4>1
      <4>3. ~cleanup'
        BY <2>1
      <4> HIDE DEF K, gone
      <4> QED BY <1>0, <4>1, <4>2, <4>3, ListenersLeave DEF IInv
    <3>2. CASE ~cleanup
      <4>1. notifies' = notifies /\ released' = released /\ ~cleanup' /\ nextNotify' = nextNotify
        BY <1>0, <2>1, <3>2
      <4>2. IdsOf(notifies)' = IdsOf(notifies)
        BY <4>1 DEF IdsOf
      <4>3. \A k \in DOMAIN notifies : ~notifies[k].removed
        BY <3>2 DEF IInv, NotifyInv
      <4>4. NotifyInv'
        BY <4>1, <4>2, <4>3 DEF IInv, NotifyInv
      <4>5. notifies' \in Seq(Entry)
        BY <4>1, ListenerFacts DEF IInv
      <4> QED BY <4>1, <4>4, <4>5 DEF IInv, TypeOK
    <3> QED BY <3>1, <3>2
  <2>4. cleanup' \in BOOLEAN
    BY <2>1, Zenon
  <2>5. TypeOK'
    <3>1. stack' \in Seq(Frame) /\ refs' \in 0..2
      BY <1>1, <2>2
    <3> QED BY <1>0, <1>3, <2>1, <2>3, <2>4, <3>1 DEF IInv, TypeOK, Entry
  <2>6. FrameInv' /\ Running' = {}
    BY <1>1 DEF FrameInv, Running
  <2>7. PlaceInv'
    <3>1. Queued' = Queued
      BY <2>1 DEF Queued
    <3> QED BY <1>1, <1>3, <2>1, <2>6, <3>1 DEF IInv, PlaceInv
  <2>8. OutInv'
    BY <1>0, <2>1 DEF IInv, OutInv
  <2>9. WakeInv'
    BY <1>0, <1>2, <2>1 DEF IInv, WakeInv
  <2>10. RefInv'
    BY <1>2, <2>2 DEF RefInv
  <2> QED BY <2>3, <2>5, <2>6, <2>7, <2>8, <2>9, <2>10 DEF IInv
<1> QED BY <1>4, <1>5

-----------------------------------------------------------------------------
(* The invariant                                                            *)

\* mgmt_new makes a client with empty lists and one reference.
LEMMA InitInv == Init => IInv
<1> SUFFICES ASSUME Init PROVE IInv
  OBVIOUS
<1>1. Ids = {} /\ Running = {} /\ ~InRead /\ ~InNotify
  BY DEF Init, Ids, Running, InRead, InNotify
<1>2. Range(<<>>) = {} /\ Distinct(<<>>)
  BY DEF Range, Distinct
<1>3. TypeOK
  <2>1. \A S : <<>> \in Seq(S)
    OBVIOUS
  <2>2. <<>> \in [Ids -> 0..1]
    BY <1>1
  <2>3. nextNotify \in 1..(MaxNotify + 1) /\ refs \in 0..2 /\ events \in 0..MaxEvent /\ Len(requests) <= MaxReq
    BY MgmtAssumption DEF Init
  <2>4. writer \in BOOLEAN /\ cleanup \in BOOLEAN /\ held \in BOOLEAN
    BY DEF Init
  <2> QED BY <2>1, <2>2, <2>3, <2>4 DEF Init, TypeOK
<1>4. PlaceInv
  BY <1>1, <1>2 DEF Init, PlaceInv
<1>5. FrameInv
  BY DEF Init, FrameInv
<1>6. OutInv
  BY <1>2 DEF Init, OutInv
<1>7. WakeInv
  BY DEF Init, WakeInv
<1>8. RefInv
  BY <1>1 DEF Init, RefInv
<1>9. NotifyInv
  <2>1. IdsOf(notifies) = {} /\ 1..(nextNotify - 1) = {}
    BY <1>2 DEF Init, IdsOf
  <2> QED BY <2>1 DEF Init, NotifyInv
<1> QED BY <1>3, <1>4, <1>5, <1>6, <1>7, <1>8, <1>9 DEF IInv

\* A step that changes nothing keeps the invariant.
LEMMA Stutter == IInv /\ UNCHANGED vars => IInv'
<1> SUFFICES ASSUME IInv, UNCHANGED vars PROVE IInv'
  OBVIOUS
<1>1. /\ UNCHANGED <<use, queueVars, notifyVars, refs, held, stack, out, events>>
      /\ UNCHANGED <<requests, requestQ, replyQ, pending, writer, destroyed>>
      /\ UNCHANGED <<notifies, cleanup, nextNotify, released>>
  BY DEF vars, queueVars, notifyVars
<1>2. InNotify' = InNotify /\ InRead' = InRead /\ Answering' = Answering
  BY <1>1, SameHandler
<1>3. Ids' = Ids /\ Queued' = Queued
  BY <1>1 DEF Ids, Queued
<1>4. FrameInv' /\ Running' = Running
  BY <1>1, <1>3, FramesKept DEF IInv
<1>5. TypeOK'
  BY <1>1, <1>3 DEF IInv, TypeOK
<1>6. PlaceInv'
  BY <1>1, <1>3, <1>4 DEF IInv, PlaceInv
<1>7. OutInv' /\ WakeInv' /\ RefInv'
  BY <1>1, <1>2 DEF IInv, OutInv, WakeInv, RefInv
<1>8. NotifyInv'
  BY <1>1, <1>2, NotifyKept DEF IInv
<1> QED BY <1>4, <1>5, <1>6, <1>7, <1>8 DEF IInv

\* Every step keeps the invariant.
LEMMA Inductive == IInv /\ [Next]_vars => IInv'
<1> SUFFICES ASSUME IInv, [Next]_vars PROVE IInv'
  OBVIOUS
<1>1. ASSUME NEW c \in Commands, Send(c) \/ Reply(c) \/ SendNowait(c)
      PROVE  IInv'
  BY <1>1, SendStep, ReplyStep, SendNowaitStep
<1>2. ASSUME NEW i \in Index, CancelIndex(i) PROVE IInv'
  <2>1. held /\ writer' = writer /\ UNCHANGED <<use, requests, notifyVars, refs, held, stack, out, events>>
    BY <1>2 DEF CancelIndex, ClientRuns
  <2>2. CancelSet({id \in Ids : requests[id].index = i})
    BY <1>2 DEF CancelIndex
  <2> QED BY <2>1, <2>2, CancelStep
<1>3. ASSUME NEW i \in Index, Event(i) PROVE IInv'
  BY <1>3, EventStep
<1>4. ASSUME NEW i \in Index \cup {"none"}, Register(i) PROVE IInv'
  BY <1>4, RegisterStep
<1>5. ASSUME NEW i \in Index \cup {"none"}, UnregisterIndex(i) PROVE IInv'
  <2> DEFINE S == {e.id : e \in {x \in Range(notifies) : About(i, x)}}
  <2>1. S \in SUBSET IdsOf(notifies)
    BY DEF IdsOf
  <2>2. held /\ UnregisterEntries(S) /\ UNCHANGED <<use, queueVars, nextNotify, refs, held, stack, out, events>>
    BY <1>5 DEF UnregisterIndex, ClientRuns
  <2> HIDE DEF S
  <2> QED BY <2>1, <2>2, UnregisterEntriesStep
<1>6. ASSUME NEW id \in Ids, Cancel(id) PROVE IInv'
  <2>1. /\ held /\ writer' = Woken(writer, pending', replyQ') /\ CancelSet({id})
        /\ UNCHANGED <<use, requests, notifyVars, refs, held, stack, out, events>>
    BY <1>6 DEF Cancel, ClientRuns
  <2> QED BY <2>1, CancelStep
<1>7. ASSUME NEW n \in DOMAIN notifies, Unregister(n) PROVE IInv'
  BY <1>7, UnregisterStep
<1>8. CASE CancelAll
  <2>1. /\ held /\ writer' = writer /\ CancelSet(Ids)
        /\ UNCHANGED <<use, requests, notifyVars, refs, held, stack, out, events>>
    BY <1>8 DEF CancelAll, ClientRuns
  <2> QED BY <2>1, CancelStep
<1>9. CASE UnregisterAll
  <2>1. /\ held /\ UnregisterEntries(IdsOf(notifies))
        /\ UNCHANGED <<use, queueVars, nextNotify, refs, held, stack, out, events>>
    BY <1>9 DEF UnregisterAll, ClientRuns
  <2>2. IdsOf(notifies) \in SUBSET IdsOf(notifies)
    OBVIOUS
  <2> QED BY <2>1, <2>2, UnregisterEntriesStep
<1>10. CASE Unref
  BY <1>10, UnrefStep
<1>11. CASE CanWriteData \/ WriterIdles \/ WriteFailed
  BY <1>11, CanWriteDataStep, WriterIdlesStep, WriteFailedStep
<1>12. ASSUME NEW n \in DOMAIN out, CommandAnswered(n) PROVE IInv'
  BY <1>12, CommandAnsweredStep
<1>13. CASE AnswerTaken \/ NextListener \/ NotifyDone
  BY <1>13, AnswerTakenStep, NextListenerStep, NotifyDoneStep
<1>14. CASE UNCHANGED vars
  BY <1>14, Stutter
<1> QED BY <1>1, <1>2, <1>3, <1>4, <1>5, <1>6, <1>7, <1>8, <1>9, <1>10, <1>11,
           <1>12, <1>13, <1>14 DEF Next

-----------------------------------------------------------------------------
(* What the invariant says                                                  *)

\* How often a request is in a list without repetitions.
LEMMA TimesFacts ==
  ASSUME NEW q, Distinct(q), NEW id
  PROVE  Times(q, id) = IF id \in Range(q) THEN 1 ELSE 0
<1> DEFINE P == {k \in DOMAIN q : q[k] = id}
<1>1. CASE id \in Range(q)
  <2>1. PICK k \in DOMAIN q : q[k] = id
    BY <1>1 DEF Range
  <2>2. P = {k}
    BY <2>1 DEF Distinct
  <2> QED BY <1>1, <2>2, FS_Singleton DEF Times
<1>2. CASE id \notin Range(q)
  <2>1. P = {}
    BY <1>2 DEF Range
  <2> QED BY <1>2, <2>1, FS_EmptySet DEF Times
<1> QED BY <1>1, <1>2

\* A request is in at most one callback.
LEMMA InCallbackFacts ==
  ASSUME FrameInv, NEW id, id # 0
  PROVE  InCallback(id) = IF id \in Running THEN 1 ELSE 0
<1> DEFINE P == {k \in DOMAIN stack : stack[k].id = id}
<1>1. CASE id \in Running
  <2>1. PICK k \in DOMAIN stack : stack[k].id = id
    BY <1>1 DEF Running
  <2>2. P = {k}
    BY <2>1 DEF FrameInv
  <2> QED BY <1>1, <2>2, FS_Singleton DEF InCallback
<1>2. CASE id \notin Running
  <2>1. P = {}
    BY <1>2 DEF Running
  <2> QED BY <1>2, <2>1, FS_EmptySet DEF InCallback
<1> QED BY <1>1, <1>2

\* The places of a request, counted, are one.
LEMMA OwnedOnce == IInv => RequestsOwnedOnce
<1> SUFFICES ASSUME IInv, NEW id \in Ids
             PROVE  Times(requestQ, id) + Times(replyQ, id) + Times(pending, id)
                      + InCallback(id) + destroyed[id] = 1
  BY DEF RequestsOwnedOnce
<1>1. id # 0
  BY TypeFacts DEF IInv
<1>2. /\ Times(requestQ, id) = IF id \in Range(requestQ) THEN 1 ELSE 0
      /\ Times(replyQ, id) = IF id \in Range(replyQ) THEN 1 ELSE 0
      /\ Times(pending, id) = IF id \in Range(pending) THEN 1 ELSE 0
  BY TimesFacts DEF IInv, PlaceInv
<1>3. InCallback(id) = IF id \in Running THEN 1 ELSE 0
  BY <1>1, InCallbackFacts DEF IInv
<1>4. destroyed[id] = IF id \in Queued \cup Running THEN 0 ELSE 1
  BY DEF IInv, PlaceInv
<1>5. CASE id \in Range(requestQ)
  <2>1. id \notin Range(replyQ) /\ id \notin Range(pending) /\ id \notin Running /\ id \in Queued
    BY <1>5 DEF IInv, PlaceInv, Queued
  <2> QED BY <1>2, <1>3, <1>4, <1>5, <2>1
<1>6. CASE id \in Range(replyQ)
  <2>1. id \notin Range(requestQ) /\ id \notin Range(pending) /\ id \notin Running /\ id \in Queued
    BY <1>6 DEF IInv, PlaceInv, Queued
  <2> QED BY <1>2, <1>3, <1>4, <1>6, <2>1
<1>7. CASE id \in Range(pending)
  <2>1. id \notin Range(requestQ) /\ id \notin Range(replyQ) /\ id \notin Running /\ id \in Queued
    BY <1>7 DEF IInv, PlaceInv, Queued
  <2> QED BY <1>2, <1>3, <1>4, <1>7, <2>1
<1>8. CASE id \notin Queued
  <2>1. id \notin Range(requestQ) /\ id \notin Range(replyQ) /\ id \notin Range(pending)
    BY <1>8 DEF Queued
  <2>2. CASE id \in Running
    BY <1>2, <1>3, <1>4, <2>1, <2>2
  <2>3. CASE id \notin Running
    BY <1>2, <1>3, <1>4, <1>8, <2>1, <2>3
  <2> QED BY <2>2, <2>3
<1> QED BY <1>5, <1>6, <1>7, <1>8 DEF Queued

\* Without references nothing is left in a list or in a callback.
LEMMA TornDown == IInv => TornDownWhole
<1> SUFFICES ASSUME IInv PROVE TornDownWhole
  OBVIOUS
<1>1. ASSUME refs = 0
      PROVE  stack = <<>> /\ notifies = <<>> /\ \A id \in Ids : destroyed[id] = 1
  <2>1. ~held /\ ~InRead
    BY <1>1 DEF IInv, RefInv
  <2>2. stack = <<>> /\ notifies = <<>> /\ requestQ = <<>> /\ replyQ = <<>> /\ pending = <<>>
    BY <1>1, <2>1 DEF IInv, RefInv
  <2>3. Queued = {} /\ Running = {}
    BY <2>2 DEF Queued, Running, Range
  <2> QED BY <2>2, <2>3 DEF IInv, PlaceInv
<1>2. InNotify \/ \A e \in Range(notifies) : ~e.removed
  BY DEF IInv, NotifyInv, Range
<1> QED BY <1>1, <1>2 DEF TornDownWhole, IInv, NotifyInv

\* Outside callbacks what wakes the writer is an answer.
LEMMA Moves == IInv => QueueMoves
BY DEF IInv, WakeInv, Answering, QueueMoves

\* The lists of the client hold requests that were made, the callbacks that run
\* are frames of one handler, counters and references keep their bounds, for
\* every number of requests, listeners and events and every command.
THEOREM MgmtTypeCorrect == Spec => []TypeOK
<1>1. IInv => TypeOK
  BY DEF IInv
<1> QED BY <1>1, InitInv, Inductive, PTL DEF Spec

\* wakeup_writer is called often enough: a waiting reply always has the writer
\* on its way, a waiting request has it or an answer that wakes it, although
\* mgmt_cancel_index and mgmt_cancel_all wake nothing.
THEOREM NoWakeupLost == Spec => []QueueMoves
<1> QED BY Moves, InitInv, Inductive, PTL DEF Spec

\* However callbacks send, cancel and drop requests while request_complete or
\* send_request runs, each request is in one list, in one callback or
\* destroyed, once.
THEOREM RequestOwnedOnce == Spec => []RequestsOwnedOnce
<1> QED BY OwnedOnce, InitInv, Inductive, PTL DEF Spec

\* mgmt_unref tears the client down when no callback is left, completely, and
\* listeners are released once.
THEOREM TearDownComplete == Spec => []TornDownWhole
<1> QED BY TornDown, InitInv, Inductive, PTL DEF Spec
=============================================================================
