-------------------------------- MODULE Mgmt --------------------------------
(***************************************************************************)
(* The client of the kernel's management socket (src/shared/mgmt.c), which *)
(* every command of src/adapter.c goes through: requests wait in           *)
(* request_queue and are written one at a time, replies wait in            *)
(* reply_queue and may overtake them, what was written waits in            *)
(* pending_list for the kernel's answer, and listeners of events wait in   *)
(* notify_list.                                                            *)
(*                                                                         *)
(* Everything runs in one thread.  What makes it hard is that callbacks    *)
(* call back into the client: a callback is a frame of `stack`, any        *)
(* operation of the client may run while it is there, and what the code    *)
(* does after the callback is the action that pops it.                     *)
(*                                                                         *)
(* External: the kernel answers every command it was given, those of one   *)
(* opcode and index in the order it got them; a write may fail; the socket *)
(* itself does not break (POLLERR, a failing read).                        *)
(***************************************************************************)
EXTENDS Integers, Sequences, FiniteSets, SequencesExt, Sublists

CONSTANTS Index,      \* controllers; MGMT_INDEX_NONE is "none"
          Commands,   \* what is sent: records of an opcode and an index
          MaxReq,     \* bound on requests ever made
          MaxNotify,  \* bound on registrations ever made
          MaxEvent,   \* bound on events the kernel sends
          Uses        \* which operations a client uses: one member is chosen

ASSUME MgmtAssumption ==
  /\ \A c \in Commands : c.index \in Index
  /\ MaxReq \in Nat /\ MaxNotify \in Nat /\ MaxEvent \in Nat

VARIABLES
  use,        \* the operations this client uses
  requests,   \* the requests ever made: the command of each id
  requestQ,   \* request_queue: ids
  replyQ,     \* reply_queue: ids
  pending,    \* pending_list: ids
  writer,     \* writer_active
  notifies,   \* notify_list: the listeners, marked when removed
  cleanup,    \* need_notify_cleanup
  nextNotify, \* next_notify_id
  refs,       \* ref_count
  held,       \* the client still has its reference
  stack,      \* the callbacks now running, innermost last
  out,        \* commands the kernel has and has not answered, in order
  events,     \* events sent by the kernel so far
  destroyed,  \* how often destroy_request ran for each id
  released    \* the listeners for which destroy_notify ran

queueVars == <<requests, requestQ, replyQ, pending, writer, destroyed>>
notifyVars == <<notifies, cleanup, nextNotify, released>>
vars == <<use, queueVars, notifyVars, refs, held, stack, out, events>>


Ids == DOMAIN requests

\* The callbacks a frame can stand for: the answer to a request
\* (request_complete), a failed write (send_request from can_write_data or
\* from mgmt_send_nowait), an event (process_notify).
Frame == [kind : {"answer", "write", "nowait", "notify"}, id : 0..MaxReq,
          index : Index \cup {"none"}, next : 0..MaxNotify]

RequestFrame(kind, id) == [kind |-> kind, id |-> id, index |-> "none", next |-> 0]

\* in_notify
InNotify == stack # <<>> /\ stack[1].kind = "notify"

\* can_read_data holds a reference while it runs.
InRead == stack # <<>> /\ stack[1].kind \in {"answer", "notify"}

\* A call of the client: from the main loop or from a callback, while it has
\* its reference.
ClientRuns == held

\* The lists hold requests that were made, the callbacks that run belong to one
\* handler, and no request is destroyed twice.
TypeOK ==
  /\ use \in Uses
  /\ requests \in Seq(Commands) /\ Len(requests) <= MaxReq
  /\ {requestQ, replyQ, pending, out} \subseteq Seq(Ids)
  /\ writer \in BOOLEAN /\ cleanup \in BOOLEAN /\ held \in BOOLEAN
  /\ notifies \in Seq([id : 1..MaxNotify, index : Index \cup {"none"},
                       removed : BOOLEAN])
  /\ nextNotify \in 1..(MaxNotify + 1)
  /\ refs \in 0..2
  /\ stack \in Seq(Frame)
  /\ events \in 0..MaxEvent
  /\ destroyed \in [Ids -> 0..1]
  /\ released \subseteq 1..MaxNotify

Init ==
  /\ use \in Uses
  /\ requests = <<>> /\ requestQ = <<>> /\ replyQ = <<>> /\ pending = <<>>
  /\ writer = FALSE
  /\ notifies = <<>> /\ cleanup = FALSE /\ nextNotify = 1
  /\ refs = 1 /\ held = TRUE
  /\ stack = <<>>
  /\ out = <<>> /\ events = 0
  /\ destroyed = <<>> /\ released = {}

-----------------------------------------------------------------------------
(* Requests                                                                *)

\* [mutant] replies do not wake the writer
WokenPending(w, p, q) == w \/ p = <<>>

\* [mutant] only replies wake the writer
WokenReplies(w, p, q) == w \/ q # <<>>

\* wakeup_writer: while something is pending only replies wake the writer.
Woken(w, p, q) == w \/ p = <<>> \/ q # <<>>

\* [mutant] the reference is not counted
RefNot(n) == n

\* mgmt_ref
Ref(n) == n + 1

Without(q, S) == Keep(q, {k \in DOMAIN q : q[k] \notin S})

\* destroy_request for every id of S.
Destroy(S) == [id \in Ids |-> IF id \in S THEN destroyed[id] + 1 ELSE destroyed[id]]

\* mgmt_send: queue and wake.
Send(c) ==
  /\ ClientRuns /\ Len(requests) < MaxReq
  /\ requests' = Append(requests, c)
  /\ destroyed' = Append(destroyed, 0)
  /\ requestQ' = Append(requestQ, Len(requests'))
  /\ writer' = Woken(writer, pending, replyQ)
  /\ UNCHANGED <<use, replyQ, pending, notifyVars, refs, held, stack, out,
                 events>>

\* mgmt_reply: the same, in the queue that overtakes.
Reply(c) ==
  /\ ClientRuns /\ "reply" \in use /\ Len(requests) < MaxReq
  /\ requests' = Append(requests, c)
  /\ destroyed' = Append(destroyed, 0)
  /\ replyQ' = Append(replyQ, Len(requests'))
  /\ writer' = Woken(writer, pending, replyQ')
  /\ UNCHANGED <<use, requestQ, pending, notifyVars, refs, held, stack, out,
                 events>>

\* mgmt_send_nowait: written at once, whatever is pending.  When the write
\* fails the callback runs before mgmt_send_nowait returns 0.
SendNowait(c) ==
  /\ ClientRuns /\ "nowait" \in use /\ Len(requests) < MaxReq
  /\ requests' = Append(requests, c)
  /\ destroyed' = Append(destroyed, 0)
  /\ LET id == Len(requests') IN
       \/ pending' = Append(pending, id) /\ out' = Append(out, id)
          /\ UNCHANGED stack
       \/ stack' = Append(stack, RequestFrame("nowait", id))
          /\ UNCHANGED <<pending, out>>
  /\ UNCHANGED <<use, requestQ, replyQ, writer, notifyVars, refs, held, events>>

\* can_write_data takes a reply, or a request when nothing is pending.
CanTake == replyQ # <<>> \/ (pending = <<>> /\ requestQ # <<>>)

\* can_write_data with nothing to take: the watch is removed.
WriterIdles ==
  /\ writer /\ stack = <<>> /\ refs > 0 /\ ~CanTake
  /\ writer' = FALSE
  /\ UNCHANGED <<use, requests, requestQ, replyQ, pending, destroyed,
                 notifyVars, refs, held, stack, out, events>>

\* can_write_data: one command is written, and the watch stays only for more
\* replies; or the write fails, its callback runs and the watch stays.
CanWriteData ==
  /\ writer /\ stack = <<>> /\ refs > 0 /\ CanTake
  /\ LET id == IF replyQ # <<>> THEN Head(replyQ) ELSE Head(requestQ) IN
       /\ replyQ' = IF replyQ # <<>> THEN Tail(replyQ) ELSE replyQ
       /\ requestQ' = IF replyQ # <<>> THEN requestQ ELSE Tail(requestQ)
       /\ \/ /\ pending' = Append(pending, id) /\ out' = Append(out, id)
             /\ writer' = (replyQ' # <<>>)
             /\ UNCHANGED stack
          \/ /\ stack' = Append(stack, RequestFrame("write", id))
             /\ UNCHANGED <<pending, out, writer>>
  /\ UNCHANGED <<use, requests, destroyed, notifyVars, refs, held, events>>

\* send_request after the callback of a failed write.
WriteFailed ==
  /\ stack # <<>> /\ Last(stack).kind \in {"write", "nowait"}
  /\ destroyed' = Destroy({Last(stack).id})
  /\ stack' = Front(stack)
  /\ UNCHANGED <<use, requests, requestQ, replyQ, pending, writer, notifyVars,
                 refs, held, out, events>>

\* [mutant] what is pending is destroyed and stays in its list
CancelSetQueued(S) ==
  /\ requestQ' = Without(requestQ, S)
  /\ replyQ' = Without(replyQ, S)
  /\ UNCHANGED pending
  /\ destroyed' = Destroy(S \cap (Range(requestQ) \cup Range(replyQ)
                                   \cup Range(pending)))

\* Requests of S that are queued or pending are destroyed, without their
\* callbacks.
CancelSet(S) ==
  /\ requestQ' = Without(requestQ, S)
  /\ replyQ' = Without(replyQ, S)
  /\ pending' = Without(pending, S)
  /\ destroyed' = Destroy(S \cap (Range(requestQ) \cup Range(replyQ)
                                   \cup Range(pending)))

\* mgmt_cancel
Cancel(id) ==
  /\ ClientRuns /\ "cancel" \in use
  /\ id \in Range(requestQ) \cup Range(replyQ) \cup Range(pending)
  /\ CancelSet({id})
  /\ writer' = Woken(writer, pending', replyQ')
  /\ UNCHANGED <<use, requests, notifyVars, refs, held, stack, out, events>>

\* mgmt_cancel_index and mgmt_cancel_all do not wake the writer.
CancelIndex(i) ==
  /\ ClientRuns /\ "cancelIndex" \in use
  /\ CancelSet({id \in Ids : requests[id].index = i})
  /\ UNCHANGED <<use, requests, writer, notifyVars, refs, held, stack, out,
                 events>>

CancelAll ==
  /\ ClientRuns /\ "cancelAll" \in use
  /\ CancelSet(Ids)
  /\ UNCHANGED <<use, requests, writer, notifyVars, refs, held, stack, out,
                 events>>

-----------------------------------------------------------------------------
(* Listeners of events                                                     *)

Register(i) ==
  /\ ClientRuns /\ "events" \in use /\ nextNotify <= MaxNotify
  /\ notifies' = Append(notifies, [id |-> nextNotify, index |-> i,
                                   removed |-> FALSE])
  /\ nextNotify' = nextNotify + 1
  /\ UNCHANGED <<use, queueVars, cleanup, released, refs, held, stack, out,
                 events>>

\* mgmt_unregister outside an event.  Inside one it takes the entry
\* queue_foreach may visit next out of the list; no code of bluetoothd calls
\* it there, or at all.
Unregister(n) ==
  /\ ClientRuns /\ "events" \in use /\ ~InNotify
  /\ n \in DOMAIN notifies
  /\ notifies' = Keep(notifies, DOMAIN notifies \ {n})
  /\ released' = released \cup {notifies[n].id}
  /\ UNCHANGED <<use, queueVars, cleanup, nextNotify, refs, held, stack, out,
                 events>>

\* The listeners mgmt_unregister_index(i) is about.  Inside an event
\* MGMT_INDEX_NONE stands for all of them (mark_notify_removed), outside for
\* those registered with it (match_notify_index).
About(i, entry) == entry.index = i \/ (InNotify /\ i = "none")

IdsOf(s) == {e.id : e \in Range(s)}

\* The listeners of S are removed; inside an event they are marked, to be
\* removed when it is over.
UnregisterEntries(S) ==
  IF InNotify
  THEN /\ notifies' = [n \in DOMAIN notifies |->
                         [notifies[n] EXCEPT !.removed = @ \/ notifies[n].id \in S]]
       /\ cleanup' = TRUE
       /\ UNCHANGED released
  ELSE /\ notifies' = Keep(notifies, {n \in DOMAIN notifies : notifies[n].id \notin S})
       /\ released' = released \cup S
       /\ UNCHANGED cleanup

UnregisterIndex(i) ==
  /\ ClientRuns /\ "events" \in use
  /\ UnregisterEntries({e.id : e \in {x \in Range(notifies) : About(i, x)}})
  /\ UNCHANGED <<use, queueVars, nextNotify, refs, held, stack, out, events>>

UnregisterAll ==
  /\ ClientRuns /\ "events" \in use
  /\ UnregisterEntries(IdsOf(notifies))
  /\ UNCHANGED <<use, queueVars, nextNotify, refs, held, stack, out, events>>

-----------------------------------------------------------------------------
(* Reading: can_read_data, from its mgmt_ref to its mgmt_unref             *)

\* The last mgmt_unref: mgmt_unregister_all, mgmt_cancel_all and the watches.
\* `d` is `destroyed` after what the handler did before it.
LastUnref(notifying, d) ==
  /\ requestQ' = <<>> /\ replyQ' = <<>> /\ pending' = <<>>
  /\ destroyed' = [id \in Ids |->
                     d[id] + (IF id \in Range(requestQ) \cup Range(replyQ)
                                        \cup Range(pending) THEN 1 ELSE 0)]
  /\ writer' = FALSE
  /\ IF notifying
     THEN UNCHANGED <<notifies, released>>
     ELSE notifies' = <<>> /\ released' = released \cup IdsOf(notifies)
  /\ cleanup' = notifying

\* mgmt_unref by the client.  Its last reference is not dropped by a callback
\* that reports a failed write: the destroy function of the write watch, which
\* runs after the callback, uses the client.
Unref ==
  /\ ClientRuns /\ "unref" \in use
  /\ stack = <<>> \/ InRead
  /\ held' = FALSE
  /\ refs' = refs - 1
  /\ IF refs = 1
     THEN LastUnref(InNotify, destroyed)
     ELSE UNCHANGED <<requestQ, replyQ, pending, destroyed, writer, notifies,
                      released, cleanup>>
  /\ UNCHANGED <<use, requests, nextNotify, stack, out, events>>

\* Commands of one opcode and index are answered in the order they were sent.
Oldest(n) == \A k \in 1..(n - 1) : requests[out[k]] # requests[out[n]]

\* request_complete: the first pending request of the answer's opcode and index
\* gets it; an answer nobody waits for only wakes the writer.
CommandAnswered(n) ==
  LET command == requests[out[n]]
      waiting == {k \in DOMAIN pending : requests[pending[k]] = command}
  IN /\ stack = <<>> /\ refs > 0
     /\ n \in DOMAIN out /\ Oldest(n)
     /\ out' = Keep(out, DOMAIN out \ {n})
     /\ IF waiting = {}
        THEN /\ writer' = Woken(writer, pending, replyQ)
             /\ UNCHANGED <<pending, stack, refs>>
        ELSE LET k == CHOOSE k \in waiting : \A j \in waiting : k <= j IN
             /\ pending' = Keep(pending, DOMAIN pending \ {k})
             /\ stack' = Append(stack, RequestFrame("answer", pending[k]))
             /\ refs' = Ref(refs)
             /\ UNCHANGED writer
     /\ UNCHANGED <<use, requests, requestQ, replyQ, destroyed, notifyVars,
                    held, events>>

\* request_complete after the callback, and the mgmt_unref of can_read_data.
AnswerTaken ==
  /\ stack # <<>> /\ Last(stack).kind = "answer"
  /\ stack' = Front(stack)
  /\ refs' = refs - 1
  /\ IF refs = 1
     THEN LastUnref(FALSE, Destroy({Last(stack).id}))
     ELSE /\ destroyed' = Destroy({Last(stack).id})
          /\ writer' = Woken(writer, pending, replyQ)
          /\ UNCHANGED <<requestQ, replyQ, pending, notifies, released, cleanup>>
  /\ UNCHANGED <<use, requests, nextNotify, held, out, events>>

\* notify_handler: the listeners of the event from position n on (0: the list
\* is at its end).
Listening(n, i) ==
  {k \in DOMAIN notifies : /\ n # 0 /\ k >= n
                           /\ ~notifies[k].removed
                           /\ notifies[k].index \in {i, "none"}}

\* queue_foreach reads the next entry before it calls the handler, so what a
\* callback appends to the end of the list is not seen by the last one.
NotifyFrame(i, k) == [kind |-> "notify", id |-> 0, index |-> i,
                      next |-> IF k = Len(notifies) THEN 0 ELSE k + 1]

\* An event the kernel sends about controller i.
Event(i) ==
  /\ stack = <<>> /\ refs > 0 /\ "events" \in use /\ events < MaxEvent
  /\ events' = events + 1
  /\ IF Listening(1, i) = {}
     THEN UNCHANGED <<stack, refs>>
     ELSE LET k == CHOOSE k \in Listening(1, i) :
                     \A j \in Listening(1, i) : k <= j IN
          stack' = Append(stack, NotifyFrame(i, k)) /\ refs' = Ref(refs)
  /\ UNCHANGED <<use, queueVars, notifyVars, held, out>>

\* A listener's callback returns and the next one is called.
NextListener ==
  LET top == Last(stack)
      rest == Listening(top.next, top.index)
  IN /\ stack # <<>> /\ top.kind = "notify"
     /\ rest # {}
     /\ LET k == CHOOSE k \in rest : \A j \in rest : k <= j IN
        stack' = Append(Front(stack), NotifyFrame(top.index, k))
     /\ UNCHANGED <<use, queueVars, notifyVars, refs, held, out, events>>

\* process_notify after the last listener, and the mgmt_unref of can_read_data.
NotifyDone ==
  LET top == Last(stack)
      gone == {n \in DOMAIN notifies : notifies[n].removed}
  IN /\ stack # <<>> /\ top.kind = "notify"
     /\ Listening(top.next, top.index) = {}
     /\ stack' = Front(stack)
     /\ refs' = refs - 1
     /\ IF refs = 1
        THEN LastUnref(FALSE, destroyed)
        ELSE /\ notifies' = IF cleanup THEN Keep(notifies, DOMAIN notifies \ gone) ELSE notifies
             /\ released' = released \cup IF cleanup THEN {notifies[n].id : n \in gone} ELSE {}
             /\ cleanup' = FALSE
             /\ UNCHANGED <<requestQ, replyQ, pending, destroyed, writer>>
     /\ UNCHANGED <<use, requests, nextNotify, held, out, events>>

-----------------------------------------------------------------------------

Next ==
  \/ \E c \in Commands : Send(c) \/ Reply(c) \/ SendNowait(c)
  \/ \E i \in Index : CancelIndex(i) \/ Event(i)
  \/ \E i \in Index \cup {"none"} : Register(i) \/ UnregisterIndex(i)
  \/ \E id \in Ids : Cancel(id)
  \/ \E n \in DOMAIN notifies : Unregister(n)
  \/ CancelAll \/ UnregisterAll \/ Unref
  \/ CanWriteData \/ WriterIdles \/ WriteFailed
  \/ \E n \in DOMAIN out : CommandAnswered(n)
  \/ AnswerTaken \/ NextListener \/ NotifyDone

Spec == Init /\ [][Next]_vars

\* The main loop dispatches the write watch, the kernel answers, callbacks
\* return.
FairSpec ==
  /\ Spec
  /\ WF_vars(CanWriteData) /\ WF_vars(WriteFailed)
  /\ WF_vars(\E n \in DOMAIN out : CommandAnswered(n))
  /\ WF_vars(AnswerTaken) /\ WF_vars(NextListener) /\ WF_vars(NotifyDone)

-----------------------------------------------------------------------------
(* Properties                                                              *)

\* No wake-up is lost: while replies wait the writer is on its way, whatever
\* is pending ("allow multiple replies to jump the queue"); while requests
\* wait, outside callbacks, the writer is, or an answer of the kernel that
\* wakes it is due, even after mgmt_cancel_index and mgmt_cancel_all, which do
\* not wake it themselves.
QueueMoves ==
  /\ replyQ # <<>> => writer
  /\ requestQ # <<>> /\ stack = <<>> => writer \/ out # <<>>

Times(q, id) == Cardinality({k \in DOMAIN q : q[k] = id})

InCallback(id) ==
  Cardinality({k \in DOMAIN stack : stack[k].id = id})

\* Whatever callbacks send, cancel and drop, a request is in one place: in one
\* of the three lists, in the hands of the callback that ends it, or destroyed,
\* once.
RequestsOwnedOnce ==
  \A id \in Ids : Times(requestQ, id) + Times(replyQ, id) + Times(pending, id)
                    + InCallback(id) + destroyed[id] = 1

\* The reference can_read_data holds keeps the client whole while callbacks
\* run: it is torn down when none is left, then completely, and listeners
\* removed by a callback are released once the event is over.
TornDownWhole ==
  /\ refs = 0 => /\ stack = <<>> /\ notifies = <<>>
                 /\ \A id \in Ids : destroyed[id] = 1
  /\ InNotify \/ \A e \in Range(notifies) : ~e.removed
  /\ IdsOf(notifies) \cup released = 1..(nextNotify - 1)
  /\ IdsOf(notifies) \cap released = {}

\* Every request is answered, fails or is cancelled.
RequestsEnd ==
  \A id \in 1..MaxReq : id \in Ids ~> (id \in Ids /\ destroyed[id] = 1)
=============================================================================
