------------------------------- MODULE Reader -------------------------------
(***************************************************************************)
(* The loop of src/Profile/main.cpp over Socket::readData: a one-character  *)
(* header, a pause, as many characters as the header says, a pause.  The    *)
(* Socket under it is a ConnectionSlot, which the listen thread fills and   *)
(* empties (Listener implements ConnectionSlot).                            *)
(*                                                                         *)
(* A character is known by its place: the link, the frame, and its position *)
(* in the frame, 0 for the header.                                         *)
(***************************************************************************)
EXTENDS Integers, Sequences

CONSTANTS
  MaxLink,     \* bound: links
  MaxFrame,    \* bound: frames a peer sends on a link
  Size,        \* the length of a frame's body
  Manners      \* what peers may do: send in pieces, hang up, connect anew

ASSUME FrameAssumption == MaxLink \in Nat /\ MaxFrame \in Nat /\ Size \in 1..9
ASSUME MannersAssumption == Manners \subseteq {"pieces", "hangup", "reconnect"}

VARIABLES
  peer,           \* what the peers of this behaviour do
  link, newest,   \* the slot
  sent,           \* per link, the characters sent so far
  taken,          \* per link, the characters the reader took
  hung,           \* the links whose peer hung up
  pc,             \* where main() is
  header,         \* the character in ReadData, or Nul
  n,              \* what atoi made of it
  body,           \* the characters in ReadData2
  aborted         \* the assertion of readData failed

vars == <<peer, link, newest, sent, taken, hung, pc, header, n, body, aborted>>
mainVars == <<pc, header, n, body, aborted>>
peerVars == <<peer, sent, hung>>

Links == 1..MaxLink
FrameLen == Size + 1
Slot == INSTANCE ConnectionSlot

\* the i-th character (from 1) of link l
Char(l, i) == [link |-> l, frame |-> (i - 1) \div FrameLen, pos |-> (i - 1) % FrameLen]
Chars == [link : Links, frame : 0..(MaxFrame - 1), pos : 0..Size]
Nul == [link |-> 0, frame |-> 0, pos |-> 0]

Init ==
  /\ peer \in SUBSET Manners
  /\ Slot!SlotInit
  /\ sent = [l \in Links |-> 0] /\ taken = [l \in Links |-> 0] /\ hung = {}
  /\ pc = "header" /\ header = Nul /\ n = 0 /\ body = <<>> /\ aborted = FALSE

-----------------------------------------------------------------------------
(***************************************************************************)
(* read() on the Socket's non-blocking descriptor: how many characters a    *)
(* read of k characters returns, -1 for an error (no descriptor, nothing    *)
(* there yet), 0 for the end of the stream.                                *)
(***************************************************************************)
Available == sent[link] - taken[link]

NumRead(k) ==
  IF link = 0 THEN -1
  ELSE IF k = 0 THEN 0
  ELSE IF Available = 0 THEN (IF link \in hung THEN 0 ELSE -1)
  ELSE IF Available < k THEN Available ELSE k

\* assert( NumToRead == NumRead || NumRead == -1 )
ReadAsserted(k) == NumRead(k) \in {k, -1}

\* [mutant] read() of an empty socket reports what was asked for
TakenAnyway(k) == IF link = 0 THEN taken ELSE [taken EXCEPT ![link] = @ + k]

Taken(k) == IF NumRead(k) = -1 THEN taken ELSE [taken EXCEPT ![link] = @ + NumRead(k)]

\* the k characters of the vector, which were NULs before the read
ReadChars(k) ==
  [i \in 1..k |-> IF NumRead(k) = k THEN Char(link, taken[link] + i) ELSE Nul]

\* socket.readData( ReadData ), ReadData one '\0' before
ReadHeader ==
  /\ ~aborted /\ pc = "header"
  /\ IF ReadAsserted(1)
       THEN /\ header' = IF NumRead(1) = 1 THEN Char(link, taken[link] + 1) ELSE Nul
            /\ taken' = Taken(1)
            /\ pc' = "atoi" /\ UNCHANGED aborted
       ELSE aborted' = TRUE /\ UNCHANGED <<header, taken, pc>>
  /\ UNCHANGED <<link, newest, peerVars, n, body>>

\* sleep(4) and atoi: a header is the digit of its frame's size, the
\* characters of a body are anything, a NUL is 0
\* [mutant] the header's digit counts the header as well
AtoiOffByOne(c) == IF c = Nul THEN {0} ELSE IF c.pos = 0 THEN {Size - 1} ELSE 0..9

Atoi(c) == IF c = Nul THEN {0} ELSE IF c.pos = 0 THEN {Size} ELSE 0..9

ParseHeader ==
  /\ ~aborted /\ pc = "atoi"
  /\ n' \in Atoi(header)
  /\ pc' = "body"
  /\ UNCHANGED <<link, newest, peerVars, taken, header, body, aborted>>

\* socket.readData( ReadData2 ) and the second sleep(4)
ReadBody ==
  /\ ~aborted /\ pc = "body"
  /\ IF ReadAsserted(n)
       THEN /\ body' = ReadChars(n)
            /\ taken' = Taken(n)
            /\ pc' = "printed" /\ UNCHANGED aborted
       ELSE aborted' = TRUE /\ UNCHANGED <<body, taken, pc>>
  /\ UNCHANGED <<link, newest, peerVars, header, n>>

\* [mutant] the loop ends when there was nothing to print
NextRoundStops ==
  /\ ~aborted /\ pc = "printed" /\ body # <<>>
  /\ pc' = "header" /\ header' = Nul /\ n' = 0 /\ body' = <<>>
  /\ UNCHANGED <<link, newest, peerVars, taken, aborted>>

\* the end of the loop's body: its locals go
NextRound ==
  /\ ~aborted /\ pc = "printed"
  /\ pc' = "header" /\ header' = Nul /\ n' = 0 /\ body' = <<>>
  /\ UNCHANGED <<link, newest, peerVars, taken, aborted>>

Main == ReadHeader \/ ParseHeader \/ ReadBody \/ NextRound

-----------------------------------------------------------------------------
(***************************************************************************)
(* The listen thread and the peers.                                        *)
(***************************************************************************)
HandlerAdopts ==
  /\ ~aborted /\ (link = 0 \/ "reconnect" \in peer)
  /\ \E l \in Links : Slot!Adopt(l)
  /\ UNCHANGED <<peerVars, taken, mainVars>>

HandlerDrops ==
  /\ ~aborted /\ "reconnect" \in peer
  /\ Slot!Drop
  /\ UNCHANGED <<peerVars, taken, mainVars>>

\* a peer sends whole frames, or any part of one
PeerSends(l) ==
  /\ ~aborted /\ l \notin hung /\ l <= newest
  /\ \E k \in (IF "pieces" \in peer THEN 1..FrameLen ELSE {FrameLen}) :
       /\ sent[l] + k <= MaxFrame * FrameLen
       /\ sent' = [sent EXCEPT ![l] = @ + k]
  /\ UNCHANGED <<peer, link, newest, hung, taken, mainVars>>

PeerHangsUp(l) ==
  /\ ~aborted /\ "hangup" \in peer /\ l \notin hung /\ l <= newest
  /\ hung' = hung \cup {l}
  /\ UNCHANGED <<peer, link, newest, sent, taken, mainVars>>

Next == Main \/ HandlerAdopts \/ HandlerDrops
        \/ \E l \in Links : PeerSends(l) \/ PeerHangsUp(l)

Spec == Init /\ [][Next]_vars
\* main() never stops reading
FairSpec == Spec /\ WF_vars(Main)

-----------------------------------------------------------------------------
\* Every variable keeps its type: readData never takes more than was sent, and
\* main() never holds more characters than a digit can ask for.
TypeOK ==
  /\ peer \subseteq Manners
  /\ link \in 0..MaxLink /\ newest \in 0..MaxLink
  /\ sent \in [Links -> 0..(MaxFrame * FrameLen)]
  /\ taken \in [Links -> 0..(MaxFrame * FrameLen)]
  /\ hung \subseteq Links
  /\ pc \in {"header", "atoi", "body", "printed"}
  /\ header \in Chars \cup {Nul} /\ n \in 0..9
  /\ body \in Seq(Chars \cup {Nul}) /\ Len(body) <= 9
  /\ aborted \in BOOLEAN

\* What main() prints as data after the header of a frame, whatever the peers
\* and the listen thread do between the two reads: the whole body of that
\* frame; or NULs, if the body is not there or the Socket is empty; or, if the
\* Socket was replaced, the beginning of a newer link, header included.  Never
\* part of a body, and never the middle of another frame.
PrintedBodyMatchesHeader ==
  (pc = "printed" /\ header # Nul /\ header.pos = 0) =>
     \/ body = [i \in 1..Size |-> [link |-> header.link, frame |-> header.frame, pos |-> i]]
     \/ body = [i \in 1..Size |-> Nul]
     \/ \E l \in Links : l > header.link /\ body = [i \in 1..Size |-> Char(l, i)]

Whole == peer = {}

\* At the top of the loop the next unread character is a header, and the
\* assertion of readData holds, when frames arrive whole on one connection.
RoundStartsAtHeader ==
  Whole => /\ ~aborted
           /\ pc = "header" => \A l \in Links : taken[l] % FrameLen = 0

\* A frame that arrived on the connection in the Socket is read.
FramesAreRead ==
  \A l \in Links : \A k \in 1..(MaxFrame * FrameLen) :
     (Whole /\ link = l /\ sent[l] >= k) ~> (taken[l] >= k)
=============================================================================
