---------------------------- MODULE Reader_proofs ----------------------------
(***************************************************************************)
(* The framing of Reader: types, what is printed after a header when the    *)
(* peers and the listen thread come between the two reads, and that main()  *)
(* stays at frame boundaries when frames arrive whole on one connection.    *)
(***************************************************************************)
EXTENDS Reader, TLAPS

\* Nobody takes what was not sent.
TakenInv == \A l \in Links : taken[l] <= sent[l]

\* The header main() holds is the last character it took on that link, and
\* its digit is the size of its frame.
HeaderInv ==
  /\ header # Nul => header.link \in Links
  /\ (header # Nul /\ pc \in {"atoi", "body"}) =>
       /\ taken[header.link] >= 1
       /\ header = Char(header.link, taken[header.link])
  /\ (header # Nul /\ header.pos = 0 /\ pc = "body") => n = Size
  /\ pc = "header" => header = Nul
  /\ (header = Nul /\ pc = "body") => n = 0

\* The slot holds the newest link or none, and of a link newer than that, or
\* newer than the one of the header main() holds, nothing has been read.
FreshInv ==
  /\ link \in {0, newest}
  /\ \A l \in Links : l > newest => taken[l] = 0
  /\ (header # Nul /\ pc \in {"atoi", "body"}) =>
       /\ header.link <= newest
       /\ \A l \in Links : l > header.link => taken[l] = 0

\* Where main() is inside the frames, when they arrive whole on one connection.
AtBoundaries ==
  /\ ~aborted /\ hung = {}
  /\ \A l \in Links : sent[l] % FrameLen = 0
  /\ (pc \in {"header", "printed"} \/ header = Nul) =>
        \A l \in Links : taken[l] % FrameLen = 0
  /\ (pc \in {"atoi", "body"} /\ header # Nul) =>
        /\ header.pos = 0 /\ header.link = link
        /\ \A l \in Links : taken[l] % FrameLen = IF l = link THEN 1 ELSE 0

WholeInv == Whole => AtBoundaries

IInv == TypeOK /\ TakenInv /\ HeaderInv /\ FreshInv /\ PrintedBodyMatchesHeader /\ WholeInv

-----------------------------------------------------------------------------
(* Arithmetic: a frame has between 2 and 10 characters.                     *)

\* A frame is a header and its body.
LEMMA FrameLenFact == FrameLen \in 2..10 /\ FrameLen - 1 = Size
  BY FrameAssumption DEF FrameLen

\* The frame of the x-th character is one of the M frames of x's link.
LEMMA FrameBound ==
  ASSUME NEW F \in 2..10, NEW M \in Nat, NEW x \in 0..(M * F - 1)
  PROVE  x \div F \in 0..(M - 1) /\ x % F \in 0..(F - 1)
<1>1. F = 2 \/ F = 3 \/ F = 4 \/ F = 5 \/ F = 6 \/ F = 7 \/ F = 8 \/ F = 9 \/ F = 10
  OBVIOUS
<1> QED BY <1>1

\* Frames begin at multiples of their length.
LEMMA FrameBegins ==
  ASSUME NEW F \in 2..10, NEW x \in Nat, x % F = 0
  PROVE  0 % F = 0 /\ (x + F) % F = 0 /\ (x + 1) % F = 1
<1>1. F = 2 \/ F = 3 \/ F = 4 \/ F = 5 \/ F = 6 \/ F = 7 \/ F = 8 \/ F = 9 \/ F = 10
  OBVIOUS
<1> QED BY <1>1

\* After a header come the characters of its own frame.
LEMMA InsideFrame ==
  ASSUME NEW F \in 2..10, NEW x \in Nat, x % F = 0, NEW i \in 0..(F - 1)
  PROVE  (x + i) \div F = x \div F /\ (x + i) % F = i
<1>1. F = 2 \/ F = 3 \/ F = 4 \/ F = 5 \/ F = 6 \/ F = 7 \/ F = 8 \/ F = 9 \/ F = 10
  OBVIOUS
<1> QED BY <1>1

\* When only whole frames were sent, a body is there after its header.
LEMMA BodyIsThere ==
  ASSUME NEW F \in 2..10, NEW x \in Nat, NEW y \in Nat, x <= y, y % F = 0, x % F = 1
  PROVE  y - x >= F - 1 /\ (x + (F - 1)) % F = 0
<1>1. F = 2 \/ F = 3 \/ F = 4 \/ F = 5 \/ F = 6 \/ F = 7 \/ F = 8 \/ F = 9 \/ F = 10
  OBVIOUS
<1> QED BY <1>1

-----------------------------------------------------------------------------
(* What a read returns                                                      *)

\* read() takes at most what was sent, and at most what was asked for.
LEMMA ReadFacts ==
  ASSUME TypeOK, TakenInv, NEW k \in 0..9
  PROVE  /\ NumRead(k) \in -1..k
         /\ NumRead(k) > 0 => link \in Links /\ taken[link] + NumRead(k) <= sent[link]
         /\ Taken(k) \in [Links -> 0..(MaxFrame * FrameLen)]
         /\ \A l \in Links : /\ taken[l] <= Taken(k)[l] /\ Taken(k)[l] <= sent[l]
                             /\ l # link => Taken(k)[l] = taken[l]
         /\ NumRead(k) \in {0, -1} => Taken(k) = taken
         /\ NumRead(k) > 0 => Taken(k)[link] = taken[link] + NumRead(k)
<1>0. /\ MaxFrame * FrameLen \in Nat /\ MaxLink \in Nat
      /\ sent \in [Links -> 0..(MaxFrame * FrameLen)]
      /\ taken \in [Links -> 0..(MaxFrame * FrameLen)]
      /\ link \in 0..MaxLink /\ (link # 0 => link \in Links)
  BY FrameAssumption, FrameLenFact DEF TypeOK, Links
<1>1. /\ NumRead(k) \in -1..k
      /\ NumRead(k) > 0 => link \in Links /\ taken[link] + NumRead(k) <= sent[link]
      /\ NumRead(k) = 0 => link \in Links
  BY <1>0 DEF NumRead, Available, TakenInv
<1>2. CASE NumRead(k) = -1
  BY <1>0, <1>1, <1>2 DEF Taken, TakenInv
<1>3. CASE NumRead(k) # -1
  <2>1. Taken(k) = [taken EXCEPT ![link] = @ + NumRead(k)] /\ link \in Links
    BY <1>1, <1>3 DEF Taken
  <2>2. taken[link] + NumRead(k) <= sent[link]
    BY <1>0, <1>1, <1>3, <2>1 DEF TakenInv
  <2> QED BY <1>0, <1>1, <1>3, <2>1, <2>2 DEF TakenInv
<1> QED BY <1>2, <1>3

\* A character that was sent is a character.
LEMMA CharFact ==
  ASSUME NEW l \in Links, NEW i \in 1..(MaxFrame * FrameLen)
  PROVE  Char(l, i) \in Chars /\ Char(l, i) # Nul /\ Char(l, i).link = l
<1>1. i - 1 \in 0..(MaxFrame * FrameLen - 1)
  BY FrameAssumption, FrameLenFact
<1>2. /\ (i - 1) \div FrameLen \in 0..(MaxFrame - 1)
      /\ (i - 1) % FrameLen \in 0..Size
  BY <1>1, FrameBound, FrameLenFact, FrameAssumption
<1>3. l # 0
  BY DEF Links
<1> QED BY <1>2, <1>3 DEF Char, Chars, Nul

\* The characters a read returns are the next ones of the stream.
LEMMA ReadCharsFact ==
  ASSUME TypeOK, TakenInv, NEW k \in 0..9
  PROVE  ReadChars(k) \in Seq(Chars \cup {Nul}) /\ Len(ReadChars(k)) <= 9
<1>1. ASSUME NEW i \in 1..k, NumRead(k) = k
      PROVE  Char(link, taken[link] + i) \in Chars
  <2>1. link \in Links /\ taken[link] + k <= sent[link]
    BY <1>1, ReadFacts
  <2>2. /\ taken[link] \in 0..(MaxFrame * FrameLen) /\ sent[link] \in 0..(MaxFrame * FrameLen)
    BY <2>1 DEF TypeOK
  <2>3. taken[link] + i \in 1..(MaxFrame * FrameLen)
    BY <2>1, <2>2, FrameAssumption, FrameLenFact
  <2> QED BY <2>1, <2>3, CharFact
<1>2. ReadChars(k) \in [1..k -> Chars \cup {Nul}]
  <2> HIDE DEF Char, Chars, Nul
  <2> QED BY <1>1 DEF ReadChars
<1>3. Len(ReadChars(k)) = k
  BY DEF ReadChars
<1> QED BY <1>2, <1>3

-----------------------------------------------------------------------------
(* Induction                                                                *)

\* The loop starts without a header and with nothing read.
LEMMA InitInv == Init => IInv
<1> SUFFICES ASSUME Init PROVE IInv
  OBVIOUS
<1>0. MaxFrame * FrameLen \in Nat /\ MaxLink \in Nat /\ FrameLen \in 2..10
  BY FrameAssumption, FrameLenFact
<1>1. TypeOK
  <2>1. /\ sent \in [Links -> 0..(MaxFrame * FrameLen)]
        /\ taken \in [Links -> 0..(MaxFrame * FrameLen)]
    BY <1>0 DEF Init
  <2>2. link \in 0..MaxLink /\ newest \in 0..MaxLink
    BY <1>0 DEF Init, Slot!SlotInit
  <2>3. body \in Seq(Chars \cup {Nul}) /\ Len(body) <= 9
    BY DEF Init
  <2>4. peer \subseteq Manners /\ hung \subseteq Links /\ aborted \in BOOLEAN
    BY DEF Init
  <2>5. header \in Chars \cup {Nul} /\ n \in 0..9 /\ pc = "header"
    BY DEF Init
  <2> QED BY <2>1, <2>2, <2>3, <2>4, <2>5 DEF TypeOK
<1>2. 0 % FrameLen = 0
  BY <1>0
<1> QED BY <1>0, <1>1, <1>2 DEF Init, Slot!SlotInit, IInv, TakenInv, HeaderInv, FreshInv, PrintedBodyMatchesHeader,
                          WholeInv, AtBoundaries, Whole

\* socket.readData( ReadData )
LEMMA ReadHeaderStep ==
  ASSUME IInv, ReadHeader
  PROVE  IInv'
<1>0. /\ TypeOK /\ TakenInv /\ HeaderInv /\ FreshInv /\ WholeInv
      /\ FrameLen \in 2..10 /\ MaxFrame * FrameLen \in Nat
  BY FrameAssumption, FrameLenFact DEF IInv
<1>1. CASE ~ReadAsserted(1)
  <2>1. Whole => ReadAsserted(1)
    BY <1>0 DEF WholeInv, AtBoundaries, ReadAsserted, NumRead, TypeOK, Available, TakenInv, Links
  <2>2. /\ aborted' /\ ~Whole
        /\ UNCHANGED <<peer, link, newest, sent, taken, hung, pc, header, n, body>>
    BY <1>1, <2>1 DEF ReadHeader, peerVars
  <2> QED BY <2>2 DEF IInv, TypeOK, TakenInv, HeaderInv, FreshInv, PrintedBodyMatchesHeader, WholeInv, AtBoundaries, Whole
<1>2. CASE ReadAsserted(1) /\ NumRead(1) = 1
  <2>1. /\ link \in Links /\ taken[link] + 1 <= sent[link]
        /\ Taken(1)[link] = taken[link] + 1
        /\ \A l \in Links : l # link => Taken(1)[l] = taken[l]
        /\ \A l \in Links : Taken(1)[l] <= sent[l]
        /\ Taken(1) \in [Links -> 0..(MaxFrame * FrameLen)]
    BY <1>0, <1>2, ReadFacts
  <2>2. /\ header' = Char(link, taken[link] + 1) /\ taken' = Taken(1) /\ pc' = "atoi"
        /\ UNCHANGED <<peer, link, newest, sent, hung, n, body, aborted>>
    BY <1>2 DEF ReadHeader, peerVars
  <2>3. /\ taken[link] \in Nat /\ sent[link] \in 0..(MaxFrame * FrameLen)
        /\ taken[link] + 1 \in 1..(MaxFrame * FrameLen)
    BY <1>0, <2>1 DEF TypeOK
  <2>4. header' \in Chars /\ header' # Nul /\ header'.link = link
    BY <2>1, <2>2, <2>3, CharFact
  <2>5. TypeOK'
    BY <1>0, <2>1, <2>2, <2>4 DEF TypeOK
  <2>6. TakenInv'
    BY <2>1, <2>2 DEF TakenInv
  <2>7. HeaderInv' /\ FreshInv'
    <3>1. link = newest /\ newest \in Nat /\ link \in Nat
      BY <1>0, <2>1, FrameAssumption DEF FreshInv, TypeOK, Links
    <3>2. \A l \in Links : l > newest => taken'[l] = 0
      BY <1>0, <2>1, <2>2, <3>1 DEF FreshInv, Links
    <3> QED BY <1>0, <2>1, <2>2, <2>3, <2>4, <3>1, <3>2 DEF HeaderInv, FreshInv
  <2>8. PrintedBodyMatchesHeader'
    BY <2>2 DEF PrintedBodyMatchesHeader
  <2>9. WholeInv'
    <3> SUFFICES ASSUME Whole' PROVE AtBoundaries'
      BY DEF WholeInv, AtBoundaries
    <3>1. Whole
      BY <2>2 DEF Whole
    <3>2. \A l \in Links : taken[l] % FrameLen = 0
      BY <1>0, <3>1 DEF WholeInv, AtBoundaries, ReadHeader
    <3>3. (taken[link] + 1) % FrameLen = 1 /\ header'.pos = 0
      <4>1. taken[link] % FrameLen = 0
        BY <2>1, <3>2
      <4>2. (taken[link] + 1) % FrameLen = 1
        BY <1>0, <2>3, <4>1, FrameBegins
      <4> QED BY <2>2, <2>3, <4>1, <4>2 DEF Char
    <3> QED BY <1>0, <2>1, <2>2, <2>4, <3>1, <3>2, <3>3 DEF WholeInv, AtBoundaries
  <2> QED BY <2>5, <2>6, <2>7, <2>8, <2>9 DEF IInv
<1>3. CASE ReadAsserted(1) /\ NumRead(1) # 1
  <2>1. /\ header' = Nul /\ taken' = taken /\ pc' = "atoi"
        /\ UNCHANGED <<peer, link, newest, sent, hung, n, body, aborted>>
    BY <1>0, <1>3, ReadFacts DEF ReadHeader, ReadAsserted, Taken, peerVars
  <2>2. TypeOK' /\ TakenInv' /\ HeaderInv' /\ FreshInv' /\ PrintedBodyMatchesHeader'
    BY <1>0, <2>1 DEF TypeOK, TakenInv, HeaderInv, FreshInv, PrintedBodyMatchesHeader
  <2>3. WholeInv'
    BY <1>0, <2>1 DEF WholeInv, AtBoundaries, Whole, ReadHeader
  <2> QED BY <2>2, <2>3 DEF IInv
<1> QED BY <1>1, <1>2, <1>3

\* atoi
LEMMA ParseHeaderStep ==
  ASSUME IInv, ParseHeader
  PROVE  IInv'
<1>0. /\ TypeOK /\ TakenInv /\ HeaderInv /\ FreshInv /\ WholeInv /\ Size \in 1..9
  BY FrameAssumption DEF IInv
<1>1. /\ n' \in Atoi(header) /\ pc = "atoi" /\ pc' = "body"
      /\ UNCHANGED <<peer, link, newest, sent, taken, hung, header, body, aborted>>
  BY DEF ParseHeader, peerVars
<1>2. /\ n' \in 0..9 /\ (header = Nul => n' = 0)
      /\ (header # Nul /\ header.pos = 0) => n' = Size
  BY <1>0, <1>1 DEF Atoi
<1>3. TypeOK' /\ TakenInv' /\ PrintedBodyMatchesHeader'
  BY <1>0, <1>1, <1>2 DEF TypeOK, TakenInv, PrintedBodyMatchesHeader
<1>4. HeaderInv' /\ FreshInv'
  BY <1>0, <1>1, <1>2 DEF HeaderInv, FreshInv
<1>5. WholeInv'
  BY <1>0, <1>1 DEF WholeInv, AtBoundaries, Whole
<1> QED BY <1>3, <1>4, <1>5 DEF IInv

\* socket.readData( ReadData2 )
LEMMA ReadBodyStep ==
  ASSUME IInv, ReadBody
  PROVE  IInv'
<1>0. /\ TypeOK /\ TakenInv /\ HeaderInv /\ FreshInv /\ WholeInv
      /\ FrameLen \in 2..10 /\ MaxFrame * FrameLen \in Nat /\ n \in 0..9
      /\ pc = "body" /\ FrameLen - 1 = Size /\ Size \in 1..9
  BY FrameAssumption, FrameLenFact DEF IInv, TypeOK, ReadBody
\* with whole frames, the body is there and its end is a boundary
<1>w. ASSUME Whole
      PROVE  /\ ReadAsserted(n)
             /\ \A l \in Links : Taken(n)[l] % FrameLen = 0
  <2>1. AtBoundaries
    BY <1>0, <1>w DEF WholeInv
  <2>2. CASE header = Nul
    <3>1. n = 0 /\ \A l \in Links : taken[l] % FrameLen = 0
      BY <1>0, <2>1, <2>2 DEF HeaderInv, AtBoundaries
    <3>2. NumRead(n) \in {0, -1}
      BY <3>1 DEF NumRead
    <3>3. Taken(n) = taken
      BY <1>0, <3>2, ReadFacts
    <3> QED BY <3>1, <3>2, <3>3 DEF ReadAsserted
  <2>3. CASE header # Nul
    <3>1. /\ n = Size /\ link \in Links
          /\ \A l \in Links : taken[l] % FrameLen = IF l = link THEN 1 ELSE 0
          /\ sent[link] % FrameLen = 0
      BY <1>0, <2>1, <2>3 DEF HeaderInv, AtBoundaries
    <3>2. /\ taken[link] \in Nat /\ sent[link] \in Nat /\ taken[link] <= sent[link]
      BY <1>0, <3>1 DEF TypeOK, TakenInv
    <3>3. /\ sent[link] - taken[link] >= FrameLen - 1
          /\ (taken[link] + (FrameLen - 1)) % FrameLen = 0
      BY <1>0, <3>1, <3>2, BodyIsThere
    <3>4. NumRead(n) = n
      BY <1>0, <3>1, <3>2, <3>3 DEF NumRead, Available, Links
    <3>5. /\ Taken(n)[link] = taken[link] + n
          /\ \A l \in Links : l # link => Taken(n)[l] = taken[l]
      BY <1>0, <3>1, <3>4, ReadFacts
    <3> QED BY <1>0, <3>1, <3>3, <3>4, <3>5 DEF ReadAsserted
  <2> QED BY <2>2, <2>3
<1>1. CASE ~ReadAsserted(n)
  <2>2. /\ aborted' /\ ~Whole
        /\ UNCHANGED <<peer, link, newest, sent, taken, hung, pc, header, n, body>>
    BY <1>1, <1>w DEF ReadBody, peerVars
  <2> QED BY <2>2 DEF IInv, TypeOK, TakenInv, HeaderInv, FreshInv, PrintedBodyMatchesHeader, WholeInv, Whole
<1>2. CASE ReadAsserted(n)
  <2>1. /\ body' = ReadChars(n) /\ taken' = Taken(n) /\ pc' = "printed"
        /\ UNCHANGED <<peer, link, newest, sent, hung, header, n, aborted>>
    BY <1>2 DEF ReadBody, peerVars
  <2>2. /\ Taken(n) \in [Links -> 0..(MaxFrame * FrameLen)]
        /\ \A l \in Links : Taken(n)[l] <= sent[l]
        /\ ReadChars(n) \in Seq(Chars \cup {Nul}) /\ Len(ReadChars(n)) <= 9
    BY <1>0, ReadFacts, ReadCharsFact
  <2>3. TypeOK' /\ TakenInv'
    BY <1>0, <2>1, <2>2 DEF TypeOK, TakenInv
  <2>4. HeaderInv' /\ FreshInv'
    <3>1. \A l \in Links : l > newest => l # link
      BY <1>0, FrameAssumption DEF FreshInv, TypeOK, Links
    <3>2. \A l \in Links : l > newest => taken'[l] = 0
      BY <1>0, <2>1, <3>1, ReadFacts DEF FreshInv
    <3> QED BY <1>0, <2>1, <3>2 DEF HeaderInv, FreshInv
  <2>5. WholeInv'
    <3> SUFFICES ASSUME Whole' PROVE AtBoundaries'
      BY DEF WholeInv
    <3>1. Whole /\ AtBoundaries
      BY <1>0, <2>1 DEF Whole, WholeInv
    <3>2. \A l \in Links : taken'[l] % FrameLen = 0
      BY <1>w, <2>1, <3>1
    <3> QED BY <2>1, <3>1, <3>2 DEF AtBoundaries
  <2>6. PrintedBodyMatchesHeader'
    <3> SUFFICES ASSUME header # Nul, header.pos = 0
                 PROVE  \/ body' = [i \in 1..Size |-> [link |-> header.link, frame |-> header.frame,
                                                       pos |-> i]]
                        \/ body' = [i \in 1..Size |-> Nul]
                        \/ \E l \in Links : /\ l > header.link
                                            /\ body' = [i \in 1..Size |-> Char(l, i)]
      BY <2>1 DEF PrintedBodyMatchesHeader
    <3>1. /\ n = Size /\ header.link \in Links /\ taken[header.link] >= 1
          /\ header = Char(header.link, taken[header.link])
      BY <1>0 DEF HeaderInv
    <3>a. CASE NumRead(n) # n
      BY <2>1, <3>1, <3>a DEF ReadChars
    <3>b. SUFFICES ASSUME NumRead(n) = n
                   PROVE  \/ body' = [i \in 1..Size |-> [link |-> header.link,
                                                         frame |-> header.frame, pos |-> i]]
                          \/ \E l \in Links : /\ l > header.link
                                              /\ body' = [i \in 1..Size |-> Char(l, i)]
      BY <3>a
    <3>2. n > 0 /\ link \in Links
      BY <1>0, <3>1, <3>b, ReadFacts
    <3>3. body' = [i \in 1..n |-> Char(link, taken[link] + i)]
      BY <2>1, <3>b DEF ReadChars
    \* the Socket was replaced: the newer link is read from its beginning
    <3>4. CASE header.link # link
      <4>1. link > header.link /\ taken[link] = 0
        BY <1>0, <3>1, <3>2, <3>4, FrameAssumption DEF FreshInv, TypeOK, Links
      <4>2. \A i \in 1..n : taken[link] + i = i
        BY <1>0, <4>1
      <4>3. body' = [i \in 1..Size |-> Char(link, i)]
        BY <3>1, <3>3, <4>2
      <4> QED BY <3>2, <4>1, <4>3
    <3>5. SUFFICES ASSUME header.link = link
                   PROVE  body' = [i \in 1..Size |-> [link |-> header.link,
                                                      frame |-> header.frame, pos |-> i]]
      BY <3>4
    <3>6. /\ taken[link] \in Nat /\ taken[link] - 1 \in Nat /\ (taken[link] - 1) % FrameLen = 0
          /\ header.frame = (taken[link] - 1) \div FrameLen
      <4>1. taken[link] \in Nat /\ header = Char(link, taken[link]) /\ taken[link] >= 1
        BY <1>0, <3>1, <3>2, <3>5 DEF TypeOK
      <4> QED BY <4>1 DEF Char
    <3>7. ASSUME NEW i \in 1..n
          PROVE  Char(link, taken[link] + i) =
                   [link |-> header.link, frame |-> header.frame, pos |-> i]
      <4>1. i \in 0..(FrameLen - 1) /\ taken[link] + i - 1 = (taken[link] - 1) + i
        BY <1>0, <3>1, <3>6
      <4>2. /\ ((taken[link] - 1) + i) \div FrameLen = (taken[link] - 1) \div FrameLen
            /\ ((taken[link] - 1) + i) % FrameLen = i
        BY <1>0, <3>6, <4>1, InsideFrame
      <4>3. Char(link, taken[link] + i) =
              [link |-> link, frame |-> ((taken[link] - 1) + i) \div FrameLen,
               pos |-> ((taken[link] - 1) + i) % FrameLen]
        BY <1>0, <3>6, <4>1 DEF Char
      <4> QED BY <3>5, <3>6, <4>2, <4>3
    <3> HIDE DEF Char
    <3> QED BY <3>1, <3>3, <3>7
  <2> QED BY <2>3, <2>4, <2>5, <2>6 DEF IInv
<1> QED BY <1>1, <1>2

\* Each step of main(), of the listen thread and of the peers keeps the
\* invariant.
LEMMA StepInv == IInv /\ [Next]_vars => IInv'
<1> SUFFICES ASSUME IInv, [Next]_vars PROVE IInv'
  OBVIOUS
<1>0. /\ TypeOK /\ TakenInv /\ HeaderInv /\ FreshInv /\ PrintedBodyMatchesHeader /\ WholeInv
      /\ FrameLen \in 2..10 /\ MaxFrame * FrameLen \in Nat /\ MaxLink \in Nat
  BY FrameAssumption, FrameLenFact DEF IInv
<1>1. CASE ReadHeader
  BY <1>1, ReadHeaderStep
<1>2. CASE ParseHeader
  BY <1>2, ParseHeaderStep
<1>3. CASE ReadBody
  BY <1>3, ReadBodyStep
<1>4. CASE NextRound
  <2>1. /\ pc = "printed" /\ pc' = "header" /\ header' = Nul /\ n' = 0 /\ body' = <<>>
        /\ UNCHANGED <<peer, link, newest, sent, taken, hung, aborted>>
    BY <1>4 DEF NextRound, peerVars
  <2>2. TypeOK' /\ TakenInv' /\ HeaderInv' /\ FreshInv' /\ PrintedBodyMatchesHeader'
    BY <1>0, <2>1 DEF TypeOK, TakenInv, HeaderInv, FreshInv, PrintedBodyMatchesHeader
  <2>3. WholeInv'
    BY <1>0, <2>1 DEF WholeInv, AtBoundaries, Whole
  <2> QED BY <2>2, <2>3 DEF IInv
<1>5. CASE HandlerAdopts
  <2>1. PICK l \in Links : l > newest /\ link' = l /\ newest' = l
    BY <1>5 DEF HandlerAdopts, Slot!Adopt
  <2>2. /\ link = 0 \/ "reconnect" \in peer
        /\ UNCHANGED <<peer, sent, taken, hung, pc, header, n, body, aborted>>
    BY <1>5 DEF HandlerAdopts, peerVars, mainVars
  <2>3. TypeOK' /\ TakenInv' /\ HeaderInv' /\ FreshInv' /\ PrintedBodyMatchesHeader'
    BY <1>0, <2>1, <2>2 DEF TypeOK, TakenInv, HeaderInv, FreshInv, PrintedBodyMatchesHeader, Links
  <2>4. Whole => link = 0
    BY <2>2 DEF Whole
  <2>5. WholeInv'
    BY <1>0, <2>1, <2>2, <2>4 DEF WholeInv, AtBoundaries, Whole, HeaderInv, Links
  <2> QED BY <2>3, <2>5 DEF IInv
<1>6. CASE HandlerDrops
  <2>1. /\ link' = 0 /\ "reconnect" \in peer
        /\ UNCHANGED <<peer, newest, sent, taken, hung, pc, header, n, body, aborted>>
    BY <1>6 DEF HandlerDrops, Slot!Drop, peerVars, mainVars
  <2>2. TypeOK' /\ TakenInv' /\ HeaderInv' /\ FreshInv' /\ PrintedBodyMatchesHeader'
    BY <1>0, <2>1 DEF TypeOK, TakenInv, HeaderInv, FreshInv, PrintedBodyMatchesHeader
  <2>3. WholeInv'
    BY <2>1 DEF WholeInv, Whole
  <2> QED BY <2>2, <2>3 DEF IInv
<1>7. ASSUME NEW l \in Links, PeerSends(l)
      PROVE  IInv'
  <2>1. PICK k \in (IF "pieces" \in peer THEN 1..FrameLen ELSE {FrameLen}) :
           /\ sent[l] + k <= MaxFrame * FrameLen
           /\ sent' = [sent EXCEPT ![l] = @ + k]
    BY <1>7 DEF PeerSends
  <2>2. UNCHANGED <<peer, link, newest, taken, hung, pc, header, n, body, aborted>>
    BY <1>7 DEF PeerSends, mainVars
  <2>3. /\ k \in 1..FrameLen /\ sent[l] \in Nat /\ sent[l] + k \in 0..(MaxFrame * FrameLen)
    BY <1>0, <2>1 DEF TypeOK
  <2>4. TypeOK' /\ TakenInv' /\ HeaderInv' /\ FreshInv' /\ PrintedBodyMatchesHeader'
    BY <1>0, <2>1, <2>2, <2>3 DEF TypeOK, TakenInv, HeaderInv, FreshInv, PrintedBodyMatchesHeader
  <2>5. WholeInv'
    <3> SUFFICES ASSUME Whole' PROVE AtBoundaries'
      BY DEF WholeInv
    <3>1. Whole /\ AtBoundaries /\ k = FrameLen
      BY <1>0, <2>1, <2>2 DEF Whole, WholeInv
    <3>2. sent[l] % FrameLen = 0
      BY <3>1 DEF AtBoundaries
    <3>3. (sent[l] + k) % FrameLen = 0
      BY <1>0, <2>3, <3>1, <3>2, FrameBegins
    <3>4. \A m \in Links : sent'[m] % FrameLen = 0
      BY <1>0, <2>1, <3>1, <3>3 DEF AtBoundaries, TypeOK
    <3> QED BY <2>2, <3>1, <3>4 DEF AtBoundaries
  <2> QED BY <2>4, <2>5 DEF IInv
<1>8. ASSUME NEW l \in Links, PeerHangsUp(l)
      PROVE  IInv'
  <2>1. /\ hung' = hung \cup {l} /\ "hangup" \in peer
        /\ UNCHANGED <<peer, link, newest, sent, taken, pc, header, n, body, aborted>>
    BY <1>8 DEF PeerHangsUp, mainVars
  <2>2. TypeOK' /\ TakenInv' /\ HeaderInv' /\ FreshInv' /\ PrintedBodyMatchesHeader'
    BY <1>0, <2>1 DEF TypeOK, TakenInv, HeaderInv, FreshInv, PrintedBodyMatchesHeader
  <2>3. WholeInv'
    BY <2>1 DEF WholeInv, Whole
  <2> QED BY <2>2, <2>3 DEF IInv
<1>9. CASE UNCHANGED vars
  <2>1. UNCHANGED <<peer, link, newest, sent, taken, hung, pc, header, n, body, aborted>>
    BY <1>9 DEF vars
  <2> QED BY <2>1 DEF IInv, TypeOK, TakenInv, HeaderInv, FreshInv, PrintedBodyMatchesHeader, WholeInv,
                      AtBoundaries, Whole
<1> QED BY <1>1, <1>2, <1>3, <1>4, <1>5, <1>6, <1>7, <1>8, <1>9 DEF Next, Main

\* The invariant holds in every reachable state.
LEMMA Invariance == Spec => []IInv
<1> QED BY InitInv, StepInv, PTL DEF Spec

\* Every variable of the reading loop keeps its type; in particular readData
\* takes no more than was sent and main() holds at most nine characters.
THEOREM ReaderTypeCorrect == Spec => []TypeOK
<1>1. IInv => TypeOK
  BY DEF IInv
<1> QED BY <1>1, Invariance, PTL

\* Whatever the peers and the listen thread do between its two reads, main()
\* prints after the header of a frame that frame's whole body, NULs, or the
\* beginning of a newer link: a failed read and a replaced Socket included, it
\* never prints part of a body or the middle of another frame.
THEOREM BodyIsOfHeader == Spec => []PrintedBodyMatchesHeader
<1>1. IInv => PrintedBodyMatchesHeader
  BY DEF IInv
<1> QED BY <1>1, Invariance, PTL

\* When frames arrive whole on one connection the assertion of readData holds
\* and every turn of the loop begins at a header.
THEOREM LoopStaysFramed == Spec => []RoundStartsAtHeader
<1>1. IInv => RoundStartsAtHeader
  BY DEF IInv, WholeInv, AtBoundaries, RoundStartsAtHeader
<1> QED BY <1>1, Invariance, PTL
=============================================================================
