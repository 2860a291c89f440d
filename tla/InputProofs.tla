----------------------------- MODULE InputProofs -----------------------------
(***************************************************************************)
(* What holds of a session's input for every limit, keyboard and cut of    *)
(* the bytes into packets: types, the bound on what is retained, the        *)
(* escape timer, the client's terminal, and that the app is given the keys *)
(* the client typed.                                                       *)
(***************************************************************************)
EXTENDS InputSource, DecoderProofs

-----------------------------------------------------------------------------
(* Types, bounds and the escape timer *)

\* flush() takes at most the buffer, and keeps the rest of the decoder.
LEMMA FlushIs ==
  ASSUME NEW d \in Decoder
  PROVE  /\ Flush(d).dec \in Decoder /\ Flush(d).out \in Seq(Event)
         /\ Flush(d).dec.held = d.held /\ Flush(d).dec.open = d.open /\ Flush(d).dec.paste = d.paste
         /\ Len(Flush(d).dec.buf) <= Len(d.buf)
<1>1. /\ WithoutBuffer(d) \in Decoder /\ WithoutBuffer(d).buf = <<>>
      /\ WithoutBuffer(d).held = d.held /\ WithoutBuffer(d).open = d.open /\ WithoutBuffer(d).paste = d.paste
  BY DecoderFields, NoEvents DEF WithoutBuffer, Decoder
<1>2. CASE PendingEscape(d)
  BY <1>1, <1>2, NoEvents, DecoderFields DEF Flush
<1>3. CASE ~PendingEscape(d)
  BY <1>3, NoEvents, DecoderFields DEF Flush
<1> QED
  BY <1>2, <1>3

\* Type correctness: the decoder, the queue and the wire keep their types
\* through every feed(), flush() and read.
THEOREM TypeCorrect == Spec => []TypeOK
<1>1. Init => TypeOK
  <2>1. Fresh \in Decoder
    BY NoEvents DEF Fresh, Decoder
  <2>2. 0 \in 0..MaxStrokes
    BY StrokesAssumption
  <2> QED
    BY <2>1, <2>2, NoEvents DEF Init, TypeOK
<1>2. TypeOK /\ [Next]_vars => TypeOK'
  <2> SUFFICES ASSUME TypeOK, [Next]_vars PROVE TypeOK'
    OBVIOUS
  <2> USE DEF TypeOK
  <2>1. ASSUME NEW s \in Strokes, Type(s) PROVE TypeOK'
    <3>1. s.bytes \in Seq(Byte) /\ s.keys \in Seq(Event)
      BY StrokesAssumption
    <3>2. wire \o s.bytes \in Seq(Byte) /\ meant \o s.keys \in Seq(Event)
      BY <3>1
    <3> QED
      BY <2>1, <3>2, StrokesAssumption DEF Type, Send, screen
  <2>2. ASSUME NEW b \in Garbage, SendGarbage(b) PROVE TypeOK'
    <3>1. wire \o b \in Seq(Byte)
      BY StrokesAssumption
    <3> QED
      BY <2>2, <3>1, StrokesAssumption DEF SendGarbage, Send, screen
  <2>3. ASSUME NEW n \in 1..Len(wire), Packet(n) PROVE TypeOK'
    <3>1. n \in 0..Len(wire)
      OBVIOUS
    <3>2. SubSeq(wire, 1, n) \in Seq(Byte) /\ SubSeq(wire, n + 1, Len(wire)) \in Seq(Byte)
      BY <3>1, PrefixBytes, SuffixBytes
    <3>3. Feed(dec, SubSeq(wire, 1, n)).dec \in Decoder /\ Feed(dec, SubSeq(wire, 1, n)).out \in Seq(Event)
      BY <3>2, FeedType DEF Progress
    <3>4. queue \o Feed(dec, SubSeq(wire, 1, n)).out \in Seq(Event)
      BY <3>3
    <3>5. PendingEscape(Feed(dec, SubSeq(wire, 1, n)).dec) \in BOOLEAN
      BY DEF PendingEscape
    <3> QED
      BY <2>3, <3>2, <3>3, <3>4, <3>5 DEF Packet, client, screen
  <2>4. CASE HangUp
    BY <2>4, NoEvents DEF HangUp, client
  <2>5. CASE FlushEscape
    <3>1. Flush(dec).dec \in Decoder /\ Flush(dec).out \in Seq(Event)
      BY FlushIs
    <3>2. queue \o Flush(dec).out \in Seq(Event)
      BY <3>1
    <3> QED
      BY <2>5, <3>1, <3>2 DEF FlushEscape, client, screen
  <2>6. CASE ReadInput
    <3>1. Head(queue) \in Event /\ Tail(queue) \in Seq(Event)
      BY <2>6 DEF ReadInput
    <3>2. Append(received, Head(queue)) \in Seq(Event)
      BY <3>1
    <3> QED
      BY <2>6, <3>1, <3>2 DEF ReadInput, client, screen
  <2>7. CASE EnableMouse \/ DisableMouse \/ Close
    BY <2>7 DEF EnableMouse, DisableMouse, Close, client
  <2>8. CASE Rest \/ UNCHANGED vars
    BY <2>8 DEF Rest, vars
  <2> QED
    BY <2>1, <2>2, <2>3, <2>4, <2>5, <2>6, <2>7, <2>8 DEF Next
<1> QED
  BY <1>1, <1>2, PTL DEF Spec

BoundedInv == Tame(dec) /\ Len(dec.buf) <= Max({MaxSequence, 5})

\* Whatever bytes the client sends and however they are cut, the decoder
\* never retains more than MAX_SEQUENCE (or a mouse report), MAX_PASTE_SIZE
\* and one byte of a character.
THEOREM BufferIsBounded == Spec => []BufferBounded
<1>1. Init => BoundedInv
  <2>1. Fresh \in Decoder /\ Len(<<>>) = 0
    BY NoEvents DEF Fresh, Decoder
  <2> QED
    BY <2>1, WaitLimit, LimitsAssumption DEF Init, BoundedInv, Tame, Fresh
<1>2. TypeOK /\ BoundedInv /\ [Next]_vars => BoundedInv'
  <2> SUFFICES ASSUME TypeOK, BoundedInv, [Next]_vars PROVE BoundedInv'
    OBVIOUS
  <2>1. CASE UNCHANGED dec
    BY <2>1 DEF BoundedInv
  <2>2. ASSUME NEW n \in 1..Len(wire), Packet(n) PROVE BoundedInv'
    <3>1. wire \in Seq(Byte) /\ n \in 0..Len(wire)
      BY DEF TypeOK
    <3>2. SubSeq(wire, 1, n) \in Seq(Byte)
      BY <3>1, PrefixBytes
    <3>3. /\ Tame(Feed(dec, SubSeq(wire, 1, n)).dec)
          /\ Len(Feed(dec, SubSeq(wire, 1, n)).dec.buf) <= Max({MaxSequence, 5})
      BY <3>2, FeedBounded DEF BoundedInv
    <3>4. dec' = dec \/ dec' = Feed(dec, SubSeq(wire, 1, n)).dec
      BY <2>2 DEF Packet
    <3> QED
      BY <2>1, <3>3, <3>4 DEF BoundedInv
  <2>3. CASE FlushEscape
    <3>1. dec \in Decoder /\ Flush(dec).dec \in Decoder
      BY FlushIs DEF TypeOK
    <3>2. /\ Flush(dec).dec.held = dec.held /\ Flush(dec).dec.paste = dec.paste
          /\ Len(Flush(dec).dec.buf) <= Len(dec.buf)
          /\ Len(Flush(dec).dec.buf) \in Nat /\ Len(dec.buf) \in Nat
      BY <3>1, FlushIs, DecoderFields
    <3>3. dec' = dec \/ dec' = Flush(dec).dec
      BY <2>3 DEF FlushEscape
    <3> QED
      BY <2>1, <3>1, <3>2, <3>3, WaitLimit DEF BoundedInv, Tame
  <2>4. CASE \/ \E s \in Strokes : Type(s)
             \/ \E b \in Garbage : SendGarbage(b)
             \/ HangUp \/ ReadInput \/ EnableMouse \/ DisableMouse \/ Close \/ Rest
             \/ UNCHANGED vars
    BY <2>4, <2>1 DEF Type, SendGarbage, Send, HangUp, ReadInput, EnableMouse, DisableMouse, Close, Rest, vars
  <2> QED
    BY <2>2, <2>3, <2>4 DEF Next
<1>3. BoundedInv => BufferBounded
  BY DEF BoundedInv, BufferBounded, Tame
<1> QED
  BY <1>1, <1>2, <1>3, TypeCorrect, PTL DEF Spec
\* The timer and the decoder's buffer agree.  _schedule_escape_flush() re-arms
\* after every packet and flush() empties exactly the buffer the timer is for.
THEOREM EscapeTimerIsExact == Spec => []TimerExact
<1>1. Init => TimerExact
  BY DEF Init, TimerExact, PendingEscape, Fresh
<1>2. TimerExact /\ [Next]_vars => TimerExact'
  <2> SUFFICES ASSUME TimerExact, [Next]_vars PROVE TimerExact'
    OBVIOUS
  <2>1. CASE UNCHANGED <<dec, timer, closed>>
    BY <2>1 DEF TimerExact, PendingEscape
  <2>2. ASSUME NEW n \in 1..Len(wire), Packet(n) PROVE TimerExact'
    BY <2>2 DEF Packet, TimerExact
  <2>3. CASE FlushEscape
    <3>1. ~closed /\ PendingEscape(dec)
      BY <2>3 DEF FlushEscape, TimerExact
    <3>2. ~timer' /\ closed' = closed /\ dec' = WithoutBuffer(dec)
      BY <2>3, <3>1 DEF FlushEscape, Flush
    <3>3. dec'.buf = <<>>
      BY <3>2 DEF WithoutBuffer
    <3> QED
      BY <3>2, <3>3 DEF TimerExact, PendingEscape
  <2>4. CASE Close
    BY <2>4 DEF Close, TimerExact
  <2>5. CASE \/ \E s \in Strokes : Type(s)
             \/ \E b \in Garbage : SendGarbage(b)
             \/ HangUp \/ ReadInput \/ EnableMouse \/ DisableMouse \/ Rest
             \/ UNCHANGED vars
    BY <2>5, <2>1 DEF Type, SendGarbage, Send, HangUp, ReadInput, EnableMouse, DisableMouse, Rest, screen, vars
  <2> QED
    BY <2>2, <2>3, <2>4, <2>5 DEF Next
<1> QED
  BY <1>1, <1>2, PTL DEF Spec

\* What the server believes of the client's terminal, while it can reach it.
MouseKnown ==
    /\ mouse \in BOOLEAN /\ tracking \in BOOLEAN
    /\ ~gone => (tracking <=> mouse)
    /\ closed => ~mouse

\* A terminal the server can still reach is left without mouse reporting:
\* mouse_enabled is what the client has been told, and close() undoes it.
THEOREM TerminalIsRestored == Spec => []TerminalRestored
<1>1. Init => MouseKnown
  BY DEF Init, MouseKnown
<1>2. MouseKnown /\ [Next]_vars => MouseKnown'
  <2> SUFFICES ASSUME MouseKnown, [Next]_vars PROVE MouseKnown'
    OBVIOUS
  <2>1. CASE UNCHANGED <<mouse, gone, tracking, closed>>
    BY <2>1 DEF MouseKnown
  <2>2. CASE HangUp
    BY <2>2 DEF HangUp, MouseKnown
  <2>3. CASE EnableMouse
    BY <2>3 DEF EnableMouse, MouseKnown
  <2>4. CASE DisableMouse
    BY <2>4 DEF DisableMouse, MouseKnown
  <2>5. CASE Close
    BY <2>5 DEF Close, MouseKnown
  <2>6. CASE \/ \E s \in Strokes : Type(s)
             \/ \E b \in Garbage : SendGarbage(b)
             \/ \E n \in 1..Len(wire) : Packet(n)
             \/ FlushEscape \/ ReadInput \/ Rest \/ UNCHANGED vars
    BY <2>6, <2>1 DEF Type, SendGarbage, Send, Packet, FlushEscape, ReadInput, Rest, screen, vars
  <2> QED
    BY <2>2, <2>3, <2>4, <2>5, <2>6 DEF Next
<1>3. MouseKnown => TerminalRestored
  BY DEF MouseKnown, TerminalRestored
<1> QED
  BY <1>1, <1>2, <1>3, PTL DEF Spec

-----------------------------------------------------------------------------
(* What bytes mean *)

Typed(b, k) == <<b, k>>
Texts == Seq(Byte) \X Seq(Event)

\* The Escape key comes last: its byte would open whatever is typed after it.
AddsStrokes(P) ==
    /\ Typed(<<>>, <<>>) \in P
    /\ \A s \in Strokes, b \in Seq(Byte), k \in Seq(Event) :
           Typed(b, k) \in P /\ (s.bytes = <<"esc">> => b = <<>>)
             => Typed(s.bytes \o b, s.keys \o k) \in P

\* The bytes b are strokes, one after the other, and k is what they mean.
Spells(b, k) ==
    /\ b \in Seq(Byte) /\ k \in Seq(Event)
    /\ \A P \in SUBSET Texts : AddsStrokes(P) => Typed(b, k) \in P

\* The two parts of what is typed.
LEMMA TypedIs ==
  ASSUME NEW b, NEW k
  PROVE  /\ Typed(b, k)[1] = b /\ Typed(b, k)[2] = k
         /\ b \in Seq(Byte) /\ k \in Seq(Event) => Typed(b, k) \in Texts
BY DEF Typed, Texts

\* The types of a stroke.
LEMMA StrokeType ==
  ASSUME NEW s \in Strokes
  PROVE  s.bytes \in Seq(Byte) /\ s.keys \in Seq(Event)
BY StrokesAssumption

\* Sequences joined are sequences.
LEMMA ConcatType ==
  /\ \A s, t \in Seq(Byte) : s \o t \in Seq(Byte)
  /\ \A s, t \in Seq(Event) : s \o t \in Seq(Event)
OBVIOUS

\* Joining bytes is associative.
LEMMA AssocBytes ==
  ASSUME NEW s \in Seq(Byte), NEW t \in Seq(Byte), NEW u \in Seq(Byte)
  PROVE  (s \o t) \o u = s \o (t \o u)
BY ConcatAssociative

\* Joining events is associative.
LEMMA AssocEvents ==
  ASSUME NEW s \in Seq(Event), NEW t \in Seq(Event), NEW u \in Seq(Event)
  PROVE  (s \o t) \o u = s \o (t \o u)
BY ConcatAssociative

\* No bytes mean no keys.
LEMMA EmptySpells == Spells(<<>>, <<>>)
BY NoEvents DEF Spells, AddsStrokes

\* A stroke before others.
LEMMA StrokeSpells ==
  ASSUME NEW s \in Strokes, NEW b, NEW k, Spells(b, k), s.bytes = <<"esc">> => b = <<>>
  PROVE  Spells(s.bytes \o b, s.keys \o k)
<1>1. b \in Seq(Byte) /\ k \in Seq(Event)
  BY DEF Spells
<1>2. s.bytes \o b \in Seq(Byte) /\ s.keys \o k \in Seq(Event)
  BY <1>1, StrokeType, ConcatType
<1>3. ASSUME NEW P \in SUBSET Texts, AddsStrokes(P)
      PROVE  Typed(s.bytes \o b, s.keys \o k) \in P
  <2>1. Typed(b, k) \in P
    BY <1>3 DEF Spells
  <2> QED
    BY <1>1, <1>3, <2>1 DEF AddsStrokes
<1> QED
  BY <1>2, <1>3 DEF Spells

\* b and k are those of the stroke s and then c and l.
StrokeThen(s, c, l, b, k) ==
    /\ Spells(c, l) /\ (s.bytes = <<"esc">> => c = <<>>)
    /\ b = s.bytes \o c /\ k = s.keys \o l

\* What is spelt is nothing, or a stroke and what is spelt after it.
LEMMA SpellsCases ==
  ASSUME NEW b, NEW k, Spells(b, k)
  PROVE  \/ b = <<>> /\ k = <<>>
         \/ \E s \in Strokes, c \in Seq(Byte), l \in Seq(Event) : StrokeThen(s, c, l, b, k)
<1> DEFINE Begins(c, l) ==
             \/ c = <<>> /\ l = <<>>
             \/ \E s \in Strokes, c1 \in Seq(Byte), l1 \in Seq(Event) : StrokeThen(s, c1, l1, c, l)
           P == {x \in Texts : Spells(x[1], x[2]) /\ Begins(x[1], x[2])}
<1> HIDE DEF Begins
<1>1. \A c, l : Typed(c, l) \in P => Spells(c, l) /\ Begins(c, l)
  BY TypedIs
<1>2. \A c \in Seq(Byte), l \in Seq(Event) : Spells(c, l) /\ Begins(c, l) => Typed(c, l) \in P
  BY TypedIs
<1>3. P \in SUBSET Texts
  OBVIOUS
<1> HIDE DEF P
<1>4. Typed(<<>>, <<>>) \in P
  BY <1>2, EmptySpells, NoEvents DEF Begins
<1>5. ASSUME NEW s \in Strokes, NEW c \in Seq(Byte), NEW l \in Seq(Event),
             Typed(c, l) \in P, s.bytes = <<"esc">> => c = <<>>
      PROVE  Typed(s.bytes \o c, s.keys \o l) \in P
  <2>1. Spells(c, l)
    BY <1>1, <1>5
  <2>2. Spells(s.bytes \o c, s.keys \o l)
    BY <1>5, <2>1, StrokeSpells
  <2>3. StrokeThen(s, c, l, s.bytes \o c, s.keys \o l)
    BY <1>5, <2>1 DEF StrokeThen
  <2>4. Begins(s.bytes \o c, s.keys \o l)
    BY <2>3 DEF Begins
  <2> QED
    BY <1>2, <2>2, <2>4, StrokeType, ConcatType
<1>6. AddsStrokes(P)
  BY <1>4, <1>5 DEF AddsStrokes
<1>7. Begins(b, k)
  BY <1>1, <1>3, <1>6 DEF Spells
<1> QED
  BY <1>7 DEF Begins

\* A byte sequence that does not end with an ESC.
Settled(b) == b = <<>> \/ b[Len(b)] # "esc"

\* A stroke after others, when no Escape key is left open before it.
LEMMA AppendSpells ==
  ASSUME \A x \in Strokes : x.bytes # <<>>,
         NEW s \in Strokes, NEW b, NEW k, Spells(b, k), Settled(b)
  PROVE  Spells(b \o s.bytes, k \o s.keys)
<1> DEFINE Ends(c, l) == Settled(c) => Spells(c \o s.bytes, l \o s.keys)
           P == {x \in Texts : Ends(x[1], x[2])}
<1>1. s.bytes \in Seq(Byte) /\ s.keys \in Seq(Event)
  BY StrokeType
<1>2. Ends(<<>>, <<>>)
  <2>1. Spells(s.bytes \o <<>>, s.keys \o <<>>)
    BY EmptySpells, StrokeSpells
  <2>2. s.bytes \o <<>> = <<>> \o s.bytes /\ s.keys \o <<>> = <<>> \o s.keys
    BY <1>1
  <2> QED
    BY <2>1, <2>2
<1> HIDE DEF Ends
<1>3. \A c, l : Typed(c, l) \in P => Ends(c, l)
  BY TypedIs
<1>4. \A c \in Seq(Byte), l \in Seq(Event) : Ends(c, l) => Typed(c, l) \in P
  BY TypedIs
<1>5. P \in SUBSET Texts
  OBVIOUS
<1> HIDE DEF P
<1>6. Typed(<<>>, <<>>) \in P
  BY <1>4, <1>2, NoEvents
<1>7. ASSUME NEW x \in Strokes, NEW c \in Seq(Byte), NEW l \in Seq(Event),
             Typed(c, l) \in P, x.bytes = <<"esc">> => c = <<>>
      PROVE  Typed(x.bytes \o c, x.keys \o l) \in P
  <2>1. x.bytes \in Seq(Byte) /\ x.keys \in Seq(Event) /\ x.bytes # <<>>
    BY StrokeType
  <2>2. x.bytes \o c \in Seq(Byte) /\ x.keys \o l \in Seq(Event)
    BY <2>1, ConcatType
  <2>3. ASSUME Settled(x.bytes \o c)
        PROVE  Spells((x.bytes \o c) \o s.bytes, (x.keys \o l) \o s.keys)
    <3>1. Settled(c) /\ x.bytes # <<"esc">>
      <4>1. CASE c = <<>>
        <5>1. x.bytes \o c = x.bytes
          BY <2>1, <4>1
        <5>2. x.bytes[Len(x.bytes)] # "esc"
          BY <2>1, <2>3, <5>1 DEF Settled
        <5> QED
          BY <4>1, <5>2 DEF Settled
      <4>2. CASE c # <<>>
        <5> USE <4>2
        <5>1. Len(c) \in Nat \ {0}
          BY EmptySeq
        <5>2. Len(c) \in 1..Len(c) /\ Len(x.bytes \o c) = Len(x.bytes) + Len(c) /\ Len(x.bytes) \in Nat
          BY <5>1, <2>1, ConcatBytes
        <5>3. (x.bytes \o c)[Len(x.bytes \o c)] = c[Len(c)]
          BY <2>1, <5>2, ConcatBytes
        <5>4. x.bytes \o c # <<>>
          BY <5>2, <2>1, <2>2, ConcatBytes, EmptySeq
        <5> QED
          BY <1>7, <4>2, <5>3, <5>4, <2>3 DEF Settled
      <4> QED
        BY <4>1, <4>2
    <3>2. Spells(c \o s.bytes, l \o s.keys)
      BY <1>7, <1>3, <3>1 DEF Ends
    <3>3. Spells(x.bytes \o (c \o s.bytes), x.keys \o (l \o s.keys))
      BY <3>1, <3>2, StrokeSpells
    <3>4. /\ x.bytes \o (c \o s.bytes) = (x.bytes \o c) \o s.bytes
          /\ x.keys \o (l \o s.keys) = (x.keys \o l) \o s.keys
      <4>1. x.bytes \o (c \o s.bytes) = (x.bytes \o c) \o s.bytes
        BY <1>1, <2>1, <1>7, AssocBytes
      <4>2. x.keys \o (l \o s.keys) = (x.keys \o l) \o s.keys
        BY <1>1, <2>1, <1>7, AssocEvents
      <4> QED
        BY <4>1, <4>2
    <3> QED
      BY <3>3, <3>4
  <2> QED
    BY <1>4, <2>2, <2>3 DEF Ends
<1>8. AddsStrokes(P)
  BY <1>6, <1>7 DEF AddsStrokes
<1>9. Ends(b, k)
  BY <1>3, <1>5, <1>8 DEF Spells
<1> QED
  BY <1>9 DEF Ends

\* No bytes mean nothing but no keys.
LEMMA NothingSpells ==
  ASSUME \A x \in Strokes : x.bytes # <<>>, NEW k, Spells(<<>>, k)
  PROVE  k = <<>>
<1>1. SUFFICES ASSUME NEW s \in Strokes, NEW c \in Seq(Byte), <<>> = s.bytes \o c
               PROVE  FALSE
  BY SpellsCases DEF StrokeThen
<1>2. s.bytes \in Seq(Byte) /\ s.bytes # <<>>
  BY StrokeType
<1>3. Len(s.bytes) >= 1 /\ Len(s.bytes \o c) = Len(s.bytes) + Len(c) /\ Len(c) \in Nat
  BY <1>2, ConcatBytes, EmptySeq
<1> QED
  BY <1>1, <1>3, EmptySeq

RuneKey == Ev("char", <<"L", "K">>)
WellBehaved == \A s \in Strokes : KeyStroke(s)

\* The bytes b, of which the UTF-8 decoder already holds h, mean the keys k.
TextSpells(h, b, k) ==
    \/ h = <<>> /\ Spells(b, k)
    \/ /\ h = <<"L">>
       /\ \E c, l : Spells(c, l) /\ b = <<"K">> \o c /\ k = <<RuneKey>> \o l

\* A byte as a sequence.
LEMMA OneByte ==
  ASSUME NEW b \in Byte
  PROVE  <<b>> \in Seq(Byte) /\ Len(<<b>>) = 1 /\ <<b>>[1] = b
OBVIOUS

\* An event as a sequence.
LEMMA OneEvent ==
  ASSUME NEW e \in Event
  PROVE  <<e>> \in Seq(Event) /\ \A k \in Seq(Event) : Append(k, e) = k \o <<e>>
OBVIOUS

\* The first byte of a sequence, and the others.
LEMMA FirstByte ==
  ASSUME NEW head, NEW r, NEW x, NEW c, SameStream(head, r, x, c), Len(head) = 1, x # <<>>
  PROVE  head[1] = x[1] /\ (Len(x) = 1 => r = c)
<1>1. /\ head \in Seq(Byte) /\ r \in Seq(Byte) /\ x \in Seq(Byte) /\ c \in Seq(Byte)
      /\ head \o r = x \o c
  BY DEF SameStream
<1>2. Len(x) \in Nat \ {0}
  BY <1>1, EmptySeq
<1>3. head \in Seq(Byte) /\ Len(head) = 1 /\ head \o r = x \o c
  BY <1>1
<1>4. (head \o r)[1] = head[1]
  <2>1. 1 \in 1..Len(head)
    BY <1>3
  <2> QED
    BY <1>1, <2>1, ConcatBytes
<1>5. (x \o c)[1] = x[1]
  <2>1. 1 \in 1..Len(x)
    BY <1>2
  <2> QED
    BY <1>1, <2>1, ConcatBytes
<1>6. ASSUME Len(x) = 1 PROVE r = c
  <2> DEFINE rest == Dropped(head, Len(x))
  <2>1. Len(x) <= Len(head)
    BY <1>3, <1>6
  <2>2. rest \o r = c
    BY <2>1, SplitRest
  <2>3. rest \in Seq(Byte) /\ Len(rest) = Len(head) - Len(x)
    BY <1>3, <1>6, SuffixBytes DEF Dropped
  <2> HIDE DEF rest
  <2>4. rest = <<>>
    BY <1>3, <1>6, <2>3, EmptySeq
  <2>5. <<>> \o r = r
    BY <1>1
  <2> QED
    BY <2>2, <2>4, <2>5
<1> QED
  BY <1>3, <1>4, <1>5, <1>6

\* The opening of a paste is four bytes.
LEMMA PasteStartIs ==
  /\ PasteStart \in Seq(Byte) /\ Len(PasteStart) = 4
  /\ PasteStart[1] = "esc" /\ PasteStart[2] = "[" /\ PasteStart[3] = "200" /\ PasteStart[4] = "~"
<1>1. "esc" \in Byte /\ "[" \in Byte /\ "200" \in Byte /\ "~" \in Byte
  BY DEF Byte, Text, Param, Final
<1> QED
  BY <1>1 DEF PasteStart

\* The strokes of a well-behaved terminal: keys of at least one byte.
LEMMA WellBehavedStrokes ==
  ASSUME WellBehaved, NEW s \in Strokes
  PROVE  s.bytes \in Seq(Byte) /\ s.keys \in Seq(Event) /\ KeyStroke(s) /\ s.bytes # <<>>
<1>1. s.bytes \in Seq(Byte) /\ s.keys \in Seq(Event) /\ KeyStroke(s)
  BY StrokeType DEF WellBehaved
<1>2. CASE IsChar(s)
  <2>1. Len(s.bytes) >= 1
    BY <1>2 DEF IsChar, Stroke
  <2> QED
    BY <1>1, <2>1, EmptySeq
<1>3. CASE IsRune(s)
  <2>1. Len(s.bytes) >= 1
    BY <1>3 DEF IsRune, Stroke
  <2> QED
    BY <1>1, <2>1, EmptySeq
<1>4. CASE IsControl(s)
  <2>1. Len(s.bytes) >= 1
    BY <1>4 DEF IsControl, Stroke
  <2> QED
    BY <1>1, <2>1, EmptySeq
<1>5. CASE IsEscape(s)
  <2>1. Len(s.bytes) >= 1
    BY <1>5 DEF IsEscape, Stroke
  <2> QED
    BY <1>1, <2>1, EmptySeq
<1>6. CASE IsAlt(s)
  <2>1. Len(s.bytes) >= 1
    BY <1>6 DEF IsAlt, Stroke
  <2> QED
    BY <1>1, <2>1, EmptySeq
<1>7. CASE IsSs3(s)
  <2>1. Len(s.bytes) >= 1
    BY <1>7 DEF IsSs3, Stroke
  <2> QED
    BY <1>1, <2>1, EmptySeq
<1>8. CASE IsCsi(s)
  BY <1>1, <1>8, EmptySeq DEF IsCsi
<1>9. CASE IsLegacyMouse(s)
  BY <1>1, <1>9, EmptySeq DEF IsLegacyMouse
<1>10. CASE IsSgrMouse(s)
  BY <1>1, <1>10, EmptySeq DEF IsSgrMouse
<1>11. CASE IsPaste(s)
  <2>1. PICK n \in 0..Len(s.bytes) - 8 : TRUE
    BY <1>11 DEF IsPaste
  <2>2. Len(s.bytes) \in Nat /\ Len(s.bytes) >= 8
    BY <1>1, <2>1
  <2> QED
    BY <1>1, <2>2, EmptySeq
<1> QED
  BY <1>1, <1>2, <1>3, <1>4, <1>5, <1>6, <1>7, <1>8, <1>9, <1>10, <1>11 DEF KeyStroke

\* Only characters begin with a text byte.
LEMMA TextStroke ==
  ASSUME WellBehaved, NEW s \in Strokes, s.bytes[1] \in Text
  PROVE  IsChar(s) \/ IsRune(s)
<1>1. s.bytes \in Seq(Byte) /\ KeyStroke(s)
  BY WellBehavedStrokes
<1>2. "esc" \notin Text /\ \A b \in Control : b \notin Text
  BY DEF Text, Control, Param, Intermediate, Final, Letter
<1>3. CASE IsControl(s)
  BY <1>2, <1>3 DEF IsControl, Stroke
<1>4. CASE IsEscape(s)
  BY <1>2, <1>4 DEF IsEscape, Stroke
<1>5. CASE IsAlt(s)
  BY <1>2, <1>5 DEF IsAlt, Stroke
<1>6. CASE IsSs3(s)
  BY <1>2, <1>6 DEF IsSs3, Stroke
<1>7. CASE IsCsi(s)
  BY <1>2, <1>7 DEF IsCsi
<1>8. CASE IsLegacyMouse(s)
  BY <1>2, <1>8 DEF IsLegacyMouse
<1>9. CASE IsSgrMouse(s)
  BY <1>2, <1>9 DEF IsSgrMouse
<1>10. CASE IsPaste(s)
  <2>1. PICK n \in 0..Len(s.bytes) - 8 :
           s.bytes = PasteStart \o (SubSeq(s.bytes, 5, n + 4) \o PasteEnd)
    BY <1>10 DEF IsPaste
  <2>2. Len(s.bytes) \in Nat
    BY <1>1
  <2>3. n + 4 \in 0..Len(s.bytes) /\ 5 \in 1..Len(s.bytes) + 1
    BY <2>2
  <2>4. SubSeq(s.bytes, 5, n + 4) \in Seq(Byte)
    BY <1>1, <2>3, SubSeqBytes
  <2>5. SubSeq(s.bytes, 5, n + 4) \o PasteEnd \in Seq(Byte)
    BY <2>4, PasteEndIs, ConcatType
  <2>6. PasteStart \in Seq(Byte) /\ Len(PasteStart) = 4 /\ PasteStart[1] = "esc"
    BY PasteStartIs
  <2> DEFINE tail == SubSeq(s.bytes, 5, n + 4) \o PasteEnd
  <2>7. s.bytes[1] = "esc"
    <3>1. s.bytes = PasteStart \o tail /\ tail \in Seq(Byte) /\ 1 \in 1..Len(PasteStart)
      BY <2>1, <2>5, <2>6
    <3> HIDE DEF tail
    <3>2. (PasteStart \o tail)[1] = PasteStart[1]
      BY <2>6, <3>1, ConcatBytes
    <3> QED
      BY <2>6, <3>1, <3>2
  <2> QED
    BY <1>2, <2>7
<1> QED
  BY <1>1, <1>3, <1>4, <1>5, <1>6, <1>7, <1>8, <1>9, <1>10 DEF KeyStroke

\* The types of the two-byte character.
LEMMA RuneKeyType ==
  /\ RuneKey \in Event /\ <<RuneKey>> \in Seq(Event)
  /\ "K" \in Byte /\ "L" \in Byte /\ "K" \in Text /\ "L" \in Text
  /\ \A b \in Byte : Ev("char", <<b>>) \in Event
<1>1. "K" \in Text /\ "L" \in Text /\ "K" \in Byte /\ "L" \in Byte
  BY DEF Text, Byte
<1>2. <<"L", "K">> \in Seq(Byte)
  BY <1>1
<1>3. \A b \in Byte : <<b>> \in Seq(Byte)
  BY OneByte
<1> QED
  BY <1>1, <1>2, <1>3, EvType, KindNames DEF RuneKey

\* The types of what strokes spell.
LEMMA SpellsTypes ==
  ASSUME NEW b, NEW k, Spells(b, k)
  PROVE  b \in Seq(Byte) /\ k \in Seq(Event)
BY DEF Spells

\* The types of what text spells.
LEMMA TextSpellsType ==
  ASSUME NEW h, NEW b, NEW k, TextSpells(h, b, k)
  PROVE  b \in Seq(Byte) /\ k \in Seq(Event)
<1>1. CASE Spells(b, k)
  BY <1>1, SpellsTypes
<1>2. CASE \E c, l : Spells(c, l) /\ b = <<"K">> \o c /\ k = <<RuneKey>> \o l
  <2>1. PICK c, l : Spells(c, l) /\ b = <<"K">> \o c /\ k = <<RuneKey>> \o l
    BY <1>2
  <2>2. c \in Seq(Byte) /\ l \in Seq(Event) /\ <<"K">> \in Seq(Byte) /\ <<RuneKey>> \in Seq(Event)
    BY <2>1, SpellsTypes, RuneKeyType, OneByte
  <2>3. <<"K">> \o c \in Seq(Byte)
    BY <2>2, ConcatType
  <2>4. <<RuneKey>> \o l \in Seq(Event)
    BY <2>2, ConcatType
  <2> QED
    BY <2>1, <2>3, <2>4
<1> QED
  BY <1>1, <1>2 DEF TextSpells

\* A byte before others.
LEMMA ByteThen ==
  ASSUME NEW b \in Byte, NEW r \in Seq(Byte)
  PROVE  <<b>> \o r \in Seq(Byte) /\ <<b>> \o r # <<>>
<1> DEFINE x == <<b>>
<1>1. x \in Seq(Byte) /\ Len(x) = 1
  BY OneByte
<1> HIDE DEF x
<1>2. x \o r \in Seq(Byte) /\ Len(x \o r) = 1 + Len(r) /\ Len(r) \in Nat
  BY <1>1, ConcatBytes
<1>3. x \o r # <<>>
  BY <1>2, EmptySeq
<1> QED
  BY <1>2, <1>3 DEF x

\* An event appended is an event before the others.
LEMMA AppendThen ==
  ASSUME NEW out \in Seq(Event), NEW e \in Event, NEW l \in Seq(Event)
  PROVE  Append(out, e) \o l = out \o (<<e>> \o l)
<1> DEFINE one == <<e>>
<1>1. one \in Seq(Event) /\ Append(out, e) = out \o one
  BY OneEvent
<1> HIDE DEF one
<1>2. (out \o one) \o l = out \o (one \o l)
  BY <1>1, AssocEvents
<1> QED
  BY <1>1, <1>2 DEF one

\* One byte of text: the characters it completes, and what is left to read.
TextGoesOn(u, v, r, k) ==
    \E l \in Seq(Event) : TextSpells(v.held, r, l) /\ u.out \o k = v.out \o l

\* A byte of text: the UTF-8 decoder holds it, or returns the character it
\* completes.
LEMMA TextByte ==
  ASSUME WellBehaved, NEW u \in TextState, NEW b \in Text, NEW r \in Seq(Byte), NEW k,
         TextSpells(u.held, <<b>> \o r, k)
  PROVE  TextGoesOn(u, DecodeByte(u, b), r, k)
<1> DEFINE rem == <<b>> \o r
           v == DecodeByte(u, b)
<1>1. b \in Byte /\ u.out \in Seq(Event) /\ k \in Seq(Event)
  BY TextSpellsType DEF Byte, TextState
<1> DEFINE head == <<b>>
<1>2. /\ rem \in Seq(Byte) /\ rem # <<>> /\ rem = head \o r
      /\ head \in Seq(Byte) /\ Len(head) = 1 /\ head[1] = b
  BY <1>1, ByteThen, OneByte
<1>3. TextSpells(u.held, rem, k)
  OBVIOUS
<1> HIDE DEF rem, head
<1>4. ASSUME u.held = <<>>, Spells(rem, k) PROVE TextGoesOn(u, v, r, k)
  <2>1. PICK s \in Strokes, c \in Seq(Byte), l \in Seq(Event) :
           StrokeThen(s, c, l, rem, k)
    BY <1>2, <1>4, SpellsCases
  <2>2. Spells(c, l) /\ rem = s.bytes \o c /\ k = s.keys \o l
    BY <2>1 DEF StrokeThen
  <2>3. s.bytes \in Seq(Byte) /\ s.bytes # <<>>
    BY WellBehavedStrokes
  <2>4. b = s.bytes[1] /\ (Len(s.bytes) = 1 => r = c)
    <3>1. SameStream(head, r, s.bytes, c)
      BY <1>2, <2>2, <2>3 DEF SameStream
    <3> QED
      BY <1>2, <2>3, <3>1, FirstByte
  <2>5. CASE IsChar(s)
    <3>1. PICK x \in Text \ {"L", "K"} : s = Stroke(<<x>>, <<Ev("char", <<x>>)>>)
      BY <2>5 DEF IsChar
    <3>2. s.bytes = <<x>> /\ s.keys = <<Ev("char", <<x>>)>> /\ Len(s.bytes) = 1 /\ s.bytes[1] = x
      BY <3>1 DEF Stroke
    <3>3. b = x /\ r = c /\ b # "L" /\ b # "K"
      BY <2>4, <3>2
    <3> DEFINE e == Ev("char", <<b>>)
    <3>4. v = [held |-> <<>>, out |-> Append(u.out, e)]
      BY <1>4, <3>3 DEF DecodeByte
    <3>5. e \in Event
      BY <1>1, RuneKeyType
    <3>6. k = <<e>> \o l
      BY <2>2, <3>2, <3>3
    <3> HIDE DEF e, v
    <3>7. v.held = <<>> /\ v.out = Append(u.out, e)
      BY <3>4
    <3>8. u.out \o k = v.out \o l
      <4>1. Append(u.out, e) \o l = u.out \o (<<e>> \o l)
        BY <1>1, <3>5, AppendThen
      <4> QED
        BY <3>7, <3>6, <4>1
    <3>9. TextSpells(v.held, r, l)
      BY <2>2, <3>3, <3>7 DEF TextSpells
    <3> QED
      BY <3>8, <3>9 DEF TextGoesOn
  <2>6. CASE IsRune(s)
    <3>1. s.bytes = <<"L", "K">> /\ s.keys = <<RuneKey>> /\ s.bytes[1] = "L"
      BY <2>6 DEF IsRune, Stroke, RuneKey
    <3>2. b = "L"
      BY <2>4, <3>1
    <3>3. v = [held |-> <<"L">>, out |-> u.out]
      BY <1>4, <3>2 DEF DecodeByte
    <3> HIDE DEF v
    <3>4. v.held = <<"L">> /\ v.out = u.out
      BY <3>3
    <3>5. r = <<"K">> \o c
      <4>1. <<"L", "K">> = <<"L">> \o <<"K">>
        OBVIOUS
      <4> DEFINE lead == <<"L">>
                 rest == <<"K">>
      <4>2. lead \in Seq(Byte) /\ rest \in Seq(Byte) /\ lead # <<>> /\ Len(lead) = 1
        BY RuneKeyType, OneByte
      <4>3. rem = (lead \o rest) \o c
        BY <2>2, <3>1, <4>1
      <4> HIDE DEF lead, rest
      <4>4. rest \o c \in Seq(Byte) /\ (lead \o rest) \o c = lead \o (rest \o c)
        BY <4>2, ConcatType, AssocBytes
      <4> DEFINE y == rest \o c
      <4>5. y \in Seq(Byte) /\ head \o r = lead \o y
        BY <1>2, <4>3, <4>4
      <4> HIDE DEF y
      <4>6. r = y
        <5>1. SameStream(head, r, lead, y)
          BY <1>2, <4>2, <4>5 DEF SameStream
        <5> QED
          BY <1>2, <4>2, <5>1, FirstByte
      <4> QED
        BY <4>6 DEF rest, y
    <3>6. TextSpells(v.held, r, k)
      BY <2>2, <3>1, <3>4, <3>5 DEF TextSpells
    <3> QED
      BY <1>1, <3>4, <3>6 DEF TextGoesOn
  <2> QED
    BY <2>4, <2>5, <2>6, TextStroke
<1>5. ASSUME NEW c, NEW l, u.held = <<"L">>, Spells(c, l),
             rem = <<"K">> \o c, k = <<RuneKey>> \o l
      PROVE  TextGoesOn(u, v, r, k)
  <2>1. c \in Seq(Byte) /\ l \in Seq(Event)
    BY <1>5, SpellsTypes
  <2> DEFINE x == <<"K">>
  <2>2. x \in Seq(Byte) /\ x # <<>> /\ Len(x) = 1 /\ x[1] = "K" /\ head \o r = x \o c
    BY <1>2, <1>5, RuneKeyType, OneByte
  <2> HIDE DEF x
  <2>3. b = "K" /\ r = c
    <3>1. SameStream(head, r, x, c)
      BY <1>2, <2>1, <2>2 DEF SameStream
    <3> QED
      BY <1>2, <2>2, <3>1, FirstByte
  <2>4. v = [held |-> <<>>, out |-> Append(u.out, RuneKey)]
    BY <1>5, <2>3 DEF DecodeByte, RuneKey
  <2> HIDE DEF v
  <2>5. v.held = <<>> /\ v.out = Append(u.out, RuneKey)
    BY <2>4
  <2>6. u.out \o k = v.out \o l
    <3>1. RuneKey \in Event
      BY RuneKeyType
    <3>2. Append(u.out, RuneKey) \o l = u.out \o (<<RuneKey>> \o l)
      BY <1>1, <2>1, <3>1, AppendThen
    <3> QED
      BY <1>5, <2>5, <3>2
  <2>7. TextSpells(v.held, r, l)
    BY <1>5, <2>3, <2>5 DEF TextSpells
  <2> QED
    BY <2>1, <2>6, <2>7 DEF TextGoesOn
<1> QED
  BY <1>3, <1>4, <1>5 DEF TextSpells

\* The bytes of a buffer from the i-th on.
After(buf, i, w) == Dropped(buf, i) \o w

\* A byte and those after it.
LEMMA NextByte ==
  ASSUME NEW buf \in Seq(Byte), NEW w \in Seq(Byte), NEW i \in 1..Len(buf)
  PROVE  After(buf, i, w) \in Seq(Byte) /\ After(buf, i - 1, w) = <<buf[i]>> \o After(buf, i, w)
<1> DEFINE tail == SubSeq(buf, i + 1, Len(buf))
           next == SubSeq(buf, (i - 1) + 1, Len(buf))
           x == <<buf[i]>>
<1>1. Len(buf) \in Nat /\ i \in 0..Len(buf) /\ i - 1 \in 0..Len(buf) /\ buf[i] \in Byte
  OBVIOUS
<1>2. /\ tail \in Seq(Byte) /\ Len(tail) = Len(buf) - i
      /\ \A j \in 1..Len(buf) - i : tail[j] = buf[i + j]
  BY <1>1, SuffixBytes
<1>3. /\ next \in Seq(Byte) /\ Len(next) = Len(buf) - (i - 1)
      /\ \A j \in 1..Len(buf) - (i - 1) : next[j] = buf[(i - 1) + j]
  BY <1>1, SuffixBytes
<1>4. x \in Seq(Byte) /\ Len(x) = 1 /\ x[1] = buf[i]
  BY <1>1, OneByte
<1> HIDE DEF tail, next, x
<1>5. /\ x \o tail \in Seq(Byte) /\ Len(x \o tail) = 1 + Len(tail)
      /\ (x \o tail)[1] = x[1]
      /\ \A j \in 1..Len(tail) : (x \o tail)[1 + j] = tail[j]
  <2>1. /\ x \o tail \in Seq(Byte) /\ Len(x \o tail) = Len(x) + Len(tail)
        /\ \A j \in 1..Len(x) : (x \o tail)[j] = x[j]
        /\ \A j \in 1..Len(tail) : (x \o tail)[Len(x) + j] = tail[j]
    BY <1>2, <1>4, ConcatBytes
  <2> QED
    BY <2>1, <1>4
<1>6. ASSUME NEW j \in 1..Len(next) PROVE next[j] = (x \o tail)[j]
  <2>1. CASE j = 1
    <3>1. next[1] = buf[i]
      BY <1>1, <1>3, <2>1
    <3> QED
      BY <2>1, <3>1, <1>4, <1>5
  <2>2. CASE j # 1
    <3>1. j - 1 \in 1..Len(tail) /\ 1 + (j - 1) = j /\ i + (j - 1) = (i - 1) + j
      BY <1>1, <1>2, <1>3, <2>2
    <3>2. next[j] = buf[(i - 1) + j]
      BY <1>3
    <3>3. (x \o tail)[j] = tail[j - 1]
      BY <1>5, <3>1
    <3>4. tail[j - 1] = buf[i + (j - 1)]
      BY <1>2, <3>1
    <3> QED
      BY <3>1, <3>2, <3>3, <3>4
  <2> QED
    BY <2>1, <2>2
<1>7. Len(next) = Len(x \o tail)
  BY <1>1, <1>2, <1>3, <1>5
<1>8. next = x \o tail
  BY <1>3, <1>5, <1>6, <1>7, SameBytes
<1>9. next \o w = x \o (tail \o w) /\ tail \o w \in Seq(Byte)
  BY <1>2, <1>4, <1>8, AssocBytes, ConcatType
<1> QED
  BY <1>9 DEF next, tail, x, After, Dropped

-----------------------------------------------------------------------------
(* A turn of the loop, on text *)

\* The bytes b are the rest of a paste of which kept is already there, and then strokes.
PasteSpells(kept, b, k) ==
    \E payload, c, l :
        /\ payload \in Seq(Byte)
        /\ Spells(c, l)
        /\ EndsAt(payload \o PasteEnd) = {Len(payload) + 1}
        /\ b = (payload \o PasteEnd) \o c
        /\ k = PasteKeys(kept \o payload) \o l

\* To the decoder d, the bytes b still to be decoded mean the keys k.
Means(d, b, k) ==
    \/ ~d.open /\ TextSpells(d.held, b, k)
    \/ d.open /\ d.held = <<>> /\ PasteSpells(d.paste, b, k)

\* What a turn of the loop leaves of the keys k.
GoesOn(s, w, k) ==
    \E l \in Seq(Event) :
        /\ k = s.out \o l
        /\ Means(s.dec, s.dec.buf \o w, l)
        /\ ~s.again /\ w = <<>> => PendingEscape(s.dec)

\* _consume_text decodes what a text means, and keeps a character that has
\* only begun.
LEMMA TextTurn ==
  ASSUME WellBehaved, NEW d \in Decoder, d.buf # <<>>, d.buf[1] \in Text, ~d.open,
         NEW w \in Seq(Byte), NEW k, TextSpells(d.held, d.buf \o w, k)
  PROVE  GoesOn(ConsumeText(d), w, k)
<1> DEFINE buf == d.buf
           end == SkipOver(d.buf, 1, Text) - 1
           run == SubSeq(d.buf, 1, end)
           start == [held |-> d.held, out |-> <<>>]
           t == FoldLeft(DecodeByte, start, run)
           Onward(i) == After(buf, i, w)
           Good(i, u) == \E l \in Seq(Event) : TextSpells(u.held, Onward(i), l) /\ k = u.out \o l
           J == [i \in 0..end |-> {u \in TextState : Good(i, u)}]
<1>1. /\ buf \in Seq(Byte) /\ Len(buf) \in Nat /\ end \in 1..Len(buf)
      /\ run \in Seq(Byte) /\ Len(run) = end
      /\ \A j \in 1..end : run[j] = buf[j] /\ buf[j] \in Text
      /\ end < Len(buf) => buf[end + 1] \notin Text
  BY TextRun, DecoderFields
<1>2. start \in TextState /\ start.held = d.held /\ start.out = <<>> /\ k \in Seq(Event)
  BY DecoderFields, NoEvents, TextSpellsType DEF TextState
<1>3. ConsumeText(d) = LET cut == end < Len(d.buf)
                           out == IF cut /\ t.held # <<>> THEN Append(t.out, Bad) ELSE t.out
                       IN  Consume([d EXCEPT !.held = IF cut THEN <<>> ELSE t.held], end, out)
  BY DEF ConsumeText
<1> HIDE DEF end, run, start
<1>4. t \in TextState /\ Good(end, t)
  <2>1. Good(0, start)
    <3>1. SubSeq(buf, 0 + 1, Len(buf)) = buf
      BY <1>1, SubSeqFull
    <3>2. Onward(0) = buf \o w
      BY <3>1 DEF After, Dropped
    <3>3. k = <<>> \o k
      BY <1>2
    <3> QED
      BY <1>2, <3>2, <3>3
  <2>2. ASSUME NEW i \in 1..end, NEW u \in TextState, Good(i - 1, u)
        PROVE  DecodeByte(u, run[i]) \in TextState /\ Good(i, DecodeByte(u, run[i]))
    <3> DEFINE v == DecodeByte(u, run[i])
    <3>1. run[i] = buf[i] /\ run[i] \in Text /\ run[i] \in Byte /\ i \in 1..Len(buf)
      BY <1>1 DEF Byte
    <3>2. v \in TextState
      BY <3>1, DecodeByteType
    <3>3. PICK l \in Seq(Event) : TextSpells(u.held, Onward(i - 1), l) /\ k = u.out \o l
      BY <2>2
    <3>4. Onward(i) \in Seq(Byte) /\ Onward(i - 1) = <<run[i]>> \o Onward(i)
      BY <1>1, <3>1, NextByte
    <3>5. TextGoesOn(u, v, Onward(i), l)
      BY <3>1, <3>3, <3>4, TextByte
    <3> HIDE DEF v
    <3>6. Good(i, v)
      BY <3>3, <3>5 DEF TextGoesOn
    <3> QED
      BY <3>2, <3>6 DEF v
  <2> HIDE DEF Good
  <2>3. \A i \in 0..Len(run) : J[i] \subseteq TextState
    BY <1>1
  <2>4. start \in J[0]
    BY <1>1, <1>2, <2>1
  <2>5. ASSUME NEW i \in 1..Len(run), NEW u \in J[i - 1] PROVE DecodeByte(u, run[i]) \in J[i]
    <3>1. i \in 1..end /\ i \in 0..end /\ i - 1 \in 0..end
      BY <1>1
    <3>2. u \in TextState /\ Good(i - 1, u)
      BY <3>1
    <3> QED
      BY <2>2, <3>1, <3>2
  <2> HIDE DEF J
  <2>6. t \in J[Len(run)]
    BY <1>1, <2>3, <2>4, <2>5, FoldInvariant
  <2> QED
    BY <1>1, <2>6 DEF J
<1> HIDE DEF t
<1>5. PICK l \in Seq(Event) : TextSpells(t.held, Onward(end), l) /\ k = t.out \o l
  BY <1>4
<1>6. t.held \in Seq({"L"}) /\ t.out \in Seq(Event)
  BY <1>4 DEF TextState
<1>7. end < Len(buf) => t.held = <<>>
  <2> SUFFICES ASSUME end < Len(buf), t.held # <<>> PROVE FALSE
    OBVIOUS
  <2>1. PICK c, m : Spells(c, m) /\ Onward(end) = <<"K">> \o c
    BY <1>5 DEF TextSpells
  <2>2. c \in Seq(Byte)
    BY <2>1, SpellsTypes
  <2>3. end + 1 \in 1..Len(buf) /\ end + 1 - 1 = end /\ buf[end + 1] \in Byte
    BY <1>1
  <2>4. Onward(end + 1) \in Seq(Byte) /\ Onward(end) = <<buf[end + 1]>> \o Onward(end + 1)
    <3> DEFINE i == end + 1
    <3>1. i \in 1..Len(buf) /\ i - 1 = end
      BY <1>1, <2>3
    <3> HIDE DEF i
    <3>2. Onward(i) \in Seq(Byte) /\ Onward(i - 1) = <<buf[i]>> \o Onward(i)
      BY <1>1, <3>1, NextByte
    <3> QED
      BY <3>1, <3>2 DEF i
  <2> DEFINE head == <<buf[end + 1]>>
             x == <<"K">>
  <2>5. head \in Seq(Byte) /\ Len(head) = 1 /\ head[1] = buf[end + 1]
    BY <2>3, OneByte
  <2>6. x \in Seq(Byte) /\ x # <<>> /\ x[1] = "K"
    BY RuneKeyType, OneByte
  <2>7. head \o Onward(end + 1) = x \o c
    BY <2>1, <2>4
  <2> HIDE DEF head, x
  <2>8. SameStream(head, Onward(end + 1), x, c)
    BY <2>2, <2>4, <2>5, <2>6, <2>7 DEF SameStream
  <2>9. buf[end + 1] = "K"
    BY <2>5, <2>6, <2>8, FirstByte
  <2> QED
    BY <1>1, <2>9, RuneKeyType
<1> DEFINE e == [d EXCEPT !.held = t.held]
<1>8. ConsumeText(d) = Consume(e, end, t.out)
  BY <1>3, <1>7
<1>9. e \in Decoder /\ e.buf = buf /\ e.held = t.held /\ e.open = d.open
  BY <1>6 DEF Decoder
<1> HIDE DEF e
<1>10. end \in 0..Len(e.buf)
  BY <1>1, <1>9
<1> DEFINE out == t.out
           s == Consume(e, end, out)
<1>11. /\ s.again /\ s.out = out /\ s.dec.held = t.held /\ s.dec.open = d.open
       /\ s.dec.buf = Dropped(buf, end)
  <2>1. e \in Decoder /\ out \in Seq(Event)
    BY <1>6, <1>9
  <2> HIDE DEF out
  <2>2. Takes(e, end, out)
    BY <2>1, <1>10 DEF Takes
  <2>3. /\ s.again /\ s.out = out /\ s.dec.held = e.held /\ s.dec.open = e.open
        /\ s.dec.buf = Dropped(e.buf, end)
    BY <2>2, TakesIs DEF Took
  <2> QED
    BY <1>9, <2>3
<1> HIDE DEF s
<1>12. s.dec.buf \o w = Onward(end)
  BY <1>11 DEF After
<1>13. Means(s.dec, s.dec.buf \o w, l)
  BY <1>5, <1>11, <1>12 DEF Means
<1>14. GoesOn(s, w, k)
  BY <1>5, <1>11, <1>13 DEF GoesOn
<1> QED
  BY <1>8, <1>14 DEF s

-----------------------------------------------------------------------------
(* A turn of the loop, on the other keys *)

\* A paste means events, or none.
LEMMA PasteKeysType ==
  ASSUME NEW s \in Seq(Byte)
  PROVE  PasteKeys(s) \in Seq(Event)
<1> DEFINE kept == Kept(s)
<1>1. kept \in Seq(Byte)
  BY KeptType
<1> HIDE DEF kept
<1>2. <<Ev("paste", kept)>> \in Seq(Event)
  BY <1>1, EvType, KindNames
<1> QED
  BY <1>2, NoEvents DEF PasteKeys, kept

\* What bytes mean is events.
LEMMA MeansType ==
  ASSUME NEW d \in Decoder, NEW b, NEW k, Means(d, b, k)
  PROVE  k \in Seq(Event)
<1>1. CASE TextSpells(d.held, b, k)
  BY <1>1, TextSpellsType
<1>2. CASE PasteSpells(d.paste, b, k)
  <2>1. PICK payload, c, l :
           payload \in Seq(Byte) /\ Spells(c, l) /\ k = PasteKeys(d.paste \o payload) \o l
    BY <1>2 DEF PasteSpells
  <2> DEFINE keys == PasteKeys(d.paste \o payload)
  <2>2. keys \in Seq(Event)
    <3>1. d.paste \o payload \in Seq(Byte)
      BY <2>1, DecoderFields, ConcatType
    <3> QED
      BY <3>1, PasteKeysType
  <2> QED
    BY <2>1, <2>2, SpellsTypes, ConcatType
<1> QED
  BY <1>1, <1>2 DEF Means

\* A turn that has to wait: more bytes are on their way.
LEMMA WaitTurn ==
  ASSUME NEW d \in Decoder, NEW w \in Seq(Byte), NEW k, Means(d, d.buf \o w, k),
         w = <<>> => PendingEscape(d)
  PROVE  GoesOn(Incomplete(d), w, k)
<1>1. Incomplete(d).dec = d /\ Incomplete(d).out = <<>> /\ ~Incomplete(d).again
  BY DEF Incomplete
<1>2. k \in Seq(Event) /\ k = <<>> \o k
  BY MeansType
<1> QED
  BY <1>1, <1>2 DEF GoesOn

\* A buffer that does not hold all of x is followed by more bytes.
LEMMA NotAll ==
  ASSUME NEW buf, NEW w, NEW x, NEW y, SameStream(buf, w, x, y), Len(buf) < Len(x)
  PROVE  w # <<>>
<1>1. Len(buf) + Len(w) = Len(x) + Len(y)
  BY SplitStream
<1>2. Len(buf) \in Nat /\ Len(w) \in Nat /\ Len(x) \in Nat /\ Len(y) \in Nat
  BY DEF SameStream
<1>3. Len(w) # 0
  BY <1>1, <1>2
<1> QED
  BY <1>3

\* A stroke that is decoded whole, or waited for.
LEMMA WholeStroke ==
  ASSUME NEW d \in Decoder, ~d.open, d.held = <<>>, NEW w \in Seq(Byte),
         NEW s, NEW c \in Seq(Byte), NEW l \in Seq(Event), NEW k,
         s.bytes \in Seq(Byte), s.keys \in Seq(Event),
         Spells(d.buf \o w, k), StrokeThen(s, c, l, d.buf \o w, k),
         DecodesTo(d, s, s.keys)
  PROVE  GoesOn(ConsumeOne(d), w, k)
<1> DEFINE n == Len(s.bytes)
           t == Consume(d, n, s.keys)
<1>1. /\ d.buf \in Seq(Byte) /\ Len(d.buf) \in Nat /\ n \in Nat
      /\ Spells(c, l) /\ d.buf \o w = s.bytes \o c /\ k = s.keys \o l
  BY DecoderFields DEF StrokeThen
<1>2. SameStream(d.buf, w, s.bytes, c)
  BY <1>1 DEF SameStream
<1>3. CASE n <= Len(d.buf)
  <2>1. ConsumeOne(d) = t
    BY <1>3 DEF DecodesTo
  <2>2. Takes(d, n, s.keys)
    BY <1>1, <1>3 DEF Takes
  <2>3. /\ t.again /\ t.out = s.keys /\ t.dec.held = d.held /\ t.dec.open = d.open
        /\ t.dec.buf = Dropped(d.buf, n)
    BY <2>2, TakesIs DEF Took
  <2> HIDE DEF t
  <2>4. Dropped(d.buf, n) \o w = c
    BY <1>2, <1>3, SplitRest
  <2>5. TextSpells(t.dec.held, t.dec.buf \o w, l)
    BY <1>1, <2>3, <2>4 DEF TextSpells
  <2>6. GoesOn(t, w, k)
    BY <1>1, <2>3, <2>5 DEF GoesOn, Means
  <2> QED
    BY <2>1, <2>6
<1>4. CASE Len(d.buf) < n
  <2>1. ConsumeOne(d) = Incomplete(d)
    BY <1>4 DEF DecodesTo
  <2>2. w # <<>>
    BY <1>2, <1>4, NotAll
  <2>3. Means(d, d.buf \o w, k)
    BY DEF Means, TextSpells
  <2> QED
    BY <2>1, <2>2, <2>3, WaitTurn
<1> QED
  BY <1>1, <1>3, <1>4

\* A lone ESC is waited for, with the escape timer.
LEMMA LoneEscape ==
  ASSUME NEW d \in Decoder, d.buf # <<>>, ~d.open, d.held = <<>>, NEW w \in Seq(Byte),
         NEW s, IsEscape(s), NEW c \in Seq(Byte), NEW l \in Seq(Event), NEW k,
         Spells(d.buf \o w, k), StrokeThen(s, c, l, d.buf \o w, k)
  PROVE  GoesOn(ConsumeOne(d), w, k)
<1>1. d.buf \in Seq(Byte) /\ Len(d.buf) \in Nat \ {0}
  BY DecoderFields, EmptySeq
<1>2. s.bytes = <<"esc">> /\ Len(s.bytes) = 1 /\ s.bytes[1] = "esc" /\ s.bytes \in Seq(Byte)
  BY DEF IsEscape, Stroke, Byte
<1>3. c = <<>> /\ d.buf \o w = s.bytes \o c
  BY <1>2 DEF StrokeThen
<1>4. SameStream(d.buf, w, s.bytes, c)
  BY <1>1, <1>2, <1>3 DEF SameStream
<1>5. Len(d.buf) + Len(w) = 1
  <2>1. Len(d.buf) + Len(w) = Len(s.bytes) + Len(c)
    BY <1>4, SplitLen
  <2>2. Len(c) = 0
    BY <1>3, EmptySeq
  <2> QED
    BY <1>2, <2>1, <2>2
<1>6. Len(d.buf) = 1 /\ Len(w) = 0
  <2> DEFINE a == Len(d.buf)
             b == Len(w)
  <2>1. a \in Nat /\ b \in Nat /\ a # 0 /\ a + b = 1
    BY <1>1, <1>5
  <2> HIDE DEF a, b
  <2>2. a = 1 /\ b = 0
    BY <2>1
  <2> QED
    BY <2>2 DEF a, b
<1>7. d.buf = <<"esc">>
  <2>1. d.buf \o w = d.buf /\ s.bytes \o c = s.bytes
    BY <1>1, <1>2, <1>3, <1>6
  <2> QED
    BY <1>2, <1>3, <2>1
<1>8. ConsumeOne(d) = ConsumeEscape(d)
  BY <1>7 DEF ConsumeOne, Control
<1>9. ConsumeEscape(d) = Incomplete(d)
  BY <1>6 DEF ConsumeEscape
<1>10. PendingEscape(d)
  BY <1>7 DEF PendingEscape
<1>11. Means(d, d.buf \o w, k)
  BY DEF Means, TextSpells
<1> QED
  BY <1>8, <1>9, <1>10, <1>11, WaitTurn

\* The opening of a paste opens it, once it is all there.
LEMMA PasteOpening ==
  ASSUME NEW d \in Decoder, d.buf # <<>>, ~d.open, d.held = <<>>, NEW w \in Seq(Byte),
         NEW s, s.bytes \in Seq(Byte), IsPaste(s), NEW c \in Seq(Byte), NEW l \in Seq(Event), NEW k,
         Spells(d.buf \o w, k), StrokeThen(s, c, l, d.buf \o w, k)
  PROVE  GoesOn(ConsumeOne(d), w, k)
<1>1. d.buf \in Seq(Byte) /\ Len(d.buf) \in Nat
  BY DecoderFields
<1>2. PICK n \in 0..Len(s.bytes) - 8 :
         LET payload == SubSeq(s.bytes, 5, n + 4)
         IN  /\ s.bytes = PasteStart \o (payload \o PasteEnd)
             /\ EndsAt(payload \o PasteEnd) = {Len(payload) + 1}
             /\ s.keys = PasteKeys(payload)
  BY DEF IsPaste
<1> DEFINE payload == SubSeq(s.bytes, 5, n + 4)
           body == payload \o PasteEnd
           rest == body \o c
<1>3. payload \in Seq(Byte) /\ Len(payload) \in Nat
  <2>1. Len(s.bytes) \in Nat
    OBVIOUS
  <2>2. n + 4 \in 0..Len(s.bytes) /\ 5 \in 1..Len(s.bytes) + 1
    BY <2>1
  <2>3. payload \in Seq(Byte)
    BY <2>2, SubSeqBytes
  <2> HIDE DEF payload
  <2> QED
    BY <2>3
<1>4. /\ s.bytes = PasteStart \o body
      /\ EndsAt(body) = {Len(payload) + 1}
      /\ s.keys = PasteKeys(payload)
  BY <1>2
<1> HIDE DEF payload
<1>5. body \in Seq(Byte)
  BY <1>3, PasteEndIs, ConcatType
<1>6. rest \in Seq(Byte) /\ (PasteStart \o body) \o c = PasteStart \o rest
  BY <1>5, PasteStartIs, AssocBytes, ConcatType
<1>7. Spells(c, l) /\ d.buf \o w = s.bytes \o c /\ k = PasteKeys(payload) \o l
  BY <1>4 DEF StrokeThen
<1>8. PasteSpells(<<>>, rest, k)
  <2>1. <<>> \o payload = payload
    BY <1>3
  <2> QED
    BY <1>3, <1>4, <1>7, <2>1 DEF PasteSpells
<1> HIDE DEF rest, body
<1>9. SameStream(d.buf, w, PasteStart, rest)
  BY <1>1, <1>4, <1>6, <1>7, PasteStartIs DEF SameStream
<1>10. Agrees(d, Stroke(PasteStart, <<>>))
  <2>1. \A i \in 1..Len(d.buf) : i <= Len(PasteStart) => d.buf[i] = PasteStart[i]
    BY <1>9, SplitStream
  <2> QED
    BY <2>1, PasteStartIs DEF Agrees, Stroke
<1>11. MaxSequence >= Len(PasteStart) - 1
  BY DEF IsPaste
<1>12. CASE Len(d.buf) < 4
  <2>1. ConsumeOne(d) = Incomplete(d)
    BY <1>10, <1>11, <1>12, PasteOpens
  <2>2. w # <<>>
    BY <1>9, <1>12, PasteStartIs, NotAll
  <2>3. Means(d, d.buf \o w, k)
    BY DEF Means, TextSpells
  <2> QED
    BY <2>1, <2>2, <2>3, WaitTurn
<1>13. CASE Len(d.buf) >= 4
  <2> DEFINE e == [d EXCEPT !.open = TRUE, !.paste = <<>>]
             out == <<>>
             t == Consume(e, 4, out)
  <2>1. ConsumeOne(d) = t
    BY <1>10, <1>11, <1>13, PasteOpens
  <2>2. e \in Decoder /\ e.buf = d.buf /\ e.held = d.held /\ e.open /\ e.paste = <<>>
    BY NoEvents DEF Decoder
  <2> HIDE DEF e
  <2>3. Takes(e, 4, out)
    BY <1>1, <1>13, <2>2, NoEvents DEF Takes
  <2>4. out = <<>>
    OBVIOUS
  <2> HIDE DEF out
  <2>5. /\ t.again /\ t.out = out /\ t.dec.held = e.held /\ (t.dec.open = e.open)
        /\ t.dec.paste = e.paste
        /\ t.dec.buf = Dropped(e.buf, 4)
    BY <2>3, TakesIs DEF Took
  <2> HIDE DEF t
  <2>6. Dropped(d.buf, Len(PasteStart)) \o w = rest
    BY <1>9, <1>13, PasteStartIs, SplitRest
  <2>7. t.dec.buf \o w = rest
    BY <2>2, <2>5, <2>6, PasteStartIs
  <2>8. Means(t.dec, t.dec.buf \o w, k)
    BY <1>8, <2>2, <2>5, <2>7 DEF Means
  <2>9. k \in Seq(Event) /\ k = <<>> \o k
    BY SpellsTypes
  <2> QED
    BY <2>1, <2>4, <2>5, <2>8, <2>9 DEF GoesOn
<1> QED
  BY <1>1, <1>12, <1>13

-----------------------------------------------------------------------------
(* A turn of the loop, in a paste *)

\* What is kept of a paste: as much of its beginning as there is room for.
LEMMA KeptIs ==
  ASSUME NEW s \in Seq(Byte)
  PROVE  /\ Kept(s) \in Seq(Byte) /\ Len(Kept(s)) \in Nat
         /\ Len(Kept(s)) = IF MaxPaste <= Len(s) THEN MaxPaste ELSE Len(s)
         /\ \A i \in 1..Len(Kept(s)) : Kept(s)[i] = s[i]
<1> DEFINE n == Min({MaxPaste, Len(s)})
<1>1. Len(s) \in Nat /\ MaxPaste \in Nat
  BY LimitsAssumption
<1>2. n = IF MaxPaste <= Len(s) THEN MaxPaste ELSE Len(s)
  BY <1>1, MinPair
<1>3. Kept(s) = SubSeq(s, 1, n)
  BY DEF Kept
<1> HIDE DEF n
<1>4. n \in 0..Len(s)
  BY <1>1, <1>2
<1>5. /\ SubSeq(s, 1, n) \in Seq(Byte) /\ Len(SubSeq(s, 1, n)) = n
      /\ \A i \in 1..n : SubSeq(s, 1, n)[i] = s[i]
  BY <1>4, PrefixBytes
<1> QED
  BY <1>1, <1>2, <1>3, <1>4, <1>5

\* What there is no room for need not be kept to know what is kept in the end.
LEMMA KeptOfKept ==
  ASSUME NEW u \in Seq(Byte), NEW v \in Seq(Byte)
  PROVE  Kept(Kept(u) \o v) = Kept(u \o v)
<1> DEFINE a == Kept(u)
           p == a \o v
           q == u \o v
           kp == Kept(p)
           kq == Kept(q)
           n == Len(a)
<1>1. /\ a \in Seq(Byte) /\ n \in Nat
      /\ n = IF MaxPaste <= Len(u) THEN MaxPaste ELSE Len(u)
      /\ \A i \in 1..n : a[i] = u[i]
  BY KeptIs
<1>2. Len(u) \in Nat /\ Len(v) \in Nat /\ MaxPaste \in Nat
  BY LimitsAssumption
<1> HIDE DEF a
<1>3. /\ p \in Seq(Byte) /\ Len(p) = n + Len(v)
      /\ \A i \in 1..n : p[i] = a[i]
      /\ \A i \in 1..Len(v) : p[n + i] = v[i]
  BY <1>1, ConcatBytes
<1>4. /\ q \in Seq(Byte) /\ Len(q) = Len(u) + Len(v)
      /\ \A i \in 1..Len(u) : q[i] = u[i]
      /\ \A i \in 1..Len(v) : q[Len(u) + i] = v[i]
  BY ConcatBytes
<1> HIDE DEF p, q, n
<1>5. /\ kp \in Seq(Byte) /\ Len(kp) = IF MaxPaste <= Len(p) THEN MaxPaste ELSE Len(p)
      /\ \A i \in 1..Len(kp) : kp[i] = p[i]
  BY <1>3, KeptIs
<1>6. /\ kq \in Seq(Byte) /\ Len(kq) = IF MaxPaste <= Len(q) THEN MaxPaste ELSE Len(q)
      /\ \A i \in 1..Len(kq) : kq[i] = q[i]
  BY <1>4, KeptIs
<1> HIDE DEF kp, kq
<1>7. Len(kp) = Len(kq) /\ Len(kp) <= MaxPaste /\ Len(kp) <= n + Len(v) /\ Len(kp) \in Nat
  BY <1>1, <1>2, <1>3, <1>4, <1>5, <1>6
<1>8. ASSUME NEW i \in 1..Len(kp) PROVE kp[i] = kq[i]
  <2>1. kp[i] = p[i] /\ kq[i] = q[i]
    BY <1>5, <1>6, <1>7
  <2>2. CASE i <= n
    <3>1. i \in 1..n /\ i \in 1..Len(u)
      BY <1>1, <1>2, <1>7, <2>2
    <3> QED
      BY <2>1, <3>1, <1>1, <1>3, <1>4
  <2>3. CASE ~(i <= n)
    <3>1. n = Len(u)
      BY <1>1, <1>2, <1>7, <2>3
    <3> DEFINE j == i - n
    <3>2. j \in 1..Len(v) /\ n + j = i
      BY <1>1, <1>2, <1>7, <2>3
    <3> HIDE DEF j
    <3>3. p[n + j] = v[j] /\ q[Len(u) + j] = v[j]
      BY <3>2, <1>3, <1>4
    <3> QED
      BY <2>1, <3>1, <3>2, <3>3
  <2> QED
    BY <2>2, <2>3
<1>9. kp = kq
  BY <1>5, <1>6, <1>7, <1>8, SameBytes
<1> QED
  BY <1>9 DEF kp, kq, p, q, a

\* A payload with its terminator.
LEMMA WithEnd ==
  ASSUME NEW s \in Seq(Byte)
  PROVE  s \o PasteEnd \in Seq(Byte) /\ Len(s \o PasteEnd) = Len(s) + 4 /\ Len(s) \in Nat
<1> DEFINE e == PasteEnd
<1>1. e \in Seq(Byte) /\ Len(e) = 4
  BY PasteEndIs
<1> HIDE DEF e
<1>2. s \o e \in Seq(Byte) /\ Len(s \o e) = Len(s) + Len(e) /\ Len(s) \in Nat
  BY <1>1, ConcatBytes
<1> QED
  BY <1>1, <1>2 DEF e

\* Four bytes of t, in x followed by t.
LEMMA ShiftedSubSeq ==
  ASSUME NEW x \in Seq(Byte), NEW t \in Seq(Byte), NEW i \in 1..Len(t) - 3,
         NEW a, a = i + Len(x)
  PROVE  SubSeq(x \o t, a, a + 3) = SubSeq(t, i, i + 3)
<1> DEFINE q == x \o t
           l == SubSeq(q, a, a + 3)
           r == SubSeq(t, i, i + 3)
           b == a + 3
           j == i + 3
<1>1. /\ q \in Seq(Byte) /\ Len(q) = Len(x) + Len(t) /\ Len(x) \in Nat /\ Len(t) \in Nat
      /\ \A k \in 1..Len(t) : q[Len(x) + k] = t[k]
  BY ConcatBytes
<1> HIDE DEF q
<1>2. /\ a \in 1..Len(q) + 1 /\ b \in 0..Len(q) /\ i \in 1..Len(t) + 1 /\ j \in 0..Len(t)
      /\ a <= b /\ i <= j /\ b - a + 1 = 4 /\ j - i + 1 = 4
  BY <1>1
<1> HIDE DEF b, j
<1>3. /\ SubSeq(q, a, b) \in Seq(Byte) /\ Len(SubSeq(q, a, b)) = IF a <= b THEN b - a + 1 ELSE 0
      /\ \A k \in 1..(b - a + 1) : SubSeq(q, a, b)[k] = q[a + k - 1]
  BY <1>1, <1>2, SubSeqBytes
<1>4. /\ SubSeq(t, i, j) \in Seq(Byte) /\ Len(SubSeq(t, i, j)) = IF i <= j THEN j - i + 1 ELSE 0
      /\ \A k \in 1..(j - i + 1) : SubSeq(t, i, j)[k] = t[i + k - 1]
  BY <1>2, SubSeqBytes
<1>5. /\ l \in Seq(Byte) /\ Len(l) = 4 /\ \A k \in 1..4 : l[k] = q[a + k - 1]
  BY <1>2, <1>3 DEF b
<1>6. /\ r \in Seq(Byte) /\ Len(r) = 4 /\ \A k \in 1..4 : r[k] = t[i + k - 1]
  BY <1>2, <1>4 DEF j
<1> HIDE DEF l, r
<1>7. ASSUME NEW k \in 1..Len(l) PROVE l[k] = r[k]
  <2> DEFINE c == i + k - 1
  <2>1. k \in 1..4 /\ c \in 1..Len(t) /\ a + k - 1 = Len(x) + c
    BY <1>1, <1>5
  <2>2. l[k] = q[a + k - 1] /\ r[k] = t[c]
    BY <1>5, <1>6, <2>1
  <2> HIDE DEF c
  <2>3. q[Len(x) + c] = t[c]
    BY <1>1, <2>1
  <2> QED
    BY <2>1, <2>2, <2>3
<1>8. l = r
  BY <1>5, <1>6, <1>7, SameBytes
<1> QED
  BY <1>8 DEF l, r, q

\* Sequences that agree have the same parts.
LEMMA SubSeqAgrees ==
  ASSUME NEW s \in Seq(Byte), NEW t \in Seq(Byte),
         NEW m \in 1..Len(s), m <= Len(t), NEW n \in 1..Len(s), n <= Len(t), m <= n,
         \A i \in 1..Len(s) : i <= Len(t) => s[i] = t[i]
  PROVE  SubSeq(s, m, n) = SubSeq(t, m, n)
<1> DEFINE a == SubSeq(s, m, n)
           b == SubSeq(t, m, n)
<1>1. /\ m \in 1..Len(s) + 1 /\ m \in 1..Len(t) + 1 /\ n \in 0..Len(s) /\ n \in 0..Len(t)
      /\ m \in Nat /\ n \in Nat /\ Len(s) \in Nat /\ Len(t) \in Nat
  OBVIOUS
<1>2. /\ a \in Seq(Byte) /\ Len(a) = IF m <= n THEN n - m + 1 ELSE 0
      /\ \A i \in 1..(n - m + 1) : a[i] = s[m + i - 1]
  BY <1>1, SubSeqBytes
<1>3. /\ b \in Seq(Byte) /\ Len(b) = IF m <= n THEN n - m + 1 ELSE 0
      /\ \A i \in 1..(n - m + 1) : b[i] = t[m + i - 1]
  BY <1>1, SubSeqBytes
<1> HIDE DEF a, b
<1>4. ASSUME NEW i \in 1..Len(a) PROVE a[i] = b[i]
  <2>1. i \in 1..(n - m + 1) /\ m + i - 1 \in 1..Len(s) /\ m + i - 1 <= Len(t)
    BY <1>1, <1>2
  <2>2. a[i] = s[m + i - 1] /\ b[i] = t[m + i - 1]
    BY <2>1, <1>2, <1>3
  <2> QED
    BY <2>1, <2>2
<1>5. a = b
  BY <1>2, <1>3, <1>4, SameBytes
<1> QED
  BY <1>5 DEF a, b

\* The terminator is found in the buffer where the payload ends, once it is all there.
LEMMA PasteScan ==
  ASSUME NEW buf, NEW w, NEW payload \in Seq(Byte), NEW c,
         EndsAt(payload \o PasteEnd) = {Len(payload) + 1},
         SameStream(buf, w, payload \o PasteEnd, c)
  PROVE  /\ Len(buf) < Len(payload) + 4 => EndsAt(buf) = {}
         /\ Len(payload) + 4 <= Len(buf) =>
                EndsAt(buf) # {} /\ Min(EndsAt(buf)) = Len(payload) + 1
<1> DEFINE pe == payload \o PasteEnd
           n == Len(payload)
           l == Len(buf)
<1>1. pe \in Seq(Byte) /\ Len(pe) = n + 4 /\ n \in Nat
  BY WithEnd
<1> HIDE DEF pe
<1>2. buf \in Seq(Byte) /\ l \in Nat /\ SameStream(buf, w, pe, c)
  <2>1. SameStream(buf, w, pe, c)
    BY DEF pe
  <2>2. buf \in Seq(Byte)
    BY <2>1 DEF SameStream
  <2> QED
    BY <2>1, <2>2
<1>3. \A i \in 1..l : i <= Len(pe) => buf[i] = pe[i]
  BY <1>2, SplitStream
<1>4. \A i \in EndsAt(pe) : i = n + 1
  BY DEF pe
<1>5. n + 1 \in EndsAt(pe)
  BY DEF pe
<1>6. /\ EndsAt(buf) \in SUBSET (1..l - 3)
      /\ \A i \in 1..l - 3 : i \in EndsAt(buf) <=> SubSeq(buf, i, i + 3) = PasteEnd
  BY <1>2, EndsAtIs
<1>7. \A i \in 1..n + 1 : i \in EndsAt(pe) <=> SubSeq(pe, i, i + 3) = PasteEnd
  <2>1. Len(pe) - 3 = n + 1
    BY <1>1
  <2> QED
    BY <1>1, <2>1, EndsAtIs
<1> HIDE DEF n, l
<1>8. ASSUME NEW i \in 1..l - 3, i <= n + 1
      PROVE  SubSeq(buf, i, i + 3) = SubSeq(pe, i, i + 3)
  <2> DEFINE j == i + 3
  <2>1. i \in 1..l /\ i <= Len(pe) /\ j \in 1..l /\ j <= Len(pe) /\ i <= j
    BY <1>1, <1>2, <1>8
  <2> HIDE DEF j
  <2>2. SubSeq(buf, i, j) = SubSeq(pe, i, j)
    BY <1>1, <1>2, <1>3, <2>1, SubSeqAgrees DEF l
  <2> QED
    BY <2>2 DEF j
<1>9. ASSUME NEW i \in EndsAt(buf) PROVE ~(i < n + 1) /\ i \in Nat
  <2>1. i \in 1..l - 3 /\ SubSeq(buf, i, i + 3) = PasteEnd
    BY <1>6
  <2>2. ASSUME i < n + 1 PROVE FALSE
    <3>1. i <= n + 1 /\ i \in 1..n + 1
      BY <1>1, <1>2, <2>1, <2>2
    <3>2. SubSeq(pe, i, i + 3) = PasteEnd
      BY <1>8, <2>1, <3>1
    <3>3. i \in EndsAt(pe)
      BY <1>7, <3>1, <3>2
    <3> QED
      BY <1>1, <1>4, <2>1, <2>2, <3>3
  <2> QED
    BY <1>2, <2>1, <2>2
<1>10. ASSUME l < n + 4 PROVE EndsAt(buf) = {}
  <2> SUFFICES ASSUME NEW i \in EndsAt(buf) PROVE FALSE
    OBVIOUS
  <2>1. i \in 1..l - 3 /\ ~(i < n + 1)
    BY <1>6, <1>9
  <2> QED
    BY <1>1, <1>2, <1>10, <2>1
<1>11. ASSUME n + 4 <= l PROVE EndsAt(buf) # {} /\ Min(EndsAt(buf)) = n + 1
  <2> DEFINE e == n + 1
  <2>1. e \in 1..l - 3 /\ e \in 1..n + 1 /\ e <= n + 1 /\ e \in Nat
    BY <1>1, <1>2, <1>11
  <2>2. SubSeq(pe, e, e + 3) = PasteEnd
    BY <1>5, <1>7, <2>1
  <2>3. e \in EndsAt(buf)
    BY <1>6, <1>8, <2>1, <2>2
  <2>4. EndsAt(buf) \in SUBSET Nat /\ EndsAt(buf) # {}
    BY <1>9, <2>3
  <2>5. Min(EndsAt(buf)) \in EndsAt(buf) /\ Min(EndsAt(buf)) <= e
    BY <2>3, <2>4, MinNat
  <2>6. ~(Min(EndsAt(buf)) < e) /\ Min(EndsAt(buf)) \in Nat
    BY <1>9, <2>5
  <2> HIDE DEF e
  <2>7. Min(EndsAt(buf)) = e
    BY <2>1, <2>5, <2>6
  <2> QED
    BY <2>4, <2>7 DEF e
<1> QED
  BY <1>10, <1>11 DEF n, l

\* A payload of which the first m bytes are taken.
LEMMA RestOfPayload ==
  ASSUME NEW payload \in Seq(Byte), NEW m \in 0..Len(payload),
         EndsAt(payload \o PasteEnd) = {Len(payload) + 1}
  PROVE  LET x == SubSeq(payload, 1, m)
             rest == Dropped(payload, m)
         IN  /\ x \in Seq(Byte) /\ rest \in Seq(Byte) /\ payload = x \o rest
             /\ EndsAt(rest \o PasteEnd) = {Len(rest) + 1}
<1> DEFINE x == SubSeq(payload, 1, m)
           rest == Dropped(payload, m)
           n == Len(payload)
           rp == rest \o PasteEnd
           pe == payload \o PasteEnd
<1>1. n \in Nat /\ m \in Nat /\ m <= n
  OBVIOUS
<1>2. x \in Seq(Byte) /\ Len(x) = m /\ \A i \in 1..m : x[i] = payload[i]
  BY PrefixBytes
<1>3. rest \in Seq(Byte) /\ Len(rest) = n - m /\ \A i \in 1..n - m : rest[i] = payload[m + i]
  BY SuffixBytes DEF Dropped
<1> HIDE DEF x, rest
<1>4. payload = x \o rest
  <2> DEFINE q == x \o rest
  <2>1. /\ q \in Seq(Byte) /\ Len(q) = Len(x) + Len(rest)
        /\ \A i \in 1..Len(x) : q[i] = x[i]
        /\ \A i \in 1..Len(rest) : q[Len(x) + i] = rest[i]
    BY <1>2, <1>3, ConcatBytes
  <2> HIDE DEF q
  <2>2. ASSUME NEW i \in 1..n PROVE payload[i] = q[i]
    <3>1. CASE i <= m
      BY <1>1, <1>2, <2>1, <3>1
    <3>2. CASE ~(i <= m)
      <4> DEFINE j == i - m
      <4>1. j \in 1..n - m /\ m + j = i
        BY <1>1, <3>2
      <4> HIDE DEF j
      <4>2. q[m + j] = rest[j] /\ rest[j] = payload[m + j]
        BY <1>2, <1>3, <2>1, <4>1
      <4> QED
        BY <4>1, <4>2
    <3> QED
      BY <3>1, <3>2
  <2>3. Len(q) = n
    BY <1>1, <1>2, <1>3, <2>1
  <2>4. payload = q
    BY <2>1, <2>2, <2>3, SameBytes
  <2> QED
    BY <2>4 DEF q
<1>5. rp \in Seq(Byte) /\ Len(rp) = (n - m) + 4
  <2>1. Len(rp) = Len(rest) + 4
    BY <1>3, WithEnd
  <2> QED
    BY <1>3, <2>1, WithEnd
<1>6. pe = x \o rp /\ pe \in Seq(Byte) /\ Len(pe) = n + 4
  <2>1. (x \o rest) \o PasteEnd = x \o rp
    BY <1>2, <1>3, PasteEndIs, AssocBytes
  <2>2. pe \in Seq(Byte) /\ Len(pe) = n + 4
    BY WithEnd
  <2> QED
    BY <1>4, <2>1, <2>2
<1>7. EndsAt(pe) = {n + 1}
  OBVIOUS
<1> HIDE DEF rp, pe, n
<1>8. ASSUME NEW i \in 1..Len(rp) - 3
      PROVE  SubSeq(pe, i + m, (i + m) + 3) = SubSeq(rp, i, i + 3)
  <2> DEFINE a == i + m
  <2>1. a = i + Len(x)
    BY <1>2
  <2> HIDE DEF a
  <2>2. SubSeq(x \o rp, a, a + 3) = SubSeq(rp, i, i + 3)
    BY <1>2, <1>5, <2>1, ShiftedSubSeq
  <2> QED
    BY <1>6, <2>2 DEF a
<1>9. /\ EndsAt(rp) \in SUBSET (1..Len(rp) - 3)
      /\ \A i \in 1..Len(rp) - 3 : i \in EndsAt(rp) <=> SubSeq(rp, i, i + 3) = PasteEnd
  BY <1>5, EndsAtIs
<1>10. \A i \in 1..Len(pe) - 3 : i \in EndsAt(pe) <=> SubSeq(pe, i, i + 3) = PasteEnd
  BY <1>6, EndsAtIs
<1>11. ASSUME NEW i \in 1..Len(rp) - 3 PROVE i \in EndsAt(rp) <=> i = (n - m) + 1
  <2> DEFINE a == i + m
  <2>1. a \in 1..Len(pe) - 3 /\ (a = n + 1 <=> i = (n - m) + 1)
    BY <1>1, <1>5, <1>6
  <2>2. SubSeq(pe, a, a + 3) = SubSeq(rp, i, i + 3)
    BY <1>8
  <2> HIDE DEF a
  <2>3. a \in EndsAt(pe) <=> SubSeq(pe, a, a + 3) = PasteEnd
    BY <1>10, <2>1
  <2>4. a \in EndsAt(pe) <=> a = n + 1
    BY <1>7
  <2> QED
    BY <1>9, <2>1, <2>2, <2>3, <2>4
<1>12. (n - m) + 1 \in 1..Len(rp) - 3
  BY <1>1, <1>5
<1>13. EndsAt(rp) = {(n - m) + 1}
  BY <1>9, <1>11, <1>12
<1> QED
  BY <1>2, <1>3, <1>4, <1>13 DEF x, rest, rp

\* The same bytes p e c, cut after their beginning x.
Recut(x, r, e, c, p, pe, y) ==
    /\ x \in Seq(Byte) /\ r \in Seq(Byte) /\ e \in Seq(Byte) /\ c \in Seq(Byte)
    /\ p = x \o r /\ pe = p \o e /\ y = (r \o e) \o c

\* It is the same bytes.
LEMMA RecutSame ==
  ASSUME NEW x, NEW r, NEW e, NEW c, NEW p, NEW pe, NEW y, Recut(x, r, e, c, p, pe, y)
  PROVE  pe \o c = x \o y
<1> DEFINE re == r \o e
<1>1. /\ x \in Seq(Byte) /\ r \in Seq(Byte) /\ e \in Seq(Byte) /\ c \in Seq(Byte)
  BY DEF Recut
<1>2. re \in Seq(Byte)
  BY <1>1, ConcatType
<1>3. (x \o r) \o e = x \o re
  BY <1>1, AssocBytes
<1>4. pe = x \o re /\ y = re \o c
  BY <1>3 DEF Recut
<1> HIDE DEF re
<1>5. (x \o re) \o c = x \o (re \o c)
  BY <1>1, <1>2, AssocBytes
<1> QED
  BY <1>4, <1>5

\* A turn that takes a part of the payload.
LEMMA PasteStays ==
  ASSUME NEW d \in Decoder, d.open, d.held = <<>>, NEW w \in Seq(Byte), NEW k,
         NEW payload \in Seq(Byte), NEW c, NEW l, Spells(c, l),
         EndsAt(payload \o PasteEnd) = {Len(payload) + 1},
         d.buf \o w = (payload \o PasteEnd) \o c,
         k = PasteKeys(d.paste \o payload) \o l,
         Len(d.buf) < Len(payload) + 4
  PROVE  GoesOn(ConsumePaste(d), w, k)
<1> DEFINE n == Len(payload)
           pe == payload \o PasteEnd
           take == Max({0, Len(d.buf) - (Len(PasteEnd) - 1)})
           kept == Grow(d, take)
           e == [d EXCEPT !.paste = kept]
           out == <<>>
           t == Consume(e, take, out)
           s == [t EXCEPT !.again = FALSE]
           x == SubSeq(payload, 1, take)
           rest == Dropped(payload, take)
           rp == rest \o PasteEnd
           y == rp \o c
<1>1. /\ d.buf \in Seq(Byte) /\ Len(d.buf) \in Nat /\ d.paste \in Seq(Byte) /\ n \in Nat
      /\ c \in Seq(Byte) /\ l \in Seq(Event) /\ pe \in Seq(Byte) /\ Len(pe) = n + 4
  BY DecoderFields, SpellsTypes, WithEnd
<1>2. SameStream(d.buf, w, pe, c)
  BY <1>1 DEF SameStream
<1>3. EndsAt(d.buf) = {}
  BY <1>2, PasteScan
<1>4. w # <<>>
  BY <1>1, <1>2, NotAll
<1>5. take \in 0..Len(d.buf) /\ take \in 0..n
  <2>1. Len(d.buf) - (Len(PasteEnd) - 1) = Len(d.buf) - 3 /\ Len(d.buf) - 3 \in Int
    BY <1>1, PasteEndIs
  <2>2. take = IF Len(d.buf) - 3 <= 0 THEN 0 ELSE Len(d.buf) - 3
    BY <2>1, MaxZero
  <2> HIDE DEF take
  <2> QED
    BY <1>1, <2>2
<1>6. ConsumePaste(d) = s
  BY <1>3 DEF ConsumePaste
<1> HIDE DEF take
<1>7. /\ x \in Seq(Byte) /\ rest \in Seq(Byte) /\ payload = x \o rest
      /\ EndsAt(rp) = {Len(rest) + 1}
  BY <1>5, RestOfPayload
<1>8. Len(x) = take
  BY <1>5, PrefixBytes
<1> HIDE DEF x, rest
<1>9. rp \in Seq(Byte) /\ y \in Seq(Byte)
  BY <1>1, <1>7, WithEnd, ConcatType
<1>10. pe \o c = x \o y
  <2>1. Recut(x, rest, PasteEnd, c, payload, pe, y)
    BY <1>1, <1>7, PasteEndIs DEF Recut
  <2> HIDE DEF pe, y
  <2> QED
    BY <2>1, RecutSame
<1>11. SameStream(d.buf, w, x, y)
  BY <1>1, <1>7, <1>9, <1>10 DEF SameStream
<1> HIDE DEF y
<1>12. SubSeq(d.buf, 1, take) = x /\ Dropped(d.buf, take) \o w = y
  <2>1. Len(x) <= Len(d.buf)
    BY <1>1, <1>5, <1>8
  <2>2. SubSeq(d.buf, 1, Len(x)) = x /\ Dropped(d.buf, Len(x)) \o w = y
    BY <1>11, <2>1, SplitRest
  <2> QED
    BY <1>8, <2>2
<1>13. kept = Kept(d.paste \o x) /\ kept \in Seq(Byte)
  BY <1>5, <1>12, GrowIs
<1> HIDE DEF kept
<1>14. e \in Decoder /\ e.buf = d.buf /\ e.held = d.held /\ (e.open = d.open) /\ e.paste = kept
  BY <1>13 DEF Decoder
<1> HIDE DEF e
<1>15. Takes(e, take, out)
  BY <1>5, <1>14, NoEvents DEF Takes
<1>16. out = <<>> /\ t \in Progress
  BY <1>5, <1>14, NoEvents, ConsumeIs
<1> HIDE DEF out
<1>17. Took(t, e, take, out)
  BY <1>15, TakesIs
<1> HIDE DEF t
<1>18. s.dec = t.dec /\ s.out = t.out
  BY <1>16 DEF Progress
<1>19. ~s.again
  BY <1>16 DEF Progress
<1> HIDE DEF s
<1>20. /\ s.out = <<>> /\ s.dec.buf = Dropped(d.buf, take)
       /\ s.dec.held = d.held /\ (s.dec.open = d.open) /\ s.dec.paste = kept
  BY <1>14, <1>16, <1>17, <1>18 DEF Took
<1>21. s.dec.buf \o w = y
  BY <1>12, <1>20
<1>22. PasteKeys(d.paste \o payload) = PasteKeys(kept \o rest)
  <2> DEFINE o == d.paste
             u == o \o x
  <2>1. o \in Seq(Byte)
    BY <1>1
  <2> HIDE DEF o
  <2>2. u \in Seq(Byte) /\ u \o rest = o \o (x \o rest)
    BY <1>7, <2>1, AssocBytes, ConcatType
  <2>3. u \in Seq(Byte) /\ u \o rest = d.paste \o payload /\ kept = Kept(u)
    BY <1>7, <1>13, <2>2 DEF o
  <2> HIDE DEF u
  <2>4. Kept(Kept(u) \o rest) = Kept(u \o rest)
    BY <1>7, <2>3, KeptOfKept
  <2> QED
    BY <2>3, <2>4 DEF PasteKeys
<1>23. PasteSpells(kept, y, k)
  BY <1>7, <1>22 DEF PasteSpells, y, rp
<1>24. Means(s.dec, s.dec.buf \o w, k)
  BY <1>20, <1>21, <1>23 DEF Means
<1>25. k \in Seq(Event) /\ k = <<>> \o k
  <2>1. d.paste \o payload \in Seq(Byte)
    BY <1>1, ConcatType
  <2>2. PasteKeys(d.paste \o payload) \in Seq(Event)
    BY <2>1, PasteKeysType
  <2>3. k \in Seq(Event)
    BY <1>1, <2>2, ConcatType
  <2> QED
    BY <2>3
<1>26. GoesOn(s, w, k)
  BY <1>4, <1>20, <1>24, <1>25 DEF GoesOn
<1> QED
  BY <1>6, <1>26

\* The turn that finds the terminator.
LEMMA PasteCloses ==
  ASSUME NEW d \in Decoder, d.open, d.held = <<>>, NEW w \in Seq(Byte), NEW k,
         NEW payload \in Seq(Byte), NEW c, NEW l, Spells(c, l),
         EndsAt(payload \o PasteEnd) = {Len(payload) + 1},
         d.buf \o w = (payload \o PasteEnd) \o c,
         k = PasteKeys(d.paste \o payload) \o l,
         Len(payload) + 4 <= Len(d.buf)
  PROVE  GoesOn(ConsumePaste(d), w, k)
<1> DEFINE n == Len(payload)
           pe == payload \o PasteEnd
           found == Min(EndsAt(d.buf)) - 1
           m == found + Len(PasteEnd)
           kept == Grow(d, found)
           e == [d EXCEPT !.open = FALSE, !.paste = <<>>]
           out == IF kept = <<>> THEN <<>> ELSE <<Ev("paste", kept)>>
           t == Consume(e, m, out)
<1>1. /\ d.buf \in Seq(Byte) /\ Len(d.buf) \in Nat /\ d.paste \in Seq(Byte) /\ n \in Nat
      /\ c \in Seq(Byte) /\ l \in Seq(Event) /\ pe \in Seq(Byte) /\ Len(pe) = n + 4
  BY DecoderFields, SpellsTypes, WithEnd
<1>2. SameStream(d.buf, w, pe, c)
  BY <1>1 DEF SameStream
<1>3. EndsAt(d.buf) # {} /\ Min(EndsAt(d.buf)) = n + 1
  BY <1>2, PasteScan
<1>4. found = n /\ m = n + 4
  BY <1>1, <1>3, PasteEndIs
<1>5. ConsumePaste(d) = t
  BY <1>3 DEF ConsumePaste
<1> HIDE DEF found, m
<1>6. SubSeq(d.buf, 1, n) = payload
  <2> DEFINE z == PasteEnd
  <2>1. z \in Seq(Byte)
    BY PasteEndIs
  <2>2. d.buf \o w = (payload \o z) \o c
    OBVIOUS
  <2> HIDE DEF z
  <2>3. (payload \o z) \o c = payload \o (z \o c) /\ z \o c \in Seq(Byte)
    BY <1>1, <2>1, AssocBytes, ConcatType
  <2>4. SameStream(d.buf, w, payload, z \o c)
    BY <1>1, <2>3, <2>2 DEF SameStream
  <2>5. Len(payload) <= Len(d.buf)
    BY <1>1
  <2> QED
    BY <2>4, <2>5, SplitRest
<1>7. kept = Kept(d.paste \o payload)
  <2>1. n \in 0..Len(d.buf)
    BY <1>1
  <2> QED
    BY <1>4, <1>6, <2>1, GrowIs
<1>8. out = PasteKeys(d.paste \o payload)
  BY <1>7 DEF PasteKeys
<1>9. out \in Seq(Event)
  <2>1. d.paste \o payload \in Seq(Byte)
    BY <1>1, ConcatType
  <2> QED
    BY <1>8, <2>1, PasteKeysType
<1> HIDE DEF out
<1>10. e \in Decoder /\ e.buf = d.buf /\ e.held = d.held /\ ~e.open /\ e.paste = <<>>
  BY NoEvents DEF Decoder
<1> HIDE DEF e
<1>11. Takes(e, m, out)
  BY <1>1, <1>4, <1>9, <1>10 DEF Takes
<1>12. Took(t, e, m, out)
  BY <1>11, TakesIs
<1> HIDE DEF t
<1>13. /\ t.again /\ t.out = out /\ t.dec.buf = Dropped(d.buf, m)
       /\ t.dec.held = <<>> /\ ~t.dec.open
  BY <1>10, <1>12 DEF Took
<1>14. Dropped(d.buf, m) \o w = c
  <2>1. Len(pe) <= Len(d.buf) /\ m = Len(pe)
    BY <1>1, <1>4
  <2> QED
    BY <1>2, <2>1, SplitRest
<1>15. Means(t.dec, t.dec.buf \o w, l)
  BY <1>13, <1>14 DEF Means, TextSpells
<1>16. GoesOn(t, w, k)
  BY <1>1, <1>8, <1>13, <1>15 DEF GoesOn
<1> QED
  BY <1>5, <1>16

\* _consume_paste: a part of the payload, or all of it with the terminator.
LEMMA PasteTurn ==
  ASSUME NEW d \in Decoder, d.open, d.held = <<>>, NEW w \in Seq(Byte), NEW k,
         PasteSpells(d.paste, d.buf \o w, k)
  PROVE  GoesOn(ConsumePaste(d), w, k)
<1>1. PICK payload, c, l :
        /\ payload \in Seq(Byte)
        /\ Spells(c, l)
        /\ EndsAt(payload \o PasteEnd) = {Len(payload) + 1}
        /\ d.buf \o w = (payload \o PasteEnd) \o c
        /\ k = PasteKeys(d.paste \o payload) \o l
  BY DEF PasteSpells
<1>2. Len(d.buf) \in Nat /\ Len(payload) \in Nat
  BY DecoderFields
<1>3. CASE Len(d.buf) < Len(payload) + 4
  BY <1>1, <1>3, PasteStays
<1>4. CASE Len(payload) + 4 <= Len(d.buf)
  BY <1>1, <1>4, PasteCloses
<1> QED
  BY <1>2, <1>3, <1>4

\* A text byte is left to _consume_text.
LEMMA TextFirst ==
  ASSUME NEW d \in Decoder, d.buf # <<>>, d.buf[1] \in Text
  PROVE  ConsumeOne(d) = ConsumeText(d)
<1> DEFINE b == d.buf[1]
<1>1. b # "esc" /\ b \notin Control
  <2>1. b \in Text
    OBVIOUS
  <2> HIDE DEF b
  <2> QED
    BY <2>1 DEF Text, Control, Param, Intermediate, Final, Letter
<1> QED
  BY <1>1 DEF ConsumeOne

\* A turn that begins with a stroke.
LEMMA StrokeTurn ==
  ASSUME WellBehaved, NEW d \in Decoder, d.buf # <<>>, ~d.open, d.held = <<>>,
         NEW w \in Seq(Byte), NEW k, Spells(d.buf \o w, k),
         NEW s \in Strokes, NEW c \in Seq(Byte), NEW l \in Seq(Event),
         StrokeThen(s, c, l, d.buf \o w, k)
  PROVE  GoesOn(ConsumeOne(d), w, k)
<1>1. /\ s.bytes \in Seq(Byte) /\ s.keys \in Seq(Event) /\ KeyStroke(s) /\ s.bytes # <<>>
      /\ d.buf \in Seq(Byte)
  BY WellBehavedStrokes, DecoderFields
<1>2. SameStream(d.buf, w, s.bytes, c)
  BY <1>1 DEF SameStream, StrokeThen
<1>3. Agrees(d, s)
  BY <1>1, <1>2, SplitStream DEF Agrees
<1>4. CASE IsChar(s) \/ IsRune(s)
  <2>1. s.bytes[1] \in Text
    <3>1. CASE IsChar(s)
      BY <3>1 DEF IsChar, Stroke
    <3>2. CASE IsRune(s)
      BY <3>2, RuneKeyType DEF IsRune, Stroke
    <3> QED
      BY <1>4, <3>1, <3>2
  <2>2. d.buf[1] = s.bytes[1]
    <3>1. Len(d.buf) \in Nat /\ Len(d.buf) >= 1 /\ Len(s.bytes) \in Nat
          /\ \A i \in 1..Len(d.buf) : i <= Len(s.bytes) => d.buf[i] = s.bytes[i]
      BY <1>3, AgreesIs
    <3>2. Len(s.bytes) # 0
      BY <1>1
    <3>3. 1 \in 1..Len(d.buf) /\ 1 <= Len(s.bytes)
      BY <3>1, <3>2
    <3> QED
      BY <3>1, <3>3
  <2>3. d.buf[1] \in Text
    BY <2>1, <2>2
  <2>4. TextSpells(d.held, d.buf \o w, k)
    BY DEF TextSpells
  <2> QED
    BY <2>3, <2>4, TextTurn, TextFirst
<1>5. CASE IsEscape(s)
  BY <1>1, <1>5, LoneEscape
<1>6. CASE IsPaste(s)
  BY <1>1, <1>6, PasteOpening
<1>7. CASE IsControl(s) \/ IsAlt(s) \/ IsSs3(s) \/ IsCsi(s) \/ IsLegacyMouse(s) \/ IsSgrMouse(s)
  <2>1. DecodesTo(d, s, s.keys)
    BY <1>3, <1>7, ControlDecodes, AltDecodes, Ss3Decodes, CsiDecodes, LegacyMouseDecodes, SgrMouseDecodes
  <2> QED
    BY <1>1, <2>1, WholeStroke
<1> QED
  BY <1>1, <1>4, <1>5, <1>6, <1>7 DEF KeyStroke

\* A turn that begins with the rest of a character.
LEMMA RuneTurn ==
  ASSUME WellBehaved, NEW d \in Decoder, d.buf # <<>>, ~d.open, d.held = <<"L">>,
         NEW w \in Seq(Byte), NEW k, TextSpells(d.held, d.buf \o w, k)
  PROVE  GoesOn(ConsumeOne(d), w, k)
<1> DEFINE rem == d.buf \o w
<1>1. TextSpells(d.held, rem, k) /\ d.held # <<>>
  <2> HIDE DEF rem
  <2>1. <<"L">> # <<>>
    OBVIOUS
  <2>2. d.held # <<>>
    BY <2>1
  <2> QED
    BY <2>2 DEF rem
<1> HIDE DEF rem
<1>2. PICK c, l : Spells(c, l) /\ rem = <<"K">> \o c
  BY <1>1 DEF TextSpells
<1> DEFINE x == <<"K">>
<1>3. x \in Seq(Byte) /\ Len(x) = 1 /\ x[1] = "K" /\ c \in Seq(Byte) /\ d.buf \in Seq(Byte) /\ Len(d.buf) \in Nat
  BY <1>2, OneByte, RuneKeyType, SpellsTypes, DecoderFields
<1>4. SameStream(d.buf, w, x, c)
  BY <1>2, <1>3 DEF SameStream, rem
<1> HIDE DEF x
<1>5. d.buf[1] = x[1]
  <2>1. \A i \in 1..Len(d.buf) : i <= Len(x) => d.buf[i] = x[i]
    BY <1>4, SplitStream
  <2>2. Len(d.buf) # 0
    BY <1>3
  <2> QED
    BY <1>3, <2>1, <2>2
<1>6. d.buf[1] \in Text
  BY <1>3, <1>5, RuneKeyType
<1> QED
  BY <1>6, TextTurn, TextFirst

\* A turn of the loop decodes what the bytes mean.
LEMMA TurnMeans ==
  ASSUME WellBehaved, NEW d \in Decoder, d.buf # <<>>,
         NEW w \in Seq(Byte), NEW k, Means(d, d.buf \o w, k)
  PROVE  GoesOn(Step(d), w, k)
<1>1. CASE d.open
  <2>1. d.held = <<>> /\ PasteSpells(d.paste, d.buf \o w, k)
    BY <1>1 DEF Means
  <2>2. GoesOn(ConsumePaste(d), w, k)
    BY <1>1, <2>1, PasteTurn
  <2> QED
    BY <1>1, <2>2 DEF Step
<1>2. CASE ~d.open
  <2>1. TextSpells(d.held, d.buf \o w, k)
    BY <1>2 DEF Means
  <2>2. GoesOn(ConsumeOne(d), w, k)
    <3>1. CASE d.held = <<"L">>
      BY <1>2, <2>1, <3>1, RuneTurn
    <3>2. CASE d.held = <<>> /\ Spells(d.buf \o w, k)
      <4> DEFINE b == d.buf \o w
      <4>1. b # <<>>
        <5>1. d.buf \in Seq(Byte) /\ Len(d.buf) \in Nat /\ Len(w) \in Nat
          BY DecoderFields
        <5>2. Len(d.buf) # 0 /\ Len(b) = Len(d.buf) + Len(w)
          BY <5>1, ConcatBytes
        <5> HIDE DEF b
        <5> QED
          BY <5>1, <5>2
      <4>2. Spells(b, k)
        BY <3>2
      <4> HIDE DEF b
      <4>3. PICK s \in Strokes, c \in Seq(Byte), l \in Seq(Event) : StrokeThen(s, c, l, b, k)
        BY <4>1, <4>2, SpellsCases
      <4>4. StrokeThen(s, c, l, d.buf \o w, k)
        BY <4>3 DEF b
      <4> QED
        BY <1>2, <3>2, <4>4, StrokeTurn
    <3> QED
      BY <2>1, <3>1, <3>2 DEF TextSpells
  <2> QED
    BY <1>2, <2>2 DEF Step
<1> QED
  BY <1>1, <1>2

-----------------------------------------------------------------------------
(* feed(), and the app *)

\* Events after events after events.
LEMMA Onward ==
  ASSUME NEW a \in Seq(Event), NEW b \in Seq(Event), NEW c \in Seq(Event),
         NEW ab, ab = a \o b, NEW l, l = b \o c, NEW k, k = a \o l
  PROVE  k = ab \o c
<1>1. (a \o b) \o c = a \o (b \o c)
  BY AssocEvents
<1> QED
  BY <1>1

\* A turn that waits although nothing more comes waits for what may follow an ESC.
Rests(s, w) == ~s.again /\ w = <<>> => PendingEscape(s.dec)

\* The loop of feed() goes on until what is left is nothing, or incomplete.
LEMMA LoopMeans ==
  ASSUME WellBehaved, NEW w \in Seq(Byte), NEW k,
         NEW r \in Progress, GoesOn(r, w, k)
  PROVE  GoesOn(Drained[r], w, k) /\ Over(Drained[r]) /\ Drained[r] \in Progress
<1> DEFINE I == {x \in Progress : GoesOn(x, w, k)}
<1>1. ASSUME NEW x \in I, ~Over(x) PROVE TurnOf(x) \in I
  <2>1. x \in Progress /\ GoesOn(x, w, k)
    OBVIOUS
  <2> DEFINE d == x.dec
             s == Step(d)
             t == TurnOf(x)
  <2>2. /\ d \in Decoder /\ d.buf # <<>> /\ t \in Progress
        /\ t.dec = s.dec /\ t.out = x.out \o s.out /\ (t.again = s.again)
    BY <1>1, <2>1, TurnIs
  <2>3. s.out \in Seq(Event) /\ x.out \in Seq(Event)
    <3>1. Turned(d, s)
      BY <1>1, <2>1, TurnIs
    <3> QED
      BY <2>1, <3>1 DEF Turned, Progress
  <2> HIDE DEF t
  <2>4. PICK l \in Seq(Event) : k = x.out \o l /\ Means(d, d.buf \o w, l)
    BY <2>1 DEF GoesOn
  <2> HIDE DEF d
  <2>5. GoesOn(s, w, l)
    BY <2>2, <2>4, TurnMeans
  <2> HIDE DEF s
  <2>6. PICK m \in Seq(Event) : /\ l = s.out \o m
                               /\ Means(s.dec, s.dec.buf \o w, m)
                               /\ Rests(s, w)
    BY <2>5 DEF GoesOn, Rests
  <2>7. k = t.out \o m
    <3> DEFINE a == x.out
               b == s.out
               ab == t.out
    <3>1. a \in Seq(Event) /\ b \in Seq(Event)
      BY <2>3
    <3>2. ab = a \o b
      BY <2>2
    <3>3. l = b \o m
      BY <2>6
    <3>4. k = a \o l
      BY <2>4
    <3> HIDE DEF a, b, ab
    <3>5. k = ab \o m
      BY <3>1, <3>2, <3>3, <3>4, Onward
    <3> QED
      BY <3>5 DEF ab
  <2>8. Means(t.dec, t.dec.buf \o w, m)
    BY <2>2, <2>6
  <2>9. Rests(t, w)
    BY <2>2, <2>6 DEF Rests
  <2>10. GoesOn(t, w, k)
    BY <2>7, <2>8, <2>9 DEF GoesOn, Rests
  <2>11. t \in I
    BY <2>2, <2>10
  <2> QED
    BY <2>11 DEF t
<1>2. I \in SUBSET Progress /\ r \in I
  OBVIOUS
<1> HIDE DEF I
<1>3. Drained[r] \in I /\ Over(Drained[r])
  BY <1>1, <1>2, DrainedInvariant
<1> QED
  BY <1>3 DEF I

\* What feed() makes of a packet, when its bytes go on with w.
FedOf(fed, w, k) ==
    /\ fed.dec \in Decoder /\ fed.out \in Seq(Event)
    /\ \E l \in Seq(Event) :
          /\ k = fed.out \o l
          /\ Means(fed.dec, fed.dec.buf \o w, l)
          /\ w = <<>> => fed.dec.buf = <<>> \/ PendingEscape(fed.dec)

\* feed() returns the keys its bytes mean, as far as they are whole, and what
\* it retains means the rest: however the bytes are cut into packets.
THEOREM FeedMeans ==
  ASSUME WellBehaved, NEW d \in Decoder, NEW data \in Seq(Byte), NEW w \in Seq(Byte), NEW k,
         Means(d, d.buf \o (data \o w), k)
  PROVE  FedOf(Feed(d, data), w, k)
<1> DEFINE r == FeedStart(d, data)
           e == r.dec
<1>1. /\ r \in Progress /\ Feed(d, data) = Drained[r]
      /\ e.buf = d.buf \o data /\ e.held = d.held /\ (e.open = d.open) /\ e.paste = d.paste
      /\ r.out = <<>> /\ r.again
  BY FeedStartIs
<1>2. d.buf \o (data \o w) = e.buf \o w
  <2>1. d.buf \in Seq(Byte)
    BY DecoderFields
  <2>2. (d.buf \o data) \o w = d.buf \o (data \o w)
    BY <2>1, AssocBytes
  <2> QED
    BY <1>1, <2>2
<1> DEFINE b == d.buf \o (data \o w)
<1>3. Means(d, b, k)
  OBVIOUS
<1>4. k \in Seq(Event) /\ k = <<>> \o k
  BY <1>3, MeansType
<1>5. b = e.buf \o w
  BY <1>2
<1> HIDE DEF b, e, r
<1>6. Means(e, e.buf \o w, k)
  <2>1. Means(e, b, k)
    BY <1>1, <1>3 DEF Means
  <2> DEFINE f == e.buf \o w
  <2>2. f = b
    BY <1>5
  <2> HIDE DEF f
  <2>3. Means(e, f, k)
    BY <2>1, <2>2
  <2> QED
    BY <2>3 DEF f
<1>7. GoesOn(r, w, k)
  BY <1>1, <1>4, <1>6 DEF GoesOn, e
<1> DEFINE fed == Drained[r]
<1>8. GoesOn(fed, w, k) /\ Over(fed) /\ fed \in Progress
  BY <1>1, <1>7, LoopMeans
<1> HIDE DEF fed
<1>9. fed.dec \in Decoder /\ fed.out \in Seq(Event)
  BY <1>8 DEF Progress
<1>10. PICK l \in Seq(Event) : /\ k = fed.out \o l
                               /\ Means(fed.dec, fed.dec.buf \o w, l)
                               /\ ~fed.again /\ w = <<>> => PendingEscape(fed.dec)
  BY <1>8 DEF GoesOn
<1>11. w = <<>> => fed.dec.buf = <<>> \/ PendingEscape(fed.dec)
  BY <1>8, <1>10 DEF Over
<1>12. FedOf(fed, w, k)
  BY <1>9, <1>10, <1>11 DEF FedOf
<1> QED
  BY <1>1, <1>12 DEF fed

\* A stroke typed after bytes that do not end with an ESC.
LEMMA StrokeMeans ==
  ASSUME WellBehaved, NEW d \in Decoder, NEW b, NEW k, Means(d, b, k), Settled(b), NEW s \in Strokes
  PROVE  Means(d, b \o s.bytes, k \o s.keys)
<1> USE DEF Means
<1>1. s.bytes \in Seq(Byte) /\ s.keys \in Seq(Event) /\ \A x \in Strokes : x.bytes # <<>>
  BY WellBehavedStrokes
<1>2. ASSUME NEW h \in Seq(Byte), h # <<>>, NEW c, NEW l, Spells(c, l), b = h \o c
      PROVE  Spells(c \o s.bytes, l \o s.keys) /\ b \o s.bytes = h \o (c \o s.bytes)
  <2>1. c \in Seq(Byte) /\ Len(c) \in Nat /\ Len(h) \in Nat
    BY <1>2, SpellsTypes
  <2>2. Settled(c)
    <3>1. CASE c = <<>>
      BY <3>1 DEF Settled
    <3>2. CASE c # <<>>
      <4>1. Len(c) \in 1..Len(c)
        BY <2>1, <3>2
      <4>2. Len(h \o c) = Len(h) + Len(c) /\ (h \o c)[Len(h) + Len(c)] = c[Len(c)]
        BY <2>1, <4>1, ConcatBytes
      <4>3. b[Len(b)] = c[Len(c)] /\ Len(b) # 0
        BY <1>2, <2>1, <4>1, <4>2
      <4>4. b # <<>>
        BY <4>3
      <4> QED
        BY <4>3, <4>4 DEF Settled
    <3> QED
      BY <3>1, <3>2
  <2>3. Spells(c \o s.bytes, l \o s.keys)
    BY <1>1, <1>2, <2>2, AppendSpells
  <2>4. (h \o c) \o s.bytes = h \o (c \o s.bytes)
    BY <1>1, <2>1, AssocBytes
  <2> QED
    BY <1>2, <2>3, <2>4
<1>3. CASE ~d.open /\ d.held = <<>> /\ Spells(b, k)
  BY <1>1, <1>3, AppendSpells DEF TextSpells
<1>4. CASE ~d.open /\ d.held = <<"L">> /\ \E c, l : Spells(c, l) /\ b = <<"K">> \o c /\ k = <<RuneKey>> \o l
  <2>1. PICK c, l : Spells(c, l) /\ b = <<"K">> \o c /\ k = <<RuneKey>> \o l
    BY <1>4
  <2> DEFINE h == <<"K">>
             j == <<RuneKey>>
  <2>2. h \in Seq(Byte) /\ h # <<>> /\ j \in Seq(Event) /\ l \in Seq(Event)
    BY <2>1, RuneKeyType, SpellsTypes, ByteThen
  <2>3. b = h \o c /\ k = j \o l
    BY <2>1
  <2> HIDE DEF h, j
  <2>4. Spells(c \o s.bytes, l \o s.keys) /\ b \o s.bytes = h \o (c \o s.bytes)
    BY <1>2, <2>1, <2>2, <2>3
  <2>5. (j \o l) \o s.keys = j \o (l \o s.keys)
    BY <1>1, <2>2, AssocEvents
  <2>6. k \o s.keys = j \o (l \o s.keys)
    BY <2>3, <2>5
  <2> QED
    BY <1>4, <2>4, <2>6 DEF TextSpells, h, j
<1>5. CASE d.open /\ d.held = <<>> /\ PasteSpells(d.paste, b, k)
  <2>1. PICK payload, c, l :
           /\ payload \in Seq(Byte)
           /\ Spells(c, l) /\ EndsAt(payload \o PasteEnd) = {Len(payload) + 1}
           /\ b = (payload \o PasteEnd) \o c
           /\ k = PasteKeys(d.paste \o payload) \o l
    BY <1>5 DEF PasteSpells
  <2> DEFINE h == payload \o PasteEnd
             j == PasteKeys(d.paste \o payload)
  <2>2. h \in Seq(Byte) /\ h # <<>> /\ j \in Seq(Event) /\ l \in Seq(Event)
    <3>1. h \in Seq(Byte) /\ Len(h) = Len(payload) + 4 /\ Len(payload) \in Nat
      BY <2>1, WithEnd
    <3>2. d.paste \o payload \in Seq(Byte)
      BY <2>1, DecoderFields, ConcatType
    <3>3. j \in Seq(Event)
      BY <3>2, PasteKeysType
    <3> HIDE DEF h
    <3>4. h # <<>>
      BY <3>1
    <3> QED
      BY <2>1, <3>1, <3>3, <3>4, SpellsTypes
  <2>3. b = h \o c /\ k = j \o l
    BY <2>1
  <2> HIDE DEF h, j
  <2>4. Spells(c \o s.bytes, l \o s.keys) /\ b \o s.bytes = h \o (c \o s.bytes)
    BY <1>2, <2>1, <2>2, <2>3
  <2>5. (j \o l) \o s.keys = j \o (l \o s.keys)
    BY <1>1, <2>2, AssocEvents
  <2>6. k \o s.keys = j \o (l \o s.keys)
    BY <2>3, <2>5
  <2>7. PasteSpells(d.paste, b \o s.bytes, k \o s.keys)
    BY <2>1, <2>4, <2>6 DEF PasteSpells, h, j
  <2> QED
    BY <1>5, <2>7
<1> QED
  BY <1>3, <1>4, <1>5 DEF TextSpells

\* A sequence is a prefix of itself followed by anything.
LEMMA BeginsWith ==
  ASSUME NEW s \in Seq(Event), NEW k \in Seq(Event)
  PROVE  IsPrefix(s, s \o k)
<1> DEFINE t == s \o k
           n == Len(s)
           a == SubSeq(s, 1, n)
           b == SubSeq(t, 1, n)
<1>1. /\ t \in Seq(Event) /\ Len(t) = n + Len(k) /\ n \in Nat /\ Len(k) \in Nat
      /\ \A i \in 1..n : t[i] = s[i]
  OBVIOUS
<1> HIDE DEF t
<1>2. (\A i \in 1..n : s[i] \in Event) /\ \A i \in 1..n : t[i] \in Event
  BY <1>1
<1>3. a \in Seq(Event) /\ Len(a) = IF 1 <= n THEN n - 1 + 1 ELSE 0
  BY <1>1, <1>2, SubSeqProperties
<1>4. \A i \in 1..(n - 1 + 1) : a[i] = s[1 + i - 1]
  BY <1>1, <1>2, SubSeqProperties
<1>5. b \in Seq(Event) /\ Len(b) = IF 1 <= n THEN n - 1 + 1 ELSE 0
  BY <1>1, <1>2, SubSeqProperties
<1>6. \A i \in 1..(n - 1 + 1) : b[i] = t[1 + i - 1]
  BY <1>1, <1>2, SubSeqProperties
<1> HIDE DEF a, b
<1>7. ASSUME NEW i \in 1..Len(a) PROVE a[i] = b[i]
  <2>1. i \in 1..(n - 1 + 1) /\ 1 + i - 1 = i /\ i \in 1..n
    BY <1>1, <1>3
  <2>2. a[i] = s[1 + i - 1] /\ b[i] = t[1 + i - 1]
    BY <1>4, <1>6, <2>1
  <2> QED
    BY <1>1, <2>1, <2>2
<1>8. a = b
  BY <1>3, <1>5, <1>7, SeqEqual
<1>9. n <= Len(t)
  BY <1>1
<1>10. IsPrefix(s, t)
  BY <1>8, <1>9 DEF IsPrefix, a, b
<1> QED
  BY <1>10 DEF t

\* The app has seen the events seen; what the bytes of the decoder and on the
\* wire still mean is the rest of the keys.
KeysAhead(seen, d, w, keys) ==
    \E k \in Seq(Event) :
        /\ keys = seen \o k
        /\ Means(d, d.buf \o w, k)
        /\ w = <<>> => d.buf = <<>> \/ PendingEscape(d)

\* At first nothing is typed, and nothing is ahead.
LEMMA FirstAhead == KeysAhead(<<>>, Fresh, <<>>, <<>>)
<1>1. ~Fresh.open /\ Fresh.held = <<>> /\ Fresh.buf = <<>>
  BY DEF Fresh
<1>2. Fresh.buf \o <<>> = <<>> /\ <<>> = <<>> \o <<>> /\ <<>> \in Seq(Event)
  BY <1>1, NoEvents
<1>3. Means(Fresh, <<>>, <<>>)
  BY <1>1, EmptySpells DEF Means, TextSpells
<1>4. Means(Fresh, Fresh.buf \o <<>>, <<>>)
  BY <1>2, <1>3
<1> QED
  BY <1>1, <1>2, <1>4 DEF KeysAhead

\* A stroke typed is a stroke ahead, unless an Escape key is still open.
LEMMA TypeAhead ==
  ASSUME WellBehaved, NEW seen \in Seq(Event), NEW d \in Decoder, NEW w \in Seq(Byte), NEW keys,
         KeysAhead(seen, d, w, keys), NEW s \in Strokes,
         w = <<>> => ~PendingEscape(d),
         w # <<>> => w[Len(w)] # "esc"
  PROVE  KeysAhead(seen, d, w \o s.bytes, keys \o s.keys)
<1> DEFINE b == d.buf \o w
           v == w \o s.bytes
<1>1. s.bytes \in Seq(Byte) /\ s.keys \in Seq(Event) /\ s.bytes # <<>> /\ d.buf \in Seq(Byte)
  BY WellBehavedStrokes, DecoderFields
<1>2. PICK k \in Seq(Event) : /\ keys = seen \o k
                              /\ Means(d, b, k)
                              /\ w = <<>> => d.buf = <<>> \/ PendingEscape(d)
  BY DEF KeysAhead
<1>3. Settled(b)
  <2>1. CASE w = <<>>
    <3>1. d.buf = <<>>
      BY <1>2, <2>1
    <3>2. b = <<>>
      BY <2>1, <3>1
    <3> QED
      BY <3>2 DEF Settled
  <2>2. CASE w # <<>>
    <3>1. Len(w) \in 1..Len(w) /\ Len(d.buf) \in Nat
      BY <1>1, <2>2
    <3>2. Len(b) = Len(d.buf) + Len(w) /\ b[Len(d.buf) + Len(w)] = w[Len(w)]
      BY <1>1, <3>1, ConcatBytes
    <3>3. b[Len(b)] # "esc"
      BY <2>2, <3>2
    <3> QED
      BY <3>3 DEF Settled
  <2> QED
    BY <2>1, <2>2
<1>4. Means(d, b \o s.bytes, k \o s.keys)
  <2> HIDE DEF b
  <2> QED
    BY <1>2, <1>3, StrokeMeans
<1>5. b \o s.bytes = d.buf \o v
  BY <1>1, AssocBytes
<1>6. v # <<>>
  <2>1. Len(v) = Len(w) + Len(s.bytes) /\ Len(w) \in Nat /\ Len(s.bytes) \in Nat /\ Len(s.bytes) # 0
    BY <1>1, ConcatBytes
  <2> HIDE DEF v
  <2> QED
    BY <2>1
<1> DEFINE m == k \o s.keys
           more == keys \o s.keys
           f == d.buf \o v
<1>7. Means(d, f, m)
  <2> DEFINE g == b \o s.bytes
  <2>1. Means(d, g, m) /\ g = f
    BY <1>4, <1>5
  <2> HIDE DEF g, f, m
  <2> QED
    BY <2>1
<1>8. m \in Seq(Event)
  BY <1>1, ConcatType
<1>9. more = seen \o m
  <2>1. (seen \o k) \o s.keys = seen \o (k \o s.keys)
    BY <1>1, AssocEvents
  <2> QED
    BY <1>2, <2>1
<1>10. KeysAhead(seen, d, v, more)
  <2> HIDE DEF v, m, more
  <2> QED
    BY <1>6, <1>7, <1>8, <1>9 DEF KeysAhead, f
<1> QED
  BY <1>10

\* feed() moves keys from what is ahead to what is seen.
LEMMA FeedAhead ==
  ASSUME WellBehaved, NEW seen \in Seq(Event), NEW d \in Decoder,
         NEW data \in Seq(Byte), NEW w \in Seq(Byte), NEW keys,
         KeysAhead(seen, d, data \o w, keys)
  PROVE  KeysAhead(seen \o Feed(d, data).out, Feed(d, data).dec, w, keys)
<1> DEFINE fed == Feed(d, data)
           out == fed.out
           s == seen \o out
<1>1. PICK k \in Seq(Event) : keys = seen \o k /\ Means(d, d.buf \o (data \o w), k)
  BY DEF KeysAhead
<1>2. FedOf(fed, w, k)
  BY <1>1, FeedMeans
<1> HIDE DEF fed
<1>3. out \in Seq(Event)
  BY <1>2 DEF FedOf
<1>4. PICK l \in Seq(Event) : /\ k = out \o l
                              /\ Means(fed.dec, fed.dec.buf \o w, l)
                              /\ w = <<>> => fed.dec.buf = <<>> \/ PendingEscape(fed.dec)
  BY <1>2 DEF FedOf
<1>5. keys = s \o l
  <2>1. s = seen \o out /\ k = out \o l /\ keys = seen \o k
    BY <1>1, <1>4
  <2> HIDE DEF s, out
  <2> QED
    BY <1>3, <2>1, Onward
<1>6. KeysAhead(s, fed.dec, w, keys)
  <2> HIDE DEF s
  <2> QED
    BY <1>4, <1>5 DEF KeysAhead
<1> QED
  BY <1>6 DEF fed

\* A lone ESC means the Escape key.
LEMMA EscapeSpells ==
  ASSUME WellBehaved, NEW k, Spells(<<"esc">>, k)
  PROVE  k = <<EscapeKey>>
<1> DEFINE e == <<"esc">>
           empty == <<>>
<1>1. e \in Seq(Byte) /\ Len(e) = 1 /\ e[1] = "esc" /\ e # <<>> /\ Spells(e, k)
  BY DEF Byte
<1>2. PICK s \in Strokes, c \in Seq(Byte), l \in Seq(Event) : StrokeThen(s, c, l, e, k)
  BY <1>1, SpellsCases
<1>3. /\ s.bytes \in Seq(Byte) /\ s.keys \in Seq(Event) /\ KeyStroke(s) /\ s.bytes # <<>>
      /\ \A x \in Strokes : x.bytes # <<>>
  BY WellBehavedStrokes
<1> HIDE DEF e
<1>4. e = s.bytes \o c
  BY <1>2 DEF StrokeThen
<1>5. Len(s.bytes) = 1 /\ s.bytes[1] = "esc"
  <2>1. Len(s.bytes \o c) = Len(s.bytes) + Len(c) /\ Len(c) \in Nat /\ Len(s.bytes) \in Nat \ {0}
        /\ \A i \in 1..Len(s.bytes) : (s.bytes \o c)[i] = s.bytes[i]
    BY <1>3, ConcatBytes, EmptySeq
  <2> DEFINE x == s.bytes \o c
  <2>2. x = e
    BY <1>4
  <2>3. Len(x) = 1 /\ x[1] = "esc"
    <3> HIDE DEF x
    <3> QED
      BY <1>1, <2>2
  <2> DEFINE n == Len(s.bytes)
             m == Len(c)
  <2>4. /\ Len(x) = n + m /\ m \in Nat /\ n \in Nat \ {0}
        /\ \A i \in 1..n : x[i] = s.bytes[i]
    BY <2>1
  <2> HIDE DEF x, n, m
  <2>5. n = 1
    BY <2>3, <2>4
  <2>6. x[1] = s.bytes[1]
    BY <2>4, <2>5
  <2> QED
    BY <2>3, <2>5, <2>6 DEF n
<1>6. IsEscape(s)
  <2>1. "esc" \notin Text /\ "esc" \notin Control
    BY DEF Text, Control, Param, Intermediate, Final, Letter
  <2>2. CASE IsChar(s)
    BY <1>5, <2>1, <2>2 DEF IsChar, Stroke
  <2>3. CASE IsRune(s)
    BY <1>5, <2>3 DEF IsRune, Stroke
  <2>4. CASE IsControl(s)
    BY <1>5, <2>1, <2>4 DEF IsControl, Stroke
  <2>5. CASE IsAlt(s)
    <3>1. PICK b \in Letter \ {"O"} : s.bytes = <<"esc", b>>
      BY <2>5 DEF IsAlt, Stroke
    <3> QED
      BY <1>5, <3>1
  <2>6. CASE IsSs3(s)
    <3>1. PICK b \in Final : s.bytes = <<"esc", "O", b>>
      BY <2>6 DEF IsSs3, Stroke
    <3> QED
      BY <1>5, <3>1
  <2>7. CASE IsCsi(s)
    BY <1>5, <2>7 DEF IsCsi
  <2>8. CASE IsLegacyMouse(s)
    BY <1>5, <2>8 DEF IsLegacyMouse
  <2>9. CASE IsSgrMouse(s)
    BY <1>5, <2>9 DEF IsSgrMouse
  <2>10. CASE IsPaste(s)
    <3>1. PICK n \in 0..Len(s.bytes) - 8 : TRUE
      BY <2>10 DEF IsPaste
    <3> QED
      BY <1>5, <3>1
  <2> QED
    BY <1>3, <2>2, <2>3, <2>4, <2>5, <2>6, <2>7, <2>8, <2>9, <2>10 DEF KeyStroke
<1>7. s.bytes = <<"esc">> /\ s.keys = <<EscapeKey>>
  BY <1>6 DEF IsEscape, Stroke
<1>8. Spells(c, l) /\ c = <<>>
  BY <1>2, <1>7 DEF StrokeThen
<1>9. l = empty
  BY <1>3, <1>8, NothingSpells
<1>10. k = s.keys \o l
  BY <1>2 DEF StrokeThen
<1>11. s.keys \o empty = s.keys
  BY <1>3
<1> HIDE DEF empty
<1>12. k = s.keys \o empty
  BY <1>9, <1>10
<1>13. k = s.keys
  BY <1>11, <1>12
<1> QED
  BY <1>7, <1>13

\* So does flush(), for the Escape key.
LEMMA FlushAhead ==
  ASSUME WellBehaved, NEW seen \in Seq(Event), NEW d \in Decoder, NEW keys,
         KeysAhead(seen, d, <<>>, keys), PendingEscape(d)
  PROVE  KeysAhead(seen \o Flush(d).out, Flush(d).dec, <<>>, keys)
<1> DEFINE e == <<"esc">>
           out == Flush(d).out
           f == Flush(d).dec
           s == seen \o out
<1>1. PICK k \in Seq(Event) : keys = seen \o k /\ Means(d, d.buf \o <<>>, k)
  BY DEF KeysAhead
<1>2. ~d.open /\ d.buf = e /\ e \in Seq(Byte) /\ Len(e) = 1 /\ e[1] = "esc"
  BY DEF PendingEscape, Byte
<1>3. TextSpells(d.held, e, k)
  <2> DEFINE g == d.buf \o <<>>
  <2>1. g = e
    BY <1>2
  <2>2. Means(d, g, k)
    BY <1>1
  <2> HIDE DEF g, e
  <2> QED
    BY <1>2, <2>1, <2>2 DEF Means
<1>4. d.held = <<>> /\ Spells(e, k)
  <2>1. ASSUME NEW c, NEW l, Spells(c, l), e = <<"K">> \o c PROVE FALSE
    <3> DEFINE x == <<"K">>
    <3>1. x \in Seq(Byte) /\ Len(x) = 1 /\ x[1] = "K" /\ c \in Seq(Byte)
      BY <2>1, RuneKeyType, OneByte, SpellsTypes
    <3>2. e = x \o c
      BY <2>1
    <3> HIDE DEF x, e
    <3> DEFINE y == x \o c
    <3>3. \A i \in 1..Len(x) : y[i] = x[i]
      BY <3>1, ConcatBytes
    <3>4. y = e
      BY <3>2
    <3> HIDE DEF y
    <3>5. 1 \in 1..Len(x)
      BY <3>1
    <3>6. y[1] = "K"
      BY <3>1, <3>3, <3>5
    <3>7. e[1] = "K"
      BY <3>6, <3>4
    <3> QED
      BY <1>2, <3>7
  <2> HIDE DEF e
  <2> QED
    BY <1>3, <2>1 DEF TextSpells
<1>5. k = <<EscapeKey>>
  BY <1>4, EscapeSpells
<1>6. out = <<EscapeKey>> /\ f = WithoutBuffer(d)
  BY DEF Flush
<1>7. f.buf = <<>> /\ f.held = <<>> /\ ~f.open
  BY <1>2, <1>4, <1>6 DEF WithoutBuffer
<1> HIDE DEF f
<1>8. f.buf \o <<>> = <<>> /\ <<>> \in Seq(Event)
  BY <1>7, NoEvents
<1>9. Means(f, <<>>, <<>>)
  BY <1>7, EmptySpells DEF Means, TextSpells
<1>10. Means(f, f.buf \o <<>>, <<>>)
  BY <1>8, <1>9
<1>11. keys = s \o <<>>
  <2>1. out = k
    BY <1>5, <1>6
  <2> HIDE DEF out
  <2>2. out \in Seq(Event)
    BY <2>1
  <2>3. keys = s
    BY <1>1, <2>1
  <2>4. s \in Seq(Event)
    BY <2>2, ConcatType
  <2> HIDE DEF s
  <2> QED
    BY <2>3, <2>4
<1>12. KeysAhead(s, f, <<>>, keys)
  <2> HIDE DEF s
  <2> QED
    BY <1>7, <1>8, <1>10, <1>11 DEF KeysAhead
<1> QED
  BY <1>12 DEF f

\* What the app has been given so far.
Seen == received \o queue

\* Until the session ends, what the decoder and the wire hold means the keys the
\* app has not been given yet.
KeysInv ==
    \/ gone \/ garbled
    \/ closed /\ \E k \in Seq(Event) : meant = Seen \o k
    \/ ~closed /\ KeysAhead(Seen, dec, wire, meant)

\* An event read is an event the app has been given.
LEMMA ReadKeeps ==
  ASSUME NEW r \in Seq(Event), NEW q \in Seq(Event), q # <<>>
  PROVE  Append(r, Head(q)) \o Tail(q) = r \o q
<1>1. /\ Head(q) \in Event /\ Tail(q) \in Seq(Event) /\ q = <<Head(q)>> \o Tail(q)
  <2>1. Head(q) \in Event /\ Tail(q) \in Seq(Event)
    OBVIOUS
  <2>2. q = <<Head(q)>> \o Tail(q)
    OBVIOUS
  <2> QED
    BY <2>1, <2>2
<1> DEFINE h == Head(q)
           t == Tail(q)
<1>2. Append(r, h) \o t = r \o (<<h>> \o t)
  BY <1>1, AppendThen
<1>3. r \o (<<h>> \o t) = r \o q
  <2> DEFINE x == <<h>> \o t
  <2>1. q = x
    BY <1>1
  <2> HIDE DEF x
  <2> QED
    BY <2>1
<1> QED
  BY <1>2, <1>3

\* A sequence is its first n bytes and the others.
LEMMA Cut ==
  ASSUME NEW s \in Seq(Byte), NEW n \in 0..Len(s)
  PROVE  s = SubSeq(s, 1, n) \o SubSeq(s, n + 1, Len(s))
<1> DEFINE a == SubSeq(s, 1, n)
           b == SubSeq(s, n + 1, Len(s))
           t == a \o b
<1>1. a \in Seq(Byte) /\ Len(a) = n /\ \A i \in 1..n : a[i] = s[i]
  BY PrefixBytes
<1>2. b \in Seq(Byte) /\ Len(b) = Len(s) - n /\ \A i \in 1..Len(s) - n : b[i] = s[n + i]
  BY SuffixBytes
<1> HIDE DEF a, b
<1>3. /\ t \in Seq(Byte) /\ Len(t) = Len(a) + Len(b)
      /\ \A i \in 1..Len(a) : t[i] = a[i]
      /\ \A i \in 1..Len(b) : t[Len(a) + i] = b[i]
  BY <1>1, <1>2, ConcatBytes
<1> HIDE DEF t
<1>4. Len(s) \in Nat /\ n \in Nat
  OBVIOUS
<1>5. ASSUME NEW i \in 1..Len(s) PROVE s[i] = t[i]
  <2>1. CASE i <= n
    BY <1>1, <1>3, <1>4, <2>1
  <2>2. CASE ~(i <= n)
    <3> DEFINE j == i - n
    <3>1. j \in 1..Len(s) - n /\ n + j = i
      BY <1>4, <2>2
    <3> HIDE DEF j
    <3>2. t[n + j] = b[j] /\ b[j] = s[n + j]
      BY <1>1, <1>2, <1>3, <3>1
    <3> QED
      BY <3>1, <3>2
  <2> QED
    BY <2>1, <2>2
<1>6. Len(t) = Len(s)
  BY <1>1, <1>2, <1>3, <1>4
<1>7. s = t
  BY <1>3, <1>5, <1>6, SameBytes
<1> QED
  BY <1>7 DEF t, a, b

\* A step that neither types, decodes nor reads.
LEMMA SeenStays ==
  ASSUME TypeOK, KeysInv,
         gone' = gone, garbled' = garbled, meant' = meant, Seen' = Seen, dec' = dec, wire' = wire,
         closed' \/ ~closed
  PROVE  KeysInv'
<1>1. CASE gone \/ garbled
  BY <1>1 DEF KeysInv
<1>2. CASE ~closed'
  BY <1>1, <1>2 DEF KeysInv
<1>3. CASE closed'
  BY <1>1, <1>3 DEF KeysInv, KeysAhead
<1> QED
  BY <1>1, <1>2, <1>3

\* A stroke typed keeps the invariant.
LEMMA StrokeKeeps ==
  ASSUME WellBehaved, TypeOK, KeysInv, NEW s \in Strokes, Type(s)
  PROVE  KeysInv'
<1> DEFINE seen == Seen
<1>1. /\ gone' = gone /\ garbled' = garbled /\ closed' = closed /\ Seen' = seen /\ dec' = dec
      /\ wire' = wire \o s.bytes /\ meant' = meant \o s.keys
  BY DEF Type, Send, screen, Seen
<1>2. seen \in Seq(Event) /\ dec \in Decoder /\ wire \in Seq(Byte) /\ s.keys \in Seq(Event)
  BY StrokeType, ConcatType DEF TypeOK, Seen
<1> HIDE DEF seen
<1>3. CASE gone \/ garbled
  BY <1>1, <1>3 DEF KeysInv
<1>4. CASE ~(gone \/ garbled) /\ closed
  <2>1. PICK k \in Seq(Event) : meant = seen \o k
    BY <1>4 DEF KeysInv, seen
  <2> DEFINE l == k \o s.keys
             more == meant \o s.keys
  <2>2. l \in Seq(Event)
    BY <1>2, ConcatType
  <2>3. more = seen \o l
    <3>1. (seen \o k) \o s.keys = seen \o (k \o s.keys)
      BY <1>2, AssocEvents
    <3> QED
      BY <2>1, <3>1
  <2>4. meant' = more
    BY <1>1
  <2> HIDE DEF l, more
  <2>5. \E m \in Seq(Event) : meant' = Seen' \o m
    BY <1>1, <2>2, <2>3, <2>4
  <2> QED
    BY <1>1, <1>4, <2>5 DEF KeysInv
<1>5. CASE ~(gone \/ garbled) /\ ~closed
  <2>1. KeysAhead(seen, dec, wire, meant)
    BY <1>5 DEF KeysInv, seen
  <2>2. ~OpenEscape
    BY <1>5 DEF Type
  <2>3. (wire = <<>> => ~PendingEscape(dec)) /\ (wire # <<>> => wire[Len(wire)] # "esc")
    BY <2>2 DEF OpenEscape, Last
  <2>4. KeysAhead(seen, dec, wire \o s.bytes, meant \o s.keys)
    BY <1>2, <2>1, <2>3, TypeAhead
  <2> DEFINE w == wire \o s.bytes
             more == meant \o s.keys
  <2>5. KeysAhead(seen, dec, w, more) /\ wire' = w /\ meant' = more
    BY <1>1, <2>4
  <2> HIDE DEF w, more
  <2>6. KeysAhead(Seen', dec', wire', meant')
    BY <1>1, <2>5
  <2> QED
    BY <1>1, <1>5, <2>6 DEF KeysInv
<1> QED
  BY <1>3, <1>4, <1>5

\* So does a packet.
LEMMA PacketKeeps ==
  ASSUME WellBehaved, TypeOK, KeysInv, NEW n \in 1..Len(wire), Packet(n)
  PROVE  KeysInv'
<1> DEFINE seen == Seen
           data == SubSeq(wire, 1, n)
           rest == SubSeq(wire, n + 1, Len(wire))
           fed == Feed(dec, data)
<1>1. /\ gone' = gone /\ garbled' = garbled /\ closed' = closed /\ meant' = meant
      /\ received' = received /\ wire' = rest
  BY DEF Packet, client, screen
<1>2. /\ wire \in Seq(Byte) /\ n \in 0..Len(wire) /\ dec \in Decoder
      /\ received \in Seq(Event) /\ queue \in Seq(Event)
  BY DEF TypeOK
<1>3. seen \in Seq(Event)
  BY <1>2, ConcatType DEF Seen
<1>4. data \in Seq(Byte) /\ rest \in Seq(Byte)
  BY <1>2, PrefixBytes, SuffixBytes
<1>5. CASE gone \/ garbled
  BY <1>1, <1>5 DEF KeysInv
<1>6. CASE ~(gone \/ garbled) /\ closed
  <2>1. queue' = queue /\ dec' = dec
    BY <1>6 DEF Packet
  <2> HIDE DEF rest
  <2>2. Seen' = Seen
    BY <1>1, <2>1 DEF Seen
  <2> QED
    BY <1>1, <1>6, <2>1, <2>2 DEF KeysInv
<1>7. CASE ~(gone \/ garbled) /\ ~closed
  <2>1. KeysAhead(seen, dec, wire, meant)
    BY <1>7 DEF KeysInv
  <2>2. dec' = fed.dec /\ queue' = queue \o fed.out
    BY <1>7 DEF Packet
  <2>3. wire = data \o rest
    BY <1>2, Cut
  <2>4. fed.out \in Seq(Event)
    BY <1>2, <1>4, FeedType DEF Progress
  <2> HIDE DEF data, rest, seen
  <2> DEFINE both == data \o rest
  <2>5. KeysAhead(seen, dec, both, meant)
    <3>1. both = wire
      BY <2>3
    <3> HIDE DEF both
    <3> QED
      BY <2>1, <3>1
  <2>6. KeysAhead(seen \o fed.out, fed.dec, rest, meant)
    BY <1>2, <1>3, <1>4, <2>5, FeedAhead
  <2>7. Seen' = seen \o fed.out
    <3> DEFINE out == fed.out
    <3>1. (received \o queue) \o out = received \o (queue \o out)
      <4> HIDE DEF out
      <4>1. out \in Seq(Event)
        BY <2>4 DEF out
      <4> QED
        BY <1>2, <4>1, AssocEvents
    <3>2. Seen' = received \o (queue \o out)
      BY <1>1, <2>2 DEF Seen
    <3> QED
      BY <3>1, <3>2 DEF seen, Seen
  <2> DEFINE more == seen \o fed.out
  <2>8. KeysAhead(more, fed.dec, rest, meant) /\ Seen' = more
    BY <2>6, <2>7
  <2> HIDE DEF more, fed
  <2>9. KeysAhead(Seen', dec', wire', meant')
    BY <1>1, <2>2, <2>8
  <2> QED
    BY <1>1, <1>7, <2>9 DEF KeysInv
<1> QED
  BY <1>5, <1>6, <1>7

\* So does the escape timer.
LEMMA EscapeKeeps ==
  ASSUME WellBehaved, TypeOK, TimerExact, KeysInv, FlushEscape
  PROVE  KeysInv'
<1> DEFINE seen == Seen
           out == Flush(dec).out
           f == Flush(dec).dec
<1>1. /\ gone' = gone /\ garbled' = garbled /\ closed' = closed /\ meant' = meant
      /\ received' = received /\ wire' = wire
  BY DEF FlushEscape, client, screen
<1>2. ~closed /\ PendingEscape(dec)
  BY DEF FlushEscape, TimerExact
<1>3. dec' = f /\ queue' = queue \o out
  BY <1>2 DEF FlushEscape
<1>4. dec \in Decoder /\ received \in Seq(Event) /\ queue \in Seq(Event)
  BY DEF TypeOK
<1>5. seen \in Seq(Event)
  BY <1>4, ConcatType DEF Seen
<1>6. out \in Seq(Event)
  BY <1>4, FlushIs
<1>7. CASE gone \/ garbled
  BY <1>1, <1>7 DEF KeysInv
<1>8. CASE ~(gone \/ garbled)
  <2>1. wire = <<>>
    BY <1>2, <1>8 DEF FlushEscape, PendingEscape
  <2>2. KeysAhead(seen, dec, <<>>, meant)
    BY <1>2, <1>8, <2>1 DEF KeysInv
  <2> DEFINE more == seen \o out
  <2>3. KeysAhead(more, f, <<>>, meant)
    BY <1>2, <1>4, <1>5, <2>2, FlushAhead
  <2>4. Seen' = more
    <3>1. (received \o queue) \o out = received \o (queue \o out)
      <4> HIDE DEF out
      <4> QED
        BY <1>4, <1>6, AssocEvents
    <3>2. Seen' = received \o (queue \o out)
      BY <1>1, <1>3 DEF Seen
    <3> QED
      BY <3>1, <3>2 DEF Seen
  <2> HIDE DEF more, f
  <2>5. KeysAhead(Seen', dec', wire', meant')
    BY <1>1, <1>3, <2>1, <2>3, <2>4
  <2> QED
    BY <1>1, <1>2, <1>8, <2>5 DEF KeysInv
<1> QED
  BY <1>7, <1>8

\* The app receives the keys the client meant, if every stroke is a key.
THEOREM TypedKeysAreSeen ==
  ASSUME \A s \in Strokes : KeyStroke(s)
  PROVE  Spec => []AppSeesTypedKeys
<1>1. WellBehaved
  BY DEF WellBehaved
<1>2. Init => KeysInv
  <2> SUFFICES ASSUME Init PROVE KeysInv
    OBVIOUS
  <2>1. Seen = <<>>
    BY DEF Init, Seen
  <2>2. KeysAhead(Seen, dec, wire, meant)
    BY <2>1, FirstAhead DEF Init
  <2> QED
    BY <2>2 DEF Init, KeysInv
<1>3. TypeOK /\ TimerExact /\ KeysInv /\ [Next]_vars => KeysInv'
  <2> SUFFICES ASSUME TypeOK, TimerExact, KeysInv, [Next]_vars PROVE KeysInv'
    OBVIOUS
  <2>1. ASSUME NEW s \in Strokes, Type(s) PROVE KeysInv'
    BY <1>1, <2>1, StrokeKeeps
  <2>2. ASSUME NEW n \in 1..Len(wire), Packet(n) PROVE KeysInv'
    BY <1>1, <2>2, PacketKeeps
  <2>3. CASE FlushEscape
    BY <1>1, <2>3, EscapeKeeps
  <2>4. CASE ReadInput
    <3>1. Seen' = Seen
      <4>1. received \in Seq(Event) /\ queue \in Seq(Event) /\ queue # <<>>
        BY <2>4 DEF ReadInput, TypeOK
      <4>2. Append(received, Head(queue)) \o Tail(queue) = received \o queue
        BY <4>1, ReadKeeps
      <4>3. received' = Append(received, Head(queue)) /\ queue' = Tail(queue)
        BY <2>4 DEF ReadInput
      <4> DEFINE read == Append(received, Head(queue)) \o Tail(queue)
      <4>4. Seen' = read
        BY <4>3 DEF Seen
      <4>5. read = Seen
        BY <4>2 DEF Seen
      <4> HIDE DEF read
      <4> QED
        BY <4>4, <4>5
    <3> QED
      BY <2>4, <3>1, SeenStays DEF ReadInput, client, screen
  <2>5. CASE HangUp \/ \E b \in Garbage : SendGarbage(b)
    BY <2>5 DEF HangUp, SendGarbage, KeysInv
  <2>6. CASE EnableMouse \/ DisableMouse \/ Close \/ Rest \/ UNCHANGED vars
    <3>1. UNCHANGED <<meant, garbled, wire, dec, queue, gone, received>>
      BY <2>6 DEF EnableMouse, DisableMouse, Close, Rest, vars, client
    <3>2. Seen' = Seen
      BY <3>1 DEF Seen
    <3>3. closed' \/ ~closed
      BY <2>6 DEF EnableMouse, DisableMouse, Close, Rest, vars, TypeOK
    <3> QED
      BY <3>1, <3>2, <3>3, SeenStays
  <2> QED
    BY <2>1, <2>2, <2>3, <2>4, <2>5, <2>6 DEF Next
<1>4. TypeOK /\ KeysInv => AppSeesTypedKeys
  <2> SUFFICES ASSUME TypeOK, KeysInv, ~gone, ~garbled PROVE AppSeesTypedKeys
    BY DEF AppSeesTypedKeys
  <2>1. PICK k \in Seq(Event) : meant = Seen \o k
    BY DEF KeysInv, KeysAhead
  <2>2. Seen \in Seq(Event)
    BY ConcatType DEF TypeOK, Seen
  <2>3. IsPrefix(Seen, Seen \o k)
    BY <2>2, BeginsWith
  <2> DEFINE all == Seen \o k
  <2>4. meant = all /\ IsPrefix(Seen, all)
    BY <2>1, <2>3
  <2> HIDE DEF all
  <2>5. IsPrefix(Seen, meant)
    BY <2>4
  <2> QED
    BY <2>5 DEF AppSeesTypedKeys, Seen
<1> QED
  BY <1>2, <1>3, <1>4, TypeCorrect, EscapeTimerIsExact, PTL DEF Spec
=============================================================================
