----------------------------- MODULE InputSource -----------------------------
(***************************************************************************)
(* A session's input, from the client's keyboard to the app: the client    *)
(* types strokes, SSH cuts their bytes into packets anywhere, and          *)
(* ChannelInputSource (src/wijjit_ssh/input.py) feeds each packet to its    *)
(* KeyDecoder, queues the events for the app's event loop, and arms a      *)
(* timer that decides whether a lone ESC was the Escape key.               *)
(***************************************************************************)
EXTENDS KeyDecoder

CONSTANTS Strokes,     \* what a keyboard sends: [bytes |-> ..., keys |-> ...]
          Garbage,     \* what else a client may send: sequences of bytes
          MaxStrokes   \* bound: how often it sends

ASSUME StrokesAssumption ==
    /\ Strokes \subseteq [bytes : Seq(Byte), keys : Seq(Event)]
    /\ Garbage \subseteq Seq(Byte)
    /\ MaxStrokes \in Nat

VARIABLES
    typed,      \* strokes typed so far
    meant,      \* the events those strokes mean
    garbled,    \* the client has sent garbage, or bytes at any pace
    wire,       \* bytes on their way to the server
    dec,        \* _decoder
    queue,      \* _queue
    timer,      \* _escape_timer is armed
    closed,     \* _closed
    mouse,      \* mouse_enabled
    gone,       \* the channel is closed: writes to it are dropped
    tracking,   \* the client's terminal reports the mouse
    received    \* events read_input_async() has returned to the app

client == <<typed, meant, garbled>>
screen == <<mouse, gone, tracking>>
vars == <<typed, meant, garbled, wire, dec, queue, timer, closed, mouse, gone, tracking, received>>

TypeOK ==
    /\ typed \in 0..MaxStrokes
    /\ meant \in Seq(Event)
    /\ garbled \in BOOLEAN
    /\ wire \in Seq(Byte)
    /\ dec \in Decoder
    /\ queue \in Seq(Event)
    /\ timer \in BOOLEAN
    /\ closed \in BOOLEAN
    /\ mouse \in BOOLEAN
    /\ gone \in BOOLEAN
    /\ tracking \in BOOLEAN
    /\ received \in Seq(Event)

Init ==
    /\ typed = 0 /\ meant = <<>> /\ garbled = FALSE /\ wire = <<>>
    /\ dec = Fresh /\ queue = <<>> /\ timer = FALSE
    /\ closed = FALSE /\ mouse = FALSE
    /\ gone = FALSE /\ tracking = FALSE
    /\ received = <<>>

-----------------------------------------------------------------------------
(* The client and the network *)

\* An ESC nothing has followed yet.
OpenEscape ==
    IF wire = <<>> THEN PendingEscape(dec) ELSE Last(wire) = "esc"

Send(bytes) ==
    /\ ~gone
    /\ typed < MaxStrokes
    /\ typed' = typed + 1
    /\ wire' = wire \o bytes
    /\ UNCHANGED <<dec, queue, timer, closed, screen, received>>

\* Nobody types on within ESCAPE_TIMEOUT of the Escape key: nothing in the
\* bytes would tell the two from Alt or an arrow.
Type(s) ==
    /\ garbled \/ ~OpenEscape
    /\ Send(s.bytes)
    /\ meant' = meant \o s.keys
    /\ UNCHANGED garbled

SendGarbage(bytes) ==
    /\ Send(bytes)
    /\ garbled' = TRUE
    /\ UNCHANGED meant

\* Mutant: the ESC that ends a packet is never timed.
PacketWithoutTimer(n) ==
    /\ ~gone
    /\ n \in 1..Len(wire)
    /\ wire' = SubSeq(wire, n + 1, Len(wire))
    /\ IF closed THEN UNCHANGED <<dec, queue>>
       ELSE LET fed == Feed(dec, SubSeq(wire, 1, n))
            IN dec' = fed.dec /\ queue' = queue \o fed.out
    /\ UNCHANGED <<client, timer, closed, screen, received>>

\* Mutant: more bytes do not re-arm the timer.
PacketArmsOnce(n) ==
    /\ ~gone
    /\ n \in 1..Len(wire)
    /\ wire' = SubSeq(wire, n + 1, Len(wire))
    /\ IF closed THEN UNCHANGED <<dec, queue, timer>>
       ELSE LET fed == Feed(dec, SubSeq(wire, 1, n))
            IN /\ dec' = fed.dec
               /\ queue' = queue \o fed.out
               /\ timer' = (timer \/ PendingEscape(fed.dec))
    /\ UNCHANGED <<client, closed, screen, received>>

\* feed(), with _schedule_escape_flush(): a packet of n bytes.
Packet(n) ==
    /\ ~gone
    /\ n \in 1..Len(wire)
    /\ wire' = SubSeq(wire, n + 1, Len(wire))
    /\ IF closed THEN UNCHANGED <<dec, queue, timer>>
       ELSE LET fed == Feed(dec, SubSeq(wire, 1, n))
            IN /\ dec' = fed.dec
               /\ queue' = queue \o fed.out
               /\ timer' = PendingEscape(fed.dec)
    /\ UNCHANGED <<client, closed, screen, received>>

\* The client hangs up, or the connection dies.
HangUp ==
    /\ ~gone
    /\ gone' = TRUE
    /\ wire' = <<>>
    /\ UNCHANGED <<client, dec, queue, timer, closed, mouse, tracking, received>>

-----------------------------------------------------------------------------
(* The server's event loop *)

\* _flush_escape().  The bytes of a stroke come within ESCAPE_TIMEOUT of each
\* other unless the client is garbled; a paste may stall anywhere.
FlushEscape ==
    /\ timer
    /\ garbled \/ wire = <<>> \/ dec.open
    /\ timer' = FALSE
    /\ IF closed THEN UNCHANGED <<dec, queue>>
       ELSE LET flushed == Flush(dec)
            IN /\ dec' = flushed.dec
               /\ queue' = queue \o flushed.out
    /\ UNCHANGED <<client, wire, closed, screen, received>>

\* read_input_async() returns an event; a timeout returns None and changes nothing.
ReadInput ==
    /\ ~closed
    /\ queue # <<>>
    /\ received' = Append(received, Head(queue))
    /\ queue' = Tail(queue)
    /\ UNCHANGED <<client, wire, dec, timer, closed, screen>>

\* enable_mouse_tracking(), which only the app's event loop calls.
EnableMouse ==
    /\ ~closed
    /\ tracking' = (tracking \/ ~gone)
    /\ mouse' = TRUE
    /\ UNCHANGED <<client, wire, dec, queue, timer, closed, gone, received>>

DisableMouse ==
    /\ mouse
    /\ tracking' = (tracking /\ gone)
    /\ mouse' = FALSE
    /\ UNCHANGED <<client, wire, dec, queue, timer, closed, gone, received>>

\* Mutant: the terminal is not restored and the timer left armed.
CloseOnly ==
    /\ ~closed
    /\ closed' = TRUE
    /\ UNCHANGED <<client, wire, dec, queue, timer, screen, received>>

\* close(), from the event loop's finally block.
Close ==
    /\ ~closed
    /\ closed' = TRUE
    /\ timer' = FALSE
    /\ tracking' = (IF mouse THEN tracking /\ gone ELSE tracking)
    /\ mouse' = FALSE
    /\ UNCHANGED <<client, wire, dec, queue, gone, received>>

\* Everything has stopped: nothing is left to type, deliver or read.
Rest ==
    /\ closed /\ (gone \/ (typed = MaxStrokes /\ wire = <<>>))
    /\ UNCHANGED vars

Next ==
    \/ \E s \in Strokes : Type(s)
    \/ \E b \in Garbage : SendGarbage(b)
    \/ \E n \in 1..Len(wire) : Packet(n)
    \/ HangUp
    \/ FlushEscape
    \/ ReadInput
    \/ EnableMouse
    \/ DisableMouse
    \/ Close
    \/ Rest

\* Bytes arrive, due timers fire and the event loop keeps reading.
Fairness ==
    /\ WF_vars(\E n \in 1..Len(wire) : Packet(n))
    /\ WF_vars(FlushEscape)
    /\ WF_vars(ReadInput)

Spec == Init /\ [][Next]_vars
FairSpec == Spec /\ Fairness

-----------------------------------------------------------------------------
(* Properties *)

\* The app receives the keys the client meant, none lost, invented, doubled or
\* reordered, wherever the network cuts the bytes: feed() keeps what is
\* incomplete and decodes the rest as if it had come in one piece.  (A
\* connection that dies inside a sequence may leave an Escape behind.)
AppSeesTypedKeys == gone \/ garbled \/ IsPrefix(received \o queue, meant)

\* A truncated rune is replaced where it stands: _consume_text flushes what the
\* UTF-8 decoder holds "rather than left to corrupt the next character".
TruncatedRuneKeepsItsPlace == gone \/ IsPrefix(received \o queue, meant)

\* Every key the client means reaches the app unless the session ends first: no
\* byte waits for ever for a sequence that is already whole, and a lone ESC
\* waits no longer than ESCAPE_TIMEOUT.
AllKeysArrive == []<>(closed \/ gone \/ garbled \/ received = meant)

\* The escape timer is armed exactly while a bare ESC waits for it: feed(),
\* _flush_escape() and close() leave none behind and forget none.
TimerExact == timer <=> (PendingEscape(dec) /\ ~closed)

\* Whatever bytes the client sends, what the decoder retains between packets is
\* bounded: MAX_SEQUENCE for a sequence that does not end (5 for a legacy mouse
\* report, taken by length), MAX_PASTE_SIZE for a paste that does not.
BufferBounded ==
    /\ Len(dec.buf) <= Max({MaxSequence, 5})
    /\ Len(dec.paste) <= MaxPaste
    /\ Len(dec.held) <= 1

\* close() leaves no mouse reporting on in a terminal it can still reach,
\* however often the app turned it on and off.
TerminalRestored == closed /\ ~gone => ~tracking

=============================================================================
