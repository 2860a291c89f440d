------------------------------ MODULE KeyDecoder ------------------------------
(***************************************************************************)
(* The byte-to-event decoder of src/wijjit_ssh/input.py: what one call of   *)
(* feed() and of flush() does to the decoder, and which events it returns. *)
(*                                                                         *)
(* A byte is one representative per class the code tells apart.  "200",    *)
(* "201" and "3" stand for the digits of those parameters, a rune has two  *)
(* bytes, "L" (a UTF-8 lead) and "K" (a continuation), and the tables of   *)
(* key names keep one entry each: "A" for the letters, "3" for the tildes. *)
(* An event records the bytes it was decoded from.                         *)
(***************************************************************************)
EXTENDS Integers, Sequences, SequencesExt, FiniteSetsExt

CONSTANTS MaxSequence,  \* MAX_SEQUENCE: bytes an unterminated sequence may reach
          MaxPaste      \* MAX_PASTE_SIZE: bytes kept of one paste

ASSUME LimitsAssumption == MaxSequence \in Nat /\ MaxPaste \in Nat

Control == {"^"}                      \* C0 controls but ESC, and DEL
Param == {"<", "3", "200", "201"}     \* 0x30-0x3F
Intermediate == {" "}                 \* 0x20-0x2F
Letter == {"A", "M", "O"}
Final == Letter \cup {"[", "~"}       \* 0x40-0x7E
Text == Param \cup Intermediate \cup Final \cup {"L", "K"}
Byte == Text \cup Control \cup {"esc"}

PasteEnd == <<"esc", "[", "201", "~">>

Event == [kind : {"char", "bad", "ctrl", "alt", "special", "escape", "mouse", "paste"},
          of : Seq(Byte)]
Ev(kind, bytes) == [kind |-> kind, of |-> bytes]
EscapeKey == Ev("escape", <<>>)
Bad == Ev("bad", <<>>)                \* U+FFFD

\* _buf, what the incremental UTF-8 decoder holds back, and the open paste.
Decoder == [buf : Seq(Byte), held : Seq({"L"}), open : BOOLEAN, paste : Seq(Byte)]
Fresh == [buf |-> <<>>, held |-> <<>>, open |-> FALSE, paste |-> <<>>]

-----------------------------------------------------------------------------
\* The result of one turn of feed()'s loop: the decoder, its events, and
\* whether the loop goes on.
Incomplete(d) == [dec |-> d, out |-> <<>>, again |-> FALSE]
Consume(d, n, out) ==
    [dec |-> [d EXCEPT !.buf = SubSeq(@, n + 1, Len(@))], out |-> out, again |-> TRUE]

\* The first place from i on whose byte is not in S.
SkipOver(s, i, S) == Min({j \in i..Len(s) + 1 : j = Len(s) + 1 \/ s[j] \notin S})

\* The incremental UTF-8 decoder with errors="replace": t.held and t.out after b.
DecodeByte(t, b) ==
    LET out == IF t.held # <<>> /\ b # "K" THEN Append(t.out, Bad) ELSE t.out
    IN CASE b = "L" -> [held |-> <<"L">>, out |-> out]
         [] b = "K" /\ t.held # <<>> -> [held |-> <<>>, out |-> Append(out, Ev("char", <<"L", "K">>))]
         [] b = "K" /\ t.held = <<>> -> [held |-> <<>>, out |-> Append(out, Bad)]
         [] OTHER -> [held |-> <<>>, out |-> Append(out, Ev("char", <<b>>))]

\* _consume_text: the run of text bytes, and the held bytes if it is closed
\* by a byte already in the buffer.
ConsumeText(d) ==
    LET end == SkipOver(d.buf, 1, Text) - 1
        t == FoldLeft(DecodeByte, [held |-> d.held, out |-> <<>>], SubSeq(d.buf, 1, end))
        closed == end < Len(d.buf)
        out == IF closed /\ t.held # <<>> THEN Append(t.out, Bad) ELSE t.out
    IN Consume([d EXCEPT !.held = IF closed THEN <<>> ELSE t.held], end, out)

\* Mutant: an unterminated sequence is waited for without a limit.
ResyncNever(d) == Incomplete(d)

ResyncIfOverlong(d) ==
    IF Len(d.buf) > MaxSequence THEN Consume(d, 1, <<>>) ELSE Incomplete(d)

CsiKey(params, final) ==
    IF final = "A" \/ (final = "~" /\ params = <<"3">>)
    THEN <<Ev("special", Append(params, final))>>
    ELSE <<>>

\* Legacy mouse report: three raw bytes, taken by length.
ConsumeNormalMouse(d) ==
    IF Len(d.buf) < 6 THEN Incomplete(d)
    ELSE Consume(d, 6, <<Ev("mouse", SubSeq(d.buf, 1, 6))>>)

\* SGR mouse report, up to its final "M"; the parser drops one it cannot read.
ConsumeSgrMouse(d) ==
    LET end == SkipOver(d.buf, 4, Byte \ {"M"})
        report == SubSeq(d.buf, 1, end)
    IN CASE end > Len(d.buf) -> ResyncIfOverlong(d)
         [] end <= Len(d.buf) /\ SubSeq(report, 4, end - 1) = <<"3">> ->
                Consume(d, end, <<Ev("mouse", report)>>)
         [] OTHER -> Consume(d, end, <<>>)

ConsumeGeneralCsi(d) ==
    LET mid == SkipOver(d.buf, 3, Param)
        end == SkipOver(d.buf, mid, Intermediate)
        params == SubSeq(d.buf, 3, end - 1)
    IN CASE end > Len(d.buf) -> ResyncIfOverlong(d)
         [] end <= Len(d.buf) /\ d.buf[end] \notin Final -> Consume(d, 1, <<>>)
         [] OTHER ->
              IF d.buf[end] = "~" /\ params = <<"200">>
              THEN Consume([d EXCEPT !.open = TRUE, !.paste = <<>>], end, <<>>)
              ELSE Consume(d, end, CsiKey(params, d.buf[end]))

ConsumeCsi(d) ==
    IF Len(d.buf) < 3 THEN Incomplete(d)
    ELSE CASE d.buf[3] = "M" -> ConsumeNormalMouse(d)
           [] d.buf[3] = "<" -> ConsumeSgrMouse(d)
           [] OTHER -> ConsumeGeneralCsi(d)

\* SS3: ESC O <final>.
ConsumeSs3(d) ==
    IF Len(d.buf) < 3 THEN Incomplete(d)
    ELSE Consume(d, 3, IF d.buf[3] = "A" THEN <<Ev("special", <<"A">>)>> ELSE <<>>)

\* Any second byte but "[", "O" and the letters leaves a plain Escape behind.
ConsumeEscape(d) ==
    IF Len(d.buf) < 2 THEN Incomplete(d)
    ELSE CASE d.buf[2] = "[" -> ConsumeCsi(d)
           [] d.buf[2] = "O" -> ConsumeSs3(d)
           [] d.buf[2] \in Letter \ {"O"} -> Consume(d, 2, <<Ev("alt", <<d.buf[2]>>)>>)
           [] OTHER -> Consume(d, 1, <<EscapeKey>>)

ConsumeOne(d) ==
    CASE d.buf[1] = "esc" -> ConsumeEscape(d)
      [] d.buf[1] \in Control -> Consume(d, 1, <<Ev("ctrl", <<d.buf[1]>>)>>)
      [] OTHER -> ConsumeText(d)

\* The payload of the paste grows by the first n bytes of the buffer, as far
\* as MAX_PASTE_SIZE has room for them.
Grow(d, n) == SubSeq(d.paste \o SubSeq(d.buf, 1, n), 1, Min({MaxPaste, Len(d.paste) + n}))

EndsAt(buf) == {i \in 1..Len(buf) - Len(PasteEnd) + 1 :
                    SubSeq(buf, i, i + Len(PasteEnd) - 1) = PasteEnd}

\* Mutant: one byte too few is held back for a split terminator.
ConsumePasteHoldingLess(d) ==
    IF EndsAt(d.buf) = {} THEN
        LET take == Max({0, Len(d.buf) - (Len(PasteEnd) - 2)})
        IN [Consume([d EXCEPT !.paste = Grow(d, take)], take, <<>>) EXCEPT !.again = FALSE]
    ELSE
        LET found == Min(EndsAt(d.buf)) - 1
            payload == Grow(d, found)
        IN Consume([d EXCEPT !.open = FALSE, !.paste = <<>>], found + Len(PasteEnd),
                   IF payload = <<>> THEN <<>> ELSE <<Ev("paste", payload)>>)

\* _consume_paste: until the terminator is there, all but the bytes that may
\* be its beginning are taken.
ConsumePaste(d) ==
    IF EndsAt(d.buf) = {} THEN
        LET take == Max({0, Len(d.buf) - (Len(PasteEnd) - 1)})
        IN [Consume([d EXCEPT !.paste = Grow(d, take)], take, <<>>) EXCEPT !.again = FALSE]
    ELSE
        LET found == Min(EndsAt(d.buf)) - 1
            payload == Grow(d, found)
        IN Consume([d EXCEPT !.open = FALSE, !.paste = <<>>], found + Len(PasteEnd),
                   IF payload = <<>> THEN <<>> ELSE <<Ev("paste", payload)>>)

-----------------------------------------------------------------------------
Progress == [dec : Decoder, out : Seq(Event), again : BOOLEAN]

\* The loop of feed(): decode until the buffer is empty or incomplete.
Drained[r \in Progress] ==
    IF ~r.again \/ r.dec.buf = <<>> THEN r
    ELSE LET s == IF r.dec.open THEN ConsumePaste(r.dec) ELSE ConsumeOne(r.dec)
         IN Drained[[s EXCEPT !.out = r.out \o @]]

Feed(d, data) ==
    Drained[[dec |-> [d EXCEPT !.buf = @ \o data], out |-> <<>>, again |-> TRUE]]

PendingEscape(d) == ~d.open /\ d.buf = <<"esc">>

WithoutBuffer(d) == [buf |-> <<>>, held |-> d.held, open |-> d.open, paste |-> d.paste]

\* Mutant: the raw byte is reported, which no app knows as the Escape key.
FlushRaw(d) ==
    IF PendingEscape(d) THEN [dec |-> WithoutBuffer(d), out |-> <<Ev("esc", d.buf)>>]
    ELSE [dec |-> d, out |-> <<>>]

\* flush(): the decoder and the events it returns.
Flush(d) ==
    IF PendingEscape(d) THEN [dec |-> WithoutBuffer(d), out |-> <<EscapeKey>>]
    ELSE [dec |-> d, out |-> <<>>]
=============================================================================
