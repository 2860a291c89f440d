------------------------------ MODULE KeyStrokes ------------------------------
(***************************************************************************)
(* What a terminal sends when a key is pressed, and the events that key is *)
(* to the app: the vocabulary of src/wijjit_ssh/input.py, one stroke at a   *)
(* time and whole, without a buffer, a packet or a timer.                  *)
(***************************************************************************)
EXTENDS KeyDecoder

Stroke(bytes, keys) == [bytes |-> bytes, keys |-> keys]

\* What the app is given of a paste: as much as MAX_PASTE_SIZE has room for.
Kept(payload) == SubSeq(payload, 1, Min({MaxPaste, Len(payload)}))
PasteKeys(payload) ==
    IF Kept(payload) = <<>> THEN <<>> ELSE <<Ev("paste", Kept(payload))>>

IsChar(s) == \E b \in Text \ {"L", "K"} : s = Stroke(<<b>>, <<Ev("char", <<b>>)>>)
IsRune(s) == s = Stroke(<<"L", "K">>, <<Ev("char", <<"L", "K">>)>>)
IsControl(s) == \E b \in Control : s = Stroke(<<b>>, <<Ev("ctrl", <<b>>)>>)
IsEscape(s) == s = Stroke(<<"esc">>, <<EscapeKey>>)
IsAlt(s) == \E b \in Letter \ {"O"} : s = Stroke(<<"esc", b>>, <<Ev("alt", <<b>>)>>)
IsSs3(s) ==
    \E b \in Final :
        s = Stroke(<<"esc", "O", b>>, IF b = "A" THEN <<Ev("special", <<"A">>)>> ELSE <<>>)

\* ESC [ parameters intermediates final, no longer than the decoder waits for.
IsCsi(s) ==
    LET n == Len(s.bytes)
        params == SubSeq(s.bytes, 3, n - 1)
    IN  /\ n \in 3..MaxSequence + 1
        /\ s.bytes[1] = "esc" /\ s.bytes[2] = "[" /\ s.bytes[3] \notin {"M", "<"}
        /\ \E m \in 3..n : /\ \A i \in 3..m - 1 : s.bytes[i] \in Param
                           /\ \A i \in m..n - 1 : s.bytes[i] \in Intermediate
        /\ s.bytes[n] \in Final
        /\ ~(s.bytes[n] = "~" /\ params = <<"200">>)
        /\ s.keys = CsiKey(params, s.bytes[n])

IsLegacyMouse(s) ==
    /\ Len(s.bytes) = 6
    /\ s.bytes[1] = "esc" /\ s.bytes[2] = "[" /\ s.bytes[3] = "M"
    /\ s.keys = <<Ev("mouse", s.bytes)>>

IsSgrMouse(s) ==
    LET n == Len(s.bytes)
    IN  /\ n \in 4..MaxSequence + 1
        /\ s.bytes[1] = "esc" /\ s.bytes[2] = "[" /\ s.bytes[3] = "<" /\ s.bytes[n] = "M"
        /\ \A i \in 4..n - 1 : s.bytes[i] # "M"
        /\ s.keys = IF SubSeq(s.bytes, 4, n - 1) = <<"3">> THEN <<Ev("mouse", s.bytes)>> ELSE <<>>

\* A bracketed paste, whose payload does not hold the terminator.
PasteStart == <<"esc", "[", "200", "~">>
IsPaste(s) ==
    /\ MaxSequence >= Len(PasteStart) - 1
    /\ \E n \in 0..Len(s.bytes) - 8 :
          LET payload == SubSeq(s.bytes, 5, n + 4)
          IN  /\ s.bytes = PasteStart \o (payload \o PasteEnd)
              /\ EndsAt(payload \o PasteEnd) = {Len(payload) + 1}
              /\ s.keys = PasteKeys(payload)

\* What a well-behaved terminal sends for one key, and what the key means.
KeyStroke(s) ==
    \/ IsChar(s) \/ IsRune(s) \/ IsControl(s) \/ IsEscape(s) \/ IsAlt(s)
    \/ IsSs3(s) \/ IsCsi(s) \/ IsLegacyMouse(s) \/ IsSgrMouse(s) \/ IsPaste(s)
=============================================================================
