------------------------------- MODULE MCInput -------------------------------
(* Instances of InputSource for TLC: what the clients type. *)
EXTENDS InputSource, KeyStrokes

PasteOf(payload, kept) ==
    Stroke(PasteStart \o payload \o PasteEnd, <<Ev("paste", kept)>>)

\* The keys of a well-behaved terminal.
Keyboard == {
    Stroke(<<"A">>, <<Ev("char", <<"A">>)>>),
    Stroke(<<"[">>, <<Ev("char", <<"[">>)>>),
    Stroke(<<"L", "K">>, <<Ev("char", <<"L", "K">>)>>),
    Stroke(<<"^">>, <<Ev("ctrl", <<"^">>)>>),
    Stroke(<<"esc">>, <<EscapeKey>>),
    Stroke(<<"esc", "A">>, <<Ev("alt", <<"A">>)>>),
    Stroke(<<"esc", "O", "A">>, <<Ev("special", <<"A">>)>>),
    Stroke(<<"esc", "[", "3", "~">>, <<Ev("special", <<"3", "~">>)>>),
    Stroke(<<"esc", "[", "3", " ", "~">>, <<>>),
    Stroke(<<"esc", "[", "M", "esc", "^", "L">>,
           <<Ev("mouse", <<"esc", "[", "M", "esc", "^", "L">>)>>),
    Stroke(<<"esc", "[", "<", "3", "M">>, <<Ev("mouse", <<"esc", "[", "<", "3", "M">>)>>),
    PasteOf(<<"A", "^">>, <<"A", "^">>),
    PasteOf(<<"esc", "[", "A", "esc">>, <<"esc", "[", "A">>) }

ASSUME KeyboardAssumption == \A s \in Keyboard : KeyStroke(s)

\* A rune whose continuation byte never comes, and the keys after it.
BrokenRune == {
    Stroke(<<"L">>, <<Bad>>),
    Stroke(<<"^">>, <<Ev("ctrl", <<"^">>)>>),
    Stroke(<<"A">>, <<Ev("char", <<"A">>)>>) }

\* Pieces of sequences, ended or not.
Noise == {<<"esc">>, <<"esc", "[", "<">>, <<"esc", "[", "M">>,
          <<"3", "3", "3", "3", "3", "3">>, <<"L">>, <<"K">>,
          <<"esc", "[", "200", "~">>, PasteEnd}

\* Only keys.
Silence == {}
=============================================================================
