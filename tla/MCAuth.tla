------------------------------- MODULE MCAuth -------------------------------
(* Instances of Auth for TLC: the chains a deployment may pass.             *)
EXTENDS Auth, TLC

CONSTANTS ada, bob, k1, k2, good, bad, passwordPrompt, codePrompt

Line(kind, k) == [kind |-> kind, key |-> k]

File  == LoadAuthorizedKeys({Line("options", k1), Line("garbage", k2)})
Keys  == AuthorizedKeys(File)
PerUser == AuthorizedKeysOf(ada :> {k2} @@ bob :> {})
Staff == PasswordAuth({<< ada, good >>}, TRUE)
Guests == PasswordAuth({<< bob, good >>}, TRUE)
NoKbd == PasswordAuth({<< bob, bad >>}, FALSE)

(* Policies of a deployment's own: one that waives authentication for one   *)
(* user, and one that asks for a code beside the password.                  *)
Waiver == [AuthPolicy EXCEPT !.waives = {bob}]
Code   == [AuthPolicy EXCEPT
             !.kbdint = TRUE,
             !.challenge = << passwordPrompt, codePrompt >>,
             !.answers = {<< ada, << bad, good >> >>}]

MCChains ==
    {<< >>, << OpenAuth >>, << AuthPolicy >>, << Keys, PerUser >>, << PerUser >>,
     << Keys, Staff, Guests >>, << NoKbd, Staff >>, << Staff, OpenAuth >>,
     << Waiver, Guests >>, << Code, Keys >>}

(* A chain whose policies ask different questions.                          *)
MCMixedChains == {<< Staff, Code >>}
=============================================================================
