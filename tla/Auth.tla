-------------------------------- MODULE Auth --------------------------------
(***************************************************************************)
(* How one client gets in: the gate WijjitSSH.__init__ puts before a       *)
(* server that would ask nobody anything, the callbacks asyncssh makes on  *)
(* _WijjitSSHServer, and the policies behind them, one after the other.    *)
(*                                                                         *)
(* A policy is a record of what its methods answer, so that the classes of *)
(* auth.py are constants and a policy written by a deployment is any other *)
(* record.  A verify_ method may await, so that each policy's answer is a  *)
(* step of its own; it may raise, and the client may leave meanwhile.      *)
(***************************************************************************)
EXTENDS Naturals, Sequences

CONSTANTS
    User,      \* usernames a client may offer
    Nameless,  \* the empty username the gate asks about
    Key,       \* public keys
    Secret,    \* what is typed at a prompt, or sent as a password
    Prompt,    \* prompts of a keyboard-interactive challenge
    PasswordPrompt,
    Chains,    \* the policies a deployment may pass, << >> for none
    NoClaim    \* no attempt is in progress

Policy == [waives: SUBSET User,                \* auth_required() is False
           keys: BOOLEAN,                      \* public_key_supported()
           authorized: [User -> SUBSET Key],   \* authorized_keys_for()
           password: BOOLEAN,                  \* password_supported()
           accounts: SUBSET (User \X Secret),  \* verify_password()
           kbdint: BOOLEAN,                    \* kbdint_supported()
           challenge: Seq(Prompt),             \* kbdint_prompts()
           answers: SUBSET (User \X Seq(Secret))]  \* verify_kbdint()

-----------------------------------------------------------------------------
(* The policies of auth.py.                                                 *)

(* The base class requires authentication and offers no way to pass it.     *)
AuthPolicy ==
    [waives |-> {}, keys |-> FALSE, authorized |-> [u \in User |-> {}],
     password |-> FALSE, accounts |-> {},
     kbdint |-> FALSE, challenge |-> << PasswordPrompt >>, answers |-> {}]

OpenAuth == [AuthPolicy EXCEPT !.waives = User]

(* One bad line does not lock everyone out; options before a key are        *)
(* tolerated.                                                               *)
LoadAuthorizedKeys(lines) ==
    {line.key : line \in {l \in lines : l.kind \in {"key", "options"}}}

(* AuthorizedKeys of one file, or of keys=, for every username.             *)
AuthorizedKeys(K) ==
    [AuthPolicy EXCEPT !.keys = TRUE, !.authorized = [u \in User |-> K]]

(* AuthorizedKeys of a mapping.  That an unknown user has None and another  *)
(* an empty list makes no difference to the callers.                        *)
AuthorizedKeysOf(files) ==
    [AuthPolicy EXCEPT
        !.keys = TRUE,
        !.authorized = [u \in User |-> IF u \in DOMAIN files THEN files[u] ELSE {}]]

(* PasswordAuth: the first response stands for the password, and no         *)
(* response is no password.  Responses are as many as there are prompts, or *)
(* none.                                                                    *)
PasswordAuth(accounts, interactive) ==
    [AuthPolicy EXCEPT
        !.password = TRUE,
        !.accounts = accounts,
        !.kbdint = interactive,
        !.answers = {<< a[1], << a[2] >> >> : a \in accounts}
                    \union {<< a[1], << a[2], s >> >> : a \in accounts, s \in Secret}]

-----------------------------------------------------------------------------
(* ChainAuth.  A policy passed by itself behaves as a chain of one, and a   *)
(* chain inside a chain as its members in its place.                        *)

PublicKeySupported(c) == \E i \in DOMAIN c : c[i].keys
PasswordSupported(c)  == \E i \in DOMAIN c : c[i].password

AuthRequired(c, u) == \A i \in DOMAIN c : u \notin c[i].waives

AuthorizedKeysFor(c, u) ==
    UNION {c[i].authorized[u] : i \in {j \in DOMAIN c : c[j].keys}}

(* Whose prompts the client is shown.                                       *)
FirstKbdint(c, i) == c[i].kbdint /\ \A j \in 1 .. i - 1 : ~c[j].kbdint

(* The responses of a client that answers, or does not answer, prompts.     *)
Responses(c, prompts) ==
    IF c.answered
    THEN [i \in DOMAIN prompts |-> c.knows[prompts[i]]]
    ELSE << >>

(* What is offered.  A key is offered with a signature, or only asked about.*)
KeyClaim      == [method: {"public-key"}, user: User, key: Key, signed: BOOLEAN]
PasswordClaim == [method: {"password"}, user: User, secret: Secret]
KbdintClaim   == [method: {"keyboard-interactive"}, user: User,
                  knows: [Prompt -> Secret], answered: BOOLEAN]
Claim == KeyClaim \union PasswordClaim \union KbdintClaim

(* password_supported() and kbdint_supported().                             *)
Offers(p, c) == IF c.method = "password" THEN p.password ELSE p.kbdint

(* What one policy of the chain says of an attempt that is shown prompts.   *)
Accepts(p, c, prompts) ==
    /\ Offers(p, c)
    /\ IF c.method = "password"
       THEN << c.user, c.secret >> \in p.accounts
       ELSE << c.user, Responses(c, prompts) >> \in p.answers

-----------------------------------------------------------------------------
VARIABLES
    chain,    \* config.auth
    allow,    \* config.allow_anonymous
    server,   \* "new", "refused" (the constructor raised) or "up"
    conn,     \* the connection: "open", "begun", "asking", "in" or "lost"
    user,     \* the username offered last
    claim,    \* the attempt being verified
    shown,    \* the prompts it was shown
    next,     \* the policy whose turn it is
    by,       \* how the client got in
    reported  \* the last attempt _log_auth reported

vars == << chain, allow, server, conn, user, claim, shown, next, by, reported >>

(* The policy in force: no policy is OpenAuth, once that is allowed.        *)
Policies == IF chain = << >> THEN << OpenAuth >> ELSE chain

Init ==
    /\ chain \in Chains
    /\ allow \in BOOLEAN
    /\ server = "new"
    /\ conn = "open"
    /\ user = Nameless
    /\ claim = NoClaim
    /\ shown = << >>
    /\ next = 1
    /\ by = "nothing"
    /\ reported = [claim |-> NoClaim, ok |-> FALSE]

(* Mutant: only the missing policy is refused.                              *)
ConstructTrusting ==
    /\ server = "new"
    /\ server' = IF chain # << >> \/ allow THEN "up" ELSE "refused"
    /\ UNCHANGED << chain, allow, conn, user, claim, shown, next, by, reported >>

(* WijjitSSH(): refused if it would ask nobody anything, unless allowed.    *)
Construct ==
    /\ server = "new"
    /\ server' = IF AuthRequired(Policies, Nameless) \/ allow THEN "up" ELSE "refused"
    /\ UNCHANGED << chain, allow, conn, user, claim, shown, next, by, reported >>

(* begin_auth(), for the first username and for each one offered after it.  *)
BeginAuth(u) ==
    /\ server = "up"
    /\ conn = "open" \/ (conn = "begun" /\ u # user)
    /\ user' = u
    /\ conn' = IF AuthRequired(Policies, u) THEN "begun" ELSE "in"
    /\ UNCHANGED << chain, allow, server, claim, shown, next, by, reported >>

-----------------------------------------------------------------------------
(* An attempt.                                                              *)

KeyListed(u, k) == k \in AuthorizedKeysFor(Policies, u)

(* _log_auth, which also emits auth.ok or auth.failed.                      *)
LogAuth(c, ok) == reported' = [claim |-> c, ok |-> ok]

(* validate_public_key(), called before asyncssh looks at a signature and   *)
(* also when there is none to look at.                                      *)
ValidatePublicKey(k, signed) ==
    LET ok == KeyListed(user, k)
    IN  /\ conn = "begun"
        /\ PublicKeySupported(Policies)
        /\ LogAuth([method |-> "public-key", user |-> user, key |-> k,
                    signed |-> signed], ok)
        /\ IF ok /\ signed
           THEN conn' = "in" /\ by' = "public-key"
           ELSE UNCHANGED << conn, by >>
        /\ UNCHANGED << chain, allow, server, user, claim, shown, next >>

(* validate_password() begins.                                              *)
PasswordSent(s) ==
    /\ conn = "begun"
    /\ PasswordSupported(Policies)
    /\ conn' = "asking"
    /\ claim' = [method |-> "password", user |-> user, secret |-> s]
    /\ next' = 1
    /\ UNCHANGED << chain, allow, server, user, shown, by, reported >>

(* get_kbdint_challenge() shows the prompts of the first policy that has    *)
(* any, and validate_kbdint_response() begins with what comes back.         *)
KbdintAnswered(knows, answered) ==
    /\ conn = "begun"
    /\ \E i \in DOMAIN Policies :
          /\ FirstKbdint(Policies, i)
          /\ shown' = Policies[i].challenge
    /\ conn' = "asking"
    /\ claim' = [method |-> "keyboard-interactive", user |-> user,
                 knows |-> knows, answered |-> answered]
    /\ next' = 1
    /\ UNCHANGED << chain, allow, server, user, by, reported >>

(* Mutant: the loop ends with the first policy that says no.                *)
PolicyDeniesForAll ==
    /\ conn = "asking"
    /\ next <= Len(Policies)
    /\ ~Accepts(Policies[next], claim, shown)
    /\ next' = Len(Policies) + 1
    /\ UNCHANGED << chain, allow, server, conn, user, claim, shown, by, reported >>

(* A policy that does not offer the method, or says no: the next one.       *)
PolicyDenies ==
    /\ conn = "asking"
    /\ next <= Len(Policies)
    /\ ~Accepts(Policies[next], claim, shown)
    /\ next' = next + 1
    /\ UNCHANGED << chain, allow, server, conn, user, claim, shown, by, reported >>

(* The first that says yes settles it.                                      *)
PolicyAccepts ==
    /\ conn = "asking"
    /\ next <= Len(Policies)
    /\ Accepts(Policies[next], claim, shown)
    /\ LogAuth(claim, TRUE)
    /\ conn' = "in"
    /\ by' = claim.method
    /\ claim' = NoClaim
    /\ UNCHANGED << chain, allow, server, user, shown, next >>

(* Mutant: the attempt is not forgotten.                                    *)
ChainDeniesKeeping ==
    /\ conn = "asking"
    /\ next = Len(Policies) + 1
    /\ LogAuth(claim, FALSE)
    /\ conn' = "begun"
    /\ UNCHANGED << chain, allow, server, user, claim, shown, next, by >>

(* None did.                                                                *)
ChainDenies ==
    /\ conn = "asking"
    /\ next = Len(Policies) + 1
    /\ LogAuth(claim, FALSE)
    /\ conn' = "begun"
    /\ claim' = NoClaim
    /\ UNCHANGED << chain, allow, server, user, shown, next, by >>

(* A new request of the client cancels the attempt being verified: asyncssh *)
(* forgets it, and so does the task that would have reported it.            *)
AttemptAbandoned ==
    /\ conn = "asking"
    /\ conn' = "begun"
    /\ claim' = NoClaim
    /\ UNCHANGED << chain, allow, server, user, shown, next, by, reported >>

-----------------------------------------------------------------------------
(* The end of the connection; what was being verified is reported nowhere.  *)

Disconnected ==
    /\ conn' = "lost"
    /\ claim' = NoClaim
    /\ UNCHANGED << chain, allow, server, user, shown, next, by, reported >>

(* A checker raises: the later policies are not asked, and asyncssh drops   *)
(* the connection.                                                          *)
PolicyRaises ==
    /\ conn = "asking"
    /\ next <= Len(Policies)
    /\ Offers(Policies[next], claim)
    /\ Disconnected

ConnectionLost == server = "up" /\ conn # "lost" /\ Disconnected

(* Mutant: asyncssh is not given a login_timeout.                           *)
LoginTimeoutUnset == FALSE /\ Disconnected

(* login_timeout, which asyncssh keeps for us.                              *)
LoginTimeout ==
    /\ server = "up"
    /\ conn \in {"open", "begun", "asking"}
    /\ Disconnected

Over == (server = "refused" \/ conn = "lost") /\ UNCHANGED vars

Next ==
    \/ Construct
    \/ \E u \in User : BeginAuth(u)
    \/ \E k \in Key, signed \in BOOLEAN : ValidatePublicKey(k, signed)
    \/ \E s \in Secret : PasswordSent(s)
    \/ \E knows \in [Prompt -> Secret], answered \in BOOLEAN :
          KbdintAnswered(knows, answered)
    \/ PolicyDenies \/ PolicyAccepts \/ ChainDenies \/ PolicyRaises
    \/ AttemptAbandoned \/ ConnectionLost \/ LoginTimeout
    \/ Over

(* Only the clock is fair: checkers may hang and clients be silent.         *)
Spec == Init /\ [][Next]_vars /\ WF_vars(LoginTimeout)

-----------------------------------------------------------------------------
(* The claims that are good: some policy that offers the method accepts     *)
(* what the client would have answered that policy.                         *)
Good ==
    {c \in Claim :
        \E i \in DOMAIN Policies :
            IF c.method = "public-key"
            THEN Policies[i].keys /\ c.key \in Policies[i].authorized[c.user]
            ELSE Accepts(Policies[i], c, Policies[i].challenge)}

(* The policies of auth.py waive authentication for everybody or nobody.    *)
Uniform == \A i \in DOMAIN Policies : Policies[i].waives \in {{}, User}

(* All policies of the chain that offer keyboard-interactive ask the same.  *)
Agreeing(c) ==
    \A i, j \in DOMAIN c :
        c[i].kbdint /\ c[j].kbdint => c[i].challenge = c[j].challenge

ASSUME AuthAssumption ==
    /\ Nameless \in User
    /\ PasswordPrompt \in Prompt
    /\ Chains \subseteq Seq(Policy)
    /\ NoClaim \notin Claim

TypeOK ==
    /\ chain \in Chains
    /\ allow \in BOOLEAN
    /\ server \in {"new", "refused", "up"}
    /\ conn \in {"open", "begun", "asking", "in", "lost"}
    /\ server # "up" => conn = "open"
    /\ user \in User
    /\ claim \in IF conn = "asking" THEN {c \in PasswordClaim \union KbdintClaim : c.user = user}
                 ELSE {NoClaim}
    /\ shown \in Seq(Prompt)
    /\ next \in 1 .. Len(Policies) + 1
    /\ by \in {"nothing", "public-key", "password", "keyboard-interactive"}
    /\ reported.claim \in Claim \union {NoClaim}
    /\ reported.ok \in BOOLEAN

(* Serving without authentication has to be typed out: with the policies of *)
(* auth.py, in whatever chain, nobody walks in without a credential unless  *)
(* allow_anonymous was passed.                                              *)
OnlyAskedForAnonymity ==
    conn = "in" /\ by = "nothing" /\ Uniform => allow

(* auth.py:401: a client is accepted if any of several policies accepts,    *)
(* whatever their order, and every attempt that came to an end is reported  *)
(* as it came out.                                                          *)
phaseOf == IF conn = "in" THEN "in" ELSE IF conn = "lost" THEN "gone" ELSE "out"

AnyOf == INSTANCE AcceptAny WITH
          phase <- phaseOf, verdict <- reported, good <- Good,
          open <- \E u \in User : ~AuthRequired(Policies, u)

AnyAccepts == AnyOf!Spec

(* Nobody holds a connection for ever without authenticating, though his    *)
(* attempt hangs in a checker.                                              *)
NobodyLingers == server = "up" ~> conn \in {"in", "lost"}
=============================================================================
