----------------------------- MODULE AuthProofs -----------------------------
(***************************************************************************)
(* What the policies promise for every chain, user and credential.          *)
(***************************************************************************)
EXTENDS Auth, TLAPS

LEMMA OpenAuthIsPolicy == OpenAuth \in Policy
<1>1. AuthPolicy \in Policy
  BY AuthAssumption DEF AuthAssumption, AuthPolicy, Policy
<1> QED
  BY <1>1 DEF OpenAuth, Policy

LEMMA PoliciesType == chain \in Chains => Policies \in Seq(Policy)
  BY OpenAuthIsPolicy, AuthAssumption DEF AuthAssumption, Policies

-----------------------------------------------------------------------------
LEMMA TypeInit == Init => TypeOK
<1> SUFFICES ASSUME Init PROVE TypeOK
  OBVIOUS
<1>1. Policies \in Seq(Policy)
  BY PoliciesType DEF Init
<1>2. next \in 1 .. Len(Policies) + 1 /\ shown \in Seq(Prompt)
  BY <1>1 DEF Init
<1> QED
  BY <1>2, AuthAssumption DEF Init, TypeOK, AuthAssumption

LEMMA TypeNext == TypeOK /\ [Next]_vars => TypeOK'
<1> SUFFICES ASSUME TypeOK, [Next]_vars PROVE TypeOK'
  OBVIOUS
<1>0. /\ Policies \in Seq(Policy)
      /\ chain' = chain => Policies' = Policies
  BY PoliciesType DEF TypeOK, Policies
<1>a. Len(Policies) \in Nat
  BY <1>0
<1>1. CASE Construct
  BY <1>0, <1>1 DEF Construct, TypeOK
<1>2. ASSUME NEW u \in User, BeginAuth(u) PROVE TypeOK'
  BY <1>0, <1>2 DEF BeginAuth, TypeOK
<1>3. ASSUME NEW k \in Key, NEW signed \in BOOLEAN, ValidatePublicKey(k, signed)
      PROVE  TypeOK'
  <2>1. [method |-> "public-key", user |-> user, key |-> k, signed |-> signed] \in Claim
    BY <1>3 DEF TypeOK, Claim, KeyClaim
  <2>2. /\ conn' \in {"begun", "in"} /\ by' \in {by, "public-key"}
        /\ UNCHANGED << chain, allow, server, user, claim, shown, next >>
        /\ conn = "begun"
    BY <1>3 DEF ValidatePublicKey
  <2>3. reported'.claim \in Claim /\ reported'.ok \in BOOLEAN
    BY <1>3, <2>1 DEF ValidatePublicKey, LogAuth, KeyListed
  <2> QED
    BY <1>0, <2>2, <2>3 DEF TypeOK
<1>4. ASSUME NEW s \in Secret, PasswordSent(s) PROVE TypeOK'
  BY <1>0, <1>a, <1>4 DEF PasswordSent, TypeOK, PasswordClaim
<1>5. ASSUME NEW knows \in [Prompt -> Secret], NEW answered \in BOOLEAN,
             KbdintAnswered(knows, answered)
      PROVE  TypeOK'
  <2>1. shown' \in Seq(Prompt)
    <3>1. PICK i \in DOMAIN Policies : shown' = Policies[i].challenge
      BY <1>5 DEF KbdintAnswered
    <3>2. Policies[i] \in Policy
      BY <1>0
    <3> QED
      BY <3>1, <3>2 DEF Policy
  <2>2. claim' \in {c \in KbdintClaim : c.user = user}
    BY <1>5 DEF KbdintAnswered, KbdintClaim, TypeOK
  <2>3. /\ conn' = "asking" /\ next' = 1 /\ conn = "begun"
        /\ UNCHANGED << chain, allow, server, user, by, reported >>
    BY <1>5 DEF KbdintAnswered
  <2> QED
    BY <1>0, <1>a, <2>1, <2>2, <2>3 DEF TypeOK
<1>6. CASE PolicyDenies
  BY <1>0, <1>a, <1>6 DEF PolicyDenies, TypeOK
<1>7. CASE PolicyAccepts
  <2>1. claim \in PasswordClaim \union KbdintClaim
    BY <1>7 DEF PolicyAccepts, TypeOK
  <2>2. claim.method \in {"password", "keyboard-interactive"}
    BY <2>1 DEF PasswordClaim, KbdintClaim
  <2> QED
    BY <1>0, <1>7, <2>1, <2>2 DEF PolicyAccepts, LogAuth, TypeOK, Claim
<1>8. CASE ChainDenies
  BY <1>0, <1>8 DEF ChainDenies, LogAuth, TypeOK, Claim
<1>9. CASE PolicyRaises \/ ConnectionLost \/ LoginTimeout
  <2>1. Disconnected /\ server = "up"
    BY <1>9 DEF PolicyRaises, ConnectionLost, LoginTimeout, TypeOK
  <2> QED
    BY <1>0, <2>1 DEF Disconnected, TypeOK
<1>10. CASE AttemptAbandoned
  BY <1>0, <1>10 DEF AttemptAbandoned, TypeOK
<1>11. CASE UNCHANGED vars
  BY <1>0, <1>11 DEF vars, TypeOK
<1> QED
  BY <1>1, <1>2, <1>3, <1>4, <1>5, <1>6, <1>7, <1>8, <1>9, <1>10, <1>11 DEF Next, Over

(* Every variable keeps to the values the code gives it; in particular an   *)
(* attempt is in progress exactly while the connection waits for it.        *)
THEOREM TypeCorrect == Spec => []TypeOK
<1> QED
  BY TypeInit, TypeNext, PTL DEF Spec

-----------------------------------------------------------------------------
(* The gate and begin_auth() ask the policies the same question, about      *)
(* different users.                                                         *)
GateInv ==
    /\ server = "up" => allow \/ AuthRequired(Policies, Nameless)
    /\ conn = "in" /\ by = "nothing" /\ Uniform => allow

LEMMA UniformGate ==
    ASSUME Uniform, NEW u \in User, AuthRequired(Policies, Nameless)
    PROVE  AuthRequired(Policies, u)
  BY AuthAssumption DEF Uniform, AuthRequired, AuthAssumption

LEMMA GateNext == TypeOK /\ GateInv /\ [Next]_vars => GateInv'
<1> SUFFICES ASSUME TypeOK, GateInv, [Next]_vars PROVE GateInv'
  OBVIOUS
<1>0. chain' = chain => /\ Policies' = Policies
                        /\ Uniform' <=> Uniform
                        /\ AuthRequired(Policies, Nameless)' <=> AuthRequired(Policies, Nameless)
  BY DEF Policies, Uniform, AuthRequired
<1>1. CASE Construct
  BY <1>0, <1>1 DEF Construct, GateInv, TypeOK
<1>2. ASSUME NEW u \in User, BeginAuth(u) PROVE GateInv'
  BY <1>0, <1>2, UniformGate DEF BeginAuth, GateInv
<1>3. ASSUME NEW k \in Key, NEW signed \in BOOLEAN, ValidatePublicKey(k, signed)
      PROVE  GateInv'
  BY <1>0, <1>3 DEF ValidatePublicKey, GateInv
<1>4. ASSUME NEW s \in Secret, PasswordSent(s) PROVE GateInv'
  BY <1>0, <1>4 DEF PasswordSent, GateInv
<1>5. ASSUME NEW knows \in [Prompt -> Secret], NEW answered \in BOOLEAN,
             KbdintAnswered(knows, answered)
      PROVE  GateInv'
  BY <1>0, <1>5 DEF KbdintAnswered, GateInv
<1>6. CASE PolicyAccepts
  <2>1. claim.method # "nothing"
    BY <1>6 DEF PolicyAccepts, TypeOK, PasswordClaim, KbdintClaim
  <2> QED
    BY <1>0, <1>6, <2>1 DEF PolicyAccepts, GateInv
<1>7. CASE PolicyDenies \/ ChainDenies \/ AttemptAbandoned \/ PolicyRaises
              \/ ConnectionLost \/ LoginTimeout
  BY <1>0, <1>7
     DEF PolicyDenies, AttemptAbandoned, ChainDenies, PolicyRaises, ConnectionLost, LoginTimeout,
         Disconnected, GateInv
<1>8. CASE UNCHANGED vars
  BY <1>0, <1>8 DEF vars, GateInv
<1> QED
  BY <1>1, <1>2, <1>3, <1>4, <1>5, <1>6, <1>7, <1>8 DEF Next, Over

(* With policies that waive authentication for everybody or for nobody, the *)
(* gate of the constructor, which asks about one username, is enough: no    *)
(* client walks in unless allow_anonymous was passed.                       *)
THEOREM AnonymityIsAskedFor == Spec => []OnlyAskedForAnonymity
<1>1. Init => GateInv
  BY DEF Init, GateInv
<1>2. GateInv => OnlyAskedForAnonymity
  BY DEF GateInv, OnlyAskedForAnonymity
<1> QED
  BY <1>1, <1>2, GateNext, TypeCorrect, PTL DEF Spec

-----------------------------------------------------------------------------
(* The loop of ChainAuth: whoever was asked said no, and the prompts shown  *)
(* are those of every policy that has any.                                  *)
AskedInv ==
    conn = "asking" =>
       /\ \A i \in 1 .. next - 1 : ~Accepts(Policies[i], claim, shown)
       /\ claim.method = "keyboard-interactive" =>
             \A i \in DOMAIN Policies :
                 Policies[i].kbdint => Policies[i].challenge = shown

LEMMA AgreeingPolicies ==
    ASSUME \A c \in Chains : Agreeing(c), chain \in Chains
    PROVE  Agreeing(Policies)
<1>1. Agreeing(<< OpenAuth >>)
  BY DEF Agreeing
<1> QED
  BY <1>1 DEF Policies

LEMMA AskedNext ==
    ASSUME \A c \in Chains : Agreeing(c), TypeOK, AskedInv, [Next]_vars
    PROVE  AskedInv'
<1>0. /\ chain' = chain => Policies' = Policies
      /\ Policies \in Seq(Policy) /\ Len(Policies) \in Nat
  BY PoliciesType DEF Policies, TypeOK
<1>1. CASE Construct
  BY <1>0, <1>1 DEF Construct, AskedInv, Accepts, Offers, Responses
<1>2. ASSUME NEW u \in User, BeginAuth(u) PROVE AskedInv'
  BY <1>2 DEF BeginAuth, AskedInv
<1>3. ASSUME NEW k \in Key, NEW signed \in BOOLEAN, ValidatePublicKey(k, signed)
      PROVE  AskedInv'
  BY <1>3 DEF ValidatePublicKey, AskedInv
<1>4. ASSUME NEW s \in Secret, PasswordSent(s) PROVE AskedInv'
  <2>1. next' - 1 = 0 /\ claim'.method = "password"
    BY <1>4 DEF PasswordSent
  <2> QED
    BY <2>1 DEF AskedInv
<1>5. ASSUME NEW knows \in [Prompt -> Secret], NEW answered \in BOOLEAN,
             KbdintAnswered(knows, answered)
      PROVE  AskedInv'
  <2>1. next' - 1 = 0 /\ chain' = chain
    BY <1>5 DEF KbdintAnswered
  <2>2. PICK i \in DOMAIN Policies : FirstKbdint(Policies, i) /\ shown' = Policies[i].challenge
    BY <1>5 DEF KbdintAnswered
  <2>3. \A j \in DOMAIN Policies : Policies[j].kbdint => Policies[j].challenge = shown'
    BY <2>2, AgreeingPolicies DEF Agreeing, FirstKbdint, TypeOK
  <2> QED
    BY <1>0, <2>1, <2>3 DEF AskedInv
<1>6. CASE PolicyDenies
  <2>1. /\ UNCHANGED << chain, claim, shown, conn >> /\ conn = "asking"
        /\ next' = next + 1 /\ next \in Nat
        /\ ~Accepts(Policies[next], claim, shown)
    BY <1>6 DEF PolicyDenies, TypeOK
  <2>2. \A i \in 1 .. next' - 1 : i \in 1 .. next - 1 \/ i = next
    BY <2>1
  <2>3. \A i \in 1 .. next' - 1 : ~Accepts(Policies[i], claim, shown)
    BY <2>1, <2>2 DEF AskedInv
  <2>4. \A i \in 1 .. next' - 1 : ~Accepts(Policies'[i], claim', shown')
    BY <1>0, <2>1, <2>3
  <2>5. claim'.method = "keyboard-interactive" =>
           \A i \in DOMAIN Policies' :
               Policies'[i].kbdint => Policies'[i].challenge = shown'
    BY <1>0, <2>1 DEF AskedInv
  <2> QED
    BY <2>4, <2>5 DEF AskedInv, Accepts, Offers, Responses
<1>7. CASE PolicyAccepts \/ ChainDenies \/ AttemptAbandoned \/ PolicyRaises
              \/ ConnectionLost \/ LoginTimeout
  BY <1>7 DEF PolicyAccepts, AttemptAbandoned, ChainDenies, PolicyRaises, ConnectionLost, LoginTimeout,
              Disconnected, AskedInv
<1>8. CASE UNCHANGED vars
  BY <1>0, <1>8 DEF vars, AskedInv, Accepts, Offers, Responses
<1> QED
  BY <1>1, <1>2, <1>3, <1>4, <1>5, <1>6, <1>7, <1>8 DEF Next, Over

(* An attempt is good exactly if one of the policies accepts it as shown.   *)
LEMMA GoodIsAccepted ==
    ASSUME TypeOK, AskedInv, conn = "asking"
    PROVE  claim \in Good <=>
              \E i \in DOMAIN Policies : Accepts(Policies[i], claim, shown)
<1>1. /\ claim \in Claim /\ claim.method # "public-key"
      /\ claim.method \in {"password", "keyboard-interactive"}
  BY DEF TypeOK, Claim, PasswordClaim, KbdintClaim
<1>2. ASSUME NEW i \in DOMAIN Policies
      PROVE  Accepts(Policies[i], claim, shown)
                <=> Accepts(Policies[i], claim, Policies[i].challenge)
  <2>1. CASE claim.method = "password"
    BY <2>1 DEF Accepts, Offers
  <2>2. CASE claim.method = "keyboard-interactive"
    <3>1. Policies[i].kbdint => Policies[i].challenge = shown
      BY <1>2, <2>2 DEF AskedInv
    <3> QED
      BY <2>2, <3>1 DEF Accepts, Offers
  <2> QED
    BY <1>1, <2>1, <2>2
<1> QED
  BY <1>1, <1>2 DEF Good

LEMMA StepRefines ==
    ASSUME TypeOK, AskedInv, [Next]_vars
    PROVE  [AnyOf!Next]_(AnyOf!vars)
<1>0. /\ Policies \in Seq(Policy) /\ Len(Policies) \in Nat
      /\ DOMAIN Policies = 1 .. Len(Policies)
  BY PoliciesType DEF TypeOK
<1>a. chain' = chain =>
         /\ Good' = Good
         /\ (\E u \in User : ~AuthRequired(Policies, u))'
               = (\E u \in User : ~AuthRequired(Policies, u))
  BY DEF Good, Policies, AuthRequired
<1>b. conn \in {"open", "begun", "asking"} => phaseOf = "out"
  BY DEF phaseOf
<1>1. CASE Construct \/ PolicyDenies \/ AttemptAbandoned \/ UNCHANGED vars
  <2>1. UNCHANGED << chain, reported >>
    BY <1>1 DEF Construct, PolicyDenies, AttemptAbandoned, vars
  <2>2. conn' = conn \/ (conn = "asking" /\ conn' = "begun")
    BY <1>1 DEF Construct, PolicyDenies, AttemptAbandoned, vars
  <2> QED
    BY <1>a, <2>1, <2>2 DEF AnyOf!vars, phaseOf
<1>2. ASSUME NEW u \in User, BeginAuth(u) PROVE [AnyOf!Next]_(AnyOf!vars)
  <2>1. UNCHANGED << chain, reported >> /\ conn \in {"open", "begun"}
    BY <1>2 DEF BeginAuth
  <2>2. CASE AuthRequired(Policies, u)
    <3>1. phaseOf' = "out"
      BY <1>2, <2>2 DEF BeginAuth, phaseOf
    <3> QED
      BY <1>a, <1>b, <2>1, <3>1 DEF AnyOf!vars
  <2>3. CASE ~AuthRequired(Policies, u)
    <3>1. phaseOf' = "in"
      BY <1>2, <2>3 DEF BeginAuth, phaseOf
    <3> QED
      BY <1>a, <1>b, <2>1, <2>3, <3>1 DEF AnyOf!Next, AnyOf!WalkIn
  <2> QED
    BY <2>2, <2>3
<1>3. ASSUME NEW k \in Key, NEW signed \in BOOLEAN, ValidatePublicKey(k, signed)
      PROVE  [AnyOf!Next]_(AnyOf!vars)
  <2> DEFINE c == [method |-> "public-key", user |-> user, key |-> k, signed |-> signed]
  <2>1. c \in Claim /\ user \in User
    BY DEF TypeOK, Claim, KeyClaim
  <2>2. c \in Good <=> KeyListed(user, k)
    <3>1. c \in Good <=> \E i \in DOMAIN Policies :
                            Policies[i].keys /\ k \in Policies[i].authorized[user]
      BY <2>1 DEF Good
    <3> HIDE DEF c
    <3> QED
      BY <3>1 DEF KeyListed, AuthorizedKeysFor
  <2>3. /\ chain' = chain /\ conn = "begun"
        /\ reported' = [claim |-> c, ok |-> KeyListed(user, k)]
        /\ IF KeyListed(user, k) /\ signed THEN conn' = "in" ELSE conn' = "begun"
    BY <1>3 DEF ValidatePublicKey, LogAuth
  <2>4. reported' = [claim |-> c, ok |-> c \in Good]
    <3>1. KeyListed(user, k) \in BOOLEAN /\ (c \in Good) \in BOOLEAN
      BY DEF KeyListed
    <3>2. KeyListed(user, k) = (c \in Good)
      BY <2>2, <3>1
    <3> QED
      BY <2>3, <3>2
  <2> HIDE DEF c
  <2>5. phaseOf = "out" /\ phaseOf' = IF KeyListed(user, k) /\ signed THEN "in" ELSE "out"
    BY <2>3 DEF phaseOf
  <2>6. AnyOf!Decide(c) \/ AnyOf!Probe(c)
    BY <2>2, <2>4, <2>5 DEF AnyOf!Decide, AnyOf!Probe, AnyOf!Judged
  <2> QED
    BY <1>a, <2>1, <2>3, <2>6 DEF AnyOf!Next
<1>4. CASE (\E s \in Secret : PasswordSent(s))
           \/ (\E knows \in [Prompt -> Secret], answered \in BOOLEAN :
                  KbdintAnswered(knows, answered))
  <2>1. UNCHANGED << chain, reported >> /\ conn = "begun" /\ conn' = "asking"
    BY <1>4 DEF PasswordSent, KbdintAnswered
  <2> QED
    BY <1>a, <2>1 DEF AnyOf!vars, phaseOf
<1>5. CASE PolicyAccepts
  <2>1. /\ conn = "asking" /\ chain' = chain /\ conn' = "in"
        /\ next \in DOMAIN Policies /\ Accepts(Policies[next], claim, shown)
        /\ reported' = [claim |-> claim, ok |-> TRUE]
    BY <1>0, <1>5 DEF PolicyAccepts, LogAuth, TypeOK
  <2>2. claim \in Good /\ claim \in Claim
    BY <2>1, GoodIsAccepted DEF Good
  <2>3. (claim \in Good) = TRUE
    BY <2>2
  <2>4. phaseOf = "out" /\ phaseOf' = "in"
    BY <2>1 DEF phaseOf
  <2>5. AnyOf!Decide(claim)
    BY <2>1, <2>2, <2>3, <2>4 DEF AnyOf!Decide, AnyOf!Judged
  <2> QED
    BY <1>a, <2>1, <2>2, <2>5 DEF AnyOf!Next
<1>6. CASE ChainDenies
  <2>1. /\ conn = "asking" /\ chain' = chain /\ conn' = "begun"
        /\ next = Len(Policies) + 1
        /\ reported' = [claim |-> claim, ok |-> FALSE]
    BY <1>6 DEF ChainDenies, LogAuth
  <2>2. \A i \in DOMAIN Policies : ~Accepts(Policies[i], claim, shown)
    BY <1>0, <2>1 DEF AskedInv
  <2>3. claim \notin Good /\ claim \in Claim
    BY <2>1, <2>2, GoodIsAccepted DEF TypeOK, Claim
  <2>4. (claim \in Good) = FALSE
    BY <2>3
  <2>5. phaseOf = "out" /\ phaseOf' = "out"
    BY <2>1 DEF phaseOf
  <2>6. AnyOf!Decide(claim)
    BY <2>1, <2>3, <2>4, <2>5 DEF AnyOf!Decide, AnyOf!Judged
  <2> QED
    BY <1>a, <2>1, <2>3, <2>6 DEF AnyOf!Next
<1>7. CASE PolicyRaises \/ ConnectionLost \/ LoginTimeout
  <2>1. UNCHANGED << chain, reported >> /\ conn # "lost" /\ conn' = "lost"
    BY <1>7 DEF PolicyRaises, ConnectionLost, LoginTimeout, Disconnected
  <2>2. phaseOf # "gone" /\ phaseOf' = "gone"
    BY <2>1 DEF phaseOf
  <2> QED
    BY <1>a, <2>1, <2>2 DEF AnyOf!Next, AnyOf!Leave
<1> QED
  BY <1>1, <1>2, <1>3, <1>4, <1>5, <1>6, <1>7 DEF Next, Over

(* A client is accepted if and only if some policy of the chain that offers *)
(* the method accepts it, and reported so, for every chain whose policies   *)
(* ask the same questions: the order of the policies and the awaits between *)
(* them show nowhere.                                                       *)
THEOREM ChainIsAny == (\A c \in Chains : Agreeing(c)) => (Spec => AnyAccepts)
<1> SUFFICES ASSUME \A c \in Chains : Agreeing(c) PROVE Spec => AnyAccepts
  OBVIOUS
<1>1. Init => AskedInv
  BY DEF Init, AskedInv
<1>2. TypeOK /\ AskedInv /\ [Next]_vars => AskedInv'
  BY AskedNext
<1>3. Spec => []AskedInv
  BY <1>1, <1>2, TypeCorrect, PTL DEF Spec
<1>4. Init => AnyOf!Init
  BY DEF Init, AnyOf!Init, phaseOf
<1>5. TypeOK /\ AskedInv /\ [Next]_vars => [AnyOf!Next]_(AnyOf!vars)
  BY StepRefines
<1> QED
  BY <1>3, <1>4, <1>5, TypeCorrect, PTL DEF Spec, AnyAccepts, AnyOf!Spec

-----------------------------------------------------------------------------
(* What auth.py comes with: all of it waives authentication for everybody   *)
(* or nobody, and asks for the password alone.                              *)
PerUserKeys == UNION {[D -> SUBSET Key] : D \in SUBSET User}

KeyFiles  == {AuthorizedKeys(K) : K \in SUBSET Key}
UserFiles == {AuthorizedKeysOf(files) : files \in PerUserKeys}
Passwords == {PasswordAuth(a[1], a[2]) : a \in (SUBSET (User \X Secret)) \X BOOLEAN}

BuiltIn == {AuthPolicy, OpenAuth} \union KeyFiles \union UserFiles \union Passwords

LEMMA BuiltInIs ==
    ASSUME NEW p \in BuiltIn
    PROVE  p.challenge = << PasswordPrompt >> /\ p.waives \in {{}, User}
<1>1. AuthPolicy.challenge = << PasswordPrompt >> /\ AuthPolicy.waives = {}
  BY DEF AuthPolicy
<1>2. OpenAuth.challenge = << PasswordPrompt >> /\ OpenAuth.waives = User
  BY DEF OpenAuth, AuthPolicy
<1>3. ASSUME NEW K \in SUBSET Key
      PROVE  /\ AuthorizedKeys(K).challenge = << PasswordPrompt >>
             /\ AuthorizedKeys(K).waives = {}
  BY DEF AuthorizedKeys, AuthPolicy
<1>4. ASSUME NEW files \in PerUserKeys
      PROVE  /\ AuthorizedKeysOf(files).challenge = << PasswordPrompt >>
             /\ AuthorizedKeysOf(files).waives = {}
  BY DEF AuthorizedKeysOf, AuthPolicy
<1>5. ASSUME NEW accounts \in SUBSET (User \X Secret), NEW interactive \in BOOLEAN
      PROVE  /\ PasswordAuth(accounts, interactive).challenge = << PasswordPrompt >>
             /\ PasswordAuth(accounts, interactive).waives = {}
  BY DEF PasswordAuth, AuthPolicy
<1>6. \/ p = AuthPolicy \/ p = OpenAuth
      \/ p \in KeyFiles \/ p \in UserFiles \/ p \in Passwords
  BY DEF BuiltIn
<1>7. CASE p \in KeyFiles
  BY <1>3, <1>7 DEF KeyFiles
<1>8. CASE p \in UserFiles
  BY <1>4, <1>8 DEF UserFiles
<1>9. CASE p \in Passwords
  <2>1. PICK a \in (SUBSET (User \X Secret)) \X BOOLEAN : p = PasswordAuth(a[1], a[2])
    BY <1>9 DEF Passwords
  <2>2. a[1] \in SUBSET (User \X Secret) /\ a[2] \in BOOLEAN
    OBVIOUS
  <2>3. /\ PasswordAuth(a[1], a[2]).challenge = << PasswordPrompt >>
        /\ PasswordAuth(a[1], a[2]).waives = {}
    BY <1>5, <2>2
  <2> QED
    BY <2>1, <2>3
<1> QED
  BY <1>1, <1>2, <1>6, <1>7, <1>8, <1>9

LEMMA BuiltInPolicies ==
    ASSUME Chains \subseteq Seq(BuiltIn), chain \in Chains
    PROVE  Uniform
<1>1. Policies \in Seq(BuiltIn)
  <2>1. OpenAuth \in BuiltIn
    BY Zenon DEF BuiltIn
  <2>2. << OpenAuth >> \in Seq(BuiltIn)
    BY <2>1
  <2>3. chain \in Seq(BuiltIn)
    OBVIOUS
  <2> QED
    BY <2>2, <2>3 DEF Policies
<1>2. \A i \in DOMAIN Policies : Policies[i] \in BuiltIn
  BY <1>1
<1> QED
  BY <1>2, BuiltInIs DEF Uniform

(* A deployment that uses only what auth.py comes with, in any chains, has  *)
(* both promises without a further condition: whatever some policy accepts  *)
(* is accepted in whatever order, and nobody walks in without a credential  *)
(* unless allow_anonymous was passed.                                       *)
THEOREM BuiltInChainsKeepPromises ==
    Chains \subseteq Seq(BuiltIn) =>
       (Spec => AnyAccepts /\ [](conn = "in" /\ by = "nothing" => allow))
<1> SUFFICES ASSUME Chains \subseteq Seq(BuiltIn)
             PROVE  Spec => AnyAccepts /\ [](conn = "in" /\ by = "nothing" => allow)
  OBVIOUS
<1>1. ASSUME NEW c \in Chains
      PROVE  Agreeing(c)
  <2>1. c \in Seq(BuiltIn)
    OBVIOUS
  <2>2. \A i \in DOMAIN c : c[i] \in BuiltIn
    BY <2>1
  <2> QED
    BY <2>2, BuiltInIs DEF Agreeing
<1>2. Spec => AnyAccepts
  BY <1>1, ChainIsAny
<1>3. TypeOK /\ OnlyAskedForAnonymity => (conn = "in" /\ by = "nothing" => allow)
  BY BuiltInPolicies DEF TypeOK, OnlyAskedForAnonymity
<1> QED
  BY <1>2, <1>3, TypeCorrect, AnonymityIsAskedFor, PTL
=============================================================================
