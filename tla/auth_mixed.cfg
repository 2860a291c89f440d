SPECIFICATION Spec
CONSTANTS
    ada = ada
    bob = bob
    k1 = k1
    k2 = k2
    good = good
    bad = bad
    passwordPrompt = passwordPrompt
    codePrompt = codePrompt
    Nameless = Nameless
    NoClaim = NoClaim
    User = {Nameless, ada, bob}
    Key = {k1, k2}
    Secret = {good, bad}
    Prompt = {passwordPrompt, codePrompt}
    PasswordPrompt = passwordPrompt
    Chains <- MCMixedChains
PROPERTY AnyAccepts
