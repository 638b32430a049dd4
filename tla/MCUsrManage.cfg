\* All calls, by two threads, with one death of the process.
SPECIFICATION UsrSpec
CONSTANTS
    root = root
    ann = ann
    bob = bob
    pwA = pwA
    pwB = pwB
    thr1 = thr1
    thr2 = thr2
    Names = {root, ann, bob}
    DefaultUsrs = {root}
    Passwords = {pwA, pwB}
    FirstPassword = pwA
    Customs = {"none", "given"}
    NoCustom = "none"
    Levels = {3, 4}
    Workers = {thr1, thr2}
    MaxCalls = 3
    MaxCrashes = 1
SYMMETRY Alike
CHECK_DEADLOCK FALSE
INVARIANTS
    ListMatchesTable
    
    IdsUnique
