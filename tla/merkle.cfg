\* A log of up to seven leaves and a second copy of up to four.
SPECIFICATION Spec
CONSTANTS
    full = full  copy = copy  a = a
    Log = {full, copy}
    Data <- MCData
    MaxSize <- MCMaxSize
INVARIANTS
    HeadsAreReference
    ProofsVerify
    OnlyLeavesVerify
    OnlyPrefixesVerify
CHECK_DEADLOCK FALSE
