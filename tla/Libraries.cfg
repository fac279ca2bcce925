SPECIFICATION LibrariesSpec
CONSTANTS
    Capacity = 3
    Chars = {1, 2}
    Ids = {s1, s2}
    MaxLines = 3
INVARIANTS StrInv ReadsBack ComparisonsAgree PrintsWhole TakenIsKept
CHECK_DEADLOCK FALSE
