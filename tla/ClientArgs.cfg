SPECIFICATION Spec
CONSTANTS
    Args <- MCArgs
    LongArgs = {"long"}
    strtol <- MCStrtol
    strtod <- MCStrtod
    None = None
    nan = nan
    IntHalf = 16
    CommandLines <- MCCommandLines
INVARIANTS TypeOK PostIsAsArgs InvalidIffOmitted LegalIsAccepted
CHECK_DEADLOCK FALSE
