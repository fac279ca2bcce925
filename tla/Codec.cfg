SPECIFICATION Spec
CONSTANTS
    tea = tea
    empty = empty
    long = long
    latin1 = latin1
    inf = inf
    Texts = {tea, empty}
    LongTexts = {long}
    NotUtf8 = {latin1}
    Empty = empty
    Reals <- MCReals
    NotFinite = {inf}
    to_float <- MCToFloat
    IntHalf = 4
    Null = Null
    Unknown = {"gossip"}
    Documents <- MCDocuments
    MaxHops = 2
INVARIANTS TypeOK ReadIsMeaning SentIsReadable EndToEnd PartialIsPrefix
CHECK_DEADLOCK FALSE
