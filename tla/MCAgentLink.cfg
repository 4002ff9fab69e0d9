CONSTANTS
    Pcbs = {c1, c2}
    RxSize = 3
    PromptSize = 3
    SndBuf = 2
    Answers <- ShortAnswers
    MockAnswer <- TwoTags
    MaxRequests = 2
SPECIFICATION Spec
CHECK_DEADLOCK FALSE
INVARIANTS
    WholeAnswer
    RequestIsAsked
PROPERTY ChainEnds
