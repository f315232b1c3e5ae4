SPECIFICATION Spec
CONSTANTS
    m1 = m1
    m2 = m2
    m3 = m3
    m4 = m4
    m5 = m5
    m6 = m6
    chatA = chatA
    chatB = chatB
    NoMsg = NoMsg
    Msg <- All
    ReplyTo <- ForkAll
    Chat <- AllChats
    Id <- UniqueId
    Observer = {o1}
    L0Capacity = 1
    L1Capacity = 1
    L2Opens = {TRUE}
    OneAtATime = TRUE
    Faults = FALSE
CHECK_DEADLOCK FALSE
INVARIANTS TypeOK Retrievable
PROPERTY ClustersSpec
