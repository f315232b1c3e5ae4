SPECIFICATION Spec
CONSTANTS
    m1 = m1
    m2 = m2
    m3 = m3
    m4 = m4
    m5 = m5
    m6 = m6
    chatA = chatA
    chatB = chatB
    NoMsg = NoMsg
    Msg <- Many
    ReplyTo <- Fork
    Chat <- TwoChats
    Id <- UniqueId
    Observer = {o1, o2}
    L0Capacity = 1
    L1Capacity = 1
    L2Opens = {TRUE, FALSE}
    OneAtATime = FALSE
    Faults = TRUE
CHECK_DEADLOCK FALSE
SYMMETRY ObserverSymmetry
INVARIANTS WithinCapacity IndexLive CopiesAgree ChainsApart
PROPERTY HeldBinding
