CONSTANTS
    f1 = f1
    f2 = f2
    t1 = t1
    t2 = t2
    loop = loop
    chan = chan
    wakeup = wakeup
    none = none
    Tasks <- MCTasks
    NoTask = none
    Threads <- MCThreads
    LoopThread = loop
    Channels <- MCChannels
    WakeupChannel = wakeup
    MaxPending = 3
    MaxDepth = 2
SPECIFICATION PromptSpec
INVARIANTS LoopInv NoLostWakeup
PROPERTIES ImplementsTaskQueue Collected BackToPoll TimeoutMakesFair
