SPECIFICATION FairSpec
CONSTANTS
    Hosts = 2
    Header = 2
    Frames <- AllForms
    MaxFrames = 4
INVARIANTS TypeOK SplitsDoNotMatter AnsweredOnce OneConnection
PROPERTIES CallEnds
CHECK_DEADLOCK FALSE
