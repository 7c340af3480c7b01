SPECIFICATION Spec
CONSTANTS
    o1 = o1  o2 = o2  old = old
    Openers = {o1, o2, old}
    Legacy = {old}
    Pids = {p1, p2, p3}
    NoOne = NoOne
    NoPid = NoPid
INVARIANTS MutualExclusion GuardNotLeaked
PROPERTIES OlderVersionExcluded
