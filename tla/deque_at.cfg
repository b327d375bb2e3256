\* at() against the contents, after a pop_front().
CONSTANTS
    ElementSize = 256
    Values = {a, b}
    Garbage = Garbage
    Nodes = 3
SPECIFICATION Spec
INVARIANT AtRefusesBeyondEnd
