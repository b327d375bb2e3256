\* A deque of two elements to a node, in a map with room for three nodes: it
\* wraps from node to node at both ends.
CONSTANTS
    ElementSize = 256
    Values = {a, b}
    Garbage = Garbage
    Nodes = 3
    Addresses = {p, q, r}
    Keys = {k, l, m}
    TreeNodes = {s, t, u, v}
    Handles = {g, h, i, j}
    Sentinel = Sentinel
    Header = Header
    Null = Null
    Nowhere = Nowhere
    Unused = Unused
SPECIFICATION AnySpec
INVARIANTS AnyTypeOK MethodsAgree AnnouncedIsThere NestedShown FormsAgree
PROPERTIES Lists ListingEnds
