\* Two executions at a time of the room of u1 and u2, and two messages.
CONSTANTS
    Users = {u1, u2}
    Requests = {q1, q2}
    MaxMessages = 2
    None = None
SYMMETRY Symmetry
SPECIFICATION Spec
INVARIANT SeatedUnlessLeft
INVARIANT CheckedHolds
