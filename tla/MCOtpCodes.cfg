\* Two requests at a time, two codes, and one fault.
CONSTANTS
    q1 = q1
    q2 = q2
    Requests = {q1, q2}
    Types = {"REGISTER", "FORGOT_PASSWORD", "LOGIN"}
    MaxCodes = 2
    MaxFaults = 1
SYMMETRY Symmetry
SPECIFICATION Spec
INVARIANT UsedIsSpent
INVARIANT RegisterCodeOnlyIfOvertaken
PROPERTY FreshRowIsSafe
