\* Two requests at a time, three tokens, two secrets, and one fault.
CONSTANTS
    q1 = q1
    q2 = q2
    s1 = s1
    s2 = s2
    Requests = {q1, q2}
    NoRequest = NoRequest
    Secrets = {s1, s2}
    NoSecret = NoSecret
    MaxTokens = 3
    MaxFaults = 1
SYMMETRY Symmetry
SPECIFICATION Spec
INVARIANT OneWinnerPerToken
INVARIANT CookieLives
PROPERTY LogoutIsFinal
