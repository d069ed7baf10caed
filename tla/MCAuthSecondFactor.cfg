\* One request at a time; no fault is needed.
CONSTANTS
    q1 = q1
    s1 = s1
    s2 = s2
    Requests = {q1}
    NoRequest = NoRequest
    Secrets = {s1, s2}
    NoSecret = NoSecret
    MaxTokens = 1
    MaxFaults = 0
SPECIFICATION Spec
PROPERTY EnabledIsKept
