\* Two use cases at a time between three users, with days that begin at any moment.
CONSTANTS
    u1 = u1
    u2 = u2
    u3 = u3
    Users = {u1, u2, u3}
    Meetings <- MCMeetings
    Requests = {q1, q2}
    Watched = u1
    DailyLimit = 1
SYMMETRY Symmetry
SPECIFICATION Spec
INVARIANT ApartUnlessCrossed
INVARIANT LimitPlusConcurrent
