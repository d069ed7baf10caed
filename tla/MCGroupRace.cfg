\* Every interleaving of two requests over all memberships of three users.
CONSTANTS
    u1 = u1
    u2 = u2
    u3 = u3
    q1 = q1
    q2 = q2
    Users = {u1, u2, u3}
    Requests = {q1, q2}
    NoUser = NoUser

SYMMETRY Symmetry
SPECIFICATION Spec

PROPERTY OneAdminUnlessOvertaken
PROPERTY UndisturbedObeysRanks
