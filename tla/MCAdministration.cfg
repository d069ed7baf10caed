\* Two users, two user names, two titles and two requests at a time, for ever.  Three roles,
\* three permissions, a catalogue of two routes, one of them for users, and an older route; two
\* requests, loads, warm-ups or synchronisations at a time, three of them by administrators.
CONSTANTS
    n1 = n1
    n2 = n2
    t1 = t1
    t2 = t2
    p1 = p1
    p2 = p2
    p3 = p3
    get = get
    put = put
    old = old
    c1 = c1
    c2 = c2
    Self = self
    Others = {other}
    UserNames = {n1, n2}
    Titles = {t1, t2}
    Nobody = Nobody
    Clients = {c1, c2}
    Admin = ADMIN
    User = USER
    CustomRoles = {CUSTOM}
    Permissions = {p1, p2, p3}
    Routes = {get, put, old}
    Catalogue = {get, put}
    UserRoutes = {get}
    NoRoute = NoRoute
    NoRole = NoRole
    Callers = {c1, c2}
    MaxCalls = 3
SPECIFICATION AdministrationSpec
SYMMETRY Symmetry
INVARIANT AdministrationTypeOK
INVARIANT NamesFindTheirUsers
INVARIANT RolesAreObeyed
PROPERTY TitleIsKept
PROPERTY ActiveIsKept
\* The requests of administrators are over.
CHECK_DEADLOCK FALSE
