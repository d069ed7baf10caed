\* An author and a viewer of one post, with a request of either at a time; three posts in
\* trees, with two requests at a time; four rows of two dates, in pages of two.
CONSTANTS
    Users = {author, viewer}
    Author = author
    Guest = Guest
    Tables = {likes, bookmarks}
    Engagers = {e1}
    ThisPost = ThisPost
    ListReaders = {r1}
    FriendsGraph = 2
    BlockedUserIds = 1
    BlockedInteractionPostIds = 1
    Members = {m1}
    PostIds = {p1, p2, p3}
    NoPost = NoPost
    Writers = {w1, w2}
    Rows = {1, 2, 3, 4}
    PageLimit = 2
    MaxDate = 2
SPECIFICATION PostsSpec
SYMMETRY PostSymmetry
INVARIANT TypeOK
INVARIANT PassedIsAllowed
INVARIANT ListsMatchDetail
INVARIANT DeletedWithTheTree
INVARIANT EachOnceInPages
\* All rows have been read, or made.
CHECK_DEADLOCK FALSE
