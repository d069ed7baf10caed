-------------------------------- MODULE PostTree --------------------------------
(***************************************************************************)
(* Posts, what is attached to them, and the deletion of a whole tree.  A reply  *)
(* (comment, repost, quote) and a mark (like, bookmark) are written by requests  *)
(* that have looked at their post before; deletions are soft and come in between. *)
(* Who may do what is the subject of PostAccess.                               *)
(***************************************************************************)
EXTENDS Naturals, FiniteSets

CONSTANTS
    Members,        \* users
    PostIds,        \* bound: posts that are ever made
    NoPost,         \* parent_id IS NULL
    Writers         \* requests under way at a time

ASSUME TreeAssumption == NoPost \notin PostIds /\ IsFiniteSet(PostIds)

VARIABLES
    parent,     \* parent_id of each post
    stored,     \* the rows of posts
    live,       \* those with deleted_at IS NULL
    marks,      \* the row of likes (or of bookmarks) of each user and post
    writer,     \* [Writers -> the request it executes]
    orphans,    \* history: <<p, a>> when p was written by a request that a's deletion overtook
    lateMarks   \* history: marks that were written after the deletion of their post

treeVars == <<parent, stored, live, marks, writer, orphans, lateMarks>>

-----------------------------------------------------------------------------
\* gone (history) is what has been deleted since the request looked at its post.
Waiting == [op |-> "idle", user |-> NoPost, of |-> NoPost, gone |-> {}]

Leaves(w) == writer' = [writer EXCEPT ![w] = Waiting]

\* Mutant of PostTreeOf: the walk does not pass through posts that are deleted already.
LivePostTreeOf(p) ==
    LET level[n \in 0..Cardinality(PostIds)] ==
            IF n = 0 THEN {p}
            ELSE level[n - 1] \union {c \in live : parent[c] \in level[n - 1]}
    IN  level[Cardinality(PostIds)]

\* The posts that WITH RECURSIVE post_tree, or the frontier of collectActivePostTreeIds, reaches.
PostTreeOf(p) ==
    LET level[n \in 0..Cardinality(PostIds)] ==
            IF n = 0 THEN {p}
            ELSE level[n - 1] \union {c \in stored : parent[c] \in level[n - 1]}
    IN  level[Cardinality(PostIds)]

-----------------------------------------------------------------------------
(* create-post *)

CreatePost(p) ==
    /\ p \notin stored
    /\ stored' = stored \union {p}
    /\ live' = live \union {p}
    /\ UNCHANGED <<parent, marks, writer, orphans, lateMarks>>

\* Mutant of LoadPost: the request goes on when its post is not found.
LoadAnyPost(w) ==
    /\ writer[w] = Waiting
    /\ \E p \in PostIds, u \in Members, op \in {"reply", "mark", "unmark"} :
          writer' = [writer EXCEPT ![w] = [Waiting EXCEPT !.op = op, !.user = u, !.of = p]]
    /\ UNCHANGED <<parent, stored, live, marks, orphans, lateMarks>>

\* findPostById or findPostDetailById; the checks that follow let the request pass, or it leaves.
LoadPost(w) ==
    /\ writer[w] = Waiting
    /\ \E p \in live, u \in Members, op \in {"reply", "mark", "unmark"} :
          writer' = [writer EXCEPT ![w] = [Waiting EXCEPT !.op = op, !.user = u, !.of = p]]
    /\ UNCHANGED <<parent, stored, live, marks, orphans, lateMarks>>

\* The row of the parent is there, deleted or not, and nothing looks at it again.
CreateReply(w, p) ==
    /\ writer[w].op = "reply" /\ p \notin stored
    /\ stored' = stored \union {p}
    /\ live' = live \union {p}
    /\ parent' = [parent EXCEPT ![p] = writer[w].of]
    /\ orphans' = orphans \union
          {<<p, a>> : a \in writer[w].gone \union {b \in stored : <<writer[w].of, b>> \in orphans}}
    /\ Leaves(w)
    /\ UNCHANGED <<marks, lateMarks>>

-----------------------------------------------------------------------------
(* like-post, unlike-post, bookmark-post, unbookmark-post *)

\* The unique index counts deleted rows too: ON CONFLICT DO NOTHING, $setOnInsert.
CreateMark(w) ==
    LET row == <<writer[w].user, writer[w].of>>
    IN  /\ writer[w].op = "mark"
        /\ marks' = [marks EXCEPT ![row] = IF @ = "none" THEN "live" ELSE @]
        /\ lateMarks' = IF marks[row] = "none" /\ writer[w].of \in writer[w].gone
                        THEN lateMarks \union {row} ELSE lateMarks
        /\ Leaves(w)
        /\ UNCHANGED <<parent, stored, live, orphans>>

DeleteMark(w) ==
    LET row == <<writer[w].user, writer[w].of>>
    IN  /\ writer[w].op = "unmark"
        /\ marks' = [marks EXCEPT ![row] = "none"]
        /\ lateMarks' = lateMarks \ {row}
        /\ Leaves(w)
        /\ UNCHANGED <<parent, stored, live, orphans>>

\* A check refuses the request, or it fails.
WriterLeaves(w) ==
    /\ writer[w] # Waiting
    /\ Leaves(w)
    /\ UNCHANGED <<parent, stored, live, marks, orphans, lateMarks>>

-----------------------------------------------------------------------------
(* delete-post, of the owner or of an administrator *)

DeletePostTree(p) ==
    /\ p \in live
    /\ LET tree == PostTreeOf(p)
       IN  /\ live' = live \ tree
           /\ marks' = [row \in DOMAIN marks |->
                          IF row[2] \in tree /\ marks[row] = "live" THEN "deleted" ELSE marks[row]]
           /\ lateMarks' = {row \in lateMarks : row[2] \notin tree}
           /\ writer' = [w \in Writers |->
                           IF writer[w].of \in tree
                           THEN [writer[w] EXCEPT !.gone = @ \union (tree \intersect live)]
                           ELSE writer[w]]
    /\ UNCHANGED <<parent, stored, orphans>>

-----------------------------------------------------------------------------
TreeInit ==
    /\ parent = [p \in PostIds |-> NoPost]
    /\ stored = {} /\ live = {}
    /\ marks = [row \in Members \X PostIds |-> "none"]
    /\ writer = [w \in Writers |-> Waiting]
    /\ orphans = {} /\ lateMarks = {}

TreeNext ==
    \/ \E p \in PostIds : CreatePost(p) \/ DeletePostTree(p)
    \/ \E w \in Writers :
          \/ LoadPost(w) \/ CreateMark(w) \/ DeleteMark(w) \/ WriterLeaves(w)
          \/ \E p \in PostIds : CreateReply(w, p)

TreeSpec == TreeInit /\ [][TreeNext]_treeVars

-----------------------------------------------------------------------------
(* Properties                                                              *)

TreeTypeOK ==
    /\ live \subseteq stored /\ stored \subseteq PostIds
    /\ parent \in [PostIds -> stored \union {NoPost}]
    /\ marks \in [Members \X PostIds -> {"none", "live", "deleted"}]
    /\ writer \in [Writers -> [op : {"idle", "reply", "mark", "unmark"},
                               user : Members \union {NoPost}, of : stored \union {NoPost},
                               gone : SUBSET stored]]
    /\ orphans \subseteq stored \X stored
    /\ lateMarks \subseteq Members \X stored

\* The posts that p hangs from.
Above(p) ==
    LET level[n \in 0..Cardinality(PostIds)] ==
            IF n = 0 THEN {p} ELSE level[n - 1] \union {parent[c] : c \in level[n - 1] \ {NoPost}}
    IN  level[Cardinality(PostIds)] \ {p, NoPost}

\* A deletion takes the whole tree with it, replies to deleted replies included: a post
\* outlives one it hangs from, and a mark its post, only if the request that wrote it had
\* looked before that deletion, or replied to such a post (deletePostTree, createPost).
DeletedWithTheTree ==
    /\ \A p \in live : \A a \in Above(p) \ live : <<p, a>> \in orphans
    /\ \A row \in Members \X PostIds :
          marks[row] = "live" => row[2] \in live \/ row \in lateMarks
=============================================================================
