-------------------------------- MODULE MCPosts --------------------------------
(* Who sees a post, the lists it is found in, the deletion of posts, and the pages of   *)
(* their lists.  A behaviour follows one of the four modules, chosen at the start: PostAccess  *)
(* and PostLists are about one post, the others share no state with them.             *)
EXTENDS PostAccess, PostLists, PostTree, PostPages, TLC

VARIABLE subject

ownListsVars == <<database, listEntry, listReader, calm>>

vars == <<subject, accessVars, ownListsVars, treeVars, pagesVars>>

Viewers == Users \ {Author}

Init ==
    /\ subject \in {"access", "friends", "blocks", "tree", "pages"}
    /\ AccessInit /\ ListsInit /\ TreeInit /\ PagesInit
    \* To every rule a quote is what a comment is.
    /\ post.type # "quote"
    \* The post and the database are chosen where they are looked at.
    /\ subject = "friends" => post.type = "post"
    /\ subject \in {"friends", "blocks"} => post.type # "repost" /\ post.strangers
    /\ subject \in {"tree", "pages"} =>
          post = [type |-> "post", audience |-> "public", mentions |-> {}, strangers |-> TRUE]
    /\ subject \notin {"friends", "blocks"} => database = "postgres"

AccessStep ==
    /\ subject = "access"
    /\ AccessNext
    /\ UNCHANGED <<subject, ownListsVars, treeVars, pagesVars>>

\* Bounds: the lists of viewers alone are cached, of friends in one behaviour and of blocks with
\* the posts in another, where nobody makes friends; what a viewer marks is one row, and
\* comments are on the posts of the latter.
ListsStep ==
    /\ subject \in {"friends", "blocks"}
    /\ ListsNext
    /\ \A r \in ListReaders : listReader'[r] # NoLoad =>
          /\ listReader'[r].key.user \in Viewers
          /\ listReader'[r].key.kind = "friends" <=> subject = "friends"
    /\ subject = "blocks" => friends' = {}
    /\ marked' \subseteq Tables \X Viewers /\ Cardinality(marked') <= 1
    /\ commented' \subseteq (IF subject = "friends" THEN {} ELSE Viewers)
    /\ post'.strangers
    /\ UNCHANGED <<subject, engager, treeVars, pagesVars>>

TreeStep ==
    /\ subject = "tree"
    /\ TreeNext
    /\ UNCHANGED <<subject, accessVars, ownListsVars, pagesVars>>

PagesStep ==
    /\ subject = "pages"
    /\ PagesNext
    /\ UNCHANGED <<subject, accessVars, ownListsVars, treeVars>>

Next == AccessStep \/ ListsStep \/ TreeStep \/ PagesStep

PostsSpec == Init /\ [][Next]_vars

\* The posts, their lists, trees and pages keep the shape of the code's rows, entries and requests.
TypeOK == AccessTypeOK /\ ListsTypeOK /\ TreeTypeOK /\ PagesTypeOK

\* Ids and requests are only compared for equality.
PostSymmetry == Permutations(PostIds) \union Permutations(Writers)
=============================================================================
