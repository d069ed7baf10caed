------------------------------ MODULE PostLists -------------------------------
(***************************************************************************)
(* The lists a user finds the post of PostAudience in.  The rule is written again   *)
(* in the conditions of five queries, each for PostgreSQL and for MongoDB, and the    *)
(* queries are given three lists of ids that come through Redis: the user's friends,  *)
(* those with a block either way, and the posts of these that the user has           *)
(* interacted with.  Blocks, marks and comments delete no key: an outdated list is   *)
(* read until it expires.  Opening the post reads the tables.                      *)
(***************************************************************************)
EXTENDS PostAudience, Integers

CONSTANTS
    ThisPost,                       \* the id of the post
    ListReaders,                    \* loads of lists under way at a time
    \* The longest life of each list in ticks of the clock, the random part included.
    FriendsGraph, BlockedUserIds, BlockedInteractionPostIds

ASSUME ListsAssumption ==
    {FriendsGraph, BlockedUserIds, BlockedInteractionPostIds} \subseteq Nat \ {0}

VARIABLES
    database,       \* DATABASE_TYPE
    listEntry,      \* [ListKeys -> the list in Redis and the ticks it has left]
    listReader,     \* [ListReaders -> the key it loads and what it has loaded]
    calm            \* history: [ListKeys -> ticks since the list changed, or an old one was stored]

listsVars == <<audienceVars, database, listEntry, listReader, calm>>

Databases == {"postgres", "mongo"}

-----------------------------------------------------------------------------
(* The queries of post-query.impl.repository, for the post: PostgreSQL           *)

FeedTypes == {"post", "repost"}

PostgresFindPostIdsWhereUserInteractedWithAuthors(u, authors) ==
    /\ Author \in authors
    /\ (\E t \in Tables : <<t, u>> \in marked) \/ u \in commented

\* authorUserIds is not empty, or all authors'.
PostgresFindPosts(u, friendIds, blocked, extra, authorUserIds) ==
    /\ \/ post.audience = "public" /\ Author \notin blocked \ {u}
       \/ Author = u
       \/ post.audience = "friends-only" /\ Author \in friendIds \ {u} /\ Author \notin blocked \ {u}
       \/ extra
    /\ post.type \in FeedTypes
    /\ Author \in authorUserIds

PostgresFindGuestPosts == post.audience = "public" /\ post.type \in FeedTypes

\* currentUserId is left out of a guest's query, and with it the branch of the mentions.
PostgresFindPostsByUserId(u, canViewFriendsOnly, includeOnlyMe) ==
    \/ post.audience = "public"
    \/ post.audience = "friends-only" /\ canViewFriendsOnly
    \/ post.audience = "friends-only" /\ ~canViewFriendsOnly /\ u # Guest /\ u \in post.mentions
    \/ post.audience = "only-me" /\ includeOnlyMe

PostgresFindPostsByUserInteraction(u, t, friendIds, blocked, extra) ==
    /\ <<t, u>> \in marked
    /\ \/ post.audience = "public" /\ Author \notin blocked \ {u}
       \/ Author = u
       \/ post.audience = "friends-only" /\ Author \in friendIds \ {u} /\ Author \notin blocked \ {u}
       \/ post.audience = "friends-only" /\ u \in post.mentions
       \/ extra

\* What is searched for, the words and the media, is left out.
PostgresFindPostsForSearch(u, people, friendIds, blocked, extra) ==
    IF u = Guest THEN post.audience = "public"
    ELSE /\ \/ post.audience = "public" /\ Author \notin blocked \ {u}
            \/ Author = u
            \/ post.audience = "friends-only" /\ Author \in friendIds \ {u}
               /\ Author \notin blocked \ {u}
            \/ extra
         /\ people = "friends" => Author \in friendIds \ {u}
         /\ people = "not-friends" => Author \notin friendIds \ {u}
         /\ people = "only-me" => Author = u

-----------------------------------------------------------------------------
(* The same queries: MongoDB                                               *)

MongoFindPostIdsWhereUserInteractedWithAuthors(u, authors) ==
    \/ \E t \in Tables : <<t, u>> \in marked /\ Author \in authors
    \/ u \in commented /\ Author \in authors

\* Mutant of MongoFindPosts: the posts of friends are not filtered by blocks and audience.
MongoFindFriendsPosts(u, friendIds, blocked, extra, authorUserIds) ==
    /\ post.type \in FeedTypes
    /\ \/ post.audience = "public" /\ Author \notin blocked \ {u}
       \/ Author = u
       \/ Author \in friendIds \ {u}
       \/ extra
    /\ Author \in authorUserIds

\* buildFeedMatch
MongoFindPosts(u, friendIds, blocked, extra, authorUserIds) ==
    /\ post.type \in FeedTypes
    /\ \/ post.audience = "public" /\ Author \notin blocked \ {u}
       \/ Author = u
       \/ post.audience = "friends-only" /\ Author \in (friendIds \ {u}) \ (blocked \ {u})
       \/ extra
    /\ Author \in authorUserIds

MongoFindGuestPosts == post.type \in FeedTypes /\ post.audience = "public"

MongoFindPostsByUserId(u, canViewFriendsOnly, includeOnlyMe) ==
    CASE post.audience = "public"       -> TRUE
      [] post.audience = "friends-only" -> canViewFriendsOnly \/ (u # Guest /\ u \in post.mentions)
      [] post.audience = "only-me"      -> includeOnlyMe

MongoFindPostsByUserInteraction(u, t, friendIds, blocked, extra) ==
    /\ <<t, u>> \in marked
    /\ \/ post.audience = "public" /\ Author \notin blocked \ {u}
       \/ Author = u
       \/ post.audience = "friends-only" /\ Author \in (friendIds \ {u}) \ (blocked \ {u})
       \/ post.audience = "friends-only" /\ u \in post.mentions
       \/ extra

\* friendIds is not filtered for people, as PostgreSQL's is: nobody is their own friend.
MongoFindPostsForSearch(u, people, friendIds, blocked, extra) ==
    IF u = Guest THEN post.audience = "public"
    ELSE /\ \/ post.audience = "public" /\ Author \notin blocked \ {u}
            \/ Author = u
            \/ post.audience = "friends-only" /\ Author \in (friendIds \ {u}) \ (blocked \ {u})
            \/ extra
         /\ CASE people = "friends"     -> Author \in friendIds
              [] people = "not-friends" -> Author \notin friendIds
              [] people = "only-me"     -> Author = u
              [] OTHER                  -> TRUE

-----------------------------------------------------------------------------
(* The cached lists                                                        *)

FriendsKey(u)        == [kind |-> "friends", user |-> u, authors |-> {}]
BlocksKey(u)         == [kind |-> "blocks", user |-> u, authors |-> {}]
PostsKey(u, authors) == [kind |-> "posts", user |-> u, authors |-> authors]

ListKeys == {FriendsKey(u) : u \in Users} \union {BlocksKey(u) : u \in Users}
            \union {k \in [kind : {"posts"}, user : Users, authors : SUBSET Users] :
                       k.authors # {} /\ k.user \notin k.authors}

Lists == SUBSET (Users \union {ThisPost})

Ttl(k) == CASE k.kind = "friends" -> FriendsGraph
            [] k.kind = "blocks"  -> BlockedUserIds
            [] k.kind = "posts"   -> BlockedInteractionPostIds

FriendIds(u)  == {v \in Users : {u, v} \in friends}
BlockedIds(u) == {v \in Users : {u, v} \in blocks}

FoundPostIds(u, authors) ==
    {p \in {ThisPost} :
        IF database = "postgres" THEN PostgresFindPostIdsWhereUserInteractedWithAuthors(u, authors)
        ELSE MongoFindPostIdsWhereUserInteractedWithAuthors(u, authors)}

\* What a loader reads from the tables.
Loaded(k) == CASE k.kind = "friends" -> FriendIds(k.user)
               [] k.kind = "blocks"  -> BlockedIds(k.user)
               [] k.kind = "posts"   -> FoundPostIds(k.user, k.authors)

Held(k) == listEntry[k].left > 0

NoList == [ids |-> {}, left |-> 0]
NoLoad == [key |-> Guest, ids |-> {}]

BeginsLoad(r, k) ==
    /\ listReader[r] = NoLoad
    /\ listReader' = [listReader EXCEPT ![r] = [key |-> k, ids |-> Loaded(k)]]
    /\ UNCHANGED <<audienceVars, database, listEntry, calm>>

\* The loader of a read that has missed.  The read's lock may expire under it (CacheManager), so
\* loads of a key may overlap.
LoadList(r) == \E k \in ListKeys : ~Held(k) /\ BeginsLoad(r, k)

\* The warm-up of friends looks at no entry and takes no lock.
WarmFriendGraph(r) == \E u \in Users : BeginsLoad(r, FriendsKey(u))

StoreList(r) ==
    LET k == listReader[r].key
    IN  /\ k \in ListKeys
        /\ listEntry' = [listEntry EXCEPT ![k] = [ids |-> listReader[r].ids, left |-> Ttl(k)]]
        /\ listReader' = [listReader EXCEPT ![r] = NoLoad]
        /\ calm' = IF listReader[r].ids = Loaded(k) THEN calm ELSE [calm EXCEPT ![k] = 0]
        /\ UNCHANGED <<audienceVars, database>>

\* The loader or the store throws, or the process dies.
LoadFails(r) ==
    /\ listReader[r] # NoLoad
    /\ listReader' = [listReader EXCEPT ![r] = NoLoad]
    /\ UNCHANGED <<audienceVars, database, listEntry, calm>>

\* Redis evicts the key or was told a shorter time, or the relationship module deletes the
\* friends of a user.
ListGoes(k) ==
    /\ Held(k)
    /\ listEntry' = [listEntry EXCEPT ![k] = NoList]
    /\ UNCHANGED <<audienceVars, database, listReader, calm>>

\* The clock, which calm counts up to the life of a list.
ListsTick ==
    /\ listEntry' = [k \in ListKeys |-> IF listEntry[k].left > 1
                                        THEN [listEntry[k] EXCEPT !.left = @ - 1] ELSE NoList]
    /\ calm' = [k \in ListKeys |-> IF calm[k] < Ttl(k) THEN calm[k] + 1 ELSE Ttl(k)]
    /\ UNCHANGED <<audienceVars, database, listReader>>

\* A like, a bookmark or a comment, whenever the request that makes it looked (PostAccess).
Interact ==
    /\ \E u \in Users :
          \/ /\ \E t \in Tables : marked' \in {marked \union {<<t, u>>}, marked \ {<<t, u>>}}
             /\ UNCHANGED commented
          \/ commented' = commented \union {u} /\ UNCHANGED marked
    /\ UNCHANGED <<post, friends, blocks>>

ChangeTables ==
    /\ SaveSettings \/ RelateUsers \/ RemoveComment \/ Interact
    /\ UNCHANGED <<database, listEntry, listReader>>
    /\ calm' = [k \in ListKeys |-> IF Loaded(k)' = Loaded(k) THEN calm[k] ELSE 0]

-----------------------------------------------------------------------------
(* The use cases that list posts                                            *)

Filters == {"for-you", "following"}
People  == {"everybody", "friends", "not-friends", "only-me"}

\* What read returns to a request during which nothing changes: the entry, or what it loads.
ReadList(k) == IF Held(k) THEN listEntry[k].ids ELSE Loaded(k)

FindFriendUserIds(u) == ReadList(FriendsKey(u))

GetBlockedIds(u) == ReadList(BlocksKey(u))

\* getBlockedPostIds, asked for the post: what the blocked authors posted and the user has
\* interacted with.
GetBlockedPostIds(u) ==
    LET authors == GetBlockedIds(u) \ {u}
    IN  authors # {} /\ ThisPost \in ReadList(PostsKey(u, authors))

GetNewFeeds(u, filter) ==
    LET friendIds == FindFriendUserIds(u)
        blocked   == GetBlockedIds(u)
        extra     == GetBlockedPostIds(u)
        authors   == IF filter = "following" THEN friendIds \union {u} ELSE Users
    IN  IF database = "postgres" THEN PostgresFindPosts(u, friendIds, blocked, extra, authors)
        ELSE MongoFindPosts(u, friendIds, blocked, extra, authors)

GetGuestNewFeeds == IF database = "postgres" THEN PostgresFindGuestPosts ELSE MongoFindGuestPosts

\* The posts of the author, by the tables: the profile of a blocked user is not shown.
GetPostsByUser(u) ==
    LET isOwner  == u = Author
        isFriend == ~isOwner /\ u # Guest /\ IsFriendOf(u)
    IN  /\ u # Guest /\ ~isOwner => ~IsBlockedEitherWay(u)
        /\ IF database = "postgres" THEN PostgresFindPostsByUserId(u, isOwner \/ isFriend, isOwner)
           ELSE MongoFindPostsByUserId(u, isOwner \/ isFriend, isOwner)

GetPostsByUserInteraction(u, t) ==
    LET friendIds == FindFriendUserIds(u)
        blocked   == GetBlockedIds(u)
        extra     == GetBlockedPostIds(u)
    IN  IF database = "postgres"
        THEN PostgresFindPostsByUserInteraction(u, t, friendIds, blocked, extra)
        ELSE MongoFindPostsByUserInteraction(u, t, friendIds, blocked, extra)

SearchPosts(u, people) ==
    LET friendIds == IF u = Guest THEN {} ELSE FindFriendUserIds(u)
        blocked   == IF u = Guest THEN {} ELSE GetBlockedIds(u)
        extra     == u # Guest /\ GetBlockedPostIds(u)
    IN  IF database = "postgres" THEN PostgresFindPostsForSearch(u, people, friendIds, blocked, extra)
        ELSE MongoFindPostsForSearch(u, people, friendIds, blocked, extra)

-----------------------------------------------------------------------------
ListsInit ==
    /\ AudienceInit
    /\ database \in Databases
    /\ listEntry = [k \in ListKeys |-> NoList]
    /\ listReader = [r \in ListReaders |-> NoLoad]
    /\ calm = [k \in ListKeys |-> Ttl(k)]

ListsNext ==
    \/ \E r \in ListReaders : LoadList(r) \/ WarmFriendGraph(r) \/ StoreList(r) \/ LoadFails(r)
    \/ \E k \in ListKeys : ListGoes(k)
    \/ ListsTick
    \/ ChangeTables

ListsSpec == ListsInit /\ [][ListsNext]_listsVars

-----------------------------------------------------------------------------
(* Properties                                                              *)

ListsTypeOK ==
    /\ AudienceTypeOK
    /\ database \in Databases
    /\ listEntry \in [ListKeys -> [ids : Lists, left : Nat]]
    /\ listReader \in [ListReaders -> [key : ListKeys \union {Guest}, ids : Lists]]
    /\ calm \in [ListKeys -> Nat]

\* What the lists of u should say has not changed for as long as one of them lives, nor has an
\* old one been stored.
Settled(u) == \A k \in ListKeys : k.user = u => calm[k] = Ttl(k)

\* With either database, the lists show a user what opening the post would: nothing else, but
\* that a block keeps what the user has interacted with whatever its audience; and all of it,
\* but that the feed and the search leave out what the user is merely mentioned in.  Of a user
\* with friends or blocks this is so once their lists are settled: until then the feed, the
\* search and the marked posts may go by an old list.  A guest's lists and a profile's never do.
ListsMatchDetail ==
    /\ GetGuestNewFeeds <=> (CanOpen(Guest) /\ post.type \in FeedTypes)
    /\ \A u \in Users \union {Guest} : GetPostsByUser(u) <=> (CanOpen(u) /\ ~IsBlocked(u))
    /\ \A people \in People : SearchPosts(Guest, people) <=> CanOpen(Guest)
    /\ \A u \in Users : Settled(u) =>
        LET kept == IsBlocked(u) /\ IsUserInteractedWithPost(u)
            mentionedOnly == /\ post.audience = "friends-only" /\ u \in post.mentions
                             /\ u # Author /\ ~IsFriendOf(u)
            found == kept \/ (CanOpen(u) /\ ~mentionedOnly)
        IN  /\ GetNewFeeds(u, "for-you") <=> (found /\ post.type \in FeedTypes)
            /\ GetNewFeeds(u, "following") <=>
                  (found /\ post.type \in FeedTypes /\ (IsFriendOf(u) \/ u = Author))
            /\ SearchPosts(u, "everybody") <=> found
            /\ SearchPosts(u, "friends") <=> (found /\ IsFriendOf(u))
            /\ SearchPosts(u, "not-friends") <=> (found /\ ~IsFriendOf(u))
            /\ SearchPosts(u, "only-me") <=> u = Author
            /\ \A t \in Tables : GetPostsByUserInteraction(u, t) <=>
                  (<<t, u>> \in marked /\ (kept \/ CanOpen(u)))
=============================================================================
