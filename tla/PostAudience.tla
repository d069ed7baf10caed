----------------------------- MODULE PostAudience -----------------------------
(***************************************************************************)
(* A post, whom its author wants to see it, and what others make of it: the rows  *)
(* that the check of a single post and the lists of posts go by, the requests that  *)
(* change them, and the rule.  No rule relates two posts, so there is one post.    *)
(***************************************************************************)
EXTENDS FiniteSets

CONSTANTS
    Users,
    Author,         \* the post's owner
    Guest,          \* a request without a token
    Tables          \* likes and bookmarks

ASSUME AudienceAssumption == Author \in Users /\ Guest \notin Users

VARIABLES
    post,           \* what the owner chose: type, audience, mentions, allowStrangerComments
    friends,        \* the pairs of users with a friendship
    blocks,         \* the pairs with a block, either way
    marked,         \* the rows of likes and bookmarks: <<table, user>>
    commented       \* the users with a comment on the post

audienceVars == <<post, friends, blocks, marked, commented>>

-----------------------------------------------------------------------------
Types     == {"post", "repost", "comment", "quote"}
Audiences == {"public", "friends-only", "only-me"}

\* The owner may mention themself as well, which changes nothing.
Posts == [type : Types, audience : Audiences, mentions : SUBSET (Users \ {Author}),
          strangers : BOOLEAN]

Pairs == {pair \in SUBSET Users : Cardinality(pair) = 2}

IsFriendOf(u)         == {u, Author} \in friends
IsBlockedEitherWay(u) == {u, Author} \in blocks

IsUserInteractedWithPost(u) ==
    u \in commented \/ \E t \in Tables : <<t, u>> \in marked

-----------------------------------------------------------------------------
(* What requests change                                                    *)

\* update-post: the owner's settings, of anything but a repost.
SaveSettings ==
    /\ post.type # "repost"
    /\ \E p \in Posts :
          /\ p.type = post.type
          /\ post' = p
    /\ UNCHANGED <<friends, blocks, marked, commented>>

RemoveComment ==
    /\ \E u \in commented : commented' = commented \ {u}
    /\ UNCHANGED <<post, friends, blocks, marked>>

\* Friendships begin without a block and end with one (Relationship).
RelateUsers ==
    /\ \E pair \in Pairs :
          \/ pair \notin blocks /\ friends' = friends \union {pair} /\ UNCHANGED blocks
          \/ friends' = friends \ {pair} /\ UNCHANGED blocks
          \/ friends' = friends \ {pair} /\ blocks' = blocks \union {pair}
          \/ blocks' = blocks \ {pair} /\ UNCHANGED friends
    /\ UNCHANGED <<post, marked, commented>>

AudienceInit ==
    /\ post \in {p \in Posts : p.type = "repost" => p.mentions = {}}
    /\ friends = {} /\ blocks = {}
    /\ marked = {} /\ commented = {}

-----------------------------------------------------------------------------
(* The rule, in one place                                                  *)

\* The audience is the owner, whom the owner mentions, the friends or everybody.
InAudience(u) ==
    \/ u = Author \/ post.audience = "public"
    \/ /\ post.audience = "friends-only" /\ u # Guest
       /\ (u \in post.mentions \/ IsFriendOf(u))

IsBlocked(u) == u # Guest /\ IsBlockedEitherWay(u)

\* A block hides the post from all but those who have interacted with it.
CanOpen(u) == InAudience(u) /\ (IsBlocked(u) => IsUserInteractedWithPost(u))

AudienceTypeOK ==
    /\ post \in Posts
    /\ friends \subseteq Pairs /\ blocks \subseteq Pairs
    /\ marked \subseteq Tables \X Users
    /\ commented \subseteq Users
=============================================================================
