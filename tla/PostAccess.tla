------------------------------ MODULE PostAccess ------------------------------
(***************************************************************************)
(* Who may open a post and engage with it.  The check of a single post and the     *)
(* check of a reply make the rule of PostAudience up of steps, between which other  *)
(* requests change what they read.                                             *)
(***************************************************************************)
EXTENDS PostAudience, Sequences

CONSTANT Engagers   \* requests under way at a time

VARIABLE engager    \* [Engagers -> the request it executes]

accessVars == <<audienceVars, engager>>

-----------------------------------------------------------------------------
(* Engagement: like-post and its siblings, create-post with a parent           *)

\* checks are those still to make; stale (history): what they read has changed since.
Resting == [op |-> "idle", user |-> Guest, table |-> Guest, checks |-> <<>>, stale |-> FALSE]

EngagerStates ==
    [op : {"idle", "mark", "unmark", "comment"}, user : Users \union {Guest},
     table : Tables \union {Guest}, stale : BOOLEAN,
     checks : {<<>>, <<"interacted">>, <<"block">>, <<"friend">>,
               <<"friend", "block">>, <<"block", "friend">>}]

Rests(e) == engager' = [engager EXCEPT ![e] = Resting]

\* What another request changes makes the checks of those under way stale.
Disturbs == engager' = [e \in Engagers |->
                          IF engager[e] = Resting THEN Resting
                          ELSE [engager[e] EXCEPT !.stale = TRUE]]

\* assertUserCanAccessPostDetail, up to its first query: nobody else sees what is only-me,
\* and who is neither friend nor mentioned does not see what is friends-only.
StartMark(e) ==
    /\ engager[e] = Resting
    /\ \E u \in Users, t \in Tables, op \in {"mark", "unmark"} :
          /\ post.audience = "only-me" => u = Author
          /\ engager' = [engager EXCEPT ![e] =
                [Resting EXCEPT !.op = op, !.user = u, !.table = t,
                    !.checks = IF u = Author THEN <<>>
                               ELSE IF post.audience = "friends-only" /\ u \notin post.mentions
                               THEN <<"friend", "block">> ELSE <<"block">>]]
    /\ UNCHANGED audienceVars

\* execute of create-post: blocks first, then who may see the parent, then strangers.  What is
\* decided by the parent as it was loaded is decided here.
StartComment(e) ==
    /\ engager[e] = Resting
    /\ \E u \in Users :
          /\ post.audience = "only-me" => u = Author
          /\ engager' = [engager EXCEPT ![e] =
                [Resting EXCEPT !.op = "comment", !.user = u,
                    !.checks = IF \/ u = Author \/ u \in post.mentions
                                  \/ post.audience = "public" /\ post.strangers
                               THEN <<"block">> ELSE <<"block", "friend">>]]
    /\ UNCHANGED audienceVars

Passes(e) == engager' = [engager EXCEPT ![e].checks = Tail(@)]

Turn(e, check) == engager[e].checks # <<>> /\ Head(engager[e].checks) = check

\* isFriendOf
CheckFriend(e) ==
    /\ Turn(e, "friend")
    /\ IF IsFriendOf(engager[e].user) THEN Passes(e) ELSE Rests(e)
    /\ UNCHANGED audienceVars

\* Mutant of CheckBlock: whoever is blocked may mark the post as if they had done so before.
CheckNoBlock(e) ==
    /\ Turn(e, "block")
    /\ IF IsBlockedEitherWay(engager[e].user) /\ engager[e].op = "comment" THEN Rests(e) ELSE Passes(e)
    /\ UNCHANGED audienceVars

\* isBlockedEitherWay: a reply is refused, a mark is for those who have interacted before.
CheckBlock(e) ==
    /\ Turn(e, "block")
    /\ IF ~IsBlockedEitherWay(engager[e].user) THEN Passes(e)
       ELSE IF engager[e].op = "comment" THEN Rests(e)
       ELSE engager' = [engager EXCEPT ![e].checks = <<"interacted">>]
    /\ UNCHANGED audienceVars

CheckInteracted(e) ==
    /\ Turn(e, "interacted")
    /\ IF IsUserInteractedWithPost(engager[e].user) THEN Passes(e) ELSE Rests(e)
    /\ UNCHANGED audienceVars

\* createLike, createBookmark, deleteLike, deleteBookmark, createPost
Engage(e) ==
    LET u == engager[e].user
        row == <<engager[e].table, u>>
    IN  /\ engager[e].op # "idle" /\ engager[e].checks = <<>>
        /\ marked' = CASE engager[e].op = "mark"   -> marked \union {row}
                       [] engager[e].op = "unmark" -> marked \ {row}
                       [] OTHER                    -> marked
        /\ commented' = IF engager[e].op = "comment" THEN commented \union {u} ELSE commented
        /\ engager' = [f \in Engagers |->
                         IF f = e THEN Resting
                         ELSE [engager[f] EXCEPT !.stale = @ \/ engager[f].user = u]]
        /\ UNCHANGED <<post, friends, blocks>>

-----------------------------------------------------------------------------
(* What other requests change                                              *)

UpdatePost         == SaveSettings /\ Disturbs
DeleteComment      == RemoveComment /\ Disturbs
ChangeRelationship == RelateUsers /\ Disturbs

-----------------------------------------------------------------------------
AccessInit == AudienceInit /\ engager = [e \in Engagers |-> Resting]

Engaging(e) ==
    \/ StartMark(e) \/ StartComment(e)
    \/ CheckFriend(e) \/ CheckBlock(e) \/ CheckInteracted(e)
    \/ Engage(e)

AccessNext ==
    \/ \E e \in Engagers : Engaging(e)
    \/ UpdatePost \/ DeleteComment \/ ChangeRelationship

AccessSpec == AccessInit /\ [][AccessNext]_accessVars

-----------------------------------------------------------------------------
(* Properties                                                              *)

AccessTypeOK == AudienceTypeOK /\ engager \in [Engagers -> EngagerStates]

CanReply(u) ==
    /\ InAudience(u) /\ ~IsBlocked(u)
    /\ \/ u = Author \/ post.strangers \/ post.audience = "friends-only"
       \/ u \in post.mentions \/ IsFriendOf(u)

\* A like, a bookmark or a comment whose checks are done is one that the rule allows, unless
\* another request has changed what they read (assertUserCanAccessPostDetail, create-post).
PassedIsAllowed ==
    \A e \in Engagers :
        engager[e].op # "idle" /\ engager[e].checks = <<>> /\ ~engager[e].stale =>
            IF engager[e].op = "comment" THEN CanReply(engager[e].user)
                                         ELSE CanOpen(engager[e].user)
=============================================================================
