-------------------------------- MODULE MCRedis --------------------------------
(* What the requests and the workers keep in Redis: the entries of the cache manager,   *)
(* the stored results of the idempotency interceptor, and the jobs of the two queues,    *)
(* with the rows they write.  They share no state, so every behaviour of all four is    *)
(* seen by each as one of its own: a behaviour of this module follows one of the four.   *)
EXTENDS CacheManager, Idempotency, VideoStream, Notifications

CONSTANT Odd    \* the request that may be of another kind

VARIABLE part

redisVars == <<part, vars, idempotencyVars, videoVars, notificationVars>>

RedisInit ==
    /\ part \in {"cache", "idempotency", "video-stream", "notification-trim"}
    /\ Init
    /\ IdempotencyInit
    /\ NoVideo /\ uploader = IF part = "video-stream" THEN "insert" ELSE "done"
    /\ NotificationInit
    \* Requests and kinds are interchangeable, so this is every choice of kinds.
    /\ \A r, s \in Requests \ {Odd} : request[r].body = request[s].body
    /\ request[Odd].body = CHOOSE b \in Bodies : TRUE
    /\ part # "idempotency" => \A r \in Requests : request[r].body = request[Odd].body

CacheStep ==
    /\ part = "cache"
    /\ Next
    /\ UNCHANGED <<part, idempotencyVars, videoVars, notificationVars>>

IdempotencyStep ==
    /\ part = "idempotency"
    /\ IdempotencyNext
    /\ UNCHANGED <<part, vars, videoVars, notificationVars>>

VideoStreamStep ==
    /\ part = "video-stream"
    /\ VideoNext
    /\ UNCHANGED <<part, vars, idempotencyVars, notificationVars>>

NotificationStep ==
    /\ part = "notification-trim"
    /\ NotificationNext
    /\ UNCHANGED <<part, vars, idempotencyVars, videoVars>>

RedisNext == CacheStep \/ IdempotencyStep \/ VideoStreamStep \/ NotificationStep

\* With no read and no upload under way, fairness asks nothing of the other parts.
RedisSpec ==
    /\ RedisInit /\ [][RedisNext]_redisVars
    /\ Fairness
    /\ VideoFairness

\* The state of all four keeps its shape (the entries, locks, rows, jobs and steps).
RedisTypeOK == TypeOK /\ IdempotencyTypeOK /\ VideoTypeOK /\ NotificationTypeOK
=============================================================================
