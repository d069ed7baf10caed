# nodejs-social: a verification development

TLA+ modules, TLC configurations and TLAPS proofs for the back end of
nodejs-social: an Express and Socket.IO server with a BullMQ worker process, on
PostgreSQL or MongoDB, with Redis for caches, locks and queues. Every module is
translated from the code under `src/src/`; `PROJECT.json` maps each definition
to the lines it stands for.

Modelled: payments, group membership, direct rooms, the cache manager,
idempotency keys and timeouts, friendships and blocks, one-time codes, sessions
and the second factor, video streams, notifications, roles and permissions; in
part posts and the administration of users. All of these are model-checked on
small instances and proved about for every value of their constants; section 4
says what is proved. What is left out is listed in section 5, with the reason.

## 1. Inventory

One HTTP request is one asynchronous execution of a use case; several run at
the same time, in one or more processes, and interleave at every `await`.
State lives in the database and in Redis. Transactions
(`postgres.unit-of-work.ts`, `mongo.unit-of-work.ts`) are used in some use
cases; most read, check and write with separate statements.

| component | state | operations | hard behaviour | what makes it correct |
|---|---|---|---|---|
| Payment (`modules/payment`) | a row per payment: status, URL, transaction id, code, `version`; two unique indexes | create request, three provider callbacks, get | callbacks before the checkout page is stored, duplicates, reordering, optimistic locking with three attempts, checkout deadline, crash | one order per idempotency key, an acknowledged result is stored and final, one payment per provider transaction, lost races never lose a URL |
| Group membership (`modules/conversation`) | a row per member with a role; the creator | create, leave, kick, transfer, change role, invite | every check is a read before an unguarded write | ranks, one admin, nobody in uninvited |
| Direct rooms, messages, read markers (`modules/conversation`) | rooms per pair, messages, markers | open, leave, send, mark read | both sides open at once; checks of membership and blocks before the insert; a room that its user has left; markers out of order | one room per pair with its two members, checks that hold at the write, markers that go back only among overlapping requests |
| Cache manager (`persistence/redis/cache-manager.ts`) | values with TTL, lock keys | read (load once), invalidate, delete, acquire and release | lock TTL shorter than a loader, invalidation during a load, waiting readers | one loader, no value older than the last invalidation, every read ends |
| Idempotency and timeout interceptors (`http/express/interceptors`) | stored results and locks in Redis | look up, lock, run, store, time out | look-up not repeated after the lock; the timeout ends the wait and not the handler | one execution per key, a replay is of the same request, no key locked for ever |
| Relationship (`modules/relationship`) | friend requests, friendships, blocks per pair; cached lists | send, accept, decline, revoke, unfriend, block, unblock | block checks outside transactions, mutual requests and blocks, daily limit | no friendship beside a block unless the two crossed, no friendship unasked, the limit kept up to what runs at once |
| One-time codes (`modules/authentication`, worker) | a row per address and type, mail jobs | send, mail, clean up, register, reset password, second factor | late failure of an old job, one code used twice, a code that comes while a user is made | a used code is spent, a fresh row outlives the work for older codes |
| Sessions and second factor (`modules/authentication`) | refresh token rows, the browser's cookie, `totpSecret`, the cached user | login, refresh, logout, clean up, set up, enable, disable | concurrent rotation, an answer that arrives after a later one, decisions on a cached user | one winner per token, no revived session |
| Video streams (`modules/media`, worker) | status row, queue, files | upload, encode, mark failed | crash between insert and enqueue, attempts after the file is gone, stalled and doubly run jobs | a status that is true, stays and ends |
| Notifications (`modules/notification`, worker) | rows per recipient, trim jobs | record, read, trim | concurrent trims inside requests and jobs, a trim that fails | the limit is kept in the end, only the oldest surplus is lost |
| Posts (`modules/post`) | posts with parents and audiences, likes, bookmarks, comments, hashtags, view counts; cached ids of friends, of blocked users and of their posts | create, reply, delete, mark, details, five lists, search | one audience rule written in one check and in five queries for each of two databases; replies and marks made while the tree is deleted; cached lists that a block leaves as they are; cursors while rows come and go | lists show what the details show once the cached ids have settled, what is made is of a post one may see, a tree goes as a whole, a page repeats and skips nothing that stays |
| Users and administration (`modules/user`) | user rows, unique user names; cache keys by id and by name | read, update, administrators' create, update, delete | a name changes hands, cached copies written back, negative entries | a name finds its user, an update changes what it was asked to |
| Authorization (`modules/authorization`, `modules/operations`, `AuthGuard`) | roles, permissions, the cached role | create, update, delete, synchronise with the routes, warm up, check | copies of a role that a change overtakes, a synchronisation that writes back what it has read | the guard decides by what the role is, or by a copy whose origin is known; a role that is off stays off |
| Realtime, guards, queues, bootstrap, adapters, schemas | none, or another service's | | I/O | section 5 |

Interactions: conversations ask the relationship module for friendships and
blocks; notifications are recorded by the other modules and mailed by jobs;
guards read users and roles through the cache manager; the idempotency
interceptor sits before forty mutating routes (not the payment routes, whose
use case has its own key) and uses the cache manager's locks; the payment
module is called back by the providers.

`PROJECT.json` lists under "hazards" what can go wrong in each, at its line.

## 2. Modules

| module | models |
|---|---|
| `PaymentGateways` | VNPay, MoMo and ZaloPay: the meaning of result codes, what verification lets through, how a checkout call may end |
| `PaymentLedger` | the abstract specification of payments |
| `Payment` | create requests, notification handlers, the table with its version check and indexes, providers, faults; extends `PaymentGateways`, implements `PaymentLedger` |
| `PaymentProofs` | theorems about `Payment` |
| `GroupMembership` | one group's members under concurrent use cases |
| `GroupProofs` | theorems about `GroupMembership` |
| `CacheManager` | cache-aside reads of one key, updates that invalidate it |
| `Idempotency` | requests with one idempotency key before a route with a timeout |
| `Relationship` | friend requests, friendships and blocks under concurrent use cases |
| `RelationshipProofs` | theorems about `Relationship` |
| `OtpCodes`, `OtpProofs` | one-time codes of one address, their mails and their uses; theorems |
| `AuthSessions`, `SessionProofs` | the sessions of one browser and the second factor of its user; theorems |
| `DirectRooms`, `DirectProofs` | the room of a pair; theorems |
| `VideoStream` | one video from its upload to its last attempt |
| `Notifications` | the notifications of one recipient and their trims |
| `PostAudience` | one post, whom it is for, friendships, blocks and marks, and the rule of who may open it |
| `PostAccess` | the requests that check the rule and then reply to the post or mark it; extends `PostAudience` |
| `PostLists` | the queries that list the post, in either database, and the cached ids they are given; extends `PostAudience` |
| `PostTree` | posts, replies and marks while a tree is deleted |
| `PostPages` | paging with a cursor over rows that come and go |
| `Profiles` | two users, their names, and the cache keys that find them |
| `Authorization` | roles, permissions, their synchronisation, and the cache key of a role |
| `RedisProofs` | theorems about the four modules of `MCRedis` |
| `AccessProofs` | theorems about the modules of `MCAdministration` and of `MCPosts` |
| `MCPaymentRace`, `MCPaymentKeys`, `MCPaymentDelivery`, `MCGroupRace`, `MCRelationship`, `MCOtpCodes`, `MCAuthSessions`, `MCDirectRooms` | instances for TLC |
| `MCRedis` | instances of `CacheManager`, `Idempotency`, `VideoStream` and `Notifications` |
| `MCPosts` | instances of `PostAccess`, `PostLists`, `PostTree` and `PostPages` |
| `MCAdministration` | instances of `Profiles` and `Authorization` |

The last three put modules side by side: a variable (`part` or `subject`) picks
one of them at the start, and the others stay as they are. Their runs reach the
sum of the modules' states, not the product. The modules share no state, but for
`PostAccess` and `PostLists`, which look at the same rows of one post.

Definitions that begin with "Mutant:" in their comment are slips of the code
that nothing uses: each property is shown to fail when its definition is
replaced by one of them.

### Payment

| in the model | in the code |
|---|---|
| `payments` | the rows of `payments`; `version` is the column the `UPDATE ... WHERE version` checks |
| `create[r]` | one `CreatePaymentUseCase.execute`: where it is, the change it wants to save, its copy of the row, its attempt |
| `worker[h]` | one `HandlePaymentNotificationUseCase.execute` with its notification |
| `wire[r]` | the order at the provider: not known, being created by an HTTP call, created, refused |
| `reply[m]` | what the callback controller last told the provider about notification `m` |
| `InsertPayment`, `FindExisting` | `insertOrFindByIdempotency` and the fingerprint comparison |
| `CallCheckout`, `CheckoutEnds` | `createCheckout` of the adapter; its answer, its rejection, or its 35 s deadline |
| `SaveChange`, `SaveLost`, `ReloadPayment` | the loop of `changeAndSave` |
| `Deliver`, `Redeliver`, `OrderNotFound`, `LoadPayment` | verification, `findPaymentByProviderOrderId`, `applyVerifiedOutcome` |
| `SaveResult`, `TransactionConflict`, `ResultLost` | `save` and its three ends |
| `Crash`, `CreateFails`, `HandlerFails` | the process dies; a database call throws before or after its write |

A notification is a record of what the code tells apart: provider, order,
verdict of the signature and format checks, whether the amount and (for MoMo)
the request id match, transaction id, result code. Providers notify about
orders they have; anything that fails verification, and anything about an
unknown order, may arrive at any time. A row is one record, so a torn write
is not modelled: the code writes rows with one statement.

`GetPayment` changes nothing and is left out. The payment routes have no
idempotency interceptor; their timeout of 45 s only ends the wait for an answer.

One consequence is worth knowing: a crash between the insert and the answer of
the provider leaves the row `creating`, and a later request with the same key
only returns it. No code picks such a row up; a notification still settles it.

### Group membership

| in the model | in the code |
|---|---|
| `members[u]` | the `conversation_members` row of `u`, by its role |
| `creator` | `createdBy` of the conversation |
| `friends` | the friendship rows, which other requests change |
| `request[q]` | one execution past its checks: the use case, who asked, who is meant, the roles it read, the number of admins it counted |
| `StartLeave`, `CountAdmins` | `isMember`, then `countAdmins` for an admin |
| `StartKick`, `StartTransfer`, `StartUpdateRole` | `findMembersByUsers` and the checks of the use case |
| `StartInvite`, `LookAtInvitee`, `CheckCreatorFriend` | the three rounds of reads of an invitation |
| `DeleteMember`, `TransferAdminRole`, `UpdateRole`, `CreateMember` | the repository's writes, which repeat no check |

A refused request changes nothing: its start is disabled, or it ends. The two
updates of a transfer are one step, because they are one transaction whose row
locks make concurrent transfers serial. The two parallel reads of an
invitation are one step, because the unique index repeats the first of them.

### Cache manager

| in the model | in the code |
|---|---|
| `db` | the version of what a loader reads; a use case writes the next one (`Update`) |
| `cache`, `lock` | the Redis keys `key` and `lock:key`; null data is a version like any other |
| `reader[r]` | one `read`: its place, what it loaded, its polls |
| `updater[u]` | one use case between its write and its `invalidate` |
| `Get`, `AcquireLock`, `GetAgain`, `Load`, `Store`, `ReleaseLock` | the steps of `read`, one Redis or database call each |
| `Poll` | one round of `waitAndRetry`; after the last, `read` starts over |
| `TryFails`, `ReaderDies`, `UpdaterDies` | a call throws inside the `try`, with the lock released; the process dies, or a call throws outside it |
| `LockExpires`, `EntryExpires` | the TTLs, at any time |

`write` has no caller, so the model has no write-through. Every call of
`invalidate` follows a write of a use case (user, role, friends); the model has
one such key, since nothing relates two keys.

### Idempotency and timeout interceptors

| in the model | in the code |
|---|---|
| `entry`, `keyLock` | the result key (by the request whose hash and result it holds) and its `:lock` key |
| `request[r]` | one `intercept`, with its handler, which may outlive it |
| `LookUp`, `AcquireKeyLock`, `StoreResult`, `ReleaseKeyLock` | the Redis calls of `intercept`, each with what follows it |
| `HandlerSucceeds`, `HandlerFails`, `TimesOut` | the three ends of `Promise.race` in the timeout interceptor; after a timeout the handler still ends |
| `StoreFails`, `Dies` | Redis refuses the result; the process dies |
| `ResultExpires`, `KeyLockExpires` | the TTLs |

All forty routes list the idempotency interceptor before the timeout
interceptor, and `createRouteHandler` nests them in that order, so the timeout
is inside. The timeout (30 s) is half of the lock's TTL (60 s): a lock that
expires has been left behind. A process that stalls for 30 s more is not
modelled.

### Relationship

| in the model | in the code |
|---|---|
| `asked`, `askedToday` | the rows of `friend_requests`; those whose `created_at` is of the day |
| `friends`, `blocks` | the rows of `friendships` (a set of two, as the canonical pair) and of `blocks` (directed) |
| `request[q]` | one execution that has checks to make or a write ahead: the use case, actor and target, the checks left |
| `CheckBlocks`, `CheckFriendship`, `CheckLimit` | one query each; those of a send run in one `Promise.all` and end in any order |
| `CreatePendingRequest`, `Accept`, `Block` | the insert, and the two transactions |
| `DeletePendingRequest`, `Unfriend`, `Unblock` | decline and revoke, unfriend, unblock: one `DELETE` that is its own check |
| `NewDay` | a UTC day begins; the executions that took the old day's range are `late` |
| `crossed`, `sent`, `overtaken`, `gone` | history, for the properties: no guard reads it |

A transaction is one step. In Postgres its statements see what others commit in
between (read committed), but whoever commits between the statements of a block
has not seen the block, and leaves the same rows as if they came after it; those
are the overtaken writes. Rows of a day that is over are not counted again, so
the model drops them and lets a late count end either way. Finding the user by
name, the notifications and the invalidation of cached lists are left out.

### One-time codes

| in the model | in the code |
|---|---|
| `user` | there is a user of the address |
| `otp[t]` | the row of `otps` of the address and type `t`; `id` stays when a new code overwrites it |
| `job[c]` | the mail job of code `c` |
| `AskForCode`, `CheckNobody`, `CheckUser` | `send-otp` up to its check of the user |
| `CreateOtp`, `EnqueueMail` | the upsert by address and type; `queue.add` |
| `MailSent`, `MailFails`, `CleanUpOtp`, `CleanUpLost` | the worker: the mail, its last failure, and the deletion by id that follows |
| `EnterCode`, `FindAndValidateOtpCode`, `RefuseCode` | the use cases that accept a code, and `OtpService`; an expired code is deleted |
| `FindUser`, `InsertUser` | `register`: the look-up and the transaction that makes the user |
| `Reset` | `forgot-password`: its two writes, in either order (`Promise.all`) |
| `PassSecondFactor` | `login` and `disable-2fa` delete the code they accept |
| `CodeExpires`, `DeleteExpiredOtps` | the TTL and the clean-up job |
| `RequestDies`, `WriteFails`, `MadeElsewhere`, `AdminDeletesUser` | faults; an administrator makes or deletes the user |
| `used`, `kept`, `overtaken` | history |

Codes are numbers in the order of their creation and never collide. The rate
limit of requests is left out.

### Sessions and the second factor

| in the model | in the code |
|---|---|
| `stored`, `expired`, `parent` | the tokens in `refresh_tokens`, those past their expiry, and what each replaced |
| `cookie` | what the browser sends |
| `secret`, `entry`, `lock` | `totpSecret` of the user, the cache key of the user and its lock |
| `Login` | the insert of a new token |
| `StartRefresh`, `FindUser`, `Rotate` | `refresh-token`: the signature, the user, and the update that names the old token |
| `StartLogout`, `LookUp`, `DeleteToken` | `logout` |
| `Answer` | the response reaches the browser, in any order with others |
| `GetUser`, `LoadUser`, `StoreUser` | `findUserById` through the cache, of guards and pages as well as of the use cases |
| `VerifyCode`, `WriteSecret`, `InvalidateUser` | `setup-2fa` and `disable-2fa` |
| `TokenExpires`, `DeleteExpiredRefreshTokens`, `EntryExpires`, `RequestDies` | TTLs, the clean-up job, faults |
| `ended`, `lost` | history |

A refresh whose answer is lost leaves the browser with a token that is in no
row: the session ends (`CookieLives` names this as the one way).

### Direct rooms

| in the model | in the code |
|---|---|
| `room`, `seats`, `maker` | the conversation of the pair, its members, the transaction that makes both |
| `friends`, `blocks` | the tables of the relationship module, changed by `Befriend`, `Unfriend`, `Block`, `Unblock` |
| `messages`, `updatedAt`, `lastReadAt` | times of messages, of the room, and the read markers |
| `FindExisting`, `CreateDirectConversation`, `CreateMember`, `Commit`, `FindAgain` | `get-or-create-conversation`; the insert waits for a transaction with the same pair |
| `CheckFriend`, `CheckBlocks`, `IsMember` | the queries of the checks, in any order when parallel |
| `CreateMessage`, `StoreMessage`, `TouchUpdatedAt`, `Notify` | `send-message` after its checks; the time is taken before the insert |
| `FindMessages`, `UpdateReadState` | `mark-read-message` |
| `Leave`, `Abandon` | `leave-conversation`, which also takes direct rooms; a request fails |
| `left` | history |

Who has left a direct room is not seated again: opening it finds the room and
then refuses the user as no member.

### Video streams

| in the model | in the code |
|---|---|
| `status` | the row of `video_status` |
| `uploader` | `upload-video-stream`: `InsertStatus`, `AddJob`, and `MarkRefused` when the queue throws |
| `job` | the job of the queue: attempts, stalls, and who has its lock |
| `pc[s]` | `encode-video-stream` in one of two executions, and the worker's handlers around it |
| `source`, `output`, `uploaded` | the uploaded file, the folder of the encoder, the objects of the bucket |
| `Processing`, `Encode`, `Encoded`, `DeleteSource`, `UploadFiles`, `DeleteDirectory`, `Success` | the steps of the use case |
| `Completed`, `Failed`, `MarkVideoEncodingFailed` | the end of an attempt; the handler of the last failure |
| `WorkerDies`, `LockLost`, `Stalled`, `Take` | BullMQ's behaviour, external |
| `overlap`, `refused`, `late`, `lost` | history |

The encoder succeeds or fails; how is ffmpeg's affair. Two consequences: a
video that is in the bucket as a whole ends as failed when the write of its
success fails, because the source is gone for the next attempt; and a job that
stalls more often than the queue forgives leaves its row `processing`, since no
handler of the worker runs for it. `SettlesUnlessLost` names these.

### Notifications

| in the model | in the code |
|---|---|
| `rows`, `read` | the rows of one recipient, numbered in the order of `created_at` |
| `trim[a]` | a request, or the worker, that inserts and trims |
| `jobs` | waiting trim jobs, with their attempts |
| `Record`, `CreateNotification`, `EnqueueTrim` | `record` and the bulk variant, which leaves the trim to a job |
| `CountForRecipient`, `FindOldest`, `DeleteNotifications` | `trimRecipientIfNeeded` |
| `TakeTrim`, `TrimFails`, `RequestFails`, `MarkRead` | the worker, failures, the recipient |
| `dropped` | history: a trim that was due will not be made |

### Posts

`PostAudience` has one post and the rows that decide who sees it; `PostAccess`
the requests that check them before they write; `PostLists` the queries that
select by them.

| in the model | in the code |
|---|---|
| `post`, `friends`, `blocks`, `marked`, `commented` | the post's settings, and the rows about its users |
| `SaveSettings`, `RemoveComment`, `RelateUsers` | `update-post`, the deletion of a comment, and what the relationship module does |
| `StartMark`, `StartComment`, `CheckFriend`, `CheckBlock`, `CheckInteracted`, `Engage` | a like, bookmark, comment or other reply: each query of its access check, then the write |
| `UpdatePost`, `DeleteComment`, `ChangeRelationship` | what others change under such a request |
| `PostgresFind...`, `MongoFind...` | the conditions of the queries of `post-query.impl.repository.ts`, once for each database |
| `GetNewFeeds`, `GetGuestNewFeeds`, `GetPostsByUser`, `GetPostsByUserInteraction`, `SearchPosts` | the use cases that call them |
| `FindFriendUserIds`, `GetBlockedIds`, `GetBlockedPostIds` | the services that give them the lists of ids, each read through a key of `listEntry` |
| `LoadList`, `StoreList`, `LoadFails` | a read of a list that missed: its loader, and the store or the failure that follows |
| `WarmFriendGraph` | the warm-up's load of a friends' list, which looks at no entry |
| `ListGoes`, `ListsTick` | a key is deleted or evicted; the clock |
| `ChangeTables` | any change of the rows a list is made of |
| `calm` | history: for how long what a list should say has not changed, and no old one was stored |

The ids of friends live for 600 s, and the relationship use cases delete them;
those of blocked users and of the posts of these live for 30 s, and nothing
deletes them: no block, unblock, like, bookmark or comment. (All lives include
the tenth that `read` may add at random.) Opening a post asks the tables
(`isBlockedEitherWay`). So after a block the feed, the search and the marked
posts show for up to that long what opening refuses, and after an unblock hide
what opening shows; and a load that began before the change and stores after it
starts another life of the old list. The same goes for friends, where the
deletion of the keys shortens it unless a load overtakes it (`CacheManager`).
`ListsMatchDetail` therefore speaks of users whose lists are `Settled`: for as
long as each of them lives, it would have been loaded the same, and no old one
was stored. One tick less, or no such condition, and TLC finds the property
violated. The lists of guests and of profiles use no cached ids and always
agree.

`PostTree`: `parent`, `stored`, `live` and `marks` are the rows; `LoadPost` and
then `CreateReply` or `CreateMark` is a request, `DeletePostTree` the recursive
deletion. `PostPages`: `ReadPage` is one query with its cursor, between `Tick`,
`Create` and `ChangeListed`.

What the runs show of the rule beside that (`ListsMatchDetail`): the lists keep
what a user of a blocked pair has interacted with whatever its audience has
become, which the details would refuse; feed and search leave out posts in which
the user is merely mentioned, which the details would show. A reply that looked
at its post before the deletion of the tree is stored and stays (`orphans`).

### Users and administration

| in the model | in the code |
|---|---|
| `userName`, `present`, `unborn`, `title` | the user rows; `title` is the column `name` of one user |
| `byId`, `byName[n]` | the cache keys of that user and of each user name |
| `GetUser`, `LoadUser`, `StoreUser`, `GetOwner`, `LoadOwner`, `StoreOwner` | `UserService` through the cache manager |
| `UpdateMe`, `AdminUpdateUser`, `AdminDeleteUser`, `AdminCreateUser`, `Read` | the use cases up to their checks |
| `UpdateUser`, `DeleteUser`, `InsertUser`, `WriteRefused` | the writes, and the unique index that refuses them |
| `InvalidateUserCache` | the keys are deleted, one after the other |

Three consequences: `admin-create-user` leaves the negative entry that its own
check has cached, so the new user is not found by name until it expires;
`update-me` writes the title and birthday of a cached copy back when the request
gives none; a rename that started from an outdated copy leaves the entry of the
name it did not know. `spoilt` marks these entries, `old` these requests.

### Authorization

| in the model | in the code |
|---|---|
| `role[r]` | the row of `roles` and its `role_permissions` |
| `standing[p]`, `route[p]` | the row of a permission: live, deleted (soft), removed (by the synchronisation); its method and path |
| `watched`, `cached` | one role, whichever, and the cache key of it |
| `LoadRole`, `StoreRole`, `RoleEntryExpires` | `AuthGuard.verifyRole` through the cache manager |
| `StartWarmUp`, `WarmLoad` | `warmRoles`, which stores without the lock |
| `StartUpdateRole`, `UpdateRole`, `StartDeleteRole`, `DeleteRole`, `CreateRole`, `InvalidateRole` | use cases on roles |
| `StartCreatePermission`, `CreatePermission`, ... | use cases on permissions, which delete no key |
| `SyncPermissions`, `SyncRoles`, `SyncCommits` | `sync-role-permissions`: one transaction, read in two steps |
| `CallerFails` | a call fails or the process dies |

A permission's module follows from its route. Rows that the synchronisation
deletes are locked until it commits; the model lets others read and write them
and removes them at the commit, which leaves the same rows.

## 3. Runs

| run | instance | shows |
|---|---|---|
| `payment_race` | one MoMo payment, two handlers, two pending results, a success and a cancellation, forged and mismatched notifications, one redelivery | acknowledged results are stored; a returned change holds; only genuine notifications settle a payment |
| `payment_keys` | four create requests, three on one key, one of those for another payment; one transaction for two orders; ZaloPay rejections; one fault | one checkout per key, a rejected payment has no order; `Payment` implements `PaymentLedger` |
| `payment_delivery` | one MoMo payment, fair handlers and providers, one fault | a genuine final result is settled or overruled |
| `group_race` | three users, two requests at a time, changing friendships | one admin unless overtaken; ranks |
| `redis` | a cached key with two readers and two updates; an idempotency key with three requests of two bodies; a video with two executions and three attempts; a recipient with two requests, the worker and a limit of one | one loader unless the lock expired, old entries only by a store that overtook an invalidation, every read ends; one handler at a time unless timed out, one answer unless a look-up and a store crossed; a video's status is true, stays and is reached unless lost; a trim takes the surplus and nothing else |
| `relationship_pair` | three users, two executions at a time, a limit of one | blocked pairs are apart unless crossed; the limit is exceeded by concurrency alone |
| `otp_codes` | one address, two codes, two requests, one fault | a used code is spent; a code to register beside a user only if overtaken; a fresh row is safe |
| `auth_sessions` | one browser, three tokens, two secrets, two requests, one fault | one winner per token; a logout is final; the cookie's session lives unless an answer was lost |
| `second_factor` | the same with one request at a time | a finding, below |
| `direct_rooms` | the pair, two executions, two messages | the members are the pair without those who left; checks hold unless overtaken |
| `posts` | a post of each audience with its author, a viewer and a guest, requests that check it, cached lists of ids of two ticks (friends) and one; trees of three posts; four rows of two dates in pages of two | writes obey the rule unless overtaken; settled lists agree with the details in both databases; trees go as a whole; pages repeat and skip nothing that stays |
| `administration` | two users, names, titles and requests; three roles, three permissions, two callers, three calls of administrators | a name finds its user, or the entry's origin is known; a title changes as asked, unless from an old copy; a cached role is true or spoilt; a role that is off stays off unless a synchronisation was overtaken |

**Bounds.** Payment: the number of requests, handlers and notifications is
fixed; `MaxSaveAttempts` is the code's 3 where contention is the question;
`MaxFaults` and `MaxRedeliveries` bound crashes and repeated deliveries, which
can otherwise go on for ever. Four notifications and the URL save are five
writers of one row, enough to lose all three attempts; two orders are enough
for a shared transaction, three requests for a shared key with a mismatch.
Symmetry is used for interchangeable handlers, and not in the runs with
liveness. Group: users and concurrent requests are fixed, their number over
time is not; every check concerns at most two rows and the count of admins, so
three users and two overlapping requests show each overtaking of one by
another, and the proofs cover the rest. Cache: `MaxVersion` bounds the updates
and `MaxDisturbances` crashes, failed calls and expired entries; two of each
suffice for a store that comes after two invalidations, and a lock may expire
any number of times. One poll instead of the code's 20 reaches the same states
of a waiting reader. Idempotency: three requests are a first one, its retry and
one that comes late; a fourth adds nothing that two of these do not do.
Relationship: the executions at a time are bounded, their number and the number
of days are not; two users who meet both ways show every race of a pair, the
third lets a sender have two requests of a day, and a limit of one is the
smallest. Codes: two are an older and a newer one of a row, which is what every
race is about. Sessions: three tokens are a login and two rotations of it, or
two logins. Rooms: the pair is the whole instance, and two messages are enough
to be out of order. Video: the code's three attempts, two slots for a job that
runs twice, four faults. Notifications: three with a limit of one leave a
surplus of two, which two trims can both count. Posts: each rule is about one
post and one viewer, whose lists alone are cached, those of friends in one
behaviour and those of blocks and posts in another; one load at a time is enough
to overtake a change, one row is enough to be listed by, and two ticks are a life
with a middle. The theorem has none of these bounds. Three posts are a reply to a reply; four rows in pages of
two with equal dates put the cursor inside a date. Administration: two names are
a rename and what it frees; three permissions are the two routes' and one to
make, and `MaxCalls` lets two changes follow, or overlap, a synchronisation.
A custom role has at most one permission there, and an update asks for at most
one.

Deadlock checking is off where a finite set of requests, messages or
notifications ends.

**Fairness.** `Payment!FairSpec`: requests and handlers take their next step,
since each waits only for a database call or for a checkout call with a
deadline. Providers deliver again what was not acknowledged, with strong
fairness, because handlers may be busy in between; the answers of the callback
controller (`99`, HTTP 500, `return_code` 0) rely on it. Nothing is assumed
about crashes, failed calls, or how soon a provider creates an order.
`CacheManager!Fairness` lets readers and invalidations take their next step, for
the same reason, and lets Redis expire a lock. With `ReadEnds` the updates and
faults are bounded: a key that is invalidated for ever may keep a waiting reader
for ever. `VideoFairness` lets the upload, the executions and the queue go on:
ffmpeg ends, and BullMQ gives a waiting or stalled job to a worker.

**Finding** (`second_factor`). The set-up of the second factor says "Load user
from the database, verify the user exists, and verify 2FA is not already
enabled." (`setup-2fa.usecase.ts:27`). The user is read through the cache key
(`user.service.ts:36`) that guards and profile pages fill with a user without
`totpSecret`. After such a read the check passes although a secret is set, and
the set-up replaces it. `ReplacedOnlyIfMisled` says that a cached copy, or one
from before the last change, is the only way.

**Known not to hold.** Four statements of comments and messages are kept in
the modules as definitions; the runs check the weaker properties that do hold.

- `LastAdminNeverLeaves`: `leave-conversation.usecase.ts:24` says "Do not allow
  the last admin to leave a group and leave it without any admin." The role and
  the count are read before an unconditional `DELETE`: a member asks to leave
  and passes the check, the admin transfers the role to them, and the delete
  removes the only admin. `OrphanStays` then says that the group never has an
  admin again. What holds: `OneAdminUnlessOvertaken`.
- `InvalidatedIsFresh`: `friend.service.ts:22` promises that after an
  invalidation the friend list does "not read stale data". A read that loaded
  before the write and stores after the invalidation puts the old value back.
  What holds: `StaleOnlyIfOvertaken`. The same goes for users and roles.
- `OneRuns`: a request whose key is being processed is answered "Request with
  this idempotency key is already processing" (`idempotency.interceptor.ts:68`).
  After the timeout the handler still runs, but the `finally` block has released
  the lock, and the retry runs a second handler. What holds:
  `OneRunsUnlessTimedOut`, and `AnsweredOnceUnlessLate` for a duplicate whose
  look-up came just before the store.
- `AtMostLimitADay`: "A sender can send only 100 friend requests per day to the
  target user to prevent spam" (`send-friend-request.usecase.ts:76`). The limit
  is compared with the rows that are still there, of all targets; a revocation
  deletes the row. What holds: `LimitPlusConcurrent`.

`ExhaustedNeedsContention` (a create request gives up only after three lost
races) is checked by no run; it is proved (`GivesUpAfterRaces`).

Two races are stated in the properties, since no comment promises otherwise: an
acceptance that a block overtakes makes a friendship beside the block
(`ApartUnlessCrossed`), and one whose request is revoked meanwhile makes it all
the same (`FriendshipWasAsked`).

## 4. Proofs

`PaymentProofs`, for every set of requests, keys, providers, notifications and
handlers and every bound, from `PaymentAssumption` and `NotificationAssumption`:

- `TypeCorrect`: the type invariant, inductive as it stands.
- `LockCorrect`: the invariant behind everything else. A copy whose version is
  still the row's *is* the row, with the pending change applied; so the save
  that passes the version check writes a legal change of the current row. The
  type invariant alone allows any copy, which is why the two action properties
  below need this one.
- `FinalStaysFinal`, `UrlStays`: the action properties `FinalSticky` and
  `UrlSetOnce`, action by action from `LockCorrect`.
- `PaymentImplementsLedger`: the initial state maps to the ledger's, and every
  step maps to a step of the ledger or to a stutter.
- `OnlyGenuineSettles`, `AcksAreRecorded`, `ChangesStayMade`, `KeysPayOnce`,
  `RejectionsAreTrue` and `GivesUpAfterRaces`, from `LockInv` and `PaymentInv`.
  None of these properties is inductive by itself; `PaymentInv` adds what each
  execution knows between two of its steps: a handler at work has a notification
  that was verified (`HandledIsVerified`); a request has a change to save only
  when its row is there and the checkout was called (`ChangeComesLate`), and a
  row that is creating is as it was inserted (`CreatingIsNew`); a key has one
  row, an order has one, and an answer is about the row of its own key
  (`OneRowPerKey`, `OrderHasRow`, `AnsweredWithItsRow`); a rejection is pending
  only where the provider refused (`RejectIsTrue`); and each attempt that was
  lost shows in the version of the row (`AttemptsLost`).

`GroupProofs`, for every finite set of users and any number of requests, from
`GroupAssumption`:

- `TypeCorrect`: `TypeOK`, whose `PendingState` says what each use case has
  checked about the rows it read. That is the inductive part: a pending write
  carries its checks, the table does not.
- `OneAdminKept`, `RanksObeyed`: for a write whose rows are still as read, the
  checks carried by the request are checks of the table. Only writes change the
  table (`OnlyWritesChangeMembers`), so what breaks one admin is an overtaken
  write.
- `OrphansStay`: without an admin no transfer starts, and without a transfer
  nobody becomes one.
- `CreatorGone`: from `CreatorNotInvited`, an invitation that reached its
  insert is not the creator's, since no friendship joins a user with
  themselves (`friendships_canonical_pair`).

`RedisProofs`. Of the cache, for any number of readers and updates, from
`CacheAssumption`:

- `CacheTypeCorrect`; `OneLoader`, from `HeldUnlessExpired`: a reader past the
  lock holds it until it expires, which `NX` and the token keep.
- `StaleNeedsOvertaking`, from `LoadedFresh`, which says of what a reader is
  about to store what the property says of the entry.

Of idempotency keys, for any number of requests, from `IdempotencyAssumption`:

- `IdempotencyTypeCorrect` and `OneRunsBeforeTimeout`, from `IInv`: only the
  lock's holder is past the lock, and a running handler's request waits for it
  or timed out.
- `ReplaysAreOfTheSame`: outcomes and bodies do not change (`PastStays`).
- `AnsweredOnce`, from `StoredOrLate`: while a result is stored, whoever is past
  the look-up without a result had looked before the store.

Of videos, for any number of executions, attempts and faults, from
`VideoAssumption`:

- `VideoTypeCorrect`, from `VideoBase`: the row is written before the job is
  added, and an active job has attempts left.
- `RowIsTrue`, from `VideoInv`: one execution works unless two have overlapped
  (`OneExecutes`); a source that is gone was deleted by the execution that has
  the lock or has completed the job (`SourceGone`); what is in the folder and the bucket is what the execution has
  put there (`OwnFiles`); every attempt made is matched by a fault
  (`FaultsCounted`), and a row says failed when no attempt is left
  (`FailedIsOver`). The faults have to be counted while an attempt is still
  ending, or the last failure is one short.
- `SettledRowStays`, an action property, from the same invariant.

Of notifications, for any finite set of rows, requests and jobs and any limit,
from `NotificationAssumption`:

- `NotificationTypeCorrect`, from `NotificationBase`: among it that a trim asks
  for no more rows than it counted as surplus. That the oldest rows of a set are
  as many as were asked for (`OldestAreAsMany`) is shown by numbering the rows
  by how many are older.
- `SurplusGoes`, from `TrimCovered`: a surplus has a request that has yet to
  count, or has counted all of it, or a job, or was dropped.
- `OnlySurplusGoes`, from `CountStands`: what a trim takes leaves the limit,
  unless another trim has deleted since it counted.

`RedisTypeCorrect` puts the four type invariants together for the module that the
run checks.

`AccessProofs`. Of roles and permissions, for any number of each, any
callers and any bound on the calls, from `AuthorizationAssumption`:

- `AuthorizationTypeCorrect`: that no two live permissions share a route, that
  roles are granted rows that are there and that `Admin` is active survive a
  synchronisation only because of what it carries between its steps (`CallOK`).
  That a grant is of a row that is there is by the foreign key of PostgreSQL's
  `role_permissions`; MongoDB keeps ids in an array, without one.
- `RolesAreTrue`, from `AuthorizationInv`: a copy that is about to be stored is
  true or was overtaken (`LoadsTrue`), an entry is of a role that has a row
  (`EntryOfRole`), and what a synchronisation has seen of a role is still so
  unless it was overtaken (`SeenUnlessOvertaken`).
- `ActiveStays`, an action property, from the same invariant.

Of users and their names, for any number of names, titles, other users and
requests, from `ProfileAssumption`:

- `ProfilesTypeCorrect`, from `ProfilesBase`: no two users who are there share a
  name, since the index refuses the second and two administrators never create
  one row (`OneCreates`).
- `NamesAreTrue`, from `ProfilesInv`. An entry becomes wrong when a name changes
  hands, so the invariant has to say which names a pending write will free: what
  a request has read of its user is true, or it is marked old (`CurrentOK`), and
  for that the cached copy has to be true, spoilt or about to be deleted
  (`ByIdTrue`); a load of a name stores its owner or was overtaken (`FoundOK`).
  A write then changes the owners of two names at most (`OwnersAreKept`), and
  both are among its keys or are spoilt (`EntriesOfWrite`).
- `TitleStays`, an action property: it is `CurrentOK` that makes `update-me`
  write back the title that is there.

`AdministrationTypeCorrect` puts the two type invariants together.

Of posts, for any users, tables of marks, finite set of posts, requests, finite
set of rows, limit of a page and number of dates, from `AudienceAssumption`,
`ListsAssumption`, `TreeAssumption` and `PagesAssumption`:

- `EachRowOnce`, from `PagesInv`. The rows are in a total order (`RowOrder`), a
  page is an initial part of what the cursor has ahead of it, and its last row is
  the next cursor. So what was seen is never ahead, and what stays in the list
  and is not ahead was seen. A row that is made meanwhile was not seen, and is
  read once or never.
- `TreesGoTogether`, from `TreeInv`. The tree of a post and the posts above one
  are computed level by level, as many levels as there are posts. That these are
  enough is an argument over cardinalities: while a level is not closed the next
  one is larger, and none is larger than the set. From it, who is in a tree is
  who has its root above (the least level is named by `LeastNumber`, since
  induction over a predicate is out of the provers' reach), and a reply changes
  nothing above the posts that were there.
- `PassedAsTheRule`, from `AccessInv`: the checks a request has left say which
  parts of the rule it has already found to hold (`MarkRight`, `CommentRight`),
  and a change of what they read marks it stale.
- `ListsAsTheRule`, from `ListsInv`: an entry is what its loader would read now,
  or has no more of its life left than what the list has yet to be calm for. So
  when all lists of a user are calm for a whole life, whatever is read is what
  the tables say, and the conditions are compared list by list for both
  databases. The lives, the number of loads under way and their order are
  arbitrary.

`PostsTypeCorrect` puts the four type invariants together. It is by induction
over the composition, since `PostAccess` and `PostLists` change the same rows
(`SharedInv`).

`RelationshipProofs`, for any users, executions and limit, from
`RelationshipAssumption`:

- `TypeCorrect`; `ChecksHold`: inductive with the types, because a block marks
  every execution of the pair that is past its check.
- `BlockedStayApart`: with `ChecksHold`, a write that was not overtaken finds no
  block, and one that was puts the pair among the crossed.
- `FriendsWereAsked`, from `AcceptFinds`: every deletion of a request marks the
  acceptances that have found it.
- `LimitHolds`: rows and sends to come are counted together. The sends must
  include those that still count an old day (`Uncounted`), or a new day breaks
  the induction.

`OtpProofs`, for any requests, types and number of codes, from
`OtpAssumption`:

- `TypeCorrect`; then `RowInv`: ids and codes only grow, two rows never share an
  id, and what a request or job carries was issued. Every deletion goes by id, so
  this is what the others rest on.
- `UsedSpent`, from `SpentInv`: a used code is out of the table, or is still to
  be deleted by the request that used it, or was kept by its death.
- `RegisterCode`, from `RegisterInv`; `FreshRow`, an action property, step by
  step from `RowInv`.

`SessionProofs`, for any requests and tokens, from `SessionAssumption`:

- `TypeCorrect`, whose `RequestOK` ties each place of a request to the token it
  carries; `OneWinner` follows from it, because a replaced token is in no row.
- `LogoutFinal`, from `EndedAreGone`: the rotation names the old token, so a
  token that is gone comes back by no rotation.
- `CookieStaysAlive`, from `CookieInv`: an answer that is on its way brings a
  token that is in its row and that no other request has (`AnswersAreFresh`).
  Every step is one that leaves the answers alone (`Quiet`) or is a rotation, a
  login, a logout or the answer itself.
- `Misled`, from `SureIsTrue`: a user that was read from the database and not
  changed since has the secret of the row.

`DirectProofs`, for any number of executions and messages, from `DirectAssumption`:

- `TypeCorrect`: one transaction at most is making the room.
- `RoomHasItsMembers` and `LoserFinds`, from `RoomInv`.
- `ChecksHold`: what is checked is granted, or the request is marked overtaken,
  by induction over every step that takes a friendship, a block or a seat away.
- `TimesInOrder`, from `OrderInv`: a floor per request under the times it writes.

What no run checks is proved only: `LockCorrect`, `FinalSticky`, `UrlSetOnce`,
`ExhaustedNeedsContention`, `OrphanStays`, `CreatorGoneForGood`,
`ReplayOfSameRequest`, `FriendshipWasAsked`, `ReplacedOnlyIfMisled`,
`LoserFindsRoom`, `BackOnlyByOverlap`, the relationship's checks, and the types
of single modules.

Every invariant and action property that a run checks is also proved. Only
model-checked is liveness (`FinalResultSettles`, `ReadEnds`, `SettlesUnlessLost`),
which needs `ENABLED` and is out of the prover's reach.

## 5. Not modelled

- *Realtime*: sockets join and leave rooms that Socket.IO keeps, and events are
  sent without an answer; nothing is stored that could disagree.
- *Guards and rate limits*: checks without state, and counters that the
  rate-limit library keeps in Redis. `AuthGuard`'s role is in `Authorization`.
- *Queues, workers, schedules*: thin wrappers of BullMQ; what it does with a job
  is modelled with the module whose job it is.
- *Health checks; warm-up of users*: I/O; the warm-up stores copies as those of
  roles and of friend lists do, which are modelled.
- *Bootstrap and shutdown*: wiring. A shutdown stops the modelled components
  anywhere, as their deaths do.
- *Adapters of mail, storage, images*: the outcome of a call is an action of the
  module that makes it; the rest is the service's.
- *Controllers, request and response schemas, messages, Swagger*: formats.
- *Cache, logging and transform interceptors*: answers of public look-ups are
  kept for a minute with no lock and no invalidation; the others have no state.
- *Units of work*: delegate to the drivers; their atomicity is what makes a
  transaction one step, or a commit one action.
- *Posts*: hashtags, view counters (one atomic increment, enqueued without
  waiting), counts and the source post of the details (a repost shows its source
  without a check of the source's audience), the list of replies (selected by
  parent alone), the redaction of blocked authors, and bans.
- *Rooms*: messages and markers of groups, `update-conversation`, lists,
  attachments. *Users*: passwords, e-mail addresses, roles and status, the search
  with its own short cache.
- *Schemas, migrations, seeds*: the constraints are in the guards of the modules
  whose tables they protect.

A large part of the code is of these kinds: routes, controllers, schemas,
mappers, adapters and messages.
