----------------------------- MODULE AuthSessions -----------------------------
(***************************************************************************)
(* The sessions of one user in one browser, and the user's second factor.     *)
(*                                                                         *)
(* A login inserts a row of refresh_tokens; a refresh replaces the token of    *)
(* the row, if it still is the one that was sent; a logout deletes it.  The     *)
(* browser sends the token of its cookie and keeps what the answers set.        *)
(*                                                                         *)
(* Enabling and disabling the second factor look at the user through the cache *)
(* key that guards and profile pages fill as well, with a user whose secret     *)
(* has been left out.                                                         *)
(***************************************************************************)
EXTENDS Integers

CONSTANTS
    Requests,       \* requests of the browser that are handled at a time
    NoRequest,      \* nobody holds the lock of the cache key
    MaxTokens,      \* bound: refresh tokens that are signed
    Secrets,        \* the secrets that are generated
    NoSecret,       \* the second factor is off
    MaxFaults       \* bound: requests that die and entries that expire

ASSUME SessionAssumption ==
    /\ NoRequest \notin Requests
    /\ MaxTokens \in Nat
    /\ NoSecret \notin Secrets
    /\ MaxFaults \in Nat

NoToken == 0
Tokens  == 1 .. MaxTokens

VARIABLES
    stored,     \* the tokens in the rows of refresh_tokens
    expired,    \* the tokens whose expiry has passed, of the JWT and of the row alike
    issued,     \* the tokens that have been signed are 1 .. issued
    parent,     \* [Tokens -> the token it replaced in its row, or NoToken]
    cookie,     \* the token in the browser's cookie, or NoToken
    secret,     \* the totpSecret of the user, or NoSecret
    entry,      \* what the cache holds of the user
    lock,       \* the request that loads the user
    request,    \* [Requests -> the use case it runs]
    ended,      \* history: the tokens whose logout was accepted
    lost,       \* history: the tokens whose refresh or logout was carried out and not answered
    faults

vars == <<stored, expired, issued, parent, cookie, secret, entry, lock, request, ended, lost, faults>>

sessionVars == <<stored, expired, issued, parent, cookie, ended>>
factorVars  == <<secret, entry, lock>>

-----------------------------------------------------------------------------
\* What a look-up of the user gives; enabled: it has a totpSecret; sure: history, as the
\* database has it.
Users         == [known : BOOLEAN, enabled : BOOLEAN, sure : BOOLEAN]
NoUser        == [known |-> FALSE, enabled |-> FALSE, sure |-> FALSE]
SafeUser      == [known |-> TRUE, enabled |-> FALSE, sure |-> FALSE]
FullUser      == [known |-> TRUE, enabled |-> secret # NoSecret, sure |-> TRUE]

Pcs == {"idle", "find", "rotate", "answer", "lookup", "delete", "clear",
        "store", "verify", "write", "invalidate"}
Ops == {"none", "read", "setup", "disable"}

Started(pc, t) == [pc |-> pc, token |-> t, new |-> NoToken, op |-> "none", user |-> NoUser]
Idle           == Started("idle", NoToken)

Goes(q, pc) == request' = [request EXCEPT ![q].pc = pc]
Ends(q)     == request' = [request EXCEPT ![q] = Idle]

-----------------------------------------------------------------------------
(* Login, refresh and logout                                               *)

\* A login that has passed its checks: createAuthSession signs a token and inserts its row.
Login(q) ==
    LET new == issued + 1 IN
    /\ request[q].pc = "idle"
    /\ issued < MaxTokens
    /\ issued' = new
    /\ stored' = stored \union {new}
    /\ request' = [request EXCEPT ![q] = [Started("answer", NoToken) EXCEPT !.new = new]]
    /\ UNCHANGED <<expired, parent, cookie, ended, factorVars, lost, faults>>

StartRefresh(q) ==
    /\ request[q].pc = "idle"
    /\ cookie # NoToken
    /\ request' = [request EXCEPT ![q] = Started("find", cookie)]
    /\ UNCHANGED <<sessionVars, factorVars, lost, faults>>

\* The token is verified, and the user found with its role, or not.
FindUser(q) ==
    /\ request[q].pc = "find"
    /\ \/ request[q].token \notin expired /\ Goes(q, "rotate")
       \/ Ends(q)
    /\ UNCHANGED <<sessionVars, factorVars, lost, faults>>

Rotated(q, new) ==
    /\ issued' = new
    /\ parent' = [parent EXCEPT ![new] = request[q].token]
    /\ request' = [request EXCEPT ![q].pc = "answer", ![q].new = new]

\* Mutant: the row is found by its user alone.
RotateAnyRow(q) ==
    /\ request[q].pc = "rotate"
    /\ issued < MaxTokens
    /\ IF stored # {}
       THEN /\ Rotated(q, issued + 1)
            /\ \E t \in stored : stored' = (stored \ {t}) \union {issued + 1}
       ELSE Ends(q) /\ UNCHANGED <<issued, stored, parent>>
    /\ UNCHANGED <<expired, cookie, ended, factorVars, lost, faults>>
\* Mutant: a row that is gone is inserted again.
RotateUpsert(q) ==
    /\ request[q].pc = "rotate"
    /\ issued < MaxTokens
    /\ Rotated(q, issued + 1)
    /\ stored' = (stored \ {request[q].token}) \union {issued + 1}
    /\ UNCHANGED <<expired, cookie, ended, factorVars, lost, faults>>
\* Mutant: the result of the update is not looked at.
RotateUnchecked(q) ==
    /\ request[q].pc = "rotate"
    /\ issued < MaxTokens
    /\ Rotated(q, issued + 1)
    /\ stored' = IF request[q].token \in stored
                 THEN (stored \ {request[q].token}) \union {issued + 1}
                 ELSE stored
    /\ UNCHANGED <<expired, cookie, ended, factorVars, lost, faults>>

\* UPDATE ... SET token WHERE user_id AND token: no row, no new token.
Rotate(q) ==
    LET new == issued + 1
        old == request[q].token
    IN /\ request[q].pc = "rotate"
       /\ issued < MaxTokens
       /\ IF old \in stored
          THEN /\ Rotated(q, new)
               /\ stored' = (stored \ {old}) \union {new}
          ELSE Ends(q) /\ UNCHANGED <<issued, stored, parent>>
       /\ UNCHANGED <<expired, cookie, ended, factorVars, lost, faults>>

\* The browser may have no cookie.
StartLogout(q) ==
    /\ request[q].pc = "idle"
    /\ request' = [request EXCEPT ![q] = Started("lookup", cookie)]
    /\ UNCHANGED <<sessionVars, factorVars, lost, faults>>

LoggedOut(q) ==
    /\ ended' = ended \union ({request[q].token} \ {NoToken})
    /\ Goes(q, "clear")

\* A token that is not found is taken for logged out.
LookUp(q) ==
    /\ request[q].pc = "lookup"
    /\ IF request[q].token \in stored
       THEN Goes(q, "delete") /\ UNCHANGED ended
       ELSE LoggedOut(q)
    /\ UNCHANGED <<stored, expired, issued, parent, cookie, factorVars, lost, faults>>

\* A row that has gone since makes the logout fail.
DeleteToken(q) ==
    /\ request[q].pc = "delete"
    /\ IF request[q].token \in stored
       THEN LoggedOut(q) /\ stored' = stored \ {request[q].token}
       ELSE Ends(q) /\ UNCHANGED <<stored, ended>>
    /\ UNCHANGED <<expired, issued, parent, cookie, factorVars, lost, faults>>

\* The answer reaches the browser and sets or clears its cookie, which expires with its token.
Answer(q) ==
    /\ request[q].pc \in {"answer", "clear"}
    /\ cookie' = IF request[q].new \in expired THEN NoToken ELSE request[q].new
    /\ Ends(q)
    /\ UNCHANGED <<stored, expired, issued, parent, ended, factorVars, lost, faults>>

\* (The expiry of a token that is in no row makes no difference.)
TokenExpires(t) ==
    /\ t \in stored \ expired
    /\ expired' = expired \union {t}
    /\ cookie' = IF cookie = t THEN NoToken ELSE cookie
    /\ UNCHANGED <<stored, issued, parent, ended, factorVars, request, lost, faults>>

DeleteExpiredRefreshTokens ==
    /\ stored' = stored \ expired
    /\ stored' # stored
    /\ UNCHANGED <<expired, issued, parent, cookie, ended, factorVars, request, lost, faults>>

-----------------------------------------------------------------------------
(* The second factor                                                       *)

\* What a use case does with the user it was given, from the cache or the database.
Uses(op, user) == [Started(IF op = "setup" THEN "write" ELSE "verify", NoToken) EXCEPT !.op = op, !.user = user]

\* A guard or a page that reads the user is done; the set-up wants no secret, disable-2fa wants one.
Checked(q, op, user) ==
    request' = [request EXCEPT ![q] =
        CASE op = "setup"   /\ ~user.enabled -> Uses(op, user)
          [] op = "disable" /\ user.enabled  -> Uses(op, user)
          [] OTHER                           -> Idle]

\* A hit is used as it is, whichever loader has stored it.
GetUser(q, op) ==
    /\ request[q].pc = "idle"
    /\ entry.known
    /\ Checked(q, op, entry)
    /\ UNCHANGED <<sessionVars, factorVars, lost, faults>>

\* On a miss one request takes the lock and loads the user: findUserById, or findSafeUserById,
\* which leaves the secret out.
LoadUser(q, op) ==
    /\ request[q].pc = "idle"
    /\ ~entry.known
    /\ lock = NoRequest
    /\ lock' = q
    /\ request' = [request EXCEPT ![q] = [Started("store", NoToken) EXCEPT
                                           !.op = op,
                                           !.user = IF op = "read" THEN SafeUser ELSE FullUser]]
    /\ UNCHANGED <<sessionVars, secret, entry, lost, faults>>

\* Mutant: the lock is left to expire.
StoreUserKeepLock(q) ==
    /\ request[q].pc = "store"
    /\ entry' = request[q].user
    /\ Checked(q, request[q].op, request[q].user)
    /\ UNCHANGED <<sessionVars, secret, lock, lost, faults>>

StoreUser(q) ==
    /\ request[q].pc = "store"
    /\ entry' = request[q].user
    /\ lock' = NoRequest
    /\ Checked(q, request[q].op, request[q].user)
    /\ UNCHANGED <<sessionVars, secret, lost, faults>>

\* The code of disable-2fa is right or wrong.
VerifyCode(q) ==
    /\ request[q].pc = "verify"
    /\ Goes(q, "write") \/ Ends(q)
    /\ UNCHANGED <<sessionVars, factorVars, lost, faults>>

\* Nobody's copy of the user is sure any more.
Unsure(r) == [r EXCEPT !.user = [r.user EXCEPT !.sure = FALSE]]

\* updateOne with a secret that is generated, or with none.
WriteSecret(q) ==
    /\ request[q].pc = "write"
    /\ secret' \in IF request[q].op = "setup" THEN Secrets \ {secret} ELSE {NoSecret}
    /\ entry' = [entry EXCEPT !.sure = FALSE]
    /\ request' = [r \in Requests |-> IF r = q THEN Started("invalidate", NoToken)
                                      ELSE Unsure(request[r])]
    /\ UNCHANGED <<sessionVars, lock, lost, faults>>

InvalidateUser(q) ==
    /\ request[q].pc = "invalidate"
    /\ entry' = NoUser
    /\ Ends(q)
    /\ UNCHANGED <<sessionVars, secret, lock, lost, faults>>

-----------------------------------------------------------------------------
Fault == faults < MaxFaults /\ faults' = faults + 1

\* ttlSeconds is over, or another update of the user invalidates the key.
EntryExpires ==
    /\ Fault
    /\ entry.known
    /\ entry' = NoUser
    /\ UNCHANGED <<sessionVars, secret, lock, request, lost>>

\* Bound: there is no token left for the request to go on with.
OutOfTokens(q) == request[q].pc = "rotate" /\ issued = MaxTokens

\* The process dies, a call fails, or the answer does not reach the browser.  A lock it held
\* expires.
RequestDies(q) ==
    /\ IF OutOfTokens(q) THEN UNCHANGED faults ELSE Fault
    /\ request[q].pc # "idle"
    /\ lock' = IF lock = q THEN NoRequest ELSE lock
    /\ lost' = IF request[q].pc \in {"answer", "clear"} THEN lost \union {request[q].token} ELSE lost
    /\ Ends(q)
    /\ UNCHANGED <<sessionVars, secret, entry>>

-----------------------------------------------------------------------------
Init ==
    /\ stored = {}
    /\ expired = {}
    /\ issued = 0
    /\ parent = [t \in Tokens |-> NoToken]
    /\ cookie = NoToken
    /\ secret = NoSecret
    /\ entry = NoUser
    /\ lock = NoRequest
    /\ request = [q \in Requests |-> Idle]
    /\ ended = {}
    /\ lost = {}
    /\ faults = 0

SessionSteps(q) ==
    \/ Login(q)
    \/ StartRefresh(q) \/ FindUser(q) \/ Rotate(q)
    \/ StartLogout(q) \/ LookUp(q) \/ DeleteToken(q)
    \/ Answer(q)

FactorSteps(q) ==
    \/ \E op \in {"read", "setup", "disable"} : GetUser(q, op) \/ LoadUser(q, op)
    \/ StoreUser(q) \/ VerifyCode(q) \/ WriteSecret(q) \/ InvalidateUser(q)

Next ==
    \/ \E q \in Requests : SessionSteps(q)
    \/ \E q \in Requests : FactorSteps(q)
    \/ \E q \in Requests : RequestDies(q)
    \/ \E t \in Tokens : TokenExpires(t)
    \/ DeleteExpiredRefreshTokens
    \/ EntryExpires

Spec == Init /\ [][Next]_vars

-----------------------------------------------------------------------------
RequestStates == [pc : Pcs, token : 0 .. MaxTokens, new : 0 .. MaxTokens, op : Ops, user : Users]

\* A request brings a new token exactly while its answer is on the way.
Regular(r) ==
    /\ r.new # NoToken <=> r.pc = "answer"
    /\ r.pc \in {"find", "rotate", "delete"} => r.token # NoToken
    /\ r.pc \in {"store", "verify", "write"} <=> r.op # "none"
    /\ r.pc = "verify" => r.op = "disable"

\* It knows only tokens that were signed, and holds the lock of the user's key exactly while it
\* loads the user.
RequestOK ==
    /\ request \in [Requests -> RequestStates]
    /\ \A q \in Requests : /\ Regular(request[q])
                           /\ request[q].token <= issued /\ request[q].new <= issued
                           /\ lock = q <=> request[q].pc = "store"

\* The shape of the state.
TypeOK ==
    /\ issued \in 0 .. MaxTokens
    /\ stored \subseteq 1 .. issued
    /\ expired \subseteq 1 .. issued
    /\ parent \in [Tokens -> 0 .. issued]
    /\ cookie \in 0 .. issued
    /\ secret \in Secrets \union {NoSecret}
    /\ entry \in Users
    /\ lock \in Requests \union {NoRequest}
    /\ RequestOK
    /\ ended \subseteq 1 .. issued
    /\ lost \subseteq 0 .. issued
    /\ faults \in 0 .. MaxFaults

\* Of all the refreshes that send a token one gets a new one, and a token that was replaced is
\* in no row again: a session is one chain of tokens with one end.
OneWinnerPerToken ==
    /\ \A a, b \in Tokens : parent[a] = parent[b] /\ parent[a] # NoToken => a = b
    /\ \A a \in Tokens : parent[a] \notin stored

\* A token whose logout was accepted is in no row, and no refresh that was under way gets a
\* new one for it afterwards.
LogoutIsFinal ==
    [][\A t \in ended : /\ t \notin stored'
                        /\ \A a \in Tokens : parent'[a] = t => parent[a] = t]_vars

\* The browser is never left with a dead token by requests that cross each other: the token of
\* its cookie is in a row, or the answer that replaces or clears it is on the way or was lost.
CookieLives ==
    cookie # NoToken =>
        \/ cookie \in stored \union lost
        \/ \E q \in Requests : request[q].token = cookie /\ request[q].pc \in {"answer", "clear"}

\* A second factor that is enabled is not replaced by a set-up, which is to refuse then.
EnabledIsKept == [][secret # NoSecret => secret' \in {NoSecret, secret}]_vars

\* It is replaced only by a set-up that looked at a user without a secret, or at one the
\* database no longer had.
ReplacedOnlyIfMisled ==
    [][secret # NoSecret /\ secret' \notin {NoSecret, secret} =>
        \E q \in Requests : /\ request[q].pc = "write" /\ request'[q].pc = "invalidate"
                            /\ ~request[q].user.sure]_vars
================================================================================
