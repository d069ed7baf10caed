----------------------------- MODULE SessionProofs -----------------------------
(***************************************************************************)
(* Theorems about AuthSessions, for any requests, tokens, secrets and faults.  *)
(***************************************************************************)
EXTENDS AuthSessions, TLAPS

-----------------------------------------------------------------------------
(* The type invariant                                                      *)

LEMMA UserTypes == NoUser \in Users /\ SafeUser \in Users /\ FullUser \in Users
BY DEF NoUser, SafeUser, FullUser, Users

LEMMA StartedType ==
    ASSUME NEW pc \in Pcs, NEW t \in 0 .. MaxTokens
    PROVE  Started(pc, t) \in RequestStates
BY UserTypes, SessionAssumption DEF Started, RequestStates, Ops, NoToken

LEMMA StartedFields ==
    ASSUME NEW pc, NEW t
    PROVE  /\ Started(pc, t).pc = pc /\ Started(pc, t).token = t /\ Started(pc, t).new = NoToken
           /\ Started(pc, t).op = "none" /\ Started(pc, t).user = NoUser
BY DEF Started

\* A request that is regular, knows signed tokens only and holds no lock.
Settled(r) ==
    /\ r \in RequestStates
    /\ Regular(r)
    /\ r.token <= issued /\ r.new <= issued
    /\ r.pc # "store"

LEMMA IdleSettled == issued \in Nat => Settled(Idle)
BY StartedType, StartedFields, SessionAssumption DEF Idle, Settled, Regular, Pcs, NoToken

\* The request that a checked user leaves behind.
LEMMA UsesSettled ==
    ASSUME issued \in Nat, NEW op \in {"setup", "disable"}, NEW user \in Users
    PROVE  /\ Settled(Uses(op, user))
           /\ Uses(op, user).op = op /\ Uses(op, user).user = user
<1> DEFINE pc == IF op = "setup" THEN "write" ELSE "verify"
           s  == Started(pc, NoToken)
<1>1. s \in RequestStates /\ s.pc = pc /\ s.token = NoToken /\ s.new = NoToken
  BY StartedType, StartedFields, SessionAssumption DEF Pcs, NoToken
<1> DEFINE r == [s EXCEPT !.op = op, !.user = user]
<1>2. Uses(op, user) = r
  BY DEF Uses
<1> HIDE DEF s
<1>3. /\ r \in RequestStates /\ r.pc = pc /\ r.token = NoToken /\ r.new = NoToken
      /\ r.op = op /\ r.user = user
  BY <1>1 DEF RequestStates, Ops
<1>4. pc \in {"write", "verify"} /\ (pc = "verify" => op = "disable")
  OBVIOUS
<1> HIDE DEF r, pc
<1>5. QED
  BY <1>2, <1>3, <1>4 DEF Settled, Regular, NoToken

\* How a step keeps the requests: one of them is replaced, by one that holds the lock or not.
LEMMA RequestMoves ==
    ASSUME RequestOK, NEW q \in Requests, NEW r, Settled(r), request' = [request EXCEPT ![q] = r],
           UNCHANGED issued,
           lock' = IF lock = q THEN NoRequest ELSE lock
    PROVE  RequestOK'
BY SessionAssumption DEF RequestOK, Settled

LEMMA RequestEnds ==
    ASSUME RequestOK, issued \in Nat, NEW q \in Requests, Ends(q), UNCHANGED issued,
           lock' = IF lock = q THEN NoRequest ELSE lock
    PROVE  RequestOK'
<1>1. request' = [request EXCEPT ![q] = Idle]
  BY DEF Ends
<1>2. QED
  BY <1>1, IdleSettled, RequestMoves

\* A request that goes on and keeps what it has.
LEMMA RequestGoes ==
    ASSUME RequestOK, NEW q \in Requests, NEW pc \in {"rotate", "delete", "clear", "write"}, Goes(q, pc),
           UNCHANGED <<issued, lock>>,
           request[q].pc \in {"find", "lookup", "delete", "verify"},
           pc = "write" <=> request[q].pc = "verify",
           pc \in {"rotate", "delete"} => request[q].token # NoToken
    PROVE  RequestOK'
<1> DEFINE r == [request[q] EXCEPT !.pc = pc]
<1>1. Settled(r)
  BY DEF RequestOK, RequestStates, Regular, Settled, Pcs, NoToken
<1>2. request' = [request EXCEPT ![q] = r]
  BY DEF Goes, RequestOK
<1>3. lock # q
  BY DEF RequestOK
<1> HIDE DEF r
<1>4. QED
  BY <1>1, <1>2, <1>3, RequestMoves

\* What Checked leaves of the request: it ends, or it goes on with the user.
LEMMA CheckedCases ==
    ASSUME NEW q \in Requests, NEW op, NEW user, Checked(q, op, user)
    PROVE  \/ request' = [request EXCEPT ![q] = Idle]
           \/ op = "setup" /\ ~user.enabled /\ request' = [request EXCEPT ![q] = Uses(op, user)]
           \/ op = "disable" /\ user.enabled /\ request' = [request EXCEPT ![q] = Uses(op, user)]
BY DEF Checked

LEMMA RequestChecked ==
    ASSUME RequestOK, issued \in Nat, NEW q \in Requests, NEW op, NEW user \in Users, Checked(q, op, user),
           UNCHANGED issued,
           lock' = IF lock = q THEN NoRequest ELSE lock
    PROVE  RequestOK'
BY CheckedCases, IdleSettled, UsesSettled, RequestMoves

-----------------------------------------------------------------------------
\* The state keeps its shape (TypeOK): tokens are signed before they are used, a request brings
\* a new token exactly while its answer is on the way, and has the lock while it loads the user.
LEMMA TypeStep == TypeOK /\ [Next]_vars => TypeOK'
<1> SUFFICES ASSUME TypeOK, [Next]_vars PROVE TypeOK'
  OBVIOUS
<1> USE SessionAssumption DEF NoToken, Tokens
<1>0. issued \in Nat /\ issued <= MaxTokens /\ RequestOK
  BY DEF TypeOK
<1>1. ASSUME NEW q \in Requests, Login(q) PROVE TypeOK'
  <2> DEFINE r == [Started("answer", NoToken) EXCEPT !.new = issued + 1]
  <2>1. issued + 1 \in 0 .. MaxTokens
    BY <1>0, <1>1 DEF Login
  <2>2. Started("answer", NoToken) \in RequestStates
    BY StartedType DEF Pcs
  <2>3. r \in RequestStates /\ r.pc = "answer" /\ r.new = issued + 1 /\ r.token = 0 /\ r.op = "none"
    BY <1>0, <2>1, <2>2, StartedFields DEF RequestStates
  <2>4. request' = [request EXCEPT ![q] = r]
    BY <1>1 DEF Login
  <2> HIDE DEF r
  <2>5. RequestOK'
    <3>1. request' \in [Requests -> RequestStates]
      BY <1>0, <2>3, <2>4 DEF RequestOK
    <3>2. ASSUME NEW p \in Requests
          PROVE  /\ Regular(request'[p])
                 /\ request'[p].token <= issued + 1 /\ request'[p].new <= issued + 1
                 /\ lock = p <=> request'[p].pc = "store"
      BY <1>0, <1>1, <2>3, <2>4 DEF Login, RequestOK, Regular, RequestStates
    <3>3. QED
      BY <1>1, <3>1, <3>2 DEF Login, RequestOK, factorVars
  <2>6. QED
    BY <1>0, <1>1, <2>1, <2>5 DEF Login, TypeOK, factorVars
<1>2. ASSUME NEW q \in Requests, StartRefresh(q) \/ StartLogout(q) PROVE TypeOK'
  <2>1. cookie \in 0 .. MaxTokens /\ cookie <= issued
    BY <1>0 DEF TypeOK
  <2>2. PICK pc \in {"find", "lookup"} : /\ request' = [request EXCEPT ![q] = Started(pc, cookie)]
                                         /\ pc = "find" => cookie # 0
    BY <1>2 DEF StartRefresh, StartLogout
  <2>3. Settled(Started(pc, cookie))
    BY <1>0, <2>1, <2>2, StartedType, StartedFields DEF Settled, Regular, Pcs
  <2>4. request[q].pc = "idle" /\ UNCHANGED <<sessionVars, factorVars, lost, faults>>
    BY <1>2 DEF StartRefresh, StartLogout
  <2>5. lock # q
    BY <1>0, <2>4 DEF RequestOK
  <2>6. RequestOK'
    BY <1>0, <2>2, <2>3, <2>4, <2>5, RequestMoves DEF sessionVars, factorVars
  <2>7. QED
    BY <2>4, <2>6 DEF TypeOK, sessionVars, factorVars
<1>3. ASSUME NEW q \in Requests, FindUser(q) \/ VerifyCode(q) PROVE TypeOK'
  <2>1. /\ request[q].pc \in {"find", "verify"}
        /\ \/ Ends(q)
           \/ Goes(q, "rotate") /\ request[q].pc = "find"
           \/ Goes(q, "write") /\ request[q].pc = "verify"
        /\ UNCHANGED <<sessionVars, factorVars, lost, faults>>
    BY <1>3 DEF FindUser, VerifyCode
  <2>2. lock # q /\ (request[q].pc = "find" => request[q].token # 0)
    BY <1>0, <2>1 DEF RequestOK, Regular
  <2>3. RequestOK'
    BY <1>0, <2>1, <2>2, RequestEnds, RequestGoes DEF sessionVars, factorVars
  <2>4. QED
    BY <2>1, <2>3 DEF TypeOK, sessionVars, factorVars
<1>4. ASSUME NEW q \in Requests, Rotate(q) PROVE TypeOK'
  <2>1. issued + 1 \in 0 .. MaxTokens /\ issued + 1 \in Tokens
    BY <1>0, <1>4 DEF Rotate
  <2>2. /\ request[q] \in RequestStates /\ request[q].token \in 0 .. issued
        /\ request[q].pc = "rotate" /\ request[q].op = "none" /\ lock # q
    BY <1>0, <1>4 DEF Rotate, RequestOK, RequestStates, Regular
  <2>3. CASE request[q].token \in stored
    <3> DEFINE r == [request[q] EXCEPT !.pc = "answer", !.new = issued + 1]
    <3>1. /\ r \in RequestStates /\ r.pc = "answer" /\ r.new = issued + 1 /\ r.op = "none"
          /\ r.token = request[q].token
      BY <2>1, <2>2 DEF RequestStates, Pcs
    <3>2. request' = [request EXCEPT ![q] = r]
      BY <1>0, <1>4, <2>3 DEF Rotate, Rotated, RequestOK
    <3> HIDE DEF r
    <3>3. RequestOK'
      <4>1. request' \in [Requests -> RequestStates]
        BY <1>0, <3>1, <3>2 DEF RequestOK
      <4>2. ASSUME NEW p \in Requests
            PROVE  /\ Regular(request'[p])
                   /\ request'[p].token <= issued + 1 /\ request'[p].new <= issued + 1
                   /\ lock = p <=> request'[p].pc = "store"
        BY <1>0, <2>2, <3>1, <3>2 DEF RequestOK, Regular, RequestStates
      <4>3. QED
        BY <1>4, <2>3, <4>1, <4>2 DEF Rotate, Rotated, RequestOK, factorVars
    <3>4. issued' = issued + 1 /\ stored' \subseteq 1 .. issued + 1
      BY <1>0, <1>4, <2>3 DEF Rotate, Rotated, TypeOK
    <3>5. parent' \in [Tokens -> 0 .. issued + 1]
      BY <1>0, <1>4, <2>2, <2>3 DEF Rotate, Rotated, TypeOK
    <3>6. QED
      BY <1>0, <1>4, <2>1, <3>3, <3>4, <3>5 DEF Rotate, TypeOK, factorVars
  <2>4. CASE request[q].token \notin stored
    <3>1. Ends(q) /\ UNCHANGED <<issued, lock>>
      BY <1>4, <2>4 DEF Rotate, factorVars
    <3>2. RequestOK'
      BY <1>0, <2>2, <3>1, RequestEnds
    <3>3. QED
      BY <1>4, <2>4, <3>2 DEF Rotate, TypeOK, factorVars
  <2>5. QED
    BY <2>3, <2>4
<1>5. ASSUME NEW q \in Requests, LookUp(q) \/ DeleteToken(q) PROVE TypeOK'
  <2>1. /\ request[q].pc \in {"lookup", "delete"} /\ request[q].token \in 0 .. issued /\ lock # q
    BY <1>0, <1>5 DEF LookUp, DeleteToken, RequestOK, RequestStates, Regular
  <2>2. /\ \/ Ends(q)
           \/ Goes(q, "clear")
           \/ Goes(q, "delete") /\ request[q].token \in stored
        /\ UNCHANGED <<issued, lock>>
    BY <1>5 DEF LookUp, DeleteToken, LoggedOut, factorVars
  <2>3. RequestOK'
    BY <1>0, <2>1, <2>2, RequestEnds, RequestGoes DEF TypeOK
  <2>4. ended' \subseteq 1 .. issued
    <3>1. ended \subseteq 1 .. issued /\ {request[q].token} \ {0} \subseteq 1 .. issued
      BY <1>0, <2>1 DEF TypeOK
    <3>2. ended' = ended \/ ended' = ended \union ({request[q].token} \ {0})
      BY <1>5 DEF LookUp, DeleteToken, LoggedOut
    <3>3. QED
      BY <3>1, <3>2
  <2>5. QED
    BY <1>5, <2>3, <2>4 DEF LookUp, DeleteToken, TypeOK, factorVars
<1>6. ASSUME NEW q \in Requests, Answer(q) PROVE TypeOK'
  <2>1. request[q].new \in 0 .. issued /\ lock # q
    BY <1>0, <1>6 DEF Answer, RequestOK, RequestStates
  <2>2. RequestOK'
    BY <1>0, <1>6, <2>1, RequestEnds DEF Answer, factorVars
  <2>3. QED
    BY <1>6, <2>1, <2>2 DEF Answer, TypeOK, factorVars
<1>7. ASSUME NEW q \in Requests, NEW op \in {"read", "setup", "disable"}, GetUser(q, op) PROVE TypeOK'
  <2>1. entry \in Users /\ lock # q
    BY <1>0, <1>7 DEF GetUser, TypeOK, RequestOK
  <2>2. RequestOK'
    BY <1>0, <1>7, <2>1, RequestChecked DEF GetUser, sessionVars, factorVars
  <2>3. QED
    BY <1>7, <2>2 DEF GetUser, TypeOK, sessionVars, factorVars
<1>8. ASSUME NEW q \in Requests, NEW op \in {"read", "setup", "disable"}, LoadUser(q, op) PROVE TypeOK'
  <2> DEFINE u == IF op = "read" THEN SafeUser ELSE FullUser
             s == Started("store", NoToken)
             r == [s EXCEPT !.op = op, !.user = u]
  <2>1. /\ s \in RequestStates /\ s.pc = "store" /\ s.token = 0 /\ s.new = 0 /\ u \in Users
    BY StartedType, StartedFields, UserTypes DEF Pcs
  <2>2. request' = [request EXCEPT ![q] = r]
    BY <1>8 DEF LoadUser
  <2> HIDE DEF s, u
  <2>3. r \in RequestStates /\ r.pc = "store" /\ r.token = 0 /\ r.new = 0 /\ r.op = op
    BY <2>1 DEF RequestStates, Ops
  <2> HIDE DEF r
  <2>4. RequestOK'
    <3>1. request' \in [Requests -> RequestStates]
      BY <1>0, <2>2, <2>3 DEF RequestOK
    <3>2. ASSUME NEW p \in Requests
          PROVE  /\ Regular(request'[p])
                 /\ request'[p].token <= issued /\ request'[p].new <= issued
                 /\ q = p <=> request'[p].pc = "store"
      BY <1>0, <1>8, <2>2, <2>3 DEF LoadUser, RequestOK, Regular, RequestStates
    <3>3. QED
      BY <1>8, <3>1, <3>2 DEF LoadUser, RequestOK, sessionVars
  <2>5. QED
    BY <1>8, <2>4 DEF LoadUser, TypeOK, sessionVars
<1>9. ASSUME NEW q \in Requests, StoreUser(q) PROVE TypeOK'
  <2>1. request[q].user \in Users /\ lock = q
    BY <1>0, <1>9 DEF StoreUser, RequestOK, RequestStates
  <2>2. RequestOK'
    BY <1>0, <1>9, <2>1, RequestChecked DEF StoreUser, sessionVars
  <2>3. QED
    BY <1>9, <2>1, <2>2 DEF StoreUser, TypeOK, sessionVars
<1>10. ASSUME NEW q \in Requests, WriteSecret(q) PROVE TypeOK'
  <2> DEFINE s == Started("invalidate", NoToken)
  <2>1. /\ s \in RequestStates /\ s.pc = "invalidate" /\ s.token = 0 /\ s.new = 0 /\ s.op = "none"
    BY StartedType, StartedFields DEF Pcs
  <2>2. request' = [r \in Requests |-> IF r = q THEN s ELSE Unsure(request[r])]
    BY <1>10 DEF WriteSecret
  <2> HIDE DEF s
  <2>3. ASSUME NEW p \in Requests
        PROVE  /\ Unsure(request[p]) \in RequestStates
               /\ Unsure(request[p]).pc = request[p].pc /\ Unsure(request[p]).op = request[p].op
               /\ Unsure(request[p]).token = request[p].token /\ Unsure(request[p]).new = request[p].new
    <3>1. request[p] \in RequestStates
      BY <1>0 DEF RequestOK
    <3>2. [request[p].user EXCEPT !.sure = FALSE] \in Users
      BY <3>1 DEF RequestStates, Users
    <3>3. QED
      BY <3>1, <3>2 DEF Unsure, RequestStates
  <2>4. lock # q
    BY <1>0, <1>10 DEF WriteSecret, RequestOK
  <2>5. RequestOK'
    <3>1. request' \in [Requests -> RequestStates]
      BY <2>1, <2>2, <2>3
    <3>2. ASSUME NEW p \in Requests
          PROVE  /\ Regular(request'[p])
                 /\ request'[p].token <= issued /\ request'[p].new <= issued
                 /\ lock = p <=> request'[p].pc = "store"
      BY <1>0, <2>1, <2>2, <2>3, <2>4 DEF RequestOK, Regular
    <3>3. QED
      BY <1>10, <3>1, <3>2 DEF WriteSecret, RequestOK, sessionVars
  <2>6. entry' \in Users
    BY <1>10 DEF WriteSecret, TypeOK, Users
  <2>7. secret' \in Secrets \union {NoSecret}
    BY <1>10 DEF WriteSecret
  <2>8. QED
    BY <1>10, <2>5, <2>6, <2>7 DEF WriteSecret, TypeOK, sessionVars
<1>11. ASSUME NEW q \in Requests, InvalidateUser(q) PROVE TypeOK'
  <2>1. lock # q
    BY <1>0, <1>11 DEF InvalidateUser, RequestOK
  <2>2. RequestOK'
    BY <1>0, <1>11, <2>1, RequestEnds DEF InvalidateUser, sessionVars
  <2>3. QED
    BY <1>11, <2>2, UserTypes DEF InvalidateUser, TypeOK, sessionVars
<1>12. ASSUME NEW q \in Requests, RequestDies(q) PROVE TypeOK'
  <2>1. RequestOK'
    BY <1>0, <1>12, RequestEnds DEF RequestDies, sessionVars
  <2>2. faults' \in 0 .. MaxFaults
    BY <1>12 DEF RequestDies, Fault, TypeOK
  <2>3. request[q].token \in 0 .. issued
    BY <1>0 DEF RequestOK, RequestStates
  <2>4. lost' \subseteq 0 .. issued /\ lock' \in Requests \union {NoRequest}
    BY <1>12, <2>3 DEF RequestDies, TypeOK
  <2>5. QED
    BY <1>12, <2>1, <2>2, <2>4 DEF RequestDies, TypeOK, sessionVars
<1>13. ASSUME NEW t \in Tokens, TokenExpires(t) PROVE TypeOK'
  <2>1. RequestOK'
    BY <1>0, <1>13 DEF TokenExpires, RequestOK, factorVars
  <2>2. QED
    BY <1>0, <1>13, <2>1 DEF TokenExpires, TypeOK, factorVars
<1>14. CASE DeleteExpiredRefreshTokens \/ EntryExpires \/ UNCHANGED vars
  <2>1. RequestOK'
    BY <1>0, <1>14 DEF DeleteExpiredRefreshTokens, EntryExpires, RequestOK, vars, factorVars, sessionVars
  <2>2. faults' \in 0 .. MaxFaults
    BY <1>14 DEF DeleteExpiredRefreshTokens, EntryExpires, Fault, vars, TypeOK
  <2>3. QED
    BY <1>0, <1>14, <2>1, <2>2, UserTypes
    DEF DeleteExpiredRefreshTokens, EntryExpires, vars, TypeOK, factorVars, sessionVars
<1>15. QED
  BY <1>1, <1>2, <1>3, <1>4, <1>5, <1>6, <1>7, <1>8, <1>9, <1>10, <1>11, <1>12, <1>13, <1>14
  DEF Next, SessionSteps, FactorSteps

\* The tokens, the requests and the user's secret keep their shape, and each place of a request
\* has the token it needs.
THEOREM TypeCorrect == Spec => []TypeOK
<1>1. Init => TypeOK
  <2> SUFFICES ASSUME Init PROVE TypeOK
    OBVIOUS
  <2>1. issued = 0 /\ issued \in Nat
    BY DEF Init
  <2>2. RequestOK
    BY <2>1, IdleSettled, StartedFields, SessionAssumption DEF Init, RequestOK, Settled, Idle
  <2>3. QED
    BY <2>1, <2>2, UserTypes, SessionAssumption DEF Init, TypeOK, Tokens, NoToken
<1>2. QED
  BY <1>1, TypeStep, PTL DEF Spec

-----------------------------------------------------------------------------
(* Sessions                                                                *)

\* Of all the refreshes that send a token one gets a new one (OneWinnerPerToken): the update
\* looks for the row with the old token, and the new one is no row's yet.
THEOREM OneWinner == Spec => []OneWinnerPerToken
<1> USE SessionAssumption DEF NoToken, Tokens
<1>1. Init => OneWinnerPerToken
  BY DEF Init, OneWinnerPerToken
<1>2. TypeOK /\ OneWinnerPerToken /\ [Next]_vars => OneWinnerPerToken'
  <2> SUFFICES ASSUME TypeOK, OneWinnerPerToken, [Next]_vars PROVE OneWinnerPerToken'
    OBVIOUS
  <2>0. issued \in Nat /\ issued <= MaxTokens
    BY DEF TypeOK
  <2>1. ASSUME NEW q \in Requests, Rotate(q), request[q].token \in stored PROVE OneWinnerPerToken'
    <3> DEFINE new == issued + 1
               old == request[q].token
    <3>1. new \in Tokens /\ old \in 1 .. issued
      <4>1. issued < MaxTokens
        BY <2>1 DEF Rotate
      <4>2. old \in 1 .. issued
        BY <2>1 DEF TypeOK
      <4>3. QED
        BY <2>0, <4>1, <4>2
    <3>2. parent' = [parent EXCEPT ![new] = old] /\ stored' = (stored \ {old}) \union {new}
      BY <2>1 DEF Rotate, Rotated
    <3>3. \A a \in Tokens : parent[a] \in 0 .. issued /\ parent[a] # old
      BY <2>1 DEF TypeOK, OneWinnerPerToken
    <3>4. \A a \in Tokens : parent'[a] = IF a = new THEN old ELSE parent[a]
      BY <3>2 DEF TypeOK
    <3> HIDE DEF new, old
    <3>5. new = issued + 1
      BY DEF new
    <3>6. ASSUME NEW a \in Tokens, NEW b \in Tokens, parent'[a] = parent'[b], parent'[a] # 0 PROVE a = b
      BY <3>3, <3>4, <3>6 DEF OneWinnerPerToken
    <3>7. ASSUME NEW a \in Tokens PROVE parent'[a] \notin stored'
      BY <2>0, <3>1, <3>2, <3>3, <3>4, <3>5 DEF OneWinnerPerToken
    <3>8. QED
      BY <3>6, <3>7 DEF OneWinnerPerToken
  <2>2. ASSUME NEW q \in Requests, Login(q) PROVE OneWinnerPerToken'
    <3>1. \A a \in Tokens : parent[a] \in 0 .. issued
      BY DEF TypeOK
    <3>2. QED
      BY <2>0, <2>2, <3>1 DEF Login, OneWinnerPerToken
  <2>3. ASSUME UNCHANGED parent, stored' \subseteq stored PROVE OneWinnerPerToken'
    BY <2>3 DEF OneWinnerPerToken
  <2>4. ASSUME NEW q \in Requests, Rotate(q), request[q].token \notin stored PROVE OneWinnerPerToken'
    BY <2>3, <2>4 DEF Rotate
  <2>5. ASSUME NEW q \in Requests, SessionSteps(q) PROVE OneWinnerPerToken'
    BY <2>1, <2>2, <2>3, <2>4, <2>5
    DEF SessionSteps, StartRefresh, FindUser, StartLogout, LookUp, DeleteToken, Answer, sessionVars
  <2>6. ASSUME NEW q \in Requests, FactorSteps(q) \/ RequestDies(q) PROVE OneWinnerPerToken'
    BY <2>3, <2>6 DEF FactorSteps, GetUser, LoadUser, StoreUser, VerifyCode, WriteSecret, InvalidateUser,
       RequestDies, sessionVars
  <2>7. CASE \/ \E t \in Tokens : TokenExpires(t)
             \/ DeleteExpiredRefreshTokens \/ EntryExpires \/ UNCHANGED vars
    BY <2>3, <2>7 DEF TokenExpires, DeleteExpiredRefreshTokens, EntryExpires, vars, sessionVars
  <2>8. QED
    BY <2>5, <2>6, <2>7 DEF Next
<1>3. QED
  BY <1>1, <1>2, TypeCorrect, PTL DEF Spec

\* A token that was logged out is in no row: tokens are inserted when they are signed, and
\* never again.
EndedAreGone == ended \intersect stored = {}

LEMMA EndedStep == TypeOK /\ EndedAreGone /\ [Next]_vars => EndedAreGone'
<1> SUFFICES ASSUME TypeOK, EndedAreGone, [Next]_vars PROVE EndedAreGone'
  OBVIOUS
<1> USE SessionAssumption DEF NoToken, Tokens
<1>1. issued \in Nat /\ issued + 1 \notin ended
  BY DEF TypeOK
<1>2. ASSUME NEW q \in Requests, Login(q) \/ Rotate(q) PROVE EndedAreGone'
  <2>1. ended' = ended /\ stored' \subseteq stored \union {issued + 1}
    BY <1>2 DEF Login, Rotate, Rotated
  <2>2. QED
    BY <1>1, <2>1 DEF EndedAreGone
<1>3. ASSUME NEW q \in Requests, LookUp(q) \/ DeleteToken(q) PROVE EndedAreGone'
  <2>1. \/ ended' = ended /\ stored' = stored
        \/ /\ ended' = ended \union ({request[q].token} \ {0})
           /\ request[q].token \notin stored' /\ stored' \subseteq stored
    BY <1>3 DEF LookUp, DeleteToken, LoggedOut
  <2>2. QED
    BY <2>1 DEF EndedAreGone
<1>4. ASSUME UNCHANGED ended, stored' \subseteq stored PROVE EndedAreGone'
  BY <1>4 DEF EndedAreGone
<1>5. ASSUME NEW q \in Requests, SessionSteps(q) PROVE EndedAreGone'
  BY <1>2, <1>3, <1>4, <1>5 DEF SessionSteps, StartRefresh, FindUser, StartLogout, Answer, sessionVars
<1>6. ASSUME NEW q \in Requests, FactorSteps(q) \/ RequestDies(q) PROVE EndedAreGone'
  BY <1>4, <1>6 DEF FactorSteps, GetUser, LoadUser, StoreUser, VerifyCode, WriteSecret, InvalidateUser,
     RequestDies, sessionVars
<1>7. CASE \/ \E t \in Tokens : TokenExpires(t)
           \/ DeleteExpiredRefreshTokens \/ EntryExpires \/ UNCHANGED vars
  BY <1>4, <1>7 DEF TokenExpires, DeleteExpiredRefreshTokens, EntryExpires, vars, sessionVars
<1>8. QED
  BY <1>5, <1>6, <1>7 DEF Next

\* A logout that was accepted is final (LogoutIsFinal): the token is in no row then, so that a
\* rotation which is under way finds none.
THEOREM LogoutFinal == Spec => LogoutIsFinal
<1> DEFINE Final == \A t \in ended : /\ t \notin stored'
                                     /\ \A a \in Tokens : parent'[a] = t => parent[a] = t
<1>1. Init => EndedAreGone
  BY DEF Init, EndedAreGone
<1>2. TypeOK /\ EndedAreGone /\ [Next]_vars => [Final]_vars
  <2> SUFFICES ASSUME TypeOK, EndedAreGone, [Next]_vars, NEW t \in ended
               PROVE  t \notin stored' /\ \A a \in Tokens : parent'[a] = t => parent[a] = t
    OBVIOUS
  <2>1. t \in ended'
    <3>1. ended \subseteq ended'
      BY DEF Next, SessionSteps, FactorSteps, Login, StartRefresh, FindUser, Rotate, StartLogout, LookUp,
         DeleteToken, LoggedOut, Answer, GetUser, LoadUser, StoreUser, VerifyCode, WriteSecret, InvalidateUser,
         RequestDies, TokenExpires, DeleteExpiredRefreshTokens, EntryExpires, vars, sessionVars
    <3>2. QED
      BY <3>1
  <2>2. t \notin stored'
    BY <2>1, EndedStep DEF EndedAreGone
  <2>3. ASSUME NEW q \in Requests, Rotate(q) PROVE \A a \in Tokens : parent'[a] = t => parent[a] = t
    <3>1. CASE request[q].token \in stored
      <4>1. parent' = [parent EXCEPT ![issued + 1] = request[q].token]
        BY <2>3, <3>1 DEF Rotate, Rotated
      <4>2. request[q].token # t
        BY <3>1 DEF EndedAreGone
      <4>3. QED
        BY <4>1, <4>2 DEF TypeOK
    <3>2. CASE request[q].token \notin stored
      BY <2>3, <3>2 DEF Rotate
    <3>3. QED
      BY <3>1, <3>2
  <2>4. (\E q \in Requests : Rotate(q)) \/ UNCHANGED parent
    BY DEF Next, SessionSteps, FactorSteps, Login, StartRefresh, FindUser, StartLogout, LookUp,
       DeleteToken, LoggedOut, Answer, GetUser, LoadUser, StoreUser, VerifyCode, WriteSecret, InvalidateUser,
       RequestDies, TokenExpires, DeleteExpiredRefreshTokens, EntryExpires, vars, sessionVars
  <2>5. QED
    BY <2>2, <2>3, <2>4
<1>3. QED
  BY <1>1, <1>2, EndedStep, TypeCorrect, PTL DEF Spec, LogoutIsFinal

\* A new token whose answer is on the way is in its row unless it expired, and nobody has
\* heard of it yet: neither the browser nor another request.
AnswersAreFresh ==
    \A q \in Requests : request[q].pc = "answer" =>
        /\ request[q].new \in stored \union expired
        /\ cookie # request[q].new
        /\ \A p \in Requests : request[p].token # request[q].new
        /\ \A p \in Requests : p # q => request[p].new # request[q].new

CookieInv == CookieLives /\ cookie \notin expired /\ AnswersAreFresh

\* A step leaves p's answer alone, or moves p elsewhere, with a token it had or the cookie's.
Quiet(p) ==
    \/ /\ request'[p].pc = request[p].pc
       /\ request'[p].token = request[p].token /\ request'[p].new = request[p].new
    \/ /\ request[p].pc \notin {"answer", "clear"} /\ request'[p].pc # "answer"
       /\ request'[p].token \in {NoToken, cookie, request[p].token}
       /\ request'[p].new = NoToken

\* A step that leaves the answers alone keeps the cookie alive, unless it takes its row and
\* brings no answer instead.
LEMMA QuietKeeps ==
    ASSUME TypeOK, CookieInv, \A p \in Requests : Quiet(p),
           cookie' \in {cookie, NoToken}, cookie' \notin expired', lost \subseteq lost',
           cookie' \in stored => \/ cookie' \in stored'
                                 \/ \E q \in Requests : /\ request'[q].token = cookie'
                                                        /\ request'[q].pc \in {"answer", "clear"},
           \A q \in Requests : request[q].pc = "answer" => request[q].new \in stored' \union expired'
    PROVE  CookieInv'
<1>1. CookieLives'
  <2> SUFFICES ASSUME cookie' # NoToken
               PROVE  \/ cookie' \in stored' \union lost'
                      \/ \E q \in Requests : /\ request'[q].token = cookie'
                                             /\ request'[q].pc \in {"answer", "clear"}
    BY DEF CookieLives
  <2>1. cookie' = cookie
    OBVIOUS
  <2>2. ASSUME NEW q \in Requests, request[q].token = cookie, request[q].pc \in {"answer", "clear"}
        PROVE  request'[q].token = cookie' /\ request'[q].pc \in {"answer", "clear"}
    BY <2>1, <2>2 DEF Quiet
  <2>3. QED
    BY <2>1, <2>2 DEF CookieInv, CookieLives
<1>2. AnswersAreFresh'
  <2> SUFFICES ASSUME NEW q \in Requests, request'[q].pc = "answer"
               PROVE  /\ request'[q].new \in stored' \union expired'
                      /\ cookie' # request'[q].new
                      /\ \A p \in Requests : request'[p].token # request'[q].new
                      /\ \A p \in Requests : p # q => request'[p].new # request'[q].new
    BY DEF AnswersAreFresh
  <2>1. request[q].pc = "answer" /\ request'[q].new = request[q].new
    BY DEF Quiet
  <2>2. /\ cookie # request[q].new
        /\ \A p \in Requests : request[p].token # request[q].new
        /\ \A p \in Requests : p # q => request[p].new # request[q].new
    BY <2>1 DEF CookieInv, AnswersAreFresh
  <2>3. request[q].new # NoToken
    BY <2>1 DEF TypeOK, RequestOK, Regular
  <2>4. ASSUME NEW p \in Requests
        PROVE  /\ request'[p].token # request[q].new
               /\ p # q => request'[p].new # request[q].new
    BY <2>2, <2>3 DEF Quiet
  <2>5. QED
    BY <2>1, <2>2, <2>3, <2>4
<1>3. QED
  BY <1>1, <1>2 DEF CookieInv

\* The requests other than the one that moves are quiet.
LEMMA OneIsQuiet ==
    ASSUME RequestOK, NEW q \in Requests, NEW r, request' = [request EXCEPT ![q] = r],
           request[q].pc \notin {"answer", "clear"}, r.pc # "answer",
           r.token \in {NoToken, cookie, request[q].token}, r.new = NoToken
    PROVE  \A p \in Requests : Quiet(p)
BY DEF Quiet, RequestOK

LEMMA EndIsQuiet ==
    ASSUME RequestOK, NEW q \in Requests, Ends(q), request[q].pc \notin {"answer", "clear"}
    PROVE  \A p \in Requests : Quiet(p)
<1>1. Idle.pc # "answer" /\ Idle.token = NoToken /\ Idle.new = NoToken
  BY StartedFields DEF Idle
<1>2. QED
  BY <1>1, OneIsQuiet DEF Ends

LEMMA GoIsQuiet ==
    ASSUME RequestOK, NEW q \in Requests, NEW pc, pc # "answer", Goes(q, pc),
           request[q].pc \notin {"answer", "clear"}
    PROVE  \A p \in Requests : Quiet(p)
<1> DEFINE r == [request[q] EXCEPT !.pc = pc]
<1>1. r.pc = pc /\ r.token = request[q].token /\ r.new = NoToken
  BY DEF RequestOK, RequestStates, Regular
<1>2. request' = [request EXCEPT ![q] = r]
  BY DEF Goes, RequestOK
<1> HIDE DEF r
<1>3. QED
  BY <1>1, <1>2, OneIsQuiet

\* Nothing of the second factor touches an answer.
LEMMA UsesFields ==
    ASSUME NEW op, NEW user
    PROVE  /\ Uses(op, user).pc \in {"write", "verify"}
           /\ Uses(op, user).token = NoToken /\ Uses(op, user).new = NoToken
BY DEF Uses, Started

LEMMA FactorIsQuiet ==
    ASSUME TypeOK, NEW q \in Requests, FactorSteps(q)
    PROVE  (\A p \in Requests : Quiet(p)) /\ UNCHANGED <<sessionVars, lost>>
<1>0. RequestOK
  BY DEF TypeOK
<1>1. ASSUME NEW op, NEW user, Checked(q, op, user), request[q].pc \in {"idle", "store"}
      PROVE  \A p \in Requests : Quiet(p)
  <2>1. Idle.pc # "answer" /\ Idle.token = NoToken /\ Idle.new = NoToken
    BY StartedFields DEF Idle
  <2>2. QED
    BY <1>0, <1>1, <2>1, CheckedCases, UsesFields, OneIsQuiet
<1>2. ASSUME NEW op, GetUser(q, op) PROVE (\A p \in Requests : Quiet(p)) /\ UNCHANGED <<sessionVars, lost>>
  BY <1>1, <1>2 DEF GetUser
<1>3. ASSUME NEW op, LoadUser(q, op) PROVE (\A p \in Requests : Quiet(p)) /\ UNCHANGED <<sessionVars, lost>>
  <2> DEFINE r == [Started("store", NoToken) EXCEPT !.op = op,
                                                    !.user = IF op = "read" THEN SafeUser ELSE FullUser]
  <2>1. r.pc = "store" /\ r.token = NoToken /\ r.new = NoToken
    BY DEF Started
  <2>2. request' = [request EXCEPT ![q] = r] /\ request[q].pc = "idle"
    BY <1>3 DEF LoadUser
  <2> HIDE DEF r
  <2>3. QED
    BY <1>0, <1>3, <2>1, <2>2, OneIsQuiet DEF LoadUser
<1>4. CASE StoreUser(q)
  BY <1>1, <1>4 DEF StoreUser
<1>5. CASE VerifyCode(q)
  BY <1>0, <1>5, EndIsQuiet, GoIsQuiet DEF VerifyCode
<1>6. CASE WriteSecret(q)
  <2>1. ASSUME NEW p \in Requests PROVE Quiet(p)
    <3>1. CASE p = q
      <4>1. request'[p] = Started("invalidate", NoToken) /\ request[p].pc = "write"
        BY <1>6, <3>1 DEF WriteSecret
      <4>2. QED
        BY <4>1, StartedFields DEF Quiet
    <3>2. CASE p # q
      <4>1. request'[p] = Unsure(request[p]) /\ request[p] \in RequestStates
        BY <1>0, <1>6, <3>2 DEF WriteSecret, RequestOK
      <4>2. QED
        BY <4>1 DEF Quiet, Unsure, RequestStates
    <3>3. QED
      BY <3>1, <3>2
  <2>2. QED
    BY <1>6, <2>1 DEF WriteSecret
<1>7. CASE InvalidateUser(q)
  BY <1>0, <1>7, EndIsQuiet DEF InvalidateUser
<1>8. QED
  BY <1>2, <1>3, <1>4, <1>5, <1>6, <1>7 DEF FactorSteps

LEMMA CookieStep == TypeOK /\ CookieInv /\ [Next]_vars => CookieInv'
<1> SUFFICES ASSUME TypeOK, CookieInv, [Next]_vars PROVE CookieInv'
  OBVIOUS
<1> USE SessionAssumption DEF NoToken, Tokens
<1>0. /\ RequestOK /\ issued \in Nat /\ cookie \in 0 .. issued /\ cookie \notin expired
      /\ stored \subseteq 1 .. issued /\ expired \subseteq 1 .. issued
      /\ \A q \in Requests : request[q].pc = "answer" => request[q].new \in stored \union expired
  BY DEF TypeOK, CookieInv, AnswersAreFresh
<1>1. ASSUME \A p \in Requests : Quiet(p), UNCHANGED <<stored, expired, cookie, lost>> PROVE CookieInv'
  BY <1>0, <1>1, QuietKeeps
\* A request brings a token that was signed just now.
<1>2. ASSUME NEW q \in Requests, NEW r, request' = [request EXCEPT ![q] = r],
             request[q].pc \notin {"answer", "clear"},
             r.pc = "answer", r.new = issued + 1, r.token = 0 \/ r.token = request[q].token,
             issued + 1 \in stored', stored \ {r.token} \subseteq stored',
             UNCHANGED <<expired, cookie, lost>>
      PROVE  CookieInv'
  <2>1. /\ request'[q] = r
        /\ \A p \in Requests : p # q => request'[p] = request[p]
    BY <1>0, <1>2 DEF RequestOK
  <2>2. \A p \in Requests : request[p].token \in 0 .. issued /\ request[p].new \in 0 .. issued
    BY <1>0 DEF RequestOK, RequestStates
  <2>3. CookieLives'
    <3>1. ASSUME NEW p \in Requests, request[p].token = cookie, request[p].pc \in {"answer", "clear"}
          PROVE  request'[p].token = cookie' /\ request'[p].pc \in {"answer", "clear"}
      BY <1>2, <2>1, <3>1
    <3>2. cookie' # NoToken /\ cookie \in stored => cookie' \in stored' \/ request'[q].token = cookie'
      BY <1>2, <2>1
    <3>3. QED
      BY <1>2, <2>1, <3>1, <3>2 DEF CookieInv, CookieLives
  <2>4. AnswersAreFresh'
    <3> SUFFICES ASSUME NEW p \in Requests, request'[p].pc = "answer"
                 PROVE  /\ request'[p].new \in stored' \union expired'
                        /\ cookie' # request'[p].new
                        /\ \A s \in Requests : request'[s].token # request'[p].new
                        /\ \A s \in Requests : s # p => request'[s].new # request'[p].new
      BY DEF AnswersAreFresh
    <3>1. CASE p = q
      <4>1. \A s \in Requests : request'[s].token \in 0 .. issued
        <5>1. r.token \in 0 .. issued
          BY <1>0, <1>2, <2>2
        <5>2. QED
          BY <2>1, <2>2, <5>1
      <4>2. QED
        BY <1>0, <1>2, <2>1, <2>2, <3>1, <4>1
    <3>2. CASE p # q
      <4>1. /\ request[p].pc = "answer" /\ request'[p].new = request[p].new
            /\ request[p].new \in stored \union expired /\ cookie # request[p].new
            /\ \A s \in Requests : request[s].token # request[p].new
            /\ \A s \in Requests : s # p => request[s].new # request[p].new
        BY <2>1, <3>2 DEF CookieInv, AnswersAreFresh
      <4>2. request[p].new # 0 /\ request[p].new <= issued
        BY <1>0, <4>1 DEF RequestOK, Regular
      <4>3. r.token # request[p].new
        BY <1>2, <4>1, <4>2
      <4>4. QED
        BY <1>0, <1>2, <2>1, <2>2, <4>1, <4>2, <4>3
    <3>3. QED
      BY <3>1, <3>2
  <2>5. QED
    BY <1>0, <1>2, <2>3, <2>4 DEF CookieInv
<1>3. ASSUME NEW q \in Requests, Login(q) PROVE CookieInv'
  <2> DEFINE r == [Started("answer", NoToken) EXCEPT !.new = issued + 1]
  <2>1. r.pc = "answer" /\ r.new = issued + 1 /\ r.token = 0
    BY DEF Started
  <2>2. request' = [request EXCEPT ![q] = r]
    BY <1>3 DEF Login
  <2> HIDE DEF r
  <2>3. QED
    BY <1>2, <1>3, <2>1, <2>2 DEF Login
<1>4. ASSUME NEW q \in Requests, Rotate(q), request[q].token \in stored PROVE CookieInv'
  <2> DEFINE r == [request[q] EXCEPT !.pc = "answer", !.new = issued + 1]
  <2>1. r.pc = "answer" /\ r.new = issued + 1 /\ r.token = request[q].token
    BY <1>0 DEF RequestOK, RequestStates
  <2>2. request' = [request EXCEPT ![q] = r]
    BY <1>0, <1>4 DEF Rotate, Rotated, RequestOK
  <2> HIDE DEF r
  <2>3. QED
    BY <1>2, <1>4, <2>1, <2>2 DEF Rotate
<1>5. ASSUME NEW q \in Requests, Rotate(q), request[q].token \notin stored PROVE CookieInv'
  BY <1>0, <1>1, <1>5, EndIsQuiet DEF Rotate
<1>6. ASSUME NEW q \in Requests, StartRefresh(q) \/ StartLogout(q) PROVE CookieInv'
  <2>1. PICK pc \in {"find", "lookup"} : request' = [request EXCEPT ![q] = Started(pc, cookie)]
    BY <1>6 DEF StartRefresh, StartLogout
  <2> DEFINE r == Started(pc, cookie)
  <2>2. \A p \in Requests : Quiet(p)
    <3>1. r.pc = pc /\ r.token = cookie /\ r.new = NoToken
      BY StartedFields
    <3>2. request' = [request EXCEPT ![q] = r] /\ request[q].pc = "idle"
      BY <1>6, <2>1 DEF StartRefresh, StartLogout
    <3> HIDE DEF r
    <3>3. QED
      BY <1>0, <3>1, <3>2, OneIsQuiet
  <2>3. QED
    BY <1>1, <1>6, <2>2 DEF StartRefresh, StartLogout, sessionVars
<1>7. ASSUME NEW q \in Requests, FindUser(q) \/ LookUp(q) PROVE CookieInv'
  <2>1. \A p \in Requests : Quiet(p)
    BY <1>0, <1>7, EndIsQuiet, GoIsQuiet DEF FindUser, LookUp, LoggedOut
  <2>2. QED
    BY <1>1, <1>7, <2>1 DEF FindUser, LookUp, sessionVars
<1>8. ASSUME NEW q \in Requests, DeleteToken(q) PROVE CookieInv'
  <2>1. \A p \in Requests : Quiet(p)
    BY <1>0, <1>8, EndIsQuiet, GoIsQuiet DEF DeleteToken, LoggedOut
  <2>2. CASE request[q].token \in stored
    <3>1. stored' = stored \ {request[q].token} /\ Goes(q, "clear")
      BY <1>8, <2>2 DEF DeleteToken, LoggedOut
    <3>2. request'[q].pc = "clear" /\ request'[q].token = request[q].token
      BY <1>0, <3>1 DEF Goes, RequestOK, RequestStates
    <3>3. \A p \in Requests : request[p].pc = "answer" => request[p].new # request[q].token
      BY DEF CookieInv, AnswersAreFresh
    <3>4. cookie' = cookie /\ expired' = expired /\ lost' = lost
      BY <1>8 DEF DeleteToken
    <3>5. cookie' \in stored => \/ cookie' \in stored'
                                \/ request'[q].token = cookie' /\ request'[q].pc \in {"answer", "clear"}
      BY <3>1, <3>2, <3>4
    <3>6. \A p \in Requests : request[p].pc = "answer" => request[p].new \in stored' \union expired'
      BY <1>0, <3>1, <3>3, <3>4
    <3>7. QED
      BY <1>0, <2>1, <3>4, <3>5, <3>6, QuietKeeps
  <2>3. CASE request[q].token \notin stored
    BY <1>1, <1>8, <2>1, <2>3 DEF DeleteToken
  <2>4. QED
    BY <2>2, <2>3
\* The answer takes the place of the cookie, and its request ends.
<1>9. ASSUME NEW q \in Requests, Ends(q), UNCHANGED <<stored, expired>>, lost \subseteq lost',
             \/ cookie' \in {NoToken, request[q].new} /\ cookie' \notin expired'
             \/ cookie' = cookie /\ (request[q].pc \in {"answer", "clear"} => request[q].token \in lost')
      PROVE  CookieInv'
  <2>1. /\ request'[q].pc = "idle" /\ request'[q].token = 0 /\ request'[q].new = 0
        /\ \A p \in Requests : p # q => request'[p] = request[p]
    BY <1>0, <1>9, StartedFields DEF Ends, Idle, RequestOK
  <2>2. \A p \in Requests : request[p].new # 0 <=> request[p].pc = "answer"
    BY <1>0 DEF RequestOK, Regular
  <2>3. cookie' \notin expired'
    BY <1>0, <1>9
  <2>4. CookieLives'
    <3>1. CASE cookie' = 0
      BY <3>1 DEF CookieLives
    <3>2. CASE cookie' # 0 /\ cookie' = request[q].new
      <4>1. request[q].new \in stored \union expired
        BY <1>0, <2>2, <3>2
      <4>2. QED
        BY <1>9, <2>3, <3>2, <4>1 DEF CookieLives
    <3>3. CASE cookie' = cookie /\ (request[q].pc \in {"answer", "clear"} => request[q].token \in lost')
      BY <1>9, <2>1, <3>3 DEF CookieInv, CookieLives
    <3>4. QED
      BY <1>9, <3>1, <3>2, <3>3
  <2>5. AnswersAreFresh'
    <3> SUFFICES ASSUME NEW p \in Requests, request'[p].pc = "answer"
                 PROVE  /\ request'[p].new \in stored' \union expired'
                        /\ cookie' # request'[p].new
                        /\ \A s \in Requests : request'[s].token # request'[p].new
                        /\ \A s \in Requests : s # p => request'[s].new # request'[p].new
      BY DEF AnswersAreFresh
    <3>1. p # q /\ request[p].pc = "answer" /\ request'[p].new = request[p].new
      BY <2>1
    <3>2. /\ request[p].new \in stored \union expired /\ cookie # request[p].new
          /\ \A s \in Requests : request[s].token # request[p].new
          /\ \A s \in Requests : s # p => request[s].new # request[p].new
      BY <3>1 DEF CookieInv, AnswersAreFresh
    <3>3. request[p].new # 0
      BY <2>2, <3>1
    <3>4. QED
      BY <1>9, <2>1, <3>1, <3>2, <3>3
  <2>6. QED
    BY <2>3, <2>4, <2>5 DEF CookieInv
<1>10. ASSUME NEW q \in Requests, Answer(q) PROVE CookieInv'
  BY <1>0, <1>9, <1>10 DEF Answer
<1>11. ASSUME NEW q \in Requests, RequestDies(q) PROVE CookieInv'
  BY <1>9, <1>11 DEF RequestDies, sessionVars
<1>12. ASSUME NEW q \in Requests, FactorSteps(q) PROVE CookieInv'
  BY <1>1, <1>12, FactorIsQuiet DEF sessionVars
<1>13. CASE (\E t \in Tokens : TokenExpires(t)) \/ DeleteExpiredRefreshTokens
  <2>1. /\ \A p \in Requests : Quiet(p)
        /\ lost' = lost /\ cookie' \in {cookie, 0} /\ cookie' \notin expired'
    BY <1>0, <1>13 DEF TokenExpires, DeleteExpiredRefreshTokens, Quiet
  <2>2. stored \ stored' \subseteq expired' /\ expired \subseteq expired'
    BY <1>13 DEF TokenExpires, DeleteExpiredRefreshTokens
  <2>3. cookie' \in stored => cookie' \in stored'
    BY <2>1, <2>2
  <2>4. \A p \in Requests : request[p].pc = "answer" => request[p].new \in stored' \union expired'
    BY <1>0, <2>2
  <2>5. QED
    BY <2>1, <2>3, <2>4, QuietKeeps
<1>14. CASE EntryExpires \/ UNCHANGED vars
  <2>1. UNCHANGED <<request, stored, expired, cookie, lost>>
    BY <1>14 DEF EntryExpires, vars, sessionVars
  <2>2. QED
    BY <1>1, <2>1 DEF Quiet
<1>15. QED
  BY <1>3, <1>4, <1>5, <1>6, <1>7, <1>8, <1>10, <1>11, <1>12, <1>13, <1>14 DEF Next, SessionSteps

\* The browser is never left with a dead token by requests that cross each other (CookieLives):
\* a token leaves its row only for an answer that is on the way, and no answer brings a token
\* that another request has used up.
THEOREM CookieStaysAlive == Spec => []CookieLives
<1>1. Init => CookieInv
  BY StartedFields, SessionAssumption DEF Init, CookieInv, CookieLives, AnswersAreFresh, Idle
<1>2. CookieInv => CookieLives
  BY DEF CookieInv
<1>3. QED
  BY <1>1, <1>2, CookieStep, TypeCorrect, PTL DEF Spec

-----------------------------------------------------------------------------
(* The second factor                                                       *)

\* What is sure of the user is what the database has, and a set-up that writes has seen no
\* secret.
SureIsTrue ==
    /\ entry.sure => entry.enabled = (secret # NoSecret)
    /\ \A q \in Requests : /\ request[q].user.sure => request[q].user.enabled = (secret # NoSecret)
                           /\ request[q].pc = "write" /\ request[q].op = "setup" => ~request[q].user.enabled

LEMMA UsersSure ==
    /\ ~NoUser.sure /\ ~SafeUser.sure /\ FullUser.enabled = (secret # NoSecret)
    /\ ~NoUser.enabled
BY DEF NoUser, SafeUser, FullUser

\* A request that takes the place of another one, beside the same secret.
LEMMA SureMoves ==
    ASSUME RequestOK, SureIsTrue, NEW q \in Requests, NEW r, request' = [request EXCEPT ![q] = r], UNCHANGED secret,
           r.user.sure => r.user.enabled = (secret # NoSecret),
           r.pc = "write" /\ r.op = "setup" => ~r.user.enabled,
           entry'.sure => entry'.enabled = (secret # NoSecret)
    PROVE  SureIsTrue'
BY DEF SureIsTrue, RequestOK

LEMMA SureEnds ==
    ASSUME RequestOK, SureIsTrue, NEW q \in Requests, Ends(q), UNCHANGED secret,
           entry'.sure => entry'.enabled = (secret # NoSecret)
    PROVE  SureIsTrue'
<1>1. ~Idle.user.sure /\ Idle.pc # "write"
  BY StartedFields, UsersSure DEF Idle
<1>2. request' = [request EXCEPT ![q] = Idle]
  BY DEF Ends
<1>3. QED
  BY <1>1, <1>2, SureMoves

\* A request that goes on beside the same user.
LEMMA SureGoes ==
    ASSUME RequestOK, SureIsTrue, NEW q \in Requests, NEW pc, Goes(q, pc), UNCHANGED <<secret, entry>>,
           pc = "write" => request[q].op = "disable"
    PROVE  SureIsTrue'
<1> DEFINE r == [request[q] EXCEPT !.pc = pc]
<1>1. r.user = request[q].user /\ r.pc = pc /\ r.op = request[q].op
  BY DEF RequestOK, RequestStates
<1>2. request' = [request EXCEPT ![q] = r]
  BY DEF Goes, RequestOK
<1> HIDE DEF r
<1>3. QED
  BY <1>1, <1>2, SureMoves DEF SureIsTrue

LEMMA SureChecked ==
    ASSUME RequestOK, issued \in Nat, SureIsTrue, NEW q \in Requests, NEW op, NEW user \in Users, Checked(q, op, user),
           UNCHANGED secret,
           user.sure => user.enabled = (secret # NoSecret),
           entry'.sure => entry'.enabled = (secret # NoSecret)
    PROVE  SureIsTrue'
<1>1. ~Idle.user.sure /\ Idle.pc # "write"
  BY StartedFields, UsersSure DEF Idle
<1>2. QED
  BY <1>1, CheckedCases, UsesSettled, SureMoves

LEMMA SureStep == TypeOK /\ SureIsTrue /\ [Next]_vars => SureIsTrue'
<1> SUFFICES ASSUME TypeOK, SureIsTrue, [Next]_vars PROVE SureIsTrue'
  OBVIOUS
<1> USE SessionAssumption DEF NoToken
<1>0. RequestOK /\ issued \in Nat /\ (entry.sure => entry.enabled = (secret # NoSecret))
  BY DEF TypeOK, SureIsTrue
<1>1. ASSUME NEW q \in Requests, Login(q) \/ StartRefresh(q) \/ StartLogout(q) PROVE SureIsTrue'
  <2>1. PICK r : /\ request' = [request EXCEPT ![q] = r] /\ r.user = NoUser /\ r.op = "none"
    <3>1. CASE Login(q)
      <4> DEFINE s == Started("answer", NoToken)
      <4>1. [s EXCEPT !.new = issued + 1].user = NoUser /\ [s EXCEPT !.new = issued + 1].op = "none"
        BY DEF Started
      <4>2. QED
        BY <3>1, <4>1 DEF Login
    <3>2. QED
      BY <1>1, <3>1, StartedFields DEF StartRefresh, StartLogout
  <2>2. UNCHANGED <<secret, entry>>
    BY <1>1 DEF Login, StartRefresh, StartLogout, factorVars
  <2>3. QED
    BY <1>0, <2>1, <2>2, UsersSure, SureMoves
<1>2. ASSUME NEW q \in Requests, FindUser(q) \/ VerifyCode(q) \/ LookUp(q) \/ DeleteToken(q) \/ Answer(q)
      PROVE  SureIsTrue'
  <2>1. /\ UNCHANGED <<secret, entry>>
        /\ \/ Ends(q)
           \/ \E pc \in {"rotate", "delete", "clear"} : Goes(q, pc)
           \/ Goes(q, "write") /\ request[q].pc = "verify"
    BY <1>2 DEF FindUser, VerifyCode, LookUp, DeleteToken, LoggedOut, Answer, factorVars
  <2>2. QED
    <3>1. CASE Goes(q, "write") /\ request[q].pc = "verify"
      <4>1. request[q].op = "disable"
        BY <1>0, <3>1 DEF RequestOK, Regular
      <4>2. QED
        BY <1>0, <2>1, <3>1, <4>1, SureGoes
    <3>2. QED
      BY <1>0, <2>1, <3>1, SureEnds, SureGoes
<1>3. ASSUME NEW q \in Requests, Rotate(q) PROVE SureIsTrue'
  <2>1. CASE request[q].token \in stored
    <3> DEFINE r == [request[q] EXCEPT !.pc = "answer", !.new = issued + 1]
    <3>1. r.user = request[q].user /\ r.pc = "answer"
      BY <1>0 DEF RequestOK, RequestStates
    <3>2. request' = [request EXCEPT ![q] = r] /\ UNCHANGED <<secret, entry>>
      BY <1>0, <1>3, <2>1 DEF Rotate, Rotated, RequestOK, factorVars
    <3> HIDE DEF r
    <3>3. QED
      BY <1>0, <3>1, <3>2, SureMoves DEF SureIsTrue
  <2>2. QED
    BY <1>0, <1>3, <2>1, SureEnds DEF Rotate, factorVars
<1>4. ASSUME NEW q \in Requests, NEW op \in {"read", "setup", "disable"}, GetUser(q, op) PROVE SureIsTrue'
  BY <1>0, <1>4, SureChecked DEF GetUser, factorVars, TypeOK
<1>5. ASSUME NEW q \in Requests, NEW op \in {"read", "setup", "disable"}, LoadUser(q, op) PROVE SureIsTrue'
  <2> DEFINE u == IF op = "read" THEN SafeUser ELSE FullUser
             s == Started("store", NoToken)
             r == [s EXCEPT !.op = op, !.user = u]
  <2>1. r.pc = "store" /\ r.user = u
    BY DEF Started
  <2>2. u.sure => u.enabled = (secret # NoSecret)
    BY UsersSure
  <2>3. request' = [request EXCEPT ![q] = r] /\ UNCHANGED <<secret, entry>>
    BY <1>5 DEF LoadUser
  <2> HIDE DEF r, u
  <2>4. QED
    BY <1>0, <2>1, <2>2, <2>3, SureMoves
<1>6. ASSUME NEW q \in Requests, StoreUser(q) PROVE SureIsTrue'
  <2>1. request[q].user \in Users /\ (request[q].user.sure => request[q].user.enabled = (secret # NoSecret))
    BY <1>0 DEF SureIsTrue, RequestOK, RequestStates
  <2>2. QED
    BY <1>0, <1>6, <2>1, SureChecked DEF StoreUser
<1>7. ASSUME NEW q \in Requests, WriteSecret(q) PROVE SureIsTrue'
  <2>1. ~entry'.sure
    BY <1>7 DEF WriteSecret, TypeOK, Users
  <2>2. ASSUME NEW p \in Requests
        PROVE  /\ ~request'[p].user.sure
               /\ request'[p].pc = "write" /\ request'[p].op = "setup" => ~request'[p].user.enabled
    <3>1. CASE p = q
      <4>1. request'[p] = Started("invalidate", NoToken)
        BY <1>7, <3>1 DEF WriteSecret
      <4>2. QED
        BY <4>1, StartedFields, UsersSure
    <3>2. CASE p # q
      <4>1. request'[p] = Unsure(request[p]) /\ request[p] \in RequestStates
        BY <1>0, <1>7, <3>2 DEF WriteSecret, RequestOK
      <4>2. request[p].pc = "write" /\ request[p].op = "setup" => ~request[p].user.enabled
        BY DEF SureIsTrue
      <4>3. request[p].user \in Users
        BY <4>1 DEF RequestStates
      <4> DEFINE u == [request[p].user EXCEPT !.sure = FALSE]
      <4>4. ~u.sure /\ u.enabled = request[p].user.enabled
        BY <4>3 DEF Users
      <4>5. Unsure(request[p]) = [request[p] EXCEPT !.user = u]
        BY DEF Unsure
      <4> HIDE DEF u
      <4>6. QED
        BY <4>1, <4>2, <4>4, <4>5 DEF RequestStates
    <3>3. QED
      BY <3>1, <3>2
  <2>3. QED
    BY <2>1, <2>2 DEF SureIsTrue
<1>8. ASSUME NEW q \in Requests, InvalidateUser(q) \/ RequestDies(q) PROVE SureIsTrue'
  BY <1>0, <1>8, UsersSure, SureEnds DEF InvalidateUser, RequestDies
<1>9. CASE \/ \E t \in Tokens : TokenExpires(t)
           \/ DeleteExpiredRefreshTokens \/ EntryExpires \/ UNCHANGED vars
  BY <1>9, UsersSure DEF TokenExpires, DeleteExpiredRefreshTokens, EntryExpires, vars, factorVars, SureIsTrue
<1>10. QED
  BY <1>1, <1>2, <1>3, <1>4, <1>5, <1>6, <1>7, <1>8, <1>9 DEF Next, SessionSteps, FactorSteps

\* A second factor is replaced only by a set-up that looked at a user without a secret, or at
\* one the database no longer had (ReplacedOnlyIfMisled).
THEOREM Misled == Spec => ReplacedOnlyIfMisled
<1> DEFINE Only == secret # NoSecret /\ secret' \notin {NoSecret, secret} =>
                       \E q \in Requests : /\ request[q].pc = "write" /\ request'[q].pc = "invalidate"
                                           /\ ~request[q].user.sure
<1>1. Init => SureIsTrue
  BY StartedFields, UsersSure DEF Init, SureIsTrue, Idle
<1>2. TypeOK /\ SureIsTrue /\ [Next]_vars => [Only]_vars
  <2> SUFFICES ASSUME TypeOK, SureIsTrue, Next, secret # NoSecret, secret' \notin {NoSecret, secret}
               PROVE  \E q \in Requests : /\ request[q].pc = "write" /\ request'[q].pc = "invalidate"
                                          /\ ~request[q].user.sure
    BY DEF vars
  <2>1. PICK q \in Requests : WriteSecret(q)
    BY DEF Next, SessionSteps, FactorSteps, Login, StartRefresh, FindUser, Rotate, StartLogout, LookUp,
       DeleteToken, Answer, GetUser, LoadUser, StoreUser, VerifyCode, InvalidateUser,
       RequestDies, TokenExpires, DeleteExpiredRefreshTokens, EntryExpires, factorVars
  <2>2. request[q].pc = "write" /\ request[q].op = "setup"
    <3>1. request[q].pc = "write" /\ request[q].op # "none"
      BY <2>1 DEF WriteSecret, TypeOK, RequestOK, Regular
    <3>2. QED
      BY <2>1, <3>1 DEF WriteSecret
  <2>3. request'[q].pc = "invalidate"
    BY <2>1, StartedFields DEF WriteSecret
  <2>4. ~request[q].user.enabled
    BY <2>2 DEF SureIsTrue
  <2>5. QED
    BY <2>2, <2>3, <2>4 DEF SureIsTrue
<1>3. QED
  BY <1>1, <1>2, SureStep, TypeCorrect, PTL DEF Spec, ReplacedOnlyIfMisled
================================================================================
