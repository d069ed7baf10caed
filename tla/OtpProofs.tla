------------------------------- MODULE OtpProofs -------------------------------
(***************************************************************************)
(* Theorems about OtpCodes, for any requests, types of code and bounds.       *)
(***************************************************************************)
EXTENDS OtpCodes, TLAPS

-----------------------------------------------------------------------------
(* The type invariant                                                      *)

LEMMA ConstantTypes ==
    /\ NoRow \in RowStates
    /\ Idle \in RequestStates
    /\ NoJob \in MailJobs
BY OtpAssumption DEF NoRow, Idle, Started, NoJob, RowStates, MailJobs, RequestStates, JobStates, Pcs, NoCode

LEMMA DeleteType ==
    ASSUME otp \in [Types -> RowStates], NEW id, DeleteOtp(id)
    PROVE  otp' \in [Types -> RowStates]
BY ConstantTypes DEF DeleteOtp

\* How a step keeps the requests: one of them is replaced.
LEMMA RequestMoves ==
    ASSUME RequestOK, NEW q \in Requests, NEW r, Regular(r), request' = [request EXCEPT ![q] = r]
    PROVE  RequestOK'
BY DEF RequestOK, Regular

LEMMA RequestEnds ==
    ASSUME RequestOK, NEW q \in Requests, Ends(q)
    PROVE  RequestOK'
<1>1. Regular(Idle)
  BY ConstantTypes DEF Idle, Started, Regular
<1>2. QED
  BY <1>1, ConstantTypes, RequestMoves DEF Ends

LEMMA RequestGoes ==
    ASSUME RequestOK, NEW q \in Requests, NEW pc \in Pcs \ {"reset", "idle"},
           request[q].pc \notin {"reset", "idle"}, Goes(q, pc),
           pc \in {"check", "create"} <=> request[q].pc \in {"check", "create"}
    PROVE  RequestOK'
<1>1. Regular([request[q] EXCEPT !.pc = pc])
  BY DEF RequestOK, Regular, RequestStates
<1>2. request' = [request EXCEPT ![q] = [request[q] EXCEPT !.pc = pc]]
  BY DEF Goes, RequestOK
<1>3. QED
  BY <1>1, <1>2, RequestMoves

LEMMA CodeOf ==
    ASSUME RequestOK, NEW q \in Requests, request[q].pc \notin {"idle", "check", "create"}
    PROVE  request[q].code \in Codes
BY OtpAssumption DEF RequestOK, Regular, RequestStates, Codes, NoCode

\* The state keeps its shape (TypeOK), and a reset ends with its last write.
THEOREM TypeCorrect == Spec => []TypeOK
<1>1. Init => TypeOK
  <2> SUFFICES ASSUME Init PROVE TypeOK
    OBVIOUS
  <2>1. RequestOK
    BY ConstantTypes DEF Init, RequestOK, Regular, Idle, Started
  <2>2. user \in BOOLEAN /\ overtaken \in BOOLEAN
    BY DEF Init
  <2>3. issued \in 0 .. MaxCodes /\ faults \in 0 .. MaxFaults
    BY OtpAssumption DEF Init
  <2>4. QED
    BY <2>1, <2>2, <2>3, ConstantTypes DEF Init, TypeOK
<1>2. TypeOK /\ [Next]_vars => TypeOK'
  <2> SUFFICES ASSUME TypeOK, [Next]_vars PROVE TypeOK'
    OBVIOUS
  <2> USE DEF TypeOK, NoCode
  <2>1. ASSUME NEW q \in Requests, NEW t \in Types, AskForCode(q, t) PROVE TypeOK'
    <3> DEFINE r == Started("check", t, NoCode)
    <3>1. Regular(r)
      BY ConstantTypes, OtpAssumption DEF Regular, Started, RequestStates, Pcs, AllTypes, SecondFactors
    <3>2. RequestOK'
      BY <2>1, <3>1, RequestMoves DEF AskForCode
    <3>3. QED
      BY <2>1, <3>2 DEF AskForCode
  <2>2. ASSUME NEW q \in Requests, CheckUser(q) PROVE TypeOK'
    <3>1. RequestOK'
      BY <2>2, RequestEnds, RequestGoes DEF CheckUser, Pcs
    <3>2. QED
      BY <2>2, <3>1 DEF CheckUser
  <2>3. ASSUME NEW q \in Requests, CreateOtp(q) PROVE TypeOK'
    <3>1. issued + 1 \in 0 .. MaxCodes
      BY <2>3, OtpAssumption DEF CreateOtp
    <3> DEFINE t == request[q].type
               id == IF otp[t] = NoRow THEN issued + 1 ELSE otp[t].id
               r  == [request[q] EXCEPT !.pc = "enqueue", !.code = issued + 1, !.id = id]
    <3>2. t \in Types
      BY <2>3 DEF CreateOtp, RequestOK, Regular, RequestStates
    <3>3. id \in 0 .. MaxCodes
      BY <3>1, <3>2 DEF RowStates
    <3>4. otp' \in [Types -> RowStates]
      BY <2>3, <3>1, <3>3 DEF CreateOtp, RowStates
    <3>5. Regular(r)
      BY <2>3, <3>1, <3>3 DEF CreateOtp, RequestOK, Regular, RequestStates, Pcs
    <3>6. request' = [request EXCEPT ![q] = r]
      BY <2>3 DEF CreateOtp, RequestOK
    <3>7. RequestOK'
      BY <3>5, <3>6, RequestMoves
    <3>8. QED
      BY <2>3, <3>1, <3>4, <3>7 DEF CreateOtp
  <2>4. ASSUME NEW q \in Requests, EnqueueMail(q) PROVE TypeOK'
    <3>1. [state |-> "waiting", id |-> request[q].id] \in MailJobs
      BY DEF RequestOK, Regular, RequestStates, MailJobs, JobStates
    <3>2. QED
      BY <2>4, <3>1, RequestEnds DEF EnqueueMail
  <2>5. ASSUME NEW q \in Requests, NEW t \in Types, NEW c \in Codes, EnterCode(q, t, c) PROVE TypeOK'
    <3> DEFINE r == Started("find", t, c)
    <3>1. c \in 0 .. MaxCodes /\ c # 0 /\ t # "none"
      BY OtpAssumption DEF Codes, AllTypes, SecondFactors
    <3>2. r \in RequestStates
      BY <3>1, OtpAssumption DEF Started, RequestStates, Pcs
    <3>3. Regular(r)
      BY <3>1, <3>2 DEF Regular, Started
    <3>4. RequestOK'
      BY <2>5, <3>3, RequestMoves DEF EnterCode
    <3>5. QED
      BY <2>5, <3>4 DEF EnterCode
  <2>6. ASSUME NEW q \in Requests, FindAndValidateOtpCode(q) PROVE TypeOK'
    <3> DEFINE t == request[q].type
               r == [request[q] EXCEPT !.id = otp[t].id,
                                       !.pc = IF otp[t].expired THEN "expired" ELSE AfterFind(t)]
    <3>1. CASE otp[t].code # request[q].code
      BY <2>6, <3>1, RequestEnds DEF FindAndValidateOtpCode
    <3>2. CASE otp[t].code = request[q].code
      <4>1. t \in Types
        BY <2>6 DEF FindAndValidateOtpCode, RequestOK, Regular, RequestStates
      <4>2. Regular(r)
        BY <2>6, <4>1 DEF FindAndValidateOtpCode, AfterFind, RequestOK, Regular, RequestStates, RowStates, Pcs
      <4>3. request' = [request EXCEPT ![q] = r]
        BY <2>6, <3>2 DEF FindAndValidateOtpCode, RequestOK
      <4>4. QED
        BY <2>6, <4>2, <4>3, RequestMoves DEF FindAndValidateOtpCode
    <3>3. QED
      BY <3>1, <3>2
  <2>7. ASSUME NEW q \in Requests, FindUser(q) PROVE TypeOK'
    <3> DEFINE r == [request[q] EXCEPT !.pc = IF user THEN "reset" ELSE "burn",
                                       !.todo = IF user THEN Writes ELSE {}]
    <3>1. CASE request[q].type = "REGISTER"
      BY <2>7, <3>1, RequestEnds, RequestGoes DEF FindUser, Pcs
    <3>2. CASE request[q].type = "FORGOT_PASSWORD"
      <4>1. Regular(r)
        BY <2>7 DEF FindUser, RequestOK, Regular, RequestStates, Pcs, Writes
      <4>2. request' = [request EXCEPT ![q] = r]
        BY <2>7, <3>2 DEF FindUser, RequestOK
      <4>3. QED
        BY <2>7, <4>1, <4>2, RequestMoves DEF FindUser
    <3>3. QED
      BY <2>7, <3>1, <3>2 DEF FindUser
  <2>8. ASSUME NEW q \in Requests, RefuseCode(q) \/ PassSecondFactor(q) PROVE TypeOK'
    <3>1. otp' \in [Types -> RowStates]
      BY <2>8, DeleteType DEF RefuseCode, PassSecondFactor
    <3>2. used' \subseteq Codes
      BY <2>8, CodeOf DEF RefuseCode, PassSecondFactor
    <3>3. QED
      BY <2>8, <3>1, <3>2, RequestEnds DEF RefuseCode, PassSecondFactor
  <2>9. ASSUME NEW q \in Requests, InsertUser(q) PROVE TypeOK'
    <3>1. otp' \in [Types -> RowStates]
      BY <2>9, DeleteType DEF InsertUser
    <3>2. used' \subseteq Codes
      BY <2>9, CodeOf DEF InsertUser
    <3>3. user' \in BOOLEAN
      BY <2>9 DEF InsertUser
    <3>4. overtaken' \in BOOLEAN
      BY <2>9 DEF InsertUser, InTheWay
    <3>5. QED
      BY <2>9, <3>1, <3>2, <3>3, <3>4, RequestEnds DEF InsertUser
  <2>10. ASSUME NEW q \in Requests, NEW write \in Writes, Reset(q, write) PROVE TypeOK'
    <3> DEFINE left == request[q].todo \ {write}
               r    == [request[q] EXCEPT !.todo = left]
    <3>1. otp' \in [Types -> RowStates]
      BY <2>10, DeleteType DEF Reset
    <3>2. used' \subseteq Codes
      BY <2>10, CodeOf DEF Reset
    <3>3. CASE left = {}
      BY <2>10, <3>1, <3>2, <3>3, RequestEnds DEF Reset
    <3>4. CASE left # {}
      <4>1. Regular(r)
        BY <2>10, <3>4 DEF Reset, RequestOK, Regular, RequestStates
      <4>2. request' = [request EXCEPT ![q] = r]
        BY <2>10, <3>4 DEF Reset, RequestOK
      <4>3. QED
        BY <2>10, <3>1, <3>2, <4>1, <4>2, RequestMoves DEF Reset
    <3>5. QED
      BY <3>3, <3>4
  <2>11. ASSUME NEW c \in Codes, WorkerSteps(c) PROVE TypeOK'
    <3>1. otp' \in [Types -> RowStates]
      BY <2>11, DeleteType DEF WorkerSteps, MailSent, MailFails, CleanUpOtp, CleanUpLost
    <3>2. job' \in [Codes -> MailJobs]
      BY <2>11 DEF WorkerSteps, MailSent, MailFails, CleanUpOtp, CleanUpLost, MailJobs, JobStates
    <3>3. RequestOK'
      BY <2>11 DEF WorkerSteps, MailSent, MailFails, CleanUpOtp, CleanUpLost, RequestOK
    <3>4. QED
      BY <2>11, <3>1, <3>2, <3>3 DEF WorkerSteps, MailSent, MailFails, CleanUpOtp, CleanUpLost
  <2>12. ASSUME NEW t \in Types, CodeExpires(t) PROVE TypeOK'
    <3>1. otp' \in [Types -> RowStates]
      BY <2>12 DEF CodeExpires, RowStates
    <3>2. QED
      BY <2>12, <3>1 DEF CodeExpires, RequestOK
  <2>13. CASE DeleteExpiredOtps
    <3>1. otp' \in [Types -> RowStates]
      BY <2>13, ConstantTypes DEF DeleteExpiredOtps
    <3>2. QED
      BY <2>13, <3>1 DEF DeleteExpiredOtps, RequestOK
  <2>14. CASE MadeElsewhere \/ AdminDeletesUser
    <3>1. user' \in BOOLEAN /\ overtaken' \in BOOLEAN
      BY <2>14 DEF MadeElsewhere, AdminDeletesUser
    <3>2. QED
      BY <2>14, <3>1 DEF MadeElsewhere, AdminDeletesUser, RequestOK
  <2>15. ASSUME NEW q \in Requests, RequestDies(q) PROVE TypeOK'
    <3>1. kept' \subseteq Codes
      BY <2>15, CodeOf DEF RequestDies, RequestOK, Regular
    <3>2. QED
      BY <2>15, <3>1, RequestEnds, OtpAssumption DEF RequestDies
  <2>16. ASSUME NEW q \in Requests, NEW write \in Writes, WriteFails(q, write) PROVE TypeOK'
    <3> DEFINE r == [request[q] EXCEPT !.todo = @ \ {write}]
    <3>1. kept' \subseteq Codes
      BY <2>16, CodeOf DEF WriteFails
    <3>2. Regular(r)
      BY <2>16 DEF WriteFails, RequestOK, Regular, RequestStates
    <3>3. request' = [request EXCEPT ![q] = r]
      BY <2>16 DEF WriteFails, RequestOK
    <3>4. RequestOK'
      BY <3>2, <3>3, RequestMoves
    <3>5. faults + 1 \in 0 .. MaxFaults
      BY <2>16, OtpAssumption DEF WriteFails
    <3>6. QED
      BY <2>16, <3>1, <3>4, <3>5 DEF WriteFails
  <2>17. CASE UNCHANGED vars
    BY <2>17 DEF vars, RequestOK
  <2>18. QED
    BY <2>1, <2>2, <2>3, <2>4, <2>5, <2>6, <2>7, <2>8, <2>9, <2>10, <2>11, <2>12, <2>13, <2>14,
       <2>15, <2>16, <2>17 DEF Next, RequestSteps
<1>3. QED
  BY <1>1, <1>2, PTL DEF Spec

-----------------------------------------------------------------------------
(* Rows and what is known of them                                          *)

\* Ids and codes are handed out in order, and a row's id is that of the code it was inserted for.
Numbered ==
    /\ \A t \in Types : /\ otp[t].id <= otp[t].code
                        /\ otp[t].code <= issued
                        /\ otp[t].id = NoCode => otp[t] = NoRow
    /\ \A q \in Requests : request[q].id <= request[q].code /\ request[q].code <= issued
    /\ \A c \in Codes : /\ job[c].id <= c
                        /\ IF job[c].state = "none" THEN job[c].id = NoCode ELSE c <= issued
    /\ \A c \in mailed \union used : c <= issued

\* No two rows share an id or a code.
RowsApart ==
    \A s, t \in Types :
        s # t => /\ otp[s].id # NoCode => otp[s].id # otp[t].id
                 /\ otp[s].code # NoCode => otp[s].code # otp[t].code

\* A request past its look-up, or with a code of its own, knows the id of the row its code is in;
\* a row that still has a known id holds that code or a newer one.
IdsKnown ==
    /\ \A q \in Requests, t \in Types : request[q].id # NoCode =>
          /\ request[q].code = otp[t].code => request[q].id = otp[t].id
          /\ request[q].id = otp[t].id => request[q].code <= otp[t].code
    /\ \A c \in Codes, t \in Types :
          job[c].id # NoCode /\ job[c].id = otp[t].id => c <= otp[t].code
    /\ \A q \in Requests :
          request[q].pc \in {"enqueue", "expired", "user", "insert", "burn", "reset", "pass"}
          => request[q].id # NoCode

RowInv == Numbered /\ RowsApart /\ IdsKnown

\* What a deletion leaves is the empty row or the row as it was.
LEMMA DeletedRow ==
    ASSUME TypeOK, NEW id, DeleteOtp(id), NEW t \in Types
    PROVE  otp'[t] = NoRow \/ (otp'[t] = otp[t] /\ (id = NoCode \/ otp[t].id # id))
BY DEF TypeOK, DeleteOtp

LEMMA NoRowFields == NoRow.id = NoCode /\ NoRow.code = NoCode /\ NoRow.expired = FALSE
BY DEF NoRow

LEMMA IdleFields == Idle.id = NoCode /\ Idle.code = NoCode /\ Idle.todo = {} /\ Idle.pc = "idle"
                    /\ Idle.type = "none"
BY DEF Idle, Started

\* A request has no row yet, or goes on with the one it knows.
Keeps(r, next) ==
    \/ next.id = NoCode /\ next.code <= issued /\ next.pc \in {"idle", "check", "create", "find"}
    \/ r.id # NoCode /\ next.id = r.id /\ next.code = r.code

\* The steps that issue no code: rows are emptied or keep their id and code, jobs keep their id,
\* and no code is mailed or used that was not issued.
RowsKept ==
    \A t \in Types : \/ otp'[t] = NoRow
                     \/ otp[t] # NoRow /\ otp'[t].id = otp[t].id /\ otp'[t].code = otp[t].code

JobsKept ==
    \A c \in Codes : job'[c].id = job[c].id /\ (job'[c].state = "none" <=> job[c].state = "none")

RequestsKeep == \A q \in Requests : Keeps(request[q], request'[q])
OnlyIssued   == \A c \in mailed' \union used' : c <= issued

LEMMA RowInvKept ==
    ASSUME TypeOK, TypeOK', RowInv, issued' = issued, RowsKept, RequestsKeep, JobsKept, OnlyIssued
    PROVE  RowInv'
<1> USE NoRowFields DEF NoCode, Keeps, RowsKept, RequestsKeep, JobsKept, OnlyIssued
<1>1. issued \in Nat
  BY OtpAssumption DEF TypeOK
<1>2. Numbered'
  <2>1. \A t \in Types : /\ otp'[t].id <= otp'[t].code
                         /\ otp'[t].code <= issued
                         /\ otp'[t].id = NoCode => otp'[t] = NoRow
    <3> SUFFICES ASSUME NEW t \in Types
                 PROVE  /\ otp'[t].id <= otp'[t].code
                        /\ otp'[t].code <= issued
                        /\ otp'[t].id = NoCode => otp'[t] = NoRow
      OBVIOUS
    <3>1. CASE otp'[t] = NoRow
      BY <1>1, <3>1
    <3>2. CASE otp'[t] # NoRow
      BY <3>2 DEF RowInv, Numbered
    <3>3. QED
      BY <3>1, <3>2
  <2>2. \A q \in Requests : request'[q].id <= request'[q].code /\ request'[q].code <= issued
    BY <1>1 DEF RowInv, Numbered, TypeOK, RequestOK, Regular, RequestStates
  <2>3. \A c \in Codes : /\ job'[c].id <= c
                          /\ IF job'[c].state = "none" THEN job'[c].id = 0 ELSE c <= issued
    BY DEF RowInv, Numbered
  <2>4. QED
    BY <2>1, <2>2, <2>3 DEF Numbered
<1>3. RowsApart'
  BY DEF RowInv, RowsApart
<1>4. IdsKnown'
  <2>1. ASSUME NEW q \in Requests, NEW t \in Types, request'[q].id # 0
        PROVE  /\ request'[q].code = otp'[t].code => request'[q].id = otp'[t].id
               /\ request'[q].id = otp'[t].id => request'[q].code <= otp'[t].code
    <3>1. request'[q].id = request[q].id /\ request'[q].code = request[q].code
      BY <2>1 DEF Keeps
    <3>2. request[q].id \in Nat /\ request[q].code \in Nat /\ request[q].id <= request[q].code
      BY DEF RowInv, Numbered, TypeOK, RequestOK, RequestStates
    <3>3. CASE otp'[t] = NoRow
      BY <2>1, <3>1, <3>2, <3>3
    <3>4. CASE otp'[t] # NoRow
      BY <2>1, <3>1, <3>4 DEF RowInv, IdsKnown
    <3>5. QED
      BY <3>3, <3>4
  <2>2. ASSUME NEW c \in Codes, NEW t \in Types, job'[c].id # 0, job'[c].id = otp'[t].id
        PROVE  c <= otp'[t].code
    BY <2>2 DEF RowInv, IdsKnown
  <2>3. ASSUME NEW q \in Requests,
               request'[q].pc \in {"enqueue", "expired", "user", "insert", "burn", "reset", "pass"}
        PROVE  request'[q].id # 0
    BY <2>3
  <2>4. QED
    BY <2>1, <2>2, <2>3 DEF IdsKnown
<1>5. QED
  BY <1>2, <1>3, <1>4 DEF RowInv

\* A new code goes into its type's row; the request knows the row's id.
LEMMA RowInvCreate ==
    ASSUME TypeOK, TypeOK', RowInv, NEW q \in Requests, CreateOtp(q)
    PROVE  RowInv'
<1> USE NoRowFields DEF NoCode
<1> DEFINE t == request[q].type
           id == IF otp[t] = NoRow THEN issued + 1 ELSE otp[t].id
<1>1. issued \in Nat /\ issued' = issued + 1 /\ t \in Types
  BY OtpAssumption DEF TypeOK, CreateOtp, RequestOK, Regular, RequestStates
<1>2. otp'[t] = [id |-> id, code |-> issued + 1, expired |-> FALSE]
  BY <1>1 DEF CreateOtp, TypeOK
<1>3. \A s \in Types : s # t => otp'[s] = otp[s]
  BY <1>1 DEF CreateOtp, TypeOK
<1>4. request'[q].pc = "enqueue" /\ request'[q].code = issued + 1 /\ request'[q].id = id
  BY DEF CreateOtp, TypeOK, RequestOK, RequestStates
<1>5. \A r \in Requests : r # q => request'[r] = request[r]
  BY DEF CreateOtp, TypeOK, RequestOK
<1>6. id \in Nat /\ id # 0 /\ id <= issued + 1 /\ (otp[t] # NoRow => id = otp[t].id)
  BY <1>1 DEF RowInv, Numbered, TypeOK, RowStates
<1>7. \A s \in Types : otp[s].id \in Nat /\ otp[s].code \in Nat
  BY DEF TypeOK, RowStates
<1>8. \A r \in Requests : request[r].id \in Nat /\ request[r].code \in Nat
  BY DEF TypeOK, RequestOK, RequestStates
<1>9. UNCHANGED <<job, mailed, used>>
  BY DEF CreateOtp
<1> HIDE DEF id, t
<1>10. Numbered'
  <2>1. \A s \in Types : /\ otp'[s].id <= otp'[s].code
                         /\ otp'[s].code <= issued'
                         /\ otp'[s].id = 0 => otp'[s] = NoRow
    BY <1>1, <1>2, <1>3, <1>6, <1>7 DEF RowInv, Numbered
  <2>2. \A r \in Requests : request'[r].id <= request'[r].code /\ request'[r].code <= issued'
    BY <1>1, <1>4, <1>5, <1>6, <1>8 DEF RowInv, Numbered
  <2>3. \A c \in Codes : job'[c].id <= c /\ (IF job'[c].state = "none" THEN job'[c].id = 0 ELSE c <= issued')
    BY <1>1, <1>9 DEF RowInv, Numbered, Codes
  <2>4. \A c \in mailed' \union used' : c <= issued'
    BY <1>1, <1>9 DEF RowInv, Numbered, TypeOK, Codes
  <2>5. QED
    BY <2>1, <2>2, <2>3, <2>4 DEF Numbered
<1>11. RowsApart'
  <2>1. \A s \in Types : s # t => otp[s].id # id \/ otp[s].id = 0
    BY <1>1, <1>6, <1>7 DEF RowInv, Numbered, RowsApart, id
  <2>2. \A s \in Types : otp[s].code # issued + 1 /\ otp[s].id # issued + 1
    BY <1>1, <1>7 DEF RowInv, Numbered
  <2>3. QED
    BY <1>1, <1>2, <1>3, <1>6, <2>1, <2>2 DEF RowInv, RowsApart
<1>12. IdsKnown'
  <2>1. ASSUME NEW r \in Requests, NEW s \in Types, request'[r].id # 0
        PROVE  /\ request'[r].code = otp'[s].code => request'[r].id = otp'[s].id
               /\ request'[r].id = otp'[s].id => request'[r].code <= otp'[s].code
    <3>1. CASE r = q /\ s = t
      BY <1>1, <1>2, <1>4, <3>1
    <3>2. CASE r = q /\ s # t
      <4>1. otp'[s].code # issued + 1
        BY <1>1, <1>3, <1>7, <3>2 DEF RowInv, Numbered
      <4>2. otp'[s].id # id
        BY <1>1, <1>2, <1>6, <1>11, <3>2 DEF RowsApart
      <4>3. QED
        BY <1>4, <3>2, <4>1, <4>2
    <3>3. CASE r # q /\ s # t
      BY <1>3, <1>5, <2>1, <3>3 DEF RowInv, IdsKnown
    <3>4. CASE r # q /\ s = t
      <4>1. request'[r] = request[r] /\ request[r].code <= issued /\ request[r].id <= request[r].code
        BY <1>5, <3>4 DEF RowInv, Numbered
      <4>2. QED
        BY <1>1, <1>2, <1>8, <3>4, <4>1
    <3>5. QED
      BY <3>1, <3>2, <3>3, <3>4
  <2>2. ASSUME NEW c \in Codes, NEW s \in Types, job'[c].id # 0, job'[c].id = otp'[s].id
        PROVE  c <= otp'[s].code
    <3>1. CASE s # t
      BY <1>3, <1>9, <2>2, <3>1 DEF RowInv, IdsKnown
    <3>2. CASE s = t
      <4>1. c \in Nat /\ job[c].id \in Nat /\ otp'[s].code = issued + 1
        BY <1>2, <3>2 DEF Codes, TypeOK, MailJobs
      <4>2. CASE job[c].state # "none"
        BY <1>1, <4>1, <4>2 DEF RowInv, Numbered
      <4>3. CASE job[c].state = "none"
        BY <1>9, <2>2, <4>3 DEF RowInv, Numbered
      <4>4. QED
        BY <4>2, <4>3
    <3>3. QED
      BY <3>1, <3>2
  <2>3. ASSUME NEW r \in Requests,
               request'[r].pc \in {"enqueue", "expired", "user", "insert", "burn", "reset", "pass"}
        PROVE  request'[r].id # 0
    BY <1>4, <1>5, <1>6, <2>3 DEF RowInv, IdsKnown
  <2>4. QED
    BY <2>1, <2>2, <2>3 DEF IdsKnown
<1>13. QED
  BY <1>10, <1>11, <1>12 DEF RowInv

\* The look-up hands the request the id of the row its code is in.
LEMMA RowInvFind ==
    ASSUME TypeOK, TypeOK', RowInv, NEW q \in Requests, FindAndValidateOtpCode(q),
           otp[request[q].type].code = request[q].code
    PROVE  RowInv'
<1> USE DEF NoCode
<1> DEFINE t == request[q].type
<1>1. t \in Types /\ request[q].code \in Codes
  BY CodeOf DEF FindAndValidateOtpCode, TypeOK, RequestOK, Regular, RequestStates
<1>2. request'[q].id = otp[t].id /\ request'[q].code = request[q].code
  BY DEF FindAndValidateOtpCode, TypeOK, RequestOK, RequestStates
<1>3. \A r \in Requests : r # q => request'[r] = request[r]
  BY DEF FindAndValidateOtpCode, TypeOK, RequestOK
<1>4. UNCHANGED <<otp, job, issued, mailed, used>>
  BY DEF FindAndValidateOtpCode
<1>5. otp[t].id # 0
  BY <1>1, NoRowFields DEF RowInv, Numbered, Codes
<1>6. Numbered'
  <2>1. \A r \in Requests : request'[r].id <= request'[r].code /\ request'[r].code <= issued'
    BY <1>1, <1>2, <1>3, <1>4 DEF RowInv, Numbered
  <2>2. QED
    BY <1>4, <2>1 DEF RowInv, Numbered
<1>7. IdsKnown'
  <2>1. ASSUME NEW s \in Types
        PROVE  /\ request[q].code = otp[s].code => otp[t].id = otp[s].id
               /\ otp[t].id = otp[s].id => request[q].code <= otp[s].code
    <3>1. CASE s = t
      BY <1>1, <3>1 DEF Codes
    <3>2. CASE s # t
      BY <1>1, <1>5, <3>2 DEF RowInv, RowsApart, Codes
    <3>3. QED
      BY <3>1, <3>2
  <2>2. QED
    BY <1>2, <1>3, <1>4, <1>5, <2>1 DEF RowInv, IdsKnown
<1>8. QED
  BY <1>4, <1>6, <1>7 DEF RowInv, RowsApart

\* A step that changes no row, job or history and moves or ends one request.
LEMMA RowInvMoves ==
    ASSUME TypeOK, TypeOK', RowInv, UNCHANGED <<otp, job, issued, mailed, used>>,
           \A q \in Requests : Keeps(request[q], request'[q])
    PROVE  RowInv'
<1> USE DEF NoCode
<1>1. Numbered'
  <2>1. \A q \in Requests : request'[q].id <= request'[q].code /\ request'[q].code <= issued'
    BY DEF RowInv, Numbered, TypeOK, RequestOK, Regular, RequestStates, Keeps
  <2>2. QED
    BY <2>1 DEF RowInv, Numbered
<1>2. IdsKnown'
  BY DEF RowInv, IdsKnown, Keeps
<1>3. QED
  BY <1>1, <1>2 DEF RowInv, RowsApart

LEMMA RowInvStep == TypeOK /\ TypeOK' /\ RowInv /\ [Next]_vars => RowInv'
<1> SUFFICES ASSUME TypeOK, TypeOK', RowInv, [Next]_vars PROVE RowInv'
  OBVIOUS
<1> USE DEF NoCode
<1>idle. issued \in Nat /\ \A q \in Requests : Keeps(request[q], Idle)
  BY IdleFields, OtpAssumption DEF Keeps, TypeOK
<1>same. \A q \in Requests : Keeps(request[q], request[q])
  BY DEF Keeps, RowInv, Numbered, IdsKnown, TypeOK, RequestOK, RequestStates, Pcs
<1>1. ASSUME NEW q \in Requests, NEW t \in Types, AskForCode(q, t) PROVE RowInv'
  <2>1. Keeps(request[q], Started("check", t, NoCode))
    BY <1>idle DEF Keeps, Started
  <2>2. \A r \in Requests : Keeps(request[r], request'[r])
    BY <1>1, <1>same, <2>1 DEF AskForCode, TypeOK, RequestOK
  <2>3. QED
    BY <1>1, <2>2, RowInvMoves DEF AskForCode
<1>2. ASSUME NEW q \in Requests, NEW t \in Types, NEW c \in Codes, EnterCode(q, t, c) PROVE RowInv'
  <2>1. c <= issued
    BY <1>2 DEF EnterCode, RowInv, Numbered
  <2>2. Keeps(request[q], Started("find", t, c))
    BY <2>1 DEF Keeps, Started
  <2>3. \A r \in Requests : Keeps(request[r], request'[r])
    BY <1>2, <1>same, <2>2 DEF EnterCode, TypeOK, RequestOK
  <2>4. QED
    BY <1>2, <2>3, RowInvMoves DEF EnterCode
<1>3. ASSUME NEW q \in Requests, CheckUser(q) \/ FindUser(q) PROVE RowInv'
  <2>1. Keeps(request[q], request'[q])
    <3>1. CASE request' = [request EXCEPT ![q] = Idle]
      BY <1>idle, <3>1 DEF TypeOK, RequestOK
    <3>2. CASE CheckUser(q) /\ Goes(q, "create")
      BY <3>2 DEF CheckUser, Goes, Keeps, TypeOK, RequestOK, Regular, RequestStates, RowInv, Numbered
    <3>3. CASE FindUser(q) /\ request' # [request EXCEPT ![q] = Idle]
      BY <3>3 DEF FindUser, Ends, Goes, Keeps, TypeOK, RequestOK, RequestStates, RowInv, IdsKnown
    <3>4. QED
      BY <1>3, <3>1, <3>2, <3>3 DEF CheckUser, Ends
  <2>2. \A r \in Requests : r # q => request'[r] = request[r]
    BY <1>3 DEF CheckUser, FindUser, Ends, Goes, TypeOK, RequestOK
  <2>3. \A r \in Requests : Keeps(request[r], request'[r])
    BY <1>same, <2>1, <2>2
  <2>4. QED
    BY <1>3, <2>3, RowInvMoves DEF CheckUser, FindUser
<1>4. ASSUME NEW q \in Requests, CreateOtp(q) PROVE RowInv'
  BY <1>4, RowInvCreate
<1>5. ASSUME NEW q \in Requests, FindAndValidateOtpCode(q) PROVE RowInv'
  <2>1. CASE otp[request[q].type].code = request[q].code
    BY <1>5, <2>1, RowInvFind
  <2>2. CASE otp[request[q].type].code # request[q].code
    <3>1. \A r \in Requests : Keeps(request[r], request'[r])
      BY <1>5, <1>idle, <1>same, <2>2 DEF FindAndValidateOtpCode, Ends, TypeOK, RequestOK
    <3>2. QED
      BY <1>5, <3>1, RowInvMoves DEF FindAndValidateOtpCode
  <2>3. QED
    BY <2>1, <2>2
<1>6. ASSUME NEW q \in Requests, EnqueueMail(q) PROVE RowInv'
  <2> DEFINE c == request[q].code
  <2>1. c \in Codes /\ request[q].id # 0
    BY <1>6, CodeOf DEF EnqueueMail, TypeOK, RowInv, IdsKnown
  <2>2. job'[c] = [state |-> "waiting", id |-> request[q].id]
    BY <1>6, <2>1 DEF EnqueueMail, TypeOK
  <2>3. \A d \in Codes : d # c => job'[d] = job[d]
    BY <1>6 DEF EnqueueMail, TypeOK
  <2>4. \A r \in Requests : Keeps(request[r], request'[r])
    BY <1>6, <1>idle, <1>same DEF EnqueueMail, Ends, TypeOK, RequestOK
  <2>5. UNCHANGED <<otp, issued, mailed, used>>
    BY <1>6 DEF EnqueueMail
  <2>6. Numbered'
    <3>1. \A r \in Requests : request'[r].id <= request'[r].code /\ request'[r].code <= issued'
      BY <2>4, <2>5 DEF RowInv, Numbered, TypeOK, RequestOK, RequestStates, Keeps
    <3>2. request[q].id <= c /\ c <= issued
      BY DEF RowInv, Numbered
    <3>3. \A d \in Codes : /\ job'[d].id <= d
                           /\ IF job'[d].state = "none" THEN job'[d].id = 0 ELSE d <= issued'
      BY <2>2, <2>3, <2>5, <3>2 DEF RowInv, Numbered
    <3>4. QED
      BY <2>5, <3>1, <3>3 DEF RowInv, Numbered
  <2>7. IdsKnown'
    <3>1. ASSUME NEW d \in Codes, NEW t \in Types, job'[d].id # 0, job'[d].id = otp'[t].id
          PROVE  d <= otp'[t].code
      <4>1. CASE d = c
        BY <2>1, <2>2, <2>5, <3>1, <4>1 DEF RowInv, IdsKnown
      <4>2. CASE d # c
        BY <2>3, <2>5, <3>1, <4>2 DEF RowInv, IdsKnown
      <4>3. QED
        BY <4>1, <4>2
    <3>2. QED
      BY <2>4, <2>5, <3>1 DEF RowInv, IdsKnown, Keeps
  <2>8. QED
    BY <2>5, <2>6, <2>7 DEF RowInv, RowsApart
<1>7. ASSUME NEW q \in Requests,
             RefuseCode(q) \/ InsertUser(q) \/ PassSecondFactor(q) \/ RequestDies(q)
      PROVE  RowInv'
  <2>1. RequestsKeep
    BY <1>7, <1>idle, <1>same DEF RequestsKeep, RefuseCode, InsertUser, PassSecondFactor, RequestDies, Ends, TypeOK, RequestOK
  <2>2. \A t \in Types : otp'[t] = NoRow \/ otp'[t] = otp[t]
    BY <1>7, DeletedRow DEF RefuseCode, InsertUser, PassSecondFactor, RequestDies
  <2>3. used' \subseteq used \union {request[q].code}
    BY <1>7 DEF RefuseCode, InsertUser, PassSecondFactor, RequestDies
  <2>4. UNCHANGED <<issued, job, mailed>>
    BY <1>7 DEF RefuseCode, InsertUser, PassSecondFactor, RequestDies
  <2>5. OnlyIssued
    BY <2>3, <2>4 DEF OnlyIssued, RowInv, Numbered
  <2>6. RowsKept
    BY <2>2 DEF RowsKept
  <2>7. JobsKept
    BY <2>4 DEF JobsKept
  <2>8. QED
    BY <2>1, <2>4, <2>5, <2>6, <2>7, RowInvKept
<1>8. ASSUME NEW q \in Requests, NEW write \in Writes, Reset(q, write) \/ WriteFails(q, write)
      PROVE  RowInv'
  <2>1. RequestsKeep
    <3>1. request'[q] = Idle \/ request'[q] = [request[q] EXCEPT !.todo = @ \ {write}]
      BY <1>8 DEF Reset, WriteFails, Ends, TypeOK, RequestOK
    <3>2. Keeps(request[q], request'[q])
      BY <1>8, <1>idle, <3>1 DEF Reset, WriteFails, Keeps, RowInv, IdsKnown, TypeOK, RequestOK, RequestStates
    <3>3. QED
      BY <1>8, <1>same, <3>2 DEF RequestsKeep, Reset, WriteFails, Ends, TypeOK, RequestOK
  <2>2. \A t \in Types : otp'[t] = NoRow \/ otp'[t] = otp[t]
    BY <1>8, DeletedRow DEF Reset, WriteFails
  <2>3. used' \subseteq used \union {request[q].code}
    BY <1>8 DEF Reset, WriteFails
  <2>4. UNCHANGED <<issued, job, mailed>>
    BY <1>8 DEF Reset, WriteFails
  <2>5. OnlyIssued
    BY <2>3, <2>4 DEF OnlyIssued, RowInv, Numbered
  <2>6. RowsKept
    BY <2>2 DEF RowsKept
  <2>7. JobsKept
    BY <2>4 DEF JobsKept
  <2>8. QED
    BY <2>1, <2>4, <2>5, <2>6, <2>7, RowInvKept
<1>9. ASSUME NEW c \in Codes, WorkerSteps(c) PROVE RowInv'
  <2> USE DEF WorkerSteps, MailSent, MailFails, CleanUpOtp, CleanUpLost
  <2>1. \A t \in Types : otp'[t] = NoRow \/ otp'[t] = otp[t]
    BY <1>9, DeletedRow
  <2>2. JobsKept
    BY <1>9 DEF JobsKept, TypeOK, MailJobs
  <2>3. c <= issued /\ mailed' \subseteq mailed \union {c} /\ UNCHANGED <<issued, request, used>>
    BY <1>9 DEF RowInv, Numbered
  <2>4. OnlyIssued
    BY <2>3 DEF OnlyIssued, RowInv, Numbered
  <2>5. RequestsKeep
    BY <1>same, <2>3 DEF RequestsKeep
  <2>6. RowsKept
    BY <2>1 DEF RowsKept
  <2> HIDE DEF WorkerSteps
  <2>7. QED
    BY <2>2, <2>3, <2>4, <2>5, <2>6, RowInvKept
<1>10. ASSUME NEW t \in Types, CodeExpires(t) PROVE RowInv'
  <2>1. RowsKept
    BY <1>10 DEF RowsKept, CodeExpires, TypeOK, RowStates
  <2>2. UNCHANGED <<issued, request, used, mailed, job>>
    BY <1>10 DEF CodeExpires
  <2>3. RequestsKeep /\ JobsKept /\ OnlyIssued
    BY <1>same, <2>2 DEF RequestsKeep, JobsKept, OnlyIssued, RowInv, Numbered
  <2>4. QED
    BY <2>1, <2>2, <2>3, RowInvKept
<1>11. CASE DeleteExpiredOtps \/ MadeElsewhere \/ AdminDeletesUser \/ UNCHANGED vars
  <2>1. RowsKept
    BY <1>11 DEF RowsKept, DeleteExpiredOtps, MadeElsewhere, AdminDeletesUser, vars, TypeOK
  <2>2. UNCHANGED <<issued, request, used, mailed, job>>
    BY <1>11 DEF DeleteExpiredOtps, MadeElsewhere, AdminDeletesUser, vars
  <2>3. RequestsKeep /\ JobsKept /\ OnlyIssued
    BY <1>same, <2>2 DEF RequestsKeep, JobsKept, OnlyIssued, RowInv, Numbered
  <2>4. QED
    BY <2>1, <2>2, <2>3, RowInvKept
<1>12. QED
  BY <1>1, <1>2, <1>3, <1>4, <1>5, <1>6, <1>7, <1>8, <1>9, <1>10, <1>11 DEF Next, RequestSteps

LEMMA RowInvInit == Init => RowInv
BY NoRowFields, IdleFields, OtpAssumption DEF Init, NoJob, NoCode, Codes, RowInv, Numbered, RowsApart, IdsKnown

LEMMA Rows == Spec => [](TypeOK /\ RowInv)
<1>1. TypeOK /\ TypeOK' /\ RowInv /\ [Next]_vars => RowInv'
  BY RowInvStep
<1>2. QED
  BY <1>1, RowInvInit, TypeCorrect, PTL DEF Spec

-----------------------------------------------------------------------------
(* A used code is spent                                                    *)

\* A row whose code the deletion goes for is emptied.
LEMMA CodeDeleted ==
    ASSUME TypeOK, RowInv, NEW q \in Requests, request[q].id # NoCode, DeleteOtp(request[q].id)
    PROVE  \A t \in Types : otp'[t].code # request[q].code \/ otp'[t] = NoRow
BY DEF DeleteOtp, RowInv, IdsKnown, TypeOK

\* A reset that has no deletion left to do has done it, or it was lost.
ResetDeleted ==
    \A q \in Requests, t \in Types :
        request[q].pc = "reset" /\ "code" \notin request[q].todo /\ otp[t].code = request[q].code
        => request[q].code \in kept

SpentInv == UsedIsSpent /\ ResetDeleted

\* No row has the code, unless its deletion was lost.
Gone(c) == c \in kept' \/ \A t \in Types : otp'[t].code # c

\* The deletions that were to come are still to come or are done, and those that are done have
\* been done, for every request.
DeletionsKept ==
    \A q \in Requests :
        /\ "code" \in request[q].todo =>
              \/ request'[q].code = request[q].code /\ "code" \in request'[q].todo
              \/ Gone(request[q].code)
        /\ request'[q].pc = "reset" /\ "code" \notin request'[q].todo =>
              \/ request[q].pc = "reset" /\ "code" \notin request[q].todo /\ request'[q].code = request[q].code
              \/ Gone(request'[q].code)

\* A code that a step uses is gone or about to be.
UsedThenGone ==
    \A c \in used' \ used :
        Gone(c) \/ \E q \in Requests : request'[q].code = c /\ "code" \in request'[q].todo

LEMMA SpentKept ==
    ASSUME TypeOK, TypeOK', SpentInv, RowsKept, kept \subseteq kept', DeletionsKept, UsedThenGone
    PROVE  SpentInv'
<1>1. \A t \in Types : otp'[t].code = NoCode \/ otp'[t].code = otp[t].code
  BY NoRowFields DEF RowsKept
<1>2. NoCode \notin used'
  BY DEF TypeOK, Codes, NoCode
<1>3. UsedIsSpent'
  <2> SUFFICES ASSUME NEW t \in Types, otp'[t].code \in used'
               PROVE  \/ otp'[t].code \in kept'
                      \/ \E q \in Requests : request'[q].code = otp'[t].code /\ "code" \in request'[q].todo
    BY DEF UsedIsSpent
  <2>1. CASE otp'[t].code \in used' \ used
    BY <2>1 DEF UsedThenGone, Gone
  <2>2. CASE otp'[t].code \in used
    <3>1. otp'[t].code = otp[t].code
      BY <1>1, <1>2
    <3>2. CASE otp[t].code \in kept
      BY <3>1, <3>2
    <3>3. ASSUME NEW q \in Requests, request[q].code = otp[t].code, "code" \in request[q].todo
          PROVE  \/ otp'[t].code \in kept'
                 \/ \E r \in Requests : request'[r].code = otp'[t].code /\ "code" \in request'[r].todo
      BY <3>1, <3>3 DEF DeletionsKept, Gone
    <3>4. QED
      BY <2>2, <3>1, <3>2, <3>3 DEF SpentInv, UsedIsSpent
  <2>3. QED
    BY <2>1, <2>2
<1>4. ResetDeleted'
  <2> SUFFICES ASSUME NEW q \in Requests, NEW t \in Types, request'[q].pc = "reset",
                      "code" \notin request'[q].todo, otp'[t].code = request'[q].code
               PROVE  request'[q].code \in kept'
    BY DEF ResetDeleted
  <2>1. request'[q].code # NoCode
    BY DEF TypeOK, RequestOK, Regular
  <2>2. otp'[t].code = otp[t].code
    BY <1>1, <2>1
  <2>3. QED
    BY <2>2 DEF DeletionsKept, Gone, SpentInv, ResetDeleted
<1>5. QED
  BY <1>3, <1>4 DEF SpentInv

\* A request that was at no reset and goes to none changes nothing of the deletions.
LEMMA NoDeletion ==
    ASSUME TypeOK, NEW q \in Requests, request[q].todo = {}, request'[q].pc # "reset",
           \A r \in Requests : r # q => request'[r] = request[r]
    PROVE  DeletionsKept
BY DEF DeletionsKept

LEMMA SpentStep == TypeOK /\ TypeOK' /\ RowInv /\ SpentInv /\ [Next]_vars => SpentInv'
<1> SUFFICES ASSUME TypeOK, TypeOK', RowInv, SpentInv, [Next]_vars PROVE SpentInv'
  OBVIOUS
<1>todo. \A q \in Requests : request[q].pc # "reset" => request[q].todo = {}
  BY DEF TypeOK, RequestOK, Regular
<1>1. ASSUME NEW q \in Requests, NEW t \in Types, NEW c \in Codes, EnterCode(q, t, c)
      PROVE  SpentInv'
  <2>1. RowsKept
    BY <1>1 DEF EnterCode, RowsKept
  <2>2. request[q].todo = {} /\ request'[q].pc # "reset" /\ \A r \in Requests : r # q => request'[r] = request[r]
    BY <1>1, <1>todo DEF EnterCode, Started, TypeOK, RequestOK
  <2>3. UsedThenGone /\ kept \subseteq kept'
    BY <1>1 DEF EnterCode, UsedThenGone
  <2>4. QED
    BY <2>1, <2>2, <2>3, NoDeletion, SpentKept
<1>2. ASSUME NEW q \in Requests,
             CheckUser(q) \/ FindAndValidateOtpCode(q) \/ EnqueueMail(q)
      PROVE  SpentInv'
  <2>1. RowsKept
    BY <1>2 DEF CheckUser, FindAndValidateOtpCode, EnqueueMail, RowsKept
  <2>2. request[q].todo = {}
    BY <1>2, <1>todo DEF CheckUser, FindAndValidateOtpCode, EnqueueMail
  <2>3. request'[q].pc # "reset" /\ \A r \in Requests : r # q => request'[r] = request[r]
    BY <1>2, IdleFields
       DEF CheckUser, FindAndValidateOtpCode, AfterFind, EnqueueMail, Ends, Goes, TypeOK, RequestOK, RequestStates
  <2>4. UsedThenGone /\ kept \subseteq kept'
    BY <1>2 DEF CheckUser, FindAndValidateOtpCode, EnqueueMail, UsedThenGone
  <2>5. QED
    BY <2>1, <2>2, <2>3, <2>4, NoDeletion, SpentKept
<1>3. ASSUME NEW q \in Requests, FindUser(q) PROVE SpentInv'
  <2>1. RowsKept
    BY <1>3 DEF FindUser, RowsKept
  <2>2. request[q].todo = {} /\ \A r \in Requests : r # q => request'[r] = request[r]
    BY <1>3, <1>todo DEF FindUser, Ends, Goes, TypeOK, RequestOK
  <2>3. request'[q].pc = "reset" => "code" \in request'[q].todo
    BY <1>3, IdleFields DEF FindUser, Ends, Goes, Writes, TypeOK, RequestOK, RequestStates
  <2>4. DeletionsKept
    BY <2>2, <2>3 DEF DeletionsKept
  <2>5. UsedThenGone /\ kept \subseteq kept'
    BY <1>3 DEF FindUser, UsedThenGone
  <2>6. QED
    BY <2>1, <2>4, <2>5, SpentKept
<1>4. ASSUME NEW q \in Requests, CreateOtp(q) PROVE SpentInv'
  <2> DEFINE new == issued + 1
  <2>1. new \notin used /\ issued \in Nat
    BY OtpAssumption DEF RowInv, Numbered, TypeOK
  <2>2. request[q].todo = {} /\ request'[q].todo = {} /\ request'[q].pc = "enqueue"
        /\ \A r \in Requests : r # q => request'[r] = request[r]
    BY <1>4, <1>todo DEF CreateOtp, TypeOK, RequestOK, RequestStates
  <2>3. UNCHANGED <<used, kept>>
    BY <1>4 DEF CreateOtp
  <2>4. \A t \in Types : otp'[t].code = otp[t].code \/ otp'[t].code = new
    BY <1>4 DEF CreateOtp, TypeOK
  <2>5. \A r \in Requests : request[r].code # new
    BY <2>1 DEF RowInv, Numbered, TypeOK, RequestOK, RequestStates
  <2> HIDE DEF new
  <2>6. UsedIsSpent'
    <3> SUFFICES ASSUME NEW t \in Types, otp'[t].code \in used
                 PROVE  \/ otp'[t].code \in kept
                        \/ \E r \in Requests : request'[r].code = otp'[t].code /\ "code" \in request'[r].todo
      BY <2>3 DEF UsedIsSpent
    <3>1. otp'[t].code = otp[t].code
      BY <2>1, <2>4
    <3>2. QED
      BY <2>2, <3>1 DEF SpentInv, UsedIsSpent
  <2>7. ResetDeleted'
    BY <2>2, <2>3, <2>4, <2>5 DEF SpentInv, ResetDeleted
  <2>8. QED
    BY <2>6, <2>7 DEF SpentInv
<1>5. ASSUME NEW q \in Requests, RefuseCode(q) \/ PassSecondFactor(q) \/ InsertUser(q) PROVE SpentInv'
  <2>1. RowsKept
    BY <1>5, DeletedRow DEF RefuseCode, PassSecondFactor, InsertUser, RowsKept
  <2>2. request[q].todo = {}
    BY <1>5, <1>todo DEF RefuseCode, PassSecondFactor, InsertUser
  <2>3. request'[q].pc # "reset" /\ \A r \in Requests : r # q => request'[r] = request[r]
    BY <1>5, IdleFields DEF RefuseCode, PassSecondFactor, InsertUser, Ends, TypeOK, RequestOK
  <2>4. kept \subseteq kept' /\ used' \subseteq used \union {request[q].code}
    BY <1>5 DEF RefuseCode, PassSecondFactor, InsertUser
  <2>5. CASE used' = used
    BY <2>1, <2>2, <2>3, <2>4, <2>5, NoDeletion, SpentKept DEF UsedThenGone
  <2>6. CASE used' # used
    <3>1. DeleteOtp(request[q].id) /\ request[q].id # NoCode /\ request[q].code # NoCode
      BY <1>5, <2>6 DEF RefuseCode, PassSecondFactor, InsertUser, RowInv, IdsKnown, TypeOK, RequestOK, Regular
    <3>2. Gone(request[q].code)
      BY <3>1, CodeDeleted, NoRowFields DEF Gone
    <3>3. UsedThenGone
      BY <2>4, <3>2 DEF UsedThenGone
    <3>4. QED
      BY <2>1, <2>2, <2>3, <2>4, <3>3, NoDeletion, SpentKept
  <2>7. QED
    BY <2>5, <2>6
<1>6. ASSUME NEW q \in Requests, NEW write \in Writes, Reset(q, write) PROVE SpentInv'
  <2>1. RowsKept
    BY <1>6, DeletedRow DEF Reset, RowsKept
  <2>2. \A r \in Requests : r # q => request'[r] = request[r]
    BY <1>6 DEF Reset, Ends, TypeOK, RequestOK
  <2>3. request'[q] = Idle \/ request'[q] = [request[q] EXCEPT !.todo = request[q].todo \ {write}]
    BY <1>6 DEF Reset, Ends, TypeOK, RequestOK
  <2>4. request'[q].pc = "reset" => /\ request'[q].code = request[q].code
                                    /\ request'[q].todo = request[q].todo \ {write}
    BY <2>3, IdleFields DEF TypeOK, RequestOK, RequestStates
  <2>5. request'[q].pc # "reset" => request[q].todo = {write}
    BY <1>6 DEF Reset, Ends, TypeOK, RequestOK, RequestStates
  <2>6. request[q].pc = "reset" /\ request[q].id # NoCode /\ request[q].code # NoCode /\ kept' = kept
    BY <1>6 DEF Reset, RowInv, IdsKnown, TypeOK, RequestOK, Regular
  <2>7. CASE write = "code"
    <3>1. DeleteOtp(request[q].id) /\ used' = used
      BY <1>6, <2>7 DEF Reset
    <3>2. Gone(request[q].code)
      BY <2>6, <3>1, CodeDeleted, NoRowFields DEF Gone
    <3>3. DeletionsKept /\ UsedThenGone
      BY <2>2, <2>4, <2>6, <3>1, <3>2 DEF DeletionsKept, UsedThenGone
    <3>4. QED
      BY <2>1, <2>6, <3>3, SpentKept
  <2>8. CASE write = "password"
    <3>1. used' = used \union {request[q].code} /\ otp' = otp
      BY <1>6, <2>8 DEF Reset
    <3>2. DeletionsKept
      BY <2>2, <2>4, <2>5, <2>6, <2>8 DEF DeletionsKept
    <3>3. UsedThenGone
      <4>1. CASE "code" \in request[q].todo
        <5>1. request'[q].code = request[q].code /\ "code" \in request'[q].todo
          BY <2>4, <2>5, <2>8, <4>1
        <5>2. QED
          BY <3>1, <5>1 DEF UsedThenGone
      <4>2. CASE "code" \notin request[q].todo
        BY <2>6, <3>1, <4>2 DEF UsedThenGone, Gone, SpentInv, ResetDeleted
      <4>3. QED
        BY <4>1, <4>2
    <3>4. QED
      BY <2>1, <2>6, <3>2, <3>3, SpentKept
  <2>9. QED
    BY <2>7, <2>8 DEF Writes
<1>7. ASSUME NEW q \in Requests, NEW write \in Writes, RequestDies(q) \/ WriteFails(q, write) PROVE SpentInv'
  <2>1. RowsKept /\ UsedThenGone /\ kept \subseteq kept'
    BY <1>7 DEF RequestDies, WriteFails, RowsKept, UsedThenGone
  <2>2. \A r \in Requests : r # q => request'[r] = request[r]
    BY <1>7 DEF RequestDies, WriteFails, Ends, TypeOK, RequestOK
  <2>3. \/ request'[q] = Idle
        \/ request'[q] = [request[q] EXCEPT !.todo = request[q].todo \ {write}] /\ request[q].pc = "reset"
    BY <1>7 DEF RequestDies, WriteFails, Ends, TypeOK, RequestOK
  <2>4. request'[q].pc = "reset" => /\ request[q].pc = "reset"
                                    /\ request'[q].code = request[q].code
                                    /\ request'[q].todo = request[q].todo \ {write}
    BY <2>3, IdleFields DEF TypeOK, RequestOK, RequestStates
  <2>5. "code" \in request[q].todo => \/ request[q].code \in kept'
                                      \/ request'[q].code = request[q].code /\ "code" \in request'[q].todo
    BY <1>7 DEF RequestDies, WriteFails, Writes, TypeOK, RequestOK, RequestStates
  <2>6. DeletionsKept
    BY <2>2, <2>4, <2>5 DEF DeletionsKept, Gone
  <2>7. QED
    BY <2>1, <2>6, SpentKept
<1>8. ASSUME NEW c \in Codes, WorkerSteps(c) PROVE SpentInv'
  <2> USE DEF WorkerSteps, MailSent, MailFails, CleanUpOtp, CleanUpLost
  <2>1. RowsKept
    BY <1>8, DeletedRow DEF RowsKept
  <2>2. UNCHANGED <<request, used, kept>>
    BY <1>8
  <2>3. DeletionsKept /\ UsedThenGone
    BY <2>2 DEF DeletionsKept, UsedThenGone
  <2> HIDE DEF WorkerSteps
  <2>4. QED
    BY <2>1, <2>2, <2>3, SpentKept
<1>9. ASSUME NEW t \in Types, CodeExpires(t) PROVE SpentInv'
  <2>1. RowsKept
    BY <1>9 DEF CodeExpires, RowsKept, TypeOK, RowStates
  <2>2. UNCHANGED <<request, used, kept>>
    BY <1>9 DEF CodeExpires
  <2>3. DeletionsKept /\ UsedThenGone
    BY <2>2 DEF DeletionsKept, UsedThenGone
  <2>4. QED
    BY <2>1, <2>2, <2>3, SpentKept
<1>10. CASE DeleteExpiredOtps \/ MadeElsewhere \/ AdminDeletesUser \/ UNCHANGED vars
  <2>1. RowsKept
    BY <1>10 DEF DeleteExpiredOtps, MadeElsewhere, AdminDeletesUser, vars, TypeOK, RowsKept
  <2>2. UNCHANGED <<request, used, kept>>
    BY <1>10 DEF DeleteExpiredOtps, MadeElsewhere, AdminDeletesUser, vars
  <2>3. DeletionsKept /\ UsedThenGone
    BY <2>2 DEF DeletionsKept, UsedThenGone
  <2>4. QED
    BY <2>1, <2>2, <2>3, SpentKept
<1>11. ASSUME NEW q \in Requests, NEW t \in Types, AskForCode(q, t) PROVE SpentInv'
  <2>1. RowsKept /\ UsedThenGone /\ kept \subseteq kept'
    BY <1>11 DEF AskForCode, RowsKept, UsedThenGone
  <2>2. request[q].todo = {} /\ request'[q].pc # "reset" /\ \A r \in Requests : r # q => request'[r] = request[r]
    BY <1>11, <1>todo DEF AskForCode, Started, TypeOK, RequestOK
  <2>3. QED
    BY <2>1, <2>2, NoDeletion, SpentKept
<1>12. "code" \in Writes
  BY DEF Writes
<1>13. QED
  BY <1>1, <1>2, <1>3, <1>4, <1>5, <1>6, <1>7, <1>8, <1>9, <1>10, <1>11, <1>12 DEF Next, RequestSteps

\* A code that created a user, set a password or passed a login is no longer in the table, or
\* the request that used it is still deleting it or was lost before it did.
THEOREM UsedSpent == Spec => []UsedIsSpent
<1>1. Init => SpentInv
  BY IdleFields DEF Init, SpentInv, UsedIsSpent, ResetDeleted
<1>2. TypeOK /\ TypeOK' /\ RowInv /\ SpentInv /\ [Next]_vars => SpentInv'
  BY SpentStep
<1>3. SpentInv => UsedIsSpent
  BY DEF SpentInv
<1>4. QED
  BY <1>1, <1>2, <1>3, Rows, PTL DEF Spec

-----------------------------------------------------------------------------
(* A REGISTER code and the user it is for                                  *)

\* Nothing of REGISTER outlasts the user that nobody overtook: no live row, and no request that
\* is about to make one.
RegisterInv ==
    user /\ ~overtaken =>
        /\ otp["REGISTER"] = NoRow \/ otp["REGISTER"].expired
        /\ \A q \in Requests : request[q].pc = "create" => request[q].type # "REGISTER"

LEMMA RegisterKept ==
    ASSUME TypeOK, TypeOK', RegisterInv, UNCHANGED overtaken, user' = user \/ ~user',
           \/ otp'["REGISTER"] = NoRow
           \/ otp["REGISTER"] # NoRow /\ (otp'["REGISTER"].expired \/ ~otp["REGISTER"].expired),
           \A q \in Requests : request'[q] = request[q] \/ request'[q].pc # "create"
    PROVE  RegisterInv'
BY DEF RegisterInv, TypeOK

LEMMA RegisterStep == TypeOK /\ TypeOK' /\ RowInv /\ RegisterInv /\ [Next]_vars => RegisterInv'
<1> SUFFICES ASSUME TypeOK, TypeOK', RowInv, RegisterInv, [Next]_vars PROVE RegisterInv'
  OBVIOUS
<1>reg. "REGISTER" \in Types
  BY OtpAssumption
<1>1. ASSUME NEW q \in Requests, CheckUser(q) PROVE RegisterInv'
  <2>1. UNCHANGED <<user, otp, overtaken>>
    BY <1>1 DEF CheckUser
  <2>2. \A r \in Requests : \/ request'[r] = request[r]
                            \/ request'[r].pc = "idle"
                            \/ request'[r].type = "REGISTER" => ~user
    BY <1>1, IdleFields DEF CheckUser, Ends, Goes, TypeOK, RequestOK, RequestStates
  <2>3. QED
    BY <2>1, <2>2 DEF RegisterInv
<1>2. ASSUME NEW q \in Requests, CreateOtp(q) PROVE RegisterInv'
  <2>1. UNCHANGED <<user, overtaken>> /\ request[q].pc = "create"
    BY <1>2 DEF CreateOtp
  <2>2. request[q].type # "REGISTER" => otp'["REGISTER"] = otp["REGISTER"]
    BY <1>2, <1>reg DEF CreateOtp, TypeOK
  <2>3. \A r \in Requests : request'[r] = request[r] \/ request'[r].pc = "enqueue"
    BY <1>2 DEF CreateOtp, TypeOK, RequestOK, RequestStates
  <2>4. QED
    BY <2>1, <2>2, <2>3 DEF RegisterInv
<1>3. ASSUME NEW q \in Requests, InsertUser(q) PROVE RegisterInv'
  <2>1. \A r \in Requests : request'[r] = request[r] \/ request'[r].pc = "idle"
    BY <1>3, IdleFields DEF InsertUser, Ends, TypeOK, RequestOK
  <2>2. CASE user
    BY <1>3, <2>1, <2>2 DEF InsertUser, RegisterInv
  <2>3. CASE ~user
    <3>1. overtaken' = InTheWay(request[q].id) /\ DeleteOtp(request[q].id)
      BY <1>3, <2>3 DEF InsertUser
    <3>2. request[q].id # NoCode
      BY <1>3 DEF InsertUser, RowInv, IdsKnown
    <3>3. SUFFICES ASSUME ~InTheWay(request[q].id)
                   PROVE  /\ otp'["REGISTER"] = NoRow
                          /\ \A r \in Requests : request'[r].pc = "create" => request'[r].type # "REGISTER"
      BY <3>1 DEF RegisterInv
    <3>4. otp'["REGISTER"] = NoRow
      BY <1>reg, <3>1, <3>2, <3>3 DEF InTheWay, DeleteOtp, RowInv, Numbered
    <3>5. QED
      BY <2>1, <3>3, <3>4 DEF InTheWay
  <2>4. QED
    BY <2>2, <2>3
<1>4. ASSUME NEW q \in Requests, NEW t \in Types, NEW c \in Codes, EnterCode(q, t, c)
      PROVE  RegisterInv'
  <2>1. \A r \in Requests : request'[r] = request[r] \/ request'[r].pc # "create"
    BY <1>4 DEF EnterCode, Started, TypeOK, RequestOK
  <2>2. QED
    BY <1>4, <2>1 DEF EnterCode, RegisterInv
<1>5. ASSUME NEW q \in Requests, EnqueueMail(q) \/ FindAndValidateOtpCode(q) \/ FindUser(q) PROVE RegisterInv'
  <2>1. \A r \in Requests : request'[r] = request[r] \/ request'[r].pc # "create"
    BY <1>5, IdleFields
       DEF EnqueueMail, FindAndValidateOtpCode, FindUser, AfterFind, Ends, Goes, TypeOK, RequestOK, RequestStates
  <2>2. QED
    BY <1>5, <2>1 DEF EnqueueMail, FindAndValidateOtpCode, FindUser, RegisterInv
<1>6. ASSUME NEW q \in Requests, NEW write \in Writes,
             \/ RefuseCode(q) \/ PassSecondFactor(q) \/ RequestDies(q)
             \/ Reset(q, write) \/ WriteFails(q, write)
      PROVE  RegisterInv'
  <2> USE DEF RefuseCode, PassSecondFactor, RequestDies, Reset, WriteFails
  <2>1. \A r \in Requests : request'[r] = request[r] \/ request'[r].pc # "create"
    BY <1>6, IdleFields DEF Ends, TypeOK, RequestOK, RequestStates
  <2>2. otp'["REGISTER"] = NoRow \/ otp'["REGISTER"] = otp["REGISTER"]
    BY <1>6, <1>reg, DeletedRow
  <2>3. UNCHANGED <<user, overtaken>>
    BY <1>6
  <2>4. QED
    BY <2>1, <2>2, <2>3 DEF RegisterInv
<1>7. ASSUME NEW c \in Codes, WorkerSteps(c) PROVE RegisterInv'
  <2> USE DEF WorkerSteps, MailSent, MailFails, CleanUpOtp, CleanUpLost
  <2>1. otp'["REGISTER"] = NoRow \/ otp'["REGISTER"] = otp["REGISTER"]
    BY <1>7, <1>reg, DeletedRow
  <2>2. QED
    BY <1>7, <2>1 DEF RegisterInv
<1>8. ASSUME NEW t \in Types, CodeExpires(t) PROVE RegisterInv'
  BY <1>8, <1>reg DEF CodeExpires, RegisterInv, TypeOK, RowStates
<1>9. CASE DeleteExpiredOtps
  BY <1>9, <1>reg DEF DeleteExpiredOtps, RegisterInv
<1>10. CASE MadeElsewhere \/ AdminDeletesUser \/ UNCHANGED vars
  BY <1>10 DEF MadeElsewhere, AdminDeletesUser, vars, RegisterInv
<1>11. "code" \in Writes
  BY DEF Writes
<1>12. ASSUME NEW q \in Requests, NEW t \in Types, AskForCode(q, t) PROVE RegisterInv'
  <2>1. \A r \in Requests : request'[r] = request[r] \/ request'[r].pc # "create"
    BY <1>12 DEF AskForCode, Started, TypeOK, RequestOK
  <2>2. QED
    BY <1>12, <2>1 DEF AskForCode, RegisterInv
<1>13. QED
  BY <1>1, <1>2, <1>3, <1>4, <1>5, <1>6, <1>7, <1>8, <1>9, <1>10, <1>11, <1>12 DEF Next, RequestSteps

\* A live REGISTER code beside a user means that something overtook the making of the user.
THEOREM RegisterCode == Spec => []RegisterCodeOnlyIfOvertaken
<1>1. Init => RegisterInv
  BY DEF Init, RegisterInv
<1>2. TypeOK /\ TypeOK' /\ RowInv /\ RegisterInv /\ [Next]_vars => RegisterInv'
  BY RegisterStep
<1>3. RegisterInv => RegisterCodeOnlyIfOvertaken
  BY DEF RegisterInv, RegisterCodeOnlyIfOvertaken
<1>4. QED
  BY <1>1, <1>2, <1>3, Rows, PTL DEF Spec

-----------------------------------------------------------------------------
(* A code in a row of its own                                              *)

\* What the property says of one step.
FreshStep ==
    \A t \in Types :
        LET c == otp[t].code IN
        c # NoCode /\ otp[t].id = c /\ ~otp[t].expired /\ otp'[t] = NoRow =>
           \/ job[c].state = "failed" /\ job'[c].state = "done"
           \/ \E q \in Requests : request[q].code = c /\ request'[q] # request[q]

\* A request that deletes such a row was given its code: the row holds no older one.
LEMMA FreshDelete ==
    ASSUME TypeOK, RowInv, NEW q \in Requests, request[q].pc # "idle", DeleteOtp(request[q].id),
           request'[q] # request[q]
    PROVE  FreshStep
<1> SUFFICES ASSUME NEW t \in Types, otp[t].code # NoCode, otp[t].id = otp[t].code, otp'[t] = NoRow
             PROVE  request[q].code = otp[t].code
  BY DEF FreshStep
<1>1. request[q].id = otp[t].id
  BY NoRowFields DEF DeleteOtp
<1>2. request[q].code <= otp[t].code
  BY <1>1 DEF RowInv, IdsKnown
<1>3. otp[t].code <= request[q].code
  BY <1>1 DEF RowInv, Numbered
<1>4. request[q].code \in Nat /\ otp[t].code \in Nat
  BY DEF TypeOK, RequestOK, RequestStates, RowStates
<1>5. QED
  BY <1>2, <1>3, <1>4

\* A step that empties no row that was not expired.
LEMMA FreshKept ==
    ASSUME \A t \in Types : otp[t].code = NoCode \/ otp[t].expired \/ otp'[t] # NoRow
    PROVE  FreshStep
BY DEF FreshStep

LEMMA RowsStay ==
    ASSUME RowInv, UNCHANGED otp
    PROVE  FreshStep
BY NoRowFields DEF FreshStep

LEMMA FreshNext == TypeOK /\ RowInv /\ [Next]_vars => FreshStep
<1> SUFFICES ASSUME TypeOK, RowInv, [Next]_vars PROVE FreshStep
  OBVIOUS
<1>1. ASSUME UNCHANGED otp PROVE FreshStep
  BY <1>1, RowsStay
<1>2. ASSUME NEW q \in Requests, RefuseCode(q) \/ InsertUser(q) \/ PassSecondFactor(q) PROVE FreshStep
  <2>1. request[q].pc # "idle" /\ request'[q] # request[q]
    BY <1>2, IdleFields DEF RefuseCode, InsertUser, PassSecondFactor, Ends, TypeOK, RequestOK
  <2>2. UNCHANGED otp \/ DeleteOtp(request[q].id)
    BY <1>2 DEF RefuseCode, InsertUser, PassSecondFactor
  <2>3. QED
    BY <1>1, <2>1, <2>2, FreshDelete
<1>3. ASSUME NEW q \in Requests, NEW write \in Writes, Reset(q, write) PROVE FreshStep
  <2>1. request[q].pc # "idle" /\ write \in request[q].todo
    BY <1>3 DEF Reset
  <2>2. request'[q].todo = request[q].todo \ {write}
    BY <1>3, IdleFields DEF Reset, Ends, TypeOK, RequestOK, RequestStates
  <2>3. UNCHANGED otp \/ DeleteOtp(request[q].id)
    BY <1>3 DEF Reset
  <2>4. request'[q] # request[q]
    BY <2>1, <2>2
  <2>5. QED
    BY <1>1, <2>1, <2>3, <2>4, FreshDelete
<1>4. ASSUME NEW q \in Requests, CreateOtp(q) PROVE FreshStep
  <2>1. issued + 1 # NoCode
    BY OtpAssumption DEF TypeOK, NoCode
  <2>2. \A t \in Types : otp'[t] = otp[t] \/ otp'[t].code = issued + 1
    BY <1>4 DEF CreateOtp, TypeOK
  <2>3. QED
    BY <2>1, <2>2, FreshKept, NoRowFields
<1>5. ASSUME NEW c \in Codes, CleanUpOtp(c) PROVE FreshStep
  <2> SUFFICES ASSUME NEW t \in Types, otp[t].code # NoCode, otp[t].id = otp[t].code, otp'[t] = NoRow
               PROVE  c = otp[t].code /\ job[c].state = "failed" /\ job'[c].state = "done"
    BY DEF FreshStep
  <2>1. job[c].id = otp[t].id /\ job[c].id # NoCode
    BY <1>5, NoRowFields DEF CleanUpOtp, DeleteOtp
  <2>2. c <= otp[t].code
    BY <2>1 DEF RowInv, IdsKnown
  <2>3. otp[t].code <= c
    BY <2>1 DEF RowInv, Numbered
  <2>4. c \in Nat /\ otp[t].code \in Nat
    BY DEF TypeOK, RowStates, Codes
  <2>5. QED
    BY <1>5, <2>2, <2>3, <2>4 DEF CleanUpOtp, TypeOK, MailJobs
<1>6. ASSUME NEW t \in Types, CodeExpires(t) PROVE FreshStep
  <2>1. \A s \in Types : otp'[s].code = otp[s].code
    BY <1>6 DEF CodeExpires, TypeOK, RowStates
  <2>2. QED
    BY <2>1, FreshKept, NoRowFields
<1>7. CASE DeleteExpiredOtps
  <2>1. \A t \in Types : otp[t].expired \/ otp'[t] = otp[t]
    BY <1>7 DEF DeleteExpiredOtps
  <2>2. QED
    BY <2>1, FreshKept, NoRowFields
<1>8. QED
  BY <1>1, <1>2, <1>3, <1>4, <1>5, <1>6, <1>7
     DEF Next, RequestSteps, WorkerSteps, vars, AskForCode, CheckUser, EnqueueMail, MailSent, MailFails,
         CleanUpLost, EnterCode, FindAndValidateOtpCode, FindUser, RequestDies, WriteFails, MadeElsewhere,
         AdminDeletesUser

\* A code in a row of its own leaves it by its expiry, by a request that was given it or by the
\* failure of its own mail, and by nothing that was meant for an older code.
THEOREM FreshRow == Spec => FreshRowIsSafe
<1>1. TypeOK /\ RowInv /\ [Next]_vars => [FreshStep]_vars
  BY FreshNext
<1>2. Spec => [][FreshStep]_vars
  BY <1>1, Rows, PTL DEF Spec
<1>3. QED
  BY <1>2 DEF FreshStep, FreshRowIsSafe
================================================================================
