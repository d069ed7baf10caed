------------------------------- MODULE OtpCodes -------------------------------
(***************************************************************************)
(* The one-time codes of one email address: who asks for one (send-otp), the *)
(* mail queue and its worker, and the use cases that accept one (register,    *)
(* forgot-password, and the second factor of login and disable-2fa).          *)
(*                                                                         *)
(* The otps table has one row per type.  A new code overwrites the row and    *)
(* keeps its id, and every deletion goes by that id.                          *)
(***************************************************************************)
EXTENDS Integers

CONSTANTS
    Requests,       \* requests of this address that are handled at a time
    Types,          \* the types of code that are asked for
    MaxCodes,       \* bound: codes that are created
    MaxFaults       \* bound: requests that die, or whose database call fails

SecondFactors == {"LOGIN", "DISABLE_2FA"}
AllTypes      == {"REGISTER", "FORGOT_PASSWORD"} \union SecondFactors
Codes         == 1 .. MaxCodes
NoCode        == 0

ASSUME OtpAssumption ==
    /\ Types \subseteq AllTypes
    /\ "REGISTER" \in Types
    /\ MaxCodes \in Nat
    /\ MaxFaults \in Nat

VARIABLES
    user,       \* the address belongs to a user that is not deleted
    otp,        \* [Types -> the row of the otps table]
    job,        \* [Codes -> the mail job of the code]
    request,    \* [Requests -> the use case it runs]
    issued,     \* the codes that have been created are 1 .. issued
    mailed,     \* the codes that reached the inbox
    used,       \* history: the codes that created a user, set a password or passed a login
    kept,       \* history: the codes whose request was lost before it deleted them
    overtaken,  \* history: a user was made while a request or another row was still in its way
    faults

vars == <<user, otp, job, request, issued, mailed, used, kept, overtaken, faults>>

-----------------------------------------------------------------------------
NoRow == [id |-> NoCode, code |-> NoCode, expired |-> FALSE]
NoJob == [state |-> "none", id |-> NoCode]
Started(pc, t, c) == [pc |-> pc, type |-> t, code |-> c, id |-> NoCode, todo |-> {}]
Idle  == Started("idle", "none", NoCode)
JobStates == {"none", "waiting", "failed", "done"}
Pcs == {"idle", "check", "create", "enqueue", "find", "expired", "user", "insert", "burn", "reset", "pass"}
Writes == {"password", "code"}

Goes(q, pc) == request' = [request EXCEPT ![q].pc = pc]
Ends(q)     == request' = [request EXCEPT ![q] = Idle]

\* DELETE FROM otps WHERE id: whatever code the row holds by now.
DeleteOtp(id) == otp' = [t \in Types |-> IF otp[t].id = id /\ id # NoCode THEN NoRow ELSE otp[t]]

-----------------------------------------------------------------------------
(* send-otp *)

AskForCode(q, t) ==
    /\ request[q].pc = "idle"
    /\ request' = [request EXCEPT ![q] = Started("check", t, NoCode)]
    /\ UNCHANGED <<user, otp, job, issued, mailed, used, kept, overtaken, faults>>

\* Mutant: REGISTER codes are sent to users as well.
CheckNobody(q) ==
    /\ request[q].pc = "check"
    /\ IF request[q].type = "FORGOT_PASSWORD" /\ ~user THEN Ends(q) ELSE Goes(q, "create")
    /\ UNCHANGED <<user, otp, job, issued, mailed, used, kept, overtaken, faults>>
\* No REGISTER code for a user, no FORGOT_PASSWORD code for nobody.
CheckUser(q) ==
    /\ request[q].pc = "check"
    /\ IF request[q].type = (IF user THEN "REGISTER" ELSE "FORGOT_PASSWORD")
       THEN Ends(q)
       ELSE Goes(q, "create")
    /\ UNCHANGED <<user, otp, job, issued, mailed, used, kept, overtaken, faults>>

\* INSERT ... ON CONFLICT (email, type) DO UPDATE: the row keeps its id.
CreateOtp(q) ==
    LET t   == request[q].type
        new == issued + 1
        id  == IF otp[t] = NoRow THEN new ELSE otp[t].id
    IN /\ request[q].pc = "create"
       /\ issued < MaxCodes
       /\ issued' = new
       /\ otp' = [otp EXCEPT ![t] = [id |-> id, code |-> new, expired |-> FALSE]]
       /\ request' = [request EXCEPT ![q].pc = "enqueue", ![q].code = new, ![q].id = id]
       /\ UNCHANGED <<user, job, mailed, used, kept, overtaken, faults>>

EnqueueMail(q) ==
    /\ request[q].pc = "enqueue"
    /\ job' = [job EXCEPT ![request[q].code] = [state |-> "waiting", id |-> request[q].id]]
    /\ Ends(q)
    /\ UNCHANGED <<user, otp, issued, mailed, used, kept, overtaken, faults>>

-----------------------------------------------------------------------------
(* The mail worker *)

MailSent(c) ==
    /\ job[c].state = "waiting"
    /\ job' = [job EXCEPT ![c].state = "done"]
    /\ mailed' = mailed \union {c}
    /\ UNCHANGED <<user, otp, request, issued, used, kept, overtaken, faults>>

\* The attempt fails, although the mail may be out.  Another one follows, or this was the last
\* (attempts and backoff are not counted).
MailFails(c) ==
    /\ job[c].state = "waiting"
    /\ \E state \in {"waiting", "failed"} : job' = [job EXCEPT ![c].state = state]
    /\ mailed' \in {mailed, mailed \union {c}}
    /\ UNCHANGED <<user, otp, request, issued, used, kept, overtaken, faults>>

\* The failed event: the row is deleted by the id it had when the mail was asked for.
CleanUpOtp(c) ==
    /\ job[c].state = "failed"
    /\ DeleteOtp(job[c].id)
    /\ job' = [job EXCEPT ![c].state = "done"]
    /\ UNCHANGED <<user, request, issued, mailed, used, kept, overtaken, faults>>

\* The delete fails and is logged, or the worker dies before it.
CleanUpLost(c) ==
    /\ job[c].state = "failed"
    /\ job' = [job EXCEPT ![c].state = "done"]
    /\ UNCHANGED <<user, otp, request, issued, mailed, used, kept, overtaken, faults>>

CodeExpires(t) ==
    /\ otp[t] # NoRow
    /\ ~otp[t].expired
    /\ otp' = [otp EXCEPT ![t].expired = TRUE]
    /\ UNCHANGED <<user, job, request, issued, mailed, used, kept, overtaken, faults>>

DeleteExpiredOtps ==
    /\ \E t \in Types : otp[t].expired
    /\ otp' = [t \in Types |-> IF otp[t].expired THEN NoRow ELSE otp[t]]
    /\ UNCHANGED <<user, job, request, issued, mailed, used, kept, overtaken, faults>>

-----------------------------------------------------------------------------
(* The use cases that accept a code *)

\* A code from the inbox is entered; login and disable-2fa have found the user before.
EnterCode(q, t, c) ==
    /\ request[q].pc = "idle"
    /\ c \in mailed
    /\ t \in SecondFactors => user
    /\ request' = [request EXCEPT ![q] = Started("find", t, c)]
    /\ UNCHANGED <<user, otp, job, issued, mailed, used, kept, overtaken, faults>>

AfterFind(t) ==
    IF t \in SecondFactors THEN "pass" ELSE "user"

FindAndValidateOtpCode(q) ==
    LET row == otp[request[q].type] IN
    /\ request[q].pc = "find"
    /\ IF row.code # request[q].code
       THEN Ends(q)
       ELSE request' = [request EXCEPT ![q].id = row.id,
                                       ![q].pc = IF row.expired THEN "expired" ELSE AfterFind(request[q].type)]
    /\ UNCHANGED <<user, otp, job, issued, mailed, used, kept, overtaken, faults>>

\* An expired code is deleted and refused; forgot-password deletes the code of nobody.
RefuseCode(q) ==
    /\ request[q].pc \in {"expired", "burn"}
    /\ DeleteOtp(request[q].id)
    /\ Ends(q)
    /\ UNCHANGED <<user, job, issued, mailed, used, kept, overtaken, faults>>

FindUser(q) ==
    /\ request[q].pc = "user"
    /\ \/ /\ request[q].type = "REGISTER"
          /\ IF user THEN Ends(q) ELSE Goes(q, "insert")
       \/ /\ request[q].type = "FORGOT_PASSWORD"
          /\ request' = [request EXCEPT ![q].pc = IF user THEN "reset" ELSE "burn",
                                        ![q].todo = IF user THEN Writes ELSE {}]
    /\ UNCHANGED <<user, otp, job, issued, mailed, used, kept, overtaken, faults>>

\* A REGISTER code that q's deletion does not reach, or that is about to be created.
InTheWay(id) ==
    \/ otp["REGISTER"].id \notin {NoCode, id}
    \/ \E q \in Requests : request[q].type = "REGISTER" /\ request[q].pc = "create"

\* Mutant: the user is inserted and the code is left to expire.
InsertUserKeepCode(q) ==
    /\ request[q].pc = "insert"
    /\ user' = TRUE
    /\ used' = IF user THEN used ELSE used \union {request[q].code}
    /\ overtaken' = IF user THEN overtaken ELSE InTheWay(request[q].id)
    /\ Ends(q)
    /\ UNCHANGED <<otp, job, issued, mailed, kept, faults>>
\* Mutant: the deletion goes by email and type instead of the id.
InsertUserDeleteByType(q) ==
    /\ request[q].pc = "insert"
    /\ user' = TRUE
    /\ otp' = IF user THEN otp ELSE [otp EXCEPT !["REGISTER"] = NoRow]
    /\ used' = IF user THEN used ELSE used \union {request[q].code}
    /\ overtaken' = IF user THEN overtaken ELSE InTheWay(request[q].id)
    /\ Ends(q)
    /\ UNCHANGED <<job, issued, mailed, kept, faults>>

\* One transaction inserts the user and deletes the code; it fails if the email is taken.
InsertUser(q) ==
    /\ request[q].pc = "insert"
    /\ IF user
       THEN UNCHANGED <<user, otp, used, overtaken>>
       ELSE /\ user' = TRUE
            /\ DeleteOtp(request[q].id)
            /\ used' = used \union {request[q].code}
            /\ overtaken' = InTheWay(request[q].id)
    /\ Ends(q)
    /\ UNCHANGED <<job, issued, mailed, kept, faults>>
\* Mutant: a reset does not end with its last write.
ResetStays(q, write) ==
    /\ request[q].pc = "reset"
    /\ write \in request[q].todo
    /\ IF write = "code"
       THEN DeleteOtp(request[q].id) /\ UNCHANGED used
       ELSE used' = used \union {request[q].code} /\ UNCHANGED otp
    /\ request' = [request EXCEPT ![q].todo = @ \ {write}]
    /\ UNCHANGED <<user, job, issued, mailed, kept, overtaken, faults>>
\* Promise.all: the password and the deletion are written in either order.
Reset(q, write) ==
    LET left == request[q].todo \ {write} IN
    /\ request[q].pc = "reset"
    /\ write \in request[q].todo
    /\ IF write = "code"
       THEN DeleteOtp(request[q].id) /\ UNCHANGED used
       ELSE used' = used \union {request[q].code} /\ UNCHANGED otp
    /\ IF left = {} THEN Ends(q) ELSE request' = [request EXCEPT ![q].todo = left]
    /\ UNCHANGED <<user, job, issued, mailed, kept, overtaken, faults>>

\* The second factor is accepted once the code is deleted, if it still was there or not.
PassSecondFactor(q) ==
    /\ request[q].pc = "pass"
    /\ DeleteOtp(request[q].id)
    /\ used' = used \union {request[q].code}
    /\ Ends(q)
    /\ UNCHANGED <<user, job, issued, mailed, kept, overtaken, faults>>

-----------------------------------------------------------------------------
\* The process dies, or a call fails: whatever the request had still to write is not written.
RequestDies(q) ==
    /\ faults < MaxFaults
    /\ request[q].pc # "idle"
    /\ kept' = IF "code" \in request[q].todo THEN kept \union {request[q].code} ELSE kept
    /\ Ends(q)
    /\ faults' = faults + 1
    /\ UNCHANGED <<user, otp, job, issued, mailed, used, overtaken>>

\* One write of a reset fails and the other goes on.
WriteFails(q, write) ==
    /\ faults < MaxFaults
    /\ request[q].pc = "reset"
    /\ write \in request[q].todo
    /\ request[q].todo # {write}
    /\ kept' = IF write = "code" THEN kept \union {request[q].code} ELSE kept
    /\ request' = [request EXCEPT ![q].todo = @ \ {write}]
    /\ faults' = faults + 1
    /\ UNCHANGED <<user, otp, job, issued, mailed, used, overtaken>>

\* A user of this address is made without a code: by Google's login or by an administrator.
MadeElsewhere ==
    /\ ~user
    /\ user' = TRUE
    /\ overtaken' = TRUE
    /\ UNCHANGED <<otp, job, request, issued, mailed, used, kept, faults>>

AdminDeletesUser ==
    /\ user
    /\ user' = FALSE
    /\ UNCHANGED <<otp, job, request, issued, mailed, used, kept, overtaken, faults>>

-----------------------------------------------------------------------------
Init ==
    /\ user = FALSE
    /\ otp = [t \in Types |-> NoRow]
    /\ job = [c \in Codes |-> NoJob]
    /\ request = [q \in Requests |-> Idle]
    /\ issued = 0
    /\ mailed = {}
    /\ used = {}
    /\ kept = {}
    /\ overtaken = FALSE
    /\ faults = 0

RequestSteps(q) ==
    \/ CheckUser(q) \/ CreateOtp(q) \/ EnqueueMail(q)
    \/ FindAndValidateOtpCode(q) \/ RefuseCode(q) \/ FindUser(q) \/ InsertUser(q)
    \/ PassSecondFactor(q)
    \/ \E write \in Writes : Reset(q, write)

WorkerSteps(c) == MailSent(c) \/ MailFails(c) \/ CleanUpOtp(c) \/ CleanUpLost(c)

Next ==
    \/ \E q \in Requests : RequestSteps(q)
    \/ \E q \in Requests, t \in Types : AskForCode(q, t)
    \/ \E q \in Requests, t \in Types, c \in Codes : EnterCode(q, t, c)
    \/ \E c \in Codes : WorkerSteps(c)
    \/ \E t \in Types : CodeExpires(t)
    \/ DeleteExpiredOtps
    \/ MadeElsewhere
    \/ AdminDeletesUser
    \/ \E q \in Requests : RequestDies(q)
    \/ \E q \in Requests, write \in Writes : WriteFails(q, write)

Spec == Init /\ [][Next]_vars

-----------------------------------------------------------------------------
RowStates     == [id : 0 .. MaxCodes, code : 0 .. MaxCodes, expired : BOOLEAN]
MailJobs      == [state : JobStates, id : 0 .. MaxCodes]
RequestStates == [pc : Pcs, type : Types \union {"none"}, code : 0 .. MaxCodes,
                  id : 0 .. MaxCodes, todo : SUBSET Writes]

\* A request has a type while it runs, a code from the moment it has made or read one, and
\* writes left exactly while it resets a password.
Regular(r) ==
    /\ r \in RequestStates
    /\ r.pc = "idle" <=> r.type = "none"
    /\ r.pc \in {"idle", "check", "create"} <=> r.code = NoCode
    /\ r.pc = "reset" <=> r.todo # {}

RequestOK ==
    /\ request \in [Requests -> RequestStates]
    /\ \A q \in Requests : Regular(request[q])

\* The shape of the state.
TypeOK ==
    /\ user \in BOOLEAN
    /\ otp \in [Types -> RowStates]
    /\ job \in [Codes -> MailJobs]
    /\ RequestOK
    /\ issued \in 0 .. MaxCodes
    /\ mailed \subseteq Codes
    /\ used \subseteq Codes
    /\ kept \subseteq Codes
    /\ overtaken \in BOOLEAN
    /\ faults \in 0 .. MaxFaults

\* A code that has done its work is not in the table, so that no later request finds it,
\* whatever was issued, failed and deleted meanwhile.  Only a reset has the two apart: while
\* it is still deleting the code, or when it was lost before it did.
UsedIsSpent ==
    \A t \in Types : otp[t].code \in used =>
        \/ otp[t].code \in kept
        \/ \E q \in Requests : request[q].code = otp[t].code /\ "code" \in request[q].todo

\* No live REGISTER code outlasts the making of a user, unless a send-otp had already checked
\* that there is none, the code was not the one that made the user, or none did.
RegisterCodeOnlyIfOvertaken ==
    user /\ otp["REGISTER"] # NoRow /\ ~otp["REGISTER"].expired => overtaken

\* A code in a row of its own, inserted and not written over an older one, leaves the table
\* only by its expiry, a request that was given this code, or the failure of its own mail: what
\* is left of the work for older codes does not reach it.
FreshRowIsSafe ==
    [][\A t \in Types :
         LET c == otp[t].code IN
         c # NoCode /\ otp[t].id = c /\ ~otp[t].expired /\ otp'[t] = NoRow =>
            \/ job[c].state = "failed" /\ job'[c].state = "done"
            \/ \E q \in Requests : request[q].code = c /\ request'[q] # request[q]]_vars
================================================================================
