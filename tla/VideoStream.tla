------------------------------ MODULE VideoStream ------------------------------
(***************************************************************************)
(* One uploaded video on its way to being served: its row of video_status,    *)
(* its job of the queue video-stream, the worker that encodes and uploads it,   *)
(* and the files they share.  The job may be given to a second execution while  *)
(* the first still runs: BullMQ takes a job whose lock is not renewed for       *)
(* stalled.                                                                  *)
(***************************************************************************)
EXTENDS Integers

CONSTANTS
    Slots,          \* executions that may run the job at a time
    NoSlot,
    Attempts,       \* attempts of a job (defaultJobOptions)
    MaxStalls,      \* stalls BullMQ forgives (its maxStalledCount)
    MaxVideoFaults  \* bound: calls that fail, locks and processes that are lost

ASSUME VideoAssumption ==
    /\ NoSlot \notin Slots
    /\ Attempts \in Nat \ {0}
    /\ MaxStalls \in Nat
    /\ MaxVideoFaults \in Nat

VARIABLES
    status,     \* the row of video_status, or "none"
    uploader,   \* the step of upload-video-stream
    job,        \* the job: attempts made, times it stalled, and who has its lock
    pc,         \* [Slots -> the step of encode-video-stream, or of the worker around it]
    source,     \* the uploaded file is on the disk
    output,     \* the folder of encoded files: "none", "partial" or "whole"
    uploaded,   \* the objects in the bucket: "none", "damaged" or "whole"
    overlap,    \* history: an execution went on although its job was given to another, or up
    refused,    \* history: queue.add has thrown
    late,       \* history: the source was deleted by an execution that did not finish with the lock
    lost,       \* history: nobody is left who would settle the row
    videoFaults

videoVars == <<status, uploader, job, pc, source, output, uploaded,
               overlap, refused, late, lost, videoFaults>>

files     == <<source, output, uploaded>>
history   == <<overlap, refused, late, lost>>

-----------------------------------------------------------------------------
NewJob  == [state |-> "none", made |-> 0, stalls |-> 0, holder |-> NoSlot]
Settled == {"success", "failed"}

Running(s)    == pc[s] # "idle"
Holds(s)      == job.holder = s
Alone(s)      == \A other \in Slots \ {s} : ~ Running(other)
StepsTo(s, step) == pc' = [pc EXCEPT ![s] = step]
AfterSource   == {"upload", "rmdir", "success", "report"}

UpdateVideoStatus(new) == status' = new

\* One of the bounded faults; what it strikes decides what it costs.
VideoFault == videoFaults < MaxVideoFaults /\ videoFaults' = videoFaults + 1
FaultAt(s) == VideoFault /\ late' = (late \/ pc[s] \in AfterSource)

-----------------------------------------------------------------------------
(* upload-video-stream *)

InsertStatus ==
    /\ uploader = "insert"
    /\ \/ UpdateVideoStatus("pending") /\ uploader' = "add" /\ UNCHANGED videoFaults
       \/ VideoFault /\ uploader' = "done" /\ UNCHANGED status
    /\ UNCHANGED <<job, pc, files, history>>

\* The answer does not wait for the job, and a refused add may have added it all the same.
AddJob ==
    /\ uploader = "add"
    /\ \/ /\ job' = [job EXCEPT !.state = "waiting"]
          /\ uploader' = "done"
          /\ UNCHANGED <<refused, videoFaults>>
       \/ /\ VideoFault
          /\ \/ job' = [job EXCEPT !.state = "waiting"]
             \/ UNCHANGED job
          /\ uploader' = "mark" /\ refused' = TRUE
    /\ UNCHANGED <<status, pc, files, overlap, late, lost>>

MarkRefused ==
    /\ uploader = "mark" /\ uploader' = "done"
    /\ \/ UpdateVideoStatus("failed") /\ UNCHANGED <<lost, videoFaults>>
       \/ VideoFault /\ lost' = TRUE /\ UNCHANGED status
    /\ UNCHANGED <<job, pc, files, overlap, refused, late>>

UploaderDies ==
    /\ uploader \in {"add", "mark"} /\ uploader' = "done"
    /\ VideoFault
    /\ lost' = TRUE
    /\ UNCHANGED <<status, job, pc, files, overlap, refused, late>>

-----------------------------------------------------------------------------
(* encode-video-stream *)

\* A call of the execution throws, and the worker hands the error to BullMQ.
EncodingThrows(s) ==
    /\ pc[s] \in {"start", "encode", "encoding", "unlink", "upload", "rmdir", "success"}
    /\ StepsTo(s, "throw")
    /\ FaultAt(s)
    /\ uploaded' = IF pc[s] = "upload" /\ uploaded = "none" THEN "damaged" ELSE uploaded
    /\ UNCHANGED <<status, uploader, job, source, output, overlap, refused, lost>>

\* An execution that has lost its lock writes the row all the same.
Processing(s) ==
    /\ pc[s] = "start"
    /\ UpdateVideoStatus("processing")
    /\ lost' = (lost \/ ~ Holds(s))
    /\ StepsTo(s, "encode")
    /\ UNCHANGED <<uploader, job, files, overlap, refused, late, videoFaults>>

\* ffprobe fails on a missing source; ffmpeg writes over what is there.
Encode(s) ==
    /\ pc[s] = "encode"
    /\ IF source THEN StepsTo(s, "encoding") /\ output' = "partial"
                 ELSE StepsTo(s, "throw") /\ UNCHANGED output
    /\ UNCHANGED <<status, uploader, job, source, uploaded, history, videoFaults>>

\* The folder may have been removed under it, or be written by another ffmpeg.
Encoded(s) ==
    /\ pc[s] = "encoding"
    /\ \/ /\ StepsTo(s, "unlink")
          /\ output' = IF output # "none" /\ \A other \in Slots \ {s} : pc[other] # "encoding"
                       THEN "whole" ELSE "partial"
       \/ output = "none" /\ StepsTo(s, "throw") /\ UNCHANGED output
    /\ UNCHANGED <<status, uploader, job, source, uploaded, history, videoFaults>>

DeleteSource(s) ==
    /\ pc[s] = "unlink"
    /\ source' = FALSE
    /\ StepsTo(s, IF source THEN "upload" ELSE "throw")
    /\ late' = (late \/ ~ Holds(s))
    /\ UNCHANGED <<status, uploader, job, output, uploaded, overlap, refused, lost, videoFaults>>

\* Mutant of UploadFiles: nobody waits for the uploads.
UploadFilesUnawaited(s) ==
    /\ pc[s] = "upload"
    /\ StepsTo(s, "rmdir")
    /\ UNCHANGED <<status, uploader, job, files, history, videoFaults>>

\* The walk of the folder and the uploads read what another execution may be writing.
UploadFiles(s) ==
    /\ pc[s] = "upload"
    /\ IF output = "none"
       THEN StepsTo(s, "throw") /\ UNCHANGED uploaded
       ELSE /\ StepsTo(s, "rmdir")
            /\ uploaded' \in IF Alone(s) THEN {IF output = "whole" THEN "whole" ELSE "damaged"}
                                         ELSE {"whole", "damaged"}
    /\ UNCHANGED <<status, uploader, job, source, output, history, videoFaults>>

DeleteDirectory(s) ==
    /\ pc[s] = "rmdir"
    /\ output' = "none"
    /\ StepsTo(s, "success")
    /\ UNCHANGED <<status, uploader, job, source, uploaded, history, videoFaults>>

Success(s) ==
    /\ pc[s] = "success"
    /\ UpdateVideoStatus("success")
    /\ StepsTo(s, "report")
    /\ UNCHANGED <<uploader, job, files, history, videoFaults>>

-----------------------------------------------------------------------------
(* The worker and its queue *)

Take(s) ==
    /\ ~ Running(s) /\ job.state = "waiting"
    /\ job' = [job EXCEPT !.state = "active", !.holder = s]
    /\ StepsTo(s, "start")
    /\ overlap' = (overlap \/ ~ Alone(s))
    /\ UNCHANGED <<status, uploader, files, refused, late, lost, videoFaults>>

\* BullMQ takes no result from an execution that has lost the lock.
Completed(s) ==
    /\ pc[s] = "report"
    /\ StepsTo(s, "idle")
    /\ job' = IF Holds(s) THEN [job EXCEPT !.state = "completed", !.holder = NoSlot] ELSE job
    /\ UNCHANGED <<status, uploader, files, history, videoFaults>>

\* Mutants of LastAttempt: the handler marks every failed attempt, or compares too strictly.
LastAttemptOrAny(attemptsMade) == attemptsMade > 0
LastAttemptExceeded(attemptsMade) == attemptsMade > Attempts

\* The test of the failed handler: attemptsMade >= jobOptsAttempts.
LastAttempt(attemptsMade) == attemptsMade >= Attempts

\* Mutant of Failed: the lock stays with the execution that has ended.
FailedKeepingLock(s) ==
    /\ pc[s] = "throw"
    /\ StepsTo(s, "idle")
    /\ job' = IF Holds(s) THEN [job EXCEPT !.made = @ + 1,
                                           !.state = IF job.made + 1 < Attempts THEN "waiting" ELSE "failed"]
                          ELSE job
    /\ UNCHANGED <<status, uploader, files, history, videoFaults>>

Failed(s) ==
    /\ pc[s] = "throw"
    /\ IF Holds(s)
       THEN LET made == job.made + 1 IN
            /\ job' = [job EXCEPT !.made = made, !.holder = NoSlot,
                                  !.state = IF made < Attempts THEN "waiting" ELSE "failed"]
            /\ StepsTo(s, IF LastAttempt(made) THEN "mark" ELSE "idle")
       ELSE StepsTo(s, "idle") /\ UNCHANGED job
    /\ UNCHANGED <<status, uploader, files, history, videoFaults>>

\* An error of the database is only logged.
MarkVideoEncodingFailed(s) ==
    /\ pc[s] = "mark"
    /\ StepsTo(s, "idle")
    /\ \/ UpdateVideoStatus("failed") /\ UNCHANGED <<lost, videoFaults>>
       \/ VideoFault /\ lost' = TRUE /\ UNCHANGED status
    /\ UNCHANGED <<uploader, job, files, overlap, refused, late>>

WorkerDies(s) ==
    /\ Running(s)
    /\ FaultAt(s)
    /\ StepsTo(s, "idle")
    /\ job' = IF Holds(s) THEN [job EXCEPT !.holder = NoSlot] ELSE job
    /\ lost' = (lost \/ pc[s] = "mark")
    /\ uploaded' = IF pc[s] = "upload" /\ uploaded = "none" THEN "damaged" ELSE uploaded
    /\ UNCHANGED <<status, uploader, source, output, overlap, refused>>

LockLost(s) ==
    /\ Running(s) /\ Holds(s)
    /\ FaultAt(s)
    /\ job' = [job EXCEPT !.holder = NoSlot]
    /\ UNCHANGED <<status, uploader, pc, files, overlap, refused, lost>>

\* A job without a lock waits again.  One that stalled too often has failed, whatever its
\* attempts: the handler sees those it made, with or without the one that stalled.
Stalled ==
    /\ job.state = "active" /\ job.holder = NoSlot
    /\ IF job.stalls < MaxStalls
       THEN /\ job' = [job EXCEPT !.state = "waiting", !.stalls = @ + 1]
            /\ UNCHANGED <<status, overlap, lost>>
       ELSE /\ job' = [job EXCEPT !.state = "failed"]
            /\ overlap' = (overlap \/ \E s \in Slots : Running(s))
            /\ \E seen \in {job.made, job.made + 1} :
                  IF LastAttempt(seen)
                  THEN UpdateVideoStatus("failed") /\ UNCHANGED lost
                  ELSE lost' = TRUE /\ UNCHANGED status
    /\ UNCHANGED <<uploader, pc, files, refused, late, videoFaults>>

-----------------------------------------------------------------------------
NoVideo ==
    /\ status = "none"
    /\ job = NewJob
    /\ pc = [s \in Slots |-> "idle"]
    /\ source = TRUE /\ output = "none" /\ uploaded = "none"
    /\ overlap = FALSE /\ refused = FALSE /\ late = FALSE /\ lost = FALSE
    /\ videoFaults = 0

VideoInit == NoVideo /\ uploader = "insert"

Upload == InsertStatus \/ AddJob \/ MarkRefused

EncodeVideoStream(s) ==
    \/ Processing(s) \/ Encode(s) \/ Encoded(s) \/ DeleteSource(s)
    \/ UploadFiles(s) \/ DeleteDirectory(s) \/ Success(s)

Process(s) == EncodeVideoStream(s) \/ Completed(s) \/ Failed(s) \/ MarkVideoEncodingFailed(s)

VideoNext ==
    \/ Upload \/ UploaderDies \/ Stalled
    \/ \E s \in Slots : Take(s) \/ Process(s) \/ EncodingThrows(s) \/ WorkerDies(s) \/ LockLost(s)

VideoSpec == VideoInit /\ [][VideoNext]_videoVars

\* The event loops run, a call returns or throws, an idle worker polls its queue and looks
\* for stalled jobs.
VideoFairness ==
    /\ WF_videoVars(Upload)
    /\ WF_videoVars(Stalled)
    /\ WF_videoVars(\E s \in Slots : Take(s))
    /\ \A s \in Slots : WF_videoVars(Process(s))

-----------------------------------------------------------------------------
(* Properties                                                              *)

Steps == {"idle", "start", "encode", "encoding", "unlink", "throw", "mark"} \union AfterSource

Jobs ==
    [state : {"none", "waiting", "active", "completed", "failed"},
     made : 0..Attempts, stalls : 0..MaxStalls, holder : Slots \union {NoSlot}]

\* The state keeps its shape, only an active job is locked, and its holder is executing it.
VideoTypeOK ==
    /\ status \in {"none", "pending", "processing"} \union Settled
    /\ uploader \in {"insert", "add", "mark", "done"}
    /\ job \in Jobs
    /\ pc \in [Slots -> Steps]
    /\ source \in BOOLEAN
    /\ output \in {"none", "partial", "whole"}
    /\ uploaded \in {"none", "damaged", "whole"}
    /\ overlap \in BOOLEAN /\ refused \in BOOLEAN /\ late \in BOOLEAN /\ lost \in BOOLEAN
    /\ videoFaults \in 0..MaxVideoFaults
    /\ \A s \in Slots : Holds(s) => job.state = "active" /\ Running(s)

\* The row tells the truth.  A video that is called a success can be served: its files were
\* all uploaded, unless two executions have worked on one folder (encode-video-stream).  One
\* is called failed only after a fault in each of its attempts, or after a single one that no
\* attempt can make good: the source was gone, the job was refused, or it ran twice
\* (video-stream.worker:40, encode-video-stream:32).
StatusIsTrue ==
    /\ status = "success" => uploaded = "whole" \/ overlap
    /\ status = "failed" => videoFaults >= Attempts \/ late \/ refused \/ overlap

\* What the row says of a settled video stays, although every write of it is unconditional
\* and a job may be run again (updateVideoStatus).
SettledStays ==
    [][(status \in Settled) => status' = status \/ late' \/ refused' \/ overlap']_videoVars

\* Every video is settled in the end, unless somebody who should have written the row is
\* gone, was given up by BullMQ below its last attempt, or wrote it without the lock.
SettlesUnlessLost == <>[](status \in Settled \union {"none"} \/ lost)
=============================================================================
