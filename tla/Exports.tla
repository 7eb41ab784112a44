------------------------------ MODULE Exports ------------------------------
(***************************************************************************)
(* The two ways out for data.  The control plane's background jobs fetch a *)
(* grid, write it to a temporary file and upload that.  The data plane's   *)
(* exporter slices a table into batches and hands them to a sink, which    *)
(* writes each at once or gathers them in a file until it is closed.       *)
(***************************************************************************)
EXTENDS Naturals, Sequences

CONSTANTS
    ExJobs,      \* background jobs, all to one destination
    ExCases,     \* exports: the sink, whether it is configured, the batches of each run
    ExMaxFails   \* a bound: steps that fail, restarts of the control plane

Buffering == {"s3", "adls"}  \* a file, uploaded when the sink is closed
Files == {"parquet"} \cup Buffering
Sinks == Files \cup {"snowflake", "databricks", "fabric"}

ASSUME ExportsAssumption ==
    /\ "none" \notin ExJobs /\ ExMaxFails \in Nat
    /\ ExCases \subseteq [sink : Sinks, configured : BOOLEAN, runs : Seq(Nat)]

VARIABLES
    exJob,    \* the jobs the control plane knows, by name
    exStore,  \* the object at the jobs' destination, and the temporary files
    exRun,    \* the exporter's current run
    exDest,   \* what its sink's destination holds
    exFails

exVars == <<exJob, exStore, exRun, exDest, exFails>>

ExFailing == exFails < ExMaxFails /\ exFails' = exFails + 1

-----------------------------------------------------------------------------
(* Background jobs *)

NewJob == [status |-> "queued", stage |-> "queued", worker |-> TRUE]
NoJob == [status |-> "unknown", stage |-> "unknown", worker |-> FALSE]

CreateJob(j) ==
    /\ exJob[j] = NoJob /\ j \notin exStore.began
    /\ exJob' = [exJob EXCEPT ![j] = NewJob]
    /\ exStore' = [exStore EXCEPT !.began = @ \cup {j}]
    /\ UNCHANGED <<exRun, exDest, exFails>>

Touch(j, status, stage) == exJob' = [exJob EXCEPT ![j].status = status, ![j].stage = stage]
AtStage(j, stage) == exJob[j].worker /\ exJob[j].stage = stage

\* run_export_job: the gateway's load is noted first, and stops nothing.
Querying(j) ==
    /\ AtStage(j, "queued") /\ Touch(j, "running", "querying")
    /\ UNCHANGED <<exStore, exRun, exDest, exFails>>

\* The grid is there, and written to a file of its own.
Writing(j) ==
    /\ AtStage(j, "querying") /\ Touch(j, "running", "writing")
    /\ exStore' = [exStore EXCEPT !.files = @ \cup {j}]
    /\ UNCHANGED <<exRun, exDest, exFails>>

Uploading(j) ==
    /\ AtStage(j, "writing") /\ Touch(j, "running", "uploading")
    /\ exStore' = [exStore EXCEPT !.sent = @ \cup {j}]
    /\ UNCHANGED <<exRun, exDest, exFails>>

\* upload_file, upload_blob: the object is replaced by the whole file, by any of the
\* attempts that the SDK makes; one that was given up may be served late.
Lands(j) ==
    /\ j \in exStore.sent
    /\ exStore' = [exStore EXCEPT !.object = j, !.landed = @ \cup {j}]
    /\ UNCHANGED <<exJob, exRun, exDest, exFails>>

\* Variant: the file is removed only when all went well.
Kept(j, ok) == IF ok THEN exStore.files \ {j} ELSE exStore.files

\* The file goes in any case.
LeftOf(j, ok) == exStore.files \ {j}

Worked(j, ok) ==
    exJob' = [exJob EXCEPT ![j] = [status |-> IF ok THEN "succeeded" ELSE "failed",
                                   stage |-> IF ok THEN "done" ELSE "failed", worker |-> FALSE]]

\* Variant: what the SDK raises is not looked at.
Tried(j) == j \in exStore.sent

Acknowledged(j) == j \in exStore.landed

\* upload_to_s3, upload_to_adls return.
Uploaded(j) ==
    /\ AtStage(j, "uploading") /\ Acknowledged(j) /\ Worked(j, TRUE)
    /\ exStore' = [exStore EXCEPT !.files = LeftOf(j, TRUE)]
    /\ UNCHANGED <<exRun, exDest, exFails>>

\* The query, the file or the upload fails, or the SDK has no answer: the object may have
\* been replaced already.
JobFails(j) ==
    /\ \E stage \in {"querying", "writing", "uploading"} : AtStage(j, stage)
    /\ Worked(j, FALSE) /\ ExFailing
    /\ exStore' = [exStore EXCEPT !.files = LeftOf(j, FALSE)]
    /\ UNCHANGED <<exRun, exDest>>

\* The jobs are in memory; the files are not.
ControlPlaneForgets ==
    /\ \E j \in ExJobs : exJob[j].worker
    /\ exJob' = [j \in ExJobs |-> NoJob] /\ ExFailing
    /\ exStore' = [exStore EXCEPT !.orphans = @ \cup exStore.files]
    /\ UNCHANGED <<exRun, exDest>>

-----------------------------------------------------------------------------
(* The exporter: its runs, one after the other, to one sink *)

Batch(k) == <<exRun.n, k>>

\* A table that is there, of n batches; the query has been answered before a sink is
\* opened.
Extract ==
    /\ exRun.at = "idle" /\ exRun.n < Len(exRun.runs)
    /\ exRun' = [exRun EXCEPT !.at = "writing", !.n = @ + 1, !.opened = FALSE, !.rows = 0]
    /\ UNCHANGED <<exJob, exStore, exDest, exFails>>

Batches(n) == exRun.runs[n]

\* A parquet file is emptied by being opened; a buffer is a temporary file.
Opened == IF exRun.sink = "parquet" THEN [exDest EXCEPT !.file = <<>>] ELSE exDest

\* sink.open, at the first batch, or with the known columns when there is none.
Open ==
    /\ exRun.at = "writing" /\ ~exRun.opened /\ exRun.configured
    /\ exRun' = [exRun EXCEPT !.opened = TRUE, !.buffer = <<>>] /\ exDest' = Opened
    /\ UNCHANGED <<exJob, exStore, exFails>>

\* A sink that is not configured refuses; one that is may find no directory, or no
\* connection.  Neither is closed: it was not opened.
OpenFails ==
    /\ exRun.at = "writing" /\ ~exRun.opened
    /\ exRun' = [exRun EXCEPT !.at = "idle", !.outcome = IF exRun.configured THEN "failed" ELSE "refused"]
    /\ \/ exRun.configured /\ exDest' \in {exDest, Opened} /\ ExFailing
       \/ ~exRun.configured /\ UNCHANGED <<exDest, exFails>>
    /\ UNCHANGED <<exJob, exStore>>

\* A part that was loaded under the same name is not loaded again.
CopyInto(part, batch) ==
    IF part \in exDest.loaded THEN exDest
    ELSE [exDest EXCEPT !.loaded = @ \cup {part}, !.table = Append(@, batch)]

\* A part is loaded in the place of one of its name.
Overwritten(parts, part, batch) ==
    [p \in DOMAIN parts \cup {part} |-> IF p = part THEN batch ELSE parts[p]]

\* write_table of each sink.
TableWritten(part, batch) ==
    CASE exRun.sink = "parquet" -> [exDest EXCEPT !.file = Append(@, batch)]
      [] exRun.sink \in Buffering -> exDest
      [] exRun.sink = "snowflake" -> [exDest EXCEPT !.table = Append(@, batch)]
      [] exRun.sink = "databricks" -> CopyInto(part, batch)
      [] exRun.sink = "fabric" -> [exDest EXCEPT !.parts = Overwritten(@, part, batch)]

Ready == exRun.at = "writing" /\ exRun.opened

WriteTable ==
    /\ Ready /\ exRun.rows < Batches(exRun.n)
    /\ exDest' = TableWritten(exRun.rows, Batch(exRun.rows))
    /\ exRun' = [exRun EXCEPT !.rows = @ + 1, !.buffer = Append(@, Batch(exRun.rows))]
    /\ UNCHANGED <<exJob, exStore, exFails>>

\* close: what has been gathered is uploaded, be it all or not.
Uploads(dest) == IF exRun.sink \in Buffering THEN [dest EXCEPT !.file = exRun.buffer] ELSE dest

Close(outcome, dest) ==
    /\ exDest' = dest /\ exRun' = [exRun EXCEPT !.at = "idle", !.outcome = outcome]
    /\ UNCHANGED <<exJob, exStore>>

Done == Ready /\ exRun.rows = Batches(exRun.n) /\ Close("exported", Uploads(exDest)) /\ UNCHANGED exFails

\* What a batch whose writing raised has left: what was sent to a warehouse may be there
\* all the same, and a part of a Lakehouse is created before it is filled.
Torn(part) == <<0, part>>
Attempted(part, batch) ==
    {exDest} \cup (IF exRun.sink \in Files THEN {} ELSE {TableWritten(part, batch)})
             \cup (IF exRun.sink = "fabric" THEN {TableWritten(part, Torn(part))} ELSE {})

\* It ends the run, and the sink is closed all the same.
WriteFails ==
    /\ Ready /\ exRun.rows < Batches(exRun.n) /\ ExFailing
    /\ \E dest \in Attempted(exRun.rows, Batch(exRun.rows)) : Close("failed", Uploads(dest))

\* The closing itself fails: an upload that raised may have replaced the object, and a
\* parquet file without its footer cannot be read.
CloseFails ==
    /\ Ready /\ exRun.sink # "fabric" /\ ExFailing
    /\ \E dest \in {exDest, Uploads(exDest)} :
          Close("failed", IF exRun.sink = "parquet" THEN [dest EXCEPT !.file = <<>>] ELSE dest)

-----------------------------------------------------------------------------
ExStart(c) ==
    /\ exJob = [j \in ExJobs |-> NoJob]
    /\ exStore = [object |-> "none", sent |-> {}, landed |-> {}, files |-> {}, orphans |-> {}, began |-> {}]
    /\ exRun = [sink |-> c.sink, configured |-> c.configured, runs |-> c.runs, n |-> 0, at |-> "idle",
                opened |-> FALSE, rows |-> 0, buffer |-> <<>>, outcome |-> "none"]
    /\ exDest = [file |-> <<>>, table |-> <<>>, parts |-> <<>>, loaded |-> {}]
    /\ exFails = 0

ExInit == \E c \in ExCases : ExStart(c)

ExNext ==
    \/ \E j \in ExJobs :
          \/ CreateJob(j) \/ Querying(j) \/ Writing(j) \/ Uploading(j) \/ Lands(j)
          \/ Uploaded(j) \/ JobFails(j)
    \/ ControlPlaneForgets
    \/ Extract \/ Open \/ OpenFails \/ WriteTable \/ Done \/ WriteFails \/ CloseFails

ExSpec == ExInit /\ [][ExNext]_exVars

-----------------------------------------------------------------------------
\* A job that is reported as succeeded has put its whole file at the destination, where it
\* is still, unless another job has put its own there; nothing is there of a job that had
\* not come to its upload.  A job that failed may have replaced the object or not.  No job
\* is stuck: one that is at work has a worker; and no file outlives its job, but for a
\* restart.
JobsTell ==
    /\ \A j \in ExJobs :
          exJob[j].status = "succeeded" => j \in exStore.landed /\ exStore.object \in exStore.landed
    /\ \A j \in exStore.landed :
          exJob[j].stage \in {"uploading", "done", "failed", "unknown"}
    /\ \A j \in ExJobs :
          /\ exJob[j].status \in {"queued", "running"} <=> exJob[j].worker
          /\ j \in exStore.files => exJob[j].worker \/ j \in exStore.orphans

\* What an export that was reported as done has handed over is at its destination, batch
\* by batch in its order: alone in a file, behind other exports' in a table, or each as
\* the part of its number; in Databricks, a part that an earlier run loaded under the same
\* name stands for it, and none is loaded twice.  Whatever failed, a file holds the first
\* batches of one run.  What was refused has touched nothing.
SinksTell ==
    LET all == [k \in 1 .. Batches(exRun.n) |-> Batch(k - 1)]
        end(s) == SubSeq(s, Len(s) - Len(all) + 1, Len(s))
        partsOf(s) == \A k \in DOMAIN s : s[k][1] \in 1 .. exRun.n /\ s[k][2] = k - 1
    IN exRun.at = "idle" /\ exRun.n > 0 =>
         /\ exRun.outcome = "exported" =>
              CASE exRun.sink \in Files -> exDest.file = all
                [] exRun.sink = "snowflake" -> end(exDest.table) = all
                [] exRun.sink = "fabric" -> \A k \in DOMAIN all : exDest.parts[k - 1] = all[k]
                [] OTHER -> Len(all) <= Len(exDest.table)
         /\ exRun.sink \in Files =>
              \E n \in 1 .. exRun.n : \A k \in DOMAIN exDest.file : exDest.file[k] = <<n, k - 1>>
         /\ exRun.sink = "databricks" => partsOf(exDest.table)
         /\ exRun.outcome = "refused" => exDest = [file |-> <<>>, table |-> <<>>, parts |-> <<>>, loaded |-> {}]

\* export_jobs.py, export/job.py: no job and no sink pretends to have written.
ExportsTell == JobsTell /\ SinksTell
=============================================================================
