----------------------------- MODULE Ingestion -----------------------------
(***************************************************************************)
(* Source ingestion: the upload that makes a row and asks for its job      *)
(* (api/src/sources/stage-file-source.ts), the ingest job's handler        *)
(* (core/src/ingestion/ingest-job.ts), the pipeline it runs (pipeline.ts)  *)
(* and the sweep that resumes deferred rows (ingest-sweep.ts).  A source   *)
(* may be deleted at any moment, the process may die between any two       *)
(* statements, and a claim may lapse under a runner that still lives.      *)
(***************************************************************************)
EXTENDS Integers, FiniteSets

CONSTANTS
  Source,             \* the sources of one companion
  Ingester,           \* nodes that may run the companion's ingest jobs
  MaxQueueDepth,      \* maxQueueDepth: pending ingest jobs before uploads are refused
  MaxIngestFaults,    \* bound on lost requests and writes and processes that die
  MaxIngestOverlaps   \* bound on claims taken from a live runner

ASSUME IngestionConstants ==
  /\ Source # {} /\ IsFiniteSet(Ingester)
  /\ MaxQueueDepth \in Nat /\ MaxIngestFaults \in Nat /\ MaxIngestOverlaps \in Nat

VARIABLES
  row,          \* each source's ingestion row: its status, or none, or gone
  ingestJob,    \* each source's pending job: none, with an upload, or a resume
  staged,       \* whether the source's bytes are in the staging store
  drained,      \* whether the wallet the reads are billed to is empty
  ingester,     \* each node: where its run is, its source and whether it resumes
  notices,      \* ghost: announcements of each outcome asked for
  missed,       \* ghost: each source's failed writes of its first stage or of done
  thrown,       \* ghost: sources whose handler threw and left the row behind
  ingestFaults, ingestOverlaps   \* how much of each bound is used

ingestionVars ==
  <<row, ingestJob, staged, drained, ingester, notices, missed, thrown, ingestFaults, ingestOverlaps>>

Stage == {"parsing", "segmenting", "enriching", "embedding"}

Terminal == {"done", "failed"}

Vacant == [at |-> "idle", source |-> CHOOSE s \in Source : TRUE, resumes |-> FALSE]

IngestionInit ==
  /\ row = [s \in Source |-> "none"]
  /\ ingestJob = [s \in Source |-> "none"]
  /\ staged = [s \in Source |-> FALSE]
  /\ drained = FALSE
  /\ ingester = [r \in Ingester |-> Vacant]
  /\ notices = [s \in Source |-> [o \in Terminal |-> 0]]
  /\ missed = [s \in Source |-> 0] /\ thrown = {}
  /\ ingestFaults = 0 /\ ingestOverlaps = 0

Fault == ingestFaults < MaxIngestFaults /\ ingestFaults' = ingestFaults + 1

PendingIngests == Cardinality({s \in Source : ingestJob[s] # "none"})

\* stageAndEnqueueFileSource: the bytes are there and the queue has room.
UploadAccepted(s) ==
  /\ row[s] = "none"
  /\ PendingIngests < MaxQueueDepth
  /\ row' = [row EXCEPT ![s] = "accepted"]
  /\ staged' = [staged EXCEPT ![s] = TRUE]
  /\ UNCHANGED <<ingestJob, drained, ingester, notices, missed, thrown, ingestFaults, ingestOverlaps>>

\* finishEnqueue inserts the row, then asks for its job, fire and forget: if
\* that insert fails or the process dies first, no job will ever read the row.
UploadRequested(s) ==
  /\ row[s] = "accepted"
  /\ row' = [row EXCEPT ![s] = "queued"]
  /\ \/ ingestJob' = [ingestJob EXCEPT ![s] = "upload"] /\ UNCHANGED ingestFaults
     \/ Fault /\ UNCHANGED ingestJob
  /\ UNCHANGED <<staged, drained, ingester, notices, missed, thrown, ingestOverlaps>>

\* deleteSource: the row and its sections go with it.
SourceGone(s) ==
  /\ row[s] \notin {"none", "accepted", "gone"}
  /\ row' = [row EXCEPT ![s] = "gone"]
  /\ UNCHANGED <<ingestJob, staged, drained, ingester, notices, missed, thrown, ingestFaults, ingestOverlaps>>

\* The staging store drops bytes past their time to live.
StagedExpires(s) ==
  /\ staged[s]
  /\ staged' = [staged EXCEPT ![s] = FALSE]
  /\ UNCHANGED <<row, ingestJob, drained, ingester, notices, missed, thrown, ingestFaults, ingestOverlaps>>

\* The wallet runs empty or is fed.
WalletChanges ==
  /\ drained' = ~drained
  /\ UNCHANGED <<row, ingestJob, staged, ingester, notices, missed, thrown, ingestFaults, ingestOverlaps>>

\* sweepIngestion requests a deferred row once the wallet has tokens; the
\* request coalesces on a pending job of the same source.
SweepResumes(s) ==
  /\ row[s] = "deferred" /\ ~drained /\ ingestJob[s] = "none"
  /\ ingestJob' = [ingestJob EXCEPT ![s] = "resume"]
  /\ UNCHANGED <<row, staged, drained, ingester, notices, missed, thrown, ingestFaults, ingestOverlaps>>

Busy(r) == ingester[r].at # "idle"

MovesTo(r, at) == ingester' = [ingester EXCEPT ![r].at = at]

\* updateJob, a write by id without a guard: nothing is left to write to once
\* the source is gone.
UpdateJob(s, status) == row' = IF row[s] = "gone" THEN row ELSE [row EXCEPT ![s] = status]

\* A node claims the companion for a pending job; the claim of another may
\* lapse while it still runs.
IngestClaimed(r, s) ==
  /\ ~Busy(r) /\ ingestJob[s] # "none"
  /\ IF \E o \in Ingester : Busy(o)
     THEN ingestOverlaps < MaxIngestOverlaps /\ ingestOverlaps' = ingestOverlaps + 1
     ELSE UNCHANGED ingestOverlaps
  /\ ingester' = [ingester EXCEPT ![r] = [at |-> "context", source |-> s, resumes |-> FALSE]]
  /\ UNCHANGED <<row, ingestJob, staged, drained, notices, missed, thrown, ingestFaults>>

\* Mutant: a row found mid-run is taken up again from its upload.
InterruptedNever(status) == FALSE

\* A row neither queued, deferred nor terminal was left by a run that died.
Interrupted(status) == status \in Stage

\* Mutant: a row found mid-run counts as finished.
FinishedMidRun(status) == status \in Stage \union Terminal \union {"gone"}

Finished(status) == status \in Terminal \union {"gone"}

\* The handler's choice on getRunContext: nothing to do, resume the held parse,
\* give up on an interrupted run, or read the staged bytes.
ReadsContext(r) ==
  LET status == row[ingester[r].source]
  IN  /\ ingester[r].at = "context"
      /\ ingester' = [ingester EXCEPT
           ![r].resumes = (status = "deferred"),
           ![r].at = CASE Finished(status) -> "mark"
                       [] status = "deferred" -> "wallet"
                       [] Interrupted(status) -> "refuse"
                       [] OTHER -> "bytes"]
      /\ UNCHANGED <<row, ingestJob, staged, drained, notices, missed, thrown, ingestFaults, ingestOverlaps>>

\* A job without its upload, or with expired bytes, cannot run.
ReadsBytes(r) ==
  LET s == ingester[r].source
  IN  /\ ingester[r].at = "bytes"
      /\ MovesTo(r, IF ingestJob[s] # "resume" /\ staged[s] THEN "begin" ELSE "refuse")
      /\ UNCHANGED <<row, ingestJob, staged, drained, notices, missed, thrown, ingestFaults, ingestOverlaps>>

\* The handler fails the row without a run, and without a notice.
Refuses(r) ==
  /\ ingester[r].at = "refuse"
  /\ UpdateJob(ingester[r].source, "failed")
  /\ MovesTo(r, "mark")
  /\ UNCHANGED <<ingestJob, staged, drained, notices, missed, thrown, ingestFaults, ingestOverlaps>>

\* What follows each stage of the pipeline, once its work is done.
NextStage(at) ==
  CASE at = "begin" -> "parsing"
    [] at = "segmenting" -> "enriching"
    [] at = "enriching" -> "embedding"

\* The pipeline records each stage before it works on it.  Sections cannot be
\* inserted for a source that is gone.
StageBegins(r) ==
  LET run == ingester[r]
  IN  /\ run.at \in {"begin", "segmenting", "enriching"}
      /\ run.at = "segmenting" => row[run.source] # "gone"
      /\ UpdateJob(run.source, NextStage(run.at))
      /\ MovesTo(r, NextStage(run.at))
      /\ UNCHANGED <<ingestJob, staged, drained, notices, missed, thrown, ingestFaults, ingestOverlaps>>

\* The parse is stored, or the sections are embedded: no status is written.
StageEnds(r) ==
  /\ ingester[r].at \in {"parsing", "embedding"}
  /\ MovesTo(r, IF ingester[r].at = "parsing" THEN "wallet" ELSE "announce")
  /\ UNCHANGED <<row, ingestJob, staged, drained, notices, missed, thrown, ingestFaults, ingestOverlaps>>

\* The wallet gate: an empty one holds the parse and defers the row.
PassesWallet(r) ==
  /\ ingester[r].at = "wallet"
  /\ UpdateJob(ingester[r].source, IF drained THEN "deferred" ELSE "segmenting")
  /\ MovesTo(r, IF drained THEN "discard" ELSE "segmenting")
  /\ UNCHANGED <<ingestJob, staged, drained, notices, missed, thrown, ingestFaults, ingestOverlaps>>

\* A stage's work throws: the pipeline catches it.
StageFails(r) ==
  /\ ingester[r].at \in Stage
  /\ MovesTo(r, "sorry")
  /\ UNCHANGED <<row, ingestJob, staged, drained, notices, missed, thrown, ingestFaults, ingestOverlaps>>

\* announce, which never throws, comes before the status it announces.
Announces(r, outcome) ==
  /\ ingester[r].at = IF outcome = "done" THEN "announce" ELSE "sorry"
  /\ notices' = [notices EXCEPT ![ingester[r].source][outcome] = @ + 1]
  /\ MovesTo(r, outcome)
  /\ UNCHANGED <<row, ingestJob, staged, drained, missed, thrown, ingestFaults, ingestOverlaps>>

Settles(r, outcome) ==
  /\ ingester[r].at = outcome /\ outcome \in Terminal
  /\ UpdateJob(ingester[r].source, outcome)
  /\ MovesTo(r, "discard")
  /\ UNCHANGED <<ingestJob, staged, drained, notices, missed, thrown, ingestFaults, ingestOverlaps>>

\* The row's first stage or its done cannot be written: that too is caught as
\* a failure, which is announced over a row that still says queued or over the
\* notice of done.
RowMissed(r) ==
  /\ ingester[r].at \in {"begin", "wallet", "done"}
  /\ Fault
  /\ missed' = [missed EXCEPT ![ingester[r].source] = @ + 1]
  /\ MovesTo(r, "sorry")
  /\ UNCHANGED <<row, ingestJob, staged, drained, notices, thrown, ingestOverlaps>>

\* A statement outside the pipeline's try throws, the write of failed in its
\* catch included: the job is settled and the row stays as it is.
HandlerThrows(r) ==
  /\ ingester[r].at \in {"context", "bytes", "refuse", "failed"}
  /\ Fault
  /\ thrown' = thrown \union {ingester[r].source}
  /\ MovesTo(r, IF ingester[r].at = "failed" THEN "discard" ELSE "mark")
  /\ UNCHANGED <<row, ingestJob, staged, drained, notices, missed, ingestOverlaps>>

\* The handler's finally drops the bytes of a run that read them.
Discards(r) ==
  LET run == ingester[r]
  IN  /\ run.at = "discard"
      /\ staged' = IF run.resumes THEN staged ELSE [staged EXCEPT ![run.source] = FALSE]
      /\ MovesTo(r, "mark")
      /\ UNCHANGED <<row, ingestJob, drained, notices, missed, thrown, ingestFaults, ingestOverlaps>>

\* The job processor settles the job whatever the handler did.
JobMarked(r) ==
  /\ ingester[r].at = "mark"
  /\ ingestJob' = [ingestJob EXCEPT ![ingester[r].source] = "none"]
  /\ ingester' = [ingester EXCEPT ![r] = Vacant]
  /\ UNCHANGED <<row, staged, drained, notices, missed, thrown, ingestFaults, ingestOverlaps>>

\* The process dies; its job stays pending and is claimed again.
IngesterDies(r) ==
  /\ Busy(r)
  /\ Fault
  /\ ingester' = [ingester EXCEPT ![r] = Vacant]
  /\ UNCHANGED <<row, ingestJob, staged, drained, notices, missed, thrown, ingestOverlaps>>

Ingests(r) ==
  \/ ReadsContext(r) \/ ReadsBytes(r) \/ Refuses(r)
  \/ StageBegins(r) \/ StageEnds(r) \/ PassesWallet(r) \/ StageFails(r)
  \/ \E o \in Terminal : Announces(r, o) \/ Settles(r, o)
  \/ Discards(r) \/ JobMarked(r)

IngestionNext ==
  \/ WalletChanges
  \/ \E s \in Source :
       \/ UploadAccepted(s) \/ UploadRequested(s) \/ SourceGone(s) \/ StagedExpires(s) \/ SweepResumes(s)
       \/ \E r \in Ingester : IngestClaimed(r, s)
  \/ \E r \in Ingester :
       Ingests(r) \/ RowMissed(r) \/ HandlerThrows(r) \/ IngesterDies(r)

IngestionSpec == IngestionInit /\ [][IngestionNext]_ingestionVars

-----------------------------------------------------------------------------
RowStatus == {"none", "accepted", "queued", "deferred", "gone"} \union Stage \union Terminal

IngesterAt == {"idle", "context", "bytes", "refuse", "begin", "wallet", "announce", "sorry", "discard", "mark"}
                \union Stage \union Terminal

IngestionTypeOK ==
  /\ row \in [Source -> RowStatus]
  /\ ingestJob \in [Source -> {"none", "upload", "resume"}]
  /\ staged \in [Source -> BOOLEAN]
  /\ drained \in BOOLEAN
  /\ ingester \in [Ingester -> [at : IngesterAt, source : Source, resumes : BOOLEAN]]
  /\ notices \in [Source -> [Terminal -> Nat]]
  /\ missed \in [Source -> Nat] /\ thrown \subseteq Source
  /\ ingestFaults \in 0..MaxIngestFaults /\ ingestOverlaps \in 0..MaxIngestOverlaps

\* The companion says once how a read ended: a row is done only after it was
\* told done, and it is told one outcome, however often its job is claimed
\* again after a crash, unless a claim lapsed under a live runner or the row
\* could not be written before its first stage or after its notice (pipeline.ts run, ingest-job.ts).
AnnouncedOnce ==
  \A s \in Source :
    /\ row[s] = "done" => notices[s]["done"] > 0
    /\ notices[s]["done"] + notices[s]["failed"]
         <= 1 + ingestOverlaps + missed[s]

Settled(s) ==
  row[s] \in Terminal \union {"gone"} \/ s \in thrown \/ ingestOverlaps > 0

\* Progress: a source whose job was requested, or that was deferred, ends done,
\* failed or deleted once the wallet stays fed, although the process may die
\* mid-run.  Excepted are a handler that threw, which leaves a row that no sweep
\* looks for, and a runner that outlived its claim.
IngestSettles ==
  <>[]~drained =>
    \A s \in Source : (ingestJob[s] # "none" \/ row[s] = "deferred") ~> Settled(s)
=============================================================================
