--------------------------- MODULE ContentPipeline ---------------------------
(***************************************************************************)
(* One content item: the requests of modules/content/content.service.ts    *)
(* and the pg-boss jobs of modules/content/processors that race with them  *)
(* on its row.                                                             *)
(*                                                                         *)
(* Requests load the row with its versions, jobs load the row alone; both  *)
(* save() what they hold. The queue delivers a job at least once, and      *)
(* publish() answers null when the queue cannot be reached. The encryption *)
(* queue has a subscriber and no publisher and is left out; so are the     *)
(* texts and URLs the jobs put in content.metadata.                        *)
(***************************************************************************)
EXTENDS Integers, FiniteSets

CONSTANTS
  Proc,      \* request handlers and queue workers, of all the replicas
  MaxFile,   \* bound on the files uploaded
  MaxQueued, \* bound on the jobs waiting in one queue
  NoRow,     \* no content row
  NoReq      \* the handler serves nothing

ASSUME ProcAssumption == IsFiniteSet(Proc) /\ Proc # {}
ASSUME BoundAssumption == MaxFile \in Nat \ {0} /\ MaxQueued \in Nat \ {0}

File == 1..MaxFile

\* The values of ContentStatus some code assigns; DRAFT is only a default.
Status == {"processing", "published", "archived", "failed"}

\* The columns of contents that tell one state of an item from another: file is
\* the upload s3_key points to, video says whether content_type is VIDEO.
Row == [status: Status, version: File, file: File, video: BOOLEAN]

\* QUEUE_CONTENT_UPLOAD, whose jobs carry the content type, QUEUE_VIDEO_TRANSCODE
\* and QUEUE_THUMBNAIL_GENERATE.
Task == {"uploadVideo", "uploadOther", "transcode", "thumbnail"}

\* What is held between two awaits: the row to be saved, the version numbers
\* loaded with it (requests only) and the job being worked on (workers only).
Request == [row: Row, seen: SUBSET File, task: Task \cup {"none"}]

ASSUME NoneAssumption == NoRow \notin Row /\ NoReq \notin Request

VARIABLES
  content,  \* the row of the item
  version,  \* content_versions: the file of each version number, 0 if there is no row
  uploads,  \* the files uploaded so far
  queue,    \* the jobs waiting, by task
  pc,       \* the statement a handler runs next
  req       \* what it holds

vars == <<content, version, uploads, queue, pc, req>>
tables == <<content, version, uploads>>

RequestSaves == {"version.save", "update.save", "archive.save", "publish.save"}
JobSaves == {"upload.save", "transcode.save", "thumbnail.save"}
Inserts == {"create.insert", "version.insert"}
Publishes == {"create.publish", "upload.transcode", "upload.thumbnail", "transcode.thumbnail"}
Steps == RequestSaves \cup JobSaves \cup Inserts \cup Publishes \cup {"idle", "job.fail"}

\* The tables, the queues and the handlers' local state have their types.
TypeOK ==
  /\ content \in Row \cup {NoRow}
  /\ version \in [File -> 0..MaxFile]
  /\ uploads \in 0..MaxFile
  /\ queue \in [Task -> 0..MaxQueued]
  /\ pc \in [Proc -> Steps]
  /\ req \in [Proc -> Request \cup {NoReq}]

Versions == {n \in File : version[n] # 0}

Init ==
  /\ content = NoRow
  /\ version = [n \in File |-> 0]
  /\ uploads = 0
  /\ queue = [t \in Task |-> 0]
  /\ pc = [p \in Proc |-> "idle"]
  /\ req = [p \in Proc |-> NoReq]

-----------------------------------------------------------------------------
\* Control of a handler.

Await(p, step, r) ==
  /\ pc' = [pc EXCEPT ![p] = step]
  /\ req' = [req EXCEPT ![p] = r]

Goto(p, step) == Await(p, step, req[p])

Done(p) == Await(p, "idle", NoReq)

\* findById loads the row with its versions.
Loads(p, step, row) ==
  /\ pc[p] = "idle" /\ content # NoRow
  /\ Await(p, step, [row |-> row, seen |-> Versions, task |-> "none"])
  /\ UNCHANGED <<version, queue>>

\* Saving a row loaded with its versions makes the table's versions the loaded
\* ones: one inserted since is orphaned, its NOT NULL content_id cannot be nulled
\* and the save throws.
Orphaned(p) == req[p].task = "none" /\ Versions # req[p].seen

Enqueue(t) ==
  /\ queue[t] < MaxQueued
  /\ queue' = [queue EXCEPT ![t] = @ + 1]

-----------------------------------------------------------------------------
\* Requests.

\* uploadContent: the row is inserted, then its first version, then the job sent.
UploadContent(p) ==
  /\ pc[p] = "idle" /\ content = NoRow
  /\ \E v \in BOOLEAN :
       LET row == [status |-> "processing", version |-> 1, file |-> 1, video |-> v]
       IN  /\ content' = row
           /\ Await(p, "create.insert", [row |-> row, seen |-> {}, task |-> "none"])
  /\ uploads' = 1
  /\ UNCHANGED <<version, queue>>

\* createVersion loads the row and uploads the file.
CreateVersion(p) ==
  /\ content # NoRow /\ content.version < MaxFile /\ uploads < MaxFile
  /\ Loads(p, "version.save", [content EXCEPT !.version = @ + 1, !.file = uploads + 1,
                                              !.status = "processing"])
  /\ uploads' = uploads + 1
  /\ UNCHANGED content

\* updateMetadata may change the content type too.
UpdateMetadata(p) ==
  /\ \E v \in BOOLEAN : Loads(p, "update.save", [content EXCEPT !.video = v])
  /\ UNCHANGED <<content, uploads>>

\* archiveContent and deleteContent do the same.
ArchiveContent(p) ==
  /\ Loads(p, "archive.save", [content EXCEPT !.status = "archived"])
  /\ UNCHANGED <<content, uploads>>

\* Mutant: any content may be published.
PublishAny(p) ==
  /\ Loads(p, "publish.save", [content EXCEPT !.status = "published"])
  /\ UNCHANGED <<content, uploads>>

PublishContent(p) ==
  /\ content # NoRow /\ content.status = "processing"
  /\ Loads(p, "publish.save", [content EXCEPT !.status = "published"])
  /\ UNCHANGED <<content, uploads>>

SaveRequest(p) ==
  /\ pc[p] \in RequestSaves
  /\ IF Orphaned(p) THEN UNCHANGED content ELSE content' = req[p].row
  /\ IF pc[p] = "version.save" /\ ~Orphaned(p) THEN Goto(p, "version.insert") ELSE Done(p)
  /\ UNCHANGED <<version, uploads, queue>>

\* The unique index on (contentId, versionNumber) refuses a second row.
InsertVersion(p) ==
  /\ pc[p] \in Inserts
  /\ LET n == req[p].row.version IN
       IF version[n] = 0
       THEN version' = [version EXCEPT ![n] = req[p].row.file] /\ Goto(p, "create.publish")
       ELSE UNCHANGED version /\ Done(p)
  /\ UNCHANGED <<content, uploads, queue>>

PublishUpload(p) ==
  /\ pc[p] = "create.publish"
  /\ Enqueue(IF req[p].row.video THEN "uploadVideo" ELSE "uploadOther")
  /\ Done(p)
  /\ UNCHANGED tables

-----------------------------------------------------------------------------
\* Jobs. A worker takes a job and loads the row, without its versions.

Take(p, t, step, row) ==
  /\ pc[p] = "idle" /\ queue[t] > 0
  /\ queue' = [queue EXCEPT ![t] = @ - 1]
  /\ Await(p, step, [row |-> row, seen |-> {}, task |-> t])
  /\ UNCHANGED tables

\* ContentUploadProcessor: a video goes to the transcoder, anything else is
\* published as soon as its thumbnail is asked for.
UploadJob(p) ==
  \/ Take(p, "uploadVideo", "upload.transcode", content)
  \/ Take(p, "uploadOther", "upload.thumbnail", [content EXCEPT !.status = "published"])

UploadPublish(p) ==
  \/ /\ pc[p] = "upload.transcode"
     /\ Enqueue("transcode")
     /\ Done(p)
     /\ UNCHANGED tables
  \/ /\ pc[p] = "upload.thumbnail"
     /\ Enqueue("thumbnail")
     /\ Goto(p, "upload.save")
     /\ UNCHANGED tables

\* VideoTranscodeProcessor publishes, then asks for the thumbnail.
TranscodeJob(p) == Take(p, "transcode", "transcode.save", [content EXCEPT !.status = "published"])

TranscodePublish(p) ==
  /\ pc[p] = "transcode.thumbnail"
  /\ Enqueue("thumbnail")
  /\ Done(p)
  /\ UNCHANGED tables

\* ThumbnailGeneratorProcessor adds to the metadata of the row it loaded.
ThumbnailJob(p) == Take(p, "thumbnail", "thumbnail.save", content)

\* Mutant: jobs leave s3_key alone, and write currentVersion back.
SaveJobButFile(p) ==
  /\ pc[p] \in JobSaves
  /\ content' = [req[p].row EXCEPT !.file = content.file]
  /\ IF pc[p] = "transcode.save" THEN Goto(p, "transcode.thumbnail") ELSE Done(p)
  /\ UNCHANGED <<version, uploads, queue>>

SaveJob(p) ==
  /\ pc[p] \in JobSaves
  /\ content' = req[p].row
  /\ IF pc[p] = "transcode.save" THEN Goto(p, "transcode.thumbnail") ELSE Done(p)
  /\ UNCHANGED <<version, uploads, queue>>

\* Mutant: a status that is not one.
FailAsError(p) ==
  /\ pc[p] = "job.fail"
  /\ content' = [content EXCEPT !.status = "error"]
  /\ Done(p)
  /\ UNCHANGED <<version, uploads, queue>>

\* The catch block of the upload and transcode processors.
FailJob(p) ==
  /\ pc[p] = "job.fail"
  /\ content' = [content EXCEPT !.status = "failed"]
  /\ Done(p)
  /\ UNCHANGED <<version, uploads, queue>>

-----------------------------------------------------------------------------
\* Failures.

\* publish() reports to the log that the queue cannot be reached, and returns.
PublishLost(p) ==
  /\ pc[p] \in Publishes
  /\ IF pc[p] = "upload.thumbnail" THEN Goto(p, "upload.save") ELSE Done(p)
  /\ UNCHANGED <<content, version, uploads, queue>>

\* A statement of a job throws, the load of the row included; the thumbnail
\* processor only logs it.
JobThrows(p) ==
  /\ pc[p] \in JobSaves \cup {"upload.transcode", "upload.thumbnail"}
  /\ IF pc[p] = "thumbnail.save" THEN Done(p) ELSE Goto(p, "job.fail")
  /\ UNCHANGED <<content, version, uploads, queue>>

\* A replica dies, or a statement of a request throws: what was written stays. The
\* job of a worker is delivered again, unless its retries are used up.
Crash(p) ==
  /\ pc[p] # "idle"
  /\ \/ req[p].task # "none" /\ Enqueue(req[p].task)
     \/ UNCHANGED queue
  /\ Done(p)
  /\ UNCHANGED tables

Begin(p) ==
  \/ UploadContent(p) \/ CreateVersion(p) \/ UpdateMetadata(p)
  \/ ArchiveContent(p) \/ PublishContent(p)

Work(p) == UploadJob(p) \/ TranscodeJob(p) \/ ThumbnailJob(p)

Proceed(p) ==
  \/ SaveRequest(p) \/ InsertVersion(p) \/ PublishUpload(p)
  \/ UploadPublish(p) \/ TranscodePublish(p) \/ SaveJob(p) \/ FailJob(p)

Undisturbed == \E p \in Proc : Begin(p) \/ Work(p) \/ Proceed(p)

Next == Undisturbed \/ \E p \in Proc : PublishLost(p) \/ JobThrows(p) \/ Crash(p)

Spec == Init /\ [][Next]_vars

\* No statement fails and the queue loses nothing.
UndisturbedSpec == Init /\ [][Undisturbed]_vars
-----------------------------------------------------------------------------
\* Properties.

\* Jobs that will publish the item, or fail it: waiting, being worked on, or to be
\* sent by a request in flight.
Pending ==
  \/ \E t \in Task \ {"thumbnail"} : queue[t] > 0
  \/ \E p \in Proc : \/ pc[p] \in Inserts \cup {"version.save", "create.publish", "job.fail"}
                     \/ pc[p] # "idle" /\ req[p].task \notin {"none", "thumbnail"}

\* The item has status s, no job will change it and everyone holds the row so.
Settled(s) ==
  /\ content # NoRow /\ content.status = s
  /\ ~Pending
  /\ \A p \in Proc : pc[p] \in RequestSaves \cup JobSaves => req[p].row.status = s

\* A published, archived or failed item stays so until somebody archives it or
\* uploads a new version: publishContent takes neither an archived nor a failed
\* item, and thumbnails, which are generated whenever, change nothing.
StatusSettles ==
  [][\A s \in Status \ {"processing"} : Settled(s) =>
       \/ Settled(s)'
       \/ \E p \in Proc : pc[p] = "idle" /\ pc'[p] \in {"version.save", "archive.save"}]_vars

\* Whatever is saved, reverted, refused and lost: a file that content_versions records
\* is recorded once, and the item whose s3_key it is has its number. (The file of an
\* upload that the unique index refused, or that died, is recorded nowhere.)
FilesNumbered ==
  \A n \in Versions :
    /\ version[n] = content.file => n = content.version
    /\ \A m \in Versions : version[m] = version[n] => m = n

\* As documented, PROCESSING means "Content is currently being processed": some
\* job is waiting or some handler is at work.
ProcessingMeansWork ==
  content # NoRow /\ content.status = "processing" =>
    (\E t \in Task : queue[t] > 0) \/ \E p \in Proc : pc[p] # "idle"
=============================================================================
