----------------------- MODULE ContentPipelineProofs -----------------------
(***************************************************************************)
(* Proofs about ContentPipeline, for any number of handlers and workers,   *)
(* of files and of waiting jobs.                                           *)
(***************************************************************************)
EXTENDS ContentPipeline, TLAPS

(* What a handler holds at a step: requests no task, workers that of their *)
(* job.                                                                    *)
Holds(step, r) ==
  /\ step = "idle" => r = NoReq
  /\ step # "idle" => r \in Request
  /\ step \in RequestSaves \cup Inserts \cup {"create.publish"} => r.task = "none"
  /\ step = "upload.transcode" => r.task = "uploadVideo"
  /\ step \in {"upload.thumbnail", "upload.save"} => r.task = "uploadOther"
  /\ step \in {"transcode.save", "transcode.thumbnail"} => r.task = "transcode"
  /\ step = "thumbnail.save" => r.task = "thumbnail"
  /\ step = "job.fail" => r.task \in {"uploadVideo", "uploadOther", "transcode"}

(* It works on an item there is. *)
HandlerOK(p) == Holds(pc[p], req[p]) /\ (pc[p] # "idle" => content \in Row)

(* Jobs are about an item, and so are versions and uploads. *)
ItemOK == content = NoRow => uploads = 0 /\ Versions = {} /\ \A t \in Task : queue[t] = 0

(* number[f] is the version number file f was given when it was uploaded:  *)
(* rows and versions have no other.                                        *)
Fits(number, row) == row.file <= uploads /\ number[row.file] = row.version

Numbered(number) ==
  /\ content # NoRow => Fits(number, content)
  /\ \A p \in Proc : pc[p] # "idle" => Fits(number, req[p].row)
  /\ \A n \in Versions : version[n] <= uploads /\ number[version[n]] = n

NumberInv == \E number \in [File -> File] : Numbered(number)

IndInv == TypeOK /\ ItemOK /\ \A p \in Proc : HandlerOK(p)

-----------------------------------------------------------------------------
(* The null values are none of the real ones, and file 1 exists. *)
LEMMA Constants ==
  /\ NoRow \notin Row /\ NoReq \notin Request /\ 1 \in File /\ 0 \notin File
  /\ Status = {"processing", "published", "archived", "failed"}
BY NoneAssumption, BoundAssumption DEF File, Status

(* Nothing has been uploaded. *)
LEMMA InitInv == Init => IndInv /\ NumberInv
<1> SUFFICES ASSUME Init PROVE IndInv /\ NumberInv
  OBVIOUS
<1>1. TypeOK
  BY BoundAssumption DEF Init, TypeOK, Steps
<1>2. Versions = {}
  BY DEF Init, Versions
<1>3. ItemOK /\ \A p \in Proc : HandlerOK(p)
  BY <1>2 DEF Init, ItemOK, HandlerOK, Holds, RequestSaves, Inserts
<1>4. Numbered([f \in File |-> f])
  BY <1>2 DEF Init, Numbered
<1>5. [f \in File |-> f] \in [File -> File]
  OBVIOUS
<1> QED BY <1>1, <1>3, <1>4, <1>5 DEF IndInv, NumberInv

(* The row has the version and the file of the item, or of the row that p  *)
(* holds.                                                                  *)
Same(row, other) == row.file = other.file /\ row.version = other.version

FromItem(p, row) == \/ content \in Row /\ Same(row, content)
                    \/ pc[p] # "idle" /\ Same(row, req[p].row)

(* What the steps of p have in common that upload no file: p goes on to    *)
(* `step` with r, and what is written was loaded before.                   *)
Works(p, step, r) ==
  /\ Await(p, step, r) /\ step \in Steps /\ r \in Request \cup {NoReq} /\ Holds(step, r)
  /\ content' \in Row /\ FromItem(p, content')
  /\ step # "idle" => FromItem(p, r.row)
  /\ uploads' = uploads /\ queue' \in [Task -> 0..MaxQueued]
  /\ \/ version' = version
     \/ /\ pc[p] # "idle" /\ version[req[p].row.version] = 0
        /\ version' = [version EXCEPT ![req[p].row.version] = req[p].row.file]

(* The same of those that do: r is the row with the new file. *)
Uploads(p, step, r) ==
  /\ Await(p, step, r) /\ step \in Steps \ {"idle"} /\ r \in Request /\ Holds(step, r)
  /\ content' \in Row
  /\ content' = r.row \/ (content \in Row /\ content' = content)
  /\ uploads' = uploads + 1 /\ uploads' \in File /\ r.row.file = uploads + 1
  /\ version' = version /\ queue' = queue

(* The handler goes on; the others stay where they are. *)
LEMMA AwaitMoves ==
  ASSUME TypeOK, NEW p \in Proc, NEW step \in Steps, NEW r \in Request \cup {NoReq},
         Await(p, step, r)
  PROVE  /\ pc' \in [Proc -> Steps] /\ req' \in [Proc -> Request \cup {NoReq}]
         /\ pc'[p] = step /\ req'[p] = r
         /\ \A q \in Proc \ {p} : pc'[q] = pc[q] /\ req'[q] = req[q]
BY DEF Await, TypeOK

(* What the invariants say of one handler. *)
LEMMA HandlerFacts ==
  ASSUME IndInv, NEW p \in Proc
  PROVE  /\ TypeOK /\ pc[p] \in Steps /\ Holds(pc[p], req[p])
         /\ pc[p] # "idle" => /\ content \in Row /\ req[p] \in Request
                              /\ req[p].row \in Row /\ req[p].row.version \in File
                              /\ req[p].row.file \in File
         /\ queue \in [Task -> 0..MaxQueued] /\ version \in [File -> 0..MaxFile]
         /\ \A t \in Task : queue[t] > 0 => content \in Row
         /\ content # NoRow => content \in Row
BY DEF IndInv, TypeOK, HandlerOK, Holds, ItemOK, Request, Row

(* Both kinds of steps keep the types and what handlers hold. *)
LEMMA IndKept ==
  ASSUME IndInv, NEW p \in Proc, NEW step \in Steps, NEW r \in Request \cup {NoReq},
         Works(p, step, r) \/ Uploads(p, step, r)
  PROVE  IndInv'
<1>0. TypeOK /\ Await(p, step, r) /\ Holds(step, r) /\ content' \in Row
  BY DEF IndInv, Works, Uploads
<1>1. /\ pc' \in [Proc -> Steps] /\ req' \in [Proc -> Request \cup {NoReq}]
      /\ pc'[p] = step /\ req'[p] = r
      /\ \A q \in Proc \ {p} : pc'[q] = pc[q] /\ req'[q] = req[q]
  BY <1>0, AwaitMoves
<1>2. TypeOK'
  <2>1. queue' \in [Task -> 0..MaxQueued] /\ uploads' \in 0..MaxFile
    BY <1>0, BoundAssumption DEF Works, Uploads, TypeOK, File
  <2>2. version' \in [File -> 0..MaxFile]
    <3>1. version \in [File -> 0..MaxFile]
      BY <1>0 DEF TypeOK
    <3>2. CASE version' = version
      BY <3>1, <3>2
    <3>3. CASE /\ pc[p] # "idle"
               /\ version' = [version EXCEPT ![req[p].row.version] = req[p].row.file]
      <4>1. req[p].row.file \in 0..MaxFile
        BY <3>3, HandlerFacts DEF File
      <4> QED BY <3>1, <3>3, <4>1
    <3> QED BY <3>2, <3>3 DEF Works, Uploads
  <2> QED BY <1>0, <1>1, <2>1, <2>2 DEF TypeOK
<1>3. ItemOK'
  BY <1>0, Constants DEF ItemOK
<1>4. ASSUME NEW q \in Proc PROVE HandlerOK(q)'
  BY <1>0, <1>1 DEF IndInv, HandlerOK
<1> QED BY <1>2, <1>3, <1>4 DEF IndInv

(* What works on rows that fit leaves rows that fit. *)
LEMMA WorkNumbers ==
  ASSUME IndInv, NEW number \in [File -> File], Numbered(number),
         NEW p \in Proc, NEW step \in Steps, NEW r \in Request \cup {NoReq},
         Works(p, step, r)
  PROVE  Numbered(number)'
<1>0. /\ pc'[p] = step /\ req'[p] = r /\ uploads' = uploads
      /\ \A q \in Proc \ {p} : pc'[q] = pc[q] /\ req'[q] = req[q]
  BY AwaitMoves DEF IndInv, Works
<1>1. ASSUME NEW row, FromItem(p, row) PROVE Fits(number, row)
  <2>1. content \in Row => Fits(number, content)
    BY Constants DEF Numbered
  <2>2. pc[p] # "idle" => Fits(number, req[p].row)
    BY DEF Numbered
  <2> QED BY <1>1, <2>1, <2>2 DEF FromItem, Same, Fits
<1>2. Fits(number, content') /\ (step # "idle" => Fits(number, r.row))
  BY <1>1 DEF Works
<1>3. ASSUME NEW q \in Proc, pc'[q] # "idle" PROVE Fits(number, req'[q].row)
  BY <1>0, <1>2, <1>3 DEF Numbered
<1>4. ASSUME NEW n \in Versions' PROVE version'[n] <= uploads /\ number[version'[n]] = n
  <2>1. CASE version' = version
    BY <2>1 DEF Versions, Numbered
  <2>2. CASE /\ pc[p] # "idle"
             /\ version' = [version EXCEPT ![req[p].row.version] = req[p].row.file]
    <3>1. Fits(number, req[p].row) /\ version \in [File -> 0..MaxFile] /\ n \in File
      BY <2>2, HandlerFacts DEF Numbered, Versions
    <3>2. CASE n = req[p].row.version
      BY <2>2, <3>1, <3>2 DEF Fits
    <3>3. CASE n # req[p].row.version
      BY <2>2, <3>1, <3>3 DEF Versions, Numbered
    <3> QED BY <3>2, <3>3
  <2> QED BY <2>1, <2>2 DEF Works
<1>5. \A row : Fits(number, row) => Fits(number, row)'
  BY <1>0 DEF Fits
<1> QED BY <1>0, <1>2, <1>3, <1>4 DEF Numbered, Fits

(* A new file is given the number of the row it comes with. *)
LEMMA UploadNumbers ==
  ASSUME IndInv, NEW number \in [File -> File], Numbered(number),
         NEW p \in Proc, NEW step \in Steps, NEW r \in Request, Uploads(p, step, r)
  PROVE  NumberInv'
<1> DEFINE given == [number EXCEPT ![r.row.file] = r.row.version]
<1>0. /\ pc'[p] = step /\ req'[p] = r /\ r.row.file \in File /\ r.row.version \in File
      /\ uploads' = uploads + 1 /\ r.row.file = uploads + 1 /\ version' = version
      /\ uploads \in Nat
      /\ \A q \in Proc \ {p} : pc'[q] = pc[q] /\ req'[q] = req[q]
  BY AwaitMoves DEF IndInv, Uploads, TypeOK, Request, Row
<1>1. given \in [File -> File]
  BY <1>0
<1>2. ASSUME NEW row \in Row, Fits(number, row)
      PROVE  row.file <= uploads' /\ given[row.file] = row.version
  <2>1. row.file \in File /\ row.file <= uploads
    BY <1>2 DEF Row, Fits
  <2>2. row.file # r.row.file /\ row.file <= uploads'
    BY <1>0, <2>1 DEF File
  <2> QED BY <1>2, <2>1, <2>2 DEF Fits
<1>3. r.row.file <= uploads' /\ given[r.row.file] = r.row.version
  BY <1>0
<1>4. content'.file <= uploads' /\ given[content'.file] = content'.version
  <2>1. CASE content' = r.row
    BY <1>3, <2>1
  <2>2. CASE content \in Row /\ content' = content
    BY <1>2, <2>2, Constants DEF Numbered
  <2> QED BY <2>1, <2>2 DEF Uploads
<1>5. ASSUME NEW q \in Proc, pc'[q] # "idle"
      PROVE  req'[q].row.file <= uploads' /\ given[req'[q].row.file] = req'[q].row.version
  <2>1. CASE q = p
    BY <1>0, <1>3, <2>1
  <2>2. CASE q # p
    <3>1. pc[q] # "idle" /\ req'[q] = req[q]
      BY <1>0, <1>5, <2>2
    <3>2. req[q].row \in Row /\ Fits(number, req[q].row)
      BY <3>1, HandlerFacts DEF Numbered
    <3> QED BY <1>2, <3>1, <3>2
  <2> QED BY <2>1, <2>2
<1>6. ASSUME NEW n \in Versions' PROVE version'[n] <= uploads' /\ given[version'[n]] = n
  <2>1. n \in Versions /\ n \in File /\ version[n] \in 0..MaxFile /\ version[n] # 0
    BY <1>0 DEF Versions, IndInv, TypeOK
  <2>2. version[n] <= uploads /\ number[version[n]] = n
    BY <2>1 DEF Numbered
  <2>3. version[n] \in File /\ version[n] # r.row.file
    <3>1. version[n] \in File
      BY <2>1, BoundAssumption DEF File
    <3>2. version[n] # uploads + 1
      BY <1>0, <2>1, <2>2
    <3> QED BY <1>0, <3>1, <3>2
  <2> QED BY <1>0, <2>1, <2>2, <2>3
<1> HIDE DEF given
<1>7. Numbered(given)'
  BY <1>4, <1>5, <1>6 DEF Numbered, Fits
<1> QED BY <1>1, <1>7 DEF NumberInv

-----------------------------------------------------------------------------
(* Each action is a step of one of the two kinds. *)

(* A request that has loaded the item, with its versions. *)
LEMMA LoadsWorks ==
  ASSUME IndInv, NEW p \in Proc, NEW step \in RequestSaves, NEW row \in Row,
         Loads(p, step, row), Same(row, content), content' = content, uploads' = uploads
  PROVE  \E r \in Request \cup {NoReq} : Works(p, step, r)
<1> DEFINE r == [row |-> row, seen |-> Versions, task |-> "none"]
<1>1. r \in Request /\ r.row = row /\ r.task = "none"
  BY DEF Request, Versions
<1>2. Await(p, step, r) /\ content \in Row /\ version' = version /\ queue' = queue
  BY HandlerFacts DEF Loads
<1> HIDE DEF r
<1>3. Holds(step, r) /\ step \in Steps
  BY <1>1 DEF Holds, RequestSaves, Steps
<1>4. FromItem(p, content') /\ FromItem(p, r.row)
  BY <1>1, <1>2 DEF FromItem, Same
<1>5. queue' \in [Task -> 0..MaxQueued]
  BY <1>2, HandlerFacts
<1> QED BY <1>1, <1>2, <1>3, <1>4, <1>5 DEF Works

(* A worker that has taken a job and loaded the item. *)
LEMMA TakeWorks ==
  ASSUME IndInv, NEW p \in Proc, NEW t \in Task, NEW step \in Steps \ {"idle"}, NEW row \in Row,
         Take(p, t, step, row), Same(row, content),
         Holds(step, [row |-> row, seen |-> {}, task |-> t])
  PROVE  \E r \in Request \cup {NoReq} : Works(p, step, r)
<1> DEFINE r == [row |-> row, seen |-> {}, task |-> t]
<1>1. r \in Request /\ r.row = row
  BY DEF Request
<1>2. Await(p, step, r) /\ UNCHANGED tables /\ Holds(step, r)
  BY DEF Take
<1>3. content \in Row /\ queue' \in [Task -> 0..MaxQueued]
  BY HandlerFacts, BoundAssumption DEF Take
<1> HIDE DEF r
<1>4. FromItem(p, content') /\ FromItem(p, r.row)
  BY <1>1, <1>2, <1>3 DEF FromItem, Same, tables
<1> QED BY <1>1, <1>2, <1>3, <1>4 DEF Works, tables

(* A handler that goes on with what it holds, or is done. *)
LEMMA GoesOn ==
  ASSUME IndInv, NEW p \in Proc, pc[p] # "idle", NEW step \in Steps, Holds(step, req[p]) \/ step = "idle",
         IF step = "idle" THEN Done(p) ELSE Goto(p, step),
         content' \in Row, FromItem(p, content'), uploads' = uploads,
         queue' \in [Task -> 0..MaxQueued],
         \/ version' = version
         \/ /\ version[req[p].row.version] = 0
            /\ version' = [version EXCEPT ![req[p].row.version] = req[p].row.file]
  PROVE  \E s \in Steps, r \in Request \cup {NoReq} : Works(p, s, r)
<1>1. req[p] \in Request
  BY HandlerFacts
<1>2. CASE step = "idle"
  <2>1. Await(p, "idle", NoReq) /\ Holds("idle", NoReq)
    BY <1>2 DEF Done, Holds, RequestSaves, Inserts
  <2>2. Works(p, "idle", NoReq)
    BY <1>2, <2>1 DEF Works
  <2> QED BY <1>2, <2>2
<1>3. CASE step # "idle"
  <2>1. Await(p, step, req[p])
    BY <1>3 DEF Goto
  <2>2. FromItem(p, req[p].row)
    BY DEF FromItem, Same
  <2>3. Works(p, step, req[p])
    BY <1>1, <1>3, <2>1, <2>2 DEF Works
  <2> QED BY <1>1, <2>3
<1> QED BY <1>2, <1>3

(* Jobs are added within the bound. *)
LEMMA EnqueueTyped ==
  ASSUME IndInv, NEW t \in Task, Enqueue(t)
  PROVE  queue' \in [Task -> 0..MaxQueued]
<1>1. queue \in [Task -> 0..MaxQueued] /\ queue[t] < MaxQueued
  BY DEF IndInv, TypeOK, Enqueue
<1>2. queue[t] + 1 \in 0..MaxQueued
  BY <1>1, BoundAssumption
<1> QED BY <1>1, <1>2 DEF Enqueue

(* The tasks there are. *)
LEMMA Tasks == {"uploadVideo", "uploadOther", "transcode", "thumbnail"} = Task
BY DEF Task

(* Requests that upload nothing, and workers that take a job. *)
LEMMA BeginWorks ==
  ASSUME IndInv, NEW p \in Proc,
         UpdateMetadata(p) \/ ArchiveContent(p) \/ PublishContent(p) \/ Work(p)
  PROVE  \E step \in Steps, r \in Request \cup {NoReq} : Works(p, step, r)
<1>0. content # NoRow => content \in Row
  BY HandlerFacts
<1>1. RequestSaves \subseteq Steps
  BY DEF Steps
<1>2. CASE UpdateMetadata(p)
  <2>1. PICK v \in BOOLEAN : Loads(p, "update.save", [content EXCEPT !.video = v])
    BY <1>2 DEF UpdateMetadata
  <2> DEFINE row == [content EXCEPT !.video = v]
  <2>2. row \in Row /\ Same(row, content)
    BY <1>0, <2>1 DEF Loads, Row, Same
  <2> HIDE DEF row
  <2>3. \E r \in Request \cup {NoReq} : Works(p, "update.save", r)
    BY <1>2, <2>1, <2>2, LoadsWorks DEF UpdateMetadata, RequestSaves, row
  <2> QED BY <1>1, <2>3 DEF RequestSaves
<1>3. CASE ArchiveContent(p)
  <2> DEFINE row == [content EXCEPT !.status = "archived"]
  <2>1. row \in Row /\ Same(row, content)
    BY <1>0, <1>3, Constants DEF ArchiveContent, Loads, Row, Same
  <2> HIDE DEF row
  <2>2. \E r \in Request \cup {NoReq} : Works(p, "archive.save", r)
    BY <1>3, <2>1, LoadsWorks DEF ArchiveContent, RequestSaves, row
  <2> QED BY <1>1, <2>2 DEF RequestSaves
<1>4. CASE PublishContent(p)
  <2> DEFINE row == [content EXCEPT !.status = "published"]
  <2>1. row \in Row /\ Same(row, content)
    BY <1>0, <1>4, Constants DEF PublishContent, Loads, Row, Same
  <2> HIDE DEF row
  <2>2. \E r \in Request \cup {NoReq} : Works(p, "publish.save", r)
    BY <1>4, <2>1, LoadsWorks DEF PublishContent, RequestSaves, row
  <2> QED BY <1>1, <2>2 DEF RequestSaves
<1>5. CASE Work(p)
  <2>0. content \in Row
    BY <1>5, HandlerFacts, Tasks DEF Work, UploadJob, TranscodeJob, ThumbnailJob, Take
  <2> DEFINE published == [content EXCEPT !.status = "published"]
  <2>1. published \in Row /\ Same(published, content) /\ Same(content, content)
    BY <2>0, Constants DEF Row, Same
  <2> HIDE DEF published
  <2>2. PICK t \in Task, step \in Steps \ {"idle"}, row \in {content, published} :
          /\ Take(p, t, step, row)
          /\ <<t, step>> \in {<<"uploadVideo", "upload.transcode">>, <<"uploadOther", "upload.thumbnail">>,
                             <<"transcode", "transcode.save">>, <<"thumbnail", "thumbnail.save">>}
    BY <1>5, Tasks DEF Work, UploadJob, TranscodeJob, ThumbnailJob, Steps, JobSaves, Publishes, published
  <2> DEFINE r == [row |-> row, seen |-> {}, task |-> t]
  <2>3. r \in Request /\ r.task = t
    BY <2>0, <2>1, <2>2 DEF Request
  <2> HIDE DEF r
  <2>4. Holds(step, r)
    BY <2>2, <2>3 DEF Holds, RequestSaves, Inserts
  <2>5. \E s \in Request \cup {NoReq} : Works(p, step, s)
    BY <2>0, <2>1, <2>2, <2>4, TakeWorks DEF r
  <2> QED BY <2>2, <2>5
<1> QED BY <1>2, <1>3, <1>4, <1>5

(* The steps of handlers at work, and their failures. *)
LEMMA ProceedWorks ==
  ASSUME IndInv, NEW p \in Proc, Proceed(p) \/ PublishLost(p) \/ JobThrows(p) \/ Crash(p)
  PROVE  \E step \in Steps, r \in Request \cup {NoReq} : Works(p, step, r)
<1>0. /\ pc[p] # "idle" /\ content \in Row /\ req[p] \in Request /\ req[p].row \in Row
      /\ Holds(pc[p], req[p]) /\ queue \in [Task -> 0..MaxQueued]
      /\ FromItem(p, content) /\ FromItem(p, req[p].row)
  <2>1. pc[p] # "idle"
    BY DEF Proceed, PublishLost, JobThrows, Crash, SaveRequest, InsertVersion, PublishUpload,
       UploadPublish, TranscodePublish, SaveJob, FailJob, RequestSaves, JobSaves, Inserts, Publishes
  <2>2. /\ content \in Row /\ req[p] \in Request /\ req[p].row \in Row
        /\ Holds(pc[p], req[p]) /\ queue \in [Task -> 0..MaxQueued]
    BY <2>1, HandlerFacts
  <2> QED BY <2>1, <2>2 DEF FromItem, Same
<1>1. /\ {"idle", "version.insert", "create.publish", "upload.save", "transcode.thumbnail", "job.fail"}
           \subseteq Steps
      /\ Task \in SUBSET Task
  BY DEF Steps, Inserts, Publishes, JobSaves
<1>2. CASE SaveRequest(p)
  <2>1. content' \in Row /\ FromItem(p, content')
    BY <1>0, <1>2 DEF SaveRequest
  <2>2. UNCHANGED <<version, uploads, queue>>
    BY <1>2 DEF SaveRequest
  <2>3. CASE pc[p] = "version.save" /\ ~Orphaned(p)
    <3>1. Goto(p, "version.insert") /\ Holds("version.insert", req[p])
      BY <1>0, <1>2, <2>3 DEF SaveRequest, Holds, RequestSaves, Inserts
    <3> QED BY <1>0, <1>1, <2>1, <2>2, <3>1, GoesOn
  <2>4. CASE ~(pc[p] = "version.save" /\ ~Orphaned(p))
    <3>1. Done(p)
      BY <1>2, <2>4 DEF SaveRequest
    <3> QED BY <1>0, <1>1, <2>1, <2>2, <3>1, GoesOn
  <2> QED BY <2>3, <2>4
<1>3. CASE InsertVersion(p)
  <2>1. UNCHANGED <<content, uploads, queue>>
    BY <1>3 DEF InsertVersion
  <2>2. CASE version[req[p].row.version] = 0
    <3>1. /\ Goto(p, "create.publish") /\ Holds("create.publish", req[p])
          /\ version' = [version EXCEPT ![req[p].row.version] = req[p].row.file]
      BY <1>0, <1>3, <2>2 DEF InsertVersion, Holds, RequestSaves, Inserts
    <3> QED BY <1>0, <1>1, <2>1, <2>2, <3>1, GoesOn
  <2>3. CASE version[req[p].row.version] # 0
    <3>1. Done(p) /\ version' = version
      BY <1>3, <2>3 DEF InsertVersion
    <3> QED BY <1>0, <1>1, <2>1, <3>1, GoesOn
  <2> QED BY <2>2, <2>3
<1>4. CASE PublishUpload(p) \/ TranscodePublish(p) \/ (UploadPublish(p) /\ pc[p] = "upload.transcode")
  <2>1. Done(p) /\ UNCHANGED tables /\ \E t \in Task : Enqueue(t)
    BY <1>4, Tasks DEF PublishUpload, TranscodePublish, UploadPublish
  <2>2. queue' \in [Task -> 0..MaxQueued]
    BY <2>1, EnqueueTyped
  <2> QED BY <1>0, <1>1, <2>1, <2>2, GoesOn DEF tables
<1>5. CASE UploadPublish(p) /\ pc[p] # "upload.transcode"
  <2>1. Goto(p, "upload.save") /\ UNCHANGED tables /\ Enqueue("thumbnail") /\ pc[p] = "upload.thumbnail"
    BY <1>5 DEF UploadPublish
  <2>2. queue' \in [Task -> 0..MaxQueued]
    BY <2>1, EnqueueTyped, Tasks
  <2>3. Holds("upload.save", req[p])
    BY <1>0, <2>1 DEF Holds, RequestSaves, Inserts
  <2> QED BY <1>0, <1>1, <2>1, <2>2, <2>3, GoesOn DEF tables
<1>6. CASE SaveJob(p)
  <2>1. content' = req[p].row /\ UNCHANGED <<version, uploads, queue>>
    BY <1>6 DEF SaveJob
  <2>2. CASE pc[p] = "transcode.save"
    <3>1. Goto(p, "transcode.thumbnail") /\ Holds("transcode.thumbnail", req[p])
      BY <1>0, <1>6, <2>2 DEF SaveJob, Holds, RequestSaves, Inserts
    <3> QED BY <1>0, <1>1, <2>1, <3>1, GoesOn
  <2>3. CASE pc[p] # "transcode.save"
    <3>1. Done(p)
      BY <1>6, <2>3 DEF SaveJob
    <3> QED BY <1>0, <1>1, <2>1, <3>1, GoesOn
  <2> QED BY <2>2, <2>3
<1>7. CASE FailJob(p)
  <2>1. content' = [content EXCEPT !.status = "failed"] /\ UNCHANGED <<version, uploads, queue>> /\ Done(p)
    BY <1>7 DEF FailJob
  <2>2. content' \in Row /\ FromItem(p, content')
    BY <1>0, <2>1, Constants DEF FromItem, Same, Row
  <2> QED BY <1>0, <1>1, <2>1, <2>2, GoesOn
<1>8. CASE PublishLost(p)
  <2>1. UNCHANGED <<content, version, uploads, queue>>
    BY <1>8 DEF PublishLost
  <2>2. CASE pc[p] = "upload.thumbnail"
    <3>1. Goto(p, "upload.save") /\ Holds("upload.save", req[p])
      BY <1>0, <1>8, <2>2 DEF PublishLost, Holds, RequestSaves, Inserts
    <3> QED BY <1>0, <1>1, <2>1, <3>1, GoesOn
  <2>3. CASE pc[p] # "upload.thumbnail"
    <3>1. Done(p)
      BY <1>8, <2>3 DEF PublishLost
    <3> QED BY <1>0, <1>1, <2>1, <3>1, GoesOn
  <2> QED BY <2>2, <2>3
<1>9. CASE JobThrows(p)
  <2>1. UNCHANGED <<content, version, uploads, queue>>
    BY <1>9 DEF JobThrows
  <2>2. CASE pc[p] = "thumbnail.save"
    <3>1. Done(p)
      BY <1>9, <2>2 DEF JobThrows
    <3> QED BY <1>0, <1>1, <2>1, <3>1, GoesOn
  <2>3. CASE pc[p] # "thumbnail.save"
    <3>1. Goto(p, "job.fail") /\ Holds("job.fail", req[p])
      BY <1>0, <1>9, <2>3 DEF JobThrows, JobSaves, Holds, RequestSaves, Inserts
    <3> QED BY <1>0, <1>1, <2>1, <3>1, GoesOn
  <2> QED BY <2>2, <2>3
<1>10. CASE Crash(p)
  <2>1. Done(p) /\ UNCHANGED tables
    BY <1>10 DEF Crash
  <2>2. queue' \in [Task -> 0..MaxQueued]
    <3>1. CASE UNCHANGED queue
      BY <1>0, <3>1
    <3>2. CASE req[p].task # "none" /\ Enqueue(req[p].task)
      BY <1>0, <3>2, EnqueueTyped DEF Request
    <3> QED BY <1>10, <3>1, <3>2 DEF Crash
  <2> QED BY <1>0, <1>1, <2>1, <2>2, GoesOn DEF tables
<1> QED BY <1>2, <1>3, <1>4, <1>5, <1>6, <1>7, <1>8, <1>9, <1>10 DEF Proceed

(* The two requests that bring a file. *)
LEMMA UploadsFile ==
  ASSUME IndInv, NEW p \in Proc, UploadContent(p) \/ CreateVersion(p)
  PROVE  \E step \in Steps, r \in Request : Uploads(p, step, r)
<1>0. uploads \in Nat /\ {"create.insert", "version.save"} \subseteq Steps \ {"idle"}
  BY DEF IndInv, TypeOK, Steps, Inserts, RequestSaves
<1>1. CASE UploadContent(p)
  <2>1. PICK v \in BOOLEAN :
          /\ content' = [status |-> "processing", version |-> 1, file |-> 1, video |-> v]
          /\ Await(p, "create.insert",
                   [row |-> [status |-> "processing", version |-> 1, file |-> 1, video |-> v],
                    seen |-> {}, task |-> "none"])
    BY <1>1 DEF UploadContent
  <2> DEFINE row == [status |-> "processing", version |-> 1, file |-> 1, video |-> v]
             r == [row |-> row, seen |-> {}, task |-> "none"]
  <2>2. row \in Row /\ row.file = 1
    BY Constants DEF Row
  <2>3. r \in Request /\ r.row = row /\ r.task = "none"
    BY <2>2 DEF Request
  <2>4. content' = row /\ Await(p, "create.insert", r)
    BY <2>1
  <2> HIDE DEF r, row
  <2>5. uploads = 0 /\ uploads' = 1 /\ UNCHANGED <<version, queue>>
    BY <1>1 DEF UploadContent, IndInv, ItemOK
  <2>6. Holds("create.insert", r)
    BY <2>3 DEF Holds, Inserts, RequestSaves
  <2>7. Uploads(p, "create.insert", r)
    BY <1>0, <2>2, <2>3, <2>4, <2>5, <2>6, Constants DEF Uploads
  <2> QED BY <1>0, <2>3, <2>7
<1>2. CASE CreateVersion(p)
  <2> DEFINE row == [content EXCEPT !.version = @ + 1, !.file = uploads + 1, !.status = "processing"]
             r == [row |-> row, seen |-> Versions, task |-> "none"]
  <2>1. content \in Row /\ content.version < MaxFile /\ uploads < MaxFile
    BY <1>2, HandlerFacts DEF CreateVersion
  <2>2. content.version + 1 \in File /\ uploads + 1 \in File
    BY <1>0, <2>1, BoundAssumption DEF Row, File
  <2>3. row \in Row /\ row.file = uploads + 1
    BY <2>1, <2>2, Constants DEF Row
  <2>4. r \in Request /\ r.row = row /\ r.task = "none"
    BY <2>3 DEF Request, Versions
  <2>5. Await(p, "version.save", r) /\ uploads' = uploads + 1 /\ UNCHANGED <<content, version, queue>>
    BY <1>2 DEF CreateVersion, Loads
  <2> HIDE DEF r, row
  <2>6. Holds("version.save", r)
    BY <2>4 DEF Holds, Inserts, RequestSaves
  <2>7. Uploads(p, "version.save", r)
    BY <1>0, <2>1, <2>2, <2>3, <2>4, <2>5, <2>6 DEF Uploads
  <2> QED BY <1>0, <2>4, <2>7
<1> QED BY <1>1, <1>2

(* Every step keeps the invariants. *)
LEMMA InvStep == IndInv /\ NumberInv /\ [Next]_vars => (IndInv /\ NumberInv)'
<1> SUFFICES ASSUME IndInv, NumberInv, [Next]_vars PROVE IndInv' /\ NumberInv'
  OBVIOUS
<1>1. CASE UNCHANGED vars
  BY <1>1 DEF vars, IndInv, TypeOK, ItemOK, HandlerOK, NumberInv, Numbered, Fits, Versions
<1>2. CASE \E p \in Proc, step \in Steps, r \in Request \cup {NoReq} : Works(p, step, r)
  <2>1. PICK number \in [File -> File] : Numbered(number)
    BY DEF NumberInv
  <2>2. Numbered(number)'
    BY <1>2, <2>1, WorkNumbers
  <2>3. IndInv'
    BY <1>2, IndKept
  <2> QED BY <2>2, <2>3 DEF NumberInv
<1>3. CASE \E p \in Proc, step \in Steps, r \in Request : Uploads(p, step, r)
  <2>1. PICK number \in [File -> File] : Numbered(number)
    BY DEF NumberInv
  <2>2. NumberInv'
    BY <1>3, <2>1, UploadNumbers
  <2>3. IndInv'
    BY <1>3, IndKept
  <2> QED BY <2>2, <2>3
<1>4. ASSUME NEW p \in Proc, Begin(p) \/ Work(p) \/ Proceed(p) \/ PublishLost(p) \/ JobThrows(p) \/ Crash(p)
      PROVE  IndInv' /\ NumberInv'
  BY <1>2, <1>3, <1>4, BeginWorks, ProceedWorks, UploadsFile DEF Begin
<1> QED BY <1>1, <1>4 DEF Next, Undisturbed

(* The row, the versions, the queues and what handlers hold have their     *)
(* types.                                                                  *)
THEOREM TypeCorrect == Spec => []TypeOK
<1>1. IndInv => TypeOK
  BY DEF IndInv
<1> QED BY InitInv, InvStep, <1>1, PTL DEF Spec

(* A recorded file has one number, which is that of the item while it has  *)
(* the file.                                                               *)
THEOREM NumberedTheorem == Spec => []FilesNumbered
<1>1. IndInv /\ NumberInv => FilesNumbered
  <2> SUFFICES ASSUME IndInv, NEW number \in [File -> File], Numbered(number), NEW n \in Versions
               PROVE  /\ version[n] = content.file => n = content.version
                      /\ \A m \in Versions : version[m] = version[n] => m = n
    BY DEF NumberInv, FilesNumbered
  <2>1. content # NoRow
    BY DEF IndInv, ItemOK
  <2> QED BY <2>1 DEF Numbered, Fits
<1> QED BY InitInv, InvStep, <1>1, PTL DEF Spec

-----------------------------------------------------------------------------
(* An item nobody will change. *)

(* The steps of handlers that will not change its status. *)
CalmSteps == {"idle", "update.save", "archive.save", "publish.save", "thumbnail.save"}

(* What they hold. *)
Calm(s, step, r) == /\ step \in CalmSteps
                    /\ step # "idle" => r.row.status = s /\ r.task \in {"none", "thumbnail"}

(* No job but thumbnails waits, and no handler does anything else. *)
LEMMA SettledCalm ==
  ASSUME IndInv, NEW s \in Status, Settled(s)
  PROVE  /\ content \in Row /\ content.status = s
         /\ \A t \in Task \ {"thumbnail"} : queue[t] = 0
         /\ \A q \in Proc : Calm(s, pc[q], req[q])
<1>1. content \in Row /\ content.status = s /\ ~Pending
  BY HandlerFacts DEF Settled, IndInv, TypeOK
<1>2. ASSUME NEW t \in Task \ {"thumbnail"} PROVE queue[t] = 0
  <2>1. queue[t] \in 0..MaxQueued /\ ~(queue[t] > 0)
    BY <1>1 DEF Pending, IndInv, TypeOK
  <2> QED BY <2>1, BoundAssumption
<1>3. ASSUME NEW q \in Proc PROVE Calm(s, pc[q], req[q])
  <2>1. /\ pc[q] \in Steps /\ Holds(pc[q], req[q])
        /\ pc[q] \notin Inserts \cup {"version.save", "create.publish", "job.fail"}
        /\ pc[q] # "idle" => req[q].task \in {"none", "thumbnail"}
    BY <1>1, HandlerFacts DEF Pending
  <2>2. pc[q] \in CalmSteps
    BY <2>1 DEF Holds, Steps, RequestSaves, JobSaves, Inserts, Publishes, CalmSteps
  <2>3. pc[q] # "idle" => pc[q] \in RequestSaves \cup JobSaves
    BY <2>2 DEF CalmSteps, RequestSaves, JobSaves
  <2> QED BY <2>1, <2>2, <2>3 DEF Settled, Calm
<1> QED BY <1>1, <1>2, <1>3

(* A step from calm to calm keeps the item settled. *)
LEMMA CalmSettled ==
  ASSUME IndInv, NEW s \in Status, Settled(s), NEW p \in Proc,
         NEW step \in Steps, NEW r \in Request \cup {NoReq}, Await(p, step, r), Calm(s, step, r),
         content' \in Row, content'.status = s,
         \A t \in Task \ {"thumbnail"} : queue'[t] = 0
  PROVE  Settled(s)'
<1>1. \A q \in Proc : Calm(s, pc'[q], req'[q])
  <2>1. /\ pc'[p] = step /\ req'[p] = r
        /\ \A q \in Proc \ {p} : pc'[q] = pc[q] /\ req'[q] = req[q]
    BY AwaitMoves DEF IndInv
  <2>2. \A q \in Proc : Calm(s, pc[q], req[q])
    BY SettledCalm
  <2> QED BY <2>1, <2>2
<1>2. ~Pending'
  <2>1. \A q \in Proc : /\ pc'[q] \notin Inserts \cup {"version.save", "create.publish", "job.fail"}
                        /\ pc'[q] # "idle" => req'[q].task \in {"none", "thumbnail"}
    BY <1>1 DEF Calm, CalmSteps, Inserts
  <2>2. \A t \in Task \ {"thumbnail"} : ~(queue'[t] > 0)
    OBVIOUS
  <2> QED BY <2>1, <2>2 DEF Pending
<1>3. \A q \in Proc : pc'[q] \in RequestSaves \cup JobSaves => req'[q].row.status = s
  BY <1>1 DEF Calm, RequestSaves, JobSaves
<1> QED BY <1>2, <1>3, Constants DEF Settled

(* What may happen to a settled item. *)
LEMMA SettledStep ==
  ASSUME IndInv, [Next]_vars, NEW s \in Status \ {"processing"}, Settled(s)
  PROVE  \/ Settled(s)'
         \/ \E p \in Proc : pc[p] = "idle" /\ pc'[p] \in {"version.save", "archive.save"}
<1>0. /\ content \in Row /\ content.status = s /\ s # "processing"
      /\ \A t \in Task \ {"thumbnail"} : queue[t] = 0
      /\ \A q \in Proc : Calm(s, pc[q], req[q])
  BY SettledCalm
<1>1. CASE UNCHANGED vars
  BY <1>1 DEF vars, Settled, Pending
<1>2. CalmSteps \subseteq Steps /\ Calm(s, "idle", NoReq)
  BY DEF CalmSteps, Steps, RequestSaves, JobSaves, Calm
<1>3. ASSUME NEW p \in Proc, CreateVersion(p) \/ ArchiveContent(p)
      PROVE  pc[p] = "idle" /\ pc'[p] \in {"version.save", "archive.save"}
  BY <1>3 DEF CreateVersion, ArchiveContent, Loads, Await, IndInv, TypeOK
<1>4. ASSUME NEW p \in Proc PROVE ~UploadContent(p) /\ ~PublishContent(p)
  BY <1>0, Constants DEF UploadContent, PublishContent
<1>5. ASSUME NEW p \in Proc, UpdateMetadata(p) PROVE Settled(s)'
  <2>1. PICK v \in BOOLEAN : Loads(p, "update.save", [content EXCEPT !.video = v])
    BY <1>5 DEF UpdateMetadata
  <2> DEFINE row == [content EXCEPT !.video = v]
             r == [row |-> row, seen |-> Versions, task |-> "none"]
  <2>2. row \in Row /\ row.status = s
    BY <1>0 DEF Row
  <2>3. r \in Request /\ r.row = row /\ r.task = "none"
    BY <2>2 DEF Request, Versions
  <2>4. Await(p, "update.save", r) /\ UNCHANGED <<content, queue>>
    BY <1>5, <2>1 DEF UpdateMetadata, Loads
  <2> HIDE DEF r, row
  <2>5. Calm(s, "update.save", r) /\ "update.save" \in Steps
    BY <1>2, <2>2, <2>3 DEF Calm, CalmSteps
  <2> QED BY <1>0, <2>3, <2>4, <2>5, CalmSettled
<1>6. ASSUME NEW p \in Proc, Work(p) PROVE Settled(s)'
  <2>1. Take(p, "thumbnail", "thumbnail.save", content)
    BY <1>0, <1>6, Tasks DEF Work, UploadJob, TranscodeJob, ThumbnailJob, Take
  <2> DEFINE r == [row |-> content, seen |-> {}, task |-> "thumbnail"]
  <2>2. r \in Request /\ r.row = content /\ r.task = "thumbnail"
    BY <1>0 DEF Request, Task
  <2>3. Await(p, "thumbnail.save", r) /\ content' = content
    BY <2>1 DEF Take, tables
  <2> HIDE DEF r
  <2>4. Calm(s, "thumbnail.save", r) /\ "thumbnail.save" \in Steps
    BY <1>0, <1>2, <2>2 DEF Calm, CalmSteps
  <2>5. \A t \in Task \ {"thumbnail"} : queue'[t] = 0
    BY <1>0, <2>1 DEF Take, IndInv, TypeOK
  <2> QED BY <1>0, <2>2, <2>3, <2>4, <2>5, CalmSettled
<1>7. ASSUME NEW p \in Proc, SaveRequest(p) \/ SaveJob(p) PROVE Settled(s)'
  <2>1. pc[p] \in CalmSteps \ {"idle"} /\ req[p].row.status = s /\ req[p].row \in Row
    BY <1>0, <1>7, HandlerFacts DEF Calm, SaveRequest, SaveJob, RequestSaves, JobSaves
  <2>2. Done(p) /\ content' \in {content, req[p].row} /\ queue' = queue
    BY <1>7, <2>1 DEF CalmSteps, SaveRequest, SaveJob
  <2> QED BY <1>0, <1>2, <2>1, <2>2, CalmSettled DEF Done, CalmSteps
<1>8. ASSUME NEW p \in Proc, JobThrows(p) \/ Crash(p) PROVE Settled(s)'
  <2>1. pc[p] \in CalmSteps \ {"idle"} /\ req[p].task \in {"none", "thumbnail"}
    BY <1>0, <1>8 DEF Calm, JobThrows, JobSaves, Crash
  <2>2. Done(p) /\ content' = content
    <3>1. CASE JobThrows(p)
      <4>1. pc[p] = "thumbnail.save"
        BY <2>1, <3>1 DEF CalmSteps, JobThrows, JobSaves
      <4> QED BY <3>1, <4>1 DEF JobThrows
    <3>2. CASE Crash(p)
      BY <3>2 DEF Crash, tables
    <3> QED BY <1>8, <3>1, <3>2
  <2>3. queue' = queue \/ Enqueue("thumbnail")
    BY <1>8, <2>1 DEF JobThrows, Crash
  <2>4. \A t \in Task \ {"thumbnail"} : queue'[t] = 0
    BY <1>0, <2>3 DEF Enqueue, IndInv, TypeOK
  <2> QED BY <1>0, <1>2, <2>2, <2>4, CalmSettled DEF Done, CalmSteps
<1>9. ASSUME NEW p \in Proc, pc[p] \in CalmSteps
      PROVE  /\ ~InsertVersion(p) /\ ~PublishUpload(p) /\ ~UploadPublish(p)
             /\ ~TranscodePublish(p) /\ ~FailJob(p) /\ ~PublishLost(p)
  BY <1>9 DEF CalmSteps, InsertVersion, PublishUpload, UploadPublish, TranscodePublish, FailJob,
     PublishLost, Inserts, Publishes
<1>10. \A p \in Proc : pc[p] \in CalmSteps
  BY <1>0 DEF Calm
<1> QED BY <1>1, <1>3, <1>4, <1>5, <1>6, <1>7, <1>8, <1>9, <1>10
        DEF Next, Undisturbed, Begin, Proceed

(* A published, archived or failed item that nothing in flight will change *)
(* stays so until somebody archives it or uploads a new version.           *)
THEOREM SettlesTheorem == Spec => StatusSettles
<1>1. IndInv /\ [Next]_vars =>
        [\A s \in Status \ {"processing"} : Settled(s) =>
           \/ Settled(s)'
           \/ \E p \in Proc : pc[p] = "idle" /\ pc'[p] \in {"version.save", "archive.save"}]_vars
  BY SettledStep
<1> QED BY InitInv, InvStep, <1>1, PTL DEF Spec, StatusSettles

=============================================================================
