----------------------------- MODULE AlbumPhotos -----------------------------
(***************************************************************************)
(* The album store: store/memory.go (albums and photos under two locks),   *)
(* api/handlers_photo.go (upload and delete handlers, the upload workers)  *)
(* and the files under data/tmp and data/files.                            *)
(*                                                                         *)
(* A photo stands for one upload request and the id made for it, so one    *)
(* photo has one upload handler, one job and at most one delete handler    *)
(* that gets past the store.                                               *)
(***************************************************************************)
EXTENDS Integers, Sequences, SequencesExt

CONSTANTS
    Albums, Photos,
    Workers,        \* workerCount of them
    QueueSize,      \* jobQueueSize
    MaxFaults,      \* bound on failed renames
    NoPhoto, NoAlbum

ASSUME AlbumAssumption ==
    /\ QueueSize \in Nat \ {0} /\ MaxFaults \in Nat
    /\ NoPhoto \notin Photos /\ NoAlbum \notin Albums

VARIABLES
    albumOrder, albumSeq,   \* MemoryStore, under albumsMu
    albumOf, seq,           \* of the photo; the handler has them first
    status, deleted,        \* MemoryStore.photosByID, under photosMu
    files,                  \* files[p]: which of its two files are on disk
    upload,                 \* upload[p]: where uploadPhoto is
    jobs,                   \* the channel of UploadJobs
    doing, job,             \* doing[w], job[w]: where processPhoto is
    removing, toRemove,     \* removing[p]: where deletePhoto is, with which paths
    faults

albumVars == <<albumOrder, albumSeq>>
photoVars == <<status, deleted>>
uploadVars == <<albumOf, seq, upload>>
workerVars == <<doing, job>>
deleteVars == <<removing, toRemove>>
vars == <<albumVars, photoVars, uploadVars, workerVars, deleteVars, files, jobs, faults>>

Init ==
    /\ albumOrder = <<>> /\ albumSeq = [a \in Albums |-> 0]
    /\ albumOf = [p \in Photos |-> NoAlbum] /\ seq = [p \in Photos |-> 0]
    /\ status = [p \in Photos |-> "absent"] /\ deleted = [p \in Photos |-> FALSE]
    /\ files = [p \in Photos |-> {}]
    /\ upload = [p \in Photos |-> "none"]
    /\ jobs = <<>>
    /\ doing = [w \in Workers |-> "idle"] /\ job = [w \in Workers |-> NoPhoto]
    /\ removing = [p \in Photos |-> "none"] /\ toRemove = [p \in Photos |-> {}]
    /\ faults = 0

AlbumExists(a) == a \in ToSet(albumOrder)

\* Fault: an album put again starts from nothing.
PutAlbum_Resets(a) ==
    /\ albumOrder' = IF AlbumExists(a) THEN albumOrder ELSE Append(albumOrder, a)
    /\ albumSeq' = [albumSeq EXCEPT ![a] = 0]
    /\ UNCHANGED <<photoVars, uploadVars, workerVars, deleteVars, files, jobs, faults>>

\* PutAlbum.  Title, description and owner are not modelled, so a second PUT
\* of an album changes nothing.
PutAlbum(a) ==
    /\ ~AlbumExists(a)
    /\ albumOrder' = Append(albumOrder, a)
    /\ albumSeq' = [albumSeq EXCEPT ![a] = 0]
    /\ UNCHANGED <<photoVars, uploadVars, workerVars, deleteVars, files, jobs, faults>>

-----------------------------------------------------------------------------
(* uploadPhoto                                                             *)

UploadGoes(p, from, to) ==
    /\ upload[p] = from
    /\ upload' = [upload EXCEPT ![p] = to]

\* The album exists; saveMultipartPhotoToTemp creates the file.
BeginUpload(p, a) ==
    /\ AlbumExists(a)
    /\ UploadGoes(p, "none", "saving")
    /\ albumOf' = [albumOf EXCEPT ![p] = a]
    /\ files' = [files EXCEPT ![p] = {"temp"}]
    /\ UNCHANGED <<albumVars, photoVars, seq, workerVars, deleteVars, jobs, faults>>

\* The body breaks off or has no photo part: 400.
RefuseUpload(p) ==
    /\ UploadGoes(p, "saving", "refused")
    /\ files' = [files EXCEPT ![p] = {}]
    /\ UNCHANGED <<albumVars, photoVars, albumOf, seq, workerVars, deleteVars, jobs, faults>>

\* The file is complete, and CreatePhotoProcessing takes the next number under
\* albumsMu ...
NumberPhoto(p) ==
    /\ UploadGoes(p, "saving", "numbered")
    /\ albumSeq' = [albumSeq EXCEPT ![albumOf[p]] = @ + 1]
    /\ seq' = [seq EXCEPT ![p] = albumSeq[albumOf[p]] + 1]
    /\ UNCHANGED <<albumOrder, photoVars, albumOf, workerVars, deleteVars, files, jobs, faults>>

\* ... lets go of it and stores the photo under photosMu.
StorePhoto(p) ==
    /\ UploadGoes(p, "numbered", "stored")
    /\ status' = [status EXCEPT ![p] = "processing"]
    /\ UNCHANGED <<albumVars, deleted, albumOf, seq, workerVars, deleteVars, files, jobs, faults>>

\* Fault: a job is queued twice.
Enqueue_Twice(p) ==
    /\ UploadGoes(p, "stored", "answered")
    /\ Len(jobs) < QueueSize
    /\ jobs' = jobs \o <<p, p>>
    /\ UNCHANGED <<albumVars, photoVars, albumOf, seq, workerVars, deleteVars, files, faults>>

\* s.jobs <- waits for room; then the client gets its 202 and the photo's id.
Enqueue(p) ==
    /\ UploadGoes(p, "stored", "answered")
    /\ Len(jobs) < QueueSize
    /\ jobs' = Append(jobs, p)
    /\ UNCHANGED <<albumVars, photoVars, albumOf, seq, workerVars, deleteVars, files, faults>>

-----------------------------------------------------------------------------
(* processPhoto, in uploadWorker                                           *)

WorkerGoes(w, from, to) ==
    /\ doing[w] = from
    /\ doing' = [doing EXCEPT ![w] = to]
    /\ job' = [job EXCEPT ![w] = IF to = "idle" THEN NoPhoto ELSE @]

\* A job is taken and its photo is found; deleted or not is not asked.
TakeJob(w) ==
    /\ doing[w] = "idle" /\ jobs # <<>>
    /\ jobs' = Tail(jobs)
    /\ doing' = [doing EXCEPT ![w] = "rename"]
    /\ job' = [job EXCEPT ![w] = Head(jobs)]
    /\ UNCHANGED <<albumVars, photoVars, uploadVars, deleteVars, files, faults>>

\* os.Rename(photo.TempPath, finalPath)
Rename(w) ==
    /\ WorkerGoes(w, "rename", "complete")
    /\ "temp" \in files[job[w]]
    /\ files' = [files EXCEPT ![job[w]] = {"final"}]
    /\ UNCHANGED <<albumVars, photoVars, uploadVars, deleteVars, jobs, faults>>

\* Fault: the error of Rename is not looked at.
RenameFails_Unnoticed(w) ==
    /\ WorkerGoes(w, "rename", "complete")
    /\ faults < MaxFaults /\ faults' = faults + 1
    /\ UNCHANGED <<albumVars, photoVars, uploadVars, deleteVars, files, jobs>>

\* It fails: a delete was faster, or the disk is to blame.
RenameFails(w) ==
    /\ WorkerGoes(w, "rename", "fail")
    /\ \/ "temp" \notin files[job[w]] /\ UNCHANGED faults
       \/ faults < MaxFaults /\ faults' = faults + 1
    /\ UNCHANGED <<albumVars, photoVars, uploadVars, deleteVars, files, jobs>>

\* Fault: the photo is left as it was.
MarkPhotoFailed_Not(w) ==
    /\ WorkerGoes(w, "fail", "idle")
    /\ UNCHANGED <<albumVars, photoVars, uploadVars, deleteVars, files, jobs, faults>>

\* MarkPhotoFailed passes over a deleted photo, not over a completed one.
MarkPhotoFailed(w) ==
    /\ WorkerGoes(w, "fail", "idle")
    /\ status' = [status EXCEPT ![job[w]] = IF deleted[job[w]] THEN @ ELSE "failed"]
    /\ UNCHANGED <<albumVars, deleted, uploadVars, deleteVars, files, jobs, faults>>

\* Fault: a delete that came in between is not noticed.
MarkPhotoCompleted_Unchecked(w) ==
    /\ WorkerGoes(w, "complete", "idle")
    /\ status' = [status EXCEPT ![job[w]] = "completed"]
    /\ UNCHANGED <<albumVars, deleted, uploadVars, deleteVars, files, jobs, faults>>

\* MarkPhotoCompleted, which refuses a photo that was deleted meanwhile.
MarkPhotoCompleted(w) ==
    /\ \/ /\ WorkerGoes(w, "complete", "idle")
          /\ ~deleted[job[w]]
          /\ status' = [status EXCEPT ![job[w]] = "completed"]
       \/ /\ WorkerGoes(w, "complete", "undo")
          /\ deleted[job[w]]
          /\ UNCHANGED status
    /\ UNCHANGED <<albumVars, deleted, uploadVars, deleteVars, files, jobs, faults>>

\* removeIfExists(finalPath)
UndoRename(w) ==
    /\ WorkerGoes(w, "undo", "idle")
    /\ files' = [files EXCEPT ![job[w]] = @ \ {"final"}]
    /\ UNCHANGED <<albumVars, photoVars, uploadVars, deleteVars, jobs, faults>>

-----------------------------------------------------------------------------
(* deletePhoto                                                             *)

\* The path the record has: TempPath until the photo is completed, FilePath then.
Path(p) == IF status[p] = "completed" THEN {"final"} ELSE {"temp"}

\* DeletePhoto in the store; the handler keeps the paths it found there.
DeletePhoto(p) ==
    /\ upload[p] = "answered" /\ ~deleted[p]
    /\ deleted' = [deleted EXCEPT ![p] = TRUE]
    /\ removing' = [removing EXCEPT ![p] = "removing"]
    /\ toRemove' = [toRemove EXCEPT ![p] = Path(p)]
    /\ UNCHANGED <<albumVars, status, uploadVars, workerVars, files, jobs, faults>>

\* One of its paths is empty: the two removals are one.
RemoveFiles(p) ==
    /\ removing[p] = "removing"
    /\ removing' = [removing EXCEPT ![p] = "done"]
    /\ files' = [files EXCEPT ![p] = @ \ toRemove[p]]
    /\ UNCHANGED <<albumVars, photoVars, uploadVars, workerVars, toRemove, jobs, faults>>

-----------------------------------------------------------------------------
UploadStep(p) ==
    \/ RefuseUpload(p)
    \/ NumberPhoto(p)
    \/ StorePhoto(p)
    \/ Enqueue(p)

WorkerStep(w) ==
    \/ TakeJob(w)
    \/ Rename(w) \/ RenameFails(w)
    \/ MarkPhotoFailed(w)
    \/ MarkPhotoCompleted(w) \/ UndoRename(w)

Next ==
    \/ \E a \in Albums : PutAlbum(a) \/ \E p \in Photos : BeginUpload(p, a)
    \/ \E p \in Photos : UploadStep(p) \/ DeletePhoto(p) \/ RemoveFiles(p)
    \/ \E w \in Workers : WorkerStep(w)

Spec == Init /\ [][Next]_vars

\* Handlers and workers are goroutines of a running server; a sender that
\* waits for room in a channel is served in its turn.
FairSpec ==
    /\ Spec
    /\ \A p \in Photos : /\ WF_vars(NumberPhoto(p) \/ StorePhoto(p) \/ RefuseUpload(p))
                         /\ WF_vars(Enqueue(p))
                         /\ WF_vars(RemoveFiles(p))
    /\ \A w \in Workers : WF_vars(WorkerStep(w))

-----------------------------------------------------------------------------
(* Properties                                                              *)

TypeOK ==
    /\ albumOrder \in Seq(Albums) /\ IsInjective(albumOrder)
    /\ albumSeq \in [Albums -> Nat]
    /\ albumOf \in [Photos -> Albums \cup {NoAlbum}]
    /\ seq \in [Photos -> Nat]
    /\ status \in [Photos -> {"absent", "processing", "completed", "failed"}]
    /\ deleted \in [Photos -> BOOLEAN]
    /\ files \in [Photos -> SUBSET {"temp", "final"}]
    /\ upload \in [Photos -> {"none", "saving", "numbered", "stored", "answered", "refused"}]
    /\ jobs \in Seq(Photos) /\ Len(jobs) <= QueueSize
    /\ doing \in [Workers -> {"idle", "rename", "complete", "fail", "undo"}]
    /\ job \in [Workers -> Photos \cup {NoPhoto}]
    /\ removing \in [Photos -> {"none", "removing", "done"}]
    /\ toRemove \in [Photos -> SUBSET {"temp", "final"}]
    /\ faults \in 0 .. MaxFaults

Numbered(a) == {p \in Photos : albumOf[p] = a /\ seq[p] > 0}

\* The photos of an album are numbered 1, 2, ..., each number once, with any
\* number of uploads between the two locks of CreatePhotoProcessing and the
\* album put again at any time.
SeqsDense ==
    \A a \in Albums :
        /\ {seq[p] : p \in Numbered(a)} = 1 .. albumSeq[a]
        /\ \A p, q \in Numbered(a) : seq[p] = seq[q] => p = q

\* What getPhotoStatus calls completed and has not been deleted can be served:
\* its file is on disk.
CompletedHasFile ==
    \A p \in Photos : status[p] = "completed" /\ ~deleted[p] => "final" \in files[p]

\* Someone still works on p.
InUse(p) ==
    \/ upload[p] # "answered" \/ removing[p] = "removing"
    \/ p \in ToSet(jobs)
    \/ \E w \in Workers : job[w] = p

\* Whichever of the worker's steps a delete falls between, no file of the
\* photo is left once both are done.
DeletedLeavesNothing == \A p \in Photos : deleted[p] /\ ~InUse(p) => files[p] = {}

\* A client that was told completed or failed is never told otherwise, and a
\* deleted photo does not come back.
OutcomesAreFinal ==
    [][\A p \in Photos : /\ status[p] \in {"completed", "failed"} => status'[p] = status[p]
                         /\ deleted[p] => deleted'[p]]_vars

\* Every photo whose upload gets as far as a number is completed, failed or
\* deleted in the end, with more uploads than the queue has room for.
EveryUploadSettled ==
    \A p \in Photos :
        upload[p] = "numbered" ~> status[p] \in {"completed", "failed"} \/ deleted[p]
=============================================================================
