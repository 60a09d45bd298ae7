-------------------------- MODULE AlbumPhotosProofs --------------------------
(***************************************************************************)
(* Theorems about the album store, for any albums, photos, workers, queue  *)
(* size and bound on failing renames.                                      *)
(***************************************************************************)
EXTENDS AlbumPhotos, TLAPS

-----------------------------------------------------------------------------
(* The inductive invariant.                                                *)

\* A photo is in the store once its handler is that far, numbered in an album
\* that exists, and only deleted after its client has the id.
FollowsHandler ==
    /\ \A p \in Photos :
        /\ upload[p] \in {"none", "saving", "refused"} => seq[p] = 0
        /\ upload[p] = "saving" => albumOf[p] \in Albums /\ AlbumExists(albumOf[p])
        /\ upload[p] \in {"none", "saving", "refused", "numbered"} => status[p] = "absent"
        /\ upload[p] = "stored" => status[p] = "processing"
        /\ deleted[p] => upload[p] = "answered"
        /\ removing[p] = "none" <=> ~deleted[p]
    /\ \A a \in Albums : ~AlbumExists(a) => albumSeq[a] = 0

\* A photo has one job, in the queue or at one worker, and is "processing"
\* until that worker is done.
OneJob ==
    /\ \A i, j \in DOMAIN jobs : jobs[i] = jobs[j] => i = j
    /\ \A i \in DOMAIN jobs : upload[jobs[i]] = "answered" /\ status[jobs[i]] = "processing"
    /\ \A w \in Workers :
        /\ job[w] = NoPhoto <=> doing[w] = "idle"
        /\ doing[w] # "idle" =>
              /\ job[w] \in Photos
              /\ upload[job[w]] = "answered" /\ status[job[w]] = "processing"
              /\ \A i \in DOMAIN jobs : jobs[i] # job[w]
              /\ \A v \in Workers : job[v] = job[w] => v = w

\* Which file a photo has, and who will still remove it if it is deleted.
FilesOwned ==
    /\ \A w \in Workers :
        /\ doing[w] = "complete" => files[job[w]] = {"final"}
        /\ doing[w] = "undo" => deleted[job[w]] /\ files[job[w]] = {"final"}
    /\ \A p \in Photos :
        /\ "final" \in toRemove[p] => status[p] = "completed"
        /\ status[p] = "completed" => "temp" \notin files[p]
        /\ status[p] = "completed" /\ ~deleted[p] => files[p] = {"final"}
        /\ "temp" \in files[p] /\ deleted[p] => removing[p] = "removing" /\ "temp" \in toRemove[p]
        /\ "final" \in files[p] =>
              \/ status[p] = "completed"
                 /\ (deleted[p] => removing[p] = "removing" /\ "final" \in toRemove[p])
              \/ \E w \in Workers : job[w] = p /\ doing[w] \in {"complete", "undo"}

Inv == TypeOK /\ FollowsHandler /\ OneJob /\ FilesOwned

-----------------------------------------------------------------------------
(* Each part of it is kept by every step.                                  *)

\* What Append adds to the elements of a sequence, and what it leaves.
LEMMA AppendElements ==
    ASSUME NEW S, NEW s \in Seq(S), NEW e \in S
    PROVE  /\ Append(s, e) \in Seq(S)
           /\ ToSet(Append(s, e)) = ToSet(s) \cup {e}
           /\ IsInjective(s) /\ e \notin ToSet(s) => IsInjective(Append(s, e))
<1>1. /\ Append(s, e) \in Seq(S)
      /\ DOMAIN s = 1 .. Len(s) /\ DOMAIN Append(s, e) = 1 .. Len(s) + 1 /\ Len(s) \in Nat
      /\ \A i \in 1 .. Len(s) : Append(s, e)[i] = s[i]
      /\ Append(s, e)[Len(s) + 1] = e
  OBVIOUS
<1>2. ToSet(Append(s, e)) = ToSet(s) \cup {e}
  BY <1>1 DEF ToSet
<1>3. ASSUME IsInjective(s), e \notin ToSet(s) PROVE IsInjective(Append(s, e))
  BY <1>1, <1>3 DEF ToSet, IsInjective
<1> QED BY <1>1, <1>2, <1>3

\* What is left when the first element of a sequence is taken.
LEMMA TailElements ==
    ASSUME NEW S, NEW s \in Seq(S), s # << >>
    PROVE  /\ Head(s) \in S /\ \E i \in DOMAIN s : s[i] = Head(s)
           /\ \A i \in DOMAIN Tail(s) : \E j \in DOMAIN s : Tail(s)[i] = s[j]
           /\ IsInjective(s) => /\ IsInjective(Tail(s))
                                /\ \A i \in DOMAIN Tail(s) : Tail(s)[i] # Head(s)
<1>1. /\ DOMAIN s = 1 .. Len(s) /\ DOMAIN Tail(s) = 1 .. Len(s) - 1 /\ Len(s) \in Nat \ {0}
      /\ \A i \in DOMAIN Tail(s) : Tail(s)[i] = s[i + 1]
      /\ Head(s) = s[1] /\ s[1] \in S
  OBVIOUS
<1>2. \A i \in DOMAIN Tail(s) : i + 1 \in DOMAIN s /\ i + 1 # 1
  BY <1>1
<1>3. \A i, j \in DOMAIN Tail(s) : i + 1 = j + 1 => i = j
  BY <1>1
<1> QED BY <1>1, <1>2, <1>3 DEF IsInjective

LEMMA TypeInit == Init => TypeOK
BY AlbumAssumption DEF AlbumAssumption, Init, TypeOK, IsInjective

LEMMA TypeStep == TypeOK /\ FollowsHandler /\ [Next]_vars => TypeOK'
<1> SUFFICES ASSUME TypeOK, FollowsHandler, [Next]_vars PROVE TypeOK'
  OBVIOUS
<1> USE AlbumAssumption DEF AlbumAssumption, TypeOK, vars, albumVars, photoVars, uploadVars, workerVars, deleteVars
<1>1. ASSUME NEW a \in Albums, PutAlbum(a) PROVE TypeOK'
  <2>1. albumOrder' \in Seq(Albums) /\ IsInjective(albumOrder')
    BY <1>1, AppendElements DEF PutAlbum, AlbumExists
  <2> QED BY <1>1, <2>1 DEF PutAlbum
<1>2. ASSUME NEW a \in Albums, NEW p \in Photos, BeginUpload(p, a) PROVE TypeOK'
  BY <1>2 DEF BeginUpload, UploadGoes
<1>3. ASSUME NEW p \in Photos, RefuseUpload(p) PROVE TypeOK'
  BY <1>3 DEF RefuseUpload, UploadGoes
<1>4. ASSUME NEW p \in Photos, NumberPhoto(p) PROVE TypeOK'
  <2>1. albumOf[p] \in Albums
    BY <1>4 DEF NumberPhoto, UploadGoes, FollowsHandler
  <2> QED BY <1>4, <2>1 DEF NumberPhoto, UploadGoes
<1>5. ASSUME NEW p \in Photos, StorePhoto(p) PROVE TypeOK'
  BY <1>5 DEF StorePhoto, UploadGoes
<1>6. ASSUME NEW p \in Photos, Enqueue(p) PROVE TypeOK'
  BY <1>6 DEF Enqueue, UploadGoes
<1>7. ASSUME NEW w \in Workers, TakeJob(w) PROVE TypeOK'
  BY <1>7 DEF TakeJob
<1>8. ASSUME NEW w \in Workers, Rename(w) PROVE TypeOK'
  BY <1>8 DEF Rename, WorkerGoes
<1>9. ASSUME NEW w \in Workers, RenameFails(w) PROVE TypeOK'
  BY <1>9 DEF RenameFails, WorkerGoes
<1>10. ASSUME NEW w \in Workers, MarkPhotoFailed(w) PROVE TypeOK'
  BY <1>10 DEF MarkPhotoFailed, WorkerGoes
<1>11. ASSUME NEW w \in Workers, MarkPhotoCompleted(w) PROVE TypeOK'
  <2>1. UNCHANGED <<albumVars, seq, deleted, uploadVars, deleteVars, files, jobs, faults>>
    BY <1>11 DEF MarkPhotoCompleted
  <2>2. status' = status \/ status' = [status EXCEPT ![job[w]] = "completed"]
    BY <1>11 DEF MarkPhotoCompleted
  <2>3. /\ doing' \in [Workers -> {"idle", "rename", "complete", "fail", "undo"}]
        /\ job' \in [Workers -> Photos \cup {NoPhoto}]
    BY <1>11, ZenonT(30) DEF MarkPhotoCompleted, WorkerGoes
  <2> QED BY <2>1, <2>2, <2>3
<1>12. ASSUME NEW w \in Workers, UndoRename(w) PROVE TypeOK'
  BY <1>12 DEF UndoRename, WorkerGoes
<1>13. ASSUME NEW p \in Photos, DeletePhoto(p) PROVE TypeOK'
  BY <1>13 DEF DeletePhoto, Path
<1>14. ASSUME NEW p \in Photos, RemoveFiles(p) PROVE TypeOK'
  BY <1>14 DEF RemoveFiles
<1>15. CASE UNCHANGED vars
  BY <1>15
<1> QED
  BY <1>1, <1>2, <1>3, <1>4, <1>5, <1>6, <1>7, <1>8, <1>9, <1>10, <1>11, <1>12, <1>13, <1>14, <1>15 DEF Next, UploadStep, WorkerStep

LEMMA HandlerStep == TypeOK /\ FollowsHandler /\ OneJob /\ [Next]_vars => FollowsHandler'
<1> SUFFICES ASSUME TypeOK, FollowsHandler, OneJob, [Next]_vars PROVE FollowsHandler'
  OBVIOUS
<1> USE AlbumAssumption DEF AlbumAssumption, TypeOK, FollowsHandler, OneJob, AlbumExists, vars, albumVars, photoVars, uploadVars, workerVars, deleteVars
<1>1. ASSUME NEW a \in Albums, PutAlbum(a) PROVE FollowsHandler'
  <2>1. ToSet(albumOrder') = ToSet(albumOrder) \cup {a}
    BY <1>1, AppendElements DEF PutAlbum
  <2> QED BY <1>1, <2>1 DEF PutAlbum
<1>2. ASSUME NEW a \in Albums, NEW p \in Photos, BeginUpload(p, a) PROVE FollowsHandler'
  BY <1>2 DEF BeginUpload, UploadGoes
<1>3. ASSUME NEW p \in Photos, RefuseUpload(p) PROVE FollowsHandler'
  BY <1>3 DEF RefuseUpload, UploadGoes
<1>4. ASSUME NEW p \in Photos, NumberPhoto(p) PROVE FollowsHandler'
  <2>1. albumOf[p] \in Albums /\ AlbumExists(albumOf[p])
    BY <1>4 DEF NumberPhoto, UploadGoes
  <2> QED BY <1>4, <2>1 DEF NumberPhoto, UploadGoes
<1>5. ASSUME NEW p \in Photos, StorePhoto(p) PROVE FollowsHandler'
  BY <1>5 DEF StorePhoto, UploadGoes
<1>6. ASSUME NEW p \in Photos, Enqueue(p) PROVE FollowsHandler'
  BY <1>6 DEF Enqueue, UploadGoes
<1>7. ASSUME NEW w \in Workers, TakeJob(w) PROVE FollowsHandler'
  BY <1>7 DEF TakeJob
<1>8. ASSUME NEW w \in Workers, Rename(w) PROVE FollowsHandler'
  BY <1>8 DEF Rename, WorkerGoes
<1>9. ASSUME NEW w \in Workers, RenameFails(w) PROVE FollowsHandler'
  BY <1>9 DEF RenameFails, WorkerGoes
<1>10. ASSUME NEW w \in Workers, MarkPhotoFailed(w) PROVE FollowsHandler'
  BY <1>10 DEF MarkPhotoFailed, WorkerGoes
<1>11. ASSUME NEW w \in Workers, MarkPhotoCompleted(w) PROVE FollowsHandler'
  <2>1. CASE ~deleted[job[w]]
    BY <1>11, <2>1 DEF MarkPhotoCompleted, WorkerGoes
  <2>2. CASE deleted[job[w]]
    BY <1>11, <2>2 DEF MarkPhotoCompleted, WorkerGoes
  <2> QED BY <2>1, <2>2
<1>12. ASSUME NEW w \in Workers, UndoRename(w) PROVE FollowsHandler'
  BY <1>12 DEF UndoRename, WorkerGoes
<1>13. ASSUME NEW p \in Photos, DeletePhoto(p) PROVE FollowsHandler'
  BY <1>13 DEF DeletePhoto, Path
<1>14. ASSUME NEW p \in Photos, RemoveFiles(p) PROVE FollowsHandler'
  BY <1>14 DEF RemoveFiles
<1>15. CASE UNCHANGED vars
  BY <1>15
<1> QED
  BY <1>1, <1>2, <1>3, <1>4, <1>5, <1>6, <1>7, <1>8, <1>9, <1>10, <1>11, <1>12, <1>13, <1>14, <1>15 DEF Next, UploadStep, WorkerStep

LEMMA JobStep == TypeOK /\ FollowsHandler /\ OneJob /\ [Next]_vars => OneJob'
<1> SUFFICES ASSUME TypeOK, FollowsHandler, OneJob, [Next]_vars PROVE OneJob'
  OBVIOUS
<1> USE AlbumAssumption DEF AlbumAssumption, TypeOK, FollowsHandler, OneJob, vars, albumVars, photoVars, uploadVars, workerVars, deleteVars
<1>1. ASSUME NEW a \in Albums, PutAlbum(a) PROVE OneJob'
  BY <1>1 DEF PutAlbum
<1>2. ASSUME NEW a \in Albums, NEW p \in Photos, BeginUpload(p, a) PROVE OneJob'
  BY <1>2 DEF BeginUpload, UploadGoes
<1>3. ASSUME NEW p \in Photos, RefuseUpload(p) PROVE OneJob'
  BY <1>3 DEF RefuseUpload, UploadGoes
<1>4. ASSUME NEW p \in Photos, NumberPhoto(p) PROVE OneJob'
  BY <1>4 DEF NumberPhoto, UploadGoes
<1>5. ASSUME NEW p \in Photos, StorePhoto(p) PROVE OneJob'
  BY <1>5 DEF StorePhoto, UploadGoes
<1>6. ASSUME NEW p \in Photos, Enqueue(p) PROVE OneJob'
  BY <1>6, SMTT(30) DEF Enqueue, UploadGoes
<1>7. ASSUME NEW w \in Workers, TakeJob(w) PROVE OneJob'
  <2>1. jobs \in Seq(Photos) /\ jobs # << >> /\ IsInjective(jobs)
    BY <1>7 DEF TakeJob, IsInjective
  <2>2. /\ Head(jobs) \in Photos /\ \E i \in DOMAIN jobs : jobs[i] = Head(jobs)
        /\ \A i \in DOMAIN jobs' : \E j \in DOMAIN jobs : jobs'[i] = jobs[j]
        /\ IsInjective(jobs') /\ \A i \in DOMAIN jobs' : jobs'[i] # Head(jobs)
    BY <1>7, <2>1, TailElements DEF TakeJob
  <2>3. ASSUME NEW v \in Workers PROVE job[v] # Head(jobs)
    <3>1. CASE doing[v] = "idle"
      BY <2>2, <3>1
    <3>2. CASE doing[v] # "idle"
      BY <2>2, <3>2
    <3> QED BY <3>1, <3>2
  <2>4. /\ doing[w] = "idle" /\ doing' = [doing EXCEPT ![w] = "rename"]
        /\ job' = [job EXCEPT ![w] = Head(jobs)]
        /\ UNCHANGED <<upload, status>>
    BY <1>7 DEF TakeJob
  <2>5. \A i \in DOMAIN jobs' : upload'[jobs'[i]] = "answered" /\ status'[jobs'[i]] = "processing"
    BY <2>2, <2>4
  <2>6. /\ upload[Head(jobs)] = "answered" /\ status[Head(jobs)] = "processing"
        /\ Head(jobs) # NoPhoto
    BY <2>2
  <2>7. \A v \in Workers : v # w => doing'[v] = doing[v] /\ job'[v] = job[v]
    BY <2>4
  <2>8. doing'[w] = "rename" /\ job'[w] = Head(jobs)
    BY <2>4
  <2>9. \A v \in Workers : v # w /\ doing[v] # "idle" =>
            \A i \in DOMAIN jobs' : jobs'[i] # job[v]
    BY <2>2
  <2> QED
    BY <2>2, <2>3, <2>4, <2>5, <2>6, <2>7, <2>8, <2>9 DEF IsInjective
<1>8. ASSUME NEW w \in Workers, Rename(w) PROVE OneJob'
  BY <1>8 DEF Rename, WorkerGoes
<1>9. ASSUME NEW w \in Workers, RenameFails(w) PROVE OneJob'
  BY <1>9 DEF RenameFails, WorkerGoes
<1>10. ASSUME NEW w \in Workers, MarkPhotoFailed(w) PROVE OneJob'
  BY <1>10 DEF MarkPhotoFailed, WorkerGoes
<1>11. ASSUME NEW w \in Workers, MarkPhotoCompleted(w) PROVE OneJob'
  <2>1. CASE ~deleted[job[w]]
    <3>1. /\ doing' = [doing EXCEPT ![w] = "idle"] /\ job' = [job EXCEPT ![w] = NoPhoto]
          /\ status' = [status EXCEPT ![job[w]] = "completed"]
          /\ UNCHANGED <<upload, jobs>>
      BY <1>11, <2>1 DEF MarkPhotoCompleted, WorkerGoes
    <3>2. /\ job[w] \in Photos
          /\ \A i \in DOMAIN jobs : jobs[i] \in Photos /\ jobs[i] # job[w]
          /\ \A v \in Workers : job[v] = job[w] => v = w
      BY <1>11, <2>1 DEF MarkPhotoCompleted, WorkerGoes
    <3>3. \A i \in DOMAIN jobs : status'[jobs[i]] = "processing"
      BY <3>1, <3>2
    <3>4. \A v \in Workers : v # w => doing'[v] = doing[v] /\ job'[v] = job[v]
                                     /\ (doing[v] # "idle" => status'[job[v]] = status[job[v]])
      BY <3>1, <3>2
    <3> QED BY <3>1, <3>3, <3>4
  <2>2. CASE deleted[job[w]]
    BY <1>11, <2>2 DEF MarkPhotoCompleted, WorkerGoes
  <2> QED BY <2>1, <2>2
<1>12. ASSUME NEW w \in Workers, UndoRename(w) PROVE OneJob'
  BY <1>12 DEF UndoRename, WorkerGoes
<1>13. ASSUME NEW p \in Photos, DeletePhoto(p) PROVE OneJob'
  BY <1>13 DEF DeletePhoto, Path
<1>14. ASSUME NEW p \in Photos, RemoveFiles(p) PROVE OneJob'
  BY <1>14 DEF RemoveFiles
<1>15. CASE UNCHANGED vars
  BY <1>15
<1> QED
  BY <1>1, <1>2, <1>3, <1>4, <1>5, <1>6, <1>7, <1>8, <1>9, <1>10, <1>11, <1>12, <1>13, <1>14, <1>15 DEF Next, UploadStep, WorkerStep

LEMMA FilesStep == Inv /\ [Next]_vars => FilesOwned'
<1> SUFFICES ASSUME Inv, [Next]_vars PROVE FilesOwned'
  OBVIOUS
<1> USE AlbumAssumption DEF AlbumAssumption, Inv, TypeOK, FollowsHandler, OneJob, FilesOwned, vars, albumVars, photoVars, uploadVars, workerVars, deleteVars
<1>1. ASSUME NEW a \in Albums, PutAlbum(a) PROVE FilesOwned'
  BY <1>1 DEF PutAlbum
<1>2. ASSUME NEW a \in Albums, NEW p \in Photos, BeginUpload(p, a) PROVE FilesOwned'
  BY <1>2 DEF BeginUpload, UploadGoes
<1>3. ASSUME NEW p \in Photos, RefuseUpload(p) PROVE FilesOwned'
  BY <1>3 DEF RefuseUpload, UploadGoes
<1>4. ASSUME NEW p \in Photos, NumberPhoto(p) PROVE FilesOwned'
  BY <1>4 DEF NumberPhoto, UploadGoes
<1>5. ASSUME NEW p \in Photos, StorePhoto(p) PROVE FilesOwned'
  BY <1>5 DEF StorePhoto, UploadGoes
<1>6. ASSUME NEW p \in Photos, Enqueue(p) PROVE FilesOwned'
  BY <1>6 DEF Enqueue, UploadGoes
<1>7. ASSUME NEW w \in Workers, TakeJob(w) PROVE FilesOwned'
  BY <1>7 DEF TakeJob
<1>8. ASSUME NEW w \in Workers, Rename(w) PROVE FilesOwned'
  BY <1>8 DEF Rename, WorkerGoes
<1>9. ASSUME NEW w \in Workers, RenameFails(w) PROVE FilesOwned'
  <2>1. /\ doing[w] = "rename" /\ doing' = [doing EXCEPT ![w] = "fail"] /\ job' = job
        /\ UNCHANGED <<photoVars, uploadVars, deleteVars, files, jobs>>
    BY <1>9 DEF RenameFails, WorkerGoes
  <2>2. \A v \in Workers : \A at \in {"complete", "undo"} : doing'[v] = at <=> doing[v] = at
    BY <2>1
  <2>3. UNCHANGED <<job, photoVars, uploadVars, deleteVars, files, jobs>>
    BY <2>1
  <2> HIDE <2>1
  <2> QED BY <2>2, <2>3, ZenonT(30)
<1>10. ASSUME NEW w \in Workers, MarkPhotoFailed(w) PROVE FilesOwned'
  BY <1>10 DEF MarkPhotoFailed, WorkerGoes
<1>11. ASSUME NEW w \in Workers, MarkPhotoCompleted(w) PROVE FilesOwned'
  <2>1. CASE ~deleted[job[w]]
    <3>1. /\ doing[w] = "complete" /\ job[w] \in Photos
          /\ doing' = [doing EXCEPT ![w] = "idle"] /\ job' = [job EXCEPT ![w] = NoPhoto]
          /\ status' = [status EXCEPT ![job[w]] = "completed"]
          /\ UNCHANGED <<deleted, uploadVars, deleteVars, files, jobs>>
      BY <1>11, <2>1 DEF MarkPhotoCompleted, WorkerGoes
    <3>2. files[job[w]] = {"final"} /\ \A v \in Workers : job[v] = job[w] => v = w
      BY <3>1
    <3> QED BY <2>1, <3>1, <3>2
  <2>2. CASE deleted[job[w]]
    BY <1>11, <2>2 DEF MarkPhotoCompleted, WorkerGoes
  <2> QED BY <2>1, <2>2
<1>12. ASSUME NEW w \in Workers, UndoRename(w) PROVE FilesOwned'
  BY <1>12 DEF UndoRename, WorkerGoes
<1>13. ASSUME NEW p \in Photos, DeletePhoto(p) PROVE FilesOwned'
  BY <1>13 DEF DeletePhoto, Path
<1>14. ASSUME NEW p \in Photos, RemoveFiles(p) PROVE FilesOwned'
  BY <1>14 DEF RemoveFiles
<1>15. CASE UNCHANGED vars
  BY <1>15
<1> QED
  BY <1>1, <1>2, <1>3, <1>4, <1>5, <1>6, <1>7, <1>8, <1>9, <1>10, <1>11, <1>12, <1>13, <1>14, <1>15, ZenonT(30) DEF Next, UploadStep, WorkerStep

LEMMA InvInit == Init => Inv
<1> SUFFICES ASSUME Init PROVE Inv
  OBVIOUS
<1>1. TypeOK
  BY TypeInit
<1>2. FollowsHandler
  BY AlbumAssumption DEF Init, FollowsHandler
<1>3. OneJob
  BY DEF Init, OneJob
<1>4. FilesOwned
  BY DEF Init, FilesOwned
<1> QED BY <1>1, <1>2, <1>3, <1>4 DEF Inv

LEMMA InvCorrect == Spec => []Inv
<1>1. Inv /\ [Next]_vars => Inv'
  BY TypeStep, HandlerStep, JobStep, FilesStep DEF Inv
<1> QED BY <1>1, InvInit, PTL DEF Spec

-----------------------------------------------------------------------------
(* Theorems.                                                               *)

\* Every reachable state is well typed; in particular the queue never holds
\* more jobs than it has room for, and no album is listed twice.
THEOREM TypeCorrect == Spec => []TypeOK
<1>1. Inv => TypeOK
  BY DEF Inv
<1> QED BY <1>1, InvCorrect, PTL

\* A completed photo that was not deleted has its file, whatever deletes and
\* workers did in between.
THEOREM CompletedIsServed == Spec => []CompletedHasFile
<1>1. Inv => CompletedHasFile
  BY DEF Inv, FilesOwned, CompletedHasFile
<1> QED BY <1>1, InvCorrect, PTL

\* A deleted photo nobody works on any more has no file left.
THEOREM DeleteCleansUp == Spec => []DeletedLeavesNothing
<1>1. Inv => DeletedLeavesNothing
  <2> SUFFICES ASSUME Inv, NEW p \in Photos, deleted[p], ~InUse(p) PROVE files[p] = {}
    BY DEF DeletedLeavesNothing
  <2>1. "temp" \notin files[p]
    BY DEF Inv, FilesOwned, InUse
  <2>2. "final" \notin files[p]
    BY DEF Inv, FilesOwned, InUse
  <2> QED BY <2>1, <2>2, ZenonT(30) DEF Inv, TypeOK
<1> QED BY <1>1, InvCorrect, PTL

\* Only the worker that has the photo's one job gives it an outcome, so no
\* outcome is ever replaced; and nothing brings a deleted photo back.
THEOREM OutcomesStay == Spec => OutcomesAreFinal
<1>1. Inv /\ [Next]_vars =>
        [\A p \in Photos : /\ status[p] \in {"completed", "failed"} => status'[p] = status[p]
                           /\ deleted[p] => deleted'[p]]_vars
  <2> SUFFICES ASSUME Inv, [Next]_vars, NEW q \in Photos
               PROVE  /\ status[q] \in {"completed", "failed"} => status'[q] = status[q]
                      /\ deleted[q] => deleted'[q]
    OBVIOUS
  <2> USE DEF Inv, TypeOK
  <2>1. ASSUME NEW p \in Photos, StorePhoto(p)
        PROVE  (status[q] \in {"completed", "failed"} => status'[q] = status[q]) /\ deleted' = deleted
    BY <2>1 DEF StorePhoto, UploadGoes, FollowsHandler
  <2>2. ASSUME NEW w \in Workers, MarkPhotoFailed(w) \/ MarkPhotoCompleted(w)
        PROVE  (status[q] \in {"completed", "failed"} => status'[q] = status[q]) /\ deleted' = deleted
    <3>1. job[w] \in Photos /\ status[job[w]] = "processing"
      BY <2>2 DEF MarkPhotoFailed, MarkPhotoCompleted, WorkerGoes, OneJob
    <3> QED BY <2>2, <3>1 DEF MarkPhotoFailed, MarkPhotoCompleted
  <2>3. ASSUME NEW p \in Photos, DeletePhoto(p)
        PROVE  status' = status /\ (deleted[q] => deleted'[q])
    BY <2>3 DEF DeletePhoto
  <2>4. \/ UNCHANGED photoVars
        \/ \E p \in Photos : StorePhoto(p) \/ DeletePhoto(p)
        \/ \E w \in Workers : MarkPhotoFailed(w) \/ MarkPhotoCompleted(w)
    BY DEF Next, UploadStep, WorkerStep, PutAlbum, BeginUpload, RefuseUpload, NumberPhoto,
           Enqueue, TakeJob, Rename, RenameFails, UndoRename, RemoveFiles, vars, photoVars
  <2> QED BY <2>1, <2>2, <2>3, <2>4 DEF photoVars
<1> QED BY <1>1, InvCorrect, PTL DEF Spec, OutcomesAreFinal

-----------------------------------------------------------------------------
(* Numbering.                                                              *)

\* Only NumberPhoto gives a number, and only BeginUpload an album, to a photo
\* that has none.
LEMMA NumberingSteps ==
    ASSUME Inv, [Next]_vars
    PROVE  \/ \E p \in Photos : NumberPhoto(p)
           \/ /\ seq' = seq /\ albumSeq' = albumSeq
              /\ \A q \in Photos : seq[q] > 0 => albumOf'[q] = albumOf[q]
<1> USE DEF Inv, TypeOK
<1>1. ASSUME NEW a \in Albums, PutAlbum(a)
      PROVE  seq' = seq /\ albumSeq' = albumSeq /\ albumOf' = albumOf
  <2>1. albumSeq[a] = 0
    BY <1>1 DEF PutAlbum, FollowsHandler
  <2>2. albumSeq' = albumSeq
    BY <1>1, <2>1 DEF PutAlbum
  <2> QED BY <1>1, <2>2 DEF PutAlbum, uploadVars
<1>2. ASSUME NEW a \in Albums, NEW p \in Photos, BeginUpload(p, a)
      PROVE  /\ seq' = seq /\ albumSeq' = albumSeq
             /\ \A q \in Photos : seq[q] > 0 => albumOf'[q] = albumOf[q]
  BY <1>2 DEF BeginUpload, UploadGoes, FollowsHandler, albumVars
<1>3. \/ seq' = seq /\ albumSeq' = albumSeq /\ albumOf' = albumOf
      \/ \E a \in Albums : PutAlbum(a) \/ \E p \in Photos : BeginUpload(p, a)
      \/ \E p \in Photos : NumberPhoto(p)
  BY DEF Next, UploadStep, WorkerStep, RefuseUpload, StorePhoto, Enqueue, TakeJob, Rename,
         RenameFails, MarkPhotoFailed, MarkPhotoCompleted, UndoRename, DeletePhoto, RemoveFiles,
         vars, albumVars, uploadVars
<1> QED BY <1>1, <1>2, <1>3

LEMMA DenseStep == Inv /\ SeqsDense /\ [Next]_vars => SeqsDense'
<1> SUFFICES ASSUME Inv, SeqsDense, [Next]_vars, NEW a \in Albums
             PROVE  /\ {seq'[p] : p \in Numbered(a)'} = 1 .. albumSeq'[a]
                    /\ \A p, q \in Numbered(a)' : seq'[p] = seq'[q] => p = q
  BY DEF SeqsDense
<1>0. {seq[p] : p \in Numbered(a)} = 1 .. albumSeq[a]
  BY DEF SeqsDense
<1>1. CASE \E p \in Photos : NumberPhoto(p)
  <2> PICK p \in Photos : NumberPhoto(p)
    BY <1>1
  <2>1. seq[p] = 0 /\ albumOf[p] \in Albums /\ albumSeq[albumOf[p]] \in Nat
    BY DEF NumberPhoto, UploadGoes, Inv, FollowsHandler, TypeOK
  <2>2. /\ albumOf' = albumOf
        /\ seq' = [seq EXCEPT ![p] = albumSeq[albumOf[p]] + 1]
        /\ albumSeq' = [albumSeq EXCEPT ![albumOf[p]] = albumSeq[albumOf[p]] + 1]
    BY DEF NumberPhoto
  <2>3. CASE a = albumOf[p]
    <3>1. Numbered(a)' = Numbered(a) \cup {p} /\ p \notin Numbered(a)
      BY <2>1, <2>2, <2>3 DEF Numbered, Inv, TypeOK
    <3>2. \A q \in Numbered(a) : seq'[q] = seq[q]
      BY <2>2, <3>1 DEF Numbered, Inv, TypeOK
    <3>3. seq'[p] = albumSeq[a] + 1 /\ albumSeq'[a] = albumSeq[a] + 1
      BY <2>2, <2>3 DEF Inv, TypeOK
    <3>4. \A q \in Numbered(a) : seq[q] \in 1 .. albumSeq[a]
      BY <1>0
    <3>5. {seq'[q] : q \in Numbered(a)'} = 1 .. albumSeq'[a]
      <4>1. {seq'[q] : q \in Numbered(a)'} = {seq[q] : q \in Numbered(a)} \cup {albumSeq[a] + 1}
        BY <3>1, <3>2, <3>3
      <4> QED BY <1>0, <2>1, <2>3, <3>3, <4>1
    <3> QED BY <2>1, <2>3, <3>1, <3>2, <3>3, <3>4, <3>5 DEF SeqsDense
  <2>4. CASE a # albumOf[p]
    <3>1. Numbered(a)' = Numbered(a) /\ p \notin Numbered(a)
      BY <2>1, <2>2, <2>4 DEF Numbered, Inv, TypeOK
    <3>2. \A q \in Numbered(a) : seq'[q] = seq[q]
      BY <2>2, <3>1 DEF Numbered, Inv, TypeOK
    <3>3. albumSeq'[a] = albumSeq[a]
      BY <2>1, <2>2, <2>4 DEF Inv, TypeOK
    <3> QED BY <3>1, <3>2, <3>3 DEF SeqsDense
  <2> QED BY <2>3, <2>4
<1>2. CASE /\ seq' = seq /\ albumSeq' = albumSeq
           /\ \A q \in Photos : seq[q] > 0 => albumOf'[q] = albumOf[q]
  <2>1. Numbered(a)' = Numbered(a)
    BY <1>2 DEF Numbered
  <2> QED BY <1>2, <2>1 DEF SeqsDense
<1> QED BY <1>1, <1>2, NumberingSteps

\* An album's photos are numbered without a gap and without a repetition,
\* however many uploads are between the two locks and however often the
\* album is put again.
THEOREM NumberingIsDense == Spec => []SeqsDense
<1>1. Init => SeqsDense
  BY DEF Init, SeqsDense, Numbered
<1>2. Inv /\ SeqsDense /\ [Next]_vars => SeqsDense'
  BY DenseStep
<1> QED BY <1>1, <1>2, InvCorrect, PTL DEF Spec
==============================================================================
