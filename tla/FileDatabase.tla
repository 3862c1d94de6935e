---------------------------- MODULE FileDatabase ----------------------------
(***************************************************************************)
(* getFile, putFile and deleteFile of FileDatabase, and the same methods   *)
(* of autocert.DirCache.  Every call starts a goroutine that does the file *)
(* operation, and waits for the goroutine or for the end of its context,   *)
(* whichever comes first; the goroutine is never stopped.  A put first     *)
(* makes the directory, in the caller's goroutine; its own goroutine then  *)
(* writes a temporary file, looks at the context, and renames the file.    *)
(***************************************************************************)
EXTENDS Naturals

CONSTANTS
  Req, Name, Value, Absent, Failed, Canceled, None,      \* see Store
  Partial,        \* content of a file whose writing failed
  DirCacheName,   \* names of a DirCache; the others are FileDatabase's
  IOMayFail       \* whether file operations may fail

Operation == [kind : {"get", "delete"}, name : Name, value : {Absent}]
               \union [kind : {"put"}, name : Name, value : Value]
Worker == {"idle", "mkdir", "start", "written", "rename", "finish", "done"}
Caller == {"idle", "mkdir", "failed", "waiting", "answered"}

ASSUME DistinctResults ==
  /\ Absent \notin Value /\ Failed \notin Value /\ Canceled \notin Value
  /\ None \notin Operation \union Value \union {Absent, Failed, Canceled}
  /\ Absent # Failed /\ Partial \notin Value \union {Absent}
  /\ DirCacheName \subseteq Name /\ IOMayFail \in BOOLEAN

VARIABLES
  files,          \* the directory: the content of every named file
  temp,           \* the temporary file of the call in progress
  op,             \* the arguments of a call
  caller, answer, \* the calling goroutine, and what it returned
  worker, result, \* the goroutine it started, and its data and err variables
  live,           \* whether the call's context has not ended
  applied         \* history: the operation has read or changed the named file

vars == <<files, temp, op, caller, answer, worker, result, live, applied>>

TypeOK ==
  /\ files \in [Name -> Value \union {Absent}]
  /\ temp \in [Req -> Value \union {Absent, Partial}]
  /\ op \in [Req -> Operation \union {None}]
  /\ caller \in [Req -> Caller]
  /\ answer \in [Req -> Value \union {Absent, Failed, Canceled, None}]
  /\ worker \in [Req -> Worker]
  /\ result \in [Req -> Value \union {Absent, Failed}]
  /\ live \in [Req -> BOOLEAN]
  /\ applied \in [Req -> BOOLEAN]

Init ==
  /\ files \in [Name -> Value \union {Absent}]
  /\ temp = [r \in Req |-> Absent]
  /\ op = [r \in Req |-> None]
  /\ caller = [r \in Req |-> "idle"]
  /\ answer = [r \in Req |-> None]
  /\ worker = [r \in Req |-> "idle"]
  /\ result = [r \in Req |-> Absent]
  /\ live = [r \in Req |-> FALSE]
  /\ applied = [r \in Req |-> FALSE]

---------------------------------------------------------------------------
(* The caller.                                                             *)

\* A get or a delete starts its goroutine, a put makes the directory first.
Begin(r, o) ==
  /\ caller[r] = "idle"
  /\ op' = [op EXCEPT ![r] = o]
  /\ caller' = [caller EXCEPT ![r] = IF o.kind = "put" THEN "mkdir" ELSE "waiting"]
  /\ worker' = [worker EXCEPT ![r] = IF o.kind = "put" THEN "mkdir" ELSE "start"]
  /\ live' = [live EXCEPT ![r] = TRUE]
  /\ UNCHANGED <<files, temp, answer, result, applied>>

\* os.MkdirAll: without a directory there is no goroutine, only an error.
MakeDirectory(r) ==
  /\ caller[r] = "mkdir"
  /\ \/ /\ caller' = [caller EXCEPT ![r] = "waiting"]
        /\ worker' = [worker EXCEPT ![r] = "start"]
        /\ UNCHANGED result
     \/ /\ IOMayFail
        /\ caller' = [caller EXCEPT ![r] = "failed"]
        /\ worker' = [worker EXCEPT ![r] = "done"]
        /\ result' = [result EXCEPT ![r] = Failed]
  /\ UNCHANGED <<files, temp, op, answer, live, applied>>

\* Mutant: the caller waits for its goroutine only.
AnswerCanceled_Waits(r) ==
  /\ caller[r] = "waiting"
  /\ ~live[r]
  /\ worker[r] = "done"
  /\ caller' = [caller EXCEPT ![r] = "answered"]
  /\ answer' = [answer EXCEPT ![r] = Canceled]
  /\ UNCHANGED <<files, temp, op, worker, result, live, applied>>

\* select: the context has ended.
AnswerCanceled(r) ==
  /\ caller[r] = "waiting"
  /\ ~live[r]
  /\ caller' = [caller EXCEPT ![r] = "answered"]
  /\ answer' = [answer EXCEPT ![r] = Canceled]
  /\ UNCHANGED <<files, temp, op, worker, result, live, applied>>

\* select: the goroutine has closed done.  When both have happened the select
\* takes either case.  A put without a directory has not got that far.
AnswerResult(r) ==
  /\ caller[r] \in {"waiting", "failed"}
  /\ worker[r] = "done"
  /\ caller' = [caller EXCEPT ![r] = "answered"]
  /\ answer' = [answer EXCEPT ![r] = result[r]]
  /\ UNCHANGED <<files, temp, op, worker, result, live, applied>>

\* The context ends: its deadline passes, or whoever made it cancels it.  Some
\* contexts never end.
EndContext(r) ==
  /\ caller[r] # "idle"
  /\ live[r]
  /\ live' = [live EXCEPT ![r] = FALSE]
  /\ UNCHANGED <<files, temp, op, caller, answer, worker, result, applied>>

\* Caller and goroutine are gone, and the slot may be used for another call.  A
\* temporary file that was left behind keeps its own name for ever.
Release(r) ==
  /\ caller[r] = "answered"
  /\ worker[r] = "done"
  /\ caller' = [caller EXCEPT ![r] = "idle"]
  /\ answer' = [answer EXCEPT ![r] = None]
  /\ worker' = [worker EXCEPT ![r] = "idle"]
  /\ temp' = [temp EXCEPT ![r] = Absent]
  /\ result' = [result EXCEPT ![r] = Absent]
  /\ applied' = [applied EXCEPT ![r] = FALSE]
  /\ op' = [op EXCEPT ![r] = None]
  /\ live' = [live EXCEPT ![r] = FALSE]
  /\ UNCHANGED files

---------------------------------------------------------------------------
(* The goroutine.                                                          *)

Fails(r, left) ==
  /\ IOMayFail
  /\ worker' = [worker EXCEPT ![r] = "finish"]
  /\ result' = [result EXCEPT ![r] = Failed]
  /\ temp' = [temp EXCEPT ![r] = left]
  /\ UNCHANGED <<files, op, caller, answer, live, applied>>

ReadFile(r) ==
  /\ worker[r] = "start" /\ op[r].kind = "get"
  /\ \/ /\ result' = [result EXCEPT ![r] = files[op[r].name]]
        /\ applied' = [applied EXCEPT ![r] = TRUE]
        /\ worker' = [worker EXCEPT ![r] = "finish"]
        /\ UNCHANGED <<files, temp, op, caller, answer, live>>
     \/ Fails(r, temp[r])

\* os.Remove, whatever the context says; to remove an absent file is no error.
RemoveFile(r) ==
  /\ worker[r] = "start" /\ op[r].kind = "delete"
  /\ \/ /\ files' = [files EXCEPT ![op[r].name] = Absent]
        /\ applied' = [applied EXCEPT ![r] = TRUE]
        /\ worker' = [worker EXCEPT ![r] = "finish"]
        /\ UNCHANGED <<temp, op, caller, answer, result, live>>
     \/ Fails(r, temp[r])

\* Mutant: an error of writeTempFile is overlooked.
WriteTempFile_Unchecked(r) ==
  /\ worker[r] = "start" /\ op[r].kind = "put"
  /\ worker' = [worker EXCEPT ![r] = "written"]
  /\ \/ temp' = [temp EXCEPT ![r] = op[r].value]
     \/ IOMayFail /\ temp' = [temp EXCEPT ![r] = Partial]
  /\ UNCHANGED <<files, op, caller, answer, result, live, applied>>

\* Mutant: the value is written into the named file itself.
WriteTempFile_InPlace(r) ==
  /\ worker[r] = "start" /\ op[r].kind = "put"
  /\ files' = [files EXCEPT ![op[r].name] = Partial]
  /\ temp' = [temp EXCEPT ![r] = op[r].value]
  /\ worker' = [worker EXCEPT ![r] = "written"]
  /\ UNCHANGED <<op, caller, answer, result, live, applied>>

\* writeTempFile.  After an error DirCache removes what it has written, if the
\* disk lets it; FileDatabase does not try.
WriteTempFile(r) ==
  /\ worker[r] = "start" /\ op[r].kind = "put"
  /\ \/ /\ temp' = [temp EXCEPT ![r] = op[r].value]
        /\ worker' = [worker EXCEPT ![r] = "written"]
        /\ UNCHANGED <<files, op, caller, answer, result, live, applied>>
     \/ Fails(r, Absent)
     \/ Fails(r, Partial)

\* Does the context still allow the file to be overwritten?
CheckContext(r) ==
  /\ worker[r] = "written"
  /\ worker' = [worker EXCEPT ![r] = IF live[r] THEN "rename" ELSE "finish"]
  /\ UNCHANGED <<files, temp, op, caller, answer, result, live, applied>>

\* os.Rename.
RenameFile(r) ==
  /\ worker[r] = "rename"
  /\ \/ /\ files' = [files EXCEPT ![op[r].name] = temp[r]]
        /\ temp' = [temp EXCEPT ![r] = Absent]
        /\ applied' = [applied EXCEPT ![r] = TRUE]
        /\ worker' = [worker EXCEPT ![r] = "finish"]
        /\ UNCHANGED <<op, caller, answer, result, live>>
     \/ Fails(r, temp[r])

\* DirCache.Put removes its temporary file in the end and FileDatabase does not;
\* nobody looks at the error of os.Remove.
RemovesTemp(r) == op[r].name \in DirCacheName

\* The deferred calls, of which closing done is the last.
Finish(r) ==
  /\ worker[r] = "finish"
  /\ worker' = [worker EXCEPT ![r] = "done"]
  /\ \/ RemovesTemp(r) /\ temp' = [temp EXCEPT ![r] = Absent]
     \/ (~RemovesTemp(r) \/ IOMayFail) /\ UNCHANGED temp
  /\ UNCHANGED <<files, op, caller, answer, result, live, applied>>

\* The process ends.  What is on the disk stays there: the named files, and the
\* temporary files, each under a name of its own that no later call reads, so
\* that the slot, which another call will use, forgets them.
Crash ==
  /\ temp' = [r \in Req |-> Absent]
  /\ caller' = [r \in Req |-> "idle"]
  /\ answer' = [r \in Req |-> None]
  /\ worker' = [r \in Req |-> "idle"]
  /\ result' = [r \in Req |-> Absent]
  /\ applied' = [r \in Req |-> FALSE]
  /\ op' = [r \in Req |-> None]
  /\ live' = [r \in Req |-> FALSE]
  /\ UNCHANGED files

CallerStep(r) == AnswerCanceled(r) \/ AnswerResult(r)
WorkerStep(r) ==
  \/ ReadFile(r) \/ RemoveFile(r) \/ WriteTempFile(r) \/ CheckContext(r)
  \/ RenameFile(r) \/ Finish(r)

Next ==
  \/ \E r \in Req : \/ \E o \in Operation : Begin(r, o)
                    \/ MakeDirectory(r) \/ CallerStep(r) \/ EndContext(r) \/ Release(r)
                    \/ WorkerStep(r)
  \/ Crash

Spec == Init /\ [][Next]_vars

\* Callers run; a file operation may hang for ever.
Fairness == \A r \in Req : WF_vars(CallerStep(r))
FairSpec == Spec /\ Fairness

---------------------------------------------------------------------------
(* What it promises.                                                       *)

\* The implementation of Store: a call whose goroutine has ended without touching
\* the named file has dropped its operation.
StatusOf(r) ==
  CASE worker[r] = "idle" -> "idle"
    [] applied[r] -> "applied"
    [] worker[r] \in {"mkdir", "start", "written", "rename"} -> "pending"
    [] OTHER -> "dropped"

Abstract == INSTANCE Store WITH
  data <- files,
  status <- [r \in Req |-> StatusOf(r)],
  seen <- [r \in Req |-> IF applied[r] THEN result[r] ELSE Absent]

\* Every name is an atomic register that no reader sees half written, an operation
\* takes effect at most once, and an answered get has seen what was stored at
\* some moment of the call.
ImplementsStore == Abstract!StoreSpec

\* Whatever the disk does to its goroutine, a call whose context has ended is
\* answered (os.MkdirAll is outside the select: there a put may hang).
CallerReturns ==
  \A r \in Req : (caller[r] = "waiting" /\ ~live[r]) ~> caller[r] # "waiting"

\* Inductive strengthening: what each goroutine's place says about its variables.
PlaceOf(r) ==
  /\ caller[r] = "idle" <=> worker[r] = "idle"
  /\ caller[r] = "answered" <=> answer[r] # None
  /\ op[r] = None <=> worker[r] = "idle"
  /\ caller[r] = "mkdir" <=> worker[r] = "mkdir"
  /\ caller[r] = "failed" => worker[r] = "done"
  /\ worker[r] \in {"idle", "mkdir"} => temp[r] = Absent
  /\ worker[r] \in {"written", "rename"} =>
       op[r].kind = "put" /\ temp[r] = op[r].value
  /\ applied[r] => worker[r] \in {"finish", "done"} /\ result[r] # Failed
  /\ result[r] # Absent => worker[r] \in {"finish", "done"}
  /\ ~applied[r] => result[r] \in {Absent, Failed}
  /\ (worker[r] \in {"finish", "done"} /\ ~applied[r] /\ result[r] # Failed)
       => op[r].kind = "put"
  /\ (applied[r] /\ op[r].kind # "get") => result[r] = Absent

Places == \A r \in Req : PlaceOf(r)

---------------------------------------------------------------------------
(* What the documentation says, and the code does not keep.                *)

\* Cache.Put "stores the data in the cache under the specified key": a put that
\* returned no error has written its file.
AckedIsWritten ==
  \A r \in Req : (answer[r] = Absent /\ op[r].kind = "put") => applied[r]
=============================================================================
