------------------------ MODULE FileDatabaseProofs ------------------------
(* Proofs about FileDatabase, for any numbers of calls, names and values.  *)
EXTENDS FileDatabase, TLAPS

\* Initially no call is in progress.
LEMMA InitOK == Init => TypeOK /\ Places
BY DistinctResults DEF Init, TypeOK, Places, PlaceOf, Caller, Worker

\* Every step preserves the types.
LEMMA TypeStep ==
  ASSUME TypeOK, Places, [Next]_vars
  PROVE  TypeOK'
<1> USE DEF TypeOK
<1>1. ASSUME NEW r \in Req, NEW o \in Operation, Begin(r, o)
      PROVE  TypeOK'
  BY <1>1 DEF Begin, Caller, Worker
<1>2. ASSUME NEW r \in Req, CallerStep(r) \/ MakeDirectory(r)
      PROVE  TypeOK'
  BY <1>2 DEF CallerStep, AnswerCanceled, AnswerResult, MakeDirectory, Caller, Worker
<1>3. ASSUME NEW r \in Req, EndContext(r)
      PROVE  TypeOK'
  BY <1>3 DEF EndContext
<1>4. ASSUME NEW r \in Req, Release(r)
      PROVE  TypeOK'
  BY <1>4 DEF Release, Caller, Worker
<1>5. ASSUME NEW r \in Req, NEW left \in Value \union {Absent, Partial},
             Fails(r, left)
      PROVE  TypeOK'
  BY <1>5 DEF Fails, Worker
<1>6. ASSUME NEW r \in Req, worker[r] # "idle"
      PROVE  op[r] \in Operation
  BY <1>6 DEF Places, PlaceOf
<1>7. ASSUME NEW r \in Req, ReadFile(r)
      PROVE  TypeOK'
  <2>1. files[op[r].name] \in Value \union {Absent}
    BY <1>6, <1>7 DEF ReadFile, Operation
  <2>2. CASE Fails(r, temp[r])
    BY <1>5, <2>2
  <2>3. CASE ~Fails(r, temp[r])
    BY <1>7, <2>1, <2>3 DEF ReadFile, Worker
  <2> QED BY <2>2, <2>3
<1>8. ASSUME NEW r \in Req, RemoveFile(r)
      PROVE  TypeOK'
  BY <1>5, <1>6, <1>8 DEF RemoveFile, Worker, Operation
<1>9. ASSUME NEW r \in Req, WriteTempFile(r)
      PROVE  TypeOK'
  BY <1>5, <1>6, <1>9 DEF WriteTempFile, Worker, Operation
<1>10. ASSUME NEW r \in Req, CheckContext(r)
       PROVE  TypeOK'
  BY <1>10 DEF CheckContext, Worker
<1>11. ASSUME NEW r \in Req, RenameFile(r)
       PROVE  TypeOK'
  <2>1. temp[r] \in Value /\ op[r].name \in Name
    BY <1>6, <1>11 DEF RenameFile, Places, PlaceOf, Operation
  <2> QED BY <1>5, <1>11, <2>1 DEF RenameFile, Worker
<1>12. ASSUME NEW r \in Req, Finish(r)
       PROVE  TypeOK'
  BY <1>12 DEF Finish, Worker
<1>13. ASSUME Crash
       PROVE  TypeOK'
  BY <1>13 DEF Crash, Caller, Worker
<1>14. ASSUME UNCHANGED vars
       PROVE  TypeOK'
  BY <1>14 DEF vars
<1> QED BY <1>1, <1>2, <1>3, <1>4, <1>7, <1>8, <1>9, <1>10, <1>11, <1>12, <1>13,
           <1>14 DEF Next, WorkerStep

\* A step of one call leaves the places of the others alone.
LEMMA OthersKeepPlace ==
  ASSUME TypeOK, Places, NEW r \in Req, NEW q \in Req \ {r},
         \/ \E o \in Operation : Begin(r, o)
         \/ MakeDirectory(r) \/ CallerStep(r) \/ EndContext(r) \/ Release(r) \/ WorkerStep(r)
  PROVE  PlaceOf(q)'
<1>1. /\ op'[q] = op[q] /\ caller'[q] = caller[q] /\ answer'[q] = answer[q]
      /\ worker'[q] = worker[q] /\ result'[q] = result[q]
      /\ applied'[q] = applied[q] /\ temp'[q] = temp[q]
  <2>1. CASE \/ \E o \in Operation : Begin(r, o)
             \/ MakeDirectory(r) \/ CallerStep(r) \/ EndContext(r) \/ Release(r)
    BY <2>1 DEF TypeOK, Begin, MakeDirectory, CallerStep, AnswerCanceled, AnswerResult,
                EndContext, Release
  <2>2. CASE WorkerStep(r)
    BY <2>2 DEF TypeOK, WorkerStep, ReadFile, RemoveFile, WriteTempFile,
                CheckContext, RenameFile, Finish, Fails
  <2> QED BY <2>1, <2>2
<1> QED BY <1>1 DEF Places, PlaceOf

\* Every step preserves the places of calls and goroutines.
LEMMA PlacesStep ==
  ASSUME TypeOK, Places, [Next]_vars
  PROVE  Places'
<1>1. ASSUME NEW r \in Req, NEW o \in Operation, Begin(r, o)
      PROVE  PlaceOf(r)'
  BY <1>1, DistinctResults DEF Begin, TypeOK, Places, PlaceOf
<1>2. ASSUME NEW r \in Req, CallerStep(r) \/ MakeDirectory(r)
      PROVE  PlaceOf(r)'
  BY <1>2, DistinctResults
     DEF CallerStep, AnswerCanceled, AnswerResult, MakeDirectory, TypeOK, Places, PlaceOf
<1>3. ASSUME NEW r \in Req, EndContext(r)
      PROVE  PlaceOf(r)'
  BY <1>3 DEF EndContext, TypeOK, Places, PlaceOf
<1>4. ASSUME NEW r \in Req, Release(r)
      PROVE  PlaceOf(r)'
  BY <1>4, DistinctResults DEF Release, TypeOK, Places, PlaceOf
<1>5. ASSUME NEW r \in Req, NEW left, Fails(r, left),
             worker[r] \in {"start", "written", "rename"}
      PROVE  PlaceOf(r)'
  BY <1>5, DistinctResults DEF Fails, TypeOK, Places, PlaceOf
<1>6. ASSUME NEW r \in Req, WorkerStep(r)
      PROVE  PlaceOf(r)'
  <2>1. CASE ReadFile(r)
    BY <1>5, <2>1, DistinctResults DEF ReadFile, TypeOK, Places, PlaceOf, Operation
  <2>2. CASE RemoveFile(r)
    BY <1>5, <2>2, DistinctResults DEF RemoveFile, TypeOK, Places, PlaceOf
  <2>3. CASE WriteTempFile(r)
    BY <1>5, <2>3, DistinctResults DEF WriteTempFile, TypeOK, Places, PlaceOf
  <2>4. CASE CheckContext(r)
    BY <2>4 DEF CheckContext, TypeOK, Places, PlaceOf
  <2>5. CASE RenameFile(r)
    BY <1>5, <2>5, DistinctResults DEF RenameFile, TypeOK, Places, PlaceOf
  <2>6. CASE Finish(r)
    BY <2>6 DEF Finish, TypeOK, Places, PlaceOf
  <2> QED BY <1>6, <2>1, <2>2, <2>3, <2>4, <2>5, <2>6 DEF WorkerStep
<1>7. CASE Crash
  BY <1>7, DistinctResults DEF Crash, Places, PlaceOf
<1>8. CASE UNCHANGED vars
  BY <1>8 DEF vars, Places, PlaceOf
<1>9. ASSUME NEW r \in Req,
             \/ \E o \in Operation : Begin(r, o)
             \/ MakeDirectory(r) \/ CallerStep(r) \/ EndContext(r) \/ Release(r) \/ WorkerStep(r)
      PROVE  Places'
  <2>1. \A q \in Req \ {r} : PlaceOf(q)'
    BY <1>9, OthersKeepPlace
  <2> QED BY <1>1, <1>2, <1>3, <1>4, <1>6, <1>9, <2>1 DEF Places
<1> QED BY <1>7, <1>8, <1>9 DEF Next

\* Types, and what the place of a goroutine says about its variables.
THEOREM PlacesCorrect == Spec => [](TypeOK /\ Places)
<1>1. TypeOK /\ Places /\ [Next]_vars => (TypeOK /\ Places)'
  BY TypeStep, PlacesStep
<1> QED BY InitOK, <1>1, PTL DEF Spec

---------------------------------------------------------------------------
(* Refinement.                                                             *)

\* The abstract state of one call, and of all of them.
SeenOf(r) == IF applied[r] THEN result[r] ELSE Absent
status == [r \in Req |-> StatusOf(r)]
seen == [r \in Req |-> SeenOf(r)]

\* A step of one goroutine changes the abstract state of its call only.
LEMMA AbstractFrame ==
  ASSUME NEW r \in Req,
         \A q \in Req \ {r} : /\ worker'[q] = worker[q] /\ applied'[q] = applied[q]
                              /\ result'[q] = result[q]
  PROVE  /\ status' = [status EXCEPT ![r] = StatusOf(r)']
         /\ seen' = [seen EXCEPT ![r] = SeenOf(r)']
<1>1. \A q \in Req \ {r} : StatusOf(q)' = StatusOf(q) /\ SeenOf(q)' = SeenOf(q)
  BY DEF StatusOf, SeenOf
<1>2. status'[r] = StatusOf(r)' /\ seen'[r] = SeenOf(r)'
  BY DEF status, seen
<1> QED BY <1>1, <1>2 DEF status, seen

\* An initial state is one of the abstract store.
LEMMA RefineInit == Init => Abstract!StoreInit
BY DEF Init, Abstract!StoreInit, StatusOf

\* A failed file operation drops the call's operation.
LEMMA RefineFails ==
  ASSUME TypeOK, Places, NEW r \in Req, NEW left, Fails(r, left),
         worker[r] \in {"start", "written", "rename"}
  PROVE  Abstract!Drop(r)
<1>1. ~applied[r] /\ StatusOf(r) = "pending"
  BY DEF Places, PlaceOf, StatusOf
<1>2. StatusOf(r)' = "dropped" /\ SeenOf(r)' = SeenOf(r)
  BY <1>1 DEF Fails, TypeOK, StatusOf, SeenOf
<1>3. /\ status' = [status EXCEPT ![r] = "dropped"]
      /\ seen' = [seen EXCEPT ![r] = SeenOf(r)]
  BY <1>2, AbstractFrame DEF Fails, TypeOK
<1>4. seen' = seen
  BY <1>3 DEF seen
<1> QED BY <1>1, <1>3, <1>4 DEF Abstract!Drop, Fails, status, seen, SeenOf

\* A file operation on the named file is the effect of the call's operation.
LEMMA RefineApply ==
  ASSUME TypeOK, Places, NEW r \in Req,
         worker[r] \in {"start", "rename"},
         applied' = [applied EXCEPT ![r] = TRUE],
         worker' = [worker EXCEPT ![r] = "finish"],
         files' = [files EXCEPT ![op[r].name] = Abstract!Effect(op[r], @)],
         result' = [result EXCEPT ![r] = IF op[r].kind = "get"
                                           THEN files[op[r].name] ELSE Absent],
         UNCHANGED <<op, answer>>
  PROVE  Abstract!Apply(r)
<1>1. StatusOf(r) = "pending"
  BY DEF Places, PlaceOf, StatusOf
<1>2. StatusOf(r)' = "applied" /\ SeenOf(r)' = result'[r]
  BY DEF TypeOK, StatusOf, SeenOf
<1>3. /\ status' = [status EXCEPT ![r] = "applied"]
      /\ seen' = [seen EXCEPT ![r] = result'[r]]
  BY <1>2, AbstractFrame DEF TypeOK
<1>4. result'[r] = IF op[r].kind = "get" THEN files[op[r].name] ELSE Absent
  BY DEF TypeOK
<1> QED BY <1>1, <1>3, <1>4 DEF Abstract!Apply, status, seen, SeenOf

\* A step that changes nothing the abstraction sees.
LEMMA RefineStutter ==
  ASSUME TypeOK, Places, NEW r \in Req,
         UNCHANGED <<files, op, answer, applied, result>>,
         StatusOf(r)' = StatusOf(r),
         \A q \in Req \ {r} : worker'[q] = worker[q]
  PROVE  UNCHANGED Abstract!storeVars
<1>1. SeenOf(r)' = SeenOf(r)
  BY DEF SeenOf
<1>2. status' = [status EXCEPT ![r] = StatusOf(r)] /\ seen' = [seen EXCEPT ![r] = SeenOf(r)]
  BY <1>1, AbstractFrame
<1>3. status' = status /\ seen' = seen
  BY <1>2 DEF status, seen
<1> QED BY <1>3 DEF Abstract!storeVars, status, seen, SeenOf

\* A step of a goroutine applies or drops its operation, or changes nothing.
LEMMA RefineWorker ==
  ASSUME TypeOK, Places, NEW r \in Req, WorkerStep(r)
  PROVE  Abstract!Apply(r) \/ Abstract!Drop(r) \/ UNCHANGED Abstract!storeVars
<1>1. CASE ReadFile(r)
  <2>1. CASE Fails(r, temp[r])
    BY <1>1, <2>1, RefineFails DEF ReadFile
  <2>2. CASE ~Fails(r, temp[r])
    <3>1. files = [files EXCEPT ![op[r].name] = Abstract!Effect(op[r], @)]
      BY <1>1 DEF ReadFile, Abstract!Effect, TypeOK
    <3> QED BY <1>1, <2>2, <3>1, RefineApply DEF ReadFile
  <2> QED BY <2>1, <2>2
<1>2. CASE RemoveFile(r)
  <2>1. CASE Fails(r, temp[r])
    BY <1>2, <2>1, RefineFails DEF RemoveFile
  <2>2. CASE ~Fails(r, temp[r])
    <3>1. op[r] \in Operation
      BY <1>2 DEF RemoveFile, TypeOK, Places, PlaceOf
    <3>2. Abstract!Effect(op[r], files[op[r].name]) = Absent
      BY <1>2, <3>1 DEF RemoveFile, Abstract!Effect, Operation
    <3>3. result = [result EXCEPT ![r] = Absent]
      BY <1>2 DEF RemoveFile, TypeOK, Places, PlaceOf
    <3> QED BY <1>2, <2>2, <3>2, <3>3, RefineApply DEF RemoveFile
  <2> QED BY <2>1, <2>2
<1>3. CASE WriteTempFile(r)
  <2>1. ASSUME NEW left, Fails(r, left)
        PROVE  Abstract!Drop(r)
    BY <1>3, <2>1, RefineFails DEF WriteTempFile
  <2>2. CASE worker' = [worker EXCEPT ![r] = "written"]
             /\ UNCHANGED <<files, op, answer, result, applied>>
    <3>1. StatusOf(r)' = StatusOf(r)
      BY <1>3, <2>2 DEF WriteTempFile, StatusOf, TypeOK
    <3> QED BY <2>2, <3>1, RefineStutter DEF TypeOK
  <2> QED BY <1>3, <2>1, <2>2 DEF WriteTempFile
<1>4. CASE CheckContext(r)
  <2>1. CASE live[r]
    <3>1. StatusOf(r)' = StatusOf(r)
      BY <1>4, <2>1 DEF CheckContext, StatusOf, TypeOK
    <3> QED BY <1>4, <3>1, RefineStutter DEF CheckContext, TypeOK
  <2>2. CASE ~live[r]
    <3>1. ~applied[r] /\ StatusOf(r) = "pending"
      BY <1>4 DEF CheckContext, Places, PlaceOf, StatusOf
    <3>2. StatusOf(r)' = "dropped" /\ SeenOf(r)' = SeenOf(r)
      BY <1>4, <2>2, <3>1 DEF CheckContext, TypeOK, StatusOf, SeenOf
    <3>3. /\ status' = [status EXCEPT ![r] = "dropped"]
          /\ seen' = [seen EXCEPT ![r] = SeenOf(r)]
      BY <1>4, <3>2, AbstractFrame DEF CheckContext, TypeOK
    <3>4. seen' = seen
      BY <3>3 DEF seen
    <3> QED BY <1>4, <3>1, <3>3, <3>4
            DEF CheckContext, Abstract!Drop, status, seen, SeenOf
  <2> QED BY <2>1, <2>2
<1>5. CASE RenameFile(r)
  <2>1. CASE Fails(r, temp[r])
    BY <1>5, <2>1, RefineFails DEF RenameFile
  <2>2. CASE ~Fails(r, temp[r])
    <3>1. op[r].kind = "put" /\ temp[r] = op[r].value
      BY <1>5 DEF RenameFile, Places, PlaceOf
    <3>2. Abstract!Effect(op[r], files[op[r].name]) = temp[r]
      BY <3>1 DEF Abstract!Effect
    <3>3. result = [result EXCEPT ![r] = Absent]
      BY <1>5 DEF RenameFile, TypeOK, Places, PlaceOf
    <3> QED BY <1>5, <2>2, <3>1, <3>2, <3>3, RefineApply DEF RenameFile
  <2> QED BY <2>1, <2>2
<1>6. CASE Finish(r)
  <2>1. StatusOf(r)' = StatusOf(r)
    BY <1>6 DEF Finish, StatusOf, TypeOK
  <2> QED BY <1>6, <2>1, RefineStutter DEF Finish, TypeOK
<1> QED BY <1>1, <1>2, <1>3, <1>4, <1>5, <1>6 DEF WorkerStep

\* A call that returns gives an answer the store may give.
LEMMA RefineCaller ==
  ASSUME TypeOK, Places, NEW r \in Req, CallerStep(r)
  PROVE  Abstract!Answer(r)
<1>1. StatusOf(r) # "idle" /\ answer[r] = None
  BY DEF CallerStep, AnswerCanceled, AnswerResult, Places, PlaceOf, StatusOf
<1>2. UNCHANGED <<files, op, worker, applied, result>>
  BY DEF CallerStep, AnswerCanceled, AnswerResult
<1>3. \E a \in Abstract!Answers(r) : answer' = [answer EXCEPT ![r] = a]
  <2>1. CASE AnswerCanceled(r)
    BY <2>1 DEF AnswerCanceled, Abstract!Answers
  <2>2. CASE AnswerResult(r)
    <3>1. result[r] \in Abstract!Answers(r)
      <4>1. CASE applied[r]
        BY <2>2, <4>1 DEF AnswerResult, Abstract!Answers, StatusOf
      <4>2. CASE ~applied[r]
        BY <2>2, <4>2 DEF AnswerResult, Abstract!Answers, StatusOf, Places, PlaceOf
      <4> QED BY <4>1, <4>2
    <3> QED BY <2>2, <3>1 DEF AnswerResult
  <2> QED BY <2>1, <2>2 DEF CallerStep
<1>4. status' = status /\ seen' = seen
  BY <1>2 DEF status, seen, StatusOf, SeenOf
<1> QED BY <1>1, <1>2, <1>3, <1>4 DEF Abstract!Answer, status, seen, SeenOf

\* Every step is a step of the abstract store or changes nothing there.
LEMMA RefineStep ==
  ASSUME TypeOK, Places, [Next]_vars
  PROVE  [Abstract!StoreNext]_(Abstract!storeVars)
<1>1. ASSUME NEW r \in Req, NEW o \in Operation, Begin(r, o)
      PROVE  Abstract!Invoke(r, o)
  <2>1. StatusOf(r) = "idle" /\ ~applied[r]
    BY <1>1 DEF Begin, Places, PlaceOf, StatusOf
  <2>2. StatusOf(r)' = "pending" /\ SeenOf(r)' = SeenOf(r)
    BY <1>1, <2>1 DEF Begin, TypeOK, StatusOf, SeenOf
  <2>3. /\ status' = [status EXCEPT ![r] = "pending"]
        /\ seen' = [seen EXCEPT ![r] = SeenOf(r)]
    BY <1>1, <2>2, AbstractFrame DEF Begin, TypeOK
  <2>4. seen' = seen
    BY <2>3 DEF seen
  <2> QED BY <1>1, <2>1, <2>3, <2>4 DEF Begin, Abstract!Invoke, status, seen, SeenOf
<1>2. ASSUME NEW r \in Req, EndContext(r)
      PROVE  UNCHANGED Abstract!storeVars
  <2>1. StatusOf(r)' = StatusOf(r)
    BY <1>2 DEF EndContext, StatusOf
  <2> QED BY <1>2, <2>1, RefineStutter DEF EndContext
<1>3. ASSUME NEW r \in Req, Release(r)
      PROVE  Abstract!Release(r)
  <2>1. StatusOf(r) \in {"applied", "dropped"} /\ answer[r] # None
    BY <1>3 DEF Release, Places, PlaceOf, StatusOf
  <2>2. StatusOf(r)' = "idle" /\ SeenOf(r)' = Absent
    BY <1>3 DEF Release, TypeOK, StatusOf, SeenOf
  <2>3. /\ status' = [status EXCEPT ![r] = "idle"]
        /\ seen' = [seen EXCEPT ![r] = Absent]
    BY <1>3, <2>2, AbstractFrame DEF Release, TypeOK
  <2> QED BY <1>3, <2>1, <2>3 DEF Release, Abstract!Release, status, seen, SeenOf
<1>4. ASSUME Crash
      PROVE  Abstract!StoreCrash
  BY <1>4 DEF Crash, Abstract!StoreCrash, StatusOf
<1>5. ASSUME UNCHANGED vars
      PROVE  UNCHANGED Abstract!storeVars
  BY <1>5 DEF vars, Abstract!storeVars, StatusOf
<1>6. ASSUME NEW r \in Req, MakeDirectory(r)
      PROVE  Abstract!Drop(r) \/ UNCHANGED Abstract!storeVars
  <2>1. ~applied[r] /\ StatusOf(r) = "pending"
    BY <1>6 DEF MakeDirectory, Places, PlaceOf, StatusOf
  <2>2. CASE UNCHANGED result
    <3>1. worker'[r] = "start"
      BY <1>6, <2>1, <2>2, DistinctResults DEF MakeDirectory, TypeOK, Places, PlaceOf
    <3>2. StatusOf(r)' = StatusOf(r)
      BY <1>6, <2>1, <3>1 DEF MakeDirectory, StatusOf
    <3> QED BY <1>6, <2>2, <3>2, RefineStutter DEF MakeDirectory, TypeOK
  <2>3. CASE ~UNCHANGED result
    <3>1. StatusOf(r)' = "dropped" /\ SeenOf(r)' = SeenOf(r)
      BY <1>6, <2>1, <2>3 DEF MakeDirectory, TypeOK, StatusOf, SeenOf
    <3>2. /\ status' = [status EXCEPT ![r] = "dropped"]
          /\ seen' = [seen EXCEPT ![r] = SeenOf(r)]
      BY <1>6, <3>1, AbstractFrame DEF MakeDirectory, TypeOK
    <3>3. seen' = seen
      BY <3>2 DEF seen
    <3> QED BY <1>6, <2>1, <3>2, <3>3
            DEF MakeDirectory, Abstract!Drop, status, seen, SeenOf
  <2> QED BY <2>2, <2>3
<1>7. Operation = Abstract!Operation
  BY DEF Operation, Abstract!Operation
<1> QED BY <1>1, <1>2, <1>3, <1>4, <1>5, <1>6, <1>7, RefineWorker, RefineCaller
        DEF Next, Abstract!StoreNext

\* The file operations implement the abstract store, for any number of
\* concurrent calls, with file errors, ended contexts and crashes.
THEOREM FilesImplementStore == Spec => ImplementsStore
<1>1. TypeOK /\ Places /\ [Next]_vars => [Abstract!StoreNext]_(Abstract!storeVars)
  BY RefineStep
<1> QED BY PlacesCorrect, RefineInit, <1>1, PTL
        DEF Spec, ImplementsStore, Abstract!StoreSpec
=============================================================================
