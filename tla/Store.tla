------------------------------- MODULE Store -------------------------------
(***************************************************************************)
(* What the Database and Cache interfaces of alley-oop promise their       *)
(* callers: every name is an atomic register, and an operation takes       *)
(* effect at most once, at some moment after it was called.  An operation  *)
(* that is answered with an error may still take effect later, and one     *)
(* that is answered before it took effect is answered with an error or,    *)
(* for a put or delete that never takes effect, with nothing at all.       *)
(* MemoryDatabase is this store with the effect under its lock.            *)
(***************************************************************************)
EXTENDS Naturals

CONSTANTS
  Req,            \* calls that may be in progress
  Name,           \* names of the files or map entries
  Value,          \* contents
  Absent,         \* nil: no content, and no error
  Failed,         \* an input/output error
  Canceled,       \* ctx.Err()
  None            \* no operation, no answer

Operation == [kind : {"get", "delete"}, name : Name, value : {Absent}]
               \union [kind : {"put"}, name : Name, value : Value]
Status == {"idle", "pending", "applied", "dropped"}

VARIABLES
  data,           \* what is stored under each name
  op,             \* the operation of each call
  status,         \* how far the operation is
  seen,           \* the content a get has seen
  answer          \* what the caller has been told

storeVars == <<data, op, status, seen, answer>>

StoreInit ==
  /\ data \in [Name -> Value \union {Absent}]
  /\ op = [r \in Req |-> None]
  /\ status = [r \in Req |-> "idle"]
  /\ seen = [r \in Req |-> Absent]
  /\ answer = [r \in Req |-> None]

\* What an operation leaves under its name.
Effect(o, old) == IF o.kind = "get" THEN old ELSE o.value

Invoke(r, o) ==
  /\ status[r] = "idle"
  /\ op' = [op EXCEPT ![r] = o]
  /\ status' = [status EXCEPT ![r] = "pending"]
  /\ UNCHANGED <<data, seen, answer>>

Apply(r) ==
  /\ status[r] = "pending"
  /\ data' = [data EXCEPT ![op[r].name] = Effect(op[r], @)]
  /\ seen' = [seen EXCEPT ![r] = IF op[r].kind = "get" THEN data[op[r].name]
                                                       ELSE Absent]
  /\ status' = [status EXCEPT ![r] = "applied"]
  /\ UNCHANGED <<op, answer>>

Drop(r) ==
  /\ status[r] = "pending"
  /\ status' = [status EXCEPT ![r] = "dropped"]
  /\ UNCHANGED <<data, op, seen, answer>>

\* The answers a call may get: an error at any time, the content it has seen,
\* or no error from a write that was given up.
Answers(r) ==
  {Failed, Canceled}
  \union (IF status[r] = "applied" THEN {seen[r]} ELSE {})
  \union (IF status[r] = "dropped" /\ op[r].kind # "get" THEN {Absent} ELSE {})

Answer(r) ==
  /\ status[r] # "idle"
  /\ answer[r] = None
  /\ \E a \in Answers(r) : answer' = [answer EXCEPT ![r] = a]
  /\ UNCHANGED <<data, op, status, seen>>

Release(r) ==
  /\ status[r] \in {"applied", "dropped"}
  /\ answer[r] # None
  /\ status' = [status EXCEPT ![r] = "idle"]
  /\ seen' = [seen EXCEPT ![r] = Absent]
  /\ answer' = [answer EXCEPT ![r] = None]
  /\ op' = [op EXCEPT ![r] = None]
  /\ UNCHANGED data

\* A crash forgets the calls and keeps the contents.
StoreCrash ==
  /\ status' = [r \in Req |-> "idle"]
  /\ seen' = [r \in Req |-> Absent]
  /\ answer' = [r \in Req |-> None]
  /\ op' = [r \in Req |-> None]
  /\ UNCHANGED data

StoreNext ==
  \/ \E r \in Req : \/ \E o \in Operation : Invoke(r, o)
                    \/ Apply(r) \/ Drop(r) \/ Answer(r) \/ Release(r)
  \/ StoreCrash

StoreSpec == StoreInit /\ [][StoreNext]_storeVars
=============================================================================
