------------------------------ MODULE Executor ------------------------------
(***************************************************************************)
(* The extraction executor (handlers/executor.go): a counting semaphore    *)
(* per class of job, on one mutex and one condition variable, whose        *)
(* waiters give up when their context ends.                                *)
(*                                                                         *)
(* A step of a job is what it does without giving up the mutex, except     *)
(* that the check of the context and the wait are two steps under one      *)
(* hold of the mutex: the context may end in between.  sync.Cond.Wait      *)
(* enters the wait list before it unlocks, and a broadcast empties it.     *)
(* The server sets a positive limit for every class; the case without one, *)
(* which takes no slot, does not arise.                                    *)
(***************************************************************************)
EXTENDS Integers, FiniteSets

CONSTANTS
  Job,        \* callers of Acquire
  Class,      \* extClass
  limits,     \* extExecutor.limits
  NoJob

ASSUME ExecutorAssumption ==
  /\ IsFiniteSet(Job) /\ Class # {}
  /\ limits \in [Class -> Nat \ {0}]
  /\ NoJob \notin Job

VARIABLES
  inflight,   \* extExecutor.inflight
  mu,         \* who holds extExecutor.mu between two steps
  job,        \* job -> where it is, and its class
  ended,      \* jobs whose context is done
  wakers      \* the AfterFunc goroutines that have started and not yet broadcast

execVars == <<inflight, mu, job, ended, wakers>>

\* A job that is not at the executor; its class means nothing.
Out == [pc |-> "out", cls |-> CHOOSE c \in Class : TRUE]

States == {"out", "lock", "check", "park", "wait", "relock", "slot", "failed"}

ExecTypeOK ==
  /\ inflight \in [Class -> Int]
  /\ mu \in Job \cup {NoJob}
  /\ job \in [Job -> [pc : States, cls : Class]]
  /\ ended \in SUBSET Job
  /\ wakers \in SUBSET Job

ExecInit ==
  /\ inflight = [c \in Class |-> 0]
  /\ mu = NoJob
  /\ job = [j \in Job |-> Out]
  /\ ended = {}
  /\ wakers = {}

Goto(j, pc)  == job' = [job EXCEPT ![j].pc = pc]
Full(c)      == inflight[c] >= limits[c]

\* Everybody on the wait list goes for the mutex again.
Broadcast(jobs) == [j \in Job |-> IF jobs[j].pc = "wait" THEN [jobs[j] EXCEPT !.pc = "relock"]
                                                         ELSE jobs[j]]

\* The AfterFunc goroutine is there once it is registered and the context is done.
Registered == {"check", "park", "wait", "relock"}

\* The job asks for a slot of its class.
Call(j, c) ==
  /\ job[j].pc = "out"
  /\ job' = [job EXCEPT ![j] = [pc |-> "lock", cls |-> c]]
  /\ UNCHANGED <<inflight, mu, ended, wakers>>

\* Mutex taken, AfterFunc registered: it starts at once if the context has already ended.
Lock(j) ==
  /\ job[j].pc \in {"lock", "relock"}
  /\ mu = NoJob
  /\ mu' = j
  /\ Goto(j, "check")
  /\ wakers' = IF j \in ended /\ job[j].pc = "lock" THEN wakers \cup {j} ELSE wakers
  /\ UNCHANGED <<inflight, ended>>

\* Mutant: one job too many.
CheckOffByOne(j) ==
  LET c == job[j].cls IN
  /\ job[j].pc = "check"
  /\ mu' = NoJob
  /\ \/ /\ inflight[c] <= limits[c]
        /\ inflight' = [inflight EXCEPT ![c] = @ + 1]
        /\ Goto(j, "slot")
     \/ /\ inflight[c] > limits[c]
        /\ Goto(j, "wait")
        /\ UNCHANGED inflight
  /\ UNCHANGED <<ended, wakers>>

\* The head of the loop: a slot, the context's error, or the wait.
Check(j) ==
  LET c == job[j].cls IN
  /\ job[j].pc = "check"
  /\ \/ /\ ~Full(c)
        /\ inflight' = [inflight EXCEPT ![c] = @ + 1]
        /\ mu' = NoJob
        /\ Goto(j, "slot")
     \/ /\ Full(c) /\ j \in ended
        /\ mu' = NoJob
        /\ Goto(j, "failed")
        /\ UNCHANGED inflight
     \/ /\ Full(c) /\ j \notin ended
        /\ Goto(j, "park")
        /\ UNCHANGED <<inflight, mu>>
  /\ UNCHANGED <<ended, wakers>>

\* cond.Wait: on the wait list, then the mutex is given up.
Park(j) ==
  /\ job[j].pc = "park"
  /\ mu' = NoJob
  /\ Goto(j, "wait")
  /\ UNCHANGED <<inflight, ended, wakers>>

\* The caller's context ends: the client left or the deadline passed.
Expire(j) ==
  /\ job[j].pc \notin {"out", "failed"} /\ j \notin ended
  /\ ended' = ended \cup {j}
  /\ wakers' = IF job[j].pc \in Registered THEN wakers \cup {j} ELSE wakers
  /\ UNCHANGED <<inflight, mu, job>>

\* Mutant: the goroutine broadcasts without the mutex.
WakeUnlocked(j) ==
  /\ j \in wakers
  /\ wakers' = wakers \ {j}
  /\ job' = Broadcast(job)
  /\ UNCHANGED <<inflight, mu, ended>>

\* The AfterFunc goroutine.
Wake(j) ==
  /\ j \in wakers
  /\ mu = NoJob
  /\ wakers' = wakers \ {j}
  /\ job' = Broadcast(job)
  /\ UNCHANGED <<inflight, mu, ended>>

\* The release function, called once.
Release(j) ==
  /\ job[j].pc = "slot"
  /\ mu = NoJob
  /\ inflight' = [inflight EXCEPT ![job[j].cls] = @ - 1]
  /\ job' = Broadcast([job EXCEPT ![j] = Out])
  /\ ended' = ended \ {j}
  /\ UNCHANGED <<mu, wakers>>

\* The caller has seen the error.
Return(j) ==
  /\ job[j].pc = "failed"
  /\ job' = [job EXCEPT ![j] = Out]
  /\ ended' = ended \ {j}
  /\ UNCHANGED <<inflight, mu, wakers>>

\* The steps of the executor itself, which the callers do not decide.
Internal(j) == Lock(j) \/ Check(j) \/ Park(j) \/ Wake(j)

ExecNext ==
  \E j \in Job :
    \/ \E c \in Class : Call(j, c)
    \/ Internal(j)
    \/ Expire(j)
    \/ Release(j)
    \/ Return(j)

ExecSpec == ExecInit /\ [][ExecNext]_execVars

-----------------------------------------------------------------------------
(* Properties *)

Inside(c) == {j \in Job : job[j].pc = "slot" /\ job[j].cls = c}
Asking(c) == {j \in Job : job[j].pc \in {"lock", "check", "park", "wait", "relock"} /\ job[j].cls = c}

Slots == INSTANCE Semaphore WITH Gate <- Class, User <- Job, Limit <- limits,
                                 asking <- [c \in Class |-> Asking(c)],
                                 inside <- [c \in Class |-> Inside(c)]

\* Every class is a semaphore: never more jobs of a class than its limit, whatever cancellations
\* and releases come in between (Acquire, "admits extraction jobs up to a per-class limit").
ClassesAreSemaphores == Slots!Spec

\* No wakeup is lost: a job on the wait list waits for something. Its class is full, and if its
\* context has ended the goroutine that wakes it is still to run (Acquire's AfterFunc and Broadcast).
WaitersHaveReason ==
  \A j \in Job : job[j].pc = "wait" => /\ Full(job[j].cls)
                                       /\ j \in ended => j \in wakers
=============================================================================
