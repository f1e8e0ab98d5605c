-------------------------- MODULE ExtractionProofs --------------------------
(***************************************************************************)
(* Theorems about Executor, for any finite set of jobs, any classes and    *)
(* any positive limits (no wakeup is lost, and every class implements      *)
(* Semaphore), and about Extraction, for any number of requests, tracks,   *)
(* thumbnail positions, slots and drops.                                   *)
(*                                                                         *)
(* The handlers use the executor as it is meant to be used, so that what   *)
(* is shown of it holds of the composed system; and the four invariants of *)
(* the handlers themselves follow from ExtInv, which says who leads a      *)
(* flight, whose context can end, and what a batch that is past its last   *)
(* track has stored.                                                       *)
(***************************************************************************)
EXTENDS Extraction, FiniteSetTheorems, SequenceTheorems, TLAPS

-----------------------------------------------------------------------------
(* The executor: its inductive invariant *)

\* The mutex is held between two steps exactly by the job between its check and its wait.
MutexOK == \A j \in Job : mu = j <=> job[j].pc \in {"check", "park"}

\* The count of a class is the number of jobs that have its slots.
CountOK == \A c \in Class : inflight[c] = Cardinality(Inside(c))

\* What a job about to wait has seen is still so.
ParkOK ==
  \A j \in Job : job[j].pc = "park" => /\ Full(job[j].cls)
                                       /\ j \in ended => j \in wakers

\* The inductive invariant.
ExecInv == ExecTypeOK /\ MutexOK /\ CountOK /\ ParkOK /\ WaitersHaveReason

-----------------------------------------------------------------------------

LEMMA OutType == Out \in [pc : States, cls : Class] /\ Out.pc = "out"
  BY ExecutorAssumption DEF Out, States

LEMMA BroadcastType ==
  ASSUME NEW jobs \in [Job -> [pc : States, cls : Class]]
  PROVE  /\ Broadcast(jobs) \in [Job -> [pc : States, cls : Class]]
         /\ \A j \in Job : /\ Broadcast(jobs)[j].cls = jobs[j].cls
                           /\ jobs[j].pc = "wait" => Broadcast(jobs)[j].pc = "relock"
                           /\ jobs[j].pc # "wait" => Broadcast(jobs)[j].pc = jobs[j].pc
  BY DEF Broadcast, States

LEMMA InsideFinite == \A c \in Class : IsFiniteSet(Inside(c)) /\ Cardinality(Inside(c)) \in Nat
  BY ExecutorAssumption, FS_Subset, FS_CardinalityType DEF Inside

LEMMA InitInv == ExecInit => ExecInv
  <1> SUFFICES ASSUME ExecInit PROVE ExecInv
    OBVIOUS
  <1>1. \A j \in Job : job[j] = Out /\ job[j].pc = "out"
    BY OutType DEF ExecInit
  <1>2. ExecTypeOK
    BY OutType DEF ExecInit, ExecTypeOK
  <1>3. CountOK
    <2>1. \A c \in Class : Inside(c) = {}
      BY <1>1 DEF Inside
    <2> QED
      BY <2>1, FS_EmptySet DEF CountOK, ExecInit
  <1>4. MutexOK /\ ParkOK /\ WaitersHaveReason
    BY <1>1, ExecutorAssumption DEF MutexOK, ParkOK, WaitersHaveReason, ExecInit
  <1> QED
    BY <1>2, <1>3, <1>4 DEF ExecInv

-----------------------------------------------------------------------------
(* Types *)

LEMMA TypeStep == ExecTypeOK /\ [ExecNext]_execVars => ExecTypeOK'
  <1> SUFFICES ASSUME ExecTypeOK, [ExecNext]_execVars PROVE ExecTypeOK'
    OBVIOUS
  <1> USE ExecutorAssumption
  <1>1. ASSUME NEW j \in Job, NEW c \in Class, Call(j, c) PROVE ExecTypeOK'
    BY <1>1 DEF Call, ExecTypeOK, States
  <1>2. ASSUME NEW j \in Job, Lock(j) PROVE ExecTypeOK'
    BY <1>2 DEF Lock, Goto, ExecTypeOK, States
  <1>3. ASSUME NEW j \in Job, Check(j) PROVE ExecTypeOK'
    BY <1>3 DEF Check, Goto, ExecTypeOK, States
  <1>4. ASSUME NEW j \in Job, Park(j) PROVE ExecTypeOK'
    BY <1>4 DEF Park, Goto, ExecTypeOK, States
  <1>5. ASSUME NEW j \in Job, Wake(j) PROVE ExecTypeOK'
    BY <1>5, BroadcastType DEF Wake, ExecTypeOK
  <1>6. ASSUME NEW j \in Job, Expire(j) PROVE ExecTypeOK'
    BY <1>6 DEF Expire, ExecTypeOK
  <1>7. ASSUME NEW j \in Job, Release(j) PROVE ExecTypeOK'
    <2>1. [job EXCEPT ![j] = Out] \in [Job -> [pc : States, cls : Class]]
      BY OutType DEF ExecTypeOK
    <2>2. job' \in [Job -> [pc : States, cls : Class]]
      BY <1>7, <2>1, BroadcastType DEF Release
    <2>3. job[j].cls \in Class /\ inflight \in [Class -> Int]
      BY DEF ExecTypeOK
    <2>4. inflight' \in [Class -> Int]
      BY <1>7, <2>3 DEF Release
    <2>5. mu' = mu /\ wakers' = wakers /\ ended' \in SUBSET Job
      BY <1>7 DEF Release, ExecTypeOK
    <2> QED
      BY <2>2, <2>4, <2>5 DEF ExecTypeOK
  <1>8. ASSUME NEW j \in Job, Return(j) PROVE ExecTypeOK'
    BY <1>8, OutType DEF Return, ExecTypeOK
  <1>9. CASE UNCHANGED execVars
    BY <1>9 DEF execVars, ExecTypeOK
  <1> QED
    BY <1>1, <1>2, <1>3, <1>4, <1>5, <1>6, <1>7, <1>8, <1>9 DEF ExecNext, Internal

-----------------------------------------------------------------------------
(* What each action does to the jobs, once and for all the invariants. *)

AskStates == {"lock", "check", "park", "wait", "relock"}

\* Job j moves to pc and all the others stay.
Moves(j, pc) ==
  /\ job'[j].pc = pc
  /\ \A k \in Job : k # j => job'[k] = job[k]

\* The others stay, but for those the broadcast took off the wait list.
Woken(k) ==
  /\ job'[k].cls = job[k].cls
  /\ job[k].pc = "wait" => job'[k].pc = "relock"
  /\ job[k].pc # "wait" => job'[k].pc = job[k].pc

LEMMA GotoMoves ==
  ASSUME ExecTypeOK, NEW j \in Job, NEW pc, Goto(j, pc)
  PROVE  Moves(j, pc) /\ job'[j].cls = job[j].cls
  BY DEF Goto, Moves, ExecTypeOK

LEMMA CallMoves ==
  ASSUME ExecTypeOK, NEW j \in Job, NEW c \in Class, Call(j, c)
  PROVE  Moves(j, "lock") /\ job'[j].cls = c
  BY DEF Call, Moves, ExecTypeOK

LEMMA ReturnMoves ==
  ASSUME ExecTypeOK, NEW j \in Job, Return(j)
  PROVE  Moves(j, "out")
  BY OutType DEF Return, Moves, ExecTypeOK

LEMMA WakeWakes ==
  ASSUME ExecTypeOK, NEW j \in Job, Wake(j)
  PROVE  \A k \in Job : Woken(k)
  <1>1. job \in [Job -> [pc : States, cls : Class]] /\ job' = Broadcast(job)
    BY DEF Wake, ExecTypeOK
  <1> QED
    BY <1>1, BroadcastType DEF Woken

LEMMA ReleaseWakes ==
  ASSUME ExecTypeOK, NEW j \in Job, Release(j)
  PROVE  job'[j].pc = "out" /\ \A k \in Job : k # j => Woken(k)
  <1> DEFINE left == [job EXCEPT ![j] = Out]
  <1>1. left \in [Job -> [pc : States, cls : Class]]
    BY OutType DEF ExecTypeOK
  <1>2. job' = Broadcast(left)
    BY DEF Release
  <1>3. left[j] = Out /\ \A k \in Job : k # j => left[k] = job[k]
    BY DEF ExecTypeOK
  <1>4. left[j].pc # "wait" /\ left[j].pc = "out"
    BY <1>3, OutType
  <1> HIDE DEF left
  <1>5. job'[j].pc = "out"
    BY <1>1, <1>2, <1>4, BroadcastType
  <1>6. ASSUME NEW k \in Job, k # j PROVE Woken(k)
    BY <1>1, <1>2, <1>3, <1>6, BroadcastType DEF Woken
  <1> QED
    BY <1>5, <1>6

\* An action that changes nobody's standing at its gate.
Standing(k) ==
  /\ job'[k].pc = "slot" <=> job[k].pc = "slot"
  /\ job'[k].pc \in AskStates <=> job[k].pc \in AskStates
  /\ job[k].pc \in AskStates \cup {"slot"} => job'[k].cls = job[k].cls

LEMMA SameSets ==
  ASSUME \A k \in Job : Standing(k)
  PROVE  \A c \in Class : Inside(c)' = Inside(c) /\ Asking(c)' = Asking(c)
  <1> SUFFICES ASSUME NEW c \in Class PROVE Inside(c)' = Inside(c) /\ Asking(c)' = Asking(c)
    OBVIOUS
  <1>1. Inside(c)' = {j \in Job : job'[j].pc = "slot" /\ job'[j].cls = c}
    BY DEF Inside
  <1>2. Asking(c)' = {j \in Job : job'[j].pc \in AskStates /\ job'[j].cls = c}
    BY DEF Asking, AskStates
  <1>3. Inside(c)' = Inside(c)
    BY <1>1 DEF Inside, Standing
  <1>4. Asking(c)' = Asking(c)
    BY <1>2 DEF Asking, Standing, AskStates
  <1> QED
    BY <1>3, <1>4

\* The actions that are internal to the executor, and the answers to them.
LEMMA InternalStands ==
  ASSUME ExecTypeOK, NEW j \in Job,
         \/ Lock(j) \/ Park(j) \/ Wake(j) \/ Expire(j) \/ Return(j)
         \/ Check(j) /\ Full(job[j].cls) /\ j \notin ended
  PROVE  \A k \in Job : Standing(k)
  <1>1. CASE Lock(j)
    <2>1. Moves(j, "check") /\ job'[j].cls = job[j].cls /\ job[j].pc \in {"lock", "relock"}
      BY <1>1, GotoMoves DEF Lock
    <2> QED
      BY <2>1 DEF Moves, Standing, AskStates
  <1>2. CASE Park(j)
    <2>1. Moves(j, "wait") /\ job'[j].cls = job[j].cls /\ job[j].pc = "park"
      BY <1>2, GotoMoves DEF Park
    <2> QED
      BY <2>1 DEF Moves, Standing, AskStates
  <1>3. CASE Wake(j)
    BY <1>3, WakeWakes DEF Woken, Standing, AskStates
  <1>4. CASE Expire(j)
    BY <1>4 DEF Expire, Standing, AskStates
  <1>5. CASE Return(j)
    <2>1. Moves(j, "out") /\ job[j].pc = "failed"
      BY <1>5, ReturnMoves DEF Return
    <2> QED
      BY <2>1 DEF Moves, Standing, AskStates
  <1>6. CASE Check(j) /\ Full(job[j].cls) /\ j \notin ended
    <2>1. Moves(j, "park") /\ job'[j].cls = job[j].cls /\ job[j].pc = "check"
      BY <1>6, GotoMoves DEF Check
    <2> QED
      BY <2>1 DEF Moves, Standing, AskStates
  <1> QED
    BY <1>1, <1>2, <1>3, <1>4, <1>5, <1>6

-----------------------------------------------------------------------------
(* The steps between a gate's sets *)

LEMMA CallAsks ==
  ASSUME ExecTypeOK, NEW j \in Job, NEW c \in Class, Call(j, c)
  PROVE  /\ j \notin Asking(c) \cup Inside(c)
         /\ Asking(c)' = Asking(c) \cup {j}
         /\ \A d \in Class : Inside(d)' = Inside(d)
         /\ \A d \in Class : d # c => Asking(d)' = Asking(d)
  <1>1. Moves(j, "lock") /\ job'[j].cls = c /\ job[j].pc = "out"
    BY CallMoves DEF Call
  <1> QED
    BY <1>1 DEF Moves, Asking, Inside

LEMMA CheckEnters ==
  ASSUME ExecTypeOK, NEW j \in Job, Check(j), ~Full(job[j].cls), NEW c \in Class, job[j].cls = c
  PROVE  /\ j \in Asking(c) /\ j \notin Inside(c)
         /\ Asking(c)' = Asking(c) \ {j}
         /\ Inside(c)' = Inside(c) \cup {j}
         /\ \A d \in Class : d # c => Inside(d)' = Inside(d) /\ Asking(d)' = Asking(d)
  <1>1. Moves(j, "slot") /\ job'[j].cls = c /\ job[j].pc = "check"
    BY GotoMoves DEF Check
  <1> QED
    BY <1>1 DEF Moves, Asking, Inside

LEMMA CheckGivesUp ==
  ASSUME ExecTypeOK, NEW j \in Job, Check(j), Full(job[j].cls), j \in ended,
         NEW c \in Class, job[j].cls = c
  PROVE  /\ j \in Asking(c)
         /\ Asking(c)' = Asking(c) \ {j}
         /\ \A d \in Class : Inside(d)' = Inside(d)
         /\ \A d \in Class : d # c => Asking(d)' = Asking(d)
  <1>1. Moves(j, "failed") /\ job'[j].cls = c /\ job[j].pc = "check"
    BY GotoMoves DEF Check
  <1> QED
    BY <1>1 DEF Moves, Asking, Inside

LEMMA ReleaseLeaves ==
  ASSUME ExecTypeOK, NEW j \in Job, Release(j), NEW c \in Class, job[j].cls = c
  PROVE  /\ j \in Inside(c)
         /\ Inside(c)' = Inside(c) \ {j}
         /\ \A d \in Class : Asking(d)' = Asking(d)
         /\ \A d \in Class : d # c => Inside(d)' = Inside(d)
  <1>1. /\ job[j].pc = "slot" /\ job'[j].pc = "out"
        /\ \A k \in Job : k # j => Woken(k)
    BY ReleaseWakes DEF Release
  <1> QED
    BY <1>1 DEF Woken, Asking, Inside

-----------------------------------------------------------------------------
(* The counts *)

LEMMA CountStep == ExecTypeOK /\ CountOK /\ [ExecNext]_execVars => CountOK'
  <1> SUFFICES ASSUME ExecTypeOK, CountOK, [ExecNext]_execVars, NEW d \in Class
               PROVE  (inflight[d] = Cardinality(Inside(d)))'
    BY DEF CountOK
  <1>0. inflight[d] = Cardinality(Inside(d)) /\ IsFiniteSet(Inside(d)) /\ Cardinality(Inside(d)) \in Nat
    BY InsideFinite DEF CountOK
  <1>s. ASSUME Inside(d)' = Inside(d), inflight'[d] = inflight[d]
        PROVE  (inflight[d] = Cardinality(Inside(d)))'
    BY <1>s, <1>0
  <1>1. ASSUME NEW j \in Job, NEW c \in Class, Call(j, c) PROVE (inflight[d] = Cardinality(Inside(d)))'
    BY <1>1, <1>s, CallAsks DEF Call
  <1>2. ASSUME NEW j \in Job, Lock(j) \/ Park(j) \/ Wake(j) \/ Expire(j) \/ Return(j)
        PROVE  (inflight[d] = Cardinality(Inside(d)))'
    <2>1. inflight' = inflight
      BY <1>2 DEF Lock, Park, Wake, Expire, Return
    <2>2. Inside(d)' = Inside(d)
      BY <1>2, InternalStands, SameSets
    <2> QED
      BY <1>s, <2>1, <2>2
  <1>3. ASSUME NEW j \in Job, Check(j) PROVE (inflight[d] = Cardinality(Inside(d)))'
    <2> DEFINE c == job[j].cls
    <2>0. c \in Class
      BY DEF ExecTypeOK
    <2>1. CASE ~Full(c)
      <3>1. inflight' = [inflight EXCEPT ![c] = @ + 1]
        BY <1>3, <2>1 DEF Check
      <3>2. CASE d = c
        <4>1. Inside(d)' = Inside(d) \cup {j} /\ j \notin Inside(d)
          BY <1>3, <2>0, <2>1, <3>2, CheckEnters
        <4>2. Cardinality(Inside(d) \cup {j}) = Cardinality(Inside(d)) + 1
          BY <1>0, <4>1, FS_AddElement
        <4>3. inflight'[d] = inflight[d] + 1
          BY <3>1, <3>2 DEF ExecTypeOK
        <4> QED
          BY <1>0, <4>1, <4>2, <4>3
      <3>3. CASE d # c
        <4>1. Inside(d)' = Inside(d)
          BY <1>3, <2>0, <2>1, <3>3, CheckEnters
        <4> QED
          BY <1>s, <3>1, <3>3, <4>1 DEF ExecTypeOK
      <3> QED
        BY <3>2, <3>3
    <2>2. CASE Full(c)
      <3>1. inflight' = inflight
        BY <1>3, <2>2 DEF Check
      <3>2. Inside(d)' = Inside(d)
        <4>1. CASE j \in ended
          BY <1>3, <2>0, <2>2, <4>1, CheckGivesUp
        <4>2. CASE j \notin ended
          BY <1>3, <2>2, <4>2, InternalStands, SameSets
        <4> QED
          BY <4>1, <4>2
      <3> QED
        BY <1>s, <3>1, <3>2
    <2> QED
      BY <2>1, <2>2
  <1>4. ASSUME NEW j \in Job, Release(j) PROVE (inflight[d] = Cardinality(Inside(d)))'
    <2> DEFINE c == job[j].cls
    <2>0. c \in Class /\ inflight' = [inflight EXCEPT ![c] = @ - 1]
      BY <1>4 DEF ExecTypeOK, Release
    <2>1. CASE d = c
      <3>1. Inside(d)' = Inside(d) \ {j} /\ j \in Inside(d)
        BY <1>4, <2>0, <2>1, ReleaseLeaves
      <3>2. Cardinality(Inside(d) \ {j}) = Cardinality(Inside(d)) - 1
        BY <1>0, <3>1, FS_RemoveElement
      <3>3. inflight'[d] = inflight[d] - 1
        BY <2>0, <2>1 DEF ExecTypeOK
      <3> QED
        BY <1>0, <3>1, <3>2, <3>3
    <2>2. CASE d # c
      <3>1. Inside(d)' = Inside(d)
        BY <1>4, <2>0, <2>2, ReleaseLeaves
      <3> QED
        BY <1>s, <2>0, <2>2, <3>1 DEF ExecTypeOK
    <2> QED
      BY <2>1, <2>2
  <1>5. CASE UNCHANGED execVars
    <2>1. Inside(d)' = Inside(d)
      BY <1>5 DEF execVars, Inside
    <2> QED
      BY <1>5, <1>s, <2>1 DEF execVars
  <1> QED
    BY <1>1, <1>2, <1>3, <1>4, <1>5 DEF ExecNext, Internal

-----------------------------------------------------------------------------
(* The mutex, and what its holder has seen *)

LEMMA MutexStep == ExecTypeOK /\ MutexOK /\ [ExecNext]_execVars => MutexOK'
  <1> SUFFICES ASSUME ExecTypeOK, MutexOK, [ExecNext]_execVars, NEW k \in Job
               PROVE  (mu = k <=> job[k].pc \in {"check", "park"})'
    BY DEF MutexOK
  <1> USE ExecutorAssumption
  <1>0. mu = k <=> job[k].pc \in {"check", "park"}
    BY DEF MutexOK
  <1>1. ASSUME NEW j \in Job, NEW c \in Class, Call(j, c) PROVE (mu = k <=> job[k].pc \in {"check", "park"})'
    BY <1>0, <1>1, CallMoves DEF Call, Moves
  <1>2. ASSUME NEW j \in Job, Lock(j) PROVE (mu = k <=> job[k].pc \in {"check", "park"})'
    <2>1. Moves(j, "check") /\ mu = NoJob /\ mu' = j
      BY <1>2, GotoMoves DEF Lock
    <2> QED
      BY <1>0, <2>1 DEF Moves
  <1>3. ASSUME NEW j \in Job, Check(j) PROVE (mu = k <=> job[k].pc \in {"check", "park"})'
    <2>1. mu = j /\ job[j].pc = "check"
      BY <1>3 DEF Check, MutexOK
    <2>2. \/ mu' = NoJob /\ (Moves(j, "slot") \/ Moves(j, "failed"))
          \/ mu' = j /\ Moves(j, "park")
      BY <1>3, <2>1, GotoMoves DEF Check
    <2> QED
      BY <1>0, <2>1, <2>2 DEF Moves
  <1>4. ASSUME NEW j \in Job, Park(j) PROVE (mu = k <=> job[k].pc \in {"check", "park"})'
    <2>1. mu = j /\ mu' = NoJob /\ Moves(j, "wait")
      BY <1>4, GotoMoves DEF Park, MutexOK
    <2> QED
      BY <1>0, <2>1 DEF Moves
  <1>5. ASSUME NEW j \in Job, Wake(j) PROVE (mu = k <=> job[k].pc \in {"check", "park"})'
    BY <1>0, <1>5, WakeWakes DEF Wake, Woken
  <1>6. ASSUME NEW j \in Job, Expire(j) PROVE (mu = k <=> job[k].pc \in {"check", "park"})'
    BY <1>0, <1>6 DEF Expire
  <1>7. ASSUME NEW j \in Job, Release(j) PROVE (mu = k <=> job[k].pc \in {"check", "park"})'
    <2>1. mu' = mu /\ job[j].pc = "slot" /\ job'[j].pc = "out" /\ (k # j => Woken(k))
      BY <1>7, ReleaseWakes DEF Release
    <2> QED
      BY <1>0, <2>1 DEF Woken
  <1>8. ASSUME NEW j \in Job, Return(j) PROVE (mu = k <=> job[k].pc \in {"check", "park"})'
    BY <1>0, <1>8, ReturnMoves DEF Return, Moves
  <1>9. CASE UNCHANGED execVars
    BY <1>0, <1>9 DEF execVars
  <1> QED
    BY <1>1, <1>2, <1>3, <1>4, <1>5, <1>6, <1>7, <1>8, <1>9 DEF ExecNext, Internal

\* ParkOK and WaitersHaveReason, for one job.
Reason(k) == job[k].pc \in {"park", "wait"} => Full(job[k].cls) /\ (k \in ended => k \in wakers)

LEMMA ReasonIsBoth == (\A k \in Job : Reason(k)) <=> ParkOK /\ WaitersHaveReason
  <1>1. ASSUME \A k \in Job : Reason(k) PROVE ParkOK /\ WaitersHaveReason
    BY <1>1 DEF Reason, ParkOK, WaitersHaveReason
  <1>2. ASSUME ParkOK, WaitersHaveReason, NEW k \in Job PROVE Reason(k)
    <2>1. CASE job[k].pc = "park"
      BY <1>2, <2>1 DEF Reason, ParkOK, Full
    <2>2. CASE job[k].pc = "wait"
      BY <1>2, <2>2 DEF Reason, WaitersHaveReason, Full
    <2> QED
      BY <2>1, <2>2 DEF Reason
  <1> QED
    BY <1>1, <1>2

LEMMA ReasonStep ==
  ASSUME ExecTypeOK, MutexOK, \A k \in Job : Reason(k), [ExecNext]_execVars
  PROVE  \A k \in Job : Reason(k)'
  <1> SUFFICES ASSUME NEW k \in Job, job'[k].pc \in {"park", "wait"}
               PROVE  Full(job[k].cls)' /\ (k \in ended' => k \in wakers')
    BY DEF Reason
  <1> USE ExecutorAssumption
  <1>0. Reason(k) /\ job[k].cls \in Class
    BY DEF ExecTypeOK
  <1>1. ASSUME NEW j \in Job, NEW c \in Class, Call(j, c)
        PROVE  Full(job[k].cls)' /\ (k \in ended' => k \in wakers')
    <2>1. k # j /\ job'[k] = job[k]
      BY <1>1, CallMoves DEF Moves
    <2> QED
      BY <1>0, <1>1, <2>1 DEF Call, Reason, Full
  <1>2. ASSUME NEW j \in Job, Lock(j) PROVE Full(job[k].cls)' /\ (k \in ended' => k \in wakers')
    <2>1. k # j /\ job'[k] = job[k]
      BY <1>2, GotoMoves DEF Lock, Moves
    <2>2. wakers \subseteq wakers'
      BY <1>2 DEF Lock
    <2> QED
      BY <1>0, <1>2, <2>1, <2>2 DEF Lock, Reason, Full
  <1>3. ASSUME NEW j \in Job, Check(j) PROVE Full(job[k].cls)' /\ (k \in ended' => k \in wakers')
    <2>0. job[j].pc = "check" /\ job[j].cls \in Class /\ UNCHANGED <<ended, wakers>>
      BY <1>3 DEF Check, ExecTypeOK
    <2>1. CASE ~Full(job[j].cls)
      <3>1. Moves(j, "slot") /\ inflight' = [inflight EXCEPT ![job[j].cls] = @ + 1]
        BY <1>3, <2>1, GotoMoves DEF Check
      <3>2. k # j /\ job'[k] = job[k]
        BY <3>1 DEF Moves
      <3>3. inflight[job[k].cls] \in Int /\ limits[job[k].cls] \in Int
        BY <1>0 DEF ExecTypeOK
      <3>4. inflight'[job[k].cls] \in {inflight[job[k].cls], inflight[job[k].cls] + 1}
        BY <1>0, <2>0, <3>1 DEF ExecTypeOK
      <3>5. inflight[job[k].cls] >= limits[job[k].cls]
        BY <1>0, <3>2 DEF Reason, Full
      <3>6. inflight'[job[k].cls] >= limits[job[k].cls]
        BY <3>3, <3>4, <3>5
      <3> QED
        BY <1>0, <2>0, <3>2, <3>6 DEF Reason, Full
    <2>2. CASE Full(job[j].cls) /\ j \in ended
      <3>1. Moves(j, "failed") /\ inflight' = inflight
        BY <1>3, <2>2, GotoMoves DEF Check
      <3>2. k # j /\ job'[k] = job[k]
        BY <3>1 DEF Moves
      <3> QED
        BY <1>0, <2>0, <3>1, <3>2 DEF Reason, Full
    <2>3. CASE Full(job[j].cls) /\ j \notin ended
      <3>1. Moves(j, "park") /\ job'[j].cls = job[j].cls /\ inflight' = inflight
        BY <1>3, <2>3, GotoMoves DEF Check
      <3>2. CASE k = j
        BY <2>0, <2>3, <3>1, <3>2 DEF Full
      <3>3. CASE k # j
        BY <1>0, <2>0, <3>1, <3>3 DEF Reason, Full, Moves
      <3> QED
        BY <3>2, <3>3
    <2> QED
      BY <2>1, <2>2, <2>3
  <1>4. ASSUME NEW j \in Job, Park(j) PROVE Full(job[k].cls)' /\ (k \in ended' => k \in wakers')
    <2>1. Moves(j, "wait") /\ job'[j].cls = job[j].cls /\ job[j].pc = "park"
      BY <1>4, GotoMoves DEF Park
    <2>2. job[k].pc \in {"park", "wait"} /\ job'[k].cls = job[k].cls
      BY <2>1 DEF Moves
    <2> QED
      BY <1>0, <1>4, <2>2 DEF Park, Reason, Full
  <1>5. ASSUME NEW j \in Job, Wake(j) PROVE Full(job[k].cls)' /\ (k \in ended' => k \in wakers')
    \* The mutex is free, so nobody is about to wait, and the broadcast leaves nobody waiting.
    <2>1. job[k].pc # "park"
      BY <1>5 DEF Wake, MutexOK
    <2> QED
      BY <1>5, <2>1, WakeWakes DEF Woken
  <1>6. ASSUME NEW j \in Job, Expire(j) PROVE Full(job[k].cls)' /\ (k \in ended' => k \in wakers')
    <2>1. job[k].pc \in {"park", "wait"} /\ Full(job[k].cls)'
      BY <1>0, <1>6 DEF Expire, Reason, Full
    <2>2. k = j => k \in wakers'
      BY <1>6, <2>1 DEF Expire, Registered
    <2>3. k # j => (k \in ended' => k \in wakers')
      BY <1>0, <1>6, <2>1 DEF Expire, Reason
    <2> QED
      BY <2>1, <2>2, <2>3
  <1>7. ASSUME NEW j \in Job, Release(j) PROVE Full(job[k].cls)' /\ (k \in ended' => k \in wakers')
    <2>1. job[k].pc # "park"
      BY <1>7 DEF Release, MutexOK
    <2> QED
      BY <1>7, <2>1, ReleaseWakes DEF Woken
  <1>8. ASSUME NEW j \in Job, Return(j) PROVE Full(job[k].cls)' /\ (k \in ended' => k \in wakers')
    <2>1. k # j /\ job'[k] = job[k]
      BY <1>8, ReturnMoves DEF Moves
    <2> QED
      BY <1>0, <1>8, <2>1 DEF Return, Reason, Full
  <1>9. CASE UNCHANGED execVars
    BY <1>0, <1>9 DEF execVars, Reason, Full
  <1> QED
    BY <1>1, <1>2, <1>3, <1>4, <1>5, <1>6, <1>7, <1>8, <1>9 DEF ExecNext, Internal

-----------------------------------------------------------------------------
(* Theorems *)

LEMMA InvStep == ExecInv /\ [ExecNext]_execVars => ExecInv'
  <1> SUFFICES ASSUME ExecInv, [ExecNext]_execVars PROVE ExecInv'
    OBVIOUS
  <1>1. ExecTypeOK' /\ MutexOK' /\ CountOK'
    BY TypeStep, MutexStep, CountStep DEF ExecInv
  <1>2. \A k \in Job : Reason(k)'
    BY ReasonStep, ReasonIsBoth DEF ExecInv
  <1>3. ParkOK' /\ WaitersHaveReason'
    BY <1>2 DEF Reason, ParkOK, WaitersHaveReason
  <1> QED
    BY <1>1, <1>3 DEF ExecInv

\* The invariant holds in every state of the executor.
LEMMA ExecInvHolds == ExecSpec => []ExecInv
  BY InitInv, InvStep, PTL DEF ExecSpec

\* For any jobs, classes and limits: no job of Acquire is left on the wait list once its class has
\* room or its context has ended and the goroutine that wakes it has run.
THEOREM NoWaiterForgotten == ExecSpec => []WaitersHaveReason
  <1>1. ExecInv => WaitersHaveReason
    BY DEF ExecInv
  <1> QED
    BY <1>1, ExecInvHolds, PTL

LEMMA RefinesInit == ExecInit => Slots!Init
  <1> SUFFICES ASSUME ExecInit PROVE Slots!Init
    OBVIOUS
  <1>1. \A c \in Class : Asking(c) = {} /\ Inside(c) = {}
    BY OutType DEF ExecInit, Asking, Inside
  <1> QED
    BY <1>1 DEF Slots!Init

LEMMA RefinesStep ==
  ASSUME ExecInv, [ExecNext]_execVars
  PROVE  [Slots!Next]_<<[c \in Class |-> Asking(c)], [c \in Class |-> Inside(c)]>>
  <1> DEFINE asking == [c \in Class |-> Asking(c)]
             inside == [c \in Class |-> Inside(c)]
  <1> SUFFICES Slots!Next \/ (asking' = asking /\ inside' = inside)
    BY DEF Slots!Next
  <1>t. ExecTypeOK /\ CountOK
    BY DEF ExecInv
  <1>1. ASSUME NEW j \in Job, NEW c \in Class, Call(j, c) PROVE Slots!Ask(c, j)
    <2>1. /\ j \notin Asking(c) \cup Inside(c)
          /\ Asking(c)' = Asking(c) \cup {j}
          /\ \A d \in Class : Inside(d)' = Inside(d)
          /\ \A d \in Class : d # c => Asking(d)' = Asking(d)
      BY <1>t, <1>1, CallAsks
    <2>2. asking' = [asking EXCEPT ![c] = @ \cup {j}] /\ inside' = inside
      BY <2>1
    <2> QED
      BY <2>1, <2>2 DEF Slots!Ask
  <1>2. ASSUME NEW j \in Job,
               \/ Lock(j) \/ Park(j) \/ Wake(j) \/ Expire(j) \/ Return(j)
               \/ Check(j) /\ Full(job[j].cls) /\ j \notin ended
        PROVE  asking' = asking /\ inside' = inside
    <2>1. \A c \in Class : Inside(c)' = Inside(c) /\ Asking(c)' = Asking(c)
      BY <1>t, <1>2, InternalStands, SameSets
    <2> QED
      BY <2>1
  <1>3. ASSUME NEW j \in Job, Check(j), ~Full(job[j].cls) PROVE Slots!Enter(job[j].cls, j)
    <2>0. PICK c \in Class : job[j].cls = c
      BY <1>t DEF ExecTypeOK
    <2>1. /\ j \in Asking(c)
          /\ Asking(c)' = Asking(c) \ {j}
          /\ Inside(c)' = Inside(c) \cup {j}
          /\ \A d \in Class : d # c => Inside(d)' = Inside(d) /\ Asking(d)' = Asking(d)
      BY <1>t, <1>3, <2>0, CheckEnters
    <2>2. Cardinality(Inside(c)) < limits[c]
      BY <1>t, <1>3, <2>0, InsideFinite, ExecutorAssumption DEF Full, CountOK
    <2>3. asking' = [asking EXCEPT ![c] = @ \ {j}] /\ inside' = [inside EXCEPT ![c] = @ \cup {j}]
      BY <2>0, <2>1
    <2>4. j \in asking[c] /\ Cardinality(inside[c]) < limits[c]
      BY <2>0, <2>1, <2>2
    <2>5. Slots!Enter(c, j)
      BY <2>3, <2>4, Zenon DEF Slots!Enter, Cardinality, Slots!Cardinality
    <2> QED
      BY <2>5, <2>0
  <1>4. ASSUME NEW j \in Job, Check(j), Full(job[j].cls), j \in ended PROVE Slots!GiveUp(job[j].cls, j)
    <2>0. PICK c \in Class : job[j].cls = c
      BY <1>t DEF ExecTypeOK
    <2>1. /\ j \in Asking(c)
          /\ Asking(c)' = Asking(c) \ {j}
          /\ \A d \in Class : Inside(d)' = Inside(d)
          /\ \A d \in Class : d # c => Asking(d)' = Asking(d)
      BY <1>t, <1>4, <2>0, CheckGivesUp
    <2>2. asking' = [asking EXCEPT ![c] = @ \ {j}] /\ inside' = inside /\ j \in asking[c]
      BY <2>0, <2>1
    <2>3. Slots!GiveUp(c, j)
      BY <2>2 DEF Slots!GiveUp
    <2> QED
      BY <2>3, <2>0
  <1>5. ASSUME NEW j \in Job, Release(j) PROVE Slots!Leave(job[j].cls, j)
    <2>0. PICK c \in Class : job[j].cls = c
      BY <1>t DEF ExecTypeOK
    <2>1. /\ j \in Inside(c)
          /\ Inside(c)' = Inside(c) \ {j}
          /\ \A d \in Class : Asking(d)' = Asking(d)
          /\ \A d \in Class : d # c => Inside(d)' = Inside(d)
      BY <1>t, <1>5, <2>0, ReleaseLeaves
    <2>2. inside' = [inside EXCEPT ![c] = @ \ {j}] /\ asking' = asking /\ j \in inside[c]
      BY <2>0, <2>1
    <2>3. Slots!Leave(c, j)
      BY <2>2 DEF Slots!Leave
    <2> QED
      BY <2>3, <2>0
  <1>6. CASE UNCHANGED execVars
    BY <1>6 DEF execVars, Asking, Inside
  <1>7. \A j \in Job : job[j].cls \in Class
    BY <1>t DEF ExecTypeOK
  <1> HIDE DEF asking, inside
  <1>8. CASE ExecNext
    <2>1. PICK j \in Job : \/ \E c \in Class : Call(j, c)
                           \/ Lock(j) \/ Park(j) \/ Wake(j) \/ Expire(j) \/ Return(j)
                           \/ Check(j)
                           \/ Release(j)
      BY <1>8 DEF ExecNext, Internal
    <2> QED
      BY <2>1, <1>1, <1>2, <1>3, <1>4, <1>5, <1>7 DEF Slots!Next
  <1> QED
    BY <1>6, <1>8

\* The executor implements Semaphore, gate by gate, for any jobs, classes and limits.
THEOREM ExecutorImplementsSemaphore == ExecSpec => ClassesAreSemaphores
  <1>1. ExecInv /\ [ExecNext]_execVars
          => [Slots!Next]_<<[c \in Class |-> Asking(c)], [c \in Class |-> Inside(c)]>>
    BY RefinesStep
  <1> QED
    BY <1>1, RefinesInit, ExecInvHolds, PTL DEF ExecSpec, ClassesAreSemaphores, Slots!Spec

-----------------------------------------------------------------------------
(* The handlers: the inductive invariant *)

\* A request for a picture has its position, one for subtitles its track.
KeyOK(r) ==
  /\ req[r].path = "thumb" => req[r].key \in Thumb
  /\ req[r].path \in {"window", "whole", "single"} => req[r].key \in SubKey

\* A single track is read outside the flights, metadata without the executor.
PlaceOK(r) ==
  /\ req[r].path = "single" => req[r].pc \in {"acquire", "work", "release", "reply"}
  /\ req[r].path \in {"meta", "duration"} => req[r].pc \notin {"acquire", "work", "release", "mark"}

\* A request inside the function of a flight is the one the flight belongs to.
Leads(r) ==
  /\ req[r].path # "single"
  /\ req[r].pc \in {"recheck", "probe", "open", "store", "acquire", "work", "release", "mark"}

FlightOK(r) == Leads(r) => flight[FlightOf(r)] = r

\* Nobody is at the batch once it has been done.
NotAgain(r) ==
  extracted => (req[r].path = "whole" => req[r].pc \notin {"probe", "open", "store", "acquire", "work"})

\* A wait fails only because its context has ended, and that is the context of a client that left.
EndedOK(r) ==
  /\ job[r].pc = "failed" => r \in ended
  /\ r \in ended => req[r].left /\ OwnContext(r) /\ req[r].pc \in {"work", "release"}

CancelledOK(r) ==
  /\ (req[r].pc = "reply" /\ req[r].res = "cancelled" /\ req[r].path # "thumb") => req[r].left
  /\ req[r].pc \in {"work", "release"} => req[r].res # "cancelled"

\* A pass over the windows of a readable file stores each track it passes; one that stops early
\* says so.
WindowOK(r) ==
  /\ (req[r].path = "window" /\ seekable /\ drops = 0) =>
       /\ req[r].pc = "work" => req[r].stored \/ req[r].todo = Tracks
       /\ req[r].pc = "mark" => req[r].stored
  /\ (Batch(r) /\ req[r].pc = "release") => req[r].res = "later"

RequestOK(r) ==
  KeyOK(r) /\ PlaceOK(r) /\ FlightOK(r) /\ NotAgain(r) /\ EndedOK(r) /\ CancelledOK(r) /\ WindowOK(r)

RequestsOK == \A r \in Job : RequestOK(r)

\* The file is there until the first drop, and its windows are not given up before that.
FileOK == (drops = 0 => torrent = "active") /\ SlowIsNotUnseekable

\* The positions in the cache, and the list with each of them once.
Cached == {k \in Thumb : thumbs[k] # None}
Elems(s) == {s[i] : i \in 1..Len(s)}
Distinct(s) == \A i, j \in 1..Len(s) : s[i] = s[j] => i = j

ListOK == Distinct(order) /\ Elems(order) = Cached /\ Len(order) <= MaxThumbs

ExtInv == TypeOK /\ RequestsOK /\ FileOK /\ ListOK

-----------------------------------------------------------------------------
(* The executor *)

LEMMA StepUsesExecutor == [Next]_vars => [ExecNext]_execVars
  <1> SUFFICES ASSUME [Next]_vars PROVE [ExecNext]_execVars
    OBVIOUS
  <1>1. ASSUME NEW r \in Job, \/ HandleGetMediaMetadata(r)
                              \/ GetOrProbeDuration(r)
                              \/ \E key \in Asked : HandleGetSubtitles(r, key)
                              \/ \E k \in Thumb : HandleGetThumbnail(r, k)
                              \/ ClientLeaves(r)
        PROVE  UNCHANGED execVars
    BY <1>1 DEF HandleGetMediaMetadata, GetOrProbeDuration, HandleGetSubtitles, HandleGetThumbnail, Begin, ClientLeaves
  <1>2. ASSUME NEW r \in Job, \/ Load(r) \/ Batched(r) \/ Fly(r) \/ Recheck(r)
                              \/ Probe(r) \/ ProbeTracks(r) \/ StoreMetadata(r)
                              \/ Reload(r) \/ Finish(r)
        PROVE  UNCHANGED execVars
    BY <1>2 DEF Load, Batched, Fly, Recheck, Probe, ProbeTracks, StoreMetadata, Reload, Finish
  <1>3. ASSUME NEW r \in Job, DemuxTrack(r) \/ DemuxOne(r) \/ Mark(r)
        PROVE  UNCHANGED execVars
    BY <1>3 DEF DemuxTrack, DemuxOne, Mark
  <1>4. ASSUME NEW r \in Job, Acquire(r) PROVE ExecNext
    <2>1. Call(r, ClassOf(r)) /\ ClassOf(r) \in Class
      BY <1>4, ExtractionAssumption DEF Acquire, ClassOf
    <2> QED
      BY <2>1 DEF ExecNext
  <1>5. ASSUME NEW r \in Job, ContextEnds(r) PROVE ExecNext
    BY <1>5 DEF ContextEnds, ExecNext
  <1>6. ASSUME NEW r \in Job, NotAdmitted(r) PROVE ExecNext
    BY <1>6 DEF NotAdmitted, ExecNext
  <1>7. ASSUME NEW r \in Job, Leave(r) PROVE ExecNext
    BY <1>7 DEF Leave, ExecNext
  <1>8. ASSUME NEW r \in Job, ExecutorStep(r) PROVE ExecNext
    BY <1>8 DEF ExecutorStep, ExecNext
  <1>9. ASSUME \/ \E k \in Thumb : ThumbAges(k)
               \/ Purge \/ ClientDrop \/ ReAdd
        PROVE  UNCHANGED execVars
    BY <1>9 DEF ThumbAges, Purge, ClientDrop, ReAdd
  <1>10. CASE UNCHANGED vars
    BY <1>10 DEF vars
  <1>11. ASSUME NEW r \in Job, Progress(r) PROVE [ExecNext]_execVars
    BY <1>11, <1>2, <1>3, <1>4, <1>5, <1>6, <1>7 DEF Progress
  <1>12. CASE Next
    <2>1. CASE \E r \in Job : \/ "meta" \in scenario /\ HandleGetMediaMetadata(r)
                              \/ "duration" \in scenario /\ GetOrProbeDuration(r)
                              \/ \E key \in Asked : HandleGetSubtitles(r, key)
                              \/ \E k \in Thumb : "thumb" \in scenario /\ HandleGetThumbnail(r, k)
                              \/ ClientLeaves(r)
      BY <2>1, <1>1
    <2>2. CASE \E r \in Job : Progress(r) \/ ExecutorStep(r)
      BY <2>2, <1>8, <1>11
    <2>3. CASE \/ \E k \in Thumb : ThumbAges(k)
               \/ Purge \/ ClientDrop \/ ReAdd
      BY <2>3, <1>9
    <2> QED
      BY <1>12, <2>1, <2>2, <2>3 DEF Next
  <1> QED
    BY <1>10, <1>12

\* Whatever clients, flights and drops do, the handlers call Acquire and its release in the order
\* the executor relies on: a behaviour of the handlers is a behaviour of the executor.
THEOREM HandlersUseExecutor == Spec => UsesExecutor
  <1>1. Init => ExecInit
    BY DEF Init
  <1> QED
    BY <1>1, StepUsesExecutor, PTL DEF Spec, UsesExecutor, ExecSpec

\* So no request is forgotten on the executor's wait list, for any number of requests and slots.
THEOREM NoRequestForgotten == Spec => []WaitersHaveReason
  BY HandlersUseExecutor, NoWaiterForgotten DEF UsesExecutor

\* And no class of extraction ever runs more jobs than its limit.
THEOREM ExtractionIsAdmitted == Spec => ClassesAreSemaphores
  BY HandlersUseExecutor, ExecutorImplementsSemaphore DEF UsesExecutor

-----------------------------------------------------------------------------
(* The list of thumbnails *)

\* append.
LEMMA AppendDistinct ==
  ASSUME NEW S, NEW s \in Seq(S), Distinct(s), NEW e \in S, e \notin Elems(s)
  PROVE  /\ Append(s, e) \in Seq(S)
         /\ Distinct(Append(s, e))
         /\ Elems(Append(s, e)) = Elems(s) \cup {e}
         /\ Len(Append(s, e)) = Len(s) + 1
<1>1. PICK t : t = Append(s, e)
  OBVIOUS
<1>2. /\ t \in Seq(S) /\ Len(t) = Len(s) + 1 /\ Len(s) \in Nat
      /\ \A i \in 1..Len(s) : t[i] = s[i]
      /\ t[Len(s) + 1] = e
  BY <1>1, AppendProperties
<1>3. Distinct(t)
  BY <1>2 DEF Distinct, Elems
<1>4. Elems(t) = Elems(s) \cup {e}
  BY <1>2 DEF Elems
<1> QED BY <1>1, <1>2, <1>3, <1>4

\* order[1:].
LEMMA TailDistinct ==
  ASSUME NEW S, NEW s \in Seq(S), Distinct(s), s # <<>>
  PROVE  /\ Tail(s) \in Seq(S)
         /\ Distinct(Tail(s))
         /\ Head(s) \in Elems(s)
         /\ Elems(Tail(s)) = Elems(s) \ {Head(s)}
         /\ Len(Tail(s)) = Len(s) - 1
<1>1. PICK t : t = Tail(s)
  OBVIOUS
<1>2. /\ t \in Seq(S) /\ Len(t) = Len(s) - 1 /\ Len(s) \in Nat /\ Len(s) > 0
      /\ \A i \in 1..Len(t) : t[i] = s[i + 1]
  BY <1>1, HeadTailProperties
<1>3. PICK h : h = Head(s)
  OBVIOUS
<1>4. h = s[1]
  BY <1>3
<1>5. Distinct(t)
  BY <1>2 DEF Distinct
<1>6. Elems(t) = Elems(s) \ {h}
  <2>1. \A x \in Elems(t) : x \in Elems(s) /\ x # h
    BY <1>2, <1>4 DEF Elems, Distinct
  <2>2. ASSUME NEW x \in Elems(s), x # h
        PROVE  x \in Elems(t)
    <3>1. PICK i \in 1..Len(s) : x = s[i]
      BY DEF Elems
    <3>2. i - 1 \in 1..Len(t) /\ t[i - 1] = s[(i - 1) + 1] /\ (i - 1) + 1 = i
      BY <1>2, <1>4, <2>2, <3>1
    <3> QED BY <3>1, <3>2 DEF Elems
  <2> QED BY <2>1, <2>2
<1>7. h \in Elems(s)
  BY <1>2, <1>4 DEF Elems
<1> QED BY <1>1, <1>2, <1>3, <1>5, <1>6, <1>7

\* The loop of remove and moveToMRU.
LEMMA RemoveDistinct ==
  ASSUME NEW S, NEW s \in Seq(S), Distinct(s), NEW e \in Elems(s)
  PROVE  /\ RemoveFirst(s, e) \in Seq(S)
         /\ Distinct(RemoveFirst(s, e))
         /\ Elems(RemoveFirst(s, e)) = Elems(s) \ {e}
         /\ Len(RemoveFirst(s, e)) = Len(s) - 1
<1>1. PICK i \in 1..Len(s) : s[i] = e
  BY DEF Elems
<1>2. {j \in 1..Len(s) : s[j] = e} = {i}
  BY <1>1 DEF Distinct
<1>3. Min({i}) = i
  BY DEF Min
<1>4. RemoveFirst(s, e) = RemoveAt(s, i)
  BY <1>1, <1>2, <1>3 DEF RemoveFirst, SelectInSeq
<1>5. PICK t : t = RemoveAt(s, i)
  OBVIOUS
<1>6. /\ t \in Seq(S) /\ Len(t) = Len(s) - 1 /\ Len(s) \in Nat
      /\ \A j \in 1..(Len(s) - 1) : t[j] = IF j < i THEN s[j] ELSE s[j + 1]
  <2> DEFINE a == SubSeq(s, 1, i - 1)
             b == SubSeq(s, i + 1, Len(s))
  <2>1. a \in Seq(S) /\ Len(a) = i - 1 /\ \A j \in 1..(i - 1) : a[j] = s[j]
    BY SubSeqProperties
  <2>2. b \in Seq(S) /\ Len(b) = Len(s) - i /\ \A j \in 1..(Len(s) - i) : b[j] = s[i + j]
    BY SubSeqProperties
  <2>3. t = a \o b
    BY <1>5 DEF RemoveAt
  <2>4. /\ a \o b \in Seq(S)
        /\ Len(a \o b) = Len(a) + Len(b)
        /\ \A j \in 1..(Len(a) + Len(b)) : (a \o b)[j] = IF j <= Len(a) THEN a[j] ELSE b[j - Len(a)]
    BY <2>1, <2>2, ConcatProperties
  <2> HIDE DEF a, b
  <2> QED BY <2>1, <2>2, <2>3, <2>4
<1>7. Distinct(t)
  BY <1>6 DEF Distinct
<1>8. Elems(t) = Elems(s) \ {e}
  <2>1. \A x \in Elems(t) : x \in Elems(s) /\ x # e
    BY <1>1, <1>6 DEF Elems, Distinct
  <2>2. ASSUME NEW x \in Elems(s), x # e
        PROVE  x \in Elems(t)
    <3>1. PICK j \in 1..Len(s) : x = s[j]
      BY DEF Elems
    <3>2. CASE j < i
      <4>1. j \in 1..Len(t) /\ t[j] = s[j]
        BY <1>6, <3>2
      <4> QED BY <3>1, <4>1 DEF Elems
    <3>3. CASE j > i
      <4>1. j - 1 \in 1..Len(t) /\ t[j - 1] = s[(j - 1) + 1] /\ (j - 1) + 1 = j
        BY <1>6, <3>3
      <4> QED BY <3>1, <4>1 DEF Elems
    <3> QED BY <1>1, <2>2, <3>1, <3>2, <3>3
  <2> QED BY <2>1, <2>2
<1> QED BY <1>4, <1>5, <1>6, <1>7, <1>8

LEMMA DistinctCount ==
  ASSUME NEW S, NEW s \in Seq(S), Distinct(s)
  PROVE  Cardinality(Elems(s)) = Len(s)
<1>1. Len(s) \in Nat /\ s \in [1..Len(s) -> S]
  OBVIOUS
<1>2. s \in [1..Len(s) -> Elems(s)]
  BY <1>1 DEF Elems
<1>3. s \in Bijection(1..Len(s), Elems(s))
  BY <1>2 DEF Bijection, Injection, Surjection, IsInjective, Distinct, Elems
<1> QED BY <1>1, <1>3, FS_CountingElements DEF ExistsBijection

ThumbsTypeOK == thumbs \in [Thumb -> {"fresh", "stale", None}] /\ order \in Seq(Thumb)

LEMMA CachedCount ==
  ASSUME ThumbsTypeOK, ListOK
  PROVE  Cardinality(Cached) = Len(order) /\ Len(order) \in Nat
BY DistinctCount DEF ThumbsTypeOK, ListOK

LEMMA MoveToMRUOK ==
  ASSUME ThumbsTypeOK, ListOK, NEW k \in Cached, moveToMRU(k),
         thumbs' \in [Thumb -> {"fresh", "stale", None}], Cached' = Cached
  PROVE  ThumbsTypeOK' /\ ListOK'
<1>1. PICK s : s = RemoveFirst(order, k)
  OBVIOUS
<1>2. s \in Seq(Thumb) /\ Distinct(s) /\ Elems(s) = Cached \ {k} /\ Len(s) = Len(order) - 1
  BY <1>1, RemoveDistinct DEF ThumbsTypeOK, ListOK
<1>3. k \in Thumb /\ k \notin Elems(s)
  BY <1>2 DEF Cached
<1>4. order' = Append(s, k)
  BY <1>1 DEF moveToMRU
<1>5. order' \in Seq(Thumb) /\ Distinct(order') /\ Elems(order') = Cached /\ Len(order') = Len(s) + 1
  <2>1. PICK t : t = Append(s, k)
    OBVIOUS
  <2>2. t \in Seq(Thumb) /\ Distinct(t) /\ Elems(t) = Elems(s) \cup {k} /\ Len(t) = Len(s) + 1
    BY <1>2, <1>3, <2>1, AppendDistinct
  <2> QED BY <1>2, <1>4, <2>1, <2>2
<1>6. Len(order') = Len(order)
  BY <1>2, <1>5, CachedCount
<1>7. Distinct(order)' /\ Elems(order)' = Cached' /\ Len(order') <= MaxThumbs
  BY <1>5, <1>6 DEF Distinct, Elems, ListOK
<1> QED BY <1>5, <1>7 DEF ThumbsTypeOK, ListOK

LEMMA ThumbGetOK ==
  ASSUME ThumbsTypeOK, ListOK, NEW k \in Thumb, ThumbGet(k)
  PROVE  ThumbsTypeOK' /\ ListOK'
<1>1. CASE UNCHANGED thumbVars
  BY <1>1 DEF thumbVars, ThumbsTypeOK, ListOK, Cached, Distinct, Elems
<1>2. CASE thumbs[k] = "stale" /\ remove(k)
  <2>1. k \in Cached
    BY <1>2, ExtractionAssumption DEF Cached
  <2>2. order' = RemoveFirst(order, k)
    BY <1>2 DEF remove
  <2>3. PICK s : s = RemoveFirst(order, k)
    OBVIOUS
  <2>4. s \in Seq(Thumb) /\ Distinct(s) /\ Elems(s) = Cached \ {k} /\ Len(s) = Len(order) - 1
    BY <2>1, <2>3, RemoveDistinct DEF ThumbsTypeOK, ListOK
  <2>5. thumbs' \in [Thumb -> {"fresh", "stale", None}] /\ Cached' = Cached \ {k}
    BY <1>2 DEF remove, ThumbsTypeOK, Cached
  <2>6. Len(s) <= MaxThumbs
    BY <2>4, CachedCount, ExtractionAssumption DEF ListOK
  <2>7. Distinct(order)' /\ Elems(order)' = Cached' /\ Len(order') <= MaxThumbs
    BY <2>2, <2>3, <2>4, <2>5, <2>6 DEF Distinct, Elems
  <2> QED BY <2>2, <2>3, <2>4, <2>5, <2>7 DEF ThumbsTypeOK, ListOK
<1>3. CASE thumbs[k] = "fresh" /\ moveToMRU(k) /\ UNCHANGED thumbs
  <2>1. k \in Cached /\ Cached' = Cached /\ thumbs' \in [Thumb -> {"fresh", "stale", None}]
    BY <1>3, ExtractionAssumption DEF Cached, ThumbsTypeOK
  <2> QED BY <1>3, <2>1, MoveToMRUOK
<1> QED BY <1>1, <1>2, <1>3 DEF ThumbGet

LEMMA ThumbSetOK ==
  ASSUME ThumbsTypeOK, ListOK, NEW k \in Thumb, ThumbSet(k)
  PROVE  ThumbsTypeOK' /\ ListOK'
<1>1. CASE thumbs[k] # None
  <2>1. moveToMRU(k) /\ thumbs' = [thumbs EXCEPT ![k] = "fresh"]
    BY <1>1 DEF ThumbSet
  <2>2. k \in Cached /\ Cached' = Cached /\ thumbs' \in [Thumb -> {"fresh", "stale", None}]
    BY <1>1, <2>1, ExtractionAssumption DEF Cached, ThumbsTypeOK
  <2> QED BY <2>1, <2>2, MoveToMRUOK
<1>2. CASE thumbs[k] = None
  <2>1. PICK full \in BOOLEAN : full = (Cardinality(Cached) >= MaxThumbs /\ order # <<>>)
    OBVIOUS
  <2>2. /\ thumbs' = [t \in Thumb |-> IF t = k THEN "fresh"
                                      ELSE IF full /\ t = Head(order) THEN None ELSE thumbs[t]]
        /\ order' = Append(IF full THEN Tail(order) ELSE order, k)
    BY <1>2, <2>1 DEF ThumbSet, Cached
  <2>3. PICK s : s = IF full THEN Tail(order) ELSE order
    OBVIOUS
  <2>4. /\ s \in Seq(Thumb) /\ Distinct(s) /\ Len(s) + 1 <= MaxThumbs
        /\ Elems(s) = IF full THEN Cached \ {Head(order)} ELSE Cached
    <3>1. CASE full
      <4>1. order # <<>> /\ order \in Seq(Thumb) /\ Distinct(order) /\ Elems(order) = Cached
        BY <2>1, <3>1 DEF ThumbsTypeOK, ListOK
      <4>2. s = Tail(order)
        BY <2>3, <3>1
      <4>3. s \in Seq(Thumb) /\ Distinct(s) /\ Elems(s) = Cached \ {Head(order)} /\ Len(s) = Len(order) - 1
        BY <4>1, <4>2, TailDistinct
      <4>4. Len(s) + 1 <= MaxThumbs
        BY <4>3, CachedCount, ExtractionAssumption DEF ListOK
      <4> QED BY <3>1, <4>3, <4>4
    <3>2. CASE ~full
      <4>1. s = order
        BY <2>3, <3>2
      <4>2. Len(order) < MaxThumbs
        <5>1. CASE order = <<>>
          BY <5>1, ExtractionAssumption
        <5>2. CASE order # <<>>
          <6>1. PICK n \in Nat : n = Len(order) /\ n = Cardinality(Cached)
            BY CachedCount
          <6>2. ~(n >= MaxThumbs)
            BY <2>1, <3>2, <5>2, <6>1
          <6> QED BY <6>1, <6>2, ExtractionAssumption
        <5> QED BY <5>1, <5>2
      <4> QED BY <3>2, <4>1, <4>2, CachedCount, ExtractionAssumption DEF ThumbsTypeOK, ListOK
    <3> QED BY <3>1, <3>2
  <2>5. k \notin Elems(s)
    BY <1>2, <2>4 DEF Cached
  <2>6. PICK t : t = Append(s, k)
    OBVIOUS
  <2>7. t \in Seq(Thumb) /\ Distinct(t) /\ Elems(t) = Elems(s) \cup {k} /\ Len(t) = Len(s) + 1
    BY <2>4, <2>5, <2>6, AppendDistinct
  <2>8. order' = t
    BY <2>2, <2>3, <2>6
  <2>9. thumbs' \in [Thumb -> {"fresh", "stale", None}] /\ Cached' = Elems(t)
    <3>1. thumbs' \in [Thumb -> {"fresh", "stale", None}]
      BY <2>2 DEF ThumbsTypeOK
    <3>2. ASSUME NEW x \in Thumb
          PROVE  thumbs'[x] # None <=> x \in Elems(t)
      <4>1. CASE x = k
        BY <2>2, <2>7, <4>1, ExtractionAssumption
      <4>2. CASE x # k
        BY <2>2, <2>4, <2>7, <4>2 DEF Cached
      <4> QED BY <4>1, <4>2
    <3>3. Elems(t) \subseteq Thumb
      BY <2>4, <2>7 DEF Cached
    <3> QED BY <3>1, <3>2, <3>3 DEF Cached
  <2>10. Distinct(order)' /\ Elems(order)' = Cached' /\ Len(order') <= MaxThumbs
    BY <2>4, <2>7, <2>8, <2>9 DEF Distinct, Elems
  <2> QED BY <2>7, <2>8, <2>9, <2>10 DEF ThumbsTypeOK, ListOK
<1> QED BY <1>1, <1>2

-----------------------------------------------------------------------------
(* Steps and the requests that do not take them *)

ReqType == [pc : Pcs, path : Path, key : SubKey \cup Thumb \cup {None}, left : BOOLEAN,
            todo : 0..Tracks, stored : BOOLEAN, res : Result]

CachesTypeOK ==
  /\ metadata \in BOOLEAN /\ duration \in BOOLEAN
  /\ extracted \in BOOLEAN /\ winBad \in BOOLEAN /\ seekable \in BOOLEAN
  /\ subs \in SUBSET SubKey
  /\ torrent \in {"active", "dropping", "gone"} /\ drops \in 0..MaxDrops /\ scenario \in Scenarios

ReqsTypeOK   == req \in [Job -> ReqType]
FlightTypeOK == flight \in [Flight -> Job \cup {None}]

LEMMA TypeParts ==
  TypeOK <=> ExecTypeOK /\ ReqsTypeOK /\ FlightTypeOK /\ CachesTypeOK /\ ThumbsTypeOK
BY DEF TypeOK, ReqsTypeOK, ReqType, FlightTypeOK, CachesTypeOK, ThumbsTypeOK

\* A request stands still: what could disturb it is left alone by the others' steps.
LEMMA Bystander ==
  ASSUME NEW q \in Job, RequestOK(q), req'[q] = req[q], seekable' = seekable, drops' = 0 => drops = 0,
         Leads(q) => flight'[FlightOf(q)] = q,
         extracted' => NotAgain(q) /\ (extracted \/ req[q].path # "whole" \/ ~Leads(q)),
         q \in ended' => q \in ended,
         job'[q].pc = "failed" => job[q].pc = "failed" /\ q \in ended'
  PROVE  RequestOK(q)'
<1>1. KeyOK(q)' /\ PlaceOK(q)'
  BY DEF RequestOK, KeyOK, PlaceOK
<1>2. FlightOK(q)'
  BY DEF FlightOK, Leads, FlightOf
<1>3. NotAgain(q)'
  BY DEF NotAgain, Leads
<1>4. EndedOK(q)'
  BY DEF RequestOK, EndedOK, OwnContext
<1>5. CancelledOK(q)'
  BY DEF RequestOK, CancelledOK
<1>6. WindowOK(q)'
  BY DEF RequestOK, WindowOK, Batch
<1> QED BY <1>1, <1>2, <1>3, <1>4, <1>5, <1>6 DEF RequestOK

\* One request moves.
Only(r) == ReqsTypeOK' /\ \A q \in Job \ {r} : req'[q] = req[q]

\* What the executor does for one job it does not do for another.
ForOne(r) ==
  \A q \in Job \ {r} : /\ q \in ended' <=> q \in ended
                       /\ job'[q].pc = "failed" => job[q].pc = "failed"

LEMMA OneStep ==
  ASSUME ExtInv, NEW r \in Job, Only(r), ForOne(r), RequestOK(r)',
         UNCHANGED <<seekable, drops>>, extracted' => extracted,
         \A q \in Job \ {r} : Leads(q) => flight'[FlightOf(q)] = q
  PROVE  RequestsOK'
<1>1. ASSUME NEW q \in Job, q # r
      PROVE  RequestOK(q)'
  <2>1. RequestOK(q)
    BY DEF ExtInv, RequestsOK
  <2>2. NotAgain(q) /\ (job[q].pc = "failed" => q \in ended)
    BY <2>1 DEF RequestOK, EndedOK
  <2>3. /\ req'[q] = req[q]
        /\ Leads(q) => flight'[FlightOf(q)] = q
        /\ q \in ended' <=> q \in ended
        /\ job'[q].pc = "failed" => job[q].pc = "failed"
    BY <1>1 DEF Only, ForOne
  <2> QED BY <2>1, <2>2, <2>3, Bystander
<1> QED BY <1>1 DEF RequestsOK

\* The same while the flights stay as they are.
LEMMA QuietFlights ==
  ASSUME ExtInv, NEW q \in Job, UNCHANGED flight
  PROVE  Leads(q) => flight'[FlightOf(q)] = q
BY DEF ExtInv, RequestsOK, RequestOK, FlightOK

LEMMA ExecQuiet ==
  ASSUME UNCHANGED execVars, NEW r
  PROVE  ForOne(r) /\ ended' = ended /\ job' = job
BY DEF execVars, ForOne

LEMMA CallForOne ==
  ASSUME ExecTypeOK, NEW r \in Job, NEW c \in Class, Call(r, c)
  PROVE  ForOne(r) /\ ended' = ended /\ job'[r].pc = "lock"
BY DEF Call, ExecTypeOK, ForOne

LEMMA ExpireForOne ==
  ASSUME ExecTypeOK, NEW r \in Job, Expire(r)
  PROVE  ForOne(r) /\ ended' = ended \cup {r} /\ job' = job
BY DEF Expire, ExecTypeOK, ForOne

LEMMA ReturnForOne ==
  ASSUME ExecTypeOK, NEW r \in Job, Return(r)
  PROVE  ForOne(r) /\ ended' = ended \ {r} /\ job'[r].pc = "out"
BY OutType DEF Return, ExecTypeOK, ForOne

LEMMA ReleaseForOne ==
  ASSUME ExecTypeOK, NEW r \in Job, Release(r)
  PROVE  ForOne(r) /\ ended' = ended \ {r} /\ job'[r].pc = "out"
<1>1. PICK jobs : jobs = [job EXCEPT ![r] = Out]
  OBVIOUS
<1>2. jobs \in [Job -> [pc : States, cls : Class]] /\ jobs[r].pc = "out" /\ \A q \in Job \ {r} : jobs[q] = job[q]
  BY <1>1, OutType DEF ExecTypeOK
<1>3. job' = Broadcast(jobs) /\ ended' = ended \ {r}
  BY <1>1 DEF Release
<1>4. job'[r].pc = "out"
  BY <1>2, <1>3, BroadcastType
<1>5. \A q \in Job \ {r} : job'[q].pc = "failed" => job[q].pc = "failed"
  BY <1>2, <1>3, BroadcastType
<1> QED BY <1>3, <1>4, <1>5 DEF ForOne

LEMMA InternalForOne ==
  ASSUME ExecTypeOK, NEW r \in Job, Internal(r)
  PROVE  /\ ForOne(r) /\ ended' = ended
         /\ job'[r].pc = "failed" => job[r].pc = "failed" \/ r \in ended
<1>1. CASE Lock(r)
  BY <1>1 DEF Lock, Goto, ExecTypeOK, ForOne
<1>2. CASE Check(r)
  BY <1>2 DEF Check, Goto, ExecTypeOK, ForOne
<1>3. CASE Park(r)
  BY <1>3 DEF Park, Goto, ExecTypeOK, ForOne
<1>4. CASE Wake(r)
  <2>1. job' = Broadcast(job) /\ ended' = ended
    BY <1>4 DEF Wake
  <2>2. \A q \in Job : job'[q].pc = "failed" => job[q].pc = "failed"
    BY <2>1, BroadcastType DEF ExecTypeOK
  <2> QED BY <2>1, <2>2 DEF ForOne
<1> QED BY <1>1, <1>2, <1>3, <1>4 DEF Internal

-----------------------------------------------------------------------------
(* What holds of the handlers, after a step that disturbs only part of it *)

HandlersInv ==
  /\ ReqsTypeOK /\ FlightTypeOK /\ CachesTypeOK /\ ThumbsTypeOK
  /\ RequestsOK /\ FileOK /\ ListOK

LEMMA InvParts == ExtInv <=> ExecTypeOK /\ HandlersInv
BY TypeParts DEF ExtInv, HandlersInv

LEMMA QuietCaches ==
  ASSUME ExtInv, UNCHANGED <<cacheVars, worldVars>>
  PROVE  CachesTypeOK' /\ FileOK'
<1>1. CachesTypeOK /\ FileOK
  BY InvParts DEF HandlersInv
<1>2. UNCHANGED <<metadata, duration, subs, extracted, winBad, torrent, seekable, drops, scenario>>
  BY DEF cacheVars, probeVars, subVars, worldVars
<1>3. CachesTypeOK'
  BY <1>1, <1>2 DEF CachesTypeOK
<1>4. FileOK'
  BY <1>1, <1>2 DEF FileOK, SlowIsNotUnseekable
<1> QED BY <1>3, <1>4

LEMMA QuietThumbs ==
  ASSUME ExtInv, UNCHANGED thumbVars
  PROVE  ThumbsTypeOK' /\ ListOK'
<1>1. ThumbsTypeOK /\ ListOK
  BY InvParts DEF HandlersInv
<1>2. UNCHANGED <<thumbs, order>>
  BY DEF thumbVars
<1>3. ThumbsTypeOK'
  BY <1>1, <1>2 DEF ThumbsTypeOK
<1>4. ListOK'
  BY <1>1, <1>2 DEF ListOK, Distinct, Elems, Cached
<1> QED BY <1>3, <1>4

\* A request that is not at the executor has no context there.
LEMMA NotWaiting ==
  ASSUME ExtInv, NEW r \in Job, req[r].pc \notin {"work", "release"}
  PROVE  r \notin ended /\ job[r].pc # "failed"
BY DEF ExtInv, RequestsOK, RequestOK, EndedOK

LEMMA ReqFacts ==
  ASSUME ExtInv, NEW r \in Job
  PROVE  /\ req \in [Job -> ReqType] /\ req[r] \in ReqType
         /\ RequestOK(r) /\ KeyOK(r) /\ PlaceOK(r)
         /\ req[r].path # "single" => FlightOf(r) \in Flight
<1>1. req \in [Job -> ReqType] /\ req[r] \in ReqType /\ RequestOK(r)
  BY InvParts DEF HandlersInv, ReqsTypeOK, RequestsOK
<1>2. KeyOK(r) /\ PlaceOK(r)
  BY <1>1 DEF RequestOK
<1>3. req[r].path \in Path
  BY <1>1 DEF ReqType
<1>4. req[r].path # "single" => FlightOf(r) \in Flight
  BY <1>2, <1>3 DEF FlightOf, Flight, KeyOK, Path
<1> QED BY <1>1, <1>2, <1>4

\* Outside the flights and the executor nothing can be wrong but the key.
LEMMA CalmOK ==
  ASSUME NEW r \in Job, KeyOK(r)', PlaceOK(r)', r \notin ended', job'[r].pc # "failed",
         \/ req'[r].pc \in {"idle", "load", "batched", "fly", "follow", "reload"}
         \/ req'[r].pc = "reply" /\ (req'[r].res # "cancelled" \/ req'[r].path = "thumb" \/ req'[r].left)
  PROVE  RequestOK(r)'
<1>1. req'[r].pc \notin {"recheck", "probe", "open", "store", "acquire", "work", "release", "mark"}
  OBVIOUS
<1>2. FlightOK(r)' /\ NotAgain(r)'
  BY <1>1 DEF FlightOK, Leads, NotAgain
<1>3. EndedOK(r)'
  BY DEF EndedOK
<1>4. CancelledOK(r)'
  BY <1>1 DEF CancelledOK
<1>5. WindowOK(r)'
  BY <1>1 DEF WindowOK
<1> QED BY <1>2, <1>3, <1>4, <1>5 DEF RequestOK

\* A step of one request that leaves the caches and the flights alone.
LEMMA LocalStep ==
  ASSUME ExtInv, NEW r \in Job, Only(r), ForOne(r), RequestOK(r)',
         UNCHANGED <<flight, cacheVars, thumbVars, worldVars>>
  PROVE  HandlersInv'
<1>1. UNCHANGED <<seekable, drops, extracted>>
  BY DEF cacheVars, subVars, worldVars
<1>2. RequestsOK'
  BY <1>1, QuietFlights, OneStep
<1>3. FlightTypeOK'
  BY InvParts DEF HandlersInv, FlightTypeOK
<1> QED BY <1>2, <1>3, QuietCaches, QuietThumbs DEF HandlersInv, Only

\* The steps to another place in the code.
LEMMA StepMoves ==
  ASSUME ExtInv, NEW r \in Job, NEW pc \in Pcs, Step(r, pc)
  PROVE  Only(r) /\ req'[r] = [req[r] EXCEPT !.pc = pc]
<1>1. req \in [Job -> ReqType] /\ req[r] \in ReqType
  BY ReqFacts
<1>2. req'[r] = [req[r] EXCEPT !.pc = pc] /\ \A q \in Job \ {r} : req'[q] = req[q]
  BY <1>1 DEF Step
<1>3. req'[r] \in ReqType
  BY <1>1, <1>2 DEF ReqType
<1>4. req' \in [Job -> ReqType]
  BY <1>1, <1>3 DEF Step
<1> QED BY <1>2, <1>4 DEF Only, ReqsTypeOK

LEMMA ReplyMoves ==
  ASSUME ExtInv, NEW r \in Job, NEW res \in Result, Reply(r, res)
  PROVE  Only(r) /\ req'[r] = [req[r] EXCEPT !.pc = "reply", !.res = res]
<1>1. req \in [Job -> ReqType] /\ req[r] \in ReqType
  BY ReqFacts
<1>2. req'[r] = [req[r] EXCEPT !.pc = "reply", !.res = res] /\ \A q \in Job \ {r} : req'[q] = req[q]
  BY <1>1 DEF Reply
<1>3. req'[r] \in ReqType
  BY <1>1, <1>2 DEF ReqType, Pcs
<1>4. req' \in [Job -> ReqType]
  BY <1>1, <1>3 DEF Reply
<1> QED BY <1>2, <1>4 DEF Only, ReqsTypeOK

-----------------------------------------------------------------------------
(* Requests come and go *)

LEMMA BeginInv ==
  ASSUME ExtInv, NEW r \in Job, NEW path \in Path \ {"single"}, NEW key \in SubKey \cup Thumb \cup {None},
         path = "thumb" => key \in Thumb,
         path \in {"window", "whole", "single"} => key \in SubKey,
         Begin(r, path, key, "load")
  PROVE  HandlersInv'
<1>1. PICK x : x = [NoReq EXCEPT !.pc = "load", !.path = path, !.key = key]
  OBVIOUS
<1>2. x \in ReqType /\ x.pc = "load" /\ x.path = path /\ x.key = key
  <2>1. x = [pc |-> "load", path |-> path, key |-> key, left |-> FALSE, todo |-> 0,
             stored |-> FALSE, res |-> "ok"]
    BY <1>1 DEF NoReq
  <2>2. 0 \in 0..Tracks /\ "load" \in Pcs
    BY ExtractionAssumption DEF Pcs
  <2> QED BY <2>1, <2>2 DEF ReqType, Result
<1>3. req \in [Job -> ReqType] /\ req[r].pc = "idle" /\ req' = [req EXCEPT ![r] = x]
  BY <1>1, ReqFacts DEF Begin
<1>4. req'[r] = x /\ req' \in [Job -> ReqType] /\ \A q \in Job \ {r} : req'[q] = req[q]
  BY <1>2, <1>3
<1>5. ForOne(r) /\ r \notin ended' /\ job'[r].pc # "failed"
  BY <1>3, NotWaiting, ExecQuiet DEF Begin
<1>6. KeyOK(r)' /\ PlaceOK(r)'
  BY <1>2, <1>4 DEF KeyOK, PlaceOK
<1>7. RequestOK(r)'
  BY <1>2, <1>4, <1>5, <1>6, CalmOK
<1>8. Only(r) /\ UNCHANGED <<flight, cacheVars, thumbVars, worldVars>>
  BY <1>4 DEF Only, ReqsTypeOK, Begin
<1> QED BY <1>5, <1>7, <1>8, LocalStep

LEMMA HandleInv ==
  ASSUME ExtInv, NEW r \in Job,
         \/ HandleGetMediaMetadata(r)
         \/ GetOrProbeDuration(r)
         \/ \E key \in Asked : HandleGetSubtitles(r, key)
         \/ \E k \in Thumb : HandleGetThumbnail(r, k)
  PROVE  HandlersInv'
<1>1. CASE HandleGetMediaMetadata(r) \/ GetOrProbeDuration(r)
  BY <1>1, BeginInv DEF HandleGetMediaMetadata, GetOrProbeDuration, Path
<1>2. ASSUME NEW key \in Asked, HandleGetSubtitles(r, key)
      PROVE  HandlersInv'
  <2>1. PICK path \in {"window", "whole"} : path = IF key.window /\ ~winBad THEN "window" ELSE "whole"
    OBVIOUS
  <2>2. PICK x : x = [key EXCEPT !.window = @ /\ ~winBad]
    OBVIOUS
  <2>3. key \in SubKey
    BY DEF Asked
  <2>4. x \in SubKey
    BY <2>2, <2>3 DEF SubKey
  <2>5. Begin(r, path, x, "load")
    BY <1>2, <2>1, <2>2 DEF HandleGetSubtitles
  <2>6. path \in Path \ {"single"} /\ path # "thumb"
    BY DEF Path
  <2> QED BY <2>4, <2>5, <2>6, BeginInv
<1>3. ASSUME NEW k \in Thumb, HandleGetThumbnail(r, k)
      PROVE  HandlersInv'
  <2>1. Begin(r, "thumb", k, "load")
    BY <1>3 DEF HandleGetThumbnail
  <2> QED BY <2>1, BeginInv DEF Path
<1> QED BY <1>1, <1>2, <1>3

LEMMA FinishInv ==
  ASSUME ExtInv, NEW r \in Job, Finish(r)
  PROVE  HandlersInv'
<1>1. NoReq \in ReqType /\ NoReq.pc = "idle" /\ NoReq.path = "meta"
  BY ExtractionAssumption DEF NoReq, ReqType, Pcs, Path, Result
<1>2. req \in [Job -> ReqType] /\ req[r].pc = "reply" /\ req' = [req EXCEPT ![r] = NoReq]
  BY ReqFacts DEF Finish
<1>3. req'[r] = NoReq /\ req' \in [Job -> ReqType] /\ \A q \in Job \ {r} : req'[q] = req[q]
  BY <1>1, <1>2
<1>4. ForOne(r) /\ r \notin ended' /\ job'[r].pc # "failed"
  BY <1>2, NotWaiting, ExecQuiet DEF Finish
<1>5. KeyOK(r)' /\ PlaceOK(r)'
  BY <1>1, <1>3 DEF KeyOK, PlaceOK
<1>6. RequestOK(r)'
  BY <1>1, <1>3, <1>4, <1>5, CalmOK
<1>7. Only(r) /\ UNCHANGED <<flight, cacheVars, thumbVars, worldVars>>
  BY <1>3 DEF Only, ReqsTypeOK, Finish
<1> QED BY <1>4, <1>6, <1>7, LocalStep

LEMMA ClientLeavesInv ==
  ASSUME ExtInv, NEW r \in Job, ClientLeaves(r)
  PROVE  HandlersInv'
<1>1. req \in [Job -> ReqType] /\ req[r] \in ReqType /\ RequestOK(r)
  BY ReqFacts
<1>2. req'[r] = [req[r] EXCEPT !.left = TRUE] /\ \A q \in Job \ {r} : req'[q] = req[q]
  BY <1>1 DEF ClientLeaves
<1>3. req'[r] \in ReqType
  BY <1>1, <1>2 DEF ReqType
<1>4. Only(r)
  BY <1>1, <1>2, <1>3 DEF ClientLeaves, Only, ReqsTypeOK
<1>5. /\ req'[r].pc = req[r].pc /\ req'[r].path = req[r].path /\ req'[r].key = req[r].key
      /\ req'[r].left /\ req'[r].todo = req[r].todo /\ req'[r].stored = req[r].stored
      /\ req'[r].res = req[r].res
  BY <1>1, <1>2 DEF ReqType
<1>6. /\ UNCHANGED <<flight, cacheVars, thumbVars, worldVars>>
      /\ UNCHANGED <<flight, extracted, seekable, drops>>
  BY DEF ClientLeaves, cacheVars, subVars, worldVars
<1>7. ForOne(r) /\ ended' = ended /\ job' = job
  BY ExecQuiet DEF ClientLeaves
<1>8. KeyOK(r)' /\ PlaceOK(r)' /\ FlightOK(r)' /\ NotAgain(r)'
  BY <1>1, <1>5, <1>6 DEF RequestOK, KeyOK, PlaceOK, FlightOK, Leads, FlightOf, NotAgain
<1>9. EndedOK(r)' /\ CancelledOK(r)' /\ WindowOK(r)'
  BY <1>1, <1>5, <1>6, <1>7 DEF RequestOK, EndedOK, OwnContext, CancelledOK, WindowOK, Batch
<1>10. RequestOK(r)'
  BY <1>8, <1>9 DEF RequestOK
<1> QED BY <1>4, <1>6, <1>7, <1>10, LocalStep

-----------------------------------------------------------------------------
(* Look-ups and flights *)

\* A thumbnail request's look-up moves or removes an entry, the others touch no thumbnail.
LEMMA LookThumbs ==
  ASSUME ExtInv, NEW r \in Job,
         IF req[r].path = "thumb" THEN ThumbGet(req[r].key) ELSE UNCHANGED thumbVars
  PROVE  ThumbsTypeOK' /\ ListOK'
<1>1. CASE req[r].path = "thumb"
  <2>1. req[r].key \in Thumb /\ ThumbGet(req[r].key)
    BY <1>1, ReqFacts DEF KeyOK
  <2>2. ThumbsTypeOK /\ ListOK
    BY InvParts DEF HandlersInv
  <2> QED BY <2>1, <2>2, ThumbGetOK
<1>2. CASE req[r].path # "thumb"
  BY <1>2, QuietThumbs
<1> QED BY <1>1, <1>2

\* A step of one request that leaves the caches alone but not the thumbnails or the flights.
LEMMA LookStep ==
  ASSUME ExtInv, NEW r \in Job, Only(r), UNCHANGED execVars, RequestOK(r)',
         UNCHANGED <<flight, cacheVars, worldVars>>, ThumbsTypeOK', ListOK'
  PROVE  HandlersInv'
<1>1. UNCHANGED <<seekable, drops, extracted>>
  BY DEF cacheVars, subVars, worldVars
<1>2. RequestsOK'
  BY <1>1, QuietFlights, OneStep, ExecQuiet
<1>3. FlightTypeOK'
  BY InvParts DEF HandlersInv, FlightTypeOK
<1> QED BY <1>2, <1>3, QuietCaches DEF HandlersInv, Only

LEMMA LoadInv ==
  ASSUME ExtInv, NEW r \in Job, Load(r)
  PROVE  HandlersInv'
<1>1. req[r] \in ReqType /\ KeyOK(r) /\ PlaceOK(r) /\ req[r].pc = "load"
  BY ReqFacts DEF Load
<1>2. r \notin ended' /\ job'[r].pc # "failed" /\ UNCHANGED execVars
  BY <1>1, NotWaiting, ExecQuiet DEF Load
<1>3. ThumbsTypeOK' /\ ListOK'
  BY LookThumbs DEF Load
<1>4. Only(r) /\ RequestOK(r)'
  <2>1. CASE Reply(r, "ok")
    <3>1. Only(r) /\ req'[r] = [req[r] EXCEPT !.pc = "reply", !.res = "ok"]
      BY <2>1, ReplyMoves DEF Result
    <3>2. req'[r].pc = "reply" /\ req'[r].res = "ok" /\ KeyOK(r)' /\ PlaceOK(r)'
      BY <1>1, <3>1 DEF ReqType, KeyOK, PlaceOK
    <3> QED BY <1>2, <3>1, <3>2, CalmOK
  <2>2. ASSUME NEW pc \in {"batched", "fly"}, Step(r, pc)
        PROVE  Only(r) /\ RequestOK(r)'
    <3>1. Only(r) /\ req'[r] = [req[r] EXCEPT !.pc = pc]
      BY <2>2, StepMoves DEF Pcs
    <3>2. req'[r].pc = pc /\ KeyOK(r)' /\ PlaceOK(r)'
      BY <1>1, <3>1 DEF ReqType, KeyOK, PlaceOK
    <3> QED BY <1>2, <3>1, <3>2, CalmOK
  <2> QED BY <2>1, <2>2 DEF Load
<1> QED BY <1>2, <1>3, <1>4, LookStep DEF Load

LEMMA BatchedInv ==
  ASSUME ExtInv, NEW r \in Job, Batched(r)
  PROVE  HandlersInv'
<1>1. req[r] \in ReqType /\ KeyOK(r) /\ PlaceOK(r) /\ req[r].pc = "batched"
  BY ReqFacts DEF Batched
<1>2. ForOne(r) /\ r \notin ended' /\ job'[r].pc # "failed"
  BY <1>1, NotWaiting, ExecQuiet DEF Batched
<1>3. PICK pc \in {"reload", "fly"} : Step(r, pc)
  BY DEF Batched
<1>4. Only(r) /\ req'[r] = [req[r] EXCEPT !.pc = pc]
  BY <1>3, StepMoves DEF Pcs
<1>5. req'[r].pc = pc /\ KeyOK(r)' /\ PlaceOK(r)'
  BY <1>1, <1>4 DEF ReqType, KeyOK, PlaceOK
<1>6. RequestOK(r)'
  BY <1>2, <1>5, CalmOK
<1> QED BY <1>2, <1>4, <1>6, LocalStep DEF Batched

\* Whoever leads a flight is alone with it.
LEMMA OneLeader ==
  ASSUME ExtInv, NEW r \in Job, NEW q \in Job, Leads(r), Leads(q), FlightOf(q) = FlightOf(r)
  PROVE  q = r
BY DEF ExtInv, RequestsOK, RequestOK, FlightOK

LEMMA FlyInv ==
  ASSUME ExtInv, NEW r \in Job, Fly(r)
  PROVE  HandlersInv'
<1>1. req[r] \in ReqType /\ KeyOK(r) /\ PlaceOK(r) /\ req[r].pc = "fly" /\ RequestOK(r)
  BY ReqFacts DEF Fly
<1>2. r \notin ended' /\ job'[r].pc # "failed" /\ UNCHANGED execVars
  BY <1>1, NotWaiting, ExecQuiet DEF Fly
<1>3. CASE flight[FlightOf(r)] # None
  <2>1. UNCHANGED flight /\ Step(r, "follow")
    BY <1>3 DEF Fly
  <2>2. Only(r) /\ req'[r] = [req[r] EXCEPT !.pc = "follow"]
    BY <2>1, StepMoves DEF Pcs
  <2>3. req'[r].pc = "follow" /\ KeyOK(r)' /\ PlaceOK(r)'
    BY <1>1, <2>2 DEF ReqType, KeyOK, PlaceOK
  <2>4. RequestOK(r)'
    BY <1>2, <2>3, CalmOK
  <2> QED BY <1>2, <2>1, <2>2, <2>4, ExecQuiet, LocalStep DEF Fly
<1>4. CASE flight[FlightOf(r)] = None
  <2>0. PICK pc \in {"recheck", "probe"} : pc = IF req[r].path = "meta" THEN "probe" ELSE "recheck"
    OBVIOUS
  <2>1. flight' = [flight EXCEPT ![FlightOf(r)] = r] /\ Step(r, pc)
    BY <1>4, <2>0 DEF Fly
  <2>2. Only(r) /\ req'[r] = [req[r] EXCEPT !.pc = pc]
    BY <2>1, StepMoves DEF Pcs
  <2>3. /\ req'[r].pc = pc /\ req'[r].path = req[r].path /\ req'[r].key = req[r].key
        /\ KeyOK(r)' /\ PlaceOK(r)'
    BY <1>1, <2>2 DEF ReqType, KeyOK, PlaceOK
  <2>4. FlightTypeOK /\ flight \in [Flight -> Job \cup {None}]
    BY InvParts DEF HandlersInv, FlightTypeOK
  <2>5. FlightTypeOK'
    BY <2>1, <2>4 DEF FlightTypeOK
  <2>6. ASSUME NEW q \in Job \ {r}, Leads(q)
        PROVE  flight'[FlightOf(q)] = q
    <3>1. flight[FlightOf(q)] = q /\ FlightOf(q) \in Flight
      BY <2>6, ReqFacts DEF RequestOK, FlightOK, Leads
    <3>2. FlightOf(q) # FlightOf(r)
      BY <1>4, <3>1, ExtractionAssumption
    <3> QED BY <2>1, <2>4, <3>1, <3>2
  <2>7. FlightOK(r)'
    <3>1. CASE req[r].path = "single"
      BY <2>3, <3>1 DEF FlightOK, Leads
    <3>2. CASE req[r].path # "single"
      <4>1. FlightOf(r) \in Flight /\ FlightOf(r)' = FlightOf(r)
        BY <2>3, <3>2, ReqFacts DEF FlightOf
      <4>2. flight'[FlightOf(r)] = r
        BY <2>1, <2>4, <4>1
      <4> QED BY <4>1, <4>2 DEF FlightOK
    <3> QED BY <3>1, <3>2
  <2>8. NotAgain(r)' /\ EndedOK(r)' /\ CancelledOK(r)' /\ WindowOK(r)'
    BY <1>2, <2>0, <2>3 DEF NotAgain, EndedOK, CancelledOK, WindowOK
  <2>9. RequestOK(r)'
    BY <2>3, <2>7, <2>8 DEF RequestOK
  <2>10. UNCHANGED <<cacheVars, worldVars>> /\ UNCHANGED thumbVars /\ UNCHANGED <<seekable, drops, extracted>>
    BY DEF Fly, cacheVars, subVars, worldVars
  <2>11. RequestsOK'
    BY <1>2, <2>2, <2>6, <2>9, <2>10, ExecQuiet, OneStep
  <2> QED BY <2>2, <2>5, <2>10, <2>11, QuietCaches, QuietThumbs DEF HandlersInv, Only
<1> QED BY <1>3, <1>4

\* The function of a flight returns: its leader and its followers move, nobody else.
LEMMA LandInv ==
  ASSUME ExtInv, NEW r \in Job, NEW res \in Result, Leads(r), Land(r, res),
         res = "cancelled" => req[r].path = "thumb",
         ForOne(r), r \notin ended', job'[r].pc # "failed",
         UNCHANGED <<seekable, drops>>, extracted' => extracted \/ req[r].path = "whole"
  PROVE  ReqsTypeOK' /\ FlightTypeOK' /\ RequestsOK'
<1> DEFINE k == FlightOf(r)
           aboard == {r} \cup {q \in Job : req[q].pc = "follow" /\ FlightOf(q) = k}
           again(q) == req[q].path \in {"duration", "window", "whole"} /\ res \in {"ok", "number"}
           goes(q) == IF again(q) THEN "reload" ELSE "reply"
<1>1. /\ flight' = [flight EXCEPT ![k] = None]
      /\ req' = [q \in Job |-> IF q \in aboard THEN [req[q] EXCEPT !.pc = goes(q), !.res = res] ELSE req[q]]
  BY DEF Land
<1>2. req \in [Job -> ReqType] /\ flight \in [Flight -> Job \cup {None}]
  BY InvParts DEF HandlersInv, ReqsTypeOK, FlightTypeOK
<1>3. k \in Flight /\ req[r].path # "single"
  BY ReqFacts DEF Leads
<1>4. FlightTypeOK'
  BY <1>1, <1>2 DEF FlightTypeOK
<1>5. ASSUME NEW q \in Job
      PROVE  /\ q \notin aboard => req'[q] = req[q]
             /\ q \in aboard => /\ req'[q] \in ReqType
                                /\ req'[q].pc \in {"reload", "reply"} /\ req'[q].res = res
                                /\ req'[q].path = req[q].path /\ req'[q].key = req[q].key
  <2>1. req[q] \in ReqType
    BY <1>2
  <2>2. goes(q) \in {"reload", "reply"} /\ goes(q) \in Pcs
    BY DEF Pcs
  <2>3. q \in aboard => req'[q] = [req[q] EXCEPT !.pc = goes(q), !.res = res]
    BY <1>1
  <2>4. q \notin aboard => req'[q] = req[q]
    BY <1>1
  <2> HIDE DEF goes, aboard
  <2> QED BY <2>1, <2>2, <2>3, <2>4 DEF ReqType
<1>6. ReqsTypeOK'
  <2>1. \A q \in Job : req'[q] \in ReqType
    BY <1>2, <1>5
  <2>2. req' = [q \in Job |-> req'[q]]
    BY <1>1
  <2> QED BY <2>1, <2>2 DEF ReqsTypeOK
<1>7. ASSUME NEW q \in Job, q \in aboard
      PROVE  RequestOK(q)'
  <2>1. req[q].path = "thumb" \/ res # "cancelled"
    <3>1. CASE q = r
      BY <3>1
    <3>2. ASSUME q # r, res = "cancelled", req[q].path # "thumb"
          PROVE  FALSE
      <4>1. FlightOf(q) = k /\ k = req[r].key /\ k \in Thumb
        BY <1>7, <3>2, ReqFacts DEF FlightOf, KeyOK
      <4>2. k \in {req[q].path, "meta"}
        BY <3>2, <4>1 DEF FlightOf
      <4>3. req[q].path \in Path /\ req[q].pc = "follow"
        BY <1>7, <3>2, ReqFacts DEF ReqType
      <4> QED BY <4>1, <4>2, <4>3, ExtractionAssumption DEF Path
    <3> QED BY <3>1, <3>2
  <2>2. q \notin ended' /\ job'[q].pc # "failed"
    <3>1. CASE q = r
      BY <3>1
    <3>2. CASE q # r
      <4>1. req[q].pc = "follow"
        BY <1>7, <3>2
      <4> QED BY <3>2, <4>1, NotWaiting DEF ForOne
    <3> QED BY <3>1, <3>2
  <2>3. KeyOK(q)' /\ PlaceOK(q)'
    <3>1. req[q].path # "single"
      BY <1>3, <1>7, ReqFacts DEF PlaceOK
    <3> QED BY <1>5, <1>7, <3>1, ReqFacts DEF KeyOK, PlaceOK
  <2>4. \/ req'[q].pc = "reload"
        \/ req'[q].pc = "reply" /\ (req'[q].res # "cancelled" \/ req'[q].path = "thumb")
    BY <1>5, <1>7, <2>1
  <2> QED BY <2>2, <2>3, <2>4, CalmOK
<1>8. ASSUME NEW q \in Job, q \notin aboard
      PROVE  RequestOK(q)'
  <2>1. q # r /\ req'[q] = req[q] /\ RequestOK(q)
    BY <1>5, <1>8, ReqFacts
  <2>2. ASSUME Leads(q)
        PROVE  flight'[FlightOf(q)] = q /\ FlightOf(q) # k
    <3>1. flight[FlightOf(q)] = q /\ FlightOf(q) \in Flight
      BY <2>2, ReqFacts DEF RequestOK, FlightOK, Leads
    <3>2. FlightOf(q) # k
      BY <2>1, <2>2, OneLeader
    <3> QED BY <1>1, <1>2, <3>1, <3>2
  <2>3. extracted' => extracted \/ req[q].path # "whole" \/ ~Leads(q)
    <3> SUFFICES ASSUME extracted', ~extracted, req[q].path = "whole", Leads(q)
                 PROVE  FALSE
      OBVIOUS
    <3>1. FlightOf(q) = FlightOf(r)
      BY DEF FlightOf
    <3> QED BY <2>2, <3>1
  <2>4. NotAgain(q) /\ (job[q].pc = "failed" => q \in ended)
    BY <2>1 DEF RequestOK, EndedOK
  <2>5. (q \in ended' <=> q \in ended) /\ (job'[q].pc = "failed" => job[q].pc = "failed")
    BY <2>1 DEF ForOne
  <2> QED BY <2>1, <2>2, <2>3, <2>4, <2>5, Bystander
<1> QED BY <1>4, <1>6, <1>7, <1>8 DEF RequestsOK

\* A leader moves on inside its flight.
LEMMA StayOK ==
  ASSUME ExtInv, NEW r \in Job, Leads(r), NEW pc \in {"probe", "open", "store", "acquire"},
         req'[r] = [req[r] EXCEPT !.pc = pc], UNCHANGED flight,
         r \notin ended', job'[r].pc # "failed",
         extracted' => req[r].path # "whole", pc = "acquire" => req[r].path \notin {"meta", "duration"}
  PROVE  RequestOK(r)'
<1>1. req[r] \in ReqType /\ KeyOK(r) /\ RequestOK(r)
  BY ReqFacts
<1>2. req'[r].pc = pc /\ req'[r].path = req[r].path /\ req'[r].key = req[r].key
  BY <1>1 DEF ReqType
<1>3. KeyOK(r)' /\ PlaceOK(r)'
  BY <1>1, <1>2 DEF KeyOK, PlaceOK, Leads
<1>4. FlightOK(r)'
  BY <1>1, <1>2 DEF RequestOK, FlightOK, Leads, FlightOf
<1>5. NotAgain(r)' /\ EndedOK(r)' /\ CancelledOK(r)' /\ WindowOK(r)'
  BY <1>2 DEF NotAgain, EndedOK, CancelledOK, WindowOK
<1> QED BY <1>3, <1>4, <1>5 DEF RequestOK

LEMMA RecheckInv ==
  ASSUME ExtInv, NEW r \in Job, Recheck(r)
  PROVE  HandlersInv'
<1>1. req[r] \in ReqType /\ KeyOK(r) /\ req[r].pc = "recheck" /\ Leads(r)
  BY ReqFacts DEF Recheck, PlaceOK, Leads
<1>2. ForOne(r) /\ r \notin ended' /\ job'[r].pc # "failed" /\ UNCHANGED execVars
  BY <1>1, NotWaiting, ExecQuiet DEF Recheck
<1>3. ThumbsTypeOK' /\ ListOK'
  BY LookThumbs DEF Recheck
<1>4. /\ UNCHANGED <<cacheVars, worldVars>>
      /\ UNCHANGED <<seekable, drops, extracted>>
  BY DEF Recheck, cacheVars, subVars, worldVars
<1>5. ASSUME NEW res \in {"ok", "number"}, Land(r, res)
      PROVE  HandlersInv'
  <2>1. ReqsTypeOK' /\ FlightTypeOK' /\ RequestsOK'
    BY <1>1, <1>2, <1>4, <1>5, LandInv DEF Result
  <2> QED BY <1>3, <1>4, <2>1, QuietCaches DEF HandlersInv
<1>6. ASSUME NEW pc \in {"probe", "acquire"}, Step(r, pc), UNCHANGED flight,
             req[r].path = "whole" => ~extracted,
             pc = "acquire" => req[r].path \notin {"meta", "duration"}
      PROVE  HandlersInv'
  <2>1. Only(r) /\ req'[r] = [req[r] EXCEPT !.pc = pc]
    BY <1>6, StepMoves DEF Pcs
  <2>2. RequestOK(r)'
    BY <1>1, <1>2, <1>4, <1>6, <2>1, StayOK
  <2> QED BY <1>2, <1>3, <1>4, <1>6, <2>1, <2>2, LookStep
<1> QED BY <1>5, <1>6 DEF Recheck

\* A step of the probe, inside a flight: it lands, or its leader moves on.
LEMMA ProbeStep ==
  ASSUME ExtInv, NEW r \in Job, req[r].pc \in {"probe", "open", "store"}, UNCHANGED execVars,
         metadata' \in BOOLEAN, duration' \in BOOLEAN,
         UNCHANGED <<subs, extracted, winBad, torrent, seekable, drops, scenario>>, UNCHANGED thumbVars,
         \/ \E res \in {"ok", "error"} : Land(r, res)
         \/ \E pc \in {"open", "store", "acquire"} :
              /\ Step(r, pc) /\ UNCHANGED flight
              /\ pc = "acquire" => req[r].path \notin {"meta", "duration"}
  PROVE  HandlersInv'
<1>1. req[r] \in ReqType /\ KeyOK(r) /\ RequestOK(r) /\ Leads(r)
  BY ReqFacts DEF PlaceOK, Leads
<1>2. ForOne(r) /\ r \notin ended' /\ job'[r].pc # "failed"
  BY NotWaiting, ExecQuiet
<1>3. CachesTypeOK' /\ FileOK'
  <2>1. CachesTypeOK /\ FileOK
    BY InvParts DEF HandlersInv
  <2> QED BY <2>1 DEF CachesTypeOK, FileOK, SlowIsNotUnseekable
<1>4. ASSUME NEW res \in {"ok", "error"}, Land(r, res)
      PROVE  HandlersInv'
  <2>1. ReqsTypeOK' /\ FlightTypeOK' /\ RequestsOK'
    BY <1>1, <1>2, <1>4, LandInv DEF Result
  <2> QED BY <1>3, <2>1, QuietThumbs DEF HandlersInv
<1>5. ASSUME NEW pc \in {"open", "store", "acquire"}, Step(r, pc), UNCHANGED flight,
             pc = "acquire" => req[r].path \notin {"meta", "duration"}
      PROVE  HandlersInv'
  <2>0. pc \in Pcs
    BY DEF Pcs
  <2>1. Only(r) /\ req'[r] = [req[r] EXCEPT !.pc = pc]
    BY <1>5, <2>0, StepMoves
  <2>2. extracted => req[r].path # "whole"
    BY <1>1 DEF RequestOK, NotAgain
  <2>3. RequestOK(r)'
    BY <1>1, <1>2, <1>5, <2>1, <2>2, StayOK
  <2>4. RequestsOK'
    BY <1>2, <1>5, <2>1, <2>3, QuietFlights, OneStep
  <2>5. FlightTypeOK'
    BY <1>5, InvParts DEF HandlersInv, FlightTypeOK
  <2> QED BY <1>3, <2>1, <2>4, <2>5, QuietThumbs DEF HandlersInv, Only
<1> QED BY <1>4, <1>5

LEMMA ProbeInv ==
  ASSUME ExtInv, NEW r \in Job, Probe(r) \/ ProbeTracks(r) \/ StoreMetadata(r)
  PROVE  HandlersInv'
<1>1. metadata \in BOOLEAN /\ duration \in BOOLEAN
  BY InvParts DEF HandlersInv, CachesTypeOK
<1>2. UNCHANGED execVars /\ UNCHANGED thumbVars
  BY DEF Probe, ProbeTracks, StoreMetadata
<1>3. UNCHANGED <<subs, extracted, winBad, torrent, seekable, drops, scenario>>
  BY DEF Probe, ProbeTracks, StoreMetadata, cacheVars, subVars, worldVars
<1>4. metadata' \in BOOLEAN /\ duration' \in BOOLEAN
  BY <1>1 DEF Probe, ProbeTracks, StoreMetadata, cacheVars, subVars, probeVars
<1>5. Probed(r) => \/ Land(r, "ok")
                   \/ /\ Step(r, "acquire") /\ UNCHANGED flight
                      /\ req[r].path \notin {"meta", "duration"}
  BY DEF Probed
<1>6. req[r].pc \in {"probe", "open", "store"}
  BY DEF Probe, ProbeTracks, StoreMetadata
<1>7. \/ Land(r, "ok") \/ Land(r, "error")
      \/ (Step(r, "open") \/ Step(r, "store")) /\ UNCHANGED flight
      \/ /\ Step(r, "acquire") /\ UNCHANGED flight
         /\ req[r].path \notin {"meta", "duration"}
  BY <1>5 DEF Probe, ProbeTracks, StoreMetadata
<1> HIDE DEF Probe, ProbeTracks, StoreMetadata
<1> QED BY <1>2, <1>3, <1>4, <1>6, <1>7, ProbeStep

LEMMA ReloadInv ==
  ASSUME ExtInv, NEW r \in Job, Reload(r)
  PROVE  HandlersInv'
<1>1. /\ req \in [Job -> ReqType] /\ req[r] \in ReqType /\ KeyOK(r) /\ PlaceOK(r)
      /\ req[r].pc = "reload"
  BY ReqFacts DEF Reload
<1>2. ForOne(r) /\ r \notin ended' /\ job'[r].pc # "failed"
  BY <1>1, NotWaiting, ExecQuiet DEF Reload
<1>3. ASSUME NEW res \in {"ok", "error"}, Reply(r, res)
      PROVE  HandlersInv'
  <2>1. Only(r) /\ req'[r] = [req[r] EXCEPT !.pc = "reply", !.res = res]
    BY <1>3, ReplyMoves DEF Result
  <2>2. req'[r].pc = "reply" /\ req'[r].res = res /\ KeyOK(r)' /\ PlaceOK(r)'
    BY <1>1, <2>1 DEF ReqType, KeyOK, PlaceOK
  <2>3. RequestOK(r)'
    BY <1>2, <2>2, CalmOK
  <2> QED BY <1>2, <2>1, <2>3, LocalStep DEF Reload
<1>4. CASE /\ req[r].path = "window"
           /\ req' = [req EXCEPT ![r].pc = "load", ![r].path = "whole", ![r].key.window = FALSE]
  <2>1. PICK k : k = [req[r].key EXCEPT !.window = FALSE]
    OBVIOUS
  <2>2. k \in SubKey
    BY <1>1, <1>4, <2>1 DEF KeyOK, SubKey
  <2>3. PICK x : x = [req[r] EXCEPT !.pc = "load", !.path = "whole", !.key = k]
    OBVIOUS
  <2>4. x \in ReqType /\ x.pc = "load" /\ x.path = "whole" /\ x.key = k
    BY <1>1, <2>2, <2>3 DEF ReqType, Pcs, Path
  <2>5. req'[r] = x /\ \A q \in Job \ {r} : req'[q] = req[q]
    BY <1>1, <1>4, <2>1, <2>3 DEF ReqType
  <2>6. req' \in [Job -> ReqType]
    BY <1>1, <1>4, <2>4, <2>5
  <2>7. KeyOK(r)' /\ PlaceOK(r)'
    BY <2>2, <2>4, <2>5 DEF KeyOK, PlaceOK
  <2>8. RequestOK(r)'
    BY <1>2, <2>4, <2>5, <2>7, CalmOK
  <2>9. Only(r)
    BY <2>5, <2>6 DEF Only, ReqsTypeOK
  <2> QED BY <1>2, <2>8, <2>9, LocalStep DEF Reload
<1>5. CASE /\ req[r].path = "whole"
           /\ req' = [req EXCEPT ![r].pc = "acquire", ![r].path = "single"]
  <2>1. PICK x : x = [req[r] EXCEPT !.pc = "acquire", !.path = "single"]
    OBVIOUS
  <2>2. x \in ReqType /\ x.pc = "acquire" /\ x.path = "single" /\ x.key = req[r].key
    BY <1>1, <2>1 DEF ReqType, Pcs, Path
  <2>3. req'[r] = x /\ \A q \in Job \ {r} : req'[q] = req[q]
    BY <1>1, <1>5, <2>1 DEF ReqType
  <2>4. req' \in [Job -> ReqType]
    BY <1>1, <1>5, <2>2, <2>3
  <2>5. KeyOK(r)' /\ PlaceOK(r)'
    BY <1>1, <1>5, <2>2, <2>3 DEF KeyOK, PlaceOK
  <2>6. FlightOK(r)' /\ NotAgain(r)' /\ EndedOK(r)' /\ CancelledOK(r)' /\ WindowOK(r)'
    BY <1>2, <2>2, <2>3 DEF FlightOK, Leads, NotAgain, EndedOK, CancelledOK, WindowOK, Batch
  <2>7. RequestOK(r)'
    BY <2>5, <2>6 DEF RequestOK
  <2>8. Only(r)
    BY <2>3, <2>4 DEF Only, ReqsTypeOK
  <2> QED BY <1>2, <2>7, <2>8, LocalStep DEF Reload
<1> QED BY <1>3, <1>4, <1>5 DEF Reload

-----------------------------------------------------------------------------
(* Admission and demuxing *)

LEMMA AcquireInv ==
  ASSUME ExtInv, NEW r \in Job, Acquire(r)
  PROVE  HandlersInv'
<1>1. req \in [Job -> ReqType] /\ req[r] \in ReqType /\ RequestOK(r) /\ req[r].pc = "acquire"
  BY ReqFacts DEF Acquire
<1>2. ClassOf(r) \in Class /\ ExecTypeOK /\ Call(r, ClassOf(r))
  BY InvParts, ExtractionAssumption DEF ClassOf, Acquire
<1>3. ForOne(r) /\ r \notin ended' /\ job'[r].pc # "failed"
  BY <1>1, <1>2, CallForOne, NotWaiting
<1>4. PICK n : n = IF Batch(r) THEN Tracks ELSE 0
  OBVIOUS
<1>5. n \in 0..Tracks /\ (Batch(r) => n = Tracks)
  BY <1>4, ExtractionAssumption
<1>6. PICK x : x = [req[r] EXCEPT !.pc = "work", !.stored = FALSE, !.res = "ok", !.todo = n]
  OBVIOUS
<1>7. /\ x \in ReqType /\ x.pc = "work" /\ x.res = "ok" /\ x.todo = n
      /\ x.path = req[r].path /\ x.key = req[r].key
  BY <1>1, <1>5, <1>6 DEF ReqType, Pcs, Result
<1>8. req'[r] = x /\ \A q \in Job \ {r} : req'[q] = req[q]
  BY <1>1, <1>4, <1>6 DEF Acquire, ReqType
<1>9. req' \in [Job -> ReqType]
  <2>1. req' = [q \in Job |-> req'[q]]
    BY <1>1 DEF Acquire
  <2> QED BY <1>1, <1>7, <1>8, <2>1
<1>10. UNCHANGED <<flight, cacheVars, thumbVars, worldVars>> /\ UNCHANGED <<flight, extracted>>
  BY DEF Acquire, cacheVars, subVars
<1>11. KeyOK(r)' /\ PlaceOK(r)' /\ FlightOK(r)' /\ NotAgain(r)'
  BY <1>1, <1>7, <1>8, <1>10 DEF RequestOK, KeyOK, PlaceOK, FlightOK, Leads, FlightOf, NotAgain
<1>12. EndedOK(r)' /\ CancelledOK(r)'
  BY <1>3, <1>7, <1>8 DEF EndedOK, CancelledOK
<1>13. WindowOK(r)'
  BY <1>5, <1>7, <1>8 DEF WindowOK, Batch
<1>14. RequestOK(r)'
  BY <1>11, <1>12, <1>13 DEF RequestOK
<1>15. Only(r)
  BY <1>8, <1>9 DEF Only, ReqsTypeOK
<1> QED BY <1>3, <1>10, <1>14, <1>15, LocalStep

\* A step of the executor that the request waits for.
LEMMA ExecutorOnly ==
  ASSUME ExtInv, NEW r \in Job, ForOne(r), EndedOK(r)',
         UNCHANGED <<req, flight, cacheVars, thumbVars, worldVars>>
  PROVE  HandlersInv'
<1>1. RequestOK(r)
  BY ReqFacts
<1>2. UNCHANGED <<req, flight, extracted, seekable, drops>>
  BY DEF cacheVars, subVars, worldVars
<1>3. KeyOK(r)' /\ PlaceOK(r)' /\ FlightOK(r)' /\ NotAgain(r)'
  BY <1>1, <1>2 DEF RequestOK, KeyOK, PlaceOK, FlightOK, Leads, FlightOf, NotAgain
<1>4. CancelledOK(r)' /\ WindowOK(r)'
  BY <1>1, <1>2 DEF RequestOK, CancelledOK, WindowOK, Batch
<1>5. RequestOK(r)'
  BY <1>3, <1>4 DEF RequestOK
<1>6. Only(r)
  BY <1>2, ReqFacts DEF Only, ReqsTypeOK
<1> QED BY <1>5, <1>6, LocalStep

LEMMA ContextEndsInv ==
  ASSUME ExtInv, NEW r \in Job, ContextEnds(r)
  PROVE  HandlersInv'
<1>1. ExecTypeOK /\ Expire(r)
  BY InvParts DEF ContextEnds
<1>2. ForOne(r) /\ ended' = ended \cup {r} /\ job' = job
  BY <1>1, ExpireForOne
<1>3. req[r].pc = "work" /\ req[r].left /\ OwnContext(r) /\ req' = req
  BY DEF ContextEnds
<1>4. EndedOK(r)'
  BY <1>2, <1>3 DEF EndedOK, OwnContext
<1> QED BY <1>2, <1>4, ExecutorOnly DEF ContextEnds

LEMMA ExecutorStepInv ==
  ASSUME ExtInv, NEW r \in Job, ExecutorStep(r)
  PROVE  HandlersInv'
<1>1. ExecTypeOK /\ Internal(r) /\ req' = req
  BY InvParts DEF ExecutorStep
<1>2. ForOne(r) /\ ended' = ended /\ (job'[r].pc = "failed" => job[r].pc = "failed" \/ r \in ended)
  BY <1>1, InternalForOne
<1>3. EndedOK(r)
  BY ReqFacts DEF RequestOK
<1>4. EndedOK(r)'
  BY <1>1, <1>2, <1>3 DEF EndedOK, OwnContext
<1> QED BY <1>2, <1>4, ExecutorOnly DEF ExecutorStep

LEMMA NotAdmittedInv ==
  ASSUME ExtInv, NEW r \in Job, NotAdmitted(r)
  PROVE  HandlersInv'
<1>1. req[r] \in ReqType /\ RequestOK(r) /\ KeyOK(r) /\ PlaceOK(r) /\ req[r].pc = "work"
  BY ReqFacts DEF NotAdmitted
<1>2. req[r].left /\ OwnContext(r)
  BY <1>1 DEF RequestOK, EndedOK, NotAdmitted
<1>3. ExecTypeOK /\ Return(r)
  BY InvParts DEF NotAdmitted
<1>4. ForOne(r) /\ r \notin ended' /\ job'[r].pc # "failed"
  BY <1>3, ReturnForOne
<1>5. UNCHANGED <<cacheVars, worldVars>> /\ UNCHANGED thumbVars /\ UNCHANGED <<seekable, drops, extracted>>
  BY DEF NotAdmitted, cacheVars, subVars, worldVars
<1>6. CASE req[r].path = "single"
  <2>1. Reply(r, "cancelled") /\ UNCHANGED flight
    BY <1>6 DEF NotAdmitted, Conclude
  <2>2. Only(r) /\ req'[r] = [req[r] EXCEPT !.pc = "reply", !.res = "cancelled"]
    BY <2>1, ReplyMoves DEF Result
  <2>3. req'[r].pc = "reply" /\ req'[r].left /\ KeyOK(r)' /\ PlaceOK(r)'
    BY <1>1, <1>2, <2>2 DEF ReqType, KeyOK, PlaceOK
  <2>4. RequestOK(r)'
    BY <1>4, <2>3, CalmOK
  <2> QED BY <1>4, <1>5, <2>1, <2>2, <2>4, LocalStep
<1>7. CASE req[r].path = "thumb"
  <2>1. Land(r, "cancelled") /\ Leads(r)
    BY <1>1, <1>7 DEF NotAdmitted, Conclude, Leads
  <2>2. ReqsTypeOK' /\ FlightTypeOK' /\ RequestsOK'
    BY <1>4, <1>5, <1>7, <2>1, LandInv DEF Result
  <2> QED BY <1>5, <2>2, QuietCaches, QuietThumbs DEF HandlersInv
<1> QED BY <1>2, <1>6, <1>7 DEF OwnContext

\* A request at work goes on or is through, without anything that others depend on.
LEMMA WorkStep ==
  ASSUME ExtInv, NEW r \in Job, UNCHANGED execVars, NEW x \in ReqType, req' = [req EXCEPT ![r] = x],
         req[r].pc = "work", x.pc \in {"work", "release"},
         x.path = req[r].path, x.key = req[r].key, x.left = req[r].left,
         x.res # "cancelled", WindowOK(r)',
         UNCHANGED <<flight, probeVars, extracted, winBad, worldVars>>, subs' \in SUBSET SubKey,
         ThumbsTypeOK', ListOK'
  PROVE  HandlersInv'
<1>1. req \in [Job -> ReqType] /\ RequestOK(r)
  BY ReqFacts
<1>2. req'[r] = x /\ req' \in [Job -> ReqType] /\ \A q \in Job \ {r} : req'[q] = req[q]
  BY <1>1
<1>3. ForOne(r) /\ ended' = ended /\ job' = job
  BY ExecQuiet
<1>4. KeyOK(r)' /\ PlaceOK(r)' /\ FlightOK(r)' /\ NotAgain(r)'
  BY <1>1, <1>2 DEF RequestOK, KeyOK, PlaceOK, FlightOK, Leads, FlightOf, NotAgain
<1>5. EndedOK(r)' /\ CancelledOK(r)'
  BY <1>1, <1>2, <1>3 DEF RequestOK, EndedOK, OwnContext, CancelledOK
<1>6. RequestOK(r)'
  BY <1>4, <1>5 DEF RequestOK
<1>7. Only(r) /\ ReqsTypeOK'
  BY <1>2 DEF Only, ReqsTypeOK
<1>8. UNCHANGED <<torrent, seekable, drops, scenario>>
  BY DEF worldVars
<1>9. RequestsOK'
  BY <1>3, <1>6, <1>7, <1>8, QuietFlights, OneStep
<1>10. FlightTypeOK /\ CachesTypeOK /\ FileOK
  BY InvParts DEF HandlersInv
<1>11. FlightTypeOK' /\ CachesTypeOK' /\ FileOK'
  BY <1>8, <1>10 DEF probeVars, FlightTypeOK, CachesTypeOK, FileOK, SlowIsNotUnseekable
<1> QED BY <1>7, <1>9, <1>11 DEF HandlersInv

LEMMA DemuxTrackInv ==
  ASSUME ExtInv, NEW r \in Job, DemuxTrack(r)
  PROVE  HandlersInv'
<1>1. /\ req \in [Job -> ReqType] /\ req[r] \in ReqType /\ RequestOK(r)
      /\ req[r].pc = "work" /\ req[r].todo > 0
  BY ReqFacts DEF DemuxTrack, Working
<1>2. PICK n \in 1..Tracks : n = req[r].todo
  BY <1>1, ExtractionAssumption DEF ReqType
<1>3. n - 1 \in 0..Tracks /\ Tracks - n + 1 \in 1..Tracks
  BY <1>2, ExtractionAssumption
<1>4. /\ UNCHANGED <<flight, probeVars, extracted, winBad, worldVars>> /\ UNCHANGED execVars
      /\ UNCHANGED <<seekable, drops>> /\ UNCHANGED thumbVars
  BY DEF DemuxTrack, worldVars
<1>5. ThumbsTypeOK' /\ ListOK'
  BY <1>4, QuietThumbs
<1>6. subs \in SUBSET SubKey /\ FileOK
  BY InvParts DEF HandlersInv, CachesTypeOK
<1>7. req[r].res # "cancelled" /\ WindowOK(r)
  BY <1>1 DEF RequestOK, CancelledOK
<1>8. CASE /\ subs' = subs \cup {[track |-> Tracks - req[r].todo + 1, window |-> req[r].path = "window",
                                  native |-> TRUE]}
           /\ req' = [req EXCEPT ![r].todo = @ - 1, ![r].stored = TRUE]
  <2>1. PICK x : x = [req[r] EXCEPT !.todo = n - 1, !.stored = TRUE]
    OBVIOUS
  <2>2. /\ x \in ReqType /\ x.pc = "work" /\ x.path = req[r].path /\ x.key = req[r].key
        /\ x.left = req[r].left /\ x.res = req[r].res /\ x.stored
    BY <1>1, <1>3, <2>1 DEF ReqType
  <2>3. req' = [req EXCEPT ![r] = x]
    BY <1>1, <1>2, <1>8, <2>1
  <2>4. subs' \in SUBSET SubKey
    <3>1. PICK i \in 1..Tracks : i = Tracks - req[r].todo + 1
      BY <1>2, <1>3
    <3>2. PICK w \in BOOLEAN : w = (req[r].path = "window")
      OBVIOUS
    <3>3. subs' = subs \cup {[track |-> i, window |-> w, native |-> TRUE]}
      BY <1>8, <3>1, <3>2
    <3>4. [track |-> i, window |-> w, native |-> TRUE] \in SubKey
      BY DEF SubKey
    <3> QED BY <1>6, <3>3, <3>4
  <2>5. req'[r] = x
    BY <1>1, <2>3
  <2>6. WindowOK(r)'
    BY <2>2, <2>5 DEF WindowOK
  <2> QED BY <1>1, <1>4, <1>5, <1>7, <2>2, <2>3, <2>4, <2>6, WorkStep
<1>9. CASE /\ torrent = "gone" \/ req[r].path = "whole" \/ ~seekable
           /\ req' = [req EXCEPT ![r].todo = @ - 1]
           /\ UNCHANGED subs
  <2>1. PICK x : x = [req[r] EXCEPT !.todo = n - 1]
    OBVIOUS
  <2>2. /\ x \in ReqType /\ x.pc = "work" /\ x.path = req[r].path /\ x.key = req[r].key
        /\ x.left = req[r].left /\ x.res = req[r].res
    BY <1>1, <1>3, <2>1 DEF ReqType
  <2>3. req' = [req EXCEPT ![r] = x]
    BY <1>1, <1>2, <1>9, <2>1
  <2>4. req'[r] = x
    BY <1>1, <2>3
  <2>5. drops = 0 => torrent = "active"
    BY <1>6 DEF FileOK
  <2>6. WindowOK(r)'
    BY <1>4, <1>9, <2>2, <2>4, <2>5 DEF WindowOK
  <2> QED BY <1>1, <1>4, <1>5, <1>6, <1>7, <1>9, <2>2, <2>3, <2>6, WorkStep
<1>10. CASE req' = [req EXCEPT ![r].pc = "release", ![r].res = "later"] /\ UNCHANGED subs
  <2>1. PICK x : x = [req[r] EXCEPT !.pc = "release", !.res = "later"]
    OBVIOUS
  <2>2. /\ x \in ReqType /\ x.pc = "release" /\ x.path = req[r].path /\ x.key = req[r].key
        /\ x.left = req[r].left /\ x.res = "later"
    BY <1>1, <2>1 DEF ReqType, Pcs, Result
  <2>3. req' = [req EXCEPT ![r] = x]
    BY <1>1, <1>10, <2>1
  <2>4. req'[r] = x
    BY <1>1, <2>3
  <2>5. WindowOK(r)'
    BY <2>2, <2>4 DEF WindowOK
  <2> QED BY <1>1, <1>4, <1>5, <1>6, <1>10, <2>2, <2>3, <2>5, WorkStep
<1> QED BY <1>8, <1>9, <1>10 DEF DemuxTrack

LEMMA DemuxOneInv ==
  ASSUME ExtInv, NEW r \in Job, DemuxOne(r)
  PROVE  HandlersInv'
<1>1. /\ req \in [Job -> ReqType] /\ req[r] \in ReqType /\ RequestOK(r) /\ KeyOK(r)
      /\ req[r].pc = "work" /\ ~Batch(r)
  BY ReqFacts DEF DemuxOne, Working
<1>2. /\ UNCHANGED <<flight, probeVars, extracted, winBad, worldVars>> /\ UNCHANGED execVars
  BY DEF DemuxOne
<1>3. subs \in SUBSET SubKey /\ ThumbsTypeOK /\ ListOK
  BY InvParts DEF HandlersInv, CachesTypeOK
<1>4. req[r].res # "cancelled"
  BY <1>1 DEF RequestOK, CancelledOK
<1>5. ASSUME NEW res \in Result \ {"cancelled"}, req' = [req EXCEPT ![r].pc = "release", ![r].res = res],
             subs' \in SUBSET SubKey, ThumbsTypeOK', ListOK'
      PROVE  HandlersInv'
  <2>1. PICK x : x = [req[r] EXCEPT !.pc = "release", !.res = res]
    OBVIOUS
  <2>2. /\ x \in ReqType /\ x.pc = "release" /\ x.path = req[r].path /\ x.key = req[r].key
        /\ x.left = req[r].left /\ x.res = res
    BY <1>1, <2>1 DEF ReqType, Pcs, Result
  <2>3. req' = [req EXCEPT ![r] = x]
    BY <1>1, <1>5, <2>1
  <2>4. req'[r] = x
    BY <1>1, <2>3
  <2>5. WindowOK(r)'
    BY <1>1, <2>2, <2>4 DEF WindowOK, Batch
  <2> QED BY <1>1, <1>2, <1>5, <2>2, <2>3, <2>5, WorkStep
<1>6. CASE req' = [req EXCEPT ![r].pc = "release", ![r].res = "error"] /\ UNCHANGED <<subs, thumbVars>>
  <2>1. ThumbsTypeOK' /\ ListOK' /\ subs' \in SUBSET SubKey
    BY <1>3, <1>6, QuietThumbs
  <2>2. "error" \in Result \ {"cancelled"}
    BY DEF Result
  <2> QED BY <1>5, <1>6, <2>1, <2>2
<1>7. CASE /\ IF req[r].path = "thumb" THEN ThumbSet(req[r].key) /\ UNCHANGED subs
                                       ELSE subs' = subs \cup {req[r].key} /\ UNCHANGED thumbVars
           /\ Step(r, "release")
  <2>1. PICK res \in Result \ {"cancelled"} : res = req[r].res
    BY <1>1, <1>4 DEF ReqType
  <2>2. req' = [req EXCEPT ![r].pc = "release", ![r].res = res]
    <3>1. PICK x : x = [req[r] EXCEPT !.pc = "release"]
      OBVIOUS
    <3>2. x = [req[r] EXCEPT !.pc = "release", !.res = res]
      BY <1>1, <2>1, <3>1 DEF ReqType
    <3>3. req' = [req EXCEPT ![r] = x]
      BY <1>1, <1>7, <3>1 DEF Step
    <3> QED BY <1>1, <3>2, <3>3
  <2>3. CASE req[r].path = "thumb"
    <3>1. req[r].key \in Thumb /\ ThumbSet(req[r].key) /\ UNCHANGED subs
      BY <1>1, <1>7, <2>3 DEF KeyOK
    <3>2. ThumbsTypeOK' /\ ListOK'
      BY <1>3, <3>1, ThumbSetOK
    <3> QED BY <1>3, <1>5, <2>2, <3>1, <3>2
  <2>4. CASE req[r].path = "single"
    <3>1. req[r].key \in SubKey /\ subs' = subs \cup {req[r].key} /\ UNCHANGED thumbVars
      BY <1>1, <1>7, <2>4 DEF KeyOK
    <3>2. subs' \in SUBSET SubKey
      BY <1>3, <3>1
    <3> QED BY <1>5, <2>2, <3>1, <3>2, QuietThumbs
  <2>5. req[r].path \in {"thumb", "single"}
    BY <1>1 DEF ReqType, Path, Batch, RequestOK, PlaceOK
  <2> QED BY <2>3, <2>4, <2>5
<1> QED BY <1>6, <1>7 DEF DemuxOne

LEMMA LeaveInv ==
  ASSUME ExtInv, NEW r \in Job, Leave(r)
  PROVE  HandlersInv'
<1>1. /\ req[r] \in ReqType /\ RequestOK(r) /\ KeyOK(r) /\ PlaceOK(r)
      /\ req[r].pc \in {"work", "release"}
  BY ReqFacts DEF Leave, Over, Working
<1>2. ExecTypeOK /\ Release(r)
  BY InvParts DEF Leave
<1>3. ForOne(r) /\ r \notin ended' /\ job'[r].pc # "failed"
  BY <1>2, ReleaseForOne
<1>4. /\ UNCHANGED <<cacheVars, worldVars>> /\ UNCHANGED thumbVars
      /\ UNCHANGED <<seekable, drops, extracted>>
  BY DEF Leave, cacheVars, subVars, worldVars
<1>5. PICK res \in Result \ {"cancelled"} : res = req[r].res
  BY <1>1 DEF ReqType, RequestOK, CancelledOK
<1>6. CASE Batch(r) /\ req[r].res = "ok" /\ Step(r, "mark") /\ UNCHANGED flight
  <2>1. Only(r) /\ req'[r] = [req[r] EXCEPT !.pc = "mark"]
    BY <1>6, StepMoves DEF Pcs
  <2>2. /\ req'[r].pc = "mark" /\ req'[r].path = req[r].path /\ req'[r].key = req[r].key
        /\ req'[r].stored = req[r].stored
    BY <1>1, <2>1 DEF ReqType
  <2>3. req[r].pc = "work" /\ req[r].todo = 0
    BY <1>1, <1>6 DEF Leave, Over, RequestOK, WindowOK
  <2>4. Tracks # 0
    BY <1>1, <1>6 DEF KeyOK, Batch, SubKey
  <2>5. WindowOK(r)'
    BY <1>1, <1>4, <2>2, <2>3, <2>4 DEF RequestOK, WindowOK
  <2>6. KeyOK(r)' /\ PlaceOK(r)' /\ FlightOK(r)' /\ NotAgain(r)'
    BY <1>1, <1>6, <2>2 DEF RequestOK, KeyOK, PlaceOK, FlightOK, Leads, FlightOf, NotAgain, Batch
  <2>7. EndedOK(r)' /\ CancelledOK(r)'
    BY <1>3, <2>2 DEF EndedOK, CancelledOK
  <2>8. RequestOK(r)'
    BY <2>5, <2>6, <2>7 DEF RequestOK
  <2> QED BY <1>3, <1>4, <1>6, <2>1, <2>8, LocalStep
<1>7. CASE req[r].path = "single" /\ Conclude(r, req[r].res)
  <2>1. Reply(r, res) /\ UNCHANGED flight
    BY <1>5, <1>7 DEF Conclude
  <2>2. Only(r) /\ req'[r] = [req[r] EXCEPT !.pc = "reply", !.res = res]
    BY <2>1, ReplyMoves
  <2>3. req'[r].pc = "reply" /\ req'[r].res = res /\ KeyOK(r)' /\ PlaceOK(r)'
    BY <1>1, <2>2 DEF ReqType, KeyOK, PlaceOK
  <2>4. RequestOK(r)'
    BY <1>3, <2>3, CalmOK
  <2> QED BY <1>3, <1>4, <2>1, <2>2, <2>4, LocalStep
<1>8. CASE req[r].path # "single" /\ Conclude(r, req[r].res)
  <2>1. Land(r, res) /\ Leads(r)
    BY <1>1, <1>5, <1>8 DEF Conclude, Leads
  <2>2. ReqsTypeOK' /\ FlightTypeOK' /\ RequestsOK'
    BY <1>3, <1>4, <2>1, LandInv
  <2> QED BY <1>4, <2>2, QuietCaches, QuietThumbs DEF HandlersInv
<1> QED BY <1>6, <1>7, <1>8 DEF Leave

LEMMA MarkInv ==
  ASSUME ExtInv, NEW r \in Job, Mark(r)
  PROVE  HandlersInv'
<1>1. RequestOK(r) /\ PlaceOK(r) /\ req[r].pc = "mark"
  BY ReqFacts DEF Mark
<1>2. Leads(r) /\ Land(r, "ok")
  BY <1>1 DEF PlaceOK, Leads, Mark
<1>3. ForOne(r) /\ r \notin ended' /\ job'[r].pc # "failed"
  BY <1>1, NotWaiting, ExecQuiet DEF Mark
<1>4. UNCHANGED thumbVars /\ UNCHANGED <<metadata, duration, subs, torrent, seekable, drops, scenario>>
  BY DEF Mark, probeVars, worldVars
<1>5. extracted' => extracted \/ req[r].path = "whole"
  BY DEF Mark
<1>6. ReqsTypeOK' /\ FlightTypeOK' /\ RequestsOK'
  BY <1>2, <1>3, <1>4, <1>5, LandInv DEF Result
<1>7. CachesTypeOK /\ FileOK
  BY InvParts DEF HandlersInv
<1>8. extracted' \in BOOLEAN /\ winBad' \in BOOLEAN
  BY DEF Mark
<1>9. CachesTypeOK'
  BY <1>4, <1>7, <1>8 DEF CachesTypeOK
<1>10. FileOK'
  <2>1. ASSUME winBad', seekable, drops = 0
        PROVE  FALSE
    <3>1. ~winBad
      BY <1>7, <2>1 DEF FileOK, SlowIsNotUnseekable
    <3>2. req[r].path = "window" /\ ~req[r].stored
      BY <2>1, <3>1 DEF Mark
    <3> QED BY <1>1, <2>1, <3>2 DEF RequestOK, WindowOK
  <2>2. drops \in Nat
    BY <1>7, ExtractionAssumption DEF CachesTypeOK
  <2> QED BY <1>4, <1>7, <2>1, <2>2 DEF FileOK, SlowIsNotUnseekable
<1> QED BY <1>4, <1>6, <1>9, <1>10, QuietThumbs DEF HandlersInv

-----------------------------------------------------------------------------
(* Time and the torrent *)

LEMMA ThumbAgesInv ==
  ASSUME ExtInv, NEW k \in Thumb, ThumbAges(k)
  PROVE  HandlersInv'
<1>1. HandlersInv
  BY InvParts
<1>2. ThumbsTypeOK'
  BY <1>1 DEF HandlersInv, ThumbsTypeOK, ThumbAges
<1>3. Cached' = Cached /\ order' = order
  BY <1>1, ExtractionAssumption DEF HandlersInv, ThumbsTypeOK, Cached, ThumbAges
<1>4. ListOK'
  BY <1>1, <1>3 DEF HandlersInv, ListOK, Distinct, Elems
<1>5. /\ UNCHANGED <<cacheVars, worldVars>>
      /\ UNCHANGED <<req, flight, job, ended, extracted, seekable, drops>>
  BY DEF ThumbAges, cacheVars, subVars, worldVars, execVars
<1>6. ASSUME NEW q \in Job
      PROVE  RequestOK(q)'
  <2>1. RequestOK(q) /\ NotAgain(q) /\ FlightOK(q) /\ EndedOK(q)
    BY ReqFacts DEF RequestOK
  <2> QED BY <1>5, <2>1, Bystander DEF FlightOK, EndedOK
<1>7. ReqsTypeOK' /\ FlightTypeOK'
  BY <1>1, <1>5 DEF HandlersInv, ReqsTypeOK, FlightTypeOK
<1> QED BY <1>2, <1>4, <1>5, <1>6, <1>7, QuietCaches DEF HandlersInv, RequestsOK

LEMMA WorldInv ==
  ASSUME ExtInv, Purge \/ ClientDrop \/ ReAdd
  PROVE  HandlersInv'
<1>1. HandlersInv
  BY InvParts
<1>2. UNCHANGED <<req, flight, job, ended, seekable, scenario>> /\ UNCHANGED thumbVars
  BY DEF Purge, ClientDrop, ReAdd, execVars
<1>3. drops \in Nat /\ drops <= MaxDrops
  BY <1>1, ExtractionAssumption DEF HandlersInv, CachesTypeOK
<1>4. (drops' = 0 => drops = 0) /\ (extracted' => extracted)
  BY <1>3 DEF Purge, ClientDrop, ReAdd, cacheVars, subVars
<1>5. ASSUME NEW q \in Job
      PROVE  RequestOK(q)'
  <2>1. RequestOK(q) /\ NotAgain(q) /\ FlightOK(q) /\ EndedOK(q)
    BY ReqFacts DEF RequestOK
  <2> QED BY <1>2, <1>4, <2>1, Bystander DEF FlightOK, EndedOK
<1>6. ReqsTypeOK' /\ FlightTypeOK'
  BY <1>1, <1>2 DEF HandlersInv, ReqsTypeOK, FlightTypeOK
<1>7. CachesTypeOK' /\ FileOK'
  <2>1. CachesTypeOK /\ FileOK
    BY <1>1 DEF HandlersInv
  <2>2. CASE Purge
    <3>1. drops' = drops + 1 /\ drops + 1 \in 0..MaxDrops /\ drops + 1 > 0
      BY <1>3, <2>2, ExtractionAssumption DEF Purge
    <3>2. CachesTypeOK'
      BY <1>2, <2>1, <2>2, <3>1 DEF Purge, CachesTypeOK
    <3>3. FileOK'
      BY <2>2, <3>1 DEF Purge, FileOK, SlowIsNotUnseekable
    <3> QED BY <3>2, <3>3
  <2>3. CASE ClientDrop \/ ReAdd
    BY <1>2, <2>1, <2>3 DEF ClientDrop, ReAdd, cacheVars, probeVars, subVars, CachesTypeOK, FileOK, SlowIsNotUnseekable
  <2> QED BY <2>2, <2>3
<1> QED BY <1>2, <1>5, <1>6, <1>7, QuietThumbs DEF HandlersInv, RequestsOK

-----------------------------------------------------------------------------

LEMMA ExtInit == Init => ExtInv
<1> SUFFICES ASSUME Init
             PROVE  ExtInv
  OBVIOUS
<1>1. ExecTypeOK
  BY InitInv DEF Init, ExecInv
<1>2. NoReq \in ReqType /\ NoReq.pc = "idle" /\ NoReq.path = "meta"
  BY ExtractionAssumption DEF NoReq, ReqType, Pcs, Path, Result
<1>3. ReqsTypeOK /\ \A r \in Job : req[r] = NoReq
  BY <1>2 DEF Init, ReqsTypeOK
<1>4. FlightTypeOK
  BY DEF Init, FlightTypeOK
<1>5. CachesTypeOK /\ FileOK
  <2>1. seekable \in BOOLEAN
    BY DEF Init
  <2>2. 0 \in 0..MaxDrops
    BY ExtractionAssumption
  <2>3. CachesTypeOK
    BY <2>1, <2>2 DEF Init, CachesTypeOK
  <2> QED BY <2>3 DEF Init, FileOK, SlowIsNotUnseekable
<1>6. ThumbsTypeOK
  BY EmptySeq DEF Init, ThumbsTypeOK
<1>7. ListOK
  <2>1. Len(order) = 0 /\ Cached = {}
    BY EmptySeq DEF Init, Cached
  <2> QED BY <2>1, ExtractionAssumption DEF ListOK, Distinct, Elems
<1>8. ASSUME NEW r \in Job
      PROVE  RequestOK(r)
  <2>1. req[r].pc = "idle" /\ req[r].path = "meta"
    BY <1>2, <1>3
  <2>2. r \notin ended /\ job[r].pc # "failed"
    BY OutType DEF Init, ExecInit
  <2>3. KeyOK(r) /\ PlaceOK(r) /\ FlightOK(r) /\ NotAgain(r)
    BY <2>1 DEF KeyOK, PlaceOK, FlightOK, Leads, NotAgain
  <2>4. EndedOK(r) /\ CancelledOK(r) /\ WindowOK(r)
    BY <2>1, <2>2 DEF EndedOK, CancelledOK, WindowOK
  <2> QED BY <2>3, <2>4 DEF RequestOK
<1> QED BY <1>1, <1>3, <1>4, <1>5, <1>6, <1>7, <1>8, InvParts DEF HandlersInv, RequestsOK

LEMMA ExtStutter ==
  ASSUME ExtInv, UNCHANGED vars
  PROVE  HandlersInv'
<1>1. HandlersInv
  BY InvParts
<1>2. /\ UNCHANGED <<req, flight, job, ended, extracted, seekable, drops>>
      /\ UNCHANGED <<cacheVars, worldVars>> /\ UNCHANGED thumbVars
  BY DEF vars, cacheVars, subVars, worldVars, thumbVars, execVars
<1>3. ASSUME NEW q \in Job
      PROVE  RequestOK(q)'
  <2>1. RequestOK(q) /\ NotAgain(q) /\ FlightOK(q) /\ EndedOK(q)
    BY ReqFacts DEF RequestOK
  <2> QED BY <1>2, <2>1, Bystander DEF FlightOK, EndedOK
<1>4. ReqsTypeOK' /\ FlightTypeOK'
  BY <1>1, <1>2 DEF HandlersInv, ReqsTypeOK, FlightTypeOK
<1> QED BY <1>2, <1>3, <1>4, QuietCaches, QuietThumbs DEF HandlersInv, RequestsOK

LEMMA ProgressKeeps ==
  ASSUME ExtInv, NEW r \in Job, Progress(r)
  PROVE  HandlersInv'
BY LoadInv, BatchedInv, FlyInv, RecheckInv, ProbeInv, ReloadInv, AcquireInv, ContextEndsInv, NotAdmittedInv,
   DemuxTrackInv, DemuxOneInv, LeaveInv, MarkInv, FinishInv DEF Progress

LEMMA ExtStep == ExtInv /\ [Next]_vars => ExtInv'
<1> SUFFICES ASSUME ExtInv, [Next]_vars
             PROVE  ExtInv'
  OBVIOUS
<1>1. ExecTypeOK'
  BY StepUsesExecutor, TypeStep, InvParts
<1>2. HandlersInv'
  <2>1. CASE UNCHANGED vars
    BY <2>1, ExtStutter
  <2>2. ASSUME NEW r \in Job,
               \/ "meta" \in scenario /\ HandleGetMediaMetadata(r)
               \/ "duration" \in scenario /\ GetOrProbeDuration(r)
               \/ \E key \in Asked : HandleGetSubtitles(r, key)
               \/ \E k \in Thumb : "thumb" \in scenario /\ HandleGetThumbnail(r, k)
               \/ ClientLeaves(r) \/ Progress(r) \/ ExecutorStep(r)
        PROVE  HandlersInv'
    BY <2>2, HandleInv, ClientLeavesInv, ProgressKeeps, ExecutorStepInv
  <2>3. CASE \E k \in Thumb : ThumbAges(k)
    BY <2>3, ThumbAgesInv
  <2>4. CASE Purge \/ ClientDrop \/ ReAdd
    BY <2>4, WorldInv
  <2> QED BY <2>1, <2>2, <2>3, <2>4 DEF Next
<1> QED BY <1>1, <1>2 DEF ExtInv, HandlersInv, TypeOK, ReqsTypeOK, ReqType, FlightTypeOK, CachesTypeOK,
           ThumbsTypeOK

LEMMA ExtAlways == Spec => []ExtInv
BY ExtInit, ExtStep, PTL DEF Spec

\* A whole-file batch that has been done is never begun again, however many requests were on their
\* way to it when it landed.
THEOREM BatchIsDoneOnce == Spec => []OneBatchPerFile
<1>1. ExtInv => OneBatchPerFile
  BY DEF ExtInv, RequestsOK, RequestOK, NotAgain, OneBatchPerFile
<1> QED BY <1>1, ExtAlways, PTL

\* Whoever leaves, only its own subtitles are cancelled: no request in another one's flight is.
THEOREM OnlyLeaversAreCancelled == Spec => []LeaverHurtsNobody
<1>1. ExtInv => LeaverHurtsNobody
  BY DEF ExtInv, RequestsOK, RequestOK, CancelledOK, LeaverHurtsNobody
<1> QED BY <1>1, ExtAlways, PTL

\* However slow the file and however often its windows run into the deadline, they are not given
\* up while the torrent has not been dropped.
THEOREM SlowWindowsAreKept == Spec => []SlowIsNotUnseekable
<1>1. ExtInv => SlowIsNotUnseekable
  BY DEF ExtInv, FileOK
<1> QED BY <1>1, ExtAlways, PTL

\* The thumbnail cache's list and map agree, within the limit, for any positions and any limit.
THEOREM ThumbsAreListed == Spec => []ThumbListMatchesMap
<1>1. ASSUME ExtInv
      PROVE  ThumbListMatchesMap
  <2>1. ThumbsTypeOK /\ ListOK
    BY <1>1, InvParts DEF HandlersInv
  <2> QED BY <2>1, CachedCount DEF ListOK, ThumbListMatchesMap, Cached, Elems
<1> QED BY <1>1, ExtAlways, PTL
=============================================================================
