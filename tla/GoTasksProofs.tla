---------------------------- MODULE GoTasksProofs ----------------------------
(***************************************************************************)
(* For any number of tasks: what the event loop's thread, the goroutines   *)
(* and the executor's threads keep true between them.                      *)
(***************************************************************************)
EXTENDS GoTasks, TLAPS

(* Ids come from a counter: those beyond it are nobody's yet.              *)
Unborn(t) ==
    /\ t > born => task[t] = "none" /\ job[t] = "none"
    /\ task[t] = "none" => ~asked[t] /\ ~doomed[t]
    /\ mode # "go" /\ task[t] \in {"none", "new"} => job[t] = "none"

(* The callback is called on the way from the two reads to "running".      *)
Untouched(t) == job[t] \in {"none", "ready", "peeked"} => ~ran[t]

(* A goroutine that was too late has both reads before it, and either of   *)
(* them will turn it away.                                                 *)
Turned(t) ==
    spared[t] =>
        /\ mode = "go"
        /\ asked[t]
        /\ ~ran[t]
        /\ job[t] \in {"ready", "leaving", "over"}
        /\ moved[t] /\ flag[t]

Reported(t) ==
    mode = "go" /\ job[t] # "none" => (IsCanceled(t) <=> asked[t] \/ job[t] = "over")

TaskInv(t) == Unborn(t) /\ Untouched(t) /\ Turned(t) /\ Reported(t)

GoInv == GoTypeOK /\ \A t \in Tasks : TaskInv(t)

(* What a thread or the loop does for one task it does to no other.        *)
Alike(t) ==
    /\ task'[t] = task[t] /\ job'[t] = job[t] /\ ran'[t] = ran[t]
    /\ asked'[t] = asked[t] /\ doomed'[t] = doomed[t] /\ moved'[t] = moved[t]
    /\ flag'[t] = flag[t] /\ map'[t] = map[t] /\ spared'[t] = spared[t]

LEMMA GoInvInit == GoInit => GoInv
  BY TasksAssumption
  DEF GoInit, GoInv, GoTypeOK, TaskInv, Unborn, Untouched, Turned, Reported, Tasks,
      Modes, Awaits, Jobs

LEMMA GoTypeStep == GoTypeOK /\ [GoNext]_goVars => GoTypeOK'
<1> SUFFICES ASSUME GoTypeOK, [GoNext]_goVars PROVE GoTypeOK'
  OBVIOUS
<1> USE TasksAssumption DEF GoTypeOK, Modes, Awaits, Jobs, Tasks, pyVars, cancelVars
<1>1. ASSUME NEW t \in Tasks, Start(t) \/ StartUnwatched(t) PROVE GoTypeOK'
  <2>1. CASE Start(t) /\ mode = "go"
    <3>1. born' \in 0 .. MaxTasks
      BY <2>1 DEF Start
    <3> QED
      BY <2>1, <3>1 DEF Start, Launch
  <2>2. CASE Start(t) /\ mode # "go"
    BY <2>2 DEF Start
  <2>3. CASE StartUnwatched(t)
    BY <2>3 DEF StartUnwatched
  <2> QED
    BY <1>1, <2>1, <2>2, <2>3
<1>2. ASSUME NEW t \in Tasks, Cancel(t) PROVE GoTypeOK'
  BY <1>2 DEF Cancel, CancelGoTask
<1>3. ASSUME NEW t \in Tasks, LoopStep(t) PROVE GoTypeOK'
  <2>1. CASE Await(t)
    BY <2>1 DEF Await
  <2>2. CASE QueueFuture(t)
    BY <2>2 DEF QueueFuture
  <2>3. CASE Deliver(t) \/ EndCancelled(t)
    BY <2>3 DEF Deliver, EndCancelled
  <2> QED
    BY <1>3, <2>1, <2>2, <2>3 DEF LoopStep
<1>4. ASSUME NEW t \in Tasks, Thread(t) PROVE GoTypeOK'
  <2>1. CASE ReadPointer(t) \/ ReadFlag(t) \/ Execute(t)
    BY <2>1 DEF ReadPointer, ReadFlag, Execute, Move
  <2>2. CASE Return(t) \/ Cleanup(t)
    BY <2>2 DEF Return, Cleanup, Move
  <2>3. CASE Signal(t)
    BY <2>3 DEF Signal, Rouse, Move
  <2> QED
    BY <1>4, <2>1, <2>2, <2>3 DEF Thread
<1>5. CASE Sleep \/ Wake \/ UNCHANGED goVars
  BY <1>5 DEF Sleep, Wake, goVars
<1> QED
  BY <1>1, <1>2, <1>3, <1>4, <1>5 DEF GoNext

(* A step that leaves a task alone leaves what is known of it.             *)
LEMMA AlikeKeeps ==
    ASSUME NEW t \in Tasks, TaskInv(t), mode' = mode, Alike(t), born' >= born,
           born \in Nat, born' \in Nat
    PROVE  TaskInv(t)'
  BY DEF TaskInv, Alike, Unborn, Untouched, Turned, Reported, IsCanceled, Tasks

(* Starting a task: its id is new, so nobody can have cancelled it.        *)
LEMMA StartKeeps ==
    ASSUME NEW t \in Tasks, GoInv, GoTypeOK', Start(t) \/ StartUnwatched(t)
    PROVE  \A s \in Tasks : TaskInv(s)'
<1> USE TasksAssumption DEF Tasks, pyVars, cancelVars
<1>0. born \in Nat /\ born' = born + 1 /\ t = born + 1 /\ mode' = mode
  BY DEF GoInv, GoTypeOK, Start, StartUnwatched
<1>1. ASSUME NEW s \in Tasks, s # t PROVE TaskInv(s)'
  <2>1. Alike(s)
    BY <1>1 DEF Alike, Start, StartUnwatched, Launch, GoInv, GoTypeOK
  <2> QED
    BY <1>0, <2>1, AlikeKeeps DEF GoInv
<1>2. TaskInv(t)'
  <2>1. ~asked[t] /\ ~doomed[t] /\ ~spared[t] /\ ~ran[t] /\ job[t] = "none" /\ task[t] = "none"
    BY <1>0 DEF GoInv, TaskInv, Unborn, Untouched, Turned
  <2>2. CASE Start(t) /\ mode = "go"
    BY <1>0, <2>1, <2>2
    DEF Start, Launch, GoInv, GoTypeOK, TaskInv, Unborn, Untouched, Turned, Reported, IsCanceled
  <2>3. CASE Start(t) /\ mode # "go"
    BY <1>0, <2>1, <2>3
    DEF Start, GoInv, GoTypeOK, TaskInv, Unborn, Untouched, Turned, Reported
  <2>4. CASE StartUnwatched(t)
    BY <1>0, <2>1, <2>4
    DEF StartUnwatched, GoInv, GoTypeOK, TaskInv, Unborn, Untouched, Turned, Reported, IsCanceled
  <2> QED
    BY <2>2, <2>3, <2>4
<1> QED
  BY <1>1, <1>2

(* Cancelling a task: if its goroutine has yet to look, the callback has   *)
(* not been called, and both things it will look at are set in this step.  *)
LEMMA CancelKeeps ==
    ASSUME NEW t \in Tasks, GoInv, Cancel(t)
    PROVE  \A s \in Tasks : TaskInv(s)'
<1> USE DEF pyVars, cancelVars
<1>0. born \in Nat /\ born' = born /\ mode' = mode
  BY TasksAssumption DEF GoInv, GoTypeOK, Cancel
<1>1. ASSUME NEW s \in Tasks, s # t PROVE TaskInv(s)'
  <2>1. Alike(s)
    BY <1>1 DEF Alike, Cancel, CancelGoTask, GoInv, GoTypeOK
  <2> QED
    BY <1>0, <2>1, AlikeKeeps DEF GoInv
<1>2. TaskInv(t)'
  <2>1. ~spared[t] /\ task[t] # "none" /\ TaskInv(t)
    BY DEF Cancel, GoInv, TaskInv, Turned
  <2>2. CASE mode = "go"
    BY <1>0, <2>1, <2>2
    DEF Cancel, CancelGoTask, GoInv, GoTypeOK, TaskInv, Unborn, Untouched, Turned, Reported,
        IsCanceled
  <2>3. CASE mode # "go"
    BY <1>0, <2>1, <2>3
    DEF Cancel, GoInv, GoTypeOK, TaskInv, Unborn, Untouched, Turned, Reported
  <2> QED
    BY <2>2, <2>3
<1> QED
  BY <1>1, <1>2

(* The loop's steps call nothing; only to_thread hands a function over.    *)
LEMMA LoopKeeps ==
    ASSUME NEW t \in Tasks, GoInv, LoopStep(t)
    PROVE  \A s \in Tasks : TaskInv(s)'
<1> USE DEF pyVars, cancelVars
<1>0. born \in Nat /\ born' = born /\ mode' = mode
  BY TasksAssumption DEF GoInv, GoTypeOK, LoopStep, Await, QueueFuture, Deliver, EndCancelled
<1>1. ASSUME NEW s \in Tasks, s # t PROVE TaskInv(s)'
  <2>1. Alike(s)
    BY <1>1 DEF Alike, LoopStep, Await, QueueFuture, Deliver, EndCancelled, GoInv, GoTypeOK
  <2> QED
    BY <1>0, <2>1, AlikeKeeps DEF GoInv
<1>2. TaskInv(t)'
  <2>0. TaskInv(t) /\ GoTypeOK
    BY DEF GoInv
  <2> USE DEF GoTypeOK, TaskInv, Unborn, Untouched, Turned, Reported, IsCanceled, Ended
  <2>1. CASE Await(t)
    BY <1>0, <2>0, <2>1 DEF Await
  <2>2. CASE QueueFuture(t) \/ Deliver(t)
    BY <1>0, <2>0, <2>2 DEF QueueFuture, Deliver
  <2>3. CASE EndCancelled(t)
    BY <1>0, <2>0, <2>3 DEF EndCancelled
  <2> QED
    BY <2>1, <2>2, <2>3 DEF LoopStep
<1> QED
  BY <1>1, <1>2

(* The thread's steps: a spared one never gets past its reads.             *)
LEMMA ThreadKeeps ==
    ASSUME NEW t \in Tasks, GoInv, Thread(t)
    PROVE  \A s \in Tasks : TaskInv(s)'
<1> USE DEF pyVars, cancelVars, Move
<1>0. born \in Nat /\ born' = born /\ mode' = mode
  BY TasksAssumption
  DEF GoInv, GoTypeOK, Thread, ReadPointer, ReadFlag, Execute, Return, Signal, Cleanup
<1>1. ASSUME NEW s \in Tasks, s # t PROVE TaskInv(s)'
  <2>1. Alike(s)
    BY <1>1
    DEF Alike, Thread, ReadPointer, ReadFlag, Execute, Return, Signal, Rouse, Cleanup,
        GoInv, GoTypeOK
  <2> QED
    BY <1>0, <2>1, AlikeKeeps DEF GoInv
<1>2. TaskInv(t)'
  <2>0. TaskInv(t) /\ GoTypeOK
    BY DEF GoInv
  <2> USE DEF GoTypeOK, TaskInv, Unborn, Untouched, Turned, Reported, IsCanceled
  <2>1. CASE ReadPointer(t)
    BY <1>0, <2>0, <2>1 DEF ReadPointer
  <2>2. CASE ReadFlag(t)
    BY <1>0, <2>0, <2>2 DEF ReadFlag
  <2>3. CASE Execute(t)
    BY <1>0, <2>0, <2>3 DEF Execute
  <2>4. CASE Return(t)
    BY <1>0, <2>0, <2>4 DEF Return
  <2>5. CASE Signal(t)
    BY <1>0, <2>0, <2>5 DEF Signal, Rouse
  <2>6. CASE Cleanup(t)
    BY <1>0, <2>0, <2>6 DEF Cleanup
  <2> QED
    BY <2>1, <2>2, <2>3, <2>4, <2>5, <2>6 DEF Thread
<1> QED
  BY <1>1, <1>2

LEMMA GoInvStep == GoInv /\ [GoNext]_goVars => GoInv'
<1> SUFFICES ASSUME GoInv, [GoNext]_goVars PROVE GoInv'
  OBVIOUS
<1>0. GoTypeOK'
  BY GoTypeStep DEF GoInv
<1>1. ASSUME NEW t \in Tasks, Start(t) \/ StartUnwatched(t) PROVE GoInv'
  BY <1>0, <1>1, StartKeeps DEF GoInv
<1>2. ASSUME NEW t \in Tasks, Cancel(t) PROVE GoInv'
  BY <1>0, <1>2, CancelKeeps DEF GoInv
<1>3. ASSUME NEW t \in Tasks, LoopStep(t) PROVE GoInv'
  BY <1>0, <1>3, LoopKeeps DEF GoInv
<1>4. ASSUME NEW t \in Tasks, Thread(t) PROVE GoInv'
  BY <1>0, <1>4, ThreadKeeps DEF GoInv
<1>5. CASE Sleep \/ Wake \/ UNCHANGED goVars
  <2>1. UNCHANGED <<mode, born, task, job, ran, moved, flag, map, asked, doomed,
                  spared>>
    BY <1>5 DEF Sleep, Wake, goVars, pyVars, cancelVars
  <2> QED
    BY <1>0, <2>1 DEF GoInv, TaskInv, Unborn, Untouched, Turned, Reported, IsCanceled
<1> QED
  BY <1>1, <1>2, <1>3, <1>4, <1>5 DEF GoNext

LEMMA GoInvAlways == GoSpec => []GoInv
  BY GoInvInit, GoInvStep, PTL DEF GoSpec

(* A callback cancelled before its goroutine looked at the flag is never   *)
(* called, for any number of tasks and whatever the threads do in between  *)
(* (gsyncio.go:59-62, 118-125).                                            *)
THEOREM CancelledInTimeNeverRuns == GoSpec => []SparedNeverRuns
<1>1. GoInv => SparedNeverRuns
  BY DEF GoInv, TaskInv, Turned, SparedNeverRuns
<1> QED
  BY <1>1, GoInvAlways, PTL

(* IsCanceled tells the truth about every goroutine that was started: the  *)
(* order of the cancellation and of the deferred cleanup does not matter   *)
(* (gsyncio.go:46-56, 118-137).                                            *)
THEOREM GoReportsTrue == GoSpec => []ReportsTrue
<1>1. GoInv => ReportsTrue
  BY DEF GoInv, TaskInv, Reported, ReportsTrue
<1> QED
  BY <1>1, GoInvAlways, PTL

=============================================================================
