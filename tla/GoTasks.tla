------------------------------ MODULE GoTasks ------------------------------
(***************************************************************************)
(* run_task_async and CancelableTask (src/pipebomb/utils.py) for functions *)
(* that are not coroutines, with the two threads that can run them: a      *)
(* goroutine (src/pipebomb/gsyncio) or, where the Go library is missing, a *)
(* thread of asyncio.to_thread.  On the other side is the event loop's     *)
(* thread, which starts tasks, awaits their results and cancels them.      *)
(*                                                                         *)
(* A goroutine asks for the event loop of its own thread.  server.py       *)
(* applies nest_asyncio, under which a thread without a loop is given a    *)
(* new one; it is not running, so the event is set there and then, from a  *)
(* thread that is not the waiter's, and nothing interrupts the select()    *)
(* that the waiter's loop may be blocked in.                               *)
(***************************************************************************)
EXTENDS Naturals

CONSTANT MaxTasks   \* bound: tasks started

ASSUME TasksAssumption == MaxTasks \in Nat

Tasks == 1 .. MaxTasks

VARIABLES
    mode,     \* "go", or the library ("cffi") or the extension ("none") is missing
    born,     \* tasks started: nextTaskId - 1
    task,     \* the asyncio task that awaits the result
    job,      \* the goroutine, or the thread, that computes it
    ran,      \* the callback has been called
    event,    \* the task's asyncio.Event
    moved,    \* entry.canceled points to a flag of Go's own that is 1
    flag,     \* _cancel_flags[id][0]
    map,      \* cancellationMap
    asked,    \* CancelableTask._cancelled
    doomed,   \* the asyncio task has been told to end
    loop,     \* the event loop runs its tasks, or is blocked in select()
    spared,   \* history: cancelled before the goroutine looked at its flag
    raced     \* history: the event was set while wait() was under way

goVars == <<mode, born, task, job, ran, event, moved, flag, map, asked, doomed,
            loop, spared, raced>>

pyVars == <<task, asked, doomed>>
cancelVars == <<moved, flag, spared>>

(* What _init_gsyncio finds.                                               *)
Modes == {"go", "cffi", "none"}

Awaits == {"none", "new", "checked", "waiting", "woken", "done", "cancelled"}
Jobs == {"none", "ready", "peeked", "running", "returned", "leaving", "over"}

GoTypeOK ==
    /\ mode \in Modes
    /\ born \in 0 .. MaxTasks
    /\ task \in [Tasks -> Awaits]
    /\ job \in [Tasks -> Jobs]
    /\ map \in [Tasks -> {"absent", "false", "true"}]
    /\ ran \in [Tasks -> BOOLEAN] /\ event \in [Tasks -> BOOLEAN]
    /\ moved \in [Tasks -> BOOLEAN] /\ flag \in [Tasks -> BOOLEAN]
    /\ asked \in [Tasks -> BOOLEAN] /\ doomed \in [Tasks -> BOOLEAN]
    /\ spared \in [Tasks -> BOOLEAN] /\ raced \in [Tasks -> BOOLEAN]
    /\ loop \in {"busy", "asleep"}

GoInit ==
    /\ mode \in Modes
    /\ born = 0
    /\ task = [t \in Tasks |-> "none"]
    /\ job = [t \in Tasks |-> "none"]
    /\ ran = [t \in Tasks |-> FALSE]
    /\ event = [t \in Tasks |-> FALSE]
    /\ moved = [t \in Tasks |-> FALSE]
    /\ flag = [t \in Tasks |-> FALSE]
    /\ map = [t \in Tasks |-> "absent"]
    /\ asked = [t \in Tasks |-> FALSE]
    /\ doomed = [t \in Tasks |-> FALSE]
    /\ loop = "busy"
    /\ spared = [t \in Tasks |-> FALSE]
    /\ raced = [t \in Tasks |-> FALSE]

-----------------------------------------------------------------------------
(* The event loop's thread.  Nothing else runs on it while a task is in    *)
(* the middle of Event.wait(); the other threads do.                       *)

Turn == loop = "busy" /\ \A t \in Tasks : task[t] # "checked"

Ended(t) == task[t] \in {"done", "cancelled"}

(* StartGoTaskWithResult.                                                  *)
Launch(t) ==
    /\ job' = [job EXCEPT ![t] = "ready"]
    /\ map' = [map EXCEPT ![t] = "false"]

(* run_task_async.  The goroutine is under way before anybody awaits it.   *)
Start(t) ==
    /\ Turn
    /\ t = born + 1
    /\ born' = t
    /\ task' = [task EXCEPT ![t] = "new"]
    /\ IF mode = "go" THEN Launch(t) ELSE UNCHANGED <<job, map>>
    /\ UNCHANGED <<mode, ran, event, cancelVars, asked, doomed, loop, raced>>

(* StartGoTask: a goroutine that looks at no flag and that nobody awaits.  *)
StartUnwatched(t) ==
    /\ Turn
    /\ mode = "go"
    /\ t = born + 1
    /\ born' = t
    /\ job' = [job EXCEPT ![t] = "running"]
    /\ ran' = [ran EXCEPT ![t] = TRUE]
    /\ map' = [map EXCEPT ![t] = "false"]
    /\ UNCHANGED <<mode, pyVars, event, cancelVars, loop, raced>>

(* The first step of the awaiting task: Event.wait() finds the event set,  *)
(* or is about to queue a future for it; asyncio.to_thread hands the       *)
(* function to the executor.                                               *)
Await(t) ==
    /\ Turn
    /\ task[t] = "new"
    /\ ~doomed[t]
    /\ IF mode = "go"
       THEN /\ task' = [task EXCEPT ![t] = IF event[t] THEN "done" ELSE "checked"]
            /\ UNCHANGED job
       ELSE /\ task' = [task EXCEPT ![t] = "waiting"]
            /\ job' = [job EXCEPT ![t] = "ready"]
    /\ UNCHANGED <<mode, born, ran, event, cancelVars, map, asked, doomed, loop, raced>>

QueueFuture(t) ==
    /\ loop = "busy"
    /\ task[t] = "checked"
    /\ task' = [task EXCEPT ![t] = "waiting"]
    /\ raced' = [raced EXCEPT ![t] = event[t]]
    /\ UNCHANGED <<mode, born, job, ran, event, cancelVars, map, asked, doomed, loop>>

Deliver(t) ==
    /\ Turn
    /\ task[t] = "woken"
    /\ ~doomed[t]
    /\ task' = [task EXCEPT ![t] = "done"]
    /\ UNCHANGED <<mode, born, job, ran, event, cancelVars, map, asked, doomed, loop, raced>>

(* CancelledError reaches the task.  A function that no thread of the      *)
(* executor has begun is taken back.                                       *)
EndCancelled(t) ==
    /\ Turn
    /\ doomed[t]
    /\ ~Ended(t)
    /\ task' = [task EXCEPT ![t] = "cancelled"]
    /\ job' = IF mode # "go" /\ job[t] = "ready"
              THEN [job EXCEPT ![t] = "over"] ELSE job
    /\ UNCHANGED <<mode, born, ran, event, cancelVars, map, asked, doomed, loop, raced>>

(* Variant for mutation: only the map is told of the cancellation.         *)
CancelGoTaskMapOnly(t) ==
    /\ map' = [map EXCEPT ![t] = "true"]
    /\ UNCHANGED <<moved, flag>>

(* CancelGoTask: the entry, if it is still there, gets a pointer to a flag *)
(* that is set, then the flag it had is set as well.  The goroutine reads  *)
(* both without the mutex; what it can see in between is what it sees if   *)
(* the whole comes before, between or after its two reads.                 *)
CancelGoTask(t) ==
    /\ moved' = [moved EXCEPT ![t] = @ \/ job[t] # "over"]
    /\ flag' = [flag EXCEPT ![t] = TRUE]
    /\ map' = [map EXCEPT ![t] = "true"]

(* Variant for mutation: a goroutine that is told is left to end its task. *)
CancelEither(t) ==
    /\ Turn
    /\ task[t] # "none"
    /\ ~asked[t]
    /\ asked' = [asked EXCEPT ![t] = TRUE]
    /\ IF mode = "go"
       THEN /\ CancelGoTask(t)
            /\ spared' = [spared EXCEPT ![t] = job[t] = "ready"]
            /\ UNCHANGED doomed
       ELSE /\ doomed' = [doomed EXCEPT ![t] = mode # "none" /\ ~Ended(t)]
            /\ UNCHANGED <<cancelVars, map>>
    /\ UNCHANGED <<mode, born, task, job, ran, event, loop, raced>>

(* CancelableTask.cancel(), the first time: later calls return False.      *)
(* Without the library CancelGoTask raises a RuntimeError that is caught;  *)
(* without the extension the module has no CancelGoTask, and the           *)
(* AttributeError comes before the asyncio task is cancelled.              *)
Cancel(t) ==
    /\ Turn
    /\ task[t] # "none"
    /\ ~asked[t]
    /\ asked' = [asked EXCEPT ![t] = TRUE]
    /\ doomed' = [doomed EXCEPT ![t] = mode # "none" /\ ~Ended(t)]
    /\ IF mode = "go"
       THEN CancelGoTask(t) /\ spared' = [spared EXCEPT ![t] = job[t] = "ready"]
       ELSE UNCHANGED <<cancelVars, map>>
    /\ UNCHANGED <<mode, born, task, job, ran, event, loop, raced>>

(* The loop blocks when no task of it is ready, and is woken by a socket   *)
(* or a timer, if there are any.                                           *)
Ready(t) == task[t] \in {"new", "woken"} \/ (doomed[t] /\ ~Ended(t))

Sleep ==
    /\ Turn
    /\ \A t \in Tasks : ~Ready(t)
    /\ loop' = "asleep"
    /\ UNCHANGED <<mode, born, pyVars, job, ran, event, cancelVars, map, raced>>

Wake ==
    /\ loop = "asleep"
    /\ loop' = "busy"
    /\ UNCHANGED <<mode, born, pyVars, job, ran, event, cancelVars, map, raced>>

-----------------------------------------------------------------------------
(* The thread that runs the callback.                                      *)

Move(t, place) == job' = [job EXCEPT ![t] = place]

(* *entry.canceled: the pointer, then what it points to.                   *)
ReadPointer(t) ==
    /\ mode = "go"
    /\ job[t] = "ready"
    /\ Move(t, IF moved[t] THEN "leaving" ELSE "peeked")
    /\ UNCHANGED <<mode, born, pyVars, ran, event, cancelVars, map, loop, raced>>

ReadFlag(t) ==
    /\ job[t] = "peeked"
    /\ Move(t, IF flag[t] THEN "leaving" ELSE "running")
    /\ ran' = [ran EXCEPT ![t] = ~flag[t]]
    /\ UNCHANGED <<mode, born, pyVars, event, cancelVars, map, loop, raced>>

(* A thread of the executor takes the function.                            *)
Execute(t) ==
    /\ mode # "go"
    /\ job[t] = "ready"
    /\ Move(t, "running")
    /\ ran' = [ran EXCEPT ![t] = TRUE]
    /\ UNCHANGED <<mode, born, pyVars, event, cancelVars, map, loop, raced>>

(* The callback returns or raises: either is stored as the result.         *)
Return(t) ==
    /\ job[t] = "running"
    /\ Move(t, "returned")
    /\ UNCHANGED <<mode, born, pyVars, ran, event, cancelVars, map, loop, raced>>

Rouse(t) ==
    task' = IF task[t] = "waiting" /\ ~doomed[t]
            THEN [task EXCEPT ![t] = "woken"] ELSE task

(* Variant for mutation: the waiter is looked for, the event is not set.   *)
SignalWaiter(t) ==
    /\ job[t] = "returned"
    /\ Rouse(t)
    /\ IF mode = "go"
       THEN Move(t, "leaving") /\ UNCHANGED loop
       ELSE Move(t, "over") /\ loop' = "busy"
    /\ UNCHANGED <<mode, born, ran, event, cancelVars, map, asked, doomed, raced>>

(* event.set() from the goroutine: a future that is queued is put among    *)
(* the loop's ready callbacks, without a word to a loop that sleeps.  The  *)
(* executor's future uses call_soon_threadsafe, which wakes it.            *)
Signal(t) ==
    /\ job[t] = "returned"
    /\ Rouse(t)
    /\ IF mode = "go"
       THEN Move(t, "leaving") /\ event' = [event EXCEPT ![t] = TRUE] /\ UNCHANGED loop
       ELSE Move(t, "over") /\ loop' = "busy" /\ UNCHANGED event
    /\ UNCHANGED <<mode, born, ran, cancelVars, map, asked, doomed, raced>>

(* Variant for mutation: the deferred function forgets the map.            *)
CleanupKeepsMap(t) ==
    /\ job[t] = "leaving"
    /\ Move(t, "over")
    /\ UNCHANGED <<mode, born, pyVars, ran, event, cancelVars, map, loop, raced>>

(* The goroutine's deferred function takes the task out of both maps.      *)
Cleanup(t) ==
    /\ job[t] = "leaving"
    /\ Move(t, "over")
    /\ map' = [map EXCEPT ![t] = "absent"]
    /\ UNCHANGED <<mode, born, pyVars, ran, event, cancelVars, loop, raced>>

-----------------------------------------------------------------------------

LoopStep(t) == Await(t) \/ QueueFuture(t) \/ Deliver(t) \/ EndCancelled(t)

Thread(t) ==
    \/ ReadPointer(t) \/ ReadFlag(t) \/ Execute(t)
    \/ Return(t) \/ Signal(t) \/ Cleanup(t)

GoNext ==
    \/ \E t \in Tasks :
         Start(t) \/ StartUnwatched(t) \/ Cancel(t) \/ LoopStep(t) \/ Thread(t)
    \/ Sleep
    \/ Wake

GoSpec == GoInit /\ [][GoNext]_goVars

(* The loop runs what is ready, the Go scheduler and the executor run what *)
(* they were given, and callbacks return.  Nothing has to wake the loop.   *)
GoFairSpec ==
    GoSpec /\ \A t \in Tasks : WF_goVars(LoopStep(t)) /\ WF_goVars(Thread(t))

-----------------------------------------------------------------------------

(* IsCanceled, as _IsCanceled (gsyncio.go:128-137) computes it.            *)
IsCanceled(t) == map[t] # "false"

(* A callback whose task was cancelled before its goroutine looked at the  *)
(* cancellation flag is never called, whatever the two threads do next:    *)
(* the pointer is replaced and the flag set for this (gsyncio.go:59-62,    *)
(* 118-125, gsyncio/__init__.py:126-132).                                  *)
SparedNeverRuns == \A t \in Tasks : spared[t] => ~ran[t]

(* What Go says of a task agrees with what Python did with it: it is       *)
(* reported cancelled once it was, also if cancel() came when the          *)
(* goroutine had already taken it out of the map, and when it is over, and *)
(* not before (gsyncio.go:46-56, 118-137).                                 *)
ReportsTrue ==
    \A t \in Tasks : mode = "go" /\ job[t] # "none" =>
        (IsCanceled(t) <=> asked[t] \/ job[t] = "over")

(* Who cancels a task can await it: it ends, whether its goroutine has     *)
(* run, is running or never will, and also when its result was lost to the *)
(* loop or cancel() itself raised (utils.py:261-270).                      *)
CancelEnds == \A t \in Tasks : asked[t] ~> Ended(t)

Returned(t) == job[t] = "over" /\ ran[t] /\ task[t] # "none"

(* A result reaches the task that awaits it as long as something keeps     *)
(* waking the loop, except where event.set() fell between wait()'s look at *)
(* the event and its queueing of a future (utils.py:356-373).              *)
Delivered ==
    []<>(loop = "busy") =>
        \A t \in Tasks : Returned(t) ~> Ended(t) \/ raced[t]

(* A task whose callback has returned gets its result: the README's        *)
(* diagram has the goroutine wake the loop with                            *)
(* loop.call_soon_threadsafe(event.set) (README.md:287).                   *)
ResultArrives == \A t \in Tasks : Returned(t) ~> Ended(t)

=============================================================================
