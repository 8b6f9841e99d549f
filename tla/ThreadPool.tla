----------------------------- MODULE ThreadPool -----------------------------
(***************************************************************************)
(* The worker threads that run coroutines, src/src/async/ThreadPool.cpp,   *)
(* and the main thread that stops them, src/src/main.cpp:65-67.            *)
(*                                                                         *)
(* Coroutine handles are pushed by other threads (the event loop) and by   *)
(* the workers themselves while they run a coroutine.  A condition variable *)
(* is the set of threads asleep on it; a notification is a step of its own, *)
(* taken after the lock is released, and wakes one sleeper if there is one. *)
(***************************************************************************)
EXTENDS Integers, Sequences, FiniteSets

CONSTANTS
    Workers,    \* the threads of the pool
    Others,     \* threads outside the pool that schedule coroutines
    Handles,    \* the resumptions asked for: each is scheduled once
    Null,       \* nullptr, pushed to stop a worker
    Main,       \* the thread that calls waitEmpty and blockingStop
    None        \* no thread, no handle

ASSUME WorkersAssumption == IsFiniteSet(Workers)
ASSUME NamesAssumption ==
    /\ Workers \cap Others = {}
    /\ {Main, None} \cap (Workers \cup Others) = {} /\ Main # None
    /\ {Null, None} \cap Handles = {} /\ Null # None

VARIABLES
    tasks,      \* the stack of handles, its top last
    popLock,    \* the thread that holds popLock
    pc,         \* worker -> where its loop is
    task,       \* worker -> the handle it took
    notifying,  \* threads that pushed and have not called notify_one yet
    fresh,      \* handles nobody scheduled so far
    ran,        \* handles whose resumption has ended
    stopFlag,
    main,       \* where the main thread is
    poisons     \* how many null handles blockingStop has pushed

vars == <<tasks, popLock, pc, task, notifying, fresh, ran, stopFlag, main,
          poisons>>

WorkerPCs == {"check", "lock", "asleep", "take", "remove", "run", "exited"}

MainPCs == {"work", "tested", "asleep", "empty", "stopping", "stopped"}

N == Cardinality(Workers)

Init ==
    /\ tasks = <<>>
    /\ popLock = None
    /\ pc = [w \in Workers |-> "check"]
    /\ task = [w \in Workers |-> None]
    /\ notifying = {}
    /\ fresh = Handles
    /\ ran = {}
    /\ stopFlag = FALSE
    /\ main = "work"
    /\ poisons = 0

-----------------------------------------------------------------------------
(* The loop of a worker *)

Goto(w, from, to) == pc[w] = from /\ pc' = [pc EXCEPT ![w] = to]

Check(w) ==
    /\ Goto(w, "check", IF stopFlag THEN "exited" ELSE "lock")
    /\ UNCHANGED <<tasks, popLock, task, notifying, fresh, ran, stopFlag,
                   main, poisons>>

(* popCondition.wait with the lock: the predicate holds at once ... *)
LockFull(w) ==
    /\ popLock = None /\ tasks # <<>>
    /\ Goto(w, "lock", "take")
    /\ popLock' = w
    /\ UNCHANGED <<tasks, task, notifying, fresh, ran, stopFlag, main,
                   poisons>>

(* ... or the worker falls asleep and releases the lock in one. *)
LockEmpty(w) ==
    /\ popLock = None /\ tasks = <<>>
    /\ Goto(w, "lock", "asleep")
    /\ UNCHANGED <<tasks, popLock, task, notifying, fresh, ran, stopFlag,
                   main, poisons>>

(* A condition variable may wake a sleeper that nobody notified. *)
WakeSpuriously(w) ==
    /\ Goto(w, "asleep", "lock")
    /\ UNCHANGED <<tasks, popLock, task, notifying, fresh, ran, stopFlag,
                   main, poisons>>

Take(w) ==
    /\ Goto(w, "take", "remove")
    /\ task' = [task EXCEPT ![w] = tasks[Len(tasks)]]
    /\ UNCHANGED <<tasks, popLock, notifying, fresh, ran, stopFlag, main,
                   poisons>>

\* Mutant: the bottom of the stack is removed, its top was taken.
RemoveBottom(w) ==
    /\ Goto(w, "remove", "run")
    /\ tasks' = Tail(tasks)
    /\ main' = IF tasks' = <<>> /\ main = "asleep" THEN "work" ELSE main
    /\ popLock' = None
    /\ UNCHANGED <<task, notifying, fresh, ran, stopFlag, poisons>>

(* pop_back; the last handle gone, waitEmpty is notified; unlock. *)
Remove(w) ==
    /\ Goto(w, "remove", "run")
    /\ tasks' = SubSeq(tasks, 1, Len(tasks) - 1)
    /\ main' = IF tasks' = <<>> /\ main = "asleep" THEN "work" ELSE main
    /\ popLock' = None
    /\ UNCHANGED <<task, notifying, fresh, ran, stopFlag, poisons>>

(* The coroutine has run until its next suspension; a null handle is       *)
(* skipped.                                                                *)
RunEnds(w) ==
    /\ w \notin notifying
    /\ Goto(w, "run", "check")
    /\ task' = [task EXCEPT ![w] = None]
    /\ ran' = ran \cup ({task[w]} \ {Null})
    /\ UNCHANGED <<tasks, popLock, notifying, fresh, stopFlag, main, poisons>>

-----------------------------------------------------------------------------
(* resumeCoroutine *)

(* A worker schedules only from a coroutine it runs; the other threads     *)
(* until the event loop is stopped, before blockingStop.                   *)
MaySchedule(s) ==
    /\ s \notin notifying
    /\ s \in Others => main \in {"work", "tested", "asleep"}
    /\ s \in Workers => pc[s] = "run" /\ task[s] # Null

Push(s, h) ==
    /\ popLock = None
    /\ tasks' = Append(tasks, h)
    /\ notifying' = notifying \cup {s}

\* Mutant: only a push on an empty stack notifies.
ScheduleNotifiesOnce(s) ==
    /\ MaySchedule(s) /\ popLock = None
    /\ \E h \in fresh :
          /\ tasks' = Append(tasks, h)
          /\ notifying' = IF tasks = <<>> THEN notifying \cup {s}
                          ELSE notifying
          /\ fresh' = fresh \ {h}
    /\ UNCHANGED <<popLock, pc, task, ran, stopFlag, main, poisons>>

Schedule(s) ==
    /\ MaySchedule(s)
    /\ \E h \in fresh : Push(s, h) /\ fresh' = fresh \ {h}
    /\ UNCHANGED <<popLock, pc, task, ran, stopFlag, main, poisons>>

Asleep == {w \in Workers : pc[w] = "asleep"}

(* notify_one, outside the lock *)
Notify(s) ==
    /\ s \in notifying
    /\ notifying' = notifying \ {s}
    /\ \/ Asleep = {} /\ UNCHANGED pc
       \/ \E w \in Asleep : pc' = [pc EXCEPT ![w] = "lock"]
    /\ UNCHANGED <<tasks, popLock, task, fresh, ran, stopFlag, main, poisons>>

-----------------------------------------------------------------------------
(* The main thread *)

(* waitEmpty tests the stack under noTasksMutex, which no worker takes. *)
TestEmpty ==
    /\ main = "work"
    /\ main' = IF tasks = <<>> THEN "empty" ELSE "tested"
    /\ UNCHANGED <<tasks, popLock, pc, task, notifying, fresh, ran, stopFlag,
                   poisons>>

(* A notification between the test and the sleep is lost. *)
SleepUntilEmpty ==
    /\ main = "tested"
    /\ main' = "asleep"
    /\ UNCHANGED <<tasks, popLock, pc, task, notifying, fresh, ran, stopFlag,
                   poisons>>

\* Mutant: the flag is left for later.
BlockingStopNoFlag ==
    /\ main = "empty"
    /\ notifying \cap Others = {}
    /\ main' = "stopping"
    /\ UNCHANGED <<tasks, popLock, pc, task, notifying, fresh, ran, stopFlag,
                   poisons>>

(* main stops the event loop, whose thread has returned from its pushes,    *)
(* and then the pool.                                                       *)
BlockingStop ==
    /\ main = "empty"
    /\ notifying \cap Others = {}
    /\ stopFlag' = TRUE
    /\ main' = "stopping"
    /\ UNCHANGED <<tasks, popLock, pc, task, notifying, fresh, ran, poisons>>

\* Mutant: one null handle too many.
PushNullTooOften ==
    /\ main = "stopping" /\ Main \notin notifying /\ poisons <= N
    /\ Push(Main, Null)
    /\ poisons' = poisons + 1
    /\ UNCHANGED <<popLock, pc, task, fresh, ran, stopFlag, main>>

\* Mutant: null handles are pushed without a notification.
PushNullQuietly ==
    /\ main = "stopping" /\ Main \notin notifying /\ poisons < N
    /\ popLock = None
    /\ tasks' = Append(tasks, Null)
    /\ poisons' = poisons + 1
    /\ UNCHANGED <<popLock, pc, task, notifying, fresh, ran, stopFlag, main>>

PushNull ==
    /\ main = "stopping" /\ Main \notin notifying /\ poisons < N
    /\ Push(Main, Null)
    /\ poisons' = poisons + 1
    /\ UNCHANGED <<popLock, pc, task, fresh, ran, stopFlag, main>>

Join ==
    /\ main = "stopping" /\ Main \notin notifying /\ poisons = N
    /\ \A w \in Workers : pc[w] = "exited"
    /\ main' = "stopped"
    /\ UNCHANGED <<tasks, popLock, pc, task, notifying, fresh, ran, stopFlag,
                   poisons>>

-----------------------------------------------------------------------------
Lock(w) == LockFull(w) \/ LockEmpty(w)

Loop(w) == Check(w) \/ Take(w) \/ Remove(w) \/ RunEnds(w)

Stop == TestEmpty \/ SleepUntilEmpty \/ BlockingStop \/ PushNull \/ Join

(* All threads have ended, or every worker sleeps, and with them the main   *)
(* thread if its wake-up was lost.                                          *)
Ended ==
    \/ main = "stopped"
    \/ main = "asleep" /\ Asleep = Workers /\ tasks = <<>> /\ notifying = {}

Next ==
    \/ \E w \in Workers : Lock(w) \/ Loop(w) \/ WakeSpuriously(w)
    \/ \E s \in Workers \cup Others : Schedule(s)
    \/ \E s \in notifying : Notify(s)
    \/ Stop
    \/ Ended /\ UNCHANGED vars

Spec == Init /\ [][Next]_vars

(* The operating system runs every thread that can run, a mutex that is     *)
(* free again and again is obtained, and a coroutine runs to its next       *)
(* suspension.                                                              *)
Fairness ==
    /\ \A w \in Workers :
          /\ SF_vars(Lock(w))
          /\ WF_vars(Loop(w))
    /\ \A s \in Workers \cup Others \cup {Main} : WF_vars(Notify(s))
    /\ SF_vars(PushNull)
    /\ WF_vars(Stop)

FairSpec == Spec /\ Fairness

-----------------------------------------------------------------------------
(* Types of the variables of ThreadPool.h; blockingStop pushes no more null *)
(* handles than there are workers.                                          *)
TypeOK ==
    /\ tasks \in Seq(Handles \cup {Null})
    /\ popLock \in Workers \cup {None}
    /\ pc \in [Workers -> WorkerPCs]
    /\ task \in [Workers -> Handles \cup {Null, None}]
    /\ notifying \subseteq Workers \cup Others \cup {Main}
    /\ fresh \subseteq Handles
    /\ ran \subseteq Handles
    /\ stopFlag \in BOOLEAN
    /\ main \in MainPCs
    /\ poisons \in 0 .. N

Queued == {tasks[i] : i \in 1 .. Len(tasks)}

(* A scheduled coroutine is never resumed twice and never forgotten: it is  *)
(* once on the stack, or with one worker, or it ran.  Two resumptions of    *)
(* one handle would run one coroutine frame on two threads (lines 23-33).   *)
ScheduledOnce ==
    \A h \in Handles \ fresh :
        /\ Cardinality({i \in 1 .. Len(tasks) : tasks[i] = h})
             + Cardinality({w \in Workers : task[w] = h /\ pc[w] = "run"})
             + (IF h \in ran THEN 1 ELSE 0) = 1

(* Workers that will look at the stack before they sleep or exit. *)
Seeking == {w \in Workers : pc[w] \in {"check", "lock", "take", "remove"}}

(* No scheduled coroutine waits behind a running one while a worker sleeps: *)
(* whoever sleeps, the others that are awake and idle, or about to be       *)
(* notified, are enough for what is on the stack (lines 22 and 41-45).      *)
NoIdleWorker ==
    ~stopFlag /\ Asleep # {}
        => Len(tasks) <= Cardinality(Seeking) + Cardinality(notifying)

(* Once blockingStop has pushed its null handles there is something on the  *)
(* stack for every worker that may still take from it: none waits for ever  *)
(* although others take real handles (lines 53-57).                         *)
EnoughToStop ==
    main = "stopping" /\ poisons = N
        => Cardinality({w \in Workers :
                pc[w] \in {"lock", "asleep", "take", "remove"}}) <= Len(tasks)

(* blockingStop returns: every worker exits, wherever the stop found it.    *)
StopReturns == main = "stopping" ~> main = "stopped"
=============================================================================
