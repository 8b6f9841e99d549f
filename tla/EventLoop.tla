------------------------------ MODULE EventLoop ------------------------------
(***************************************************************************)
(* The libuv loop thread and the lock other threads take to touch its      *)
(* handles, src/src/async/EventLoop.cpp and EventLoopLock.cpp.             *)
(*                                                                         *)
(* The loop thread holds eventLoopEnteredLock inside each run and passes   *)
(* through eventLoopExitedLock between two runs.  A thread that wants the  *)
(* handles takes eventLoopExitedLock and keeps it, writes a byte to a pipe *)
(* the loop reads, so that the run returns, and passes through             *)
(* eventLoopEnteredLock to see that it has.                                *)
(***************************************************************************)
EXTENDS Integers

CONSTANTS
    Threads,    \* the threads that take the lock
    Main,       \* the one among them that stops the loop
    LoopThread,
    None,       \* nobody
    PipeCap,    \* bytes the pipe holds
    Turns       \* bound: how often each thread takes the lock

ASSUME ThreadsAssumption ==
    /\ Main \in Threads
    /\ LoopThread \notin Threads /\ None \notin Threads
    /\ LoopThread # None
ASSUME PipeCapAssumption == PipeCap \in Nat \ {0}
ASSUME TurnsAssumption == Turns \in Nat

VARIABLES
    loop,       \* where the loop thread is
    pc,         \* thread -> where it is
    exitedLock, \* the holder of eventLoopExitedLock
    enteredLock,\* the holder of eventLoopEnteredLock
    owner,      \* currentExitedLockOwner
    bytes,      \* bytes in the pipe
    uvStop,     \* the stop flag of the libuv loop
    stopping,   \* EventLoop::stopping
    turns,      \* thread -> how often it has taken the lock
    runs        \* ghost: runs begun since exitedLock was last taken, 2 for more

vars == <<loop, pc, exitedLock, enteredLock, owner, bytes, uvStop, stopping,
          turns, runs>>

LoopPCs == {"check", "enter", "poll", "callbacks", "pass", "passing", "exited"}

PCs == {"out", "lock", "claim", "wake", "meet", "holding", "nested",
        "joining", "joined"}

Init ==
    /\ loop = "check"
    /\ pc = [t \in Threads |-> "out"]
    /\ exitedLock = None
    /\ enteredLock = None
    /\ owner = None
    /\ bytes = 0
    /\ uvStop = FALSE
    /\ stopping = FALSE
    /\ turns = [t \in Threads |-> 0]
    /\ runs = 0

-----------------------------------------------------------------------------
(* The loop thread *)

Check ==
    /\ loop = "check"
    /\ loop' = IF stopping THEN "exited" ELSE "enter"
    /\ UNCHANGED <<pc, exitedLock, enteredLock, owner, bytes, uvStop,
                   stopping, turns, runs>>

Enter ==
    /\ loop = "enter" /\ enteredLock = None
    /\ enteredLock' = LoopThread
    /\ loop' = "poll"
    /\ runs' = IF runs = 0 THEN 1 ELSE 2
    /\ UNCHANGED <<pc, exitedLock, owner, bytes, uvStop, stopping, turns>>

\* Mutant: one byte is read, whether there is one or not.
PollReadsOne(ready) ==
    /\ loop = "poll"
    /\ ready
    /\ bytes' = bytes - 1
    /\ uvStop' = FALSE
    /\ loop' = "callbacks"
    /\ UNCHANGED <<pc, exitedLock, enteredLock, owner, stopping, turns, runs>>

(* run(ONCE) sleeps until the pipe or a socket is ready, or uv_stop; the    *)
(* pipe is read empty.                                                      *)
Poll(ready) ==
    /\ loop = "poll"
    /\ ready
    /\ bytes' = 0
    /\ uvStop' = FALSE
    /\ loop' = "callbacks"
    /\ UNCHANGED <<pc, exitedLock, enteredLock, owner, stopping, turns, runs>>

Woken == Poll(bytes > 0 \/ uvStop)

SocketEvent == Poll(TRUE)

(* The callbacks may take the lock: on this thread it is a null lock. *)
Leave ==
    /\ loop = "callbacks"
    /\ enteredLock' = None
    /\ loop' = "pass"
    /\ UNCHANGED <<pc, exitedLock, owner, bytes, uvStop, stopping, turns,
                   runs>>

\* Mutant: the loop does not wait for the owner of the lock.
PassFreely ==
    /\ loop = "pass"
    /\ loop' = "check"
    /\ UNCHANGED <<pc, exitedLock, enteredLock, owner, bytes, uvStop,
                   stopping, turns, runs>>

Pass ==
    /\ loop = "pass" /\ exitedLock = None
    /\ exitedLock' = LoopThread
    /\ loop' = "passing"
    /\ UNCHANGED <<pc, enteredLock, owner, bytes, uvStop, stopping, turns,
                   runs>>

Passed ==
    /\ loop = "passing"
    /\ exitedLock' = None
    /\ loop' = "check"
    /\ UNCHANGED <<pc, enteredLock, owner, bytes, uvStop, stopping, turns,
                   runs>>

-----------------------------------------------------------------------------
(* acquireEventLoopLock and EventLoopLock *)

Goto(t, from, to) == pc[t] = from /\ pc' = [pc EXCEPT ![t] = to]

Begin(t) ==
    /\ turns[t] < Turns /\ owner # t
    /\ Goto(t, "out", "lock")
    /\ turns' = [turns EXCEPT ![t] = @ + 1]
    /\ UNCHANGED <<loop, exitedLock, enteredLock, owner, bytes, uvStop,
                   stopping, runs>>

(* A thread that finds itself the owner gets a null lock. *)
Nest(t) ==
    /\ owner = t /\ pc[t] \in {"out", "holding"}
    /\ pc' = [pc EXCEPT ![t] = "nested"]
    /\ UNCHANGED <<loop, exitedLock, enteredLock, owner, bytes, uvStop,
                   stopping, turns, runs>>

(* Destroying a null lock does nothing. *)
Unnest(t) ==
    /\ Goto(t, "nested", IF exitedLock = t THEN "holding" ELSE "out")
    /\ UNCHANGED <<loop, exitedLock, enteredLock, owner, bytes, uvStop,
                   stopping, turns, runs>>

Lock(t) ==
    /\ exitedLock = None
    /\ Goto(t, "lock", "claim")
    /\ exitedLock' = t
    /\ runs' = 0
    /\ UNCHANGED <<loop, enteredLock, owner, bytes, uvStop, stopping, turns>>

Claim(t) ==
    /\ Goto(t, "claim", "wake")
    /\ owner' = t
    /\ UNCHANGED <<loop, exitedLock, enteredLock, bytes, uvStop, stopping,
                   turns, runs>>

\* Mutant: the loop is not woken.
WakeNobody(t) ==
    /\ Goto(t, "wake", "meet")
    /\ UNCHANGED <<loop, exitedLock, enteredLock, owner, bytes, uvStop,
                   stopping, turns, runs>>

(* try_write is repeated while the pipe is full. *)
Wake(t) ==
    /\ bytes < PipeCap
    /\ Goto(t, "wake", "meet")
    /\ bytes' = bytes + 1
    /\ UNCHANGED <<loop, exitedLock, enteredLock, owner, uvStop, stopping,
                   turns, runs>>

(* eventLoopEnteredLock is taken and released: no run is in progress. *)
Meet(t) ==
    /\ enteredLock = None
    /\ Goto(t, "meet", "holding")
    /\ UNCHANGED <<loop, exitedLock, enteredLock, owner, bytes, uvStop,
                   stopping, turns, runs>>

(* After releasing the lock it took in stop(), main joins the loop thread. *)
Released(t) == IF t = Main /\ stopping THEN "joining" ELSE "out"

\* Mutant: the owner is not reset.
ReleaseStaysOwner(t) ==
    /\ Goto(t, "holding", Released(t))
    /\ exitedLock' = None
    /\ uvStop' = (uvStop \/ Released(t) = "joining")
    /\ UNCHANGED <<loop, enteredLock, owner, bytes, stopping, turns, runs>>

Release(t) ==
    /\ Goto(t, "holding", Released(t))
    /\ owner' = None
    /\ exitedLock' = None
    /\ uvStop' = (uvStop \/ Released(t) = "joining")
    /\ UNCHANGED <<loop, enteredLock, bytes, stopping, turns, runs>>

-----------------------------------------------------------------------------
(* stop, called by main: the lock is taken once more, uv_stop is called     *)
(* under it (in Release), and the thread is joined.                         *)
Stop ==
    /\ ~stopping
    /\ Goto(Main, "out", "lock")
    /\ stopping' = TRUE
    /\ UNCHANGED <<loop, exitedLock, enteredLock, owner, bytes, uvStop,
                   turns, runs>>

Join ==
    /\ loop = "exited"
    /\ Goto(Main, "joining", "joined")
    /\ UNCHANGED <<loop, exitedLock, enteredLock, owner, bytes, uvStop,
                   stopping, turns, runs>>

-----------------------------------------------------------------------------
Loop == Check \/ Enter \/ Woken \/ Leave \/ Passed

Use(t) == Claim(t) \/ Wake(t) \/ Meet(t) \/ Release(t) \/ Unnest(t)

(* The loop is stopped and nobody wants the lock. *)
Ended ==
    /\ pc[Main] = "joined"
    /\ \A t \in Threads \ {Main} : pc[t] = "out"

Next ==
    \/ Loop \/ SocketEvent \/ Pass
    \/ \E t \in Threads : Begin(t) \/ Nest(t) \/ Lock(t) \/ Use(t)
    \/ Stop \/ Join
    \/ Ended /\ UNCHANGED vars

Spec == Init /\ [][Next]_vars

(* Threads run; a mutex that is free again and again is obtained, by the    *)
(* loop thread too.  Sockets need never be ready.                           *)
Fairness ==
    /\ WF_vars(Loop) /\ SF_vars(Pass)
    /\ \A t \in Threads : WF_vars(Use(t)) /\ SF_vars(Lock(t)) /\ SF_vars(Release(t))
    /\ WF_vars(Stop) /\ WF_vars(Join)

FairSpec == Spec /\ Fairness

-----------------------------------------------------------------------------
(* Types of the variables of EventLoop.h; the pipe never holds more than    *)
(* PipeCap bytes.                                                           *)
TypeOK ==
    /\ loop \in LoopPCs
    /\ pc \in [Threads -> PCs]
    /\ exitedLock \in Threads \cup {LoopThread, None}
    /\ enteredLock \in {LoopThread, None}
    /\ owner \in Threads \cup {None}
    /\ bytes \in 0 .. PipeCap
    /\ uvStop \in BOOLEAN
    /\ stopping \in BOOLEAN
    /\ turns \in [Threads -> 0 .. Turns]
    /\ runs \in 0 .. 2

Holders == {t \in Threads : pc[t] \in {"holding", "nested"}}

(* At most one thread believes it may touch the handles, null locks         *)
(* included: currentExitedLockOwner names a thread only while that thread   *)
(* has eventLoopExitedLock (lines 76 and 102-105).                          *)
HoldersExclusive ==
    /\ \A s, t \in Holders : s = t
    /\ \A t \in Holders : exitedLock = t

InRun == loop \in {"poll", "callbacks"}

(* Holding the lock does not keep the loop out: a loop thread between the   *)
(* two locks (line 49 to line 45) enters one more run.  But only one, and   *)
(* that one does not sleep: its byte is there.  So the callbacks of at most *)
(* one turn of the loop overlap with a holder.                              *)
OverlapBounded ==
    Holders # {} =>
        /\ runs <= 1
        /\ loop = "poll" => bytes > 0 \/ uvStop

(* Whoever asks for the lock gets it.                                       *)
AcquireReturns ==
    \A t \in Threads : pc[t] = "lock" ~> pc[t] = "holding"

(* stop returns: the loop thread leaves its loop and is joined.             *)
StopReturns == stopping ~> pc[Main] = "joined"
=============================================================================
