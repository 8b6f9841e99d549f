--------------------------- MODULE EventLoopProofs ---------------------------
(***************************************************************************)
(* The lock of EventLoop keeps every thread but one off the handles, and   *)
(* at most one turn of the loop overlaps with its holder, for any number   *)
(* of threads, any size of the pipe and any number of turns.               *)
(***************************************************************************)
EXTENDS EventLoop, TLAPS

(* Where a thread has eventLoopExitedLock, where it has set                 *)
(* currentExitedLockOwner, and where it has woken the loop as well.         *)
Locked == {"claim", "wake", "meet", "holding", "nested"}
Owning == {"wake", "meet", "holding", "nested"}
HasWoken == {"meet", "holding", "nested"}

(* The lock and its owner are those of the thread that is inside.           *)
LockInv ==
    \A t \in Threads :
        /\ exitedLock = t <=> pc[t] \in Locked
        /\ owner = t <=> pc[t] \in Owning

(* The loop thread has each of the two locks in one part of its turn.       *)
LoopInv ==
    /\ exitedLock = LoopThread <=> loop = "passing"
    /\ enteredLock = LoopThread <=> InRun

(* While a thread has eventLoopExitedLock the loop begins at most one run,  *)
(* after which it is stopped in front of that lock.                         *)
RunsInv ==
    exitedLock \in Threads =>
        /\ runs <= 1
        /\ runs = 1 => InRun \/ loop = "pass"

(* The byte of a thread that has woken the loop stays in the pipe until the *)
(* loop polls.                                                              *)
WokenInv ==
    \A t \in Threads :
        pc[t] \in HasWoken /\ loop \in {"check", "enter", "poll"} => bytes > 0

IInv ==
    /\ TypeOK
    /\ LockInv
    /\ LoopInv
    /\ RunsInv
    /\ WokenInv

-----------------------------------------------------------------------------
(* The loop thread begins no run by testing the flag of line 44.            *)
LEMMA CheckKeeps ==
    ASSUME IInv, Check
    PROVE  IInv'
<1>1. TypeOK'
    BY DEF IInv, Check, TypeOK, LoopPCs
<1>2. LockInv'
    BY DEF IInv, Check, LockInv
<1>3. LoopInv'
    BY DEF IInv, Check, LoopInv, InRun
<1>4. RunsInv'
    BY DEF IInv, Check, RunsInv, InRun
<1>5. WokenInv'
    BY DEF IInv, Check, WokenInv
<1> QED
    BY <1>1, <1>2, <1>3, <1>4, <1>5 DEF IInv

(* A run begins in front of which no other began since a thread took        *)
(* eventLoopExitedLock (lines 45-46).                                       *)
LEMMA EnterKeeps ==
    ASSUME IInv, Enter
    PROVE  IInv'
<1>1. TypeOK'
    BY DEF IInv, Enter, TypeOK, LoopPCs
<1>2. LockInv'
    BY DEF IInv, Enter, LockInv
<1>3. LoopInv'
    BY DEF IInv, Enter, LoopInv, InRun
<1>4. RunsInv'
    BY DEF IInv, Enter, RunsInv, TypeOK, InRun
<1>5. WokenInv'
    BY DEF IInv, Enter, WokenInv
<1> QED
    BY <1>1, <1>2, <1>3, <1>4, <1>5 DEF IInv

(* A run reads the pipe empty, and a loop that has left its poll is not     *)
(* asked for a byte any more.                                               *)
LEMMA PollKeeps ==
    ASSUME IInv, NEW ready \in BOOLEAN, Poll(ready)
    PROVE  IInv'
<1>1. TypeOK'
  <2>1. bytes' = 0 /\ 0 \in 0 .. PipeCap
      BY PipeCapAssumption DEF Poll
  <2> QED
      BY <2>1 DEF IInv, Poll, TypeOK, LoopPCs
<1>2. LockInv'
    BY DEF IInv, Poll, LockInv
<1>3. LoopInv'
    BY DEF IInv, Poll, LoopInv, InRun
<1>4. RunsInv'
    BY DEF IInv, Poll, RunsInv, InRun
<1>5. WokenInv'
    BY DEF IInv, Poll, WokenInv
<1> QED
    BY <1>1, <1>2, <1>3, <1>4, <1>5 DEF IInv

(* A run ends: no thread has eventLoopEnteredLock (line 48).                *)
LEMMA LeaveKeeps ==
    ASSUME IInv, Leave
    PROVE  IInv'
<1>1. TypeOK'
    BY DEF IInv, Leave, TypeOK, LoopPCs
<1>2. LockInv'
    BY DEF IInv, Leave, LockInv
<1>3. LoopInv'
    BY ThreadsAssumption DEF IInv, Leave, LoopInv, InRun
<1>4. RunsInv'
    BY DEF IInv, Leave, RunsInv
<1>5. WokenInv'
    BY DEF IInv, Leave, WokenInv
<1> QED
    BY <1>1, <1>2, <1>3, <1>4, <1>5 DEF IInv

(* eventLoopExitedLock is free when the loop thread takes it (line 49).     *)
LEMMA PassKeeps ==
    ASSUME IInv, Pass
    PROVE  IInv'
<1>1. TypeOK'
    BY DEF IInv, Pass, TypeOK, LoopPCs
<1>2. LockInv'
    BY ThreadsAssumption DEF IInv, Pass, LockInv
<1>3. LoopInv'
    BY DEF IInv, Pass, LoopInv, InRun
<1>4. RunsInv'
    BY ThreadsAssumption DEF IInv, Pass, RunsInv
<1>5. WokenInv'
    BY DEF IInv, Pass, WokenInv
<1> QED
    BY <1>1, <1>2, <1>3, <1>4, <1>5 DEF IInv

(* The loop thread gives back what no thread has.                           *)
LEMMA PassedKeeps ==
    ASSUME IInv, Passed
    PROVE  IInv'
<1>1. TypeOK'
    BY DEF IInv, Passed, TypeOK, LoopPCs
<1>2. LockInv'
    BY ThreadsAssumption DEF IInv, Passed, LockInv, LoopInv
<1>3. LoopInv'
    BY ThreadsAssumption DEF IInv, Passed, LoopInv, InRun
<1>4. RunsInv'
    BY ThreadsAssumption DEF IInv, Passed, RunsInv
<1>5. WokenInv'
    BY ThreadsAssumption DEF IInv, Passed, WokenInv, LockInv, LoopInv,
       HasWoken, Locked
<1> QED
    BY <1>1, <1>2, <1>3, <1>4, <1>5 DEF IInv

(* To want the lock changes nothing for the others.                         *)
LEMMA BeginKeeps ==
    ASSUME IInv, NEW t \in Threads, Begin(t)
    PROVE  IInv'
<1>1. TypeOK'
    BY TurnsAssumption DEF IInv, Begin, TypeOK, Goto, PCs
<1>2. LockInv'
    BY DEF IInv, Begin, LockInv, Goto, Locked, Owning
<1>3. LoopInv'
    BY DEF IInv, Begin, LoopInv, InRun
<1>4. RunsInv'
    BY DEF IInv, Begin, RunsInv, InRun
<1>5. WokenInv'
    BY DEF IInv, Begin, WokenInv, Goto, HasWoken
<1> QED
    BY <1>1, <1>2, <1>3, <1>4, <1>5 DEF IInv

(* Only a thread that is inside finds itself the owner (line 76).           *)
LEMMA NestKeeps ==
    ASSUME IInv, NEW t \in Threads, Nest(t)
    PROVE  IInv'
<1>1. TypeOK'
    BY DEF IInv, Nest, TypeOK, PCs
<1>2. LockInv'
    BY DEF IInv, Nest, LockInv, Locked, Owning
<1>3. LoopInv'
    BY DEF IInv, Nest, LoopInv, InRun
<1>4. RunsInv'
    BY DEF IInv, Nest, RunsInv, InRun
<1>5. WokenInv'
    BY DEF IInv, Nest, WokenInv, LockInv, HasWoken, Owning
<1> QED
    BY <1>1, <1>2, <1>3, <1>4, <1>5 DEF IInv

(* A null lock gives nothing back (EventLoopLock.cpp:9).                    *)
LEMMA UnnestKeeps ==
    ASSUME IInv, NEW t \in Threads, Unnest(t)
    PROVE  IInv'
<1>1. TypeOK'
    BY DEF IInv, Unnest, TypeOK, Goto, PCs
<1>2. LockInv'
    BY DEF IInv, Unnest, LockInv, Goto, Locked, Owning
<1>3. LoopInv'
    BY DEF IInv, Unnest, LoopInv, InRun
<1>4. RunsInv'
    BY DEF IInv, Unnest, RunsInv, InRun
<1>5. WokenInv'
    BY DEF IInv, Unnest, WokenInv, Goto, HasWoken
<1> QED
    BY <1>1, <1>2, <1>3, <1>4, <1>5 DEF IInv

(* The lock is free, so no thread is inside; the runs are counted anew      *)
(* (line 78).                                                               *)
LEMMA LockKeeps ==
    ASSUME IInv, NEW t \in Threads, Lock(t)
    PROVE  IInv'
<1>1. TypeOK'
    BY DEF IInv, Lock, TypeOK, Goto, PCs
<1>2. LockInv'
    BY ThreadsAssumption DEF IInv, Lock, LockInv, TypeOK, Goto, Locked,
       Owning
<1>3. LoopInv'
    BY ThreadsAssumption DEF IInv, Lock, LoopInv, InRun
<1>4. RunsInv'
    BY DEF IInv, Lock, RunsInv
<1>5. WokenInv'
    BY DEF IInv, Lock, WokenInv, Goto, HasWoken
<1> QED
    BY <1>1, <1>2, <1>3, <1>4, <1>5 DEF IInv

(* currentExitedLockOwner is set by the thread that has the lock (line 80). *)
LEMMA ClaimKeeps ==
    ASSUME IInv, NEW t \in Threads, Claim(t)
    PROVE  IInv'
<1>1. TypeOK'
    BY DEF IInv, Claim, TypeOK, Goto, PCs
<1>2. LockInv'
    BY DEF IInv, Claim, LockInv, TypeOK, Goto, Locked, Owning
<1>3. LoopInv'
    BY DEF IInv, Claim, LoopInv, InRun
<1>4. RunsInv'
    BY DEF IInv, Claim, RunsInv, InRun
<1>5. WokenInv'
    BY DEF IInv, Claim, WokenInv, Goto, HasWoken
<1> QED
    BY <1>1, <1>2, <1>3, <1>4, <1>5 DEF IInv

(* The byte of line 83 is in the pipe when the thread goes on.              *)
LEMMA WakeKeeps ==
    ASSUME IInv, NEW t \in Threads, Wake(t)
    PROVE  IInv'
<1>1. TypeOK'
    BY PipeCapAssumption DEF IInv, Wake, TypeOK, Goto, PCs
<1>2. LockInv'
    BY DEF IInv, Wake, LockInv, Goto, Locked, Owning
<1>3. LoopInv'
    BY DEF IInv, Wake, LoopInv, InRun
<1>4. RunsInv'
    BY DEF IInv, Wake, RunsInv, InRun
<1>5. WokenInv'
    BY DEF IInv, Wake, WokenInv, TypeOK
<1> QED
    BY <1>1, <1>2, <1>3, <1>4, <1>5 DEF IInv

(* The thread goes on when no run is in progress (lines 86-87).             *)
LEMMA MeetKeeps ==
    ASSUME IInv, NEW t \in Threads, Meet(t)
    PROVE  IInv'
<1>1. TypeOK'
    BY DEF IInv, Meet, TypeOK, Goto, PCs
<1>2. LockInv'
    BY DEF IInv, Meet, LockInv, Goto, Locked, Owning
<1>3. LoopInv'
    BY DEF IInv, Meet, LoopInv, InRun
<1>4. RunsInv'
    BY DEF IInv, Meet, RunsInv, InRun
<1>5. WokenInv'
    BY DEF IInv, Meet, WokenInv, Goto, HasWoken
<1> QED
    BY <1>1, <1>2, <1>3, <1>4, <1>5 DEF IInv

(* The owner is reset before the lock is given back (lines 102-105).        *)
LEMMA ReleaseKeeps ==
    ASSUME IInv, NEW t \in Threads, Release(t)
    PROVE  IInv'
<1>1. TypeOK'
    BY DEF IInv, Release, TypeOK, Goto, Released, PCs
<1>2. LockInv'
    BY ThreadsAssumption DEF IInv, Release, LockInv, TypeOK, Goto, Released,
       Locked, Owning
<1>3. LoopInv'
    BY ThreadsAssumption DEF IInv, Release, LoopInv, LockInv, Goto, InRun,
       Locked
<1>4. RunsInv'
    BY ThreadsAssumption DEF IInv, Release, RunsInv
<1>5. WokenInv'
    BY DEF IInv, Release, WokenInv, Goto, HasWoken
<1> QED
    BY <1>1, <1>2, <1>3, <1>4, <1>5 DEF IInv

(* stop asks for the lock as every thread does (lines 59-61).               *)
LEMMA StopKeeps ==
    ASSUME IInv, Stop
    PROVE  IInv'
<1>1. TypeOK'
    BY DEF IInv, Stop, TypeOK, Goto, PCs
<1>2. LockInv'
    BY DEF IInv, Stop, LockInv, Goto, Locked, Owning
<1>3. LoopInv'
    BY DEF IInv, Stop, LoopInv, InRun
<1>4. RunsInv'
    BY DEF IInv, Stop, RunsInv, InRun
<1>5. WokenInv'
    BY DEF IInv, Stop, WokenInv, Goto, HasWoken
<1> QED
    BY <1>1, <1>2, <1>3, <1>4, <1>5 DEF IInv

(* The joined thread holds nothing (line 64).                               *)
LEMMA JoinKeeps ==
    ASSUME IInv, Join
    PROVE  IInv'
<1>1. TypeOK'
    BY DEF IInv, Join, TypeOK, Goto, PCs
<1>2. LockInv'
    BY DEF IInv, Join, LockInv, Goto, Locked, Owning
<1>3. LoopInv'
    BY DEF IInv, Join, LoopInv, InRun
<1>4. RunsInv'
    BY DEF IInv, Join, RunsInv, InRun
<1>5. WokenInv'
    BY DEF IInv, Join, WokenInv
<1> QED
    BY <1>1, <1>2, <1>3, <1>4, <1>5 DEF IInv

-----------------------------------------------------------------------------
(* The process starts without locks, runs or bytes.                         *)
LEMMA InitIInv == Init => IInv
<1> SUFFICES ASSUME Init PROVE IInv
    OBVIOUS
<1>1. TypeOK
  <2>1. turns \in [Threads -> 0 .. Turns]
      BY TurnsAssumption DEF Init
  <2>2. bytes \in 0 .. PipeCap /\ runs \in 0 .. 2
      BY PipeCapAssumption DEF Init
  <2>3. pc \in [Threads -> PCs] /\ loop \in LoopPCs
      BY DEF Init, PCs, LoopPCs
  <2> QED
      BY <2>1, <2>2, <2>3 DEF Init, TypeOK
<1>2. LockInv
    BY ThreadsAssumption DEF Init, LockInv, Locked, Owning
<1>3. LoopInv
    BY ThreadsAssumption DEF Init, LoopInv, InRun
<1>4. RunsInv /\ WokenInv
    BY ThreadsAssumption DEF Init, RunsInv, WokenInv, HasWoken
<1> QED
    BY <1>1, <1>2, <1>3, <1>4 DEF IInv

(* No step of the loop thread or of a thread breaks the invariant.          *)
LEMMA NextKeeps == IInv /\ [Next]_vars => IInv'
<1> SUFFICES ASSUME IInv, [Next]_vars PROVE IInv'
    OBVIOUS
<1>1. CASE Loop
    BY <1>1, CheckKeeps, EnterKeeps, PollKeeps, LeaveKeeps, PassedKeeps
    DEF Loop, Woken
<1>2. CASE SocketEvent \/ Pass
    BY <1>2, PollKeeps, PassKeeps DEF SocketEvent
<1>3. ASSUME NEW t \in Threads, Begin(t) \/ Nest(t) \/ Lock(t)
      PROVE  IInv'
    BY <1>3, BeginKeeps, NestKeeps, LockKeeps
<1>4. ASSUME NEW t \in Threads, Use(t)
      PROVE  IInv'
    BY <1>4, ClaimKeeps, WakeKeeps, MeetKeeps, ReleaseKeeps, UnnestKeeps
    DEF Use
<1>5. CASE Stop \/ Join
    BY <1>5, StopKeeps, JoinKeeps
<1>6. CASE UNCHANGED vars
    BY <1>6 DEF vars, IInv, TypeOK, LockInv, LoopInv, RunsInv, WokenInv,
       InRun
<1> QED
    BY <1>1, <1>2, <1>3, <1>4, <1>5, <1>6 DEF Next

(* The lock, its owner, the runs of the loop and the byte that wakes it fit  *)
(* together in every state.                                                 *)
THEOREM Invariance == Spec => []IInv
<1>1. Init => IInv
    BY InitIInv
<1>2. IInv /\ [Next]_vars => IInv'
    BY NextKeeps
<1> QED
    BY <1>1, <1>2, PTL DEF Spec

-----------------------------------------------------------------------------
(* Every variable has its type; the pipe is never written when it is full   *)
(* (line 83).                                                               *)
THEOREM TypeCorrect == Spec => []TypeOK
<1>1. IInv => TypeOK
    BY DEF IInv
<1> QED
    BY <1>1, Invariance, PTL

(* At most one thread may touch the handles, null locks included (lines 76  *)
(* and 102-105).                                                            *)
THEOREM OneHolder == Spec => []HoldersExclusive
<1>1. IInv => HoldersExclusive
    BY DEF IInv, LockInv, HoldersExclusive, Holders, Locked
<1> QED
    BY <1>1, Invariance, PTL

(* A holder overlaps with the callbacks of at most one turn of the loop,    *)
(* and that turn does not sleep with the lock taken (lines 45-49 and 83).   *)
THEOREM OneTurnOverlaps == Spec => []OverlapBounded
<1>1. ASSUME IInv, NEW t \in Holders
      PROVE  runs <= 1 /\ (loop = "poll" => bytes > 0)
  <2>1. exitedLock = t /\ t \in Threads
      BY <1>1 DEF IInv, LockInv, Holders, Locked
  <2>2. runs <= 1
      BY <1>1, <2>1 DEF IInv, RunsInv
  <2>3. loop = "poll" => bytes > 0
      BY <1>1 DEF IInv, WokenInv, Holders, HasWoken
  <2> QED
      BY <2>2, <2>3
<1>2. IInv => OverlapBounded
    BY <1>1 DEF OverlapBounded
<1> QED
    BY <1>2, Invariance, PTL
=============================================================================
