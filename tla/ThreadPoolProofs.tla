-------------------------- MODULE ThreadPoolProofs --------------------------
(***************************************************************************)
(* The stack of ThreadPool resumes every handle once, leaves no handle     *)
(* behind a sleeping worker, and stops every worker, for any number of     *)
(* workers, of other threads and of handles.                               *)
(***************************************************************************)
EXTENDS ThreadPool, FiniteSetTheorems, SequenceTheorems, TLAPS

(* Where a worker has popLock, and where it has a handle.                   *)
InLock == {"take", "remove"}
HasTask == {"remove", "run"}

(* The workers that may still take a handle once stopFlag is set.           *)
Takers ==
    {w \in Workers : pc[w] \in {"lock", "asleep", "take", "remove"}}

(* The places where ScheduledOnce counts a handle.                          *)
OnStack(h) == {i \in 1 .. Len(tasks) : tasks[i] = h}
RunBy(h) == {w \in Workers : task[w] = h /\ pc[w] = "run"}

LockInv == \A w \in Workers : popLock = w <=> pc[w] \in InLock

(* The lock keeps what a worker read of the stack true until it pops.       *)
TakenInv ==
    /\ \A w \in Workers : pc[w] \in InLock => tasks # <<>>
    /\ \A w \in Workers : pc[w] = "remove" => task[w] = tasks[Len(tasks)]
    /\ \A w \in Workers : pc[w] \notin HasTask => task[w] = None
    /\ \A w \in Workers : pc[w] \in HasTask => task[w] \in Handles \cup {Null}

(* No handle is twice on the stack, with a worker, or among those that ran. *)
StackInv ==
    /\ \A i, j \in 1 .. Len(tasks) :
          tasks[i] = tasks[j] /\ tasks[i] # Null => i = j
    /\ \A i \in 1 .. Len(tasks) : tasks[i] \notin fresh \cup ran

RunningInv ==
    /\ \A v, w \in Workers :
          /\ pc[v] = "run" /\ pc[w] = "run"
          /\ task[v] = task[w] /\ task[v] # Null
          => v = w
    /\ \A w \in Workers :
          pc[w] = "run" =>
             /\ task[w] \notin fresh \cup ran
             /\ task[w] # Null => task[w] \notin Queued

(* A handle that was scheduled is somewhere.                                *)
KeptInv ==
    /\ fresh \cap ran = {}
    /\ \A h \in Handles \ fresh :
          \/ h \in ran \/ h \in Queued
          \/ \E w \in Workers : pc[w] = "run" /\ task[w] = h

StopInv ==
    /\ stopFlag <=> main \in {"stopping", "stopped"}
    /\ ~stopFlag => poisons = 0
    /\ IsFiniteSet(notifying)

(* Since the stop, a worker that may still take has a handle on the stack   *)
(* or one that blockingStop is going to push.                               *)
RoomInv == stopFlag => Cardinality(Takers) + poisons <= N + Len(tasks)

IInv ==
    /\ TypeOK
    /\ LockInv
    /\ TakenInv
    /\ StackInv
    /\ RunningInv
    /\ KeptInv
    /\ StopInv
    /\ NoIdleWorker
    /\ RoomInv

-----------------------------------------------------------------------------
(* Any part of the pool is finite and no larger than the pool.              *)
LEMMA PoolFinite ==
    /\ N \in Nat
    /\ \A A \in SUBSET Workers :
          IsFiniteSet(A) /\ Cardinality(A) \in Nat /\ Cardinality(A) <= N
<1>1. N \in Nat
    BY WorkersAssumption, FS_CardinalityType DEF N
<1>2. ASSUME NEW A \in SUBSET Workers
      PROVE  IsFiniteSet(A) /\ Cardinality(A) \in Nat /\ Cardinality(A) <= N
  <2>1. IsFiniteSet(A) /\ Cardinality(A) <= N
      BY WorkersAssumption, FS_Subset DEF N
  <2> QED
      BY <2>1, FS_CardinalityType
<1> QED
    BY <1>1, <1>2

(* The two sets that NoIdleWorker counts are finite.                        *)
LEMMA SeekingFinite == IsFiniteSet(Seeking) /\ Cardinality(Seeking) \in Nat
    BY PoolFinite DEF Seeking

LEMMA NotifyingFinite ==
    ASSUME IInv
    PROVE  IsFiniteSet(notifying) /\ Cardinality(notifying) \in Nat
    BY FS_CardinalityType DEF IInv, StopInv

(* pop_back (line 24) takes the last handle and leaves the others in place. *)
LEMMA StackPop ==
    ASSUME NEW S, NEW s \in Seq(S), s # <<>>
    PROVE  /\ Len(SubSeq(s, 1, Len(s) - 1)) = Len(s) - 1
           /\ \A i \in 1 .. Len(s) - 1 : SubSeq(s, 1, Len(s) - 1)[i] = s[i]
<1> DEFINE n == Len(s) - 1
<1>1. n \in Nat /\ \A i \in 1 .. n : s[i] \in S
  <2>1. Len(s) \in Nat \ {0}
      BY EmptySeq
  <2> QED
      BY <2>1
<1> HIDE DEF n
<1>2. Len(SubSeq(s, 1, n)) = IF 1 <= n THEN n - 1 + 1 ELSE 0
    BY <1>1, SubSeqProperties
<1>3. \A i \in 1 .. n - 1 + 1 : SubSeq(s, 1, n)[i] = s[1 + i - 1]
    BY <1>1, SubSeqProperties
<1>4. Len(SubSeq(s, 1, n)) = n /\ \A i \in 1 .. n : SubSeq(s, 1, n)[i] = s[i]
    BY <1>1, <1>2, <1>3
<1> QED
    BY <1>4 DEF n

-----------------------------------------------------------------------------
(* Once stopFlag is set no worker comes back to the stack (line 18).        *)
LEMMA CheckKeeps ==
    ASSUME IInv, NEW w \in Workers, Check(w)
    PROVE  IInv'
<1>1. TypeOK'
    BY DEF IInv, Check, TypeOK, Goto, WorkerPCs
<1>2. LockInv'
    BY DEF IInv, Check, LockInv, Goto, InLock
<1>3. TakenInv'
    BY DEF IInv, Check, TakenInv, Goto, InLock, HasTask
<1>4. StackInv'
    BY DEF IInv, Check, StackInv
<1>5. RunningInv'
    BY DEF IInv, Check, RunningInv, Goto, Queued
<1>6. KeptInv'
    BY DEF IInv, Check, KeptInv, Goto, Queued
<1>7. StopInv'
    BY DEF IInv, Check, StopInv
<1>8. NoIdleWorker'
    BY DEF IInv, Check, NoIdleWorker, TypeOK, Goto, Asleep, Seeking
<1>9. RoomInv'
    BY DEF IInv, Check, RoomInv, TypeOK, Goto, Takers
<1> QED
    BY <1>1, <1>2, <1>3, <1>4, <1>5, <1>6, <1>7, <1>8, <1>9 DEF IInv

(* The predicate of line 22 holds and popLock stays with the worker.        *)
LEMMA LockFullKeeps ==
    ASSUME IInv, NEW w \in Workers, LockFull(w)
    PROVE  IInv'
<1>1. TypeOK'
    BY DEF IInv, LockFull, TypeOK, Goto, WorkerPCs
<1>2. LockInv'
    BY NamesAssumption DEF IInv, LockFull, LockInv, TypeOK, Goto, InLock
<1>3. TakenInv'
    BY DEF IInv, LockFull, TakenInv, Goto, HasTask
<1>4. StackInv'
    BY DEF IInv, LockFull, StackInv
<1>5. RunningInv'
    BY DEF IInv, LockFull, RunningInv, Goto, Queued
<1>6. KeptInv'
    BY DEF IInv, LockFull, KeptInv, Goto, Queued
<1>7. StopInv'
    BY DEF IInv, LockFull, StopInv
<1>8. NoIdleWorker'
    BY DEF IInv, LockFull, NoIdleWorker, TypeOK, Goto, Asleep, Seeking
<1>9. RoomInv'
    BY DEF IInv, LockFull, RoomInv, Goto, Takers
<1> QED
    BY <1>1, <1>2, <1>3, <1>4, <1>5, <1>6, <1>7, <1>8, <1>9 DEF IInv

(* A worker falls asleep on an empty stack only.                            *)
LEMMA LockEmptyKeeps ==
    ASSUME IInv, NEW w \in Workers, LockEmpty(w)
    PROVE  IInv'
<1>1. TypeOK'
    BY DEF IInv, LockEmpty, TypeOK, Goto, WorkerPCs
<1>2. LockInv'
    BY DEF IInv, LockEmpty, LockInv, Goto, InLock
<1>3. TakenInv'
    BY DEF IInv, LockEmpty, TakenInv, Goto, InLock, HasTask
<1>4. StackInv'
    BY DEF IInv, LockEmpty, StackInv
<1>5. RunningInv'
    BY DEF IInv, LockEmpty, RunningInv, Goto, Queued
<1>6. KeptInv'
    BY DEF IInv, LockEmpty, KeptInv, Goto, Queued
<1>7. StopInv'
    BY DEF IInv, LockEmpty, StopInv
<1>8. NoIdleWorker'
  <2>1. Len(tasks') = 0
      BY DEF LockEmpty
  <2>2. Cardinality(Seeking') \in Nat /\ Cardinality(notifying') \in Nat
      BY PoolFinite, FS_CardinalityType DEF IInv, StopInv, LockEmpty, Seeking
  <2> QED
      BY <2>1, <2>2 DEF NoIdleWorker
<1>9. RoomInv'
    BY DEF IInv, LockEmpty, RoomInv, TypeOK, Goto, Takers
<1> QED
    BY <1>1, <1>2, <1>3, <1>4, <1>5, <1>6, <1>7, <1>8, <1>9 DEF IInv

(* A sleeper that wakes by itself looks at the stack again.                 *)
LEMMA WakeSpuriouslyKeeps ==
    ASSUME IInv, NEW w \in Workers, WakeSpuriously(w)
    PROVE  IInv'
<1>1. TypeOK'
    BY DEF IInv, WakeSpuriously, TypeOK, Goto, WorkerPCs
<1>2. LockInv'
    BY DEF IInv, WakeSpuriously, LockInv, Goto, InLock
<1>3. TakenInv'
    BY DEF IInv, WakeSpuriously, TakenInv, Goto, InLock, HasTask
<1>4. StackInv'
    BY DEF IInv, WakeSpuriously, StackInv
<1>5. RunningInv'
    BY DEF IInv, WakeSpuriously, RunningInv, Goto, Queued
<1>6. KeptInv'
    BY DEF IInv, WakeSpuriously, KeptInv, Goto, Queued
<1>7. StopInv'
    BY DEF IInv, WakeSpuriously, StopInv
<1>8. NoIdleWorker'
  <2>1. Asleep # {}
      BY DEF WakeSpuriously, Goto, Asleep
  <2>2. Seeking' = Seeking \cup {w} /\ w \notin Seeking
      BY DEF IInv, TypeOK, WakeSpuriously, Goto, Seeking
  <2>3. Cardinality(Seeking') = Cardinality(Seeking) + 1
      BY <2>2, SeekingFinite, FS_AddElement
  <2> QED
      BY <2>1, <2>3, SeekingFinite, NotifyingFinite
      DEF IInv, TypeOK, NoIdleWorker, WakeSpuriously
<1>9. RoomInv'
    BY DEF IInv, WakeSpuriously, RoomInv, TypeOK, Goto, Takers
<1> QED
    BY <1>1, <1>2, <1>3, <1>4, <1>5, <1>6, <1>7, <1>8, <1>9 DEF IInv

(* The top of the stack is read under popLock (line 23).                    *)
LEMMA TakeKeeps ==
    ASSUME IInv, NEW w \in Workers, Take(w)
    PROVE  IInv'
<1>1. TypeOK'
    BY DEF IInv, Take, TypeOK, TakenInv, Goto, WorkerPCs, InLock
<1>2. LockInv'
    BY DEF IInv, Take, LockInv, Goto, InLock
<1>3. TakenInv'
    BY DEF IInv, Take, TakenInv, TypeOK, Goto, InLock, HasTask
<1>4. StackInv'
    BY DEF IInv, Take, StackInv
<1>5. RunningInv'
    BY DEF IInv, Take, RunningInv, Goto, Queued
<1>6. KeptInv'
    BY DEF IInv, Take, KeptInv, Goto, Queued
<1>7. StopInv'
    BY DEF IInv, Take, StopInv
<1>8. NoIdleWorker'
    BY DEF IInv, Take, NoIdleWorker, TypeOK, Goto, Asleep, Seeking
<1>9. RoomInv'
    BY DEF IInv, Take, RoomInv, TypeOK, Goto, Takers
<1> QED
    BY <1>1, <1>2, <1>3, <1>4, <1>5, <1>6, <1>7, <1>8, <1>9 DEF IInv

(* What is popped is what was read, and the worker that pops runs it (lines *)
(* 24-33).                                                                  *)
LEMMA RemoveKeeps ==
    ASSUME IInv, NEW w \in Workers, Remove(w)
    PROVE  IInv'
<1>1. TypeOK'
    BY DEF IInv, Remove, TypeOK, Goto, WorkerPCs, MainPCs
<1>2. LockInv'
    BY NamesAssumption DEF IInv, Remove, LockInv, TypeOK, Goto, InLock
<1>3. TakenInv'
    BY DEF IInv, Remove, TakenInv, TypeOK, LockInv, Goto, InLock, HasTask
<1>4. StackInv'
    BY DEF IInv, Remove, StackInv
<1>5. RunningInv'
    BY DEF IInv, Remove, RunningInv, TakenInv, StackInv, Goto, Queued, InLock
<1>6. KeptInv'
  <2>1. tasks # <<>> /\ task[w] = tasks[Len(tasks)]
      BY DEF IInv, Remove, Goto, TakenInv, InLock
  <2>2. ASSUME NEW h \in Queued
        PROVE  h \in Queued' \/ h = task[w]
    <3>1. PICK i \in 1 .. Len(tasks) : tasks[i] = h
        BY <2>2 DEF Queued
    <3>2. CASE i = Len(tasks)
        BY <3>1, <3>2, <2>1
    <3>3. CASE i # Len(tasks)
      <4>1. i \in 1 .. Len(tasks') /\ tasks'[i] = h
          BY <2>1, <3>1, <3>3, StackPop DEF IInv, TypeOK, Remove
      <4> QED
          BY <4>1 DEF Queued
    <3> QED
        BY <3>2, <3>3
  <2>3. \A v \in Workers : pc[v] = "run" => pc'[v] = "run"
      BY DEF IInv, TypeOK, Remove, Goto
  <2>4. pc'[w] = "run" /\ task' = task /\ fresh' = fresh /\ ran' = ran
      BY DEF IInv, TypeOK, Remove, Goto
  <2> QED
      BY <2>2, <2>3, <2>4 DEF IInv, KeptInv
<1>7. StopInv'
    BY DEF IInv, Remove, StopInv
<1>8. NoIdleWorker'
  <2>1. Seeking' = Seeking \ {w} /\ w \in Seeking /\ Asleep' = Asleep
      BY DEF IInv, TypeOK, Remove, Goto, Seeking, Asleep
  <2>2. Cardinality(Seeking') = Cardinality(Seeking) - 1
      BY <2>1, SeekingFinite, FS_RemoveElement
  <2>3. Len(tasks') = Len(tasks) - 1
      BY StackPop DEF IInv, TypeOK, TakenInv, InLock, Remove, Goto
  <2>4. notifying' = notifying /\ stopFlag' = stopFlag /\ Len(tasks) \in Nat
      BY DEF IInv, TypeOK, Remove
  <2> QED
      BY <2>1, <2>2, <2>3, <2>4, SeekingFinite, NotifyingFinite
      DEF IInv, NoIdleWorker
<1>9. RoomInv'
  <2>1. Takers' = Takers \ {w} /\ w \in Takers
      BY DEF IInv, TypeOK, Remove, Goto, Takers
  <2>2. Cardinality(Takers') = Cardinality(Takers) - 1
      BY <2>1, PoolFinite, FS_RemoveElement DEF Takers
  <2>3. Len(tasks') = Len(tasks) - 1 /\ Len(tasks) \in Nat
      BY StackPop DEF IInv, TypeOK, TakenInv, InLock, Remove, Goto
  <2>4. Cardinality(Takers) \in Nat /\ poisons \in Nat /\ N \in Nat
      BY PoolFinite DEF IInv, TypeOK, Takers
  <2> QED
      BY <2>2, <2>3, <2>4 DEF IInv, RoomInv, Remove
<1> QED
    BY <1>1, <1>2, <1>3, <1>4, <1>5, <1>6, <1>7, <1>8, <1>9 DEF IInv

(* A handle that ran is nowhere else, and its worker looks at the stack     *)
(* again.                                                                   *)
LEMMA RunEndsKeeps ==
    ASSUME IInv, NEW w \in Workers, RunEnds(w)
    PROVE  IInv'
<1>1. TypeOK'
    BY DEF IInv, RunEnds, TypeOK, TakenInv, Goto, WorkerPCs, HasTask
<1>2. LockInv'
    BY DEF IInv, RunEnds, LockInv, Goto, InLock
<1>3. TakenInv'
    BY DEF IInv, RunEnds, TakenInv, TypeOK, Goto, InLock, HasTask
<1>4. StackInv'
    BY DEF IInv, RunEnds, StackInv, RunningInv, Goto, Queued
<1>5. RunningInv'
    BY DEF IInv, RunEnds, RunningInv, TypeOK, Goto, Queued
<1>6. KeptInv'
    BY NamesAssumption DEF IInv, RunEnds, KeptInv, RunningInv, Goto, Queued
<1>7. StopInv'
    BY DEF IInv, RunEnds, StopInv
<1>8. NoIdleWorker'
  <2>1. Seeking' = Seeking \cup {w} /\ w \notin Seeking /\ Asleep' = Asleep
      BY DEF IInv, TypeOK, RunEnds, Goto, Seeking, Asleep
  <2>2. Cardinality(Seeking') = Cardinality(Seeking) + 1
      BY <2>1, SeekingFinite, FS_AddElement
  <2> QED
      BY <2>1, <2>2, SeekingFinite, NotifyingFinite
      DEF IInv, TypeOK, NoIdleWorker, RunEnds
<1>9. RoomInv'
    BY DEF IInv, RunEnds, RoomInv, TypeOK, Goto, Takers
<1> QED
    BY <1>1, <1>2, <1>3, <1>4, <1>5, <1>6, <1>7, <1>8, <1>9 DEF IInv

(* A new handle goes on the stack, and who pushed it is to notify (lines    *)
(* 41-44).                                                                  *)
LEMMA ScheduleKeeps ==
    ASSUME IInv, NEW s \in Workers \cup Others, Schedule(s)
    PROVE  IInv'
<1>1. TypeOK'
    BY DEF IInv, Schedule, TypeOK, Push
<1>2. LockInv'
    BY DEF IInv, Schedule, LockInv
<1>3. TakenInv'
    BY NamesAssumption DEF IInv, Schedule, TakenInv, LockInv, Push, InLock
<1>4. StackInv'
    BY DEF IInv, Schedule, StackInv, KeptInv, Push
<1>5. RunningInv'
    BY DEF IInv, Schedule, RunningInv, Push, Queued
<1>6. KeptInv'
    BY DEF IInv, Schedule, KeptInv, Push, Queued
<1>7. StopInv'
    BY FS_AddElement DEF IInv, Schedule, Push, StopInv
<1>8. NoIdleWorker'
  <2>1. Seeking' = Seeking /\ Asleep' = Asleep
      BY DEF Schedule, Seeking, Asleep
  <2>2. Cardinality(notifying') = Cardinality(notifying) + 1
      BY NotifyingFinite, FS_AddElement DEF Schedule, Push, MaySchedule
  <2>3. Len(tasks') = Len(tasks) + 1
      BY DEF IInv, TypeOK, Schedule, Push
  <2> QED
      BY <2>1, <2>2, <2>3, SeekingFinite, NotifyingFinite
      DEF IInv, TypeOK, NoIdleWorker, Schedule
<1>9. RoomInv'
  <2>1. Takers' = Takers /\ poisons' = poisons /\ stopFlag' = stopFlag
      BY DEF Schedule, Takers
  <2>2. Len(tasks') = Len(tasks) + 1 /\ Len(tasks) \in Nat
      BY DEF IInv, TypeOK, Schedule, Push
  <2>3. Cardinality(Takers) \in Nat /\ poisons \in Nat /\ N \in Nat
      BY PoolFinite DEF IInv, TypeOK, Takers
  <2> QED
      BY <2>1, <2>2, <2>3 DEF IInv, RoomInv
<1> QED
    BY <1>1, <1>2, <1>3, <1>4, <1>5, <1>6, <1>7, <1>8, <1>9 DEF IInv

(* A notification turns a sleeper into a worker that looks at the stack     *)
(* (line 45).                                                               *)
LEMMA NotifyKeeps ==
    ASSUME IInv, NEW s \in notifying, Notify(s)
    PROVE  IInv'
<1>1. TypeOK'
    BY DEF IInv, Notify, TypeOK, WorkerPCs
<1>2. LockInv'
    BY DEF IInv, Notify, LockInv, TypeOK, Asleep, InLock
<1>3. TakenInv'
    BY DEF IInv, Notify, TakenInv, TypeOK, Asleep, InLock, HasTask
<1>4. StackInv'
    BY DEF IInv, Notify, StackInv
<1>5. RunningInv'
    BY DEF IInv, Notify, RunningInv, TypeOK, Queued
<1>6. KeptInv'
    BY DEF IInv, Notify, KeptInv, TypeOK, Asleep, Queued
<1>7. StopInv'
    BY FS_RemoveElement DEF IInv, Notify, StopInv
<1>8. NoIdleWorker'
  <2>1. CASE Asleep = {} /\ UNCHANGED pc
      BY <2>1 DEF NoIdleWorker, Asleep
  <2>2. ASSUME NEW w \in Asleep, pc' = [pc EXCEPT ![w] = "lock"]
        PROVE  NoIdleWorker'
    <3>1. Seeking' = Seeking \cup {w} /\ w \notin Seeking
        BY <2>2 DEF IInv, TypeOK, Seeking, Asleep
    <3>2. Cardinality(Seeking') = Cardinality(Seeking) + 1
        BY <3>1, SeekingFinite, FS_AddElement
    <3>3. Cardinality(notifying') = Cardinality(notifying) - 1
        BY NotifyingFinite, FS_RemoveElement DEF Notify
    <3> QED
        BY <2>2, <3>2, <3>3, SeekingFinite, NotifyingFinite
        DEF IInv, TypeOK, NoIdleWorker, Notify
  <2> QED
      BY <2>1, <2>2 DEF Notify
<1>9. RoomInv'
    BY DEF IInv, Notify, RoomInv, TypeOK, Asleep, Takers
<1> QED
    BY <1>1, <1>2, <1>3, <1>4, <1>5, <1>6, <1>7, <1>8, <1>9 DEF IInv

(* waitEmpty only reads the stack.                                          *)
LEMMA TestEmptyKeeps ==
    ASSUME IInv, TestEmpty
    PROVE  IInv'
<1>1. TypeOK'
    BY DEF IInv, TestEmpty, TypeOK, MainPCs
<1>2. LockInv'
    BY DEF IInv, TestEmpty, LockInv
<1>3. TakenInv'
    BY DEF IInv, TestEmpty, TakenInv
<1>4. StackInv'
    BY DEF IInv, TestEmpty, StackInv
<1>5. RunningInv'
    BY DEF IInv, TestEmpty, RunningInv, Queued
<1>6. KeptInv'
    BY DEF IInv, TestEmpty, KeptInv, Queued
<1>7. StopInv'
    BY DEF IInv, TestEmpty, StopInv
<1>8. NoIdleWorker'
    BY DEF IInv, TestEmpty, NoIdleWorker, Asleep, Seeking
<1>9. RoomInv'
    BY DEF IInv, TestEmpty, RoomInv, Takers
<1> QED
    BY <1>1, <1>2, <1>3, <1>4, <1>5, <1>6, <1>7, <1>8, <1>9 DEF IInv

(* The main thread falls asleep.                                            *)
LEMMA SleepUntilEmptyKeeps ==
    ASSUME IInv, SleepUntilEmpty
    PROVE  IInv'
<1>1. TypeOK'
    BY DEF IInv, SleepUntilEmpty, TypeOK, MainPCs
<1>2. LockInv'
    BY DEF IInv, SleepUntilEmpty, LockInv
<1>3. TakenInv'
    BY DEF IInv, SleepUntilEmpty, TakenInv
<1>4. StackInv'
    BY DEF IInv, SleepUntilEmpty, StackInv
<1>5. RunningInv'
    BY DEF IInv, SleepUntilEmpty, RunningInv, Queued
<1>6. KeptInv'
    BY DEF IInv, SleepUntilEmpty, KeptInv, Queued
<1>7. StopInv'
    BY DEF IInv, SleepUntilEmpty, StopInv
<1>8. NoIdleWorker'
    BY DEF IInv, SleepUntilEmpty, NoIdleWorker, Asleep, Seeking
<1>9. RoomInv'
    BY DEF IInv, SleepUntilEmpty, RoomInv, Takers
<1> QED
    BY <1>1, <1>2, <1>3, <1>4, <1>5, <1>6, <1>7, <1>8, <1>9 DEF IInv

(* At the stop there are no more takers than workers.                       *)
LEMMA BlockingStopKeeps ==
    ASSUME IInv, BlockingStop
    PROVE  IInv'
<1>1. TypeOK'
    BY DEF IInv, BlockingStop, TypeOK, MainPCs
<1>2. LockInv'
    BY DEF IInv, BlockingStop, LockInv
<1>3. TakenInv'
    BY DEF IInv, BlockingStop, TakenInv
<1>4. StackInv'
    BY DEF IInv, BlockingStop, StackInv
<1>5. RunningInv'
    BY DEF IInv, BlockingStop, RunningInv, Queued
<1>6. KeptInv'
    BY DEF IInv, BlockingStop, KeptInv, Queued
<1>7. StopInv'
    BY DEF IInv, BlockingStop, StopInv
<1>8. NoIdleWorker'
    BY DEF IInv, BlockingStop, NoIdleWorker
<1>9. RoomInv'
  <2>1. stopFlag = FALSE /\ poisons = 0
      BY DEF IInv, TypeOK, StopInv, BlockingStop
  <2>2. Takers' = Takers /\ tasks' = tasks /\ poisons' = poisons
      BY DEF BlockingStop, Takers
  <2>3. Cardinality(Takers) \in Nat /\ Cardinality(Takers) <= N /\ N \in Nat
      BY PoolFinite DEF Takers
  <2>4. Len(tasks) \in Nat
      BY DEF IInv, TypeOK
  <2> QED
      BY <2>1, <2>2, <2>3, <2>4 DEF RoomInv
<1> QED
    BY <1>1, <1>2, <1>3, <1>4, <1>5, <1>6, <1>7, <1>8, <1>9 DEF IInv

(* A null handle is one more to take and one less to push.                  *)
LEMMA PushNullKeeps ==
    ASSUME IInv, PushNull
    PROVE  IInv'
<1>1. TypeOK'
  <2>1. poisons' \in 0 .. N
      BY PoolFinite DEF IInv, TypeOK, PushNull
  <2>2. tasks' \in Seq(Handles \cup {Null})
      BY DEF IInv, TypeOK, PushNull, Push
  <2> QED
      BY <2>1, <2>2 DEF IInv, TypeOK, PushNull, Push
<1>2. LockInv'
    BY DEF IInv, PushNull, LockInv
<1>3. TakenInv'
    BY NamesAssumption DEF IInv, PushNull, TakenInv, LockInv, Push, InLock
<1>4. StackInv'
    BY NamesAssumption DEF IInv, PushNull, StackInv, TypeOK, Push
<1>5. RunningInv'
    BY DEF IInv, PushNull, RunningInv, Push, Queued
<1>6. KeptInv'
    BY DEF IInv, PushNull, KeptInv, Push, Queued
<1>7. StopInv'
    BY FS_AddElement DEF IInv, PushNull, Push, StopInv
<1>8. NoIdleWorker'
    BY DEF IInv, PushNull, NoIdleWorker, StopInv
<1>9. RoomInv'
  <2>1. Takers' = Takers /\ poisons' = poisons + 1 /\ stopFlag' = stopFlag
      BY DEF PushNull, Takers
  <2>2. Len(tasks') = Len(tasks) + 1 /\ Len(tasks) \in Nat
      BY DEF IInv, TypeOK, PushNull, Push
  <2>3. Cardinality(Takers) \in Nat /\ poisons \in Nat /\ N \in Nat
      BY PoolFinite DEF IInv, TypeOK, Takers
  <2> QED
      BY <2>1, <2>2, <2>3 DEF IInv, RoomInv
<1> QED
    BY <1>1, <1>2, <1>3, <1>4, <1>5, <1>6, <1>7, <1>8, <1>9 DEF IInv

(* The main thread has joined the workers.                                  *)
LEMMA JoinKeeps ==
    ASSUME IInv, Join
    PROVE  IInv'
<1>1. TypeOK'
    BY DEF IInv, Join, TypeOK, MainPCs
<1>2. LockInv'
    BY DEF IInv, Join, LockInv
<1>3. TakenInv'
    BY DEF IInv, Join, TakenInv
<1>4. StackInv'
    BY DEF IInv, Join, StackInv
<1>5. RunningInv'
    BY DEF IInv, Join, RunningInv
<1>6. KeptInv'
    BY DEF IInv, Join, KeptInv, Queued
<1>7. StopInv'
    BY DEF IInv, Join, StopInv
<1>8. NoIdleWorker'
    BY DEF IInv, Join, NoIdleWorker, Asleep
<1>9. RoomInv'
    BY DEF IInv, Join, RoomInv, Takers
<1> QED
    BY <1>1, <1>2, <1>3, <1>4, <1>5, <1>6, <1>7, <1>8, <1>9 DEF IInv

-----------------------------------------------------------------------------
(* The pool starts with an empty stack and nobody in its lock.              *)
LEMMA InitIInv == Init => IInv
<1> SUFFICES ASSUME Init PROVE IInv
    OBVIOUS
<1>1. TypeOK
  <2>1. poisons \in 0 .. N
      BY PoolFinite DEF Init
  <2>2. pc \in [Workers -> WorkerPCs] /\ main \in MainPCs
      BY DEF Init, WorkerPCs, MainPCs
  <2>3. task \in [Workers -> Handles \cup {Null, None}]
      BY DEF Init
  <2>4. tasks \in Seq(Handles \cup {Null})
      BY EmptySeq DEF Init
  <2> QED
      BY <2>1, <2>2, <2>3, <2>4 DEF Init, TypeOK
<1>2. LockInv /\ TakenInv
    BY NamesAssumption DEF Init, LockInv, TakenInv, InLock, HasTask
<1>3. StackInv /\ RunningInv /\ KeptInv
    BY DEF Init, StackInv, RunningInv, KeptInv
<1>4. StopInv
    BY FS_EmptySet DEF Init, StopInv
<1>5. NoIdleWorker /\ RoomInv
    BY DEF Init, NoIdleWorker, Asleep, RoomInv
<1> QED
    BY <1>1, <1>2, <1>3, <1>4, <1>5 DEF IInv

(* No step of a worker, of a thread that schedules or of the main thread    *)
(* breaks the invariant.                                                    *)
LEMMA NextKeeps == IInv /\ [Next]_vars => IInv'
<1> SUFFICES ASSUME IInv, [Next]_vars PROVE IInv'
    OBVIOUS
<1>1. ASSUME NEW w \in Workers, Lock(w) \/ WakeSpuriously(w)
      PROVE  IInv'
    BY <1>1, LockFullKeeps, LockEmptyKeeps, WakeSpuriouslyKeeps DEF Lock
<1>2. ASSUME NEW w \in Workers, Loop(w)
      PROVE  IInv'
    BY <1>2, CheckKeeps, TakeKeeps, RemoveKeeps, RunEndsKeeps DEF Loop
<1>3. ASSUME NEW s \in Workers \cup Others, Schedule(s)
      PROVE  IInv'
    BY <1>3, ScheduleKeeps
<1>4. ASSUME NEW s \in notifying, Notify(s)
      PROVE  IInv'
    BY <1>4, NotifyKeeps
<1>5. CASE Stop
    BY <1>5, TestEmptyKeeps, SleepUntilEmptyKeeps, BlockingStopKeeps,
       PushNullKeeps, JoinKeeps DEF Stop
<1>6. CASE UNCHANGED vars
  <2>1. TypeOK' /\ LockInv' /\ TakenInv'
      BY <1>6 DEF vars, IInv, TypeOK, LockInv, TakenInv
  <2>2. StackInv' /\ RunningInv' /\ KeptInv' /\ StopInv'
      BY <1>6 DEF vars, IInv, StackInv, RunningInv, KeptInv, StopInv, Queued
  <2>3. NoIdleWorker' /\ RoomInv'
      BY <1>6 DEF vars, IInv, NoIdleWorker, RoomInv, Asleep, Seeking, Takers
  <2> QED
      BY <2>1, <2>2, <2>3 DEF IInv
<1> QED
    BY <1>1, <1>2, <1>3, <1>4, <1>5, <1>6 DEF Next

(* Every handle is in one place, and there are enough workers awake for the *)
(* stack, and enough handles on it for the workers, in every state.         *)
THEOREM Invariance == Spec => []IInv
<1>1. Init => IInv
    BY InitIInv
<1>2. IInv /\ [Next]_vars => IInv'
    BY NextKeeps
<1> QED
    BY <1>1, <1>2, PTL DEF Spec

-----------------------------------------------------------------------------
(* Every variable has its type; in particular a worker that pops finds a    *)
(* handle (line 23).                                                        *)
THEOREM TypeCorrect == Spec => []TypeOK
<1>1. IInv => TypeOK
    BY DEF IInv
<1> QED
    BY <1>1, Invariance, PTL

(* A handle that was scheduled is counted once, wherever it is: no frame is *)
(* resumed by two workers, and none is forgotten (lines 23-33).             *)
THEOREM EachScheduledOnce == Spec => []ScheduledOnce
<1>1. ASSUME IInv, NEW h \in Handles \ fresh
      PROVE  Cardinality(OnStack(h)) + Cardinality(RunBy(h))
               + (IF h \in ran THEN 1 ELSE 0) = 1
  <2>1. h # Null
      BY NamesAssumption
  <2>2. CASE h \in ran
    <3>1. OnStack(h) = {} /\ RunBy(h) = {}
        BY <1>1, <2>2 DEF IInv, StackInv, RunningInv, OnStack, RunBy
    <3> QED
        BY <2>2, <3>1, FS_EmptySet
  <2>3. CASE h \in Queued
    <3>1. PICK i \in 1 .. Len(tasks) : tasks[i] = h
        BY <2>3 DEF Queued
    <3>2. OnStack(h) = {i}
        BY <1>1, <2>1, <3>1 DEF IInv, StackInv, OnStack
    <3>3. RunBy(h) = {} /\ h \notin ran
        BY <1>1, <2>1, <2>3, <3>1 DEF IInv, StackInv, RunningInv, RunBy
    <3>4. Cardinality(OnStack(h)) = 1 /\ Cardinality(RunBy(h)) = 0
        BY <3>2, <3>3, FS_EmptySet, FS_Singleton
    <3> QED
        BY <3>3, <3>4
  <2>4. ASSUME NEW w \in Workers, pc[w] = "run", task[w] = h
        PROVE  Cardinality(OnStack(h)) + Cardinality(RunBy(h))
                 + (IF h \in ran THEN 1 ELSE 0) = 1
    <3>1. RunBy(h) = {w}
        BY <1>1, <2>1, <2>4 DEF IInv, RunningInv, RunBy
    <3>2. h \notin Queued /\ h \notin ran
        BY <1>1, <2>1, <2>4 DEF IInv, RunningInv
    <3>3. OnStack(h) = {}
        BY <3>2 DEF Queued, OnStack
    <3>4. Cardinality(OnStack(h)) = 0 /\ Cardinality(RunBy(h)) = 1
        BY <3>1, <3>3, FS_EmptySet, FS_Singleton
    <3> QED
        BY <3>2, <3>4
  <2> QED
      BY <1>1, <2>2, <2>3, <2>4 DEF IInv, KeptInv
<1>2. IInv => ScheduledOnce
    BY <1>1 DEF ScheduledOnce, OnStack, RunBy
<1> QED
    BY <1>2, Invariance, PTL

(* While a worker sleeps, as many look at the stack or are about to be      *)
(* notified as there are handles on it (lines 22 and 41-45).                *)
THEOREM NobodyIdles == Spec => []NoIdleWorker
<1>1. IInv => NoIdleWorker
    BY DEF IInv
<1> QED
    BY <1>1, Invariance, PTL

(* When blockingStop has pushed its null handles, there is one handle for   *)
(* every worker that may still wait for one (lines 53-57).                  *)
THEOREM StopReachesAll == Spec => []EnoughToStop
<1>1. ASSUME IInv, main = "stopping", poisons = N
      PROVE  Cardinality(Takers) <= Len(tasks)
  <2>1. Cardinality(Takers) + N <= N + Len(tasks)
      BY <1>1 DEF IInv, StopInv, RoomInv
  <2>2. Cardinality(Takers) \in Nat /\ N \in Nat /\ Len(tasks) \in Nat
      BY <1>1, PoolFinite DEF IInv, TypeOK, Takers
  <2> QED
      BY <2>1, <2>2
<1>2. IInv => EnoughToStop
    BY <1>1 DEF EnoughToStop, Takers
<1> QED
    BY <1>2, Invariance, PTL
=============================================================================
