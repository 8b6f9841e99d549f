----------------------------- MODULE Coroutines -----------------------------
(***************************************************************************)
(* Coroutines that await one another, src/src/async/: Promise,             *)
(* ChainedAwaitObject, AwaitResumeResult, FinalAwait, Coroutine,           *)
(* ResumeSuspendAwaitObject, and the blocking wait of SyncCoroutineWaiter. *)
(*                                                                         *)
(* Coroutine 0 is waitHelper, which the main thread waits for; coroutine i *)
(* calls coroutine i + 1 and awaits it (main has called coroutine 1 for    *)
(* waitHelper); the last one suspends itself and is resumed by the pool    *)
(* after an event, or is held and resumed by the one that awaits it        *)
(* (resumeSuspended).  A coroutine starts on the thread of its caller and  *)
(* ends on the thread of whoever resumed it, so that the steps of an end   *)
(* and of a co_await interleave.                                           *)
(***************************************************************************)
EXTENDS Naturals, FiniteSets

CONSTANTS
    Depth,          \* the last coroutine
    MaxSuspends,    \* how often the last coroutine suspends itself
    Catchers,       \* coroutines that catch ClosedTransportException
    None            \* no coroutine

Frames == 0 .. Depth

ASSUME DepthAssumption == Depth \in Nat \ {0}
ASSUME SuspendsAssumption == MaxSuspends \in Nat
ASSUME CatchersAssumption == Catchers \subseteq 1 .. Depth - 1
ASSUME NoneAssumption == None \notin Frames

VARIABLES
    frame,      \* coroutine -> its frame and its promise
    main,       \* where SyncCoroutineWaiter::wait is
    doneFlag,   \* the flag waitHelper sets for it
    suspends,   \* how often the last coroutine has suspended itself
    held,       \* the last coroutine is resumed by resumeSuspended only
    error,      \* ghost: the exception that nobody has caught yet
    crash       \* what ended the process

vars == <<frame, main, doneFlag, suspends, held, error, crash>>

PCs == {"none", "running", "parked", "scheduled", "calling", "nested",
        "storing", "suspended", "result", "flagging", "notifying", "leaving",
        "finalizing", "final", "ended"}

Errors == {"none", "closed", "other"}

MainPCs == {"testing", "tested", "asleep", "checking", "destroying",
            "returned"}

(* The ends of the process: an exception without a caller to take it, in   *)
(* the worker, in the thread that raises it, or in main; a promise that    *)
(* unwinding destroys unchecked; other assertions of Promise.h and         *)
(* Coroutine.h; an access to a frame that was destroyed.                   *)
Crashes == {"no", "unhandled", "raised_without_caller",
            "unchecked_destroy", "double_fault",
            "double_join", "taken_early", "not_done", "checked_early",
            "destroyed_early", "use_after_destroy"}

(* "captured" is the caller that FinalAwait holds, "returned" tells that   *)
(* the call that started the coroutine has returned, "thrown" is the       *)
(* exception under way in its body, "result" a ghost: what it ended with.  *)
FrameTypes ==
    [pc : PCs, caller : Frames \cup {None}, captured : Frames \cup {None},
     mayBeChecked : BOOLEAN, exception : Errors, thrown : Errors,
     returned : BOOLEAN, alive : BOOLEAN,
     result : {"pending", "value", "closed", "other"}]

Init ==
    /\ frame = [i \in Frames |->
                  [pc |-> IF i = 0 THEN "running" ELSE "none",
                   caller |-> None, captured |-> None, mayBeChecked |-> FALSE,
                   exception |-> "none", thrown |-> "none",
                   returned |-> FALSE, alive |-> TRUE, result |-> "pending"]]
    /\ main = "testing"
    /\ doneFlag = FALSE
    /\ suspends = 0
    /\ held \in BOOLEAN
    /\ error = "none"
    /\ crash = "no"

Done(i) == frame[i].pc \in {"final", "ended"}

waiting == <<main, doneFlag>>

-----------------------------------------------------------------------------
(* The last coroutine *)

(* suspendThis: the call, or the resume, that runs the coroutine returns.  *)
Suspend ==
    /\ frame[Depth].pc = "running" /\ frame[Depth].exception = "none"
    /\ suspends < IF held THEN 1 ELSE MaxSuspends
    /\ frame' = [frame EXCEPT ![Depth].pc = "parked",
                              ![Depth].returned = TRUE]
    /\ suspends' = suspends + 1
    /\ UNCHANGED <<waiting, held, error, crash>>

(* The event the coroutine waits for: its handle goes to the pool. *)
Schedule ==
    /\ frame[Depth].pc = "parked" /\ ~held
    /\ frame' = [frame EXCEPT ![Depth].pc = "scheduled"]
    /\ UNCHANGED <<waiting, suspends, held, error, crash>>

(* The event is the end of the connection: raiseException, then the same.  *)
Raise ==
    /\ frame[Depth].pc = "parked" /\ ~held
    /\ IF frame[Depth].caller = None
       THEN /\ crash' = "raised_without_caller"
            /\ UNCHANGED <<frame, error>>
       ELSE /\ frame' = [frame EXCEPT ![Depth].pc = "scheduled",
                                      ![Depth].mayBeChecked = TRUE,
                                      ![Depth].exception = "closed"]
            /\ error' = "closed"
            /\ UNCHANGED crash
    /\ UNCHANGED <<waiting, suspends, held>>

(* A worker of the pool resumes the coroutine. *)
Resume ==
    /\ frame[Depth].pc = "scheduled"
    /\ frame' = [frame EXCEPT ![Depth].pc = "running"]
    /\ UNCHANGED <<waiting, suspends, held, error, crash>>

(* The body ends, with a value or with an exception: its own, or that of a *)
(* connection found closed before it suspends; one that was raised while   *)
(* it was suspended is in its promise already.                             *)
Leave ==
    /\ frame[Depth].pc = "running"
    /\ \/ /\ frame' = [frame EXCEPT ![Depth].pc = "leaving"]
          /\ UNCHANGED error
       \/ /\ frame[Depth].exception = "none"
          /\ \E ex \in {"closed", "other"} :
                /\ frame' = [frame EXCEPT ![Depth].pc = "leaving",
                                          ![Depth].thrown = ex]
                /\ error' = ex
    /\ UNCHANGED <<waiting, suspends, held, crash>>

-----------------------------------------------------------------------------
(* A coroutine that awaits the next one *)

Call(i) ==
    /\ frame[i].pc = "running" /\ i < Depth
    /\ frame' = [frame EXCEPT ![i].pc = "calling", ![i + 1].pc = "running"]
    /\ UNCHANGED <<waiting, suspends, held, error, crash>>

(* await_transform of resumeSuspended: the held coroutine is resumed on    *)
(* this thread before it is awaited like any other.                        *)
ResumeSuspended(i) ==
    /\ frame[i].pc = "calling" /\ i + 1 = Depth /\ frame[Depth].pc = "parked"
    /\ held
    /\ frame' = [frame EXCEPT ![i].pc = "nested", ![Depth].pc = "running",
                              ![Depth].returned = FALSE]
    /\ UNCHANGED <<waiting, suspends, held, error, crash>>

\* Mutant: await_ready asks whether the promise may be checked.
ReadyWhenCheckable(i) ==
    /\ frame[i].pc \in {"calling", "nested"} /\ frame[i + 1].returned
    /\ held /\ i + 1 = Depth => frame[Depth].pc # "parked"
    /\ frame' = [frame EXCEPT ![i].pc = IF frame[i + 1].mayBeChecked
                                        THEN "result" ELSE "storing"]
    /\ UNCHANGED <<waiting, suspends, held, error, crash>>

(* await_ready: go on at once if the awaited coroutine is done. *)
Ready(i) ==
    /\ frame[i].pc \in {"calling", "nested"} /\ frame[i + 1].returned
    /\ held /\ i + 1 = Depth => frame[Depth].pc # "parked"
    /\ frame' = [frame EXCEPT ![i].pc = IF Done(i + 1) THEN "result"
                                        ELSE "storing"]
    /\ UNCHANGED <<waiting, suspends, held, error, crash>>

\* Mutant: the caller is stored in its own promise.
StoreInCaller(i) ==
    /\ frame[i].pc = "storing"
    /\ IF frame[i].caller # None
       THEN crash' = "double_join" /\ UNCHANGED frame
       ELSE /\ frame' = [frame EXCEPT ![i].pc = "suspended",
                                      ![i].returned = TRUE,
                                      ![i].caller = i]
            /\ UNCHANGED crash
    /\ UNCHANGED <<waiting, suspends, held, error>>

(* await_suspend: tell the awaited coroutine whom to resume.  The thread   *)
(* returns from the call that started this one.                            *)
Store(i) ==
    /\ frame[i].pc = "storing"
    /\ IF frame[i + 1].caller # None
       THEN crash' = "double_join" /\ UNCHANGED frame
       ELSE /\ frame' = [frame EXCEPT ![i].pc = "suspended",
                                      ![i].returned = TRUE,
                                      ![i + 1].caller = i]
            /\ UNCHANGED crash
    /\ UNCHANGED <<waiting, suspends, held, error>>

Catches(i) == i \in Catchers /\ frame[i + 1].exception = "closed"

(* await_resume takes the exception out of the promise, the result is      *)
(* touched and throws it; the awaited coroutine is destroyed.              *)
TakeResult(i, thrown) ==
    /\ frame' = [frame EXCEPT ![i].pc = IF i = 0 THEN "flagging"
                                        ELSE "leaving",
                              ![i].thrown = thrown,
                              ![i + 1].exception = "none",
                              ![i + 1].alive = FALSE]
    /\ error' = IF Catches(i) THEN "none" ELSE error
    /\ UNCHANGED crash

\* Mutant: the result is not touched: the exception is dropped.
TakeUntouched(i) ==
    /\ frame[i].pc = "result"
    /\ frame[i + 1].mayBeChecked /\ Done(i + 1)
    /\ TakeResult(i, "none")
    /\ UNCHANGED <<waiting, suspends, held>>

Take(i) ==
    /\ frame[i].pc = "result"
    /\ \/ /\ frame[i + 1].mayBeChecked /\ Done(i + 1)
          /\ TakeResult(i, IF Catches(i) THEN "none"
                           ELSE frame[i + 1].exception)
       \/ /\ ~frame[i + 1].mayBeChecked
          /\ crash' = "taken_early"
          /\ UNCHANGED <<frame, error>>
       \/ /\ frame[i + 1].mayBeChecked /\ ~Done(i + 1)
          /\ crash' = "not_done"
          /\ UNCHANGED <<frame, error>>
    /\ UNCHANGED <<waiting, suspends, held>>

-----------------------------------------------------------------------------
(* The end of a coroutine *)

(* The coroutine runs inside the call, or the resumption, that the body of *)
(* the one before it makes: an exception that leaves it gets there.        *)
InCall(i) ==
    /\ i > 1 /\ frame[i - 1].pc \in {"calling", "nested"}
    /\ ~frame[i].returned

(* unhandled_exception: the promise keeps the exception for the caller, if *)
(* it knows one; otherwise it is thrown again at whoever runs the          *)
(* coroutine, a worker or main, which does not catch it.                   *)
Unhandled(i) ==
    /\ frame[i].pc = "leaving" /\ frame[i].thrown # "none"
    /\ \/ /\ frame[i].caller = None /\ ~InCall(i)
          /\ crash' = "unhandled"
          /\ UNCHANGED frame
       \/ /\ frame[i].caller # None /\ frame[i].exception # "none"
          /\ crash' = "double_fault"
          /\ UNCHANGED frame
       \/ /\ frame[i].caller # None /\ frame[i].exception = "none"
          /\ frame' = [frame EXCEPT ![i].mayBeChecked = TRUE,
                                    ![i].exception = frame[i].thrown,
                                    ![i].thrown = "none"]
          /\ UNCHANGED crash
    /\ UNCHANGED <<waiting, suspends, held, error>>

(* What is thrown on in the caller's body: nothing if it is caught there. *)
Escaping(i) ==
    IF i - 1 \in Catchers /\ frame[i].thrown = "closed" THEN "none"
    ELSE frame[i].thrown

(* It is thrown again inside the call that started the coroutine, or the   *)
(* resume of resumeSuspended.  Unwinding destroys the promise: the process *)
(* ends at Promise.h:102, as nobody has checked it, or, built without      *)
(* assertions, the exception goes on in the body of the caller, at the     *)
(* call and without a co_await.                                            *)
Escape(i) ==
    /\ frame[i].pc = "leaving" /\ frame[i].thrown # "none"
    /\ frame[i].caller = None /\ InCall(i)
    /\ \/ /\ crash' = "unchecked_destroy"
          /\ UNCHANGED <<frame, error>>
       \/ /\ frame' = [frame EXCEPT
                         ![i].pc = "ended", ![i].mayBeChecked = TRUE,
                         ![i].thrown = "none", ![i].alive = FALSE,
                         ![i].returned = TRUE, ![i].result = frame[i].thrown,
                         ![i - 1].pc = "leaving",
                         ![i - 1].thrown = Escaping(i)]
          /\ error' = Escaping(i)
          /\ UNCHANGED crash
    /\ UNCHANGED <<waiting, suspends, held>>

(* final_suspend: FinalAwait gets the caller as it is known now. *)
Finalize(i) ==
    /\ frame[i].pc = "leaving" /\ frame[i].thrown = "none"
    /\ frame' = [frame EXCEPT
                   ![i].pc = "finalizing", ![i].mayBeChecked = TRUE,
                   ![i].captured = frame[i].caller,
                   ![i].result = IF frame[i].exception = "none" THEN "value"
                                 ELSE frame[i].exception]
    /\ UNCHANGED <<waiting, suspends, held, error, crash>>

(* The coroutine is suspended for the last time: done() is true. *)
SuspendFinally(i) ==
    /\ frame[i].pc = "finalizing"
    /\ frame' = [frame EXCEPT ![i].pc = "final"]
    /\ UNCHANGED <<waiting, suspends, held, error, crash>>

\* Mutant: nobody is resumed at the end of a coroutine.
TransferToNobody(i) ==
    /\ frame[i].pc = "final" /\ frame[i].alive
    /\ frame' = [frame EXCEPT ![i].pc = "ended", ![i].returned = TRUE]
    /\ UNCHANGED <<waiting, suspends, held, error, crash>>

(* FinalAwait::await_suspend: the thread goes on in the caller, or returns *)
(* to whoever resumed this one.                                            *)
Transfer(i) ==
    /\ frame[i].pc = "final" /\ frame[i].alive
    /\ frame' = IF frame[i].captured = None
                THEN [frame EXCEPT ![i].pc = "ended", ![i].returned = TRUE]
                ELSE [frame EXCEPT ![i].pc = "ended",
                                   ![frame[i].captured].pc = "result"]
    /\ UNCHANGED <<waiting, suspends, held, error, crash>>

(* FinalAwait lies in the frame.  Another thread has seen done() and has   *)
(* destroyed the frame: its memory may have been used again or not.        *)
TransferDestroyed(i) ==
    /\ frame[i].pc = "final" /\ ~frame[i].alive
    /\ \/ /\ frame' = [frame EXCEPT ![i].pc = "ended"]
          /\ UNCHANGED crash
       \/ /\ crash' = "use_after_destroy"
          /\ UNCHANGED frame
    /\ UNCHANGED <<waiting, suspends, held, error>>

-----------------------------------------------------------------------------
(* SyncCoroutineWaiter: waitHelper is coroutine 0 *)

(* Both ends of its try block set the flag, without the waiter's mutex ... *)
Flag ==
    /\ frame[0].pc = "flagging"
    /\ doneFlag' = TRUE
    /\ frame' = [frame EXCEPT ![0].pc = "notifying"]
    /\ UNCHANGED <<main, suspends, held, error, crash>>

\* Mutant: the helper ends without a notification.
NotifyNobody ==
    /\ frame[0].pc = "notifying"
    /\ frame' = [frame EXCEPT ![0].pc = "leaving"]
    /\ UNCHANGED <<waiting, suspends, held, error, crash>>

(* ... and notify the waiter if it is asleep. *)
Notify ==
    /\ frame[0].pc = "notifying"
    /\ frame' = [frame EXCEPT ![0].pc = "leaving"]
    /\ main' = IF main = "asleep" THEN "testing" ELSE main
    /\ UNCHANGED <<doneFlag, suspends, held, error, crash>>

(* cv.wait: the predicate, then sleep, if the call of waitHelper returned. *)
Test ==
    /\ main = "testing" /\ frame[0].returned
    /\ main' = IF doneFlag THEN "checking" ELSE "tested"
    /\ UNCHANGED <<frame, doneFlag, suspends, held, error, crash>>

Sleep ==
    /\ main = "tested"
    /\ main' = "asleep"
    /\ UNCHANGED <<frame, doneFlag, suspends, held, error, crash>>

WakeSpuriously ==
    /\ main = "asleep"
    /\ main' = "testing"
    /\ UNCHANGED <<frame, doneFlag, suspends, held, error, crash>>

(* check(), which asserts that the helper has ended. *)
Check ==
    /\ main = "checking"
    /\ \/ /\ frame[0].mayBeChecked
          /\ main' = "destroying"
          /\ UNCHANGED crash
       \/ /\ ~frame[0].mayBeChecked
          /\ crash' = "checked_early"
          /\ UNCHANGED main
    /\ UNCHANGED <<frame, doneFlag, suspends, held, error>>

(* The helper's coroutine object goes out of scope. *)
Return ==
    /\ main = "destroying"
    /\ \/ /\ Done(0)
          /\ frame' = [frame EXCEPT ![0].alive = FALSE]
          /\ main' = "returned"
          /\ UNCHANGED crash
       \/ /\ ~Done(0)
          /\ crash' = "destroyed_early"
          /\ UNCHANGED <<frame, main>>
    /\ UNCHANGED <<doneFlag, suspends, held, error>>

-----------------------------------------------------------------------------
Last == Suspend \/ Schedule \/ Raise \/ Resume \/ Leave

Await(i) == Call(i) \/ ResumeSuspended(i) \/ Ready(i) \/ Store(i) \/ Take(i)

Exit(i) ==
    \/ Unhandled(i) \/ Escape(i) \/ Finalize(i) \/ SuspendFinally(i)
    \/ Transfer(i) \/ TransferDestroyed(i)

Wait == Flag \/ Notify \/ Test \/ Sleep \/ Check \/ Return

(* The awaited coroutine ended before its caller was stored. *)
CallerLost ==
    \E i \in 0 .. Depth - 1 :
        /\ frame[i].pc = "suspended"
        /\ frame[i + 1].pc = "ended" /\ frame[i + 1].captured = None

(* The notification came between the waiter's test and its sleep. *)
NotificationLost == main = "asleep" /\ doneFlag /\ frame[0].pc # "notifying"

Ended == crash # "no" \/ main = "returned" \/ CallerLost

Next ==
    \/ crash = "no" /\ Last
    \/ \E i \in 0 .. Depth - 1 : crash = "no" /\ Await(i)
    \/ \E i \in Frames : crash = "no" /\ Exit(i)
    \/ crash = "no" /\ Wait
    \/ crash = "no" /\ WakeSpuriously
    \/ Ended /\ UNCHANGED vars

Spec == Init /\ [][Next]_vars

(* Every thread runs while it can, and what the last coroutine waits for   *)
(* happens.                                                                *)
Fairness ==
    /\ WF_vars(crash = "no" /\ Last)
    /\ \A i \in 0 .. Depth - 1 : WF_vars(crash = "no" /\ Await(i))
    /\ \A i \in Frames : WF_vars(crash = "no" /\ Exit(i))
    /\ WF_vars(crash = "no" /\ (Flag \/ Notify))
    /\ WF_vars(crash = "no" /\ (Test \/ Sleep \/ Check \/ Return))

FairSpec == Spec /\ Fairness

-----------------------------------------------------------------------------
(* Types of the fields of PromiseBase, FinalAwait and SyncCoroutineWaiter; *)
(* a coroutine's caller is the one before it.                              *)
TypeOK ==
    /\ frame \in [Frames -> FrameTypes]
    /\ \A i \in Frames : /\ frame[i].caller \in {i - 1, None}
                         /\ frame[i].captured \in {i - 1, None}
    /\ main \in MainPCs
    /\ doneFlag \in BOOLEAN
    /\ suspends \in 0 .. MaxSuspends + 1
    /\ held \in BOOLEAN
    /\ error \in Errors
    /\ crash \in Crashes

(* Whatever thread ends the awaited coroutine, and whether its caller is   *)
(* resumed by it or found it done: the assertions "check coroutine only    *)
(* after it exits" and "coroutine must be done" (Promise.h:80,             *)
(* Coroutine.h:60) hold in every co_await, nobody joins or fails twice     *)
(* (Promise.h:19, 86), and no thread is about to resume or to join a       *)
(* coroutine on behalf of a frame that was destroyed.                      *)
AwaitsAfterEnd ==
    /\ crash \notin {"taken_early", "not_done", "double_join", "double_fault"}
    /\ \A i \in Frames :
           ~frame[i].alive =>
               /\ Done(i)
               /\ frame[i].pc = "final" => frame[i].captured = None
               /\ \A j \in Frames : frame[j].captured = i =>
                                        frame[j].pc = "ended"

Holders == {i \in Frames : frame[i].exception # "none"}

Throwers == {i \in Frames : frame[i].thrown # "none"}

(* An exception that nobody has caught is in one place as long as the      *)
(* process lives: in the promise of a frame that exists, or under way in   *)
(* one body (Promise.h:13-20, 77-83, 97-98, AwaitResumeResult.h:31-36).    *)
ErrorKept ==
    crash = "no" =>
        /\ Cardinality(Holders) + Cardinality(Throwers)
             = IF error = "none" THEN 0 ELSE 1
        /\ \A i \in Holders : frame[i].exception = error /\ frame[i].alive
        /\ \A i \in Throwers : frame[i].thrown = error

Promised == INSTANCE AwaitChain
    WITH outcome <- [i \in Frames |-> frame[i].result],
         taken <- {i \in Frames : ~frame[i].alive}

(* Outcomes go up the chain: one by one, each after the end it belongs to, *)
(* and unchanged unless caught, whether a co_await takes them              *)
(* (ChainedAwaitObject.h:43-53) or an exception leaves the call itself     *)
(* (Promise.h:15-16).                                                      *)
ImplementsAwaitChain == Promised!Spec

(* The blocking wait returns, unless an exception or an assertion ends the *)
(* process, or a wake-up is lost in one of two ways: a coroutine ends      *)
(* between await_ready and await_suspend, or the helper ends between the   *)
(* waiter's test and its sleep.                                            *)
WaitReturns ==
    <>(main = "returned" \/ crash # "no" \/ CallerLost \/ NotificationLost)
=============================================================================
