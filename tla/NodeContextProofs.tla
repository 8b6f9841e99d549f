-------------------------- MODULE NodeContextProofs --------------------------
(***************************************************************************)
(* NodeContext checks the coroutine of every connection once, after its    *)
(* end, and its destructor does not return before all have ended, for any  *)
(* number of connections.                                                  *)
(***************************************************************************)
EXTENDS NodeContext, FiniteSetTheorems, TLAPS

(* Where the callback of the server has serverHandlersMutex, where a        *)
(* handler has it, and where the destructor has finishedHandlersMutex.      *)
Emplaced == {"testing", "locking", "starting"}
Moving == {"locked", "pushed"}
Clearing == {"clearing", "reclearing"}

(* Who is inside the critical sections is who has the mutexes.              *)
LockInv ==
    crash = "no" =>
        /\ loop.pc \in Emplaced <=> serverHandlersMutex = LoopThread
        /\ main = "closing" <=> serverHandlersMutex = Main
        /\ \A c \in Connections :
              handler[c] \in Moving <=> serverHandlersMutex = c
        /\ main \in Clearing <=> finishedHandlersMutex = Main

(* The callback is about a connection without a handler, and there is none  *)
(* once the server is closed.                                               *)
LoopInv ==
    crash = "no" =>
        /\ loop.pc = "idle" <=> loop.of = None
        /\ loop.of # None => handler[loop.of] = "none"
        /\ loop.pc \in Emplaced <=> loop.of \in serverHandlers
        /\ main \in {"members", "returned"} => loop.pc = "idle" /\ ~listening

(* A handler's context is in serverHandlers until the handler erases it,    *)
(* and in finishedHandlers from the push at the earliest.                   *)
OwnInv ==
    crash = "no" =>
        \A c \in Connections :
            /\ c \in serverHandlers <=>
                  \/ handler[c] \in {"listening", "ending"} \cup Moving
                  \/ c = loop.of /\ loop.pc \in Emplaced
            /\ c \in finishedHandlers =>
                  handler[c] \in {"pushed", "leaving", "ended"}
            /\ handler[c] = "pushed" \/ handler[c] = "leaving" =>
                  c \in finishedHandlers \cup taken
            /\ handler[c] = "ended" =>
                  c \in finishedHandlers \cup taken \/ checks[c] = 1

(* The waiter checks what was taken, and a cleanup what was not.            *)
CheckInv ==
    crash = "no" =>
        /\ main = "waiting" <=> waitsFor # None
        /\ waitsFor # None => waitsFor \in taken /\ checks[waitsFor] = 0
        /\ \A c \in taken \ {waitsFor} : handler[c] = "ended" /\ checks[c] = 1
        /\ \A c \in taken : handler[c] # "none"
        /\ main \in Clearing =>
              \A c \in Checked : handler[c] = "ended" /\ checks[c] = 1
        /\ main \notin Clearing => \A c \in Checked : checks[c] = 0

IInv ==
    /\ TypeOK
    /\ LockInv
    /\ LoopInv
    /\ OwnInv
    /\ CheckInv
    /\ CheckedOnce

-----------------------------------------------------------------------------
(* The threads and None are different, and no connection.                   *)
LEMMA Distinct ==
    /\ LoopThread # Main /\ LoopThread # None /\ Main # None
    /\ LoopThread \notin Connections /\ Main \notin Connections
    /\ None \notin Connections
<1>1. ASSUME NEW x, NEW y
      PROVE  Cardinality({x, y}) # 3
  <2>1. Cardinality({y}) = 1 /\ IsFiniteSet({y})
      BY FS_Singleton
  <2>2. {x, y} = {y} \cup {x}
      OBVIOUS
  <2>3. Cardinality({x, y}) \in {1, 2}
      BY <2>1, <2>2, FS_AddElement
  <2> QED
      BY <2>3
<1>2. Cardinality({LoopThread, Main, None}) = 3
    BY ThreadsAssumption
<1>3. LoopThread # Main
  <2>1. LoopThread = Main =>
            {LoopThread, Main, None} = {LoopThread, None}
      OBVIOUS
  <2> QED
      BY <1>1, <1>2, <2>1
<1>4. LoopThread # None
  <2>1. LoopThread = None =>
            {LoopThread, Main, None} = {LoopThread, Main}
      OBVIOUS
  <2> QED
      BY <1>1, <1>2, <2>1
<1>5. Main # None
  <2>1. Main = None => {LoopThread, Main, None} = {LoopThread, Main}
      OBVIOUS
  <2> QED
      BY <1>1, <1>2, <2>1
<1> QED
    BY <1>3, <1>4, <1>5, ThreadsAssumption

(* The two cleanups of the destructor.                                      *)
LEMMA Phases ==
    \A k \in Cleanups :
        \/ /\ k.test = "testing" /\ k.clean = "cleaning"
           /\ k.clear = "clearing" /\ k.next = "relocking"
        \/ /\ k.test = "retesting" /\ k.clean = "recleaning"
           /\ k.clear = "reclearing" /\ k.next = "servers"
BY DEF Cleanups

-----------------------------------------------------------------------------
(* A connection without a handler comes (PlainSocketServer.cpp).            *)
LEMMA AcceptKeeps ==
    ASSUME IInv, crash = "no", NEW c \in Connections, Accept(c)
    PROVE  IInv'
<1>1. TypeOK'
    BY DEF IInv, Accept, TypeOK, lists, mutexes, closes, waits, LoopPCs
<1>2. LockInv'
    BY DEF IInv, Accept, LockInv, mutexes, Emplaced
<1>3. LoopInv'
    BY Distinct DEF IInv, Accept, LoopInv, lists, Emplaced
<1>4. OwnInv'
    BY DEF IInv, Accept, OwnInv, lists, waits, Emplaced
<1>5. CheckInv'
    BY DEF IInv, Accept, CheckInv, lists, waits, Checked
<1>6. CheckedOnce'
    BY DEF IInv, Accept, CheckedOnce, lists, waits
<1> QED
    BY <1>1, <1>2, <1>3, <1>4, <1>5, <1>6 DEF IInv

(* The callback takes serverHandlersMutex and adds the context.             *)
LEMMA EmplaceKeeps ==
    ASSUME IInv, crash = "no", Emplace
    PROVE  IInv'
<1>1. TypeOK'
    BY DEF IInv, Emplace, TypeOK, LoopInv, closes, LoopPCs
<1>2. LockInv'
    BY Distinct DEF IInv, Emplace, LockInv, Emplaced
<1>3. LoopInv'
    BY DEF IInv, Emplace, LoopInv, Emplaced
<1>4. OwnInv'
    BY DEF IInv, Emplace, OwnInv, Emplaced
<1>5. CheckInv'
    BY DEF IInv, Emplace, CheckInv, Checked
<1>6. CheckedOnce'
    BY DEF IInv, Emplace, CheckedOnce, LoopInv, OwnInv
<1> QED
    BY <1>1, <1>2, <1>3, <1>4, <1>5, <1>6 DEF IInv

(* The list is tested without its lock: it is not needed for the answer.    *)
LEMMA TestFinishedKeeps ==
    ASSUME IInv, crash = "no", TestFinished
    PROVE  IInv'
<1>1. TypeOK'
    BY DEF IInv, TestFinished, TypeOK, lists, mutexes, closes, waits, LoopPCs
<1>2. LockInv'
    BY DEF IInv, TestFinished, LockInv, mutexes, Emplaced
<1>3. LoopInv'
    BY DEF IInv, TestFinished, LoopInv, lists, Emplaced
<1>4. OwnInv'
    BY DEF IInv, TestFinished, OwnInv, lists, waits, Emplaced
<1>5. CheckInv'
    BY DEF IInv, TestFinished, CheckInv, lists, waits, Checked
<1>6. CheckedOnce'
    BY DEF IInv, TestFinished, CheckedOnce, lists, waits
<1> QED
    BY <1>1, <1>2, <1>3, <1>4, <1>5, <1>6 DEF IInv

(* Every context that is cleaned up belongs to a handler that has ended.    *)
LEMMA CleanupKeeps ==
    ASSUME IInv, crash = "no", Cleanup
    PROVE  IInv'
<1>1. TypeOK'
    BY Distinct DEF IInv, Cleanup, TypeOK, LockInv, CheckInv, CheckFinished,
       mutexes, closes, waits, LoopPCs, Crashes
<1>2. LockInv'
    BY DEF IInv, Cleanup, LockInv, mutexes, Emplaced
<1>3. LoopInv'
    BY DEF IInv, Cleanup, LoopInv, Emplaced
<1>4. OwnInv'
    BY Distinct DEF IInv, Cleanup, OwnInv, LockInv, CheckInv, CheckFinished,
       waits, Emplaced, Checked
<1>5. CheckInv'
    BY DEF IInv, Cleanup, CheckInv, TypeOK, CheckFinished, waits, Checked
<1>6. CheckedOnce'
    BY Distinct DEF IInv, Cleanup, CheckedOnce, TypeOK, LockInv, CheckInv,
       CheckFinished, waits, Checked
<1> QED
    BY <1>1, <1>2, <1>3, <1>4, <1>5, <1>6 DEF IInv

(* The handler begins when the callback gives the mutex back.               *)
LEMMA ListenKeeps ==
    ASSUME IInv, crash = "no", Listen
    PROVE  IInv'
<1>1. TypeOK'
    BY DEF IInv, Listen, TypeOK, lists, closes, waits, LoopPCs, HandlerPCs
<1>2. LockInv'
    BY Distinct DEF IInv, Listen, LockInv, Emplaced, Moving
<1>3. LoopInv'
    BY Distinct DEF IInv, Listen, LoopInv, TypeOK, lists, Emplaced
<1>4. OwnInv'
    BY DEF IInv, Listen, OwnInv, TypeOK, LoopInv, lists, waits, Emplaced
<1>5. CheckInv'
    BY DEF IInv, Listen, CheckInv, LoopInv, lists, waits, Checked
<1>6. CheckedOnce'
    BY DEF IInv, Listen, CheckedOnce, LoopInv, lists, waits
<1> QED
    BY <1>1, <1>2, <1>3, <1>4, <1>5, <1>6 DEF IInv

(* A handler whose connection was closed is still in serverHandlers.        *)
LEMMA ListenEndsKeeps ==
    ASSUME IInv, crash = "no", NEW c \in Connections, ListenEnds(c)
    PROVE  IInv'
<1>1. TypeOK'
    BY DEF IInv, ListenEnds, TypeOK, lists, mutexes, closes, waits,
       HandlerPCs, Crashes
<1>2. LockInv'
    BY DEF IInv, ListenEnds, LockInv, TypeOK, mutexes, Moving
<1>3. LoopInv'
    BY DEF IInv, ListenEnds, LoopInv, TypeOK, lists, closes
<1>4. OwnInv'
    BY DEF IInv, ListenEnds, OwnInv, TypeOK, lists, waits
<1>5. CheckInv'
    BY DEF IInv, ListenEnds, CheckInv, TypeOK, lists, waits, Checked
<1>6. CheckedOnce'
    BY DEF IInv, ListenEnds, CheckedOnce, TypeOK, lists, waits
<1> QED
    BY <1>1, <1>2, <1>3, <1>4, <1>5, <1>6 DEF IInv

(* A handler that ends takes serverHandlersMutex to move its context.       *)
LEMMA LockHandlersKeeps ==
    ASSUME IInv, crash = "no", NEW c \in Connections, LockHandlers(c)
    PROVE  IInv'
<1>1. TypeOK'
    BY DEF IInv, LockHandlers, TypeOK, lists, closes, waits, HandlerPCs
<1>2. LockInv'
    BY Distinct DEF IInv, LockHandlers, LockInv, TypeOK, Moving
<1>3. LoopInv'
    BY DEF IInv, LockHandlers, LoopInv, lists, closes
<1>4. OwnInv'
    BY DEF IInv, LockHandlers, OwnInv, lists, waits, Moving
<1>5. CheckInv'
    BY DEF IInv, LockHandlers, CheckInv, lists, waits, Checked
<1>6. CheckedOnce'
    BY DEF IInv, LockHandlers, CheckedOnce, lists, waits
<1> QED
    BY <1>1, <1>2, <1>3, <1>4, <1>5, <1>6 DEF IInv

(* Its context is in both lists until it is erased from the first.          *)
LEMMA PushKeeps ==
    ASSUME IInv, crash = "no", NEW c \in Connections, Push(c)
    PROVE  IInv'
<1>1. TypeOK'
    BY DEF IInv, Push, TypeOK, mutexes, closes, waits, HandlerPCs
<1>2. LockInv'
    BY DEF IInv, Push, LockInv, mutexes, Moving
<1>3. LoopInv'
    BY DEF IInv, Push, LoopInv, closes
<1>4. OwnInv'
    BY DEF IInv, Push, OwnInv, TypeOK, waits, Moving
<1>5. CheckInv'
    BY Distinct DEF IInv, Push, CheckInv, TypeOK, LockInv, CheckedOnce,
       waits, Checked
<1>6. CheckedOnce'
    BY DEF IInv, Push, CheckedOnce, TypeOK, waits
<1> QED
    BY <1>1, <1>2, <1>3, <1>4, <1>5, <1>6 DEF IInv

(* Now it is in finishedHandlers only, or was taken by the destructor.      *)
LEMMA EraseKeeps ==
    ASSUME IInv, crash = "no", NEW c \in Connections, Erase(c)
    PROVE  IInv'
<1>1. TypeOK'
    BY DEF IInv, Erase, TypeOK, closes, waits, HandlerPCs, Crashes
<1>2. LockInv'
    BY Distinct DEF IInv, Erase, LockInv, TypeOK, Moving
<1>3. LoopInv'
    BY DEF IInv, Erase, LoopInv, TypeOK, closes, Emplaced
<1>4. OwnInv'
    BY DEF IInv, Erase, OwnInv, TypeOK, LoopInv, waits, Moving, Emplaced
<1>5. CheckInv'
    BY DEF IInv, Erase, CheckInv, TypeOK, waits, Checked
<1>6. CheckedOnce'
    BY DEF IInv, Erase, CheckedOnce, TypeOK, OwnInv, waits
<1> QED
    BY <1>1, <1>2, <1>3, <1>4, <1>5, <1>6 DEF IInv

(* The coroutine ends with its context in finishedHandlers, or taken.       *)
LEMMA EndKeeps ==
    ASSUME IInv, crash = "no", NEW c \in Connections, End(c)
    PROVE  IInv'
<1>1. TypeOK'
    BY DEF IInv, End, TypeOK, lists, mutexes, closes, waits, HandlerPCs
<1>2. LockInv'
    BY DEF IInv, End, LockInv, mutexes, Moving
<1>3. LoopInv'
    BY DEF IInv, End, LoopInv, lists, closes
<1>4. OwnInv'
    BY DEF IInv, End, OwnInv, lists, waits, Moving
<1>5. CheckInv'
    BY DEF IInv, End, CheckInv, lists, waits, Checked
<1>6. CheckedOnce'
    BY DEF IInv, End, CheckedOnce, lists, waits
<1> QED
    BY <1>1, <1>2, <1>3, <1>4, <1>5, <1>6 DEF IInv

(* The destructor begins while everything goes on.                          *)
LEMMA DestroyKeeps ==
    ASSUME IInv, crash = "no", Destroy
    PROVE  IInv'
<1>1. TypeOK'
    BY DEF IInv, Destroy, TypeOK, lists, mutexes, closes, waits, MainPCs
<1>2. LockInv'
    BY DEF IInv, Destroy, LockInv, mutexes, Clearing
<1>3. LoopInv'
    BY DEF IInv, Destroy, LoopInv, lists
<1>4. OwnInv'
    BY DEF IInv, Destroy, OwnInv, lists, waits
<1>5. CheckInv'
    BY DEF IInv, Destroy, CheckInv, lists, waits, Clearing, Checked
<1>6. CheckedOnce'
    BY DEF IInv, Destroy, CheckedOnce, lists, waits
<1> QED
    BY <1>1, <1>2, <1>3, <1>4, <1>5, <1>6 DEF IInv

(* It takes serverHandlersMutex to close the transports.                    *)
LEMMA LockToCloseKeeps ==
    ASSUME IInv, crash = "no", LockToClose
    PROVE  IInv'
<1>1. TypeOK'
    BY DEF IInv, LockToClose, TypeOK, lists, waits, MainPCs
<1>2. LockInv'
    BY Distinct DEF IInv, LockToClose, LockInv, Clearing
<1>3. LoopInv'
    BY DEF IInv, LockToClose, LoopInv, lists
<1>4. OwnInv'
    BY DEF IInv, LockToClose, OwnInv, lists, waits
<1>5. CheckInv'
    BY DEF IInv, LockToClose, CheckInv, lists, waits, Clearing, Checked
<1>6. CheckedOnce'
    BY DEF IInv, LockToClose, CheckedOnce, lists, waits
<1> QED
    BY <1>1, <1>2, <1>3, <1>4, <1>5, <1>6 DEF IInv

(* Closing a transport moves no context.                                    *)
LEMMA CloseTransportKeeps ==
    ASSUME IInv, crash = "no", NEW c \in Connections, CloseTransport(c)
    PROVE  IInv'
<1>1. TypeOK'
    BY DEF IInv, CloseTransport, TypeOK, lists, mutexes, waits
<1>2. LockInv'
    BY DEF IInv, CloseTransport, LockInv, mutexes
<1>3. LoopInv'
    BY DEF IInv, CloseTransport, LoopInv, lists
<1>4. OwnInv'
    BY DEF IInv, CloseTransport, OwnInv, lists, waits
<1>5. CheckInv'
    BY DEF IInv, CloseTransport, CheckInv, lists, waits, Checked
<1>6. CheckedOnce'
    BY DEF IInv, CloseTransport, CheckedOnce, lists, waits
<1> QED
    BY <1>1, <1>2, <1>3, <1>4, <1>5, <1>6 DEF IInv

(* With the last one closed it gives the mutex back.                        *)
LEMMA AllClosedKeeps ==
    ASSUME IInv, crash = "no", AllClosed
    PROVE  IInv'
<1>1. TypeOK'
    BY DEF IInv, AllClosed, TypeOK, lists, closes, waits, MainPCs
<1>2. LockInv'
    BY Distinct DEF IInv, AllClosed, LockInv, Clearing
<1>3. LoopInv'
    BY DEF IInv, AllClosed, LoopInv, lists
<1>4. OwnInv'
    BY DEF IInv, AllClosed, OwnInv, lists, waits
<1>5. CheckInv'
    BY DEF IInv, AllClosed, CheckInv, lists, waits, Clearing, Checked
<1>6. CheckedOnce'
    BY DEF IInv, AllClosed, CheckedOnce, lists, waits
<1> QED
    BY <1>1, <1>2, <1>3, <1>4, <1>5, <1>6 DEF IInv

(* The first test of a cleanup is made without the lock.                    *)
LEMMA MainTestsFinishedKeeps ==
    ASSUME IInv, crash = "no", NEW k \in Cleanups, MainTestsFinished(k)
    PROVE  IInv'
<1>1. TypeOK'
    BY Phases DEF IInv, MainTestsFinished, TypeOK, lists, mutexes, closes,
       waits, MainPCs
<1>2. LockInv'
    BY Phases DEF IInv, MainTestsFinished, LockInv, mutexes, Clearing
<1>3. LoopInv'
    BY Phases DEF IInv, MainTestsFinished, LoopInv, lists
<1>4. OwnInv'
    BY DEF IInv, MainTestsFinished, OwnInv, lists, waits
<1>5. CheckInv'
    BY Phases DEF IInv, MainTestsFinished, CheckInv, lists, waits, Clearing,
       Checked
<1>6. CheckedOnce'
    BY Phases DEF IInv, MainTestsFinished, CheckedOnce, lists, waits
<1> QED
    BY <1>1, <1>2, <1>3, <1>4, <1>5, <1>6 DEF IInv

(* Nobody but the destructor cleans up between the check and the clear.     *)
LEMMA MainChecksKeeps ==
    ASSUME IInv, crash = "no", NEW k \in Cleanups, MainChecks(k)
    PROVE  IInv'
<1>1. TypeOK'
    BY Phases DEF IInv, MainChecks, TypeOK, CheckInv, CheckFinished, lists,
       closes, waits, MainPCs, Crashes, Clearing
<1>2. LockInv'
    BY Phases DEF IInv, MainChecks, LockInv, Clearing
<1>3. LoopInv'
    BY Phases DEF IInv, MainChecks, LoopInv, lists
<1>4. OwnInv'
    BY DEF IInv, MainChecks, OwnInv, CheckFinished, lists, waits, Checked
<1>5. CheckInv'
    BY Phases DEF IInv, MainChecks, CheckInv, TypeOK, CheckFinished, lists,
       waits, Clearing, Checked
<1>6. CheckedOnce'
    BY Phases DEF IInv, MainChecks, CheckedOnce, TypeOK, CheckInv,
       CheckFinished, lists, waits, Clearing
<1> QED
    BY <1>1, <1>2, <1>3, <1>4, <1>5, <1>6 DEF IInv

(* What is cleared was checked, or was taken and is checked by the waiter.  *)
LEMMA MainClearsKeeps ==
    ASSUME IInv, crash = "no", NEW k \in Cleanups, MainClears(k)
    PROVE  IInv'
<1>1. TypeOK'
    BY Phases DEF IInv, MainClears, TypeOK, closes, waits, MainPCs
<1>2. LockInv'
    BY Distinct, Phases DEF IInv, MainClears, LockInv, Clearing
<1>3. LoopInv'
    BY Phases DEF IInv, MainClears, LoopInv
<1>4. OwnInv'
    BY Phases DEF IInv, MainClears, OwnInv, CheckInv, waits, Clearing,
       Checked
<1>5. CheckInv'
    BY Phases DEF IInv, MainClears, CheckInv, waits, Checked
<1>6. CheckedOnce'
    BY Phases DEF IInv, MainClears, CheckedOnce, CheckInv, waits, Clearing,
       Checked
<1> QED
    BY <1>1, <1>2, <1>3, <1>4, <1>5, <1>6 DEF IInv

(* The first context in serverHandlers was not taken: the destructor waited *)
(* for every one it took until it had left that list.                       *)
LEMMA TakeFirstKeeps ==
    ASSUME IInv, crash = "no", TakeFirst
    PROVE  IInv'
<1>1. TypeOK'
    BY DEF IInv, TakeFirst, TypeOK, waits, lists, mutexes, closes, MainPCs,
       Crashes
<1>2. LockInv'
    BY DEF IInv, TakeFirst, LockInv, mutexes, Clearing
<1>3. LoopInv'
    BY DEF IInv, TakeFirst, LoopInv, lists
<1>4. OwnInv'
    BY DEF IInv, TakeFirst, OwnInv, lists
<1>5. CheckInv'
    BY Distinct DEF IInv, TakeFirst, CheckInv, TypeOK, LockInv, OwnInv,
       CheckedOnce, lists, Clearing, Checked
<1>6. CheckedOnce'
    BY Distinct DEF IInv, TakeFirst, CheckedOnce, TypeOK, CheckInv, lists
<1> QED
    BY <1>1, <1>2, <1>3, <1>4, <1>5, <1>6 DEF IInv

(* A coroutine that was taken is checked when it has ended.                 *)
LEMMA WaitedKeeps ==
    ASSUME IInv, crash = "no", Waited
    PROVE  IInv'
<1>1. TypeOK'
    BY DEF IInv, Waited, TypeOK, CheckInv, lists, mutexes, closes, MainPCs
<1>2. LockInv'
    BY DEF IInv, Waited, LockInv, mutexes, Clearing
<1>3. LoopInv'
    BY DEF IInv, Waited, LoopInv, lists
<1>4. OwnInv'
    BY DEF IInv, Waited, OwnInv, CheckInv, lists
<1>5. CheckInv'
    BY DEF IInv, Waited, CheckInv, TypeOK, lists, Clearing, Checked
<1>6. CheckedOnce'
    BY DEF IInv, Waited, CheckedOnce, CheckInv, lists
<1> QED
    BY <1>1, <1>2, <1>3, <1>4, <1>5, <1>6 DEF IInv

(* No context is left in serverHandlers.                                    *)
LEMMA NoneLeftKeeps ==
    ASSUME IInv, crash = "no", NoneLeft
    PROVE  IInv'
<1>1. TypeOK'
    BY DEF IInv, NoneLeft, TypeOK, lists, mutexes, closes, waits, MainPCs
<1>2. LockInv'
    BY DEF IInv, NoneLeft, LockInv, mutexes, Clearing
<1>3. LoopInv'
    BY DEF IInv, NoneLeft, LoopInv, lists
<1>4. OwnInv'
    BY DEF IInv, NoneLeft, OwnInv, lists, waits
<1>5. CheckInv'
    BY DEF IInv, NoneLeft, CheckInv, lists, waits, Clearing, Checked
<1>6. CheckedOnce'
    BY DEF IInv, NoneLeft, CheckedOnce, lists, waits
<1> QED
    BY <1>1, <1>2, <1>3, <1>4, <1>5, <1>6 DEF IInv

(* The server is closed when no callback runs, and none comes later.        *)
LEMMA CloseServerKeeps ==
    ASSUME IInv, crash = "no", CloseServer
    PROVE  IInv'
<1>1. TypeOK'
    BY DEF IInv, CloseServer, TypeOK, lists, mutexes, waits, MainPCs
<1>2. LockInv'
    BY DEF IInv, CloseServer, LockInv, mutexes, Clearing
<1>3. LoopInv'
    BY DEF IInv, CloseServer, LoopInv, lists
<1>4. OwnInv'
    BY DEF IInv, CloseServer, OwnInv, lists, waits
<1>5. CheckInv'
    BY DEF IInv, CloseServer, CheckInv, lists, waits, Clearing, Checked
<1>6. CheckedOnce'
    BY DEF IInv, CloseServer, CheckedOnce, lists, waits
<1> QED
    BY <1>1, <1>2, <1>3, <1>4, <1>5, <1>6 DEF IInv

(* The destructor returns when every handler has ended and was checked.     *)
LEMMA DestroyMembersKeeps ==
    ASSUME IInv, crash = "no", DestroyMembers
    PROVE  IInv'
<1>1. TypeOK'
    BY DEF IInv, DestroyMembers, TypeOK, lists, mutexes, closes, waits,
       MainPCs, Crashes
<1>2. LockInv'
    BY DEF IInv, DestroyMembers, LockInv, mutexes, Clearing
<1>3. LoopInv'
    BY DEF IInv, DestroyMembers, LoopInv, lists, closes
<1>4. OwnInv'
    BY DEF IInv, DestroyMembers, OwnInv, lists, waits
<1>5. CheckInv'
    BY DEF IInv, DestroyMembers, CheckInv, Checked, lists, waits
<1>6. CheckedOnce'
    BY DEF IInv, DestroyMembers, CheckedOnce, TypeOK, LockInv, OwnInv,
       CheckInv, Checked, lists, waits, HandlerPCs, Moving
<1> QED
    BY <1>1, <1>2, <1>3, <1>4, <1>5, <1>6 DEF IInv

-----------------------------------------------------------------------------
(* A node starts without connections.                                       *)
LEMMA InitIInv == Init => IInv
<1> SUFFICES ASSUME Init PROVE IInv
    OBVIOUS
<1>1. TypeOK
    BY DEF Init, TypeOK, LoopPCs, HandlerPCs, MainPCs, Crashes
<1>2. LockInv /\ LoopInv
    BY Distinct DEF Init, LockInv, LoopInv, Emplaced, Moving, Clearing
<1>3. OwnInv /\ CheckInv
    BY DEF Init, OwnInv, CheckInv, Checked, Emplaced, Moving, Clearing
<1>4. CheckedOnce
    BY DEF Init, CheckedOnce
<1> QED
    BY <1>1, <1>2, <1>3, <1>4 DEF IInv

(* No step of the callback, of a handler or of the destructor breaks it.    *)
LEMMA NextKeeps == IInv /\ [Next]_vars => IInv'
<1> SUFFICES ASSUME IInv, [Next]_vars PROVE IInv'
    OBVIOUS
<1>1. ASSUME NEW c \in Connections, crash = "no",
             Accept(c) \/ ListenEnds(c) \/ Handler(c)
      PROVE  IInv'
    BY <1>1, AcceptKeeps, ListenEndsKeeps, LockHandlersKeeps, PushKeeps,
       EraseKeeps, EndKeeps
    DEF Handler
<1>2. CASE crash = "no" /\ Callback
    BY <1>2, EmplaceKeeps, TestFinishedKeeps, CleanupKeeps, ListenKeeps
    DEF Callback
<1>3. CASE crash = "no" /\ Destroy
    BY <1>3, DestroyKeeps
<1>4. CASE crash = "no" /\ Destructor
    BY <1>4, LockToCloseKeeps, AllClosedKeeps, CloseTransportKeeps,
       MainTestsFinishedKeeps, MainChecksKeeps, MainClearsKeeps,
       TakeFirstKeeps, WaitedKeeps, NoneLeftKeeps, CloseServerKeeps,
       DestroyMembersKeeps
    DEF Destructor
<1>5. CASE UNCHANGED vars
  <2>1. UNCHANGED <<loop, handler, main, serverHandlers, finishedHandlers,
                    serverHandlersMutex, finishedHandlersMutex, closing,
                    closed, listening, taken, waitsFor, late, checks, crash>>
      BY <1>5 DEF vars, lists, mutexes, closes, waits
  <2> QED
      BY <2>1 DEF IInv, TypeOK, LockInv, LoopInv, OwnInv, CheckInv,
         CheckedOnce, Checked
<1> QED
    BY <1>1, <1>2, <1>3, <1>4, <1>5 DEF Next

(* The lists, the mutexes and the places of the threads fit together in     *)
(* every state.                                                             *)
THEOREM Invariance == Spec => []IInv
<1>1. Init => IInv
    BY InitIInv
<1>2. IInv /\ [Next]_vars => IInv'
    BY NextKeeps
<1> QED
    BY <1>1, <1>2, PTL DEF Spec

-----------------------------------------------------------------------------
(* Every variable has its type; in particular no coroutine is checked twice *)
(* (lines 43-48 and 63).                                                    *)
THEOREM TypeCorrect == Spec => []TypeOK
<1>1. IInv => TypeOK
    BY DEF IInv
<1> QED
    BY <1>1, Invariance, PTL

(* However many connections come and end while the node is destroyed: a     *)
(* coroutine is checked once, after its end, the destructor waits for none  *)
(* that is gone, and when it returns all have ended and were checked        *)
(* (lines 27-48, 54-81).                                                    *)
THEOREM EachCheckedOnce == Spec => []CheckedOnce
<1>1. IInv => CheckedOnce
    BY DEF IInv
<1> QED
    BY <1>1, Invariance, PTL
=============================================================================
