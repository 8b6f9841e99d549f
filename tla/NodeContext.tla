----------------------------- MODULE NodeContext -----------------------------
(***************************************************************************)
(* A node and the handlers of its connections, src/src/core/NodeContext.cpp*)
(* and src/src/transport/PlainSocketServer.cpp.                            *)
(*                                                                         *)
(* The event loop's thread accepts a connection and starts its handler,    *)
(* which ends on a worker and moves itself from serverHandlers to          *)
(* finishedHandlers.  The main thread destroys the node.  A thread that    *)
(* closes or destroys a transport waits until the loop is not in a run     *)
(* (EventLoop has the lock); the wait for one coroutine is a single step   *)
(* (Coroutines has it).                                                    *)
(***************************************************************************)
EXTENDS Naturals, FiniteSets

CONSTANTS
    Connections,    \* those that may be accepted
    LoopThread,
    Main,
    None            \* nobody

ASSUME ThreadsAssumption ==
    /\ Cardinality({LoopThread, Main, None}) = 3
    /\ Connections \cap {LoopThread, Main, None} = {}

VARIABLES
    loop,               \* the callback of the server: where it is, for whom
    handler,            \* connection -> where handleServerConnection is
    main,               \* where ~NodeContext is
    serverHandlers,
    finishedHandlers,
    serverHandlersMutex,
    finishedHandlersMutex,
    taken,              \* contexts whose coroutine was moved to the waiter
    closing,            \* transports the destructor has still to close
    closed,             \* transports it has closed
    waitsFor,           \* the handler the destructor waits for
    listening,          \* the server is open
    late,               \* ghost: connections added after the close loop
    checks,             \* ghost: connection -> checks of its coroutine
    crash               \* what ended the process

lists == <<serverHandlers, finishedHandlers>>
mutexes == <<serverHandlersMutex, finishedHandlersMutex>>
closes == <<closing, closed, listening>>
waits == <<taken, waitsFor, late>>

vars == <<loop, handler, main, lists, mutexes, closes, waits, checks, crash>>

LoopPCs == {"idle", "accepted", "testing", "locking", "starting"}

HandlerPCs == {"none", "listening", "ending", "locked", "pushed", "leaving",
               "ended"}

MainPCs == {"serving", "locking", "closing", "testing", "cleaning",
            "clearing", "relocking", "waiting", "retesting", "recleaning",
            "reclearing", "servers", "members", "returned"}

(* The ends of the process: assertions of Promise.h and Coroutine.h, and a *)
(* handler that ends with an exception.                                    *)
Crashes == {"no", "checked_early", "destroyed_running", "null_coroutine",
            "unhandled"}

Init ==
    /\ loop = [pc |-> "idle", of |-> None]
    /\ handler = [c \in Connections |-> "none"]
    /\ main = "serving"
    /\ serverHandlers = {} /\ finishedHandlers = {}
    /\ serverHandlersMutex = None /\ finishedHandlersMutex = None
    /\ taken = {} /\ waitsFor = None
    /\ closing = {} /\ closed = {} /\ listening = TRUE
    /\ late = {}
    /\ checks = [c \in Connections |-> 0]
    /\ crash = "no"

-----------------------------------------------------------------------------
(* cleanupFinishedHandlers *)

\* Mutant: contexts whose coroutine was moved away are checked as well.
CheckedAll == finishedHandlers

(* Contexts whose coroutine was not moved away. *)
Checked == finishedHandlers \ taken

(* check() asserts that the coroutine may be checked. *)
CheckFinished ==
    IF \A c \in Checked : handler[c] = "ended"
    THEN /\ checks' = [c \in Connections |->
                          checks[c] + IF c \in Checked THEN 1 ELSE 0]
         /\ UNCHANGED crash
    ELSE crash' = "checked_early" /\ UNCHANGED checks

-----------------------------------------------------------------------------
(* The callback of the server, inside a run of the loop *)

Accept(c) ==
    /\ listening /\ loop.pc = "idle"
    /\ handler[c] = "none" /\ c \notin serverHandlers
    /\ loop' = [pc |-> "accepted", of |-> c]
    /\ UNCHANGED <<handler, main, lists, mutexes, closes, waits, checks, crash>>

(* The context is added, under the lock; the handler begins. *)
Emplace ==
    /\ loop.pc = "accepted" /\ serverHandlersMutex = None
    /\ serverHandlersMutex' = LoopThread
    /\ serverHandlers' = serverHandlers \cup {loop.of}
    /\ loop' = [loop EXCEPT !.pc = "testing"]
    /\ late' = IF main \in {"serving", "locking"} THEN late
               ELSE late \cup {loop.of}
    /\ UNCHANGED <<handler, main, finishedHandlers, finishedHandlersMutex,
                   closes, taken, waitsFor, checks, crash>>

(* The list is tested without its lock. *)
TestFinished ==
    /\ loop.pc = "testing"
    /\ loop' = [loop EXCEPT !.pc = IF finishedHandlers = {} THEN "starting"
                                   ELSE "locking"]
    /\ UNCHANGED <<handler, main, lists, mutexes, closes, waits, checks, crash>>

(* On the loop's thread nothing delays the destruction of transports. *)
Cleanup ==
    /\ loop.pc = "locking" /\ finishedHandlersMutex = None
    /\ CheckFinished
    /\ finishedHandlers' = IF crash' = "no" THEN {} ELSE finishedHandlers
    /\ loop' = [loop EXCEPT !.pc = "starting"]
    /\ UNCHANGED <<handler, main, serverHandlers, mutexes, closes, waits>>

(* listen suspends, the context gets the coroutine. *)
Listen ==
    /\ loop.pc = "starting"
    /\ handler' = [handler EXCEPT ![loop.of] = "listening"]
    /\ serverHandlersMutex' = None
    /\ loop' = [pc |-> "idle", of |-> None]
    /\ UNCHANGED <<main, lists, finishedHandlersMutex, closes, waits, checks,
                   crash>>

-----------------------------------------------------------------------------
(* handleServerConnection, on a worker *)

(* listen returns when the connection is closed by its peer, or by the     *)
(* destructor: it catches the exception of its read, also of one that      *)
(* finds the transport closing (PlainSocket has that read).                *)
ListenEnds(c) ==
    /\ handler[c] = "listening"
    /\ handler' = [handler EXCEPT ![c] = "ending"]
    /\ UNCHANGED <<loop, main, lists, mutexes, closes, waits, checks, crash>>

LockHandlers(c) ==
    /\ handler[c] = "ending" /\ serverHandlersMutex = None
    /\ serverHandlersMutex' = c
    /\ handler' = [handler EXCEPT ![c] = "locked"]
    /\ UNCHANGED <<loop, main, lists, finishedHandlersMutex, closes, waits,
                   checks, crash>>

(* The context, with the coroutine that runs, goes to the other list. *)
Push(c) ==
    /\ handler[c] = "locked" /\ finishedHandlersMutex = None
    /\ finishedHandlers' = finishedHandlers \cup {c}
    /\ handler' = [handler EXCEPT ![c] = "pushed"]
    /\ UNCHANGED <<loop, main, serverHandlers, mutexes, closes, waits, checks,
                   crash>>

\* Mutant: the context is not erased from the list it was moved from.
EraseNot(c) ==
    /\ handler[c] = "pushed"
    /\ serverHandlersMutex' = None
    /\ handler' = [handler EXCEPT ![c] = "leaving"]
    /\ UNCHANGED <<loop, main, lists, finishedHandlersMutex, closes, waits,
                   checks, crash>>

(* An exception of listen is thrown again, and nobody takes it. *)
Erase(c) ==
    /\ handler[c] = "pushed"
    /\ serverHandlers' = serverHandlers \ {c}
    /\ serverHandlersMutex' = None
    /\ \/ handler' = [handler EXCEPT ![c] = "leaving"] /\ UNCHANGED crash
       \/ crash' = "unhandled" /\ UNCHANGED handler
    /\ UNCHANGED <<loop, main, finishedHandlers, finishedHandlersMutex, closes,
                   waits, checks>>

(* The coroutine reaches its final suspension. *)
End(c) ==
    /\ handler[c] = "leaving"
    /\ handler' = [handler EXCEPT ![c] = "ended"]
    /\ UNCHANGED <<loop, main, lists, mutexes, closes, waits, checks, crash>>

-----------------------------------------------------------------------------
(* ~NodeContext, on the main thread *)

Destroy ==
    /\ main = "serving"
    /\ main' = "locking"
    /\ UNCHANGED <<loop, handler, lists, mutexes, closes, waits, checks, crash>>

LockToClose ==
    /\ main = "locking" /\ serverHandlersMutex = None
    /\ serverHandlersMutex' = Main
    /\ closing' = serverHandlers
    /\ main' = "closing"
    /\ UNCHANGED <<loop, handler, lists, finishedHandlersMutex, closed,
                   listening, waits, checks, crash>>

\* Mutant: the transport is not closed.
CloseNot(c) ==
    /\ main = "closing" /\ c \in closing /\ loop.pc = "idle"
    /\ closing' = closing \ {c}
    /\ UNCHANGED <<loop, handler, main, lists, mutexes, closed, listening,
                   waits, checks, crash>>

(* Under serverHandlersMutex; close waits for the loop. *)
CloseTransport(c) ==
    /\ main = "closing" /\ c \in closing /\ loop.pc = "idle"
    /\ closing' = closing \ {c}
    /\ closed' = closed \cup {c}
    /\ UNCHANGED <<loop, handler, main, lists, mutexes, listening, waits,
                   checks, crash>>

AllClosed ==
    /\ main = "closing" /\ closing = {}
    /\ serverHandlersMutex' = None
    /\ main' = "testing"
    /\ UNCHANGED <<loop, handler, lists, finishedHandlersMutex, closes, waits,
                   checks, crash>>

(* cleanupFinishedHandlers is called before and after the waits. *)
Cleanups == {[test |-> "testing", clean |-> "cleaning", clear |-> "clearing",
              next |-> "relocking"],
             [test |-> "retesting", clean |-> "recleaning",
              clear |-> "reclearing", next |-> "servers"]}

MainTestsFinished(k) ==
    /\ main = k.test
    /\ main' = IF finishedHandlers = {} THEN k.next ELSE k.clean
    /\ UNCHANGED <<loop, handler, lists, mutexes, closes, waits, checks, crash>>

MainChecks(k) ==
    /\ main = k.clean /\ finishedHandlersMutex = None
    /\ finishedHandlersMutex' = Main
    /\ CheckFinished
    /\ main' = k.clear
    /\ UNCHANGED <<loop, handler, lists, serverHandlersMutex, closes, waits>>

(* Under finishedHandlersMutex; each transport waits for the loop. *)
MainClears(k) ==
    /\ main = k.clear /\ loop.pc = "idle"
    /\ finishedHandlers' = {}
    /\ finishedHandlersMutex' = None
    /\ main' = k.next
    /\ UNCHANGED <<loop, handler, serverHandlers, serverHandlersMutex, closes,
                   waits, checks, crash>>

(* The coroutine of the first context goes to the waiter, which awaits it. *)
TakeFirst ==
    /\ main = "relocking" /\ serverHandlersMutex = None
    /\ \E c \in serverHandlers :
           IF c \in taken
           THEN crash' = "null_coroutine" /\ UNCHANGED <<main, waits>>
           ELSE /\ taken' = taken \cup {c}
                /\ waitsFor' = c
                /\ main' = "waiting"
                /\ UNCHANGED <<late, crash>>
    /\ UNCHANGED <<loop, handler, lists, mutexes, closes, checks>>

Waited ==
    /\ main = "waiting" /\ handler[waitsFor] = "ended"
    /\ checks' = [checks EXCEPT ![waitsFor] = @ + 1]
    /\ waitsFor' = None
    /\ main' = "relocking"
    /\ UNCHANGED <<loop, handler, lists, mutexes, closes, taken, late, crash>>

NoneLeft ==
    /\ main = "relocking" /\ serverHandlersMutex = None
    /\ serverHandlers = {}
    /\ main' = "retesting"
    /\ UNCHANGED <<loop, handler, lists, mutexes, closes, waits, checks, crash>>

(* The members: the server is closed, then the lists are destroyed.  A     *)
(* coroutine in them must be done, and checked.                            *)
CloseServer ==
    /\ main = "servers" /\ loop.pc = "idle"
    /\ listening' = FALSE
    /\ main' = "members"
    /\ UNCHANGED <<loop, handler, lists, mutexes, closing, closed, waits,
                   checks, crash>>

DestroyMembers ==
    /\ main = "members"
    /\ IF serverHandlers \cup Checked = {}
       THEN main' = "returned" /\ UNCHANGED crash
       ELSE crash' = "destroyed_running" /\ UNCHANGED main
    /\ UNCHANGED <<loop, handler, lists, mutexes, closes, waits, checks>>

-----------------------------------------------------------------------------
Callback == Emplace \/ TestFinished \/ Cleanup \/ Listen

Handler(c) == LockHandlers(c) \/ Push(c) \/ Erase(c) \/ End(c)

Destructor ==
    \/ LockToClose \/ AllClosed
    \/ \E c \in Connections : CloseTransport(c)
    \/ \E k \in Cleanups : MainTestsFinished(k) \/ MainChecks(k) \/ MainClears(k)
    \/ TakeFirst \/ Waited \/ NoneLeft
    \/ CloseServer \/ DestroyMembers

(* A connection arrives while the destructor holds a lock the callback     *)
(* needs, or one that the owner of such a lock needs, and waits for the    *)
(* callback to end.                                                        *)
Deadlocked ==
    \/ main = "closing" /\ closing # {} /\ loop.pc = "accepted"
    \/ /\ main \in {"clearing", "reclearing"}
       /\ \/ loop.pc = "locking"
          \/ /\ loop.pc = "accepted"
             /\ \E c \in Connections : handler[c] = "locked"

Ended == crash # "no" \/ main = "returned" \/ Deadlocked

Next ==
    \/ /\ crash = "no"
       /\ \/ \E c \in Connections : Accept(c) \/ ListenEnds(c) \/ Handler(c)
          \/ Callback
          \/ Destroy \/ Destructor
    \/ Ended /\ UNCHANGED vars

Spec == Init /\ [][Next]_vars

(* Threads run, and obtain a mutex or the event loop's lock that is free   *)
(* again and again; a reader learns that its transport was closed.         *)
Fairness ==
    /\ SF_vars(crash = "no" /\ Callback)
    /\ SF_vars(crash = "no" /\ Destructor)
    /\ \A c \in Connections :
           /\ SF_vars(crash = "no" /\ Handler(c))
           /\ WF_vars(crash = "no" /\ c \in closed /\ ListenEnds(c))

FairSpec == Spec /\ Fairness

-----------------------------------------------------------------------------
(* Types of the members of NodeContext.h and of the ghosts. *)
TypeOK ==
    /\ loop \in [pc : LoopPCs, of : Connections \cup {None}]
    /\ handler \in [Connections -> HandlerPCs]
    /\ main \in MainPCs
    /\ UNION {serverHandlers, finishedHandlers, taken, closing, closed, late}
         \subseteq Connections
    /\ serverHandlersMutex \in Connections \cup {LoopThread, Main, None}
    /\ finishedHandlersMutex \in {Main, None}
    /\ waitsFor \in Connections \cup {None}
    /\ listening \in BOOLEAN
    /\ checks \in [Connections -> 0 .. 1]
    /\ crash \in Crashes

(* Wherever its handler is, a coroutine has one owner: its context in one  *)
(* of the lists, or the destructor's waiter.  It is checked once, after    *)
(* its end; the destructor never waits for one that is gone (line 63); and *)
(* when the destructor returns, every handler that was started has ended   *)
(* and was checked (lines 43-48, 54-81).                                   *)
CheckedOnce ==
    /\ crash # "null_coroutine"
    /\ \A c \in Connections :
           /\ c \in serverHandlers => handler[c] \notin {"leaving", "ended"}
           /\ c \in serverHandlers \cap finishedHandlers =>
                  handler[c] = "pushed"
           /\ checks[c] > 0 => checks[c] = 1 /\ handler[c] = "ended"
           /\ handler[c] = "leaving" => c \in finishedHandlers \cup taken
    /\ main = "returned" =>
           \A c \in Connections : handler[c] # "none" => checks[c] = 1

(* A connection that arrived after the destructor closed the others is not *)
(* closed by it: the destructor waits until the peer closes.               *)
Overlooked ==
    main = "waiting" /\ waitsFor \in late /\ handler[waitsFor] = "listening"

(* The destructor returns, however its steps interleave with connections   *)
(* that arrive and end, unless the process ends, a connection arrives in   *)
(* the few steps in which the destructor waits for the loop with a lock    *)
(* the callback needs, or one that arrived too late to be closed stays     *)
(* open for ever (lines 54-70).                                            *)
DestructorReturns ==
    main = "locking" ~>
        \/ main = "returned" \/ crash # "no" \/ Deadlocked
        \/ []Overlooked
=============================================================================
