---------------------------- MODULE ServerHandler ----------------------------
(***************************************************************************)
(* The server side of one connection, src/src/proto/ServerHandler.cpp.     *)
(* The listener coroutine reads request headers one after the other and    *)
(* starts a handler coroutine for each; handlers run on the thread pool,   *)
(* take the write lock to send their response, and park in                 *)
(* finishedHandlers until the listener reaps them on its next header.      *)
(*                                                                         *)
(* The peer is the client of ClientTransport: it gives a request the       *)
(* lowest tag no unanswered request has, so a tag may be used again as     *)
(* soon as its response is written.                                        *)
(***************************************************************************)
EXTENDS Naturals, Sequences

CONSTANTS
    Requests,   \* the requests the client sends on this connection
    MaxTags,    \* number of tags
    Nodes,      \* addresses at which the map allocates its entries
    Methods,    \* the commands the client uses
    Large,      \* the requests with a body, whose bytes may come later
    None        \* no request, no node

Tags == 0 .. MaxTags - 1

ASSUME MaxTagsAssumption == MaxTags \in Nat \ {0}
ASSUME MethodsAssumption == Methods \subseteq {"End", "Ping", "GetNode"}
ASSUME LargeAssumption == Large \subseteq Requests
ASSUME NoneAssumption == None \notin Requests /\ None \notin Nodes

VARIABLES
    client,     \* request -> what the client knows of it
    tag,        \* request -> the tag in its header
    method,     \* request -> the method in its header
    stream,     \* headers the listener has not read
    listener,   \* where listen() is
    current,    \* the request whose header was read last
    keeping,    \* handlersKeepingLock: its holder
    pending,    \* pendingResponses: tag -> address of the entry
    entry,      \* request -> address of serverRespState
    coro,       \* address -> handlerCoro, kept when the entry is freed
    finished,   \* finishedHandlers, references to entries
    handler,    \* request -> where its handler coroutine is
    writeLock,  \* ServerHandler::writeLock
    waiters,    \* writeLockWaiters
    closed,     \* the connection is closed
    crash       \* what terminated the process

vars == <<client, tag, method, stream, listener, current, keeping, pending,
          entry, coro, finished, handler, writeLock, waiters, closed, crash>>

ListenerPCs == {"header", "reap", "check", "rejected", "body", "spawn",
                "drain", "returned"}

(* A handler that had to wait for the lock, and was "handed" it, is itself  *)
(* suspended while its method goes on and is "sending"; one that was        *)
(* "granted" it at once runs until it has parked.  How a caller joins the   *)
(* coroutine it calls is one step here (Coroutines has it).                 *)
HandlerPCs == {"none", "ready", "acquire", "waiting", "granted", "writing",
               "handed", "sending", "release", "parking", "parkLocked",
               "parked", "gone"}

(* The ends of the process: the assertions of PlainSocketTransport.cpp:139, *)
(* Promise.h:102 and Promise.h:80, and steps whose effect is undefined: a   *)
(* null or freed handle resumed, a running coroutine resumed, a vector      *)
(* changed by two threads.                                                  *)
Crashes == {"no", "simultaneous_write", "unchecked_destroy",
            "premature_check", "double_resume", "null_resume", "stale_ref",
            "list_race"}

Init ==
    /\ client = [r \in Requests |-> "new"]
    /\ tag = [r \in Requests |-> 0]
    /\ method = [r \in Requests |-> "Ping"]
    /\ stream = <<>>
    /\ listener = "header"
    /\ current = None
    /\ keeping = None
    /\ pending = [t \in Tags |-> None]
    /\ entry = [r \in Requests |-> None]
    /\ coro = [n \in Nodes |-> None]
    /\ finished = <<>>
    /\ handler = [r \in Requests |-> "none"]
    /\ writeLock = FALSE
    /\ waiters = <<>>
    /\ closed = FALSE
    /\ crash = "no"

-----------------------------------------------------------------------------
(* The client *)

UsedTags == {tag[r] : r \in {q \in Requests : client[q] = "sent"}}

SendRequest(r) ==
    /\ client[r] = "new" /\ ~closed
    /\ \E t \in Tags \ UsedTags, m \in Methods :
          /\ \A u \in Tags \ UsedTags : t <= u
          /\ tag' = [tag EXCEPT ![r] = t]
          /\ method' = [method EXCEPT ![r] = m]
    /\ client' = [client EXCEPT ![r] = "sent"]
    /\ stream' = Append(stream, r)
    /\ UNCHANGED <<listener, current, keeping, pending, entry, coro,
                   finished, handler, writeLock, waiters, closed, crash>>

(* The client closes, or ~NodeContext closes the server's socket. *)
Close ==
    /\ ~closed
    /\ closed' = TRUE
    /\ UNCHANGED <<client, tag, method, stream, listener, current, keeping,
                   pending, entry, coro, finished, handler, writeLock,
                   waiters, crash>>

-----------------------------------------------------------------------------
(* listen *)

ReadHeader ==
    /\ listener = "header" /\ stream # <<>>
    /\ current' = Head(stream)
    /\ stream' = Tail(stream)
    /\ listener' = "reap"
    /\ UNCHANGED <<client, tag, method, keeping, pending, entry, coro,
                   finished, handler, writeLock, waiters, closed, crash>>

Live(n) == \E t \in Tags : pending[t] = n

Finished == {finished[i] : i \in 1 .. Len(finished)}

(* Every reference leads to an entry that is still in the map and whose     *)
(* handler is parked, and none leads there twice.                           *)
Reapable ==
    /\ \A n \in Finished :
          Live(n) /\ coro[n] # None /\ handler[coro[n]] = "parked"
    /\ \A i, j \in 1 .. Len(finished) :
          finished[i] = finished[j] => i = j

\* Mutant: the tag of the new request is erased, not the reaped one's.
ReapWrongTag ==
    /\ listener = "reap" /\ keeping = None
    /\ Reapable
    /\ keeping' = "listener"
    /\ handler' = [r \in Requests |->
          IF \E n \in Finished : coro[n] = r THEN "gone" ELSE handler[r]]
    /\ coro' = [n \in Nodes |-> IF n \in Finished THEN None ELSE coro[n]]
    /\ pending' = IF finished = <<>> THEN pending
                  ELSE [pending EXCEPT ![tag[current]] = None]
    /\ listener' = "check"
    /\ UNCHANGED <<client, tag, method, stream, current, entry, finished,
                   writeLock, waiters, closed, crash>>

(* Under handlersKeepingLock, resume each finished handler to its end and  *)
(* erase its entry.  finishedHandlers itself is not emptied.                *)
Reap ==
    /\ listener = "reap" /\ keeping = None
    /\ Reapable
    /\ keeping' = "listener"
    /\ handler' = [r \in Requests |->
          IF \E n \in Finished : coro[n] = r THEN "gone" ELSE handler[r]]
    /\ coro' = [n \in Nodes |-> IF n \in Finished THEN None ELSE coro[n]]
    /\ pending' = [t \in Tags |->
          IF pending[t] \in Finished THEN None ELSE pending[t]]
    /\ listener' = "check"
    /\ UNCHANGED <<client, tag, method, stream, current, entry, finished,
                   writeLock, waiters, closed, crash>>

(* A reference left from an earlier reap leads to a freed entry, or to one *)
(* whose address was used again: a null handle, a second resumption of the *)
(* same handler, or one that is not parked.                                *)
ReapStale ==
    /\ listener = "reap" /\ keeping = None
    /\ ~Reapable
    /\ crash' = "stale_ref"
    /\ UNCHANGED <<client, tag, method, stream, listener, current, keeping,
                   pending, entry, coro, finished, handler, writeLock,
                   waiters, closed>>

Acceptable ==
    method[current] # "End" /\ pending[tag[current]] = None

(* pendingResponses[rh.tag]: the entry of the tag, a new one if it has none *)
EmplaceEntry ==
    \/ /\ pending[tag[current]] # None
       /\ entry' = [entry EXCEPT ![current] = pending[tag[current]]]
       /\ UNCHANGED <<pending, coro>>
    \/ /\ pending[tag[current]] = None
       /\ \E n \in {m \in Nodes : ~Live(m)} :
             /\ pending' = [pending EXCEPT ![tag[current]] = n]
             /\ entry' = [entry EXCEPT ![current] = n]
             /\ coro' = [coro EXCEPT ![n] = None]

Accept ==
    /\ listener = "check" /\ Acceptable
    /\ EmplaceEntry
    /\ keeping' = None
    /\ listener' = "body"
    /\ UNCHANGED <<client, tag, method, stream, current, finished, handler,
                   writeLock, waiters, closed, crash>>

(* A request that is refused: the lock is released ... *)
Reject ==
    /\ listener = "check" /\ ~Acceptable
    /\ keeping' = None
    /\ listener' = "rejected"
    /\ UNCHANGED <<client, tag, method, stream, current, pending, entry,
                   coro, finished, handler, writeLock, waiters, closed, crash>>

(* ... and the request is handled all the same, and the lock released a     *)
(* second time, from whoever holds it by then.                              *)
FallThrough ==
    /\ listener = "rejected"
    /\ EmplaceEntry
    /\ keeping' = None
    /\ listener' = "body"
    /\ UNCHANGED <<client, tag, method, stream, current, finished, handler,
                   writeLock, waiters, closed, crash>>

(* The read of an empty body returns at once. *)
ReadBody ==
    /\ listener = "body"
    /\ listener' = "spawn"
    /\ UNCHANGED <<client, tag, method, stream, current, keeping, pending,
                   entry, coro, finished, handler, writeLock, waiters,
                   closed, crash>>

(* The new coroutine is assigned over the old one, which is destroyed. *)
Spawn ==
    /\ listener = "spawn"
    /\ coro[entry[current]] = None
    /\ coro' = [coro EXCEPT ![entry[current]] = current]
    /\ handler' = [handler EXCEPT ![current] = "ready"]
    /\ listener' = "header"
    /\ UNCHANGED <<client, tag, method, stream, current, keeping, pending,
                   entry, finished, writeLock, waiters, closed, crash>>

SpawnOverLive ==
    /\ listener = "spawn"
    /\ coro[entry[current]] # None
    /\ crash' = "unchecked_destroy"
    /\ UNCHANGED <<client, tag, method, stream, listener, current, keeping,
                   pending, entry, coro, finished, handler, writeLock,
                   waiters, closed>>

(* ClosedTransportException leaves the loop, from either read.  A close on  *)
(* this side, or a reset, drops what was not read.                          *)
ListenEnds ==
    /\ closed
    /\ \/ listener = "header"
       \/ listener = "body" /\ current \in Large
    /\ listener' = "drain"
    /\ UNCHANGED <<client, tag, method, stream, current, keeping, pending,
                   entry, coro, finished, handler, writeLock, waiters,
                   closed, crash>>

DrainNext(t) ==
    /\ listener = "drain" /\ pending[t] # None
    /\ \A u \in 0 .. t - 1 : pending[u] = None

(* The handler is parked: resumed, it ends.  The entry stays in the map     *)
(* until the handler object is destroyed; here it leaves at once.           *)
Drain(t) ==
    /\ DrainNext(t)
    /\ LET n == pending[t] IN
         /\ coro[n] # None /\ handler[coro[n]] = "parked"
         /\ handler' = [handler EXCEPT ![coro[n]] = "gone"]
         /\ coro' = [coro EXCEPT ![n] = None]
    /\ pending' = [pending EXCEPT ![t] = None]
    /\ UNCHANGED <<client, tag, method, stream, listener, current, keeping,
                   entry, finished, writeLock, waiters, closed, crash>>

(* The handler is suspended in its co_await of a method that has not ended: *)
(* the resumption runs await_resume and its check of the method's promise.  *)
AwaitsMethod(r) == handler[r] \in {"waiting", "handed", "sending"}

(* The handler runs on a worker, or is scheduled to. *)
OnPool(r) ==
    handler[r] \in {"ready", "acquire", "granted", "writing", "release",
                    "parking", "parkLocked"}

DrainTooEarly(t) ==
    /\ DrainNext(t)
    /\ LET n == pending[t] IN
         \/ coro[n] = None /\ crash' = "null_resume"
         \/ /\ coro[n] # None /\ AwaitsMethod(coro[n])
            /\ crash' = "premature_check"
         \/ /\ coro[n] # None /\ OnPool(coro[n])
            /\ crash' = "double_resume"
    /\ UNCHANGED <<client, tag, method, stream, listener, current, keeping,
                   pending, entry, coro, finished, handler, writeLock,
                   waiters, closed>>

ListenReturns ==
    /\ listener = "drain" /\ \A t \in Tags : pending[t] = None
    /\ listener' = "returned"
    /\ UNCHANGED <<client, tag, method, stream, current, keeping, pending,
                   entry, coro, finished, handler, writeLock, waiters,
                   closed, crash>>

-----------------------------------------------------------------------------
(* handleRequest and the methods *)

Goto(r, from, to) ==
    handler[r] = from /\ handler' = [handler EXCEPT ![r] = to]

(* Only handlePing answers; the others return at once. *)
Begin(r) ==
    /\ Goto(r, "ready", IF method[r] = "Ping" THEN "acquire" ELSE "release")
    /\ UNCHANGED <<client, tag, method, stream, listener, current, keeping,
                   pending, entry, coro, finished, writeLock, waiters,
                   closed, crash>>

Acquire(r) ==
    /\ ~writeLock
    /\ Goto(r, "acquire", "granted")
    /\ writeLock' = TRUE
    /\ UNCHANGED <<client, tag, method, stream, listener, current, keeping,
                   pending, entry, coro, finished, waiters, closed, crash>>

\* Mutant: the handle is pushed before it is known.
AcquireWaitsNoHandle(r) ==
    /\ writeLock
    /\ Goto(r, "acquire", "waiting")
    /\ waiters' = Append(waiters, None)
    /\ UNCHANGED <<client, tag, method, stream, listener, current, keeping,
                   pending, entry, coro, finished, writeLock, closed, crash>>

AcquireWaits(r) ==
    /\ writeLock
    /\ Goto(r, "acquire", "waiting")
    /\ waiters' = Append(waiters, r)
    /\ UNCHANGED <<client, tag, method, stream, listener, current, keeping,
                   pending, entry, coro, finished, writeLock, closed, crash>>

(* rawWrite.  The client may have the response before it returns. *)
Write(r) ==
    /\ Goto(r, "granted", "writing") \/ Goto(r, "handed", "sending")
    /\ client' = [client EXCEPT ![r] = "answered"]
    /\ crash' = IF \E q \in Requests : handler[q] \in {"writing", "sending"}
                THEN "simultaneous_write" ELSE crash
    /\ UNCHANGED <<tag, method, stream, listener, current, keeping, pending,
                   entry, coro, finished, writeLock, waiters, closed>>

WriteEnds(r) ==
    /\ Goto(r, "writing", "release") \/ Goto(r, "sending", "release")
    /\ UNCHANGED <<client, tag, method, stream, listener, current, keeping,
                   pending, entry, coro, finished, writeLock, waiters,
                   closed, crash>>

\* Mutant: the lock is freed without looking at the waiters.
ReleaseIgnoresWaiters(r) ==
    /\ Goto(r, "release", "parking")
    /\ writeLock' = FALSE
    /\ UNCHANGED <<client, tag, method, stream, listener, current, keeping,
                   pending, entry, coro, finished, waiters, closed, crash>>

(* Whatever the method was, the write lock is released: handed to the last *)
(* that came to wait, or freed.                                            *)
Release(r) ==
    /\ waiters = <<>>
    /\ Goto(r, "release", "parking")
    /\ writeLock' = FALSE
    /\ UNCHANGED <<client, tag, method, stream, listener, current, keeping,
                   pending, entry, coro, finished, waiters, closed, crash>>

\* Mutant: the lock is freed although it is handed over.
HandOverFrees(r) ==
    /\ waiters # <<>>
    /\ handler[r] = "release"
    /\ handler' = [handler EXCEPT ![r] = "parking",
                                  ![waiters[Len(waiters)]] = "handed"]
    /\ waiters' = SubSeq(waiters, 1, Len(waiters) - 1)
    /\ writeLock' = FALSE
    /\ UNCHANGED <<client, tag, method, stream, listener, current, keeping,
                   pending, entry, coro, finished, closed, crash>>

HandOver(r) ==
    /\ waiters # <<>>
    /\ handler[r] = "release"
    /\ handler' = [handler EXCEPT ![r] = "parking",
                                  ![waiters[Len(waiters)]] = "handed"]
    /\ waiters' = SubSeq(waiters, 1, Len(waiters) - 1)
    /\ UNCHANGED <<client, tag, method, stream, listener, current, keeping,
                   pending, entry, coro, finished, writeLock, closed, crash>>

ParkLock(r) ==
    /\ keeping = None
    /\ Goto(r, "parking", "parkLocked")
    /\ keeping' = r
    /\ UNCHANGED <<client, tag, method, stream, listener, current, pending,
                   entry, coro, finished, writeLock, waiters, closed, crash>>

\* Mutant: the lock is not released.
ParkKeepsLock(r) ==
    /\ Goto(r, "parkLocked", "parked")
    /\ finished' = Append(finished, entry[r])
    /\ UNCHANGED <<client, tag, method, stream, listener, current, keeping,
                   pending, entry, coro, writeLock, waiters, closed, crash>>

(* The handler adds its entry to finishedHandlers and is suspended. *)
Park(r) ==
    /\ Goto(r, "parkLocked", "parked")
    /\ finished' = Append(finished, entry[r])
    /\ keeping' = None
    /\ crash' = IF \/ listener = "check"
                   \/ \E q \in Requests \ {r} : handler[q] = "parkLocked"
                THEN "list_race" ELSE crash
    /\ UNCHANGED <<client, tag, method, stream, listener, current, pending,
                   entry, coro, writeLock, waiters, closed>>

-----------------------------------------------------------------------------
Listen ==
    \/ ReadHeader \/ Reap \/ ReapStale \/ Accept \/ Reject \/ FallThrough
    \/ ReadBody \/ Spawn \/ SpawnOverLive \/ ListenEnds
    \/ (\E t \in Tags : Drain(t) \/ DrainTooEarly(t)) \/ ListenReturns

Handle(r) ==
    \/ Begin(r) \/ Acquire(r) \/ AcquireWaits(r) \/ Write(r) \/ WriteEnds(r)
    \/ Release(r) \/ HandOver(r) \/ ParkLock(r) \/ Park(r)

(* Nothing is left to do: the process or the connection has ended. *)
Ended == crash # "no" \/ listener = "returned"

Next ==
    \/ /\ crash = "no"
       /\ \/ \E r \in Requests : SendRequest(r) \/ Handle(r)
          \/ Close
          \/ Listen
    \/ Ended /\ UNCHANGED vars

Spec == Init /\ [][Next]_vars

(* The pool runs every coroutine that can run, the loop reports what there  *)
(* is to read.  The client owes nothing.                                    *)
Fairness ==
    /\ WF_vars(crash = "no" /\ Listen)
    /\ \A r \in Requests : WF_vars(crash = "no" /\ Handle(r))

FairSpec == Spec /\ Fairness
-----------------------------------------------------------------------------
(* Types of the variables, after ServerHandler.h and ServerResponseState.h: *)
(* in particular every waiter is a request and every reference in           *)
(* finishedHandlers was taken of an entry.                                  *)
TypeOK ==
    /\ client \in [Requests -> {"new", "sent", "answered"}]
    /\ tag \in [Requests -> Tags]
    /\ method \in [Requests -> {"End", "Ping", "GetNode"}]
    /\ stream \in Seq(Requests)
    /\ listener \in ListenerPCs
    /\ current \in Requests \cup {None}
    /\ keeping \in Requests \cup {"listener", None}
    /\ pending \in [Tags -> Nodes \cup {None}]
    /\ entry \in [Requests -> Nodes \cup {None}]
    /\ coro \in [Nodes -> Requests \cup {None}]
    /\ finished \in Seq(Nodes)
    /\ handler \in [Requests -> HandlerPCs]
    /\ writeLock \in BOOLEAN
    /\ waiters \in Seq(Requests)
    /\ closed \in BOOLEAN
    /\ crash \in Crashes

(* "simultaneous write to tcp socket" (PlainSocketTransport.cpp:139): the   *)
(* write lock of ServerHandler.cpp:71-78 and 98-113 keeps the responses of  *)
(* concurrent handlers apart.                                               *)
WriteExclusive == crash # "simultaneous_write"

Owners ==
    {r \in Requests :
        handler[r] \in {"granted", "writing", "handed", "sending", "release"}}

Waiting == {r \in Requests : handler[r] = "waiting"}

(* The write lock is never leaked and never given to two: it is taken       *)
(* exactly while one handler owns it, and each handler that waits is in     *)
(* writeLockWaiters exactly once, behind an owner who will hand it over.    *)
WriteLockOwned ==
    /\ \A q, r \in Owners : q = r
    /\ writeLock <=> Owners # {}
    /\ Waiting # {} => writeLock
    /\ Waiting = {waiters[i] : i \in 1 .. Len(waiters)}
    /\ \A i, j \in 1 .. Len(waiters) : waiters[i] = waiters[j] => i = j

(* The reference serverRespState of a handler that has not ended (line 64)  *)
(* leads to its own entry: no reap frees or reuses it, whatever tags the    *)
(* client uses again meanwhile.                                             *)
EntryLive ==
    \A r \in Requests :
        handler[r] \notin {"none", "gone"} =>
            /\ pending[tag[r]] = entry[r]
            /\ coro[entry[r]] = r

(* "coroutine must be checked before destruction" (Promise.h:102): the      *)
(* assignment of handlerCoro (line 47) never destroys a handler that has    *)
(* not been awaited.                                                        *)
HandlersChecked == crash # "unchecked_destroy"

(* "check coroutine only after it exits" (Promise.h:80): when the           *)
(* connection closes, listen resumes only handlers whose method has ended   *)
(* (lines 56-60).                                                           *)
HandlersExited == crash # "premature_check"

(* Every ping whose handler was started is answered unless the process ends *)
(* first: no handler waits for the write lock for ever.                     *)
PingsAnswered ==
    \A r \in Requests :
        handler[r] = "ready" ~> client[r] = "answered" \/ crash # "no"

(* A closed connection is let go: listen ends, unless the process does.     *)
CloseEndsListen == closed ~> listener = "returned" \/ crash # "no"
=============================================================================
