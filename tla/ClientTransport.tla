--------------------------- MODULE ClientTransport ---------------------------
(***************************************************************************)
(* The client side of one connection, src/src/proto/ClientTransport.cpp.   *)
(* Any number of coroutines call sendSmallRequest at once.  Each takes the *)
(* lowest free 16-bit tag, writes its request and suspends.  One waiter    *)
(* coroutine at a time reads response headers; it parks after each header  *)
(* and schedules the request the tag names, and that request destroys the  *)
(* waiter, frees the tag and starts the next waiter if others are pending. *)
(*                                                                         *)
(* A co_await of a coroutine is one step here: it resumes when the awaited *)
(* coroutine is done.  The server answers in any order, so the responses   *)
(* under way are a set: every order of taking them from it is an order in  *)
(* which the server may have written them to the stream.                   *)
(*                                                                         *)
(* Coroutines run on the workers of one thread pool.  A request keeps its  *)
(* worker until it is suspended, also while it spins for a tag; resuming   *)
(* it, and resuming the waiter, needs a worker that is free.               *)
(***************************************************************************)
EXTENDS Naturals, FiniteSets

CONSTANTS
    Requests,   \* the calls of sendSmallRequest, each made once
    MaxTags,    \* number of tags: UINT16_MAX in the code
    Nodes,      \* addresses at which the map allocates its entries
    RespLens,   \* the body lengths the server answers with
    Workers,    \* threads of the pool that runs the coroutines
    None        \* no request, no node

Tags == 0 .. MaxTags - 1

ASSUME MaxTagsAssumption == MaxTags \in Nat \ {0}
ASSUME RespLensAssumption == RespLens \subseteq Nat /\ 0 \in RespLens
ASSUME WorkersAssumption == Workers \in Nat \ {0}
ASSUME NoneAssumption == None \notin Requests /\ None \notin Nodes

VARIABLES
    pc,         \* request -> where its coroutine is
    ref,        \* request -> requestState, the address of its map entry
    rh,         \* request -> the header it returned with a body to read
    lock,       \* ClientTransport::lock, the request that holds it
    pending,    \* pendingRequests: tag -> address of the entry
    state,      \* address -> contents, kept when the entry is freed
    waiter,     \* currentWaitForResponseCoroutine
    unread,     \* unreadResponseLength and unreadResponseTag
    scheduled,  \* requests whose handle is in the thread pool
    sent,       \* requests the server has not answered
    replies,    \* responses the waiter has not read
    closed,     \* the peer closed the connection
    crash       \* what terminated the process

vars == <<pc, ref, rh, lock, pending, state, waiter, unread, scheduled,
          sent, replies, closed, crash>>

PCs == {"idle", "reserving", "locking", "scanning", "reserved", "sending",
        "suspended", "retiring", "returning", "body", "bodyDone", "done"}

(* The ends of the process: the assertions of ClientTransport.cpp and of   *)
(* PlainSocketTransport::rawRead, the resumption of a coroutine that is    *)
(* not parked, an exception no coroutine awaits, and a find that races     *)
(* with an insertion and misses.                                           *)
Crashes == {"no", "simultaneous_read", "waiter_not_freed",
            "waiter_not_parked", "body_out_of_bounds", "unknown_response",
            "map_race", "closed"}

Lens == RespLens

(* What a request keeps of a header, and what the map stores for a tag.    *)
(* "from" is a ghost: the request whose response the header was.           *)
Headers == [len : Lens, from : Requests \cup {None}]

States == [tag : Tags, handle : Requests \cup {None}, len : Lens,
           from : Requests \cup {None}]

Init ==
    /\ pc = [r \in Requests |-> "idle"]
    /\ ref = [r \in Requests |-> None]
    /\ rh = [r \in Requests |-> [len |-> 0, from |-> None]]
    /\ lock = None
    /\ pending = [t \in Tags |-> None]
    /\ state = [n \in Nodes |->
                  [tag |-> 0, handle |-> None, len |-> 0, from |-> None]]
    /\ waiter = "none"
    /\ unread = [len |-> 0, tag |-> 0]
    /\ scheduled = {}
    /\ sent = {}
    /\ replies = {}
    /\ closed = FALSE
    /\ crash = "no"

-----------------------------------------------------------------------------
FreeTags == {t \in Tags : pending[t] = None}

FreeNodes == {n \in Nodes : \A t \in Tags : pending[t] # n}

TagOf(r) == state[ref[r]].tag

OthersPending(r) == \E t \in Tags : t # TagOf(r) /\ pending[t] # None

(* readFlag of the transport: some coroutine is inside its rawRead. *)
ReadInProgress == waiter = "reading" \/ \E r \in Requests : pc[r] = "body"

Goto(r, from, to) == pc[r] = from /\ pc' = [pc EXCEPT ![r] = to]

Acquire(r) == lock = None /\ lock' = r

Release(r) == lock = r /\ lock' = None

(* Starting waitForAnyResponse runs it up to its rawRead. *)
StartWaiter ==
    \/ /\ ~ReadInProgress
       /\ waiter' = "reading"
       /\ UNCHANGED crash
    \/ /\ ReadInProgress
       /\ crash' = "simultaneous_read"
       /\ UNCHANGED waiter

(* The places at which a request runs on a worker, or spins on it; at the   *)
(* others it has not begun, is suspended, or has ended.                     *)
OnWorker == {"reserving", "locking", "scanning", "reserved", "sending",
             "retiring", "returning", "bodyDone"}

FreeWorker == Cardinality({r \in Requests : pc[r] \in OnWorker}) < Workers

-----------------------------------------------------------------------------
(* reserveRequestState *)

Call(r) ==
    /\ FreeWorker
    /\ Goto(r, "idle", "reserving")
    /\ UNCHANGED <<ref, rh, lock, pending, state, waiter, unread, scheduled,
                   sent, replies, closed, crash>>

(* The spin reads the size of the map without the lock. *)
Spin(r) ==
    /\ FreeTags # {}
    /\ Goto(r, "reserving", "locking")
    /\ UNCHANGED <<ref, rh, lock, pending, state, waiter, unread, scheduled,
                   sent, replies, closed, crash>>

Lock(r) ==
    /\ Goto(r, "locking", "scanning")
    /\ Acquire(r)
    /\ UNCHANGED <<ref, rh, pending, state, waiter, unread, scheduled,
                   sent, replies, closed, crash>>

(* Another request took the last tag since the spin: start again. *)
ScanFails(r) ==
    /\ FreeTags = {}
    /\ Goto(r, "scanning", "reserving")
    /\ Release(r)
    /\ UNCHANGED <<ref, rh, pending, state, waiter, unread, scheduled,
                   sent, replies, closed, crash>>

(* The new entry is zeroed and the lock is kept. *)
InsertAt(r, t, n) ==
    /\ pending' = [pending EXCEPT ![t] = n]
    /\ state' = [state EXCEPT ![n] =
                   [tag |-> t, handle |-> None, len |-> 0, from |-> None]]
    /\ ref' = [ref EXCEPT ![r] = n]

Insert(r) ==
    /\ Goto(r, "scanning", "reserved")
    /\ \E t \in FreeTags, n \in FreeNodes :
          /\ \A u \in FreeTags : t <= u
          /\ InsertAt(r, t, n)
    /\ UNCHANGED <<rh, lock, waiter, unread, scheduled, sent, replies,
                   closed, crash>>

-----------------------------------------------------------------------------
(* sendRequest, up to the suspension *)

\* Mutant: the handle is not stored in the entry.
SendNoHandle(r) ==
    /\ Goto(r, "reserved", "sending")
    /\ sent' = sent \cup {[from |-> r, tag |-> TagOf(r)]}
    /\ UNCHANGED <<ref, rh, lock, pending, state, waiter, unread, scheduled,
                   replies, closed, crash>>

(* Inside the suspend callback: the handle is stored, then the request is  *)
(* written; its response may arrive before the callback ends.              *)
Send(r) ==
    /\ Goto(r, "reserved", "sending")
    /\ state' = [state EXCEPT ![ref[r]].handle = r]
    /\ sent' = sent \cup {[from |-> r, tag |-> TagOf(r)]}
    /\ UNCHANGED <<ref, rh, lock, pending, waiter, unread, scheduled,
                   replies, closed, crash>>

\* Mutant: every request starts a waiter, not only the first pending one.
SuspendAlwaysWaits(r) ==
    /\ Goto(r, "sending", "suspended")
    /\ Release(r)
    /\ StartWaiter
    /\ UNCHANGED <<ref, rh, pending, state, unread, scheduled, sent,
                   replies, closed>>

Suspend(r) ==
    /\ Goto(r, "sending", "suspended")
    /\ Release(r)
    /\ \/ OthersPending(r) /\ UNCHANGED <<waiter, crash>>
       \/ ~OthersPending(r) /\ waiter = "none" /\ StartWaiter
       \/ /\ ~OthersPending(r) /\ waiter # "none"
          /\ crash' = "waiter_not_freed"
          /\ UNCHANGED waiter
    /\ UNCHANGED <<ref, rh, pending, state, unread, scheduled, sent,
                   replies, closed>>

-----------------------------------------------------------------------------
(* waitForAnyResponse, run by the event loop and the thread pool without   *)
(* the lock                                                                *)

\* Mutant: the waiter reads on instead of parking.
ReceiveNoPark ==
    /\ FreeWorker /\ waiter = "reading"
    /\ \E m \in replies :
          /\ pending[m.tag] # None
          /\ LET n == pending[m.tag] IN
               /\ state' = [state EXCEPT ![n].len = m.len,
                                         ![n].from = m.from]
               /\ scheduled' = scheduled \cup {state[n].handle}
          /\ unread' = [len |-> m.len, tag |-> m.tag]
          /\ replies' = replies \ {m}
    /\ UNCHANGED <<pc, ref, rh, lock, pending, waiter, sent, closed, crash>>

\* Mutant: the request is looked up by the tag of the previous response.
ReceiveStaleTag ==
    /\ FreeWorker /\ waiter = "reading"
    /\ pending[unread.tag] # None
    /\ \E m \in replies :
          /\ LET n == pending[unread.tag] IN
               /\ state' = [state EXCEPT ![n].len = m.len,
                                         ![n].from = m.from]
               /\ scheduled' = scheduled \cup {state[n].handle}
          /\ unread' = [len |-> m.len, tag |-> m.tag]
          /\ replies' = replies \ {m}
    /\ waiter' = "parked"
    /\ UNCHANGED <<pc, ref, rh, lock, pending, sent, closed, crash>>

(* A header whose tag is pending: store it, park, schedule the request. *)
Receive ==
    /\ FreeWorker /\ waiter = "reading"
    /\ \E m \in replies :
          /\ pending[m.tag] # None
          /\ LET n == pending[m.tag] IN
               /\ state' = [state EXCEPT ![n].len = m.len,
                                         ![n].from = m.from]
               /\ scheduled' = scheduled \cup {state[n].handle}
          /\ unread' = [len |-> m.len, tag |-> m.tag]
          /\ replies' = replies \ {m}
    /\ waiter' = "parked"
    /\ UNCHANGED <<pc, ref, rh, lock, pending, sent, closed, crash>>

(* A header whose tag is not pending: UnknownResponseException in a        *)
(* coroutine nobody awaits.                                                *)
ReceiveUnknown ==
    /\ FreeWorker /\ waiter = "reading"
    /\ \E m \in replies : pending[m.tag] = None
    /\ crash' = "unknown_response"
    /\ UNCHANGED <<pc, ref, rh, lock, pending, state, waiter, unread,
                   scheduled, sent, replies, closed>>

(* find runs without the lock: while another request is inserting it may   *)
(* follow a half-linked node and miss, or fault.                           *)
ReceiveRaces ==
    /\ FreeWorker /\ waiter = "reading" /\ replies # {}
    /\ \E r \in Requests : pc[r] = "scanning"
    /\ crash' = "map_race"
    /\ UNCHANGED <<pc, ref, rh, lock, pending, state, waiter, unread,
                   scheduled, sent, replies, closed>>

(* End of stream: ClosedTransportException in a coroutine nobody awaits. *)
ReceiveEnd ==
    /\ FreeWorker /\ waiter = "reading" /\ closed /\ replies = {}
    /\ crash' = "closed"
    /\ UNCHANGED <<pc, ref, rh, lock, pending, state, waiter, unread,
                   scheduled, sent, replies, closed>>

-----------------------------------------------------------------------------
(* sendRequest, after it is resumed *)

(* Resuming anything but the parked waiter: a moved-from handle, or a      *)
(* coroutine suspended elsewhere.                                          *)
ResumeWithoutWaiter(r) ==
    /\ FreeWorker
    /\ Goto(r, "suspended", "retiring")
    /\ r \in scheduled /\ waiter # "parked"
    /\ Acquire(r)
    /\ scheduled' = scheduled \ {r}
    /\ crash' = "waiter_not_parked"
    /\ UNCHANGED <<ref, rh, pending, state, waiter, unread, sent, replies,
                   closed>>

(* A response with a body: the waiter is gone, the tag stays taken. *)
ResumeForBody(r) ==
    /\ FreeWorker
    /\ Goto(r, "suspended", "retiring")
    /\ r \in scheduled /\ waiter = "parked"
    /\ state[ref[r]].len # 0
    /\ Acquire(r)
    /\ waiter' = "none"
    /\ scheduled' = scheduled \ {r}
    /\ UNCHANGED <<ref, rh, pending, state, unread, sent, replies, closed,
                   crash>>

\* Mutant: the tag of a request that is answered stays taken.
RetireKeepsTag(t) ==
    /\ waiter' = IF \E u \in Tags \ {t} : pending[u] # None
                 THEN "reading" ELSE "none"
    /\ UNCHANGED <<pending, crash>>

\* Mutant: no waiter is started for the requests still pending.
RetireNoRestart(t) ==
    /\ pending' = [pending EXCEPT ![t] = None]
    /\ waiter' = "none"
    /\ UNCHANGED crash

\* Mutant: a waiter is started also when nothing is pending.
RetireAlwaysRestart(t) ==
    /\ pending' = [pending EXCEPT ![t] = None]
    /\ waiter' = "reading"
    /\ UNCHANGED crash

\* Mutant: the first entry of the map is erased, whoever it belongs to.
RetireFirst(t) ==
    /\ \E u \in Tags :
          /\ pending[u] # None
          /\ \A v \in 0 .. u - 1 : pending[v] = None
          /\ pending' = [pending EXCEPT ![u] = None]
    /\ waiter' = IF \E u \in Tags : pending'[u] # None
                 THEN "reading" ELSE "none"
    /\ UNCHANGED crash

(* The tag t is freed.  If others are pending the next waiter starts: the  *)
(* parked one was destroyed just before.                                   *)
Retire(t) ==
    /\ pending' = [pending EXCEPT ![t] = None]
    /\ \/ /\ \E u \in Tags \ {t} : pending[u] # None
          /\ \A r \in Requests : pc[r] # "body"
          /\ waiter' = "reading"
          /\ UNCHANGED crash
       \/ /\ \E u \in Tags \ {t} : pending[u] # None
          /\ \E r \in Requests : pc[r] = "body"
          /\ waiter' = "none"
          /\ crash' = "simultaneous_read"
       \/ /\ \A u \in Tags \ {t} : pending[u] = None
          /\ waiter' = "none"
          /\ UNCHANGED crash

\* Mutant: the body is not waited for before the next header.
ResumeIgnoresBody(r) ==
    /\ FreeWorker
    /\ Goto(r, "suspended", "retiring")
    /\ r \in scheduled /\ waiter = "parked"
    /\ Acquire(r)
    /\ Retire(TagOf(r))
    /\ scheduled' = scheduled \ {r}
    /\ UNCHANGED <<ref, rh, state, unread, sent, replies, closed>>

Resume(r) ==
    /\ FreeWorker
    /\ Goto(r, "suspended", "retiring")
    /\ r \in scheduled /\ waiter = "parked"
    /\ state[ref[r]].len = 0
    /\ Acquire(r)
    /\ Retire(TagOf(r))
    /\ scheduled' = scheduled \ {r}
    /\ UNCHANGED <<ref, rh, state, unread, sent, replies, closed>>

Unlock(r) ==
    /\ Goto(r, "retiring", "returning")
    /\ Release(r)
    /\ UNCHANGED <<ref, rh, pending, state, waiter, unread, scheduled,
                   sent, replies, closed, crash>>

(* sendRequest copies the header from the entry after it has freed it and  *)
(* released the lock: the read sees what the address holds by then.        *)
(* sendSmallRequest returns when the header announces no body.             *)
Return(r) ==
    /\ Goto(r, "returning", "done")
    /\ state[ref[r]].len = 0
    /\ UNCHANGED <<ref, rh, lock, pending, state, waiter, unread, scheduled,
                   sent, replies, closed, crash>>

-----------------------------------------------------------------------------
(* rawRead of the body *)

StartBody(r) ==
    /\ Goto(r, "returning", "body")
    /\ state[ref[r]].len # 0
    /\ rh' = [rh EXCEPT ![r] = [len |-> state[ref[r]].len,
                                from |-> state[ref[r]].from]]
    /\ \/ /\ state[ref[r]].len > unread.len
          /\ crash' = "body_out_of_bounds"
       \/ /\ state[ref[r]].len <= unread.len /\ ReadInProgress
          /\ crash' = "simultaneous_read"
       \/ /\ state[ref[r]].len <= unread.len /\ ~ReadInProgress
          /\ UNCHANGED crash
    /\ UNCHANGED <<ref, lock, pending, state, waiter, unread, scheduled,
                   sent, replies, closed>>

(* A part of the body leaves the rest for later reads. *)
ReadBody(r) ==
    /\ FreeWorker
    /\ Goto(r, "body", IF rh[r].len = unread.len THEN "bodyDone" ELSE "done")
    /\ unread' = [unread EXCEPT !.len = @ - rh[r].len]
    /\ UNCHANGED <<ref, rh, lock, pending, state, waiter, scheduled, sent,
                   replies, closed, crash>>

(* The end of the body resumes the waiter a second time: sendRequest has   *)
(* moved it away, and only another request's waiter may be there.          *)
FinishBodyWithoutWaiter(r) ==
    /\ waiter # "parked"
    /\ Goto(r, "bodyDone", "done")
    /\ Acquire(r)
    /\ crash' = "waiter_not_parked"
    /\ UNCHANGED <<ref, rh, pending, state, waiter, unread, scheduled,
                   sent, replies, closed>>

FinishBody(r) ==
    /\ waiter = "parked"
    /\ lock = None
    /\ Goto(r, "bodyDone", "done")
    /\ Retire(unread.tag)
    /\ UNCHANGED <<ref, rh, lock, state, unread, scheduled, sent, replies,
                   closed>>

-----------------------------------------------------------------------------
(* The peer: it answers each request once, in any order, or closes. *)

Respond ==
    /\ ~closed
    /\ \E q \in sent, l \in RespLens :
          /\ sent' = sent \ {q}
          /\ replies' = replies \cup
                          {[from |-> q.from, tag |-> q.tag, len |-> l]}
    /\ UNCHANGED <<pc, ref, rh, lock, pending, state, waiter, unread,
                   scheduled, closed, crash>>

PeerClose ==
    /\ ~closed
    /\ closed' = TRUE
    /\ UNCHANGED <<pc, ref, rh, lock, pending, state, waiter, unread,
                   scheduled, sent, replies, crash>>

-----------------------------------------------------------------------------
Step(r) ==
    \/ Call(r) \/ Spin(r) \/ Lock(r) \/ ScanFails(r) \/ Insert(r)
    \/ Send(r) \/ Suspend(r)
    \/ ResumeWithoutWaiter(r) \/ ResumeForBody(r) \/ Resume(r)
    \/ Unlock(r) \/ Return(r)
    \/ StartBody(r) \/ ReadBody(r)
    \/ FinishBodyWithoutWaiter(r) \/ FinishBody(r)

Waiter == Receive \/ ReceiveUnknown \/ ReceiveRaces \/ ReceiveEnd

(* Every worker spins for a tag and every tag is in use: no worker is left *)
(* to resume the waiter, or a request that would free one (line 123).      *)
Starved ==
    /\ FreeTags = {}
    /\ Cardinality({r \in Requests : pc[r] = "reserving"}) >= Workers

(* Nothing is left to do: the process has ended, every call has, or the    *)
(* workers are lost.                                                       *)
Ended == crash # "no" \/ Starved \/ \A r \in Requests : pc[r] = "done"

Next ==
    \/ /\ crash = "no"
       /\ \/ \E r \in Requests : Step(r)
          \/ Waiter
          \/ Respond
          \/ PeerClose
    \/ Ended /\ UNCHANGED vars

Spec == Init /\ [][Next]_vars

(* The handles a free worker can take: of the waiter, and of requests that  *)
(* are suspended.                                                           *)
TakeHandle ==
    \/ Waiter
    \/ \E r \in Requests : pc[r] \notin OnWorker \cup {"idle"} /\ Step(r)

(* The operating system runs every worker, a free worker takes a handle if  *)
(* there is one, no matter which, and the peer answers or closes.  Nobody   *)
(* has to make a call.                                                      *)
Fairness ==
    /\ \A r \in Requests :
          WF_vars(crash = "no" /\ pc[r] \in OnWorker /\ Step(r))
    /\ WF_vars(crash = "no" /\ TakeHandle)
    /\ WF_vars(crash = "no" /\ Respond)

FairSpec == Spec /\ Fairness
-----------------------------------------------------------------------------
(* Some request took the header of another one for its own: it was copied   *)
(* from an entry that was freed and used again (line 60).                   *)
Misread == \E r \in Requests : rh[r].from \notin {r, None}

(* The code's declarations in ClientTransport.h and ClientRequestState.h. *)
Types ==
    /\ pc \in [Requests -> PCs]
    /\ ref \in [Requests -> Nodes \cup {None}]
    /\ rh \in [Requests -> Headers]
    /\ lock \in Requests \cup {None}
    /\ pending \in [Tags -> Nodes \cup {None}]
    /\ state \in [Nodes -> States]
    /\ waiter \in {"none", "reading", "parked"}
    /\ unread \in [len : Nat, tag : Tags]
    /\ scheduled \subseteq Requests \cup {None}
    /\ sent \subseteq [from : Requests, tag : Tags]
    /\ replies \subseteq [from : Requests, tag : Tags, len : Lens]
    /\ closed \in BOOLEAN
    /\ crash \in Crashes

(* Every variable has its type.  Only a request whose handle was stored     *)
(* before it was written is scheduled (line 32), never a null handle, unless *)
(* a header was misread before.                                             *)
TypeOK ==
    /\ Types
    /\ None \in scheduled => Misread

(* "simultaneous read on tcp socket" (PlainSocketTransport.cpp:85): the     *)
(* requests hand the right to read the socket to one another through        *)
(* currentWaitForResponseCoroutine, and at most one read is in progress.    *)
ReadExclusive == crash # "simultaneous_read"

(* "previous currentWaitForResponseCoroutine must be freed below after exit *)
(* from suspend" (ClientTransport.cpp:38): a request that finds itself the  *)
(* only pending one finds no waiter, whatever the others did before.        *)
WaiterFreed == crash # "waiter_not_freed"

(* A request that is resumed finds the parked waiter to destroy: never a    *)
(* moved-from handle, never a waiter that is inside its read (line 48).     *)
WaiterPresent == crash # "waiter_not_parked"

(* A server that answers only what it was sent never meets                  *)
(* UnknownResponseException (line 105), though tags are freed and reused    *)
(* while responses are under way, unless a header was misread before.       *)
ResponseExpected == crash = "unknown_response" => Misread

(* A request is resumed with the header of its own response, under reuse of *)
(* its tag and of the address of its map entry (lines 107 and 51).          *)
OwnResponse ==
    \A r \in Requests :
        pc[r] = "suspended" /\ r \in scheduled => state[ref[r]].from = r

(* With responses that have bodies: before a header was misread no two      *)
(* coroutines read the socket, and whoever is resumed has its own response  *)
(* (the stale read of line 60 is the only way to the opposite).             *)
OrderUntilMisread == (ReadExclusive /\ OwnResponse) \/ Misread

(* Whenever no request is inside the lock, a pending request has a waiter   *)
(* that will read its response: the hand-over at lines 37-43 and 53-57      *)
(* leaves nobody behind.                                                    *)
NoStrandedRequest ==
    crash = "no" /\ lock = None /\ (\E t \in Tags : pending[t] # None)
        => waiter # "none"

(* A header is read only where a header starts: no body bytes are left      *)
(* unread in front of it (unreadResponseLength, lines 84-94), unless a      *)
(* header was misread before.                                               *)
HeaderAligned ==
    crash = "no" /\ waiter = "reading" => unread.len = 0 \/ Misread

(* Every call returns, also when there are more callers than tags and some  *)
(* must spin (line 123) or start again (line 133), unless the process ends  *)
(* or the callers that spin keep every worker from those that would free a  *)
(* tag.                                                                     *)
CallsReturn ==
    \A r \in Requests :
        pc[r] = "reserving" ~> pc[r] = "done" \/ crash # "no" \/ Starved

(* The workers are only lost to more calls at once than there are tags and  *)
(* workers together: as long as the callers are fewer, one who spins always *)
(* leaves a worker to a call that will free a tag (lines 52 and 123).       *)
EnoughWorkers ==
    Starved => Cardinality({r \in Requests : pc[r] \notin {"idle", "done"}})
                   >= MaxTags + Workers

(* How far each call has come, seen from outside. *)
Progress(r) ==
    IF pc[r] \in {"idle", "reserving", "locking", "scanning", "reserved"}
    THEN "idle"
    ELSE IF pc[r] = "done" THEN "returned"
    ELSE IF \E q \in sent : q.from = r THEN "outstanding"
    ELSE "answered"

Calls == INSTANCE RpcCalls WITH call <- [r \in Requests |-> Progress(r)]

(* The connection implements RpcCalls: with tags, the map and the waiter    *)
(* in between, no call returns before its own request was answered.         *)
ImplementsCalls == Calls!Spec
=============================================================================
