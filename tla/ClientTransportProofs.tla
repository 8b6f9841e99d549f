------------------------ MODULE ClientTransportProofs ------------------------
(***************************************************************************)
(* The hand-over of the read side in ClientTransport, for any number of    *)
(* callers and of tags.  The first part of the invariant holds in every    *)
(* state; the second until some request takes the header of another one    *)
(* from a freed entry (line 60), which cannot happen as long as no         *)
(* response has a body.                                                    *)
(***************************************************************************)
EXTENDS ClientTransport, FiniteSetTheorems, TLAPS

(* The states in which a request holds the lock, waits for its response with *)
(* an entry in the map, has been written, was resumed, reads its body, and   *)
(* may still read the entry it had.                                          *)
InLock == {"scanning", "reserved", "sending", "retiring"}
Holding == {"reserved", "sending", "suspended"}
Written == {"sending", "suspended"}
Answered == {"retiring", "returning", "body", "bodyDone"}
Reading == {"body", "bodyDone"}
Reserved == Holding \cup Answered \cup {"done"}

-----------------------------------------------------------------------------
(* What holds in every state. *)

(* Who was given an entry has its address. *)
RefInv == \A r \in Requests : pc[r] \in Reserved => ref[r] \in Nodes

LockInv == \A r \in Requests : pc[r] \in InLock <=> lock = r

(* While there is a waiter the map is not empty, and a request about to      *)
(* suspend that finds a waiter is not alone in the map.                      *)
ReservedInv ==
    /\ waiter # "none" => \E t \in Tags : pending[t] # None
    /\ \A r \in Requests :
          pc[r] \in {"reserved", "sending"} =>
             /\ pending[TagOf(r)] = ref[r]
             /\ waiter # "none" => OthersPending(r)

(* At most one request reads a body, not next to a waiter that reads, and   *)
(* not more than is there.                                                  *)
ReaderInv ==
    /\ \A r, s \in Requests : pc[r] = "body" /\ pc[s] = "body" => r = s
    /\ \A r \in Requests :
          pc[r] = "body" => waiter # "reading" /\ rh[r].len <= unread.len

(* A request copies one header in its life. *)
HeaderOnce ==
    \A r \in Requests :
       rh[r].from # None => pc[r] \in Reading \cup {"done"}

BaseInv ==
    /\ Types
    /\ RefInv
    /\ HeaderOnce
    /\ WaiterFreed
    /\ crash = "no" => LockInv /\ ReservedInv /\ ReaderInv

-----------------------------------------------------------------------------
(* What holds until a header is misread. *)

(* The request was resumed with a body that is still in the stream, and its *)
(* entry is still in the map.                                               *)
OwesBody(r) ==
    pc[r] \in Answered /\ state[ref[r]].from = r /\ state[ref[r]].len # 0

Has(r) == pc[r] \in Holding \/ OwesBody(r)

(* The process runs, or ended in a way the code does not exclude. *)
Survives == crash \in {"no", "map_race", "closed"}

(* Requests and entries of the map correspond one to one. *)
EntryInv ==
    /\ \A r \in Requests : Has(r) => pending[TagOf(r)] = ref[r]
    /\ \A t \in Tags :
          pending[t] # None =>
             /\ state[pending[t]].tag = t
             /\ \E r \in Requests : Has(r) /\ ref[r] = pending[t]
    /\ \A r, s \in Requests :
          Has(r) /\ Has(s) /\ ref[r] = ref[s] => r = s

(* A request that was written can be resumed through its entry, and what is *)
(* under way for it carries its tag and is under way once.                  *)
MessageInv ==
    /\ \A r \in Requests : pc[r] \in Written => state[ref[r]].handle = r
    /\ \A m \in sent \cup replies :
          /\ pc[m.from] \in Written
          /\ m.tag = TagOf(m.from)
          /\ m.from \notin scheduled
    /\ \A q \in sent, m \in replies : q.from # m.from
    /\ \A m, n \in replies : m.from = n.from => m = n

(* The waiter is parked exactly while one request is scheduled, with its    *)
(* own response; there is a waiter exactly while some request is suspended  *)
(* and no body is to be read first.                                         *)
WaiterInv ==
    /\ waiter = "parked" <=> scheduled # {}
    /\ scheduled \subseteq Requests
    /\ \A r \in scheduled : pc[r] \in Written /\ state[ref[r]].from = r
    /\ \A r, s \in scheduled : r = s
    /\ waiter # "none" <=> /\ \E r \in Requests : pc[r] = "suspended"
                           /\ \A r \in Requests : ~OwesBody(r)

(* What is unread is the body of the one request that was answered with one. *)
BodyInv ==
    /\ \A r, s \in Requests : OwesBody(r) /\ OwesBody(s) => r = s
    /\ \A r \in Requests : pc[r] \in Reading => OwesBody(r)
    /\ \A r \in Requests : pc[r] = "body" => rh[r].len = state[ref[r]].len
    /\ \A r \in Requests :
          (OwesBody(r) /\ pc[r] # "bodyDone") \/ r \in scheduled
             => unread.len = state[ref[r]].len
    /\ waiter = "reading" => unread.len = 0
    /\ waiter = "none" /\ (\A r \in Requests : ~OwesBody(r)) => unread.len = 0
    /\ \A n \in Nodes : state[n].from = None => state[n].len = 0

Orderly ==
    /\ Survives
    /\ EntryInv
    /\ MessageInv
    /\ WaiterInv
    /\ BodyInv

(* The end of the first body resumed a waiter that was moved away. *)
Stuck == crash = "waiter_not_parked" /\ scheduled = {}

IInv == BaseInv /\ (Misread \/ Orderly \/ Stuck)

-----------------------------------------------------------------------------
(* Every action keeps what holds in every state. *)

(* A call that has not reserved a tag yet disturbs nothing.                 *)
LEMMA CallBase ==
    ASSUME BaseInv, crash = "no", NEW r \in Requests, Call(r)
    PROVE  BaseInv'
<1>1. Types'
    BY DEF BaseInv, Call, Types, Goto, PCs
<1>2. RefInv'
    BY DEF BaseInv, Call, RefInv, Goto, Reserved, Holding, Answered
<1>3. HeaderOnce'
    BY DEF BaseInv, Call, Types, HeaderOnce, Goto, Reading
<1>4. WaiterFreed'
    BY DEF BaseInv, Call, WaiterFreed, ReservedInv, Goto
<1>5. crash' = "no" => LockInv'
    BY NoneAssumption DEF BaseInv, Call, Types, LockInv, Goto, InLock
<1>6. crash' = "no" => ReservedInv'
    BY DEF BaseInv, Call, ReservedInv, Goto, OthersPending, TagOf
<1>7. crash' = "no" => ReaderInv'
    BY DEF BaseInv, Call, Types, ReaderInv, Goto
<1> QED
    BY <1>1, <1>2, <1>3, <1>4, <1>5, <1>6, <1>7 DEF BaseInv

(* Leaving the spin of line 123 decides nothing: the size was read          *)
(* without the lock.                                                        *)
LEMMA SpinBase ==
    ASSUME BaseInv, crash = "no", NEW r \in Requests, Spin(r)
    PROVE  BaseInv'
<1>1. Types'
    BY DEF BaseInv, Spin, Types, Goto, PCs
<1>2. RefInv'
    BY DEF BaseInv, Spin, RefInv, Goto, Reserved, Holding, Answered
<1>3. HeaderOnce'
    BY DEF BaseInv, Spin, Types, HeaderOnce, Goto, Reading
<1>4. WaiterFreed'
    BY DEF BaseInv, Spin, WaiterFreed, ReservedInv, Goto
<1>5. crash' = "no" => LockInv'
    BY NoneAssumption DEF BaseInv, Spin, Types, LockInv, Goto, InLock
<1>6. crash' = "no" => ReservedInv'
    BY DEF BaseInv, Spin, ReservedInv, Goto, OthersPending, TagOf
<1>7. crash' = "no" => ReaderInv'
    BY DEF BaseInv, Spin, Types, ReaderInv, Goto
<1> QED
    BY <1>1, <1>2, <1>3, <1>4, <1>5, <1>6, <1>7 DEF BaseInv

(* The lock is free when it is taken, so nobody else is in a locked         *)
(* section.                                                                 *)
LEMMA LockBase ==
    ASSUME BaseInv, crash = "no", NEW r \in Requests, Lock(r)
    PROVE  BaseInv'
<1>1. Types'
    BY DEF BaseInv, Lock, Types, Goto, Acquire, PCs
<1>2. RefInv'
    BY DEF BaseInv, Lock, RefInv, Goto, Reserved, Holding, Answered
<1>3. HeaderOnce'
    BY DEF BaseInv, Lock, Types, HeaderOnce, Goto, Reading
<1>4. WaiterFreed'
    BY DEF BaseInv, Lock, WaiterFreed, ReservedInv, Goto
<1>5. crash' = "no" => LockInv'
    BY NoneAssumption DEF BaseInv, Lock, Types, LockInv, Goto, Acquire, InLock
<1>6. crash' = "no" => ReservedInv'
    BY DEF BaseInv, Lock, ReservedInv, Goto, OthersPending, TagOf
<1>7. crash' = "no" => ReaderInv'
    BY DEF BaseInv, Lock, Types, ReaderInv, Goto
<1> QED
    BY <1>1, <1>2, <1>3, <1>4, <1>5, <1>6, <1>7 DEF BaseInv

(* The lock is given back by its holder.                                    *)
LEMMA ScanFailsBase ==
    ASSUME BaseInv, crash = "no", NEW r \in Requests, ScanFails(r)
    PROVE  BaseInv'
<1>1. Types'
    BY DEF BaseInv, ScanFails, Types, Goto, Release, PCs
<1>2. RefInv'
    BY DEF BaseInv, ScanFails, RefInv, Goto, Reserved, Holding, Answered
<1>3. HeaderOnce'
    BY DEF BaseInv, ScanFails, Types, HeaderOnce, Goto, Reading
<1>4. WaiterFreed'
    BY DEF BaseInv, ScanFails, WaiterFreed, ReservedInv, Goto
<1>5. crash' = "no" => LockInv'
    BY NoneAssumption DEF BaseInv, ScanFails, Types, LockInv, Goto, Release,
       InLock
<1>6. crash' = "no" => ReservedInv'
    BY DEF BaseInv, ScanFails, ReservedInv, Goto, OthersPending, TagOf
<1>7. crash' = "no" => ReaderInv'
    BY DEF BaseInv, ScanFails, Types, ReaderInv, Goto
<1> QED
    BY <1>1, <1>2, <1>3, <1>4, <1>5, <1>6, <1>7 DEF BaseInv

(* The tag was free, so a waiter that is there waits for another one.       *)
LEMMA InsertBase ==
    ASSUME BaseInv, crash = "no", NEW r \in Requests, Insert(r)
    PROVE  BaseInv'
<1>1. Types'
  <2>1. PICK t \in FreeTags, n \in FreeNodes : InsertAt(r, t, n)
      BY DEF Insert
  <2>2. [tag |-> t, handle |-> None, len |-> 0, from |-> None] \in States
      BY RespLensAssumption DEF States, FreeTags, Lens
  <2>3. state' \in [Nodes -> States]
      BY <2>1, <2>2 DEF BaseInv, Types, InsertAt, FreeNodes
  <2>4. /\ pending' \in [Tags -> Nodes \cup {None}]
        /\ ref' \in [Requests -> Nodes \cup {None}]
      BY <2>1 DEF BaseInv, Types, InsertAt, FreeTags, FreeNodes
  <2> QED
      BY <2>3, <2>4 DEF BaseInv, Types, Insert, Goto, PCs
<1>2. RefInv'
    BY DEF BaseInv, Insert, Types, RefInv, Goto, InsertAt, FreeNodes
<1>3. HeaderOnce'
    BY DEF BaseInv, Insert, Types, HeaderOnce, Goto, Reading
<1>4. WaiterFreed'
    BY DEF BaseInv, Insert, WaiterFreed, ReservedInv, Goto
<1>5. crash' = "no" => LockInv'
    BY NoneAssumption DEF BaseInv, Insert, Types, LockInv, Goto, InLock
<1>6. crash' = "no" => ReservedInv'
    BY DEF BaseInv, Insert, Types, LockInv, ReservedInv, Goto, InsertAt,
       FreeTags, FreeNodes, OthersPending, TagOf, InLock
<1>7. crash' = "no" => ReaderInv'
    BY DEF BaseInv, Insert, Types, ReaderInv, Goto
<1> QED
    BY <1>1, <1>2, <1>3, <1>4, <1>5, <1>6, <1>7 DEF BaseInv

(* The entry keeps its tag when the handle is stored.                       *)
LEMMA SendBase ==
    ASSUME BaseInv, crash = "no", NEW r \in Requests, Send(r)
    PROVE  BaseInv'
<1>1. Types'
  <2>1. ref[r] \in Nodes
      BY DEF BaseInv, RefInv, Send, Goto, Reserved, Holding
  <2>2. [state[ref[r]] EXCEPT !.handle = r] \in States
      BY <2>1 DEF BaseInv, Types, States
  <2>3. state' \in [Nodes -> States]
      BY <2>2 DEF BaseInv, Types, Send
  <2>4. TagOf(r) \in Tags
      BY <2>1 DEF BaseInv, Types, TagOf, States
  <2>5. sent' \subseteq [from : Requests, tag : Tags]
      BY <2>4 DEF BaseInv, Types, Send
  <2> QED
      BY <2>3, <2>5 DEF BaseInv, Types, Send, Goto, PCs
<1>2. RefInv'
    BY DEF BaseInv, Send, RefInv, Goto, Reserved, Holding
<1>3. HeaderOnce'
    BY DEF BaseInv, Send, Types, HeaderOnce, Goto, Reading
<1>4. WaiterFreed'
    BY DEF BaseInv, Send, WaiterFreed, ReservedInv, Goto
<1>5. crash' = "no" => LockInv'
    BY NoneAssumption DEF BaseInv, Send, Types, LockInv, Goto, InLock
<1>6. crash' = "no" => ReservedInv'
    BY DEF BaseInv, Send, ReservedInv, Goto, OthersPending, TagOf
<1>7. crash' = "no" => ReaderInv'
    BY DEF BaseInv, Send, Types, ReaderInv, Goto
<1> QED
    BY <1>1, <1>2, <1>3, <1>4, <1>5, <1>6, <1>7 DEF BaseInv

(* A request that is alone in the map finds no waiter: one would be there   *)
(* for another entry (line 38).                                             *)
LEMMA SuspendBase ==
    ASSUME BaseInv, crash = "no", NEW r \in Requests, Suspend(r)
    PROVE  BaseInv'
<1>1. Types'
    BY DEF BaseInv, Suspend, Types, Goto, Release, StartWaiter, PCs, Crashes
<1>2. RefInv'
    BY DEF BaseInv, Suspend, RefInv, Goto, Reserved, Holding
<1>3. HeaderOnce'
    BY DEF BaseInv, Suspend, Types, HeaderOnce, Goto, Reading
<1>4. WaiterFreed'
    BY DEF BaseInv, Suspend, WaiterFreed, ReservedInv, StartWaiter, Goto
<1>5. crash' = "no" => LockInv'
    BY NoneAssumption DEF BaseInv, Suspend, Types, LockInv, Goto, Release,
       InLock
<1>6. crash' = "no" => ReservedInv'
    BY NoneAssumption DEF BaseInv, Suspend, Types, RefInv, LockInv,
       ReservedInv, Goto, TagOf, States, InLock, Reserved, Holding
<1>7. crash' = "no" => ReaderInv'
    BY DEF BaseInv, Suspend, ReaderInv, Goto, StartWaiter, ReadInProgress
<1> QED
    BY <1>1, <1>2, <1>3, <1>4, <1>5, <1>6, <1>7 DEF BaseInv

(* The waiter is destroyed and none is started.                             *)
LEMMA ResumeForBodyBase ==
    ASSUME BaseInv, crash = "no", NEW r \in Requests, ResumeForBody(r)
    PROVE  BaseInv'
<1>1. Types'
    BY DEF BaseInv, ResumeForBody, Types, Goto, Acquire, PCs
<1>2. RefInv'
    BY DEF BaseInv, ResumeForBody, RefInv, Goto, Reserved, Holding
<1>3. HeaderOnce'
    BY DEF BaseInv, ResumeForBody, Types, HeaderOnce, Goto, Reading
<1>4. WaiterFreed'
    BY DEF BaseInv, ResumeForBody, WaiterFreed, ReservedInv, Goto
<1>5. crash' = "no" => LockInv'
    BY NoneAssumption DEF BaseInv, ResumeForBody, Types, LockInv, Goto,
       Acquire, InLock
<1>6. crash' = "no" => ReservedInv'
    BY DEF BaseInv, ResumeForBody, ReservedInv, Goto, TagOf
<1>7. crash' = "no" => ReaderInv'
    BY DEF BaseInv, ResumeForBody, Types, ReaderInv, Goto
<1> QED
    BY <1>1, <1>2, <1>3, <1>4, <1>5, <1>6, <1>7 DEF BaseInv

(* A waiter is started only if another entry is left (line 53).             *)
LEMMA ResumeBase ==
    ASSUME BaseInv, crash = "no", NEW r \in Requests, Resume(r)
    PROVE  BaseInv'
<1>1. Types'
    BY DEF BaseInv, Resume, Types, Goto, Acquire, Retire, PCs, Crashes
<1>2. RefInv'
    BY DEF BaseInv, Resume, RefInv, Goto, Reserved, Holding
<1>3. HeaderOnce'
    BY DEF BaseInv, Resume, Types, HeaderOnce, Goto, Reading
<1>4. WaiterFreed'
    BY DEF BaseInv, Resume, WaiterFreed, ReservedInv, Retire, Goto
<1>5. crash' = "no" => LockInv'
    BY NoneAssumption DEF BaseInv, Resume, Types, LockInv, Goto, Acquire,
       InLock
<1>6. crash' = "no" => ReservedInv'
    BY NoneAssumption DEF BaseInv, Resume, LockInv, ReservedInv, Goto,
       Acquire, Retire, InLock
<1>7. crash' = "no" => ReaderInv'
    BY DEF BaseInv, Resume, Types, ReaderInv, Goto, Retire
<1> QED
    BY <1>1, <1>2, <1>3, <1>4, <1>5, <1>6, <1>7 DEF BaseInv

(* The lock is given back by its holder.                                    *)
LEMMA UnlockBase ==
    ASSUME BaseInv, crash = "no", NEW r \in Requests, Unlock(r)
    PROVE  BaseInv'
<1>1. Types'
    BY DEF BaseInv, Unlock, Types, Goto, Release, PCs
<1>2. RefInv'
    BY DEF BaseInv, Unlock, RefInv, Goto, Reserved, Answered
<1>3. HeaderOnce'
    BY DEF BaseInv, Unlock, Types, HeaderOnce, Goto, Reading
<1>4. WaiterFreed'
    BY DEF BaseInv, Unlock, WaiterFreed, ReservedInv, Goto
<1>5. crash' = "no" => LockInv'
    BY NoneAssumption DEF BaseInv, Unlock, Types, LockInv, Goto, Release,
       InLock
<1>6. crash' = "no" => ReservedInv'
    BY DEF BaseInv, Unlock, ReservedInv, Goto, OthersPending, TagOf
<1>7. crash' = "no" => ReaderInv'
    BY DEF BaseInv, Unlock, Types, ReaderInv, Goto
<1> QED
    BY <1>1, <1>2, <1>3, <1>4, <1>5, <1>6, <1>7 DEF BaseInv

(* The read of the freed entry (line 60) changes nothing.                   *)
LEMMA ReturnBase ==
    ASSUME BaseInv, crash = "no", NEW r \in Requests, Return(r)
    PROVE  BaseInv'
<1>1. Types'
    BY DEF BaseInv, Return, Types, Goto, PCs
<1>2. RefInv'
    BY DEF BaseInv, Return, RefInv, Goto, Reserved, Answered
<1>3. HeaderOnce'
    BY DEF BaseInv, Return, Types, HeaderOnce, Goto, Reading
<1>4. WaiterFreed'
    BY DEF BaseInv, Return, WaiterFreed, ReservedInv, Goto
<1>5. crash' = "no" => LockInv'
    BY NoneAssumption DEF BaseInv, Return, Types, LockInv, Goto, InLock
<1>6. crash' = "no" => ReservedInv'
    BY DEF BaseInv, Return, ReservedInv, Goto, OthersPending, TagOf
<1>7. crash' = "no" => ReaderInv'
    BY DEF BaseInv, Return, Types, ReaderInv, Goto
<1> QED
    BY <1>1, <1>2, <1>3, <1>4, <1>5, <1>6, <1>7 DEF BaseInv

(* A request copies its header when it begins to read the body, and if      *)
(* the process goes on nobody else is reading.                              *)
LEMMA StartBodyBase ==
    ASSUME BaseInv, crash = "no", NEW r \in Requests, StartBody(r)
    PROVE  BaseInv'
<1>1. Types'
  <2>1. ref[r] \in Nodes
      BY DEF BaseInv, RefInv, StartBody, Goto, Reserved, Answered
  <2>2. [len |-> state[ref[r]].len, from |-> state[ref[r]].from] \in Headers
      BY <2>1 DEF BaseInv, Types, States, Headers
  <2>3. rh' \in [Requests -> Headers]
      BY <2>2 DEF BaseInv, Types, StartBody
  <2>4. crash' \in Crashes
      BY DEF BaseInv, Types, StartBody, Crashes
  <2> QED
      BY <2>3, <2>4 DEF BaseInv, Types, StartBody, Goto, PCs
<1>2. RefInv'
    BY DEF BaseInv, StartBody, RefInv, Goto, Reserved, Answered
<1>3. HeaderOnce'
    BY DEF BaseInv, StartBody, Types, HeaderOnce, Goto, Reading
<1>4. WaiterFreed'
    BY DEF BaseInv, StartBody, WaiterFreed, ReservedInv, Goto
<1>5. crash' = "no" => LockInv'
    BY NoneAssumption DEF BaseInv, StartBody, Types, LockInv, Goto, InLock
<1>6. crash' = "no" => ReservedInv'
    BY DEF BaseInv, StartBody, ReservedInv, Goto, OthersPending, TagOf
<1>7. crash' = "no" => ReaderInv'
    BY DEF BaseInv, StartBody, Types, ReaderInv, Goto, ReadInProgress
<1> QED
    BY <1>1, <1>2, <1>3, <1>4, <1>5, <1>6, <1>7 DEF BaseInv

(* What was checked when the read began still holds: nobody else takes      *)
(* from the stream.                                                         *)
LEMMA ReadBodyBase ==
    ASSUME BaseInv, crash = "no", NEW r \in Requests, ReadBody(r)
    PROVE  BaseInv'
<1>1. Types'
  <2>1. rh[r].len <= unread.len
      BY DEF BaseInv, ReaderInv, ReadBody, Goto
  <2>2. rh[r].len \in Nat /\ unread.len \in Nat
      BY RespLensAssumption DEF BaseInv, Types, Headers, Lens
  <2>3. unread.len - rh[r].len \in Nat
      BY <2>1, <2>2
  <2>4. unread' \in [len : Nat, tag : Tags]
      BY <2>3 DEF BaseInv, Types, ReadBody
  <2> QED
      BY <2>4 DEF BaseInv, Types, ReadBody, Goto, PCs
<1>2. RefInv'
    BY DEF BaseInv, ReadBody, RefInv, Goto, Reserved, Answered
<1>3. HeaderOnce'
    BY DEF BaseInv, ReadBody, Types, HeaderOnce, Goto, Reading
<1>4. WaiterFreed'
    BY DEF BaseInv, ReadBody, WaiterFreed, ReservedInv, Goto
<1>5. crash' = "no" => LockInv'
    BY NoneAssumption DEF BaseInv, ReadBody, Types, LockInv, Goto, InLock
<1>6. crash' = "no" => ReservedInv'
    BY DEF BaseInv, ReadBody, ReservedInv, Goto, OthersPending, TagOf
<1>7. crash' = "no" => ReaderInv'
    BY DEF BaseInv, ReadBody, Types, ReaderInv, Goto
<1> QED
    BY <1>1, <1>2, <1>3, <1>4, <1>5, <1>6, <1>7 DEF BaseInv

(* The end of a body frees a tag as a response without one does, with the   *)
(* lock free.                                                               *)
LEMMA FinishBodyBase ==
    ASSUME BaseInv, crash = "no", NEW r \in Requests, FinishBody(r)
    PROVE  BaseInv'
<1>1. Types'
    BY DEF BaseInv, FinishBody, Types, Goto, Retire, PCs, Crashes
<1>2. RefInv'
    BY DEF BaseInv, FinishBody, RefInv, Goto, Reserved, Answered
<1>3. HeaderOnce'
    BY DEF BaseInv, FinishBody, Types, HeaderOnce, Goto, Reading
<1>4. WaiterFreed'
    BY DEF BaseInv, FinishBody, WaiterFreed, ReservedInv, Retire, Goto
<1>5. crash' = "no" => LockInv'
    BY NoneAssumption DEF BaseInv, FinishBody, Types, LockInv, Goto, InLock
<1>6. crash' = "no" => ReservedInv'
    BY NoneAssumption DEF BaseInv, FinishBody, LockInv, ReservedInv, Goto,
       Retire, InLock
<1>7. crash' = "no" => ReaderInv'
    BY DEF BaseInv, FinishBody, Types, ReaderInv, Goto, Retire
<1> QED
    BY <1>1, <1>2, <1>3, <1>4, <1>5, <1>6, <1>7 DEF BaseInv

(* A header changes neither the map nor the tag of an entry.                *)
LEMMA ReceiveBase ==
    ASSUME BaseInv, crash = "no", Receive
    PROVE  BaseInv'
<1>1. Types'
  <2>1. PICK m \in replies :
          /\ pending[m.tag] # None
          /\ state' = [state EXCEPT ![pending[m.tag]].len = m.len,
                                   ![pending[m.tag]].from = m.from]
          /\ scheduled' = scheduled \cup {state[pending[m.tag]].handle}
          /\ unread' = [len |-> m.len, tag |-> m.tag]
          /\ replies' = replies \ {m}
      BY DEF Receive
  <2>2. m \in [from : Requests, tag : Tags, len : Lens]
      BY DEF BaseInv, Types
  <2>3. pending[m.tag] \in Nodes
      BY <2>1, <2>2 DEF BaseInv, Types
  <2>4. state[pending[m.tag]] \in States
      BY <2>3 DEF BaseInv, Types
  <2>5. [state[pending[m.tag]] EXCEPT !.len = m.len, !.from = m.from]
           \in States
      BY <2>2, <2>4 DEF States
  <2>6. state' \in [Nodes -> States]
      BY <2>1, <2>5 DEF BaseInv, Types
  <2>7. scheduled' \subseteq Requests \cup {None}
      BY <2>1, <2>4 DEF BaseInv, Types, States
  <2>8. unread' \in [len : Nat, tag : Tags]
      BY <2>1, <2>2, RespLensAssumption DEF Lens
  <2>9. replies' \subseteq [from : Requests, tag : Tags, len : Lens]
      BY <2>1 DEF BaseInv, Types
  <2> QED
      BY <2>6, <2>7, <2>8, <2>9 DEF BaseInv, Types, Receive
<1>2. RefInv'
    BY DEF BaseInv, Receive, RefInv
<1>3. HeaderOnce'
    BY DEF BaseInv, Receive, Types, HeaderOnce, Reading
<1>4. WaiterFreed'
    BY DEF BaseInv, Receive, WaiterFreed, ReservedInv
<1>5. crash' = "no" => LockInv'
    BY NoneAssumption DEF BaseInv, Receive, Types, LockInv, InLock
<1>6. crash' = "no" => ReservedInv'
    BY NoneAssumption DEF BaseInv, Receive, Types, RefInv, LockInv,
       ReservedInv, OthersPending, TagOf, States, Reserved, Holding, Answered
<1>7. crash' = "no" => ReaderInv'
    BY DEF BaseInv, Receive, Types, ReaderInv
<1> QED
    BY <1>1, <1>2, <1>3, <1>4, <1>5, <1>6, <1>7 DEF BaseInv

(* A response has the tag of its request.                                   *)
LEMMA RespondBase ==
    ASSUME BaseInv, crash = "no", Respond
    PROVE  BaseInv'
<1>1. Types'
    BY DEF BaseInv, Respond, Types, Lens
<1>2. RefInv'
    BY DEF BaseInv, Respond, RefInv
<1>3. HeaderOnce'
    BY DEF BaseInv, Respond, Types, HeaderOnce, Reading
<1>4. WaiterFreed'
    BY DEF BaseInv, Respond, WaiterFreed, ReservedInv
<1>5. crash' = "no" => LockInv'
    BY NoneAssumption DEF BaseInv, Respond, Types, LockInv, InLock
<1>6. crash' = "no" => ReservedInv'
    BY DEF BaseInv, Respond, ReservedInv, OthersPending, TagOf
<1>7. crash' = "no" => ReaderInv'
    BY DEF BaseInv, Respond, Types, ReaderInv
<1> QED
    BY <1>1, <1>2, <1>3, <1>4, <1>5, <1>6, <1>7 DEF BaseInv

(* Closing changes nothing but the flag.                                    *)
LEMMA PeerCloseBase ==
    ASSUME BaseInv, crash = "no", PeerClose
    PROVE  BaseInv'
<1>1. Types'
    BY DEF BaseInv, PeerClose, Types
<1>2. RefInv'
    BY DEF BaseInv, PeerClose, RefInv
<1>3. HeaderOnce'
    BY DEF BaseInv, PeerClose, Types, HeaderOnce, Reading
<1>4. WaiterFreed'
    BY DEF BaseInv, PeerClose, WaiterFreed, ReservedInv
<1>5. crash' = "no" => LockInv'
    BY NoneAssumption DEF BaseInv, PeerClose, Types, LockInv, InLock
<1>6. crash' = "no" => ReservedInv'
    BY DEF BaseInv, PeerClose, ReservedInv, OthersPending, TagOf
<1>7. crash' = "no" => ReaderInv'
    BY DEF BaseInv, PeerClose, Types, ReaderInv
<1> QED
    BY <1>1, <1>2, <1>3, <1>4, <1>5, <1>6, <1>7 DEF BaseInv

(* The process ends: what is left to show are the types.                    *)
LEMMA ResumeWithoutWaiterBase ==
    ASSUME BaseInv, crash = "no", NEW r \in Requests, ResumeWithoutWaiter(r)
    PROVE  BaseInv'
<1>1. Types'
    BY DEF BaseInv, ResumeWithoutWaiter, Types, Goto, Acquire, PCs, Crashes
<1>2. RefInv'
    BY DEF BaseInv, ResumeWithoutWaiter, RefInv, Goto, Reserved, Holding
<1>3. HeaderOnce'
    BY DEF BaseInv, ResumeWithoutWaiter, Types, HeaderOnce, Goto, Reading
<1>4. WaiterFreed'
    BY DEF BaseInv, ResumeWithoutWaiter, WaiterFreed
<1>5. crash' # "no"
    BY DEF ResumeWithoutWaiter
<1> QED
    BY <1>1, <1>2, <1>3, <1>4, <1>5 DEF BaseInv

(* The process ends: what is left to show are the types.                    *)
LEMMA FinishBodyWithoutWaiterBase ==
    ASSUME BaseInv, crash = "no", NEW r \in Requests,
           FinishBodyWithoutWaiter(r)
    PROVE  BaseInv'
<1>1. Types'
    BY DEF BaseInv, FinishBodyWithoutWaiter, Types, Goto, Acquire, PCs,
       Crashes
<1>2. RefInv'
    BY DEF BaseInv, FinishBodyWithoutWaiter, RefInv, Goto, Reserved, Answered
<1>3. HeaderOnce'
    BY DEF BaseInv, FinishBodyWithoutWaiter, Types, HeaderOnce, Goto, Reading
<1>4. WaiterFreed'
    BY DEF BaseInv, FinishBodyWithoutWaiter, WaiterFreed
<1>5. crash' # "no"
    BY DEF FinishBodyWithoutWaiter
<1> QED
    BY <1>1, <1>2, <1>3, <1>4, <1>5 DEF BaseInv

(* The process ends and the rest is as it was.                              *)
LEMMA ReceiveUnknownBase ==
    ASSUME BaseInv, crash = "no", ReceiveUnknown
    PROVE  BaseInv'
<1>1. Types'
    BY DEF BaseInv, ReceiveUnknown, Types, Crashes
<1>2. RefInv'
    BY DEF BaseInv, ReceiveUnknown, RefInv
<1>3. HeaderOnce'
    BY DEF BaseInv, ReceiveUnknown, Types, HeaderOnce, Reading
<1>4. WaiterFreed'
    BY DEF BaseInv, ReceiveUnknown, WaiterFreed
<1>5. crash' # "no"
    BY DEF ReceiveUnknown
<1> QED
    BY <1>1, <1>2, <1>3, <1>4, <1>5 DEF BaseInv

(* The process ends and the rest is as it was.                              *)
LEMMA ReceiveRacesBase ==
    ASSUME BaseInv, crash = "no", ReceiveRaces
    PROVE  BaseInv'
<1>1. Types'
    BY DEF BaseInv, ReceiveRaces, Types, Crashes
<1>2. RefInv'
    BY DEF BaseInv, ReceiveRaces, RefInv
<1>3. HeaderOnce'
    BY DEF BaseInv, ReceiveRaces, Types, HeaderOnce, Reading
<1>4. WaiterFreed'
    BY DEF BaseInv, ReceiveRaces, WaiterFreed
<1>5. crash' # "no"
    BY DEF ReceiveRaces
<1> QED
    BY <1>1, <1>2, <1>3, <1>4, <1>5 DEF BaseInv

(* The process ends and the rest is as it was.                              *)
LEMMA ReceiveEndBase ==
    ASSUME BaseInv, crash = "no", ReceiveEnd
    PROVE  BaseInv'
<1>1. Types'
    BY DEF BaseInv, ReceiveEnd, Types, Crashes
<1>2. RefInv'
    BY DEF BaseInv, ReceiveEnd, RefInv
<1>3. HeaderOnce'
    BY DEF BaseInv, ReceiveEnd, Types, HeaderOnce, Reading
<1>4. WaiterFreed'
    BY DEF BaseInv, ReceiveEnd, WaiterFreed
<1>5. crash' # "no"
    BY DEF ReceiveEnd
<1> QED
    BY <1>1, <1>2, <1>3, <1>4, <1>5 DEF BaseInv

-----------------------------------------------------------------------------
(* Every action keeps what holds until a header is misread, or ends it. *)

(* A call that has not reserved a tag yet disturbs nothing.                 *)
LEMMA CallOrderly ==
    ASSUME BaseInv, Orderly, crash = "no", NEW r \in Requests, Call(r)
    PROVE  Orderly'
<1>1. Survives'
    BY DEF Call, Survives
<1>2. EntryInv'
    BY DEF Orderly, Call, EntryInv, Goto, TagOf, Has, OwesBody, Holding,
       Answered
<1>3. MessageInv'
    BY DEF Orderly, Call, MessageInv, Goto, TagOf, Written
<1>4. WaiterInv'
    BY DEF Orderly, Call, WaiterInv, Goto, OwesBody, Written, Answered
<1>5. BodyInv'
    BY DEF Orderly, Call, BodyInv, Goto, OwesBody, Answered, Reading
<1> QED
    BY <1>1, <1>2, <1>3, <1>4, <1>5 DEF Orderly

(* Nor does one that leaves the spin of line 123.                           *)
LEMMA SpinOrderly ==
    ASSUME BaseInv, Orderly, crash = "no", NEW r \in Requests, Spin(r)
    PROVE  Orderly'
<1>1. Survives'
    BY DEF Spin, Survives
<1>2. EntryInv'
    BY DEF Orderly, Spin, EntryInv, Goto, TagOf, Has, OwesBody, Holding,
       Answered
<1>3. MessageInv'
    BY DEF Orderly, Spin, MessageInv, Goto, TagOf, Written
<1>4. WaiterInv'
    BY DEF Orderly, Spin, WaiterInv, Goto, OwesBody, Written, Answered
<1>5. BodyInv'
    BY DEF Orderly, Spin, BodyInv, Goto, OwesBody, Answered, Reading
<1> QED
    BY <1>1, <1>2, <1>3, <1>4, <1>5 DEF Orderly

(* Taking the lock moves no entry and no message.                           *)
LEMMA LockOrderly ==
    ASSUME BaseInv, Orderly, crash = "no", NEW r \in Requests, Lock(r)
    PROVE  Orderly'
<1>1. Survives'
    BY DEF Lock, Survives
<1>2. EntryInv'
    BY DEF Orderly, Lock, EntryInv, Goto, TagOf, Has, OwesBody, Holding,
       Answered
<1>3. MessageInv'
    BY DEF Orderly, Lock, MessageInv, Goto, TagOf, Written
<1>4. WaiterInv'
    BY DEF Orderly, Lock, WaiterInv, Goto, OwesBody, Written, Answered
<1>5. BodyInv'
    BY DEF Orderly, Lock, BodyInv, Goto, OwesBody, Answered, Reading
<1> QED
    BY <1>1, <1>2, <1>3, <1>4, <1>5 DEF Orderly

(* A request that finds no tag leaves the map as it was.                    *)
LEMMA ScanFailsOrderly ==
    ASSUME BaseInv, Orderly, crash = "no", NEW r \in Requests, ScanFails(r)
    PROVE  Orderly'
<1>1. \A s \in Requests : /\ OwesBody(s)' <=> OwesBody(s)
                          /\ Has(s)' <=> Has(s)
                          /\ TagOf(s)' = TagOf(s)
    BY DEF ScanFails, Goto, Has, OwesBody, Holding, Answered, TagOf
<1>2. UNCHANGED <<ref, pending, state, crash>>
    BY DEF ScanFails
<1>3. Survives' /\ EntryInv'
    BY <1>1, <1>2 DEF Orderly, Survives, EntryInv
<1>4. MessageInv'
    BY DEF Orderly, ScanFails, MessageInv, Goto, TagOf, Written
<1>5. WaiterInv'
    BY DEF Orderly, ScanFails, WaiterInv, Goto, OwesBody, Written, Answered
<1>6. BodyInv'
    BY DEF Orderly, ScanFails, BodyInv, Goto, OwesBody, Answered, Reading
<1> QED
    BY <1>3, <1>4, <1>5, <1>6 DEF Orderly

(* reserveRequestState: the new entry is at an address no tag leads to,     *)
(* so it hides nobody's entry, and its tag is free, so no response under    *)
(* way names it.                                                            *)
LEMMA InsertOrderly ==
    ASSUME BaseInv, Orderly, crash = "no", NEW r \in Requests, Insert(r)
    PROVE  Orderly'
<1>1. PICK t \in FreeTags, n \in FreeNodes : InsertAt(r, t, n)
    BY DEF Insert
<1>2. \A s \in Requests \ {r} :
        /\ pc'[s] = pc[s] /\ ref'[s] = ref[s]
        /\ Has(s) => ref[s] # n
    BY DEF BaseInv, Orderly, Types, EntryInv, Insert, Goto, InsertAt,
       FreeNodes, TagOf, States
<1>3. \A s \in Requests : OwesBody(s)' <=> OwesBody(s)
    BY <1>1, <1>2 DEF Insert, Goto, InsertAt, Has, OwesBody, Answered
<1>4. Survives'
    BY DEF Insert, Survives
<1>5. EntryInv'
  <2>1. /\ t \in Tags /\ pending[t] = None /\ n \in Nodes
        /\ pending' = [pending EXCEPT ![t] = n]
        /\ state'[n].tag = t /\ ref'[r] = n
        /\ pc[r] = "scanning" /\ pc'[r] = "reserved"
      BY <1>1 DEF BaseInv, Types, Insert, Goto, InsertAt, FreeTags,
         FreeNodes
  <2>2. Has(r)' /\ ~Has(r) /\ TagOf(r)' = t
      BY <2>1 DEF Has, OwesBody, TagOf, Holding, Answered
  <2>3. \A s \in Requests \ {r} : Has(s)' <=> Has(s)
      BY <1>2, <1>3 DEF Has
  <2>4. \A k \in Nodes \ {n} : state'[k] = state[k]
      BY <1>1 DEF BaseInv, Types, InsertAt
  <2>5. \A s \in Requests \ {r} :
          Has(s) => /\ ref[s] \in Nodes \ {n}
                    /\ TagOf(s)' = TagOf(s)
                    /\ TagOf(s) \in Tags \ {t}
                    /\ pending[TagOf(s)] = ref[s]
    <3> SUFFICES ASSUME NEW s \in Requests \ {r}, Has(s)
                 PROVE  /\ ref[s] \in Nodes \ {n}
                        /\ TagOf(s)' = TagOf(s)
                        /\ TagOf(s) \in Tags \ {t}
                        /\ pending[TagOf(s)] = ref[s]
        OBVIOUS
    <3>1. ref[s] \in Nodes \ {n}
        BY <1>2 DEF BaseInv, RefInv, Has, OwesBody, Reserved
    <3>2. TagOf(s)' = TagOf(s) /\ TagOf(s) \in Tags
        BY <1>2, <2>4, <3>1 DEF BaseInv, Types, TagOf, States
    <3>3. pending[TagOf(s)] = ref[s]
        BY DEF Orderly, EntryInv
    <3> QED
        BY <2>1, <3>1, <3>2, <3>3, NoneAssumption
  <2>6. \A s \in Requests : Has(s)' => pending'[TagOf(s)'] = ref'[s]
      BY <1>2, <2>1, <2>2, <2>3, <2>5 DEF BaseInv, Types
  <2>7. ASSUME NEW u \in Tags, pending'[u] # None
        PROVE  /\ state'[pending'[u]].tag = u
               /\ \E s \in Requests : Has(s)' /\ ref'[s] = pending'[u]
    <3>1. CASE u = t
        BY <2>1, <2>2, <3>1 DEF BaseInv, Types
    <3>2. CASE u # t
      <4>1. pending'[u] = pending[u] /\ pending[u] # None
          BY <2>1, <2>7, <3>2 DEF BaseInv, Types
      <4>2. PICK s \in Requests : Has(s) /\ ref[s] = pending[u]
          BY <4>1 DEF Orderly, EntryInv
      <4>3. s # r
          BY <2>2, <4>2
      <4>4. state'[pending[u]] = state[pending[u]]
          BY <2>4, <2>5, <4>2, <4>3
      <4> QED
          BY <1>2, <2>3, <4>1, <4>2, <4>3, <4>4 DEF Orderly, EntryInv
    <3> QED
        BY <3>1, <3>2
  <2>8. \A s, q \in Requests : Has(s)' /\ Has(q)' /\ ref'[s] = ref'[q] => s = q
      BY <1>2, <2>1, <2>3, <2>5 DEF Orderly, EntryInv
  <2> QED
      BY <2>6, <2>7, <2>8 DEF EntryInv
<1>6. MessageInv'
    BY DEF BaseInv, Types, Orderly, Insert, EntryInv, MessageInv, Goto,
       InsertAt, FreeNodes, TagOf, Has, Written, Holding, States
<1>7. WaiterInv'
    BY <1>1, <1>2, <1>3 DEF Orderly, Insert, WaiterInv, Goto, InsertAt, Has,
       Written, Holding
<1>8. BodyInv'
    BY <1>1, <1>2, <1>3 DEF BaseInv, Types, Orderly, Insert, WaiterInv,
       BodyInv, Goto, InsertAt, FreeNodes, Has, OwesBody, Written, Holding,
       Reading
<1> QED
    BY <1>4, <1>5, <1>6, <1>7, <1>8 DEF Orderly

(* The request is written for the first time: no response of it is under    *)
(* way.                                                                     *)
LEMMA SendOrderly ==
    ASSUME BaseInv, Orderly, crash = "no", NEW r \in Requests, Send(r)
    PROVE  Orderly'
<1>1. Survives'
    BY DEF Send, Survives
<1>2. EntryInv'
    BY DEF Orderly, Send, EntryInv, Goto, TagOf, Has, OwesBody, Holding
<1>3. MessageInv'
    BY DEF BaseInv, Types, RefInv, Orderly, Send, EntryInv, MessageInv,
       WaiterInv, Goto, TagOf, Has, Written, Holding, Reserved
<1>4. WaiterInv'
    BY DEF Orderly, Send, WaiterInv, Goto, OwesBody, Written, Answered
<1>5. BodyInv'
    BY DEF Orderly, Send, BodyInv, Goto, OwesBody, Answered, Reading
<1> QED
    BY <1>1, <1>2, <1>3, <1>4, <1>5 DEF Orderly

(* The one place besides Resume that starts a waiter (lines 37-43): the     *)
(* request is alone in the map exactly if no other request is suspended     *)
(* or has a body to read, and then there is no waiter.                      *)
LEMMA SuspendOrderly ==
    ASSUME BaseInv, Orderly, crash = "no", NEW r \in Requests, Suspend(r)
    PROVE  Orderly'
<1>1. pc[r] = "sending" /\ lock = r /\ Has(r) /\ ref[r] \in Nodes
    BY DEF BaseInv, RefInv, Suspend, Goto, Release, Has, Holding, Reserved
<1>2. ASSUME ~OthersPending(r), NEW s \in Requests, Has(s)
      PROVE  s = r
  <2>1. pending[TagOf(s)] = ref[s] /\ ref[s] \in Nodes
      BY <1>2 DEF BaseInv, Orderly, RefInv, EntryInv, Has, OwesBody, Reserved
  <2>2. TagOf(s) \in Tags
      BY <2>1 DEF BaseInv, Types, TagOf, States
  <2>3. TagOf(s) = TagOf(r)
      BY <1>2, <2>1, <2>2, NoneAssumption DEF OthersPending
  <2>4. ref[s] = ref[r]
      BY <1>1, <2>1, <2>3 DEF Orderly, EntryInv
  <2> QED
      BY <1>1, <1>2, <2>4 DEF Orderly, EntryInv
<1>3. ASSUME OthersPending(r)
      PROVE  \E s \in Requests : pc[s] = "suspended" \/ OwesBody(s)
  <2>1. PICK t \in Tags : t # TagOf(r) /\ pending[t] # None
      BY <1>3 DEF OthersPending
  <2>2. PICK s \in Requests : Has(s) /\ ref[s] = pending[t]
      BY <2>1 DEF Orderly, EntryInv
  <2>3. s # r
      BY <2>1, <2>2 DEF Orderly, EntryInv, TagOf
  <2>4. pc[s] \notin InLock
      BY <1>1, <2>3 DEF BaseInv, LockInv
  <2> QED
      BY <2>2, <2>4 DEF Has, Holding, InLock
<1>4. ~OwesBody(r)
    BY <1>1 DEF OwesBody, Answered
<1>5. \A s \in Requests : OwesBody(s)' <=> OwesBody(s)
    BY <1>1, <1>4 DEF Suspend, Goto, OwesBody, Answered, BaseInv, Types
<1>6. ~OthersPending(r) => waiter = "none" /\ ~ReadInProgress
    BY <1>1, <1>2 DEF Orderly, WaiterInv, BodyInv, Has, Holding,
       ReadInProgress, Reading
<1>7. Survives'
    BY <1>6 DEF Suspend, Survives, StartWaiter
<1>8. EntryInv'
    BY DEF Orderly, Suspend, EntryInv, Goto, TagOf, Has, OwesBody, Holding
<1>9. MessageInv'
    BY DEF Orderly, Suspend, MessageInv, Goto, TagOf, Written
<1>10. WaiterInv'
    BY <1>2, <1>3, <1>6 DEF BaseInv, Types, Orderly, Suspend, WaiterInv, Goto,
       StartWaiter, Has, OwesBody, Written, Answered
<1>11. BodyInv'
    BY <1>2, <1>4, <1>5 DEF Orderly, Suspend, BodyInv, Goto, Has, Reading
<1> QED
    BY <1>7, <1>8, <1>9, <1>10, <1>11 DEF Orderly

(* The tag stays taken and the request has its body to read: no waiter      *)
(* until it is read.                                                        *)
LEMMA ResumeForBodyOrderly ==
    ASSUME BaseInv, Orderly, crash = "no", NEW r \in Requests, ResumeForBody(r)
    PROVE  Orderly'
<1>1. Survives'
    BY DEF ResumeForBody, Survives
<1>2. EntryInv'
    BY DEF Orderly, ResumeForBody, EntryInv, WaiterInv, Goto, TagOf, Has,
       OwesBody, Holding, Answered
<1>3. MessageInv'
    BY DEF Orderly, ResumeForBody, MessageInv, WaiterInv, Goto, TagOf
<1>4. WaiterInv'
    BY DEF BaseInv, Types, Orderly, ResumeForBody, WaiterInv, Goto, OwesBody,
       Answered
<1>5. BodyInv'
    BY DEF BaseInv, Types, Orderly, ResumeForBody, WaiterInv, BodyInv, Goto,
       OwesBody, Answered
<1> QED
    BY <1>1, <1>2, <1>3, <1>4, <1>5 DEF Orderly

(* The resumed request frees its tag and starts the next waiter (lines      *)
(* 47-58): another tag is pending exactly if another request is             *)
(* suspended, for nobody else is in the locked section and nobody has a     *)
(* body to read.                                                            *)
LEMMA ResumeOrderly ==
    ASSUME BaseInv, Orderly, crash = "no", NEW r \in Requests, Resume(r)
    PROVE  Orderly'
<1>1. Survives'
    BY DEF Orderly, Resume, Survives, WaiterInv, BodyInv, Retire, Reading
<1>2. EntryInv'
    BY DEF BaseInv, Types, Orderly, Resume, EntryInv, Goto, Retire, TagOf,
       Has, OwesBody, Holding
<1>3. MessageInv'
    BY DEF Orderly, Resume, MessageInv, WaiterInv, Goto, TagOf
<1>4. WaiterInv'
    BY NoneAssumption DEF BaseInv, Types, RefInv, Orderly, Resume, EntryInv,
       WaiterInv, BodyInv, LockInv, Goto, Acquire, Retire, TagOf, Has,
       OwesBody, Written, Holding, Reserved, Reading, InLock, States, PCs
<1>5. BodyInv'
    BY DEF Orderly, Resume, BodyInv, Goto, OwesBody, Reading
<1> QED
    BY <1>1, <1>2, <1>3, <1>4, <1>5 DEF Orderly

(* The lock is given back by its holder.                                    *)
LEMMA UnlockOrderly ==
    ASSUME BaseInv, Orderly, crash = "no", NEW r \in Requests, Unlock(r)
    PROVE  Orderly'
<1>1. Survives'
    BY DEF Unlock, Survives
<1>2. EntryInv'
    BY DEF Orderly, Unlock, EntryInv, Goto, TagOf, Has, OwesBody, Holding,
       Answered
<1>3. MessageInv'
    BY DEF Orderly, Unlock, MessageInv, Goto, TagOf, Written
<1>4. WaiterInv'
    BY DEF Orderly, Unlock, WaiterInv, Goto, OwesBody, Written, Answered
<1>5. BodyInv'
    BY DEF Orderly, Unlock, BodyInv, Goto, OwesBody, Answered, Reading
<1> QED
    BY <1>1, <1>2, <1>3, <1>4, <1>5 DEF Orderly

(* A request whose entry announces no body has none to read.                *)
LEMMA ReturnOrderly ==
    ASSUME BaseInv, Orderly, crash = "no", NEW r \in Requests, Return(r)
    PROVE  Orderly'
<1>1. Survives'
    BY DEF Return, Survives
<1>2. EntryInv'
    BY DEF Orderly, Return, EntryInv, Goto, TagOf, Has, OwesBody, Holding
<1>3. MessageInv'
    BY DEF Orderly, Return, MessageInv, Goto, TagOf, Written
<1>4. WaiterInv'
    BY DEF Orderly, Return, WaiterInv, Goto, OwesBody, Written
<1>5. BodyInv'
    BY DEF Orderly, Return, BodyInv, Goto, OwesBody, Reading
<1> QED
    BY <1>1, <1>2, <1>3, <1>4, <1>5 DEF Orderly

(* The whole body is read: its length was in the header.                    *)
LEMMA ReadBodyOrderly ==
    ASSUME BaseInv, Orderly, crash = "no", NEW r \in Requests, ReadBody(r)
    PROVE  Orderly'
<1>1. Survives'
    BY DEF ReadBody, Survives
<1>2. EntryInv'
    BY DEF Orderly, ReadBody, EntryInv, BodyInv, Goto, TagOf, Has, OwesBody,
       Holding, Answered
<1>3. MessageInv'
    BY DEF Orderly, ReadBody, MessageInv, Goto, TagOf, Written
<1>4. WaiterInv'
    BY DEF Orderly, ReadBody, WaiterInv, BodyInv, Goto, OwesBody, Written,
       Answered
<1>5. BodyInv'
    BY DEF BaseInv, Types, Orderly, ReadBody, WaiterInv, BodyInv, Goto,
       OwesBody, Answered, Reading
<1> QED
    BY <1>1, <1>2, <1>3, <1>4, <1>5 DEF Orderly

(* A header is taken: its tag is that of the request it answers, and the    *)
(* entry of that tag is the request's own.                                  *)
LEMMA ReceiveOrderly ==
    ASSUME BaseInv, Orderly, crash = "no", Receive
    PROVE  Orderly'
<1>1. PICK m \in replies :
        /\ pending[m.tag] # None
        /\ state' = [state EXCEPT ![pending[m.tag]].len = m.len,
                                 ![pending[m.tag]].from = m.from]
        /\ scheduled' = scheduled \cup {state[pending[m.tag]].handle}
        /\ unread' = [len |-> m.len, tag |-> m.tag]
        /\ replies' = replies \ {m}
    BY DEF Receive
<1>2. m \in [from : Requests, tag : Tags, len : Lens] /\ pc[m.from] \in Written
    BY DEF BaseInv, Types, Orderly, MessageInv
<1>3. pending[m.tag] = ref[m.from] /\ ref[m.from] \in Nodes
    BY <1>2 DEF BaseInv, RefInv, Orderly, EntryInv, MessageInv, Has, Written,
       Holding, Reserved
<1>4. \A k \in Nodes : /\ state'[k].tag = state[k].tag
                       /\ state'[k].handle = state[k].handle
    BY <1>1 DEF BaseInv, Types, States
<1>5. state'[ref[m.from]].from = m.from /\ state'[ref[m.from]].len = m.len
    BY <1>1, <1>3 DEF BaseInv, Types, States
<1>6. \A k \in Nodes \ {ref[m.from]} : state'[k] = state[k]
    BY <1>1, <1>3 DEF BaseInv, Types
<1>7. \A s \in Requests : ~OwesBody(s) /\ ~OwesBody(s)'
  <2> SUFFICES ASSUME NEW s \in Requests
               PROVE  ~OwesBody(s) /\ ~OwesBody(s)'
      OBVIOUS
  <2>1. ~OwesBody(s) /\ pc' = pc /\ ref' = ref
      BY DEF Orderly, WaiterInv, Receive
  <2>2. CASE pc[s] \notin Answered
      BY <2>1, <2>2 DEF OwesBody
  <2>3. CASE pc[s] \in Answered
    <3>1. ref[s] \in Nodes /\ m.from # s
        BY <1>2, <2>3 DEF BaseInv, RefInv, Reserved, Written, Answered
    <3>2. state'[ref[s]].from = s => state'[ref[s]] = state[ref[s]]
        BY <1>5, <1>6, <3>1
    <3> QED
        BY <2>1, <2>3, <3>2 DEF OwesBody
  <2> QED
      BY <2>2, <2>3
<1>8. /\ UNCHANGED <<pc, ref, rh, pending, sent>>
      /\ waiter = "reading" /\ waiter' = "parked"
    BY DEF Receive
<1>9. scheduled = {} /\ scheduled' = {m.from}
    BY <1>1, <1>2, <1>3 DEF Orderly, WaiterInv, MessageInv, Receive
<1>10. \A s \in Requests : Has(s)' <=> Has(s)
    BY <1>7, <1>8 DEF Has
<1>11. \A s \in Requests : pc[s] \in Reserved => TagOf(s)' = TagOf(s)
    BY <1>4, <1>8 DEF BaseInv, RefInv, TagOf
<1>12. \A s \in Requests : Has(s) => pc[s] \in Reserved
    BY DEF Has, OwesBody, Reserved
<1>13. Survives'
    BY DEF Receive, Orderly, Survives
<1>14. EntryInv'
    BY <1>4, <1>8, <1>10, <1>11, <1>12 DEF BaseInv, Types, Orderly, EntryInv
<1>15. MessageInv'
  <2>1. \A s \in Requests : pc'[s] \in Written => state'[ref'[s]].handle = s
      BY <1>4, <1>8 DEF BaseInv, RefInv, Orderly, MessageInv, Reserved,
         Holding, Written
  <2>2. \A p \in sent' \cup replies' :
          /\ p \in sent \cup replies /\ p.from # m.from
          /\ p.from \in Requests /\ pc[p.from] \in Written
      BY <1>1, <1>8 DEF BaseInv, Types, Orderly, MessageInv
  <2>3. \A p \in sent' \cup replies' : p.tag = TagOf(p.from)'
      BY <1>11, <2>2 DEF Orderly, MessageInv, Reserved, Holding, Written
  <2>4. \A p \in sent' \cup replies' : p.from \notin scheduled'
      BY <1>9, <2>2
  <2>5. /\ \A q \in sent', p \in replies' : q.from # p.from
        /\ \A p, q \in replies' : p.from = q.from => p = q
      BY <1>1, <1>8 DEF Orderly, MessageInv
  <2> QED
      BY <1>8, <2>1, <2>2, <2>3, <2>4, <2>5 DEF MessageInv
<1>16. WaiterInv'
    BY <1>2, <1>5, <1>7, <1>8, <1>9 DEF Orderly, WaiterInv
<1>17. BodyInv'
  <2>1. \A s \in Requests : pc'[s] \notin Reading
      BY <1>7, <1>8 DEF Orderly, BodyInv
  <2>2. \A k \in Nodes : state'[k].from = None => state'[k].len = 0
      BY <1>2, <1>5, <1>6, NoneAssumption DEF Orderly, BodyInv
  <2> QED
      BY <1>1, <1>5, <1>7, <1>8, <1>9, <2>1, <2>2 DEF BodyInv, Reading
<1> QED
    BY <1>13, <1>14, <1>15, <1>16, <1>17 DEF Orderly

(* The server answers a request that is written, with its tag.              *)
LEMMA RespondOrderly ==
    ASSUME BaseInv, Orderly, crash = "no", Respond
    PROVE  Orderly'
<1>1. Survives'
    BY DEF Respond, Survives
<1>2. EntryInv'
    BY DEF Orderly, Respond, EntryInv, TagOf, Has, OwesBody
<1>3. MessageInv'
    BY DEF BaseInv, Types, Orderly, Respond, MessageInv, TagOf
<1>4. WaiterInv'
    BY DEF Orderly, Respond, WaiterInv, OwesBody
<1>5. BodyInv'
    BY DEF Orderly, Respond, BodyInv, OwesBody
<1> QED
    BY <1>1, <1>2, <1>3, <1>4, <1>5 DEF Orderly

(* Closing changes nothing but the flag.                                    *)
LEMMA PeerCloseOrderly ==
    ASSUME BaseInv, Orderly, crash = "no", PeerClose
    PROVE  Orderly'
<1>1. Survives'
    BY DEF PeerClose, Survives
<1>2. EntryInv'
    BY DEF Orderly, PeerClose, EntryInv, TagOf, Has, OwesBody
<1>3. MessageInv'
    BY DEF Orderly, PeerClose, MessageInv, TagOf
<1>4. WaiterInv'
    BY DEF Orderly, PeerClose, WaiterInv, OwesBody
<1>5. BodyInv'
    BY DEF Orderly, PeerClose, BodyInv, OwesBody
<1> QED
    BY <1>1, <1>2, <1>3, <1>4, <1>5 DEF Orderly

(* The end of the process leaves the rest as it was.                        *)
LEMMA ReceiveRacesOrderly ==
    ASSUME BaseInv, Orderly, crash = "no", ReceiveRaces
    PROVE  Orderly'
<1>1. Survives'
    BY DEF ReceiveRaces, Survives
<1>2. EntryInv'
    BY DEF Orderly, ReceiveRaces, EntryInv, TagOf, Has, OwesBody
<1>3. MessageInv'
    BY DEF Orderly, ReceiveRaces, MessageInv, TagOf
<1>4. WaiterInv'
    BY DEF Orderly, ReceiveRaces, WaiterInv, OwesBody
<1>5. BodyInv'
    BY DEF Orderly, ReceiveRaces, BodyInv, OwesBody
<1> QED
    BY <1>1, <1>2, <1>3, <1>4, <1>5 DEF Orderly

(* The end of the process leaves the rest as it was.                        *)
LEMMA ReceiveEndOrderly ==
    ASSUME BaseInv, Orderly, crash = "no", ReceiveEnd
    PROVE  Orderly'
<1>1. Survives'
    BY DEF ReceiveEnd, Survives
<1>2. EntryInv'
    BY DEF Orderly, ReceiveEnd, EntryInv, TagOf, Has, OwesBody
<1>3. MessageInv'
    BY DEF Orderly, ReceiveEnd, MessageInv, TagOf
<1>4. WaiterInv'
    BY DEF Orderly, ReceiveEnd, WaiterInv, OwesBody
<1>5. BodyInv'
    BY DEF Orderly, ReceiveEnd, BodyInv, OwesBody
<1> QED
    BY <1>1, <1>2, <1>3, <1>4, <1>5 DEF Orderly

-----------------------------------------------------------------------------
(* Where bodies come in, and what cannot happen before. *)

(* The stale read of line 60: either the header is the request's own, and   *)
(* then the body is the one that is unread and nobody else reads, or it     *)
(* is misread.                                                              *)
LEMMA StartBodyOrderly ==
    ASSUME BaseInv, Orderly, crash = "no", NEW r \in Requests, StartBody(r)
    PROVE  Orderly' \/ Misread'
<1>1. rh'[r].from = state[ref[r]].from /\ rh'[r].len = state[ref[r]].len
    BY DEF BaseInv, Types, StartBody
<1>2. ref[r] \in Nodes /\ pc[r] = "returning" /\ state[ref[r]].len # 0
    BY DEF BaseInv, RefInv, StartBody, Goto, Reserved, Answered
<1>3. state[ref[r]].from # None
    BY <1>2 DEF Orderly, BodyInv
<1>4. CASE state[ref[r]].from # r
    BY <1>1, <1>3, <1>4 DEF Misread
<1>5. CASE state[ref[r]].from = r
  <2>1. OwesBody(r) /\ unread.len = state[ref[r]].len /\ ~ReadInProgress
      BY <1>2, <1>5 DEF Orderly, BodyInv, OwesBody, Answered, ReadInProgress,
         Reading
  <2>2. unread.len \in Nat
      BY DEF BaseInv, Types
  <2>3. crash' = crash
      BY <2>1, <2>2 DEF StartBody
  <2>4. \A s \in Requests : /\ OwesBody(s)' <=> OwesBody(s)
                            /\ Has(s)' <=> Has(s)
                            /\ TagOf(s)' = TagOf(s)
      BY DEF StartBody, Goto, OwesBody, Has, TagOf, Answered, Holding
  <2>5. Survives' /\ EntryInv'
      BY <2>3, <2>4 DEF Orderly, Survives, EntryInv, StartBody
  <2>6. MessageInv'
      BY <2>4 DEF BaseInv, Types, Orderly, MessageInv, StartBody, Goto,
         Written
  <2>7. WaiterInv'
      BY <2>4 DEF Orderly, WaiterInv, StartBody, Goto, Written
  <2>8. BodyInv'
      BY <1>1, <2>1, <2>4 DEF Orderly, BodyInv, StartBody, Goto
  <2> QED
      BY <2>5, <2>6, <2>7, <2>8 DEF Orderly
<1> QED
    BY <1>4, <1>5

(* The first body that is read to its end ends the process (line 88).       *)
LEMMA FinishBodyStuck ==
    ASSUME Orderly, NEW r \in Requests, FinishBodyWithoutWaiter(r)
    PROVE  Stuck'
BY DEF Orderly, WaiterInv, FinishBodyWithoutWaiter, Stuck

(* No response under way names a free tag: UnknownResponseException is      *)
(* not thrown (line 105).                                                   *)
LEMMA NoReceiveUnknown ==
    ASSUME BaseInv, Orderly
    PROVE  ~ReceiveUnknown
BY NoneAssumption DEF BaseInv, Types, RefInv, Orderly, ReceiveUnknown,
   EntryInv, MessageInv, Has, Reserved, Holding, Written

(* A request that is scheduled finds the waiter parked (line 48).           *)
LEMMA NoResumeWithoutWaiter ==
    ASSUME Orderly, NEW r \in Requests
    PROVE  ~ResumeWithoutWaiter(r)
BY DEF Orderly, ResumeWithoutWaiter, WaiterInv

(* Nobody parks while a body is being read.                                 *)
LEMMA NoFinishBody ==
    ASSUME Orderly, NEW r \in Requests
    PROVE  ~FinishBody(r)
BY DEF Orderly, FinishBody, Goto, WaiterInv, BodyInv, Reading
-----------------------------------------------------------------------------
(* Before the first call nothing is reserved, written or scheduled. *)
LEMMA InitIInv ==
    ASSUME Init
    PROVE  BaseInv /\ Orderly
<1>1. Types
  <2>1. 0 \in Tags /\ 0 \in Lens
      BY MaxTagsAssumption, RespLensAssumption DEF Tags, Lens
  <2>2. [tag |-> 0, handle |-> None, len |-> 0, from |-> None] \in States
      BY <2>1 DEF States
  <2>3. state \in [Nodes -> States]
      BY <2>2 DEF Init
  <2>4. [len |-> 0, from |-> None] \in Headers
      BY <2>1 DEF Headers
  <2>5. rh \in [Requests -> Headers] /\ unread \in [len : Nat, tag : Tags]
      BY <2>1, <2>4 DEF Init
  <2> QED
      BY <2>3, <2>5 DEF Init, Types, PCs, Crashes
<1>2. RefInv /\ HeaderOnce /\ WaiterFreed
    BY DEF Init, RefInv, HeaderOnce, WaiterFreed, Reserved, Holding, Answered
<1>3. LockInv /\ ReservedInv /\ ReaderInv
    BY NoneAssumption DEF Init, LockInv, ReservedInv, ReaderInv, InLock
<1>4. \A r \in Requests : ~Has(r) /\ ~OwesBody(r)
    BY DEF Init, Has, OwesBody, Holding, Answered
<1>5. Survives /\ EntryInv /\ MessageInv
    BY <1>4 DEF Init, Survives, EntryInv, MessageInv, Written
<1>6. WaiterInv /\ BodyInv
    BY <1>4 DEF Init, WaiterInv, BodyInv, Reading
<1> QED
    BY <1>1, <1>2, <1>3, <1>5, <1>6 DEF BaseInv, Orderly

(* Every step of a request keeps what holds in any state. *)
LEMMA StepBase ==
    ASSUME BaseInv, crash = "no", NEW r \in Requests, Step(r)
    PROVE  BaseInv'
<1>1. CASE Call(r) \/ Spin(r) \/ Lock(r) \/ ScanFails(r) \/ Insert(r)
    BY <1>1, CallBase, SpinBase, LockBase, ScanFailsBase, InsertBase
<1>2. CASE Send(r) \/ Suspend(r)
    BY <1>2, SendBase, SuspendBase
<1>3. CASE ResumeWithoutWaiter(r) \/ ResumeForBody(r) \/ Resume(r)
    BY <1>3, ResumeWithoutWaiterBase, ResumeForBodyBase, ResumeBase
<1>4. CASE Unlock(r) \/ Return(r)
    BY <1>4, UnlockBase, ReturnBase
<1>5. CASE StartBody(r) \/ ReadBody(r)
    BY <1>5, StartBodyBase, ReadBodyBase
<1>6. CASE FinishBodyWithoutWaiter(r) \/ FinishBody(r)
    BY <1>6, FinishBodyWithoutWaiterBase, FinishBodyBase
<1> QED
    BY <1>1, <1>2, <1>3, <1>4, <1>5, <1>6 DEF Step

(* Every step of the connection does. *)
LEMMA NextBase ==
    ASSUME BaseInv, [Next]_vars
    PROVE  BaseInv'
<1>1. CASE UNCHANGED vars
    BY <1>1 DEF vars, BaseInv, Types, RefInv, HeaderOnce, WaiterFreed,
       LockInv, ReservedInv, ReaderInv, OthersPending, TagOf
<1>2. CASE crash = "no" /\ \E r \in Requests : Step(r)
    BY <1>2, StepBase
<1>3. CASE crash = "no" /\ Waiter
    BY <1>3, ReceiveBase, ReceiveUnknownBase, ReceiveRacesBase, ReceiveEndBase
       DEF Waiter
<1>4. CASE crash = "no" /\ (Respond \/ PeerClose)
    BY <1>4, RespondBase, PeerCloseBase
<1> QED
    BY <1>1, <1>2, <1>3, <1>4 DEF Next

(* A request copies one header in its life, so what was misread stays so. *)
LEMMA MisreadStays ==
    ASSUME BaseInv, [Next]_vars, Misread
    PROVE  Misread'
<1>1. CASE UNCHANGED rh
    BY <1>1 DEF Misread
<1>2. ASSUME NEW r \in Requests, StartBody(r)
      PROVE  Misread'
  <2>1. PICK s \in Requests : rh[s].from \notin {s, None}
      BY DEF Misread
  <2>2. pc[r] = "returning"
      BY <1>2 DEF StartBody, Goto
  <2>3. s # r
      BY <2>1, <2>2 DEF BaseInv, HeaderOnce, Reading
  <2>4. rh'[s] = rh[s]
      BY <1>2, <2>3 DEF StartBody, BaseInv, Types
  <2> QED
      BY <2>1, <2>4 DEF Misread
<1>3. ASSUME NEW r \in Requests, Step(r), ~StartBody(r)
      PROVE  UNCHANGED rh
    BY <1>3 DEF Step, Call, Spin, Lock, ScanFails, Insert, Send, Suspend,
       ResumeWithoutWaiter, ResumeForBody, Resume, Unlock, Return, ReadBody,
       FinishBodyWithoutWaiter, FinishBody
<1>4. CASE Waiter \/ Respond \/ PeerClose \/ UNCHANGED vars
    BY <1>1, <1>4 DEF Waiter, Receive, ReceiveUnknown, ReceiveRaces,
       ReceiveEnd, Respond, PeerClose, vars
<1> QED
    BY <1>1, <1>2, <1>3, <1>4 DEF Next

(* The hand-over stays orderly as long as no body is read. *)
LEMMA StepOrderly ==
    ASSUME BaseInv, Orderly, crash = "no", NEW r \in Requests, Step(r),
           ~StartBody(r), ~FinishBodyWithoutWaiter(r)
    PROVE  Orderly'
<1>1. CASE Call(r) \/ Spin(r) \/ Lock(r) \/ ScanFails(r) \/ Insert(r)
    BY <1>1, CallOrderly, SpinOrderly, LockOrderly, ScanFailsOrderly,
       InsertOrderly
<1>2. CASE Send(r) \/ Suspend(r)
    BY <1>2, SendOrderly, SuspendOrderly
<1>3. CASE ResumeForBody(r) \/ Resume(r)
    BY <1>3, ResumeForBodyOrderly, ResumeOrderly
<1>4. CASE Unlock(r) \/ Return(r) \/ ReadBody(r)
    BY <1>4, UnlockOrderly, ReturnOrderly, ReadBodyOrderly
<1>5. ~ResumeWithoutWaiter(r) /\ ~FinishBody(r)
    BY NoResumeWithoutWaiter, NoFinishBody
<1> QED
    BY <1>1, <1>2, <1>3, <1>4, <1>5 DEF Step

(* The waiter and the peer never disturb it. *)
LEMMA OthersOrderly ==
    ASSUME BaseInv, Orderly,
           \/ crash = "no" /\ (Waiter \/ Respond \/ PeerClose)
           \/ UNCHANGED vars
    PROVE  Orderly'
<1>1. CASE crash = "no" /\ Waiter
    BY <1>1, ReceiveOrderly, NoReceiveUnknown, ReceiveRacesOrderly,
       ReceiveEndOrderly DEF Waiter
<1>2. CASE crash = "no" /\ (Respond \/ PeerClose)
    BY <1>2, RespondOrderly, PeerCloseOrderly
<1>3. CASE UNCHANGED vars
    BY <1>3 DEF vars, Orderly, Survives, EntryInv, MessageInv, WaiterInv,
       BodyInv, Has, OwesBody, TagOf
<1> QED
    BY <1>1, <1>2, <1>3

(* Disorder begins with a misread header, or the process ends at the end of *)
(* the first body.                                                          *)
LEMMA NextKeeps ==
    ASSUME IInv, [Next]_vars
    PROVE  IInv'
<1>1. BaseInv'
    BY NextBase DEF IInv
<1>2. CASE Misread
    BY <1>1, <1>2, MisreadStays DEF IInv
<1>3. CASE Stuck
  <2>1. UNCHANGED vars
      BY <1>3 DEF Next, Stuck
  <2> QED
      BY <1>1, <1>3, <2>1 DEF IInv, Stuck, vars
<1>4. CASE Orderly
  <2>1. CASE crash = "no" /\ \E r \in Requests : Step(r)
    <3>1. PICK r \in Requests : Step(r)
        BY <2>1
    <3>2. CASE StartBody(r)
        BY <1>1, <1>4, <2>1, <3>2, StartBodyOrderly DEF IInv
    <3>3. CASE FinishBodyWithoutWaiter(r)
        BY <1>1, <1>4, <3>3, FinishBodyStuck DEF IInv
    <3>4. CASE ~StartBody(r) /\ ~FinishBodyWithoutWaiter(r)
        BY <1>1, <1>4, <2>1, <3>1, <3>4, StepOrderly DEF IInv
    <3> QED
        BY <3>2, <3>3, <3>4
  <2>2. CASE \/ crash = "no" /\ (Waiter \/ Respond \/ PeerClose)
             \/ UNCHANGED vars
      BY <1>1, <1>4, <2>2, OthersOrderly DEF IInv
  <2> QED
      BY <2>1, <2>2 DEF Next
<1> QED
    BY <1>2, <1>3, <1>4 DEF IInv

(* For any number of callers, tags and addresses and bodies of any length,  *)
(* the connection stays in the states IInv describes.                       *)
THEOREM Invariance == Spec => []IInv
<1>1. Init => IInv
    BY InitIInv DEF IInv
<1>2. IInv /\ [Next]_vars => IInv'
    BY NextKeeps
<1> QED
    BY <1>1, <1>2, PTL DEF Spec

-----------------------------------------------------------------------------
(* Every variable has its type; only a request whose handle was stored is   *)
(* scheduled (line 32), unless a header was misread.                        *)
THEOREM TypeCorrect == Spec => []TypeOK
<1>1. IInv => TypeOK
    BY NoneAssumption DEF IInv, BaseInv, TypeOK, Orderly, WaiterInv, Stuck
<1> QED
    BY <1>1, Invariance, PTL

(* A request that is alone in the map finds no waiter: the assertion of     *)
(* ClientTransport.cpp:38 holds, whatever was misread.                      *)
THEOREM WaiterAlwaysFreed == Spec => []WaiterFreed
<1>1. IInv => WaiterFreed
    BY DEF IInv, BaseInv
<1> QED
    BY <1>1, Invariance, PTL

(* A server that answers what it was asked is understood until a header is  *)
(* misread: the exception of line 105 is not thrown before.                 *)
THEOREM ResponsesExpected == Spec => []ResponseExpected
<1>1. IInv => ResponseExpected
    BY DEF IInv, Orderly, Survives, Stuck, ResponseExpected
<1> QED
    BY <1>1, Invariance, PTL

(* The waiter reads a header only where one starts, whatever the lengths of *)
(* the bodies, until a header is misread (lines 84-94).                     *)
THEOREM HeadersAligned == Spec => []HeaderAligned
<1>1. IInv => HeaderAligned
    BY DEF IInv, Orderly, BodyInv, Stuck, HeaderAligned
<1> QED
    BY <1>1, Invariance, PTL

(* The stale read of line 60 is the only way to two readers of the socket   *)
(* (PlainSocketTransport.cpp:85) and to a response handed to the wrong call. *)
THEOREM SoundUntilMisread ==
    Spec => []OrderUntilMisread
<1>1. IInv => OrderUntilMisread
    BY DEF OrderUntilMisread, IInv, Orderly, Survives, WaiterInv, Stuck,
       ReadExclusive, OwnResponse
<1> QED
    BY <1>1, Invariance, PTL

-----------------------------------------------------------------------------
(* Responses without a body, which is what the handlers of the repository   *)
(* answer: nobody starts to read one, and the hand-over is orderly forever. *)

PlainInv ==
    /\ BaseInv
    /\ Orderly
    /\ \A r \in Requests : pc[r] \notin Reading

(* Without bodies every request takes the branch of line 51. *)
LEMMA NoResumeForBody ==
    ASSUME RespLens = {0}, BaseInv, NEW r \in Requests
    PROVE  ~ResumeForBody(r)
BY DEF BaseInv, Types, RefInv, ResumeForBody, Goto, Lens, States, Reserved,
   Holding

(* Without bodies no header, not even that of a freed entry, announces one. *)
LEMMA NoStartBody ==
    ASSUME RespLens = {0}, BaseInv, NEW r \in Requests
    PROVE  ~StartBody(r)
BY DEF BaseInv, Types, RefInv, StartBody, Goto, Lens, States, Reserved,
   Answered

(* Nobody is inside rawRead's body, so nobody leaves it. *)
LEMMA NoBodyStep ==
    ASSUME PlainInv, NEW r \in Requests
    PROVE  ~ReadBody(r) /\ ~FinishBodyWithoutWaiter(r) /\ ~FinishBody(r)
BY DEF PlainInv, ReadBody, Goto, FinishBodyWithoutWaiter, FinishBody, Reading

(* No step starts to read a body. *)
LEMMA PlainKeeps ==
    ASSUME RespLens = {0}, PlainInv, [Next]_vars
    PROVE  PlainInv'
<1>1. BaseInv'
    BY NextBase DEF PlainInv
<1>2. CASE crash = "no" /\ \E r \in Requests : Step(r)
  <2>1. PICK r \in Requests : Step(r)
      BY <1>2
  <2>2. ~StartBody(r) /\ ~FinishBodyWithoutWaiter(r) /\ ~ReadBody(r)
      BY NoStartBody, NoBodyStep DEF PlainInv
  <2>3. Orderly'
      BY <1>2, <2>1, <2>2, StepOrderly DEF PlainInv
  <2>4. \E to \in PCs \ Reading : pc' = [pc EXCEPT ![r] = to]
      BY <2>1, <2>2 DEF Step, Call, Spin, Lock, ScanFails, Insert, Send,
         Suspend, ResumeWithoutWaiter, ResumeForBody, Resume, Unlock, Return,
         FinishBody, Goto, PCs, Reading
  <2>5. \A s \in Requests : pc'[s] \notin Reading
      BY <2>4 DEF PlainInv, BaseInv, Types
  <2> QED
      BY <1>1, <2>3, <2>5 DEF PlainInv
<1>3. CASE \/ crash = "no" /\ (Waiter \/ Respond \/ PeerClose)
           \/ UNCHANGED vars
  <2>1. Orderly'
      BY <1>3, OthersOrderly DEF PlainInv
  <2>2. pc' = pc
      BY <1>3 DEF Waiter, Receive, ReceiveUnknown, ReceiveRaces, ReceiveEnd,
         Respond, PeerClose, vars
  <2> QED
      BY <1>1, <2>1, <2>2 DEF PlainInv
<1> QED
    BY <1>2, <1>3 DEF Next

(* With responses that have no body, whatever the number of callers and of  *)
(* tags, the hand-over of the read side stays orderly.                      *)
THEOREM PlainInvariance ==
    ASSUME RespLens = {0}
    PROVE  Spec => []PlainInv
<1>1. Init => PlainInv
    BY InitIInv DEF PlainInv, Init, Reading
<1>2. PlainInv /\ [Next]_vars => PlainInv'
    BY PlainKeeps
<1> QED
    BY <1>1, <1>2, PTL DEF Spec

(* The socket is read by one coroutine at a time: the assertion of          *)
(* PlainSocketTransport.cpp:85 holds.                                       *)
THEOREM OneReader ==
    ASSUME RespLens = {0}
    PROVE  Spec => []ReadExclusive
<1>1. PlainInv => ReadExclusive
    BY DEF PlainInv, Orderly, Survives, ReadExclusive
<1> QED
    BY <1>1, PlainInvariance, PTL

(* A resumed request always finds the parked waiter to destroy (line 48).   *)
THEOREM WaiterAlwaysPresent ==
    ASSUME RespLens = {0}
    PROVE  Spec => []WaiterPresent
<1>1. PlainInv => WaiterPresent
    BY DEF PlainInv, Orderly, Survives, WaiterPresent
<1> QED
    BY <1>1, PlainInvariance, PTL

(* A request is resumed with its own response, under any reuse of tags and  *)
(* of the addresses of map entries.                                         *)
THEOREM ResponsesOwn ==
    ASSUME RespLens = {0}
    PROVE  Spec => []OwnResponse
<1>1. PlainInv => OwnResponse
    BY DEF PlainInv, Orderly, WaiterInv, OwnResponse
<1> QED
    BY <1>1, PlainInvariance, PTL

(* Whenever nobody is inside the lock, a pending request has a waiter: the  *)
(* hand-over strands no request.                                            *)
THEOREM NobodyStranded ==
    ASSUME RespLens = {0}
    PROVE  Spec => []NoStrandedRequest
<1>1. ASSUME PlainInv, \A r \in Requests : ~OwesBody(r), crash = "no",
             lock = None, NEW t \in Tags, pending[t] # None
      PROVE  waiter # "none"
  <2>1. PICK r \in Requests : pc[r] \in Holding
      BY <1>1 DEF PlainInv, Orderly, EntryInv, Has
  <2>2. pc[r] \notin InLock
      BY <1>1, NoneAssumption DEF PlainInv, BaseInv, LockInv
  <2>3. pc[r] = "suspended"
      BY <2>1, <2>2 DEF Holding, InLock
  <2> QED
      BY <1>1, <2>3 DEF PlainInv, Orderly, WaiterInv
<1>2. PlainInv => \A r \in Requests : ~OwesBody(r)
    BY DEF PlainInv, BaseInv, Types, RefInv, OwesBody, Lens, States, Reserved
<1>3. PlainInv => NoStrandedRequest
    BY <1>1, <1>2 DEF NoStrandedRequest
<1> QED
    BY <1>3, PlainInvariance, PTL

(* With every tag in use there are at least as many requests that hold one  *)
(* as there are tags: each entry of the map has its own request.            *)
LEMMA TagHolders ==
    ASSUME Types, EntryInv, IsFiniteSet(Requests), FreeTags = {}
    PROVE  MaxTags <= Cardinality({r \in Requests : Has(r)})
<1> DEFINE Holders == {r \in Requests : Has(r)}
           holder == [t \in Tags |->
                        CHOOSE r \in Requests : Has(r) /\ ref[r] = pending[t]]
<1>1. ASSUME NEW t \in Tags
      PROVE  /\ holder[t] \in Holders
             /\ ref[holder[t]] = pending[t]
             /\ state[pending[t]].tag = t
    BY <1>1 DEF EntryInv, FreeTags
<1>2. holder \in [Tags -> Holders]
    BY <1>1
<1>3. \A t, u \in Tags : holder[t] = holder[u] => t = u
    BY <1>1
<1>4. holder \in Injection(Tags, Holders)
    BY <1>2, <1>3 DEF Injection, IsInjective
<1>5. IsFiniteSet(Holders)
    BY FS_Subset
<1>6. Cardinality(Tags) <= Cardinality(Holders)
    BY <1>4, <1>5, FS_Injection
<1>7. Cardinality(0 .. MaxTags - 1) = MaxTags
    BY MaxTagsAssumption, FS_Interval
<1> QED
    BY <1>6, <1>7 DEF Tags

(* As long as fewer calls are under way than there are tags and workers     *)
(* together, the spin of line 123 does not take the last worker.            *)
THEOREM WorkersSuffice ==
    ASSUME RespLens = {0}, IsFiniteSet(Requests)
    PROVE  Spec => []EnoughWorkers
<1>1. ASSUME PlainInv, Starved
      PROVE  Cardinality({r \in Requests : pc[r] \notin {"idle", "done"}})
                >= MaxTags + Workers
  <2> DEFINE Holders == {r \in Requests : Has(r)}
             Spinning == {r \in Requests : pc[r] = "reserving"}
             Active == {r \in Requests : pc[r] \notin {"idle", "done"}}
  <2>1. MaxTags <= Cardinality(Holders)
      BY <1>1, TagHolders DEF PlainInv, BaseInv, Orderly, Starved
  <2>2. Workers <= Cardinality(Spinning)
    <3>1. Cardinality(Spinning) \in Nat
        BY FS_Subset, FS_CardinalityType
    <3> QED
        BY <1>1, <3>1, WorkersAssumption DEF Starved
  <2>3. \A r \in Requests :
           Has(r) => pc[r] \notin {"idle", "reserving", "done"}
      BY DEF Has, OwesBody, Holding, Answered
  <2>4. /\ Holders \cap Spinning = {}
        /\ Holders \cup Spinning \subseteq Active
      BY <2>3
  <2>5. IsFiniteSet(Active) /\ IsFiniteSet(Holders) /\ IsFiniteSet(Spinning)
      BY FS_Subset
  <2>6. /\ Cardinality(Holders) \in Nat
        /\ Cardinality(Spinning) \in Nat
        /\ Cardinality(Active) \in Nat
        /\ Cardinality(Holders \cup Spinning) <= Cardinality(Active)
      BY <2>4, <2>5, FS_Subset, FS_CardinalityType
  <2>7. Cardinality(Holders \cup Spinning)
           = Cardinality(Holders) + Cardinality(Spinning)
    <3>1. Cardinality(Holders \cup Spinning)
             = Cardinality(Holders) + Cardinality(Spinning)
                  - Cardinality(Holders \cap Spinning)
        BY <2>5, FS_Union
    <3>2. Cardinality(Holders \cap Spinning) = 0
        BY <2>4, FS_EmptySet, Zenon
    <3> HIDE DEF Holders, Spinning, Active
    <3> QED
        BY <3>1, <3>2, <2>6
  <2> QED
      BY <2>1, <2>2, <2>6, <2>7, MaxTagsAssumption, WorkersAssumption
<1>2. PlainInv => EnoughWorkers
    BY <1>1 DEF EnoughWorkers
<1> QED
    BY <1>2, PlainInvariance, PTL

-----------------------------------------------------------------------------
(* The states of a call before its request is written, and from then until  *)
(* it returns: RpcCalls does not tell those of one set apart.               *)
Quiet == {"idle", "reserving", "locking", "scanning", "reserved"}
Awaiting == Written \cup Answered

(* Before the first call nothing was issued.                                *)
LEMMA InitCalls == Init => Calls!Init
    BY DEF Init, Calls!Init, Progress

(* A step of a request that neither sends it nor ends its call leaves its   *)
(* progress alone.                                                          *)
LEMMA QuietStep ==
    ASSUME BaseInv, Orderly, NEW r \in Requests, Step(r), ~Send(r),
           pc'[r] # "done"
    PROVE  \A s \in Requests : Progress(s)' = Progress(s)
<1>1. sent' = sent
    BY DEF Step, Call, Spin, Lock, ScanFails, Insert, Suspend,
       ResumeWithoutWaiter, ResumeForBody, Resume, Unlock, Return, StartBody,
       ReadBody, FinishBodyWithoutWaiter, FinishBody
<1>2. ~ResumeWithoutWaiter(r)
    BY NoResumeWithoutWaiter
<1>3. ~Return(r) /\ ~FinishBodyWithoutWaiter(r) /\ ~FinishBody(r)
    BY DEF Return, FinishBodyWithoutWaiter, FinishBody, Goto, BaseInv, Types
<1>4. CASE Call(r) \/ Spin(r) \/ Lock(r) \/ ScanFails(r) \/ Insert(r)
  <2>1. \E to \in Quiet : Goto(r, pc[r], to) /\ pc[r] \in Quiet
      BY <1>4 DEF Call, Spin, Lock, ScanFails, Insert, Goto, Quiet
  <2> QED
      BY <1>1, <2>1 DEF Progress, Goto, Quiet, BaseInv, Types
<1>5. CASE \/ Suspend(r) \/ ResumeForBody(r) \/ Resume(r) \/ Unlock(r)
           \/ StartBody(r) \/ ReadBody(r)
  <2>1. \E to \in Awaiting : Goto(r, pc[r], to) /\ pc[r] \in Awaiting
    <3>1. CASE ReadBody(r)
        BY <3>1 DEF ReadBody, Goto, BaseInv, Types, Awaiting, Answered
    <3> QED
        BY <1>5, <3>1 DEF Suspend, ResumeForBody, Resume, Unlock, StartBody,
           Goto, Awaiting, Written, Answered
  <2> QED
      BY <1>1, <2>1 DEF Progress, Goto, Awaiting, Written, Answered, BaseInv,
         Types
<1> QED
    BY <1>2, <1>3, <1>4, <1>5 DEF Step

(* A request is issued when it is written (line 33).                        *)
LEMMA SendIssues ==
    ASSUME BaseInv, NEW r \in Requests, Send(r)
    PROVE  Calls!Issue(r)
<1>1. pc[r] = "reserved" /\ pc' = [pc EXCEPT ![r] = "sending"]
    BY DEF Send, Goto
<1>2. sent' = sent \cup {[from |-> r, tag |-> TagOf(r)]}
    BY DEF Send
<1>3. Progress(r) = "idle" /\ Progress(r)' = "outstanding"
  <2>1. pc'[r] = "sending"
      BY <1>1 DEF BaseInv, Types
  <2>2. [from |-> r, tag |-> TagOf(r)] \in sent'
      BY <1>2
  <2>3. \E q \in sent' : q.from = r
      BY <2>2
  <2> QED
      BY <1>1, <2>1, <2>3 DEF Progress
<1>4. \A s \in Requests \ {r} : Progress(s)' = Progress(s)
  <2> SUFFICES ASSUME NEW s \in Requests \ {r}
               PROVE  Progress(s)' = Progress(s)
      OBVIOUS
  <2>1. (\E q \in sent' : q.from = s) <=> (\E q \in sent : q.from = s)
      BY <1>2
  <2>2. pc'[s] = pc[s]
      BY <1>1
  <2> QED
      BY <2>1, <2>2 DEF Progress
<1> QED
    BY <1>3, <1>4 DEF Calls!Issue

(* A call ends, with a body or without, after its own response: what is     *)
(* under way is of requests that were written and not resumed.              *)
LEMMA ReturnReturns ==
    ASSUME BaseInv, Orderly, NEW r \in Requests, Step(r), ~Send(r),
           pc'[r] = "done"
    PROVE  Calls!Return(r)
<1>1. CASE pc[r] \notin Answered
  <2>1. \E from, to \in PCs \ {"done"} : Goto(r, from, to)
      BY <1>1, NoResumeWithoutWaiter DEF Step, Call, Spin, Lock, ScanFails,
         Insert, Suspend, ResumeForBody, Resume, Unlock, Return, StartBody,
         ReadBody, FinishBodyWithoutWaiter, FinishBody, Goto, Answered, PCs
  <2> QED
      BY <2>1 DEF Goto, BaseInv, Types
<1>2. CASE pc[r] \in Answered
  <2>1. pc' = [pc EXCEPT ![r] = "done"] /\ sent' = sent
    <3>1. \E to \in PCs : pc' = [pc EXCEPT ![r] = to] /\ sent' = sent
        BY <1>2 DEF Step, Call, Spin, Lock, ScanFails, Insert, Suspend,
           ResumeWithoutWaiter, ResumeForBody, Resume, Unlock, Return,
           StartBody, ReadBody, FinishBodyWithoutWaiter, FinishBody, Goto,
           Answered, PCs
    <3> QED
        BY <3>1 DEF BaseInv, Types
  <2>2. ~\E q \in sent : q.from = r
      BY <1>2 DEF Orderly, MessageInv, Written, Answered
  <2>3. Progress(r) = "answered" /\ Progress(r)' = "returned"
      BY <1>2, <2>1, <2>2 DEF Progress, BaseInv, Types, Answered
  <2>4. \A s \in Requests \ {r} : Progress(s)' = Progress(s)
      BY <2>1 DEF Progress
  <2> QED
      BY <2>3, <2>4 DEF Calls!Return
<1> QED
    BY <1>1, <1>2

(* A response answers the request it was written for, and no other: a       *)
(* request is under way once.                                               *)
LEMMA RespondAnswers ==
    ASSUME BaseInv, Orderly, Respond
    PROVE  \E r \in Requests : Calls!Answer(r)
<1>1. PICK q \in sent : sent' = sent \ {q}
    BY DEF Respond
<1>2. q.from \in Requests /\ pc[q.from] \in Written /\ pc' = pc
    BY <1>1 DEF Respond, BaseInv, Types, Orderly, MessageInv
<1>3. \A p \in sent : p.from = q.from => p = q
    BY <1>1 DEF BaseInv, Types, Orderly, MessageInv
<1>4. Progress(q.from) = "outstanding" /\ Progress(q.from)' = "answered"
    BY <1>1, <1>2, <1>3 DEF Progress, Written
<1>5. \A s \in Requests \ {q.from} : Progress(s)' = Progress(s)
  <2> SUFFICES ASSUME NEW s \in Requests \ {q.from}
               PROVE  Progress(s)' = Progress(s)
      OBVIOUS
  <2>1. (\E p \in sent' : p.from = s) <=> (\E p \in sent : p.from = s)
      BY <1>1
  <2> QED
      BY <1>2, <2>1 DEF Progress
<1>6. Calls!Answer(q.from)
    BY <1>2, <1>4, <1>5 DEF Calls!Answer
<1> QED
    BY <1>2, <1>6

(* Every step of an orderly connection is a step of RpcCalls or none.       *)
LEMMA NextRefines ==
    ASSUME BaseInv, Orderly, [Next]_vars
    PROVE  [Calls!Next]_[r \in Requests |-> Progress(r)]
<1>1. CASE \E r \in Requests : Step(r)
  <2>1. PICK r \in Requests : Step(r)
      BY <1>1
  <2>2. CASE Send(r)
      BY <2>2, SendIssues DEF Calls!Next
  <2>3. CASE ~Send(r) /\ pc'[r] = "done"
      BY <2>1, <2>3, ReturnReturns DEF Calls!Next
  <2>4. CASE ~Send(r) /\ pc'[r] # "done"
      BY <2>1, <2>4, QuietStep
  <2> QED
      BY <2>2, <2>3, <2>4
<1>2. CASE Respond
    BY <1>2, RespondAnswers DEF Calls!Next
<1>3. CASE Waiter \/ PeerClose \/ UNCHANGED vars
  <2>1. pc' = pc /\ sent' = sent
      BY <1>3 DEF Waiter, Receive, ReceiveUnknown, ReceiveRaces, ReceiveEnd,
         PeerClose, vars
  <2> QED
      BY <2>1 DEF Progress
<1> QED
    BY <1>1, <1>2, <1>3 DEF Next

(* With bodies of any lengths, each call is issued once, answered once by   *)
(* its own response and returns only then; no step departs from this        *)
(* before the stale read of line 60 has given a call another one's header.  *)
THEOREM CallsUntilMisread ==
    Spec => /\ Calls!Init
            /\ [][Calls!Next \/ Misread]_[r \in Requests |-> Progress(r)]
<1>1. Init => Calls!Init
    BY InitCalls
<1>2. ASSUME IInv, [Next]_vars
      PROVE  [Calls!Next \/ Misread]_[r \in Requests |-> Progress(r)]
  <2>1. CASE Orderly
      BY <1>2, <2>1, NextRefines DEF IInv
  <2>2. CASE Stuck
    <3>1. pc' = pc /\ sent' = sent
        BY <1>2, <2>2 DEF Next, Stuck, vars
    <3> QED
        BY <3>1 DEF Progress
  <2> QED
      BY <1>2, <2>1, <2>2 DEF IInv
<1> QED
    BY <1>1, <1>2, Invariance, PTL DEF Spec

(* The connection implements RpcCalls: a call returns only after the server *)
(* has answered it, for any number of callers and tags.                     *)
THEOREM Refinement ==
    ASSUME RespLens = {0}
    PROVE  Spec => ImplementsCalls
<1>1. Init => Calls!Init
    BY InitCalls
<1>2. PlainInv /\ [Next]_vars => [Calls!Next]_[r \in Requests |-> Progress(r)]
    BY NextRefines DEF PlainInv
<1> QED
    BY <1>1, <1>2, PlainInvariance, PTL DEF Spec, ImplementsCalls, Calls!Spec
=============================================================================
