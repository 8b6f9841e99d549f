------------------------- MODULE ServerHandlerProofs -------------------------
(***************************************************************************)
(* In ServerHandler no live handler loses its entry, whatever is reaped    *)
(* and whichever tags are used again; the write lock keeps the responses   *)
(* apart until a method is handled that does not take it; and the only way *)
(* to destroy a live handler is a tag that is used again before its        *)
(* handler was reaped.  For any number of requests, tags and map entries.  *)
(***************************************************************************)
EXTENDS ServerHandler, SequenceTheorems, TLAPS

(* Where the listener has a request it has not started a handler for.       *)
Busy == {"reap", "check", "rejected", "body", "spawn"}

(* The client only sends methods it knows.                                  *)
MethodInv == \A r \in Requests : method[r] \in Methods \cup {"Ping"}

(* A header that was sent is read once: it is in the stream, or with the    *)
(* listener, or its handler was started.                                    *)
StreamInv ==
    /\ \A r \in Requests : client[r] = "new" => handler[r] = "none"
    /\ \A i \in 1 .. Len(stream) :
          /\ client[stream[i]] # "new" /\ handler[stream[i]] = "none"
          /\ listener \in Busy => stream[i] # current
    /\ \A i, j \in 1 .. Len(stream) : stream[i] = stream[j] => i = j

(* The listener's request has no handler yet, and from the body on it has   *)
(* the entry of its tag.                                                    *)
CurrentInv ==
    listener \in Busy =>
        /\ current \in Requests
        /\ client[current] # "new" /\ handler[current] = "none"
        /\ listener \in {"body", "spawn"} =>
              /\ entry[current] \in Nodes
              /\ pending[tag[current]] = entry[current]

(* writeLockWaiters holds the handlers that wait, each once.                *)
WaitersInv ==
    /\ \A r \in Requests :
          handler[r] = "waiting" <=> \E i \in 1 .. Len(waiters) : waiters[i] = r
    /\ \A i, j \in 1 .. Len(waiters) : waiters[i] = waiters[j] => i = j

(* A handler that has not ended refers to the entry of its tag.             *)
LiveInv ==
    /\ EntryLive
    /\ \A r \in Requests :
          handler[r] \notin {"none", "gone"} => entry[r] \in Nodes

IInv ==
    /\ TypeOK
    /\ MethodInv
    /\ StreamInv
    /\ CurrentInv
    /\ WaitersInv
    /\ LiveInv


-----------------------------------------------------------------------------
(* The entry of a tag is emplaced for the listener's request: the one that  *)
(* is in the map, or one at an address the map does not use (line 35).      *)
LEMMA EmplaceEffect ==
    ASSUME IInv, listener \in Busy, EmplaceEntry
    PROVE  \E n \in Nodes :
              /\ entry' = [entry EXCEPT ![current] = n]
              /\ pending' = [pending EXCEPT ![tag[current]] = n]
              /\ \/ pending[tag[current]] = n /\ coro' = coro
                 \/ /\ pending[tag[current]] = None /\ ~Live(n)
                    /\ coro' = [coro EXCEPT ![n] = None]
<1>1. /\ current \in Requests /\ tag[current] \in Tags
      /\ pending \in [Tags -> Nodes \cup {None}]
    BY DEF IInv, TypeOK, CurrentInv
<1>2. CASE pending[tag[current]] # None
  <2>1. pending[tag[current]] \in Nodes
      BY <1>1, <1>2
  <2>2. /\ entry' = [entry EXCEPT ![current] = pending[tag[current]]]
        /\ pending' = pending /\ coro' = coro
      BY <1>2 DEF EmplaceEntry
  <2>3. pending = [pending EXCEPT ![tag[current]] = pending[tag[current]]]
      BY <1>1
  <2> QED
      BY <2>1, <2>2, <2>3
<1>3. CASE pending[tag[current]] = None
    BY <1>3 DEF EmplaceEntry
<1> QED
    BY <1>2, <1>3

(* What EmplaceEntry changes keeps its type.                                *)
LEMMA EmplaceTyped ==
    ASSUME IInv, listener \in Busy, EmplaceEntry
    PROVE  /\ pending' \in [Tags -> Nodes \cup {None}]
           /\ entry' \in [Requests -> Nodes \cup {None}]
           /\ coro' \in [Nodes -> Requests \cup {None}]
<1>1. PICK n \in Nodes :
          /\ entry' = [entry EXCEPT ![current] = n]
          /\ pending' = [pending EXCEPT ![tag[current]] = n]
          /\ \/ coro' = coro
             \/ coro' = [coro EXCEPT ![n] = None]
    BY EmplaceEffect
<1>2. /\ pending \in [Tags -> Nodes \cup {None}]
      /\ entry \in [Requests -> Nodes \cup {None}]
      /\ coro \in [Nodes -> Requests \cup {None}]
    BY DEF IInv, TypeOK
<1>3. pending' \in [Tags -> Nodes \cup {None}]
    BY <1>1, <1>2
<1>4. entry' \in [Requests -> Nodes \cup {None}]
    BY <1>1, <1>2
<1>5. coro' \in [Nodes -> Requests \cup {None}]
    BY <1>1, <1>2
<1> QED
    BY <1>3, <1>4, <1>5

(* The emplacement leaves the entries of live handlers alone: the request   *)
(* it is for has no handler, and the address it takes was not in the map.   *)
LEMMA EmplaceLive ==
    ASSUME IInv, listener \in Busy, EmplaceEntry, UNCHANGED <<handler, tag>>
    PROVE  LiveInv'
<1>1. PICK n \in Nodes :
              /\ entry' = [entry EXCEPT ![current] = n]
              /\ pending' = [pending EXCEPT ![tag[current]] = n]
              /\ \/ pending[tag[current]] = n /\ coro' = coro
                 \/ /\ pending[tag[current]] = None /\ ~Live(n)
                    /\ coro' = [coro EXCEPT ![n] = None]
    BY EmplaceEffect
<1>2. ASSUME NEW r \in Requests, handler[r] \notin {"none", "gone"}
      PROVE  /\ entry'[r] \in Nodes /\ pending'[tag[r]] = entry'[r]
             /\ coro'[entry'[r]] = r
  <2>1. /\ entry[r] \in Nodes /\ pending[tag[r]] = entry[r]
        /\ coro[entry[r]] = r
      BY <1>2 DEF IInv, LiveInv, EntryLive
  <2>2. r # current
      BY <1>2 DEF IInv, CurrentInv
  <2>3. entry'[r] = entry[r]
      BY <1>1, <2>2 DEF IInv, TypeOK
  <2>4. tag[r] \in Tags /\ Live(entry[r])
      BY <2>1 DEF IInv, TypeOK, Live
  <2>5. CASE pending[tag[current]] = n /\ coro' = coro
    <3>1. pending'[tag[r]] = pending[tag[r]]
        BY <1>1, <2>4, <2>5 DEF IInv, TypeOK
    <3> QED
        BY <2>1, <2>3, <2>5, <3>1
  <2>6. CASE /\ pending[tag[current]] = None /\ ~Live(n)
             /\ coro' = [coro EXCEPT ![n] = None]
    <3>1. tag[r] # tag[current] /\ entry[r] # n
        BY <2>1, <2>4, <2>6, NoneAssumption
    <3>2. pending'[tag[r]] = pending[tag[r]]
        BY <1>1, <2>4, <3>1 DEF IInv, TypeOK
    <3>3. coro'[entry[r]] = coro[entry[r]]
        BY <2>1, <2>6, <3>1 DEF IInv, TypeOK
    <3> QED
        BY <2>1, <2>3, <3>2, <3>3
  <2> QED
      BY <1>1, <2>5, <2>6
<1> QED
    BY <1>2 DEF LiveInv, EntryLive

(* The last waiter is granted the lock and leaves the stack (lines 71-78).  *)
LEMMA HandOverEffect ==
    ASSUME IInv, NEW r \in Requests, HandOver(r)
    PROVE  \E w \in Requests :
              /\ handler[w] = "waiting" /\ handler[r] = "release"
              /\ w = waiters[Len(waiters)]
              /\ \A q \in Requests :
                    handler'[q] = IF q = w THEN "handed"
                                  ELSE IF q = r THEN "parking"
                                  ELSE handler[q]
              /\ Len(waiters) \in Nat \ {0}
              /\ Len(waiters') = Len(waiters) - 1
              /\ \A i \in 1 .. Len(waiters) - 1 : waiters'[i] = waiters[i]
<1>1. /\ waiters # <<>> /\ waiters \in Seq(Requests)
      /\ handler[r] = "release"
      /\ waiters' = SubSeq(waiters, 1, Len(waiters) - 1)
      /\ handler \in [Requests -> HandlerPCs]
    BY DEF HandOver, IInv, TypeOK
<1>2. Len(waiters) \in Nat \ {0}
    BY <1>1, EmptySeq, LenProperties
<1>3. DEFINE w == waiters[Len(waiters)]
<1>4. w \in Requests
    BY <1>1, <1>2, ElementOfSeq
<1>5. handler[w] = "waiting"
    BY <1>2, <1>4 DEF IInv, WaitersInv
<1>6. \A q \in Requests :
         handler'[q] = IF q = w THEN "handed"
                       ELSE IF q = r THEN "parking" ELSE handler[q]
    BY <1>1 DEF HandOver
<1>7. DEFINE n == Len(waiters) - 1
<1>8. n \in Nat /\ n <= Len(waiters) /\ waiters' = SubSeq(waiters, 1, n)
    BY <1>1, <1>2
<1> HIDE DEF n
<1>9. Len(waiters') = n /\ \A i \in 1 .. n : waiters'[i] = waiters[i]
    BY <1>1, <1>8, SubSeqProperties
<1> HIDE DEF w
<1>10. w = waiters[Len(waiters)] /\ n = Len(waiters) - 1
    BY DEF w, n
<1> QED
    BY <1>1, <1>2, <1>4, <1>5, <1>6, <1>9, <1>10
-----------------------------------------------------------------------------
(* A request the client sends is in the stream once.                        *)
LEMMA SendRequestKeeps ==
    ASSUME IInv, NEW r \in Requests, SendRequest(r)
    PROVE  IInv'
<1>1. TypeOK'
    BY MethodsAssumption DEF IInv, SendRequest, TypeOK
<1>2. MethodInv'
    BY DEF IInv, SendRequest, MethodInv
<1>3. StreamInv'
    BY DEF IInv, SendRequest, StreamInv, TypeOK, CurrentInv
<1>4. CurrentInv'
    BY DEF IInv, SendRequest, CurrentInv
<1>5. WaitersInv'
    BY DEF IInv, SendRequest, WaitersInv
<1>6. LiveInv'
    BY DEF IInv, SendRequest, LiveInv, StreamInv, EntryLive
<1> QED
    BY <1>1, <1>2, <1>3, <1>4, <1>5, <1>6 DEF IInv

LEMMA CloseKeeps ==
    ASSUME IInv, Close
    PROVE  IInv'
<1>1. TypeOK'
    BY DEF IInv, Close, TypeOK
<1>2. MethodInv'
    BY DEF IInv, Close, MethodInv
<1>3. StreamInv'
    BY DEF IInv, Close, StreamInv
<1>4. CurrentInv'
    BY DEF IInv, Close, CurrentInv
<1>5. WaitersInv'
    BY DEF IInv, Close, WaitersInv
<1>6. LiveInv'
    BY DEF IInv, Close, LiveInv, EntryLive
<1> QED
    BY <1>1, <1>2, <1>3, <1>4, <1>5, <1>6 DEF IInv

(* The header that is read leaves the stream (line 19).                     *)
LEMMA ReadHeaderKeeps ==
    ASSUME IInv, ReadHeader
    PROVE  IInv'
<1>1. TypeOK'
    BY DEF IInv, ReadHeader, TypeOK, ListenerPCs
<1>2. MethodInv'
    BY DEF IInv, ReadHeader, MethodInv
<1>3. StreamInv'
    BY DEF IInv, ReadHeader, StreamInv
<1>4. CurrentInv'
    BY DEF IInv, ReadHeader, CurrentInv, TypeOK, StreamInv
<1>5. WaitersInv'
    BY DEF IInv, ReadHeader, WaitersInv
<1>6. LiveInv'
    BY DEF IInv, ReadHeader, LiveInv, EntryLive
<1> QED
    BY <1>1, <1>2, <1>3, <1>4, <1>5, <1>6 DEF IInv

(* Only entries of parked handlers are erased (lines 24-29).                *)
LEMMA ReapKeeps ==
    ASSUME IInv, Reap
    PROVE  IInv'
<1>1. TypeOK'
    BY DEF IInv, Reap, TypeOK, ListenerPCs, HandlerPCs
<1>2. MethodInv'
    BY DEF IInv, Reap, MethodInv
<1>3. StreamInv'
  <2>1. (\A r \in Requests : client[r] = "new" => handler[r] = "none")'
      BY DEF IInv, Reap, StreamInv, Reapable
  <2>2. (\A i \in 1 .. Len(stream) :
          /\ client[stream[i]] # "new" /\ handler[stream[i]] = "none"
          /\ listener \in Busy => stream[i] # current)'
    <3>1. /\ stream' = stream /\ client' = client /\ current' = current
          /\ listener \in Busy
        BY DEF Reap, Busy
    <3>2. ASSUME NEW i \in 1 .. Len(stream)
          PROVE  handler'[stream[i]] = "none"
      <4>1. stream[i] \in Requests /\ handler[stream[i]] = "none"
          BY DEF IInv, TypeOK, StreamInv
      <4>2. \A n \in Finished : handler[coro[n]] = "parked"
          BY DEF Reap, Reapable
      <4> QED
          BY <4>1, <4>2 DEF Reap
    <3> QED
        BY <3>1, <3>2 DEF IInv, StreamInv
  <2>3. (\A i, j \in 1 .. Len(stream) : stream[i] = stream[j] => i = j)'
      BY DEF IInv, Reap, StreamInv
  <2> QED
      BY <2>1, <2>2, <2>3 DEF StreamInv
<1>4. CurrentInv'
    BY DEF IInv, Reap, CurrentInv, Reapable, Busy
<1>5. WaitersInv'
    BY NoneAssumption, MethodsAssumption DEF IInv, Reap, WaitersInv, Reapable
<1>6. LiveInv'
    BY DEF IInv, Reap, LiveInv, TypeOK, EntryLive
<1> QED
    BY <1>1, <1>2, <1>3, <1>4, <1>5, <1>6 DEF IInv

LEMMA ReapStaleKeeps ==
    ASSUME IInv, ReapStale
    PROVE  IInv'
<1>1. TypeOK'
    BY DEF IInv, ReapStale, TypeOK, Crashes
<1>2. MethodInv'
    BY DEF IInv, ReapStale, MethodInv
<1>3. StreamInv'
    BY DEF IInv, ReapStale, StreamInv
<1>4. CurrentInv'
    BY DEF IInv, ReapStale, CurrentInv
<1>5. WaitersInv'
    BY DEF IInv, ReapStale, WaitersInv
<1>6. LiveInv'
    BY DEF IInv, ReapStale, LiveInv, EntryLive
<1> QED
    BY <1>1, <1>2, <1>3, <1>4, <1>5, <1>6 DEF IInv

(* An entry is emplaced for a request without a handler (lines 31-37).      *)
LEMMA AcceptKeeps ==
    ASSUME IInv, Accept
    PROVE  IInv'
<1>1. TypeOK'
  <2>1. (client \in [Requests -> {"new", "sent", "answered"}])'
      BY DEF IInv, Accept, TypeOK
  <2>2. (tag \in [Requests -> Tags])'
      BY DEF IInv, Accept, TypeOK, Tags
  <2>3. (method \in [Requests -> {"End", "Ping", "GetNode"}])'
      BY DEF IInv, Accept, TypeOK
  <2>4. (stream \in Seq(Requests))'
      BY DEF IInv, Accept, TypeOK
  <2>5. (listener \in ListenerPCs)'
      BY DEF IInv, Accept, TypeOK, ListenerPCs
  <2>6. (current \in Requests \cup {None})'
      BY DEF IInv, Accept, TypeOK
  <2>7. (keeping \in Requests \cup {"listener", None})'
      BY DEF IInv, Accept, TypeOK
  <2>8. (pending \in [Tags -> Nodes \cup {None}])'
      BY EmplaceTyped DEF Accept, Busy
  <2>9. (entry \in [Requests -> Nodes \cup {None}])'
      BY EmplaceTyped DEF Accept, Busy
  <2>10. (coro \in [Nodes -> Requests \cup {None}])'
      BY EmplaceTyped DEF Accept, Busy
  <2>11. (finished \in Seq(Nodes))'
      BY DEF IInv, Accept, TypeOK
  <2>12. (handler \in [Requests -> HandlerPCs])'
      BY DEF IInv, Accept, TypeOK, HandlerPCs
  <2>13. (writeLock \in BOOLEAN)'
      BY DEF IInv, Accept, TypeOK
  <2>14. (waiters \in Seq(Requests))'
      BY DEF IInv, Accept, TypeOK
  <2>15. (closed \in BOOLEAN)'
      BY DEF IInv, Accept, TypeOK
  <2>16. (crash \in Crashes)'
      BY DEF IInv, Accept, TypeOK, Crashes
  <2> QED
      BY <2>1, <2>2, <2>3, <2>4, <2>5, <2>6, <2>7, <2>8, <2>9, <2>10, <2>11,
         <2>12, <2>13, <2>14, <2>15, <2>16 DEF TypeOK
<1>2. MethodInv'
    BY DEF IInv, Accept, MethodInv
<1>3. StreamInv'
    BY DEF IInv, Accept, StreamInv, Busy
<1>4. CurrentInv'
    BY MaxTagsAssumption DEF IInv, Accept, CurrentInv, TypeOK, EmplaceEntry,
       Busy
<1>5. WaitersInv'
    BY DEF IInv, Accept, WaitersInv
<1>6. LiveInv'
    BY EmplaceLive DEF Accept, Busy
<1> QED
    BY <1>1, <1>2, <1>3, <1>4, <1>5, <1>6 DEF IInv

LEMMA RejectKeeps ==
    ASSUME IInv, Reject
    PROVE  IInv'
<1>1. TypeOK'
    BY DEF IInv, Reject, TypeOK, ListenerPCs
<1>2. MethodInv'
    BY DEF IInv, Reject, MethodInv
<1>3. StreamInv'
    BY DEF IInv, Reject, StreamInv, Busy
<1>4. CurrentInv'
    BY DEF IInv, Reject, CurrentInv, Busy
<1>5. WaitersInv'
    BY DEF IInv, Reject, WaitersInv
<1>6. LiveInv'
    BY DEF IInv, Reject, LiveInv, EntryLive
<1> QED
    BY <1>1, <1>2, <1>3, <1>4, <1>5, <1>6 DEF IInv

LEMMA FallThroughKeeps ==
    ASSUME IInv, FallThrough
    PROVE  IInv'
<1>1. TypeOK'
  <2>1. (client \in [Requests -> {"new", "sent", "answered"}])'
      BY DEF IInv, FallThrough, TypeOK
  <2>2. (tag \in [Requests -> Tags])'
      BY DEF IInv, FallThrough, TypeOK, Tags
  <2>3. (method \in [Requests -> {"End", "Ping", "GetNode"}])'
      BY DEF IInv, FallThrough, TypeOK
  <2>4. (stream \in Seq(Requests))'
      BY DEF IInv, FallThrough, TypeOK
  <2>5. (listener \in ListenerPCs)'
      BY DEF IInv, FallThrough, TypeOK, ListenerPCs
  <2>6. (current \in Requests \cup {None})'
      BY DEF IInv, FallThrough, TypeOK
  <2>7. (keeping \in Requests \cup {"listener", None})'
      BY DEF IInv, FallThrough, TypeOK
  <2>8. (pending \in [Tags -> Nodes \cup {None}])'
      BY EmplaceTyped DEF FallThrough, Busy
  <2>9. (entry \in [Requests -> Nodes \cup {None}])'
      BY EmplaceTyped DEF FallThrough, Busy
  <2>10. (coro \in [Nodes -> Requests \cup {None}])'
      BY EmplaceTyped DEF FallThrough, Busy
  <2>11. (finished \in Seq(Nodes))'
      BY DEF IInv, FallThrough, TypeOK
  <2>12. (handler \in [Requests -> HandlerPCs])'
      BY DEF IInv, FallThrough, TypeOK, HandlerPCs
  <2>13. (writeLock \in BOOLEAN)'
      BY DEF IInv, FallThrough, TypeOK
  <2>14. (waiters \in Seq(Requests))'
      BY DEF IInv, FallThrough, TypeOK
  <2>15. (closed \in BOOLEAN)'
      BY DEF IInv, FallThrough, TypeOK
  <2>16. (crash \in Crashes)'
      BY DEF IInv, FallThrough, TypeOK, Crashes
  <2> QED
      BY <2>1, <2>2, <2>3, <2>4, <2>5, <2>6, <2>7, <2>8, <2>9, <2>10, <2>11,
         <2>12, <2>13, <2>14, <2>15, <2>16 DEF TypeOK
<1>2. MethodInv'
    BY DEF IInv, FallThrough, MethodInv
<1>3. StreamInv'
    BY DEF IInv, FallThrough, StreamInv, Busy
<1>4. CurrentInv'
    BY MaxTagsAssumption DEF IInv, FallThrough, CurrentInv, TypeOK,
       EmplaceEntry, Busy
<1>5. WaitersInv'
    BY DEF IInv, FallThrough, WaitersInv
<1>6. LiveInv'
    BY EmplaceLive DEF FallThrough, Busy
<1> QED
    BY <1>1, <1>2, <1>3, <1>4, <1>5, <1>6 DEF IInv

(* Nothing happens to the entry while the body is read (lines 38-46).       *)
LEMMA ReadBodyKeeps ==
    ASSUME IInv, ReadBody
    PROVE  IInv'
<1>1. TypeOK'
    BY DEF IInv, ReadBody, TypeOK, ListenerPCs
<1>2. MethodInv'
    BY DEF IInv, ReadBody, MethodInv
<1>3. StreamInv'
    BY DEF IInv, ReadBody, StreamInv, Busy
<1>4. CurrentInv'
    BY DEF IInv, ReadBody, CurrentInv, Busy
<1>5. WaitersInv'
    BY DEF IInv, ReadBody, WaitersInv
<1>6. LiveInv'
    BY DEF IInv, ReadBody, LiveInv, EntryLive
<1> QED
    BY <1>1, <1>2, <1>3, <1>4, <1>5, <1>6 DEF IInv

(* The entry gets the handler it was emplaced for (line 47).                *)
LEMMA SpawnKeeps ==
    ASSUME IInv, Spawn
    PROVE  IInv'
<1>1. TypeOK'
    BY DEF IInv, Spawn, TypeOK, ListenerPCs, HandlerPCs
<1>2. MethodInv'
    BY DEF IInv, Spawn, MethodInv
<1>3. StreamInv'
    BY DEF IInv, Spawn, StreamInv, CurrentInv, Busy
<1>4. CurrentInv'
    BY DEF IInv, Spawn, CurrentInv, Busy
<1>5. WaitersInv'
    BY DEF IInv, Spawn, WaitersInv, CurrentInv, Busy
<1>6. LiveInv'
    BY NoneAssumption DEF IInv, Spawn, LiveInv, TypeOK, CurrentInv,
       EntryLive, Busy
<1> QED
    BY <1>1, <1>2, <1>3, <1>4, <1>5, <1>6 DEF IInv

LEMMA SpawnOverLiveKeeps ==
    ASSUME IInv, SpawnOverLive
    PROVE  IInv'
<1>1. TypeOK'
    BY DEF IInv, SpawnOverLive, TypeOK, Crashes
<1>2. MethodInv'
    BY DEF IInv, SpawnOverLive, MethodInv
<1>3. StreamInv'
    BY DEF IInv, SpawnOverLive, StreamInv
<1>4. CurrentInv'
    BY DEF IInv, SpawnOverLive, CurrentInv
<1>5. WaitersInv'
    BY DEF IInv, SpawnOverLive, WaitersInv
<1>6. LiveInv'
    BY DEF IInv, SpawnOverLive, LiveInv, EntryLive
<1> QED
    BY <1>1, <1>2, <1>3, <1>4, <1>5, <1>6 DEF IInv

(* The end of listen drains entries whose handlers are parked (lines        *)
(* 52-61).                                                                  *)
LEMMA ListenEndsKeeps ==
    ASSUME IInv, ListenEnds
    PROVE  IInv'
<1>1. TypeOK'
    BY DEF IInv, ListenEnds, TypeOK, ListenerPCs
<1>2. MethodInv'
    BY DEF IInv, ListenEnds, MethodInv
<1>3. StreamInv'
    BY DEF IInv, ListenEnds, StreamInv, Busy
<1>4. CurrentInv'
    BY DEF IInv, ListenEnds, CurrentInv, Busy
<1>5. WaitersInv'
    BY DEF IInv, ListenEnds, WaitersInv
<1>6. LiveInv'
    BY DEF IInv, ListenEnds, LiveInv, EntryLive
<1> QED
    BY <1>1, <1>2, <1>3, <1>4, <1>5, <1>6 DEF IInv

LEMMA DrainKeeps ==
    ASSUME IInv, NEW t \in Tags, Drain(t)
    PROVE  IInv'
<1>1. TypeOK'
    BY DEF IInv, Drain, TypeOK, HandlerPCs
<1>2. MethodInv'
    BY DEF IInv, Drain, MethodInv
<1>3. StreamInv'
    BY DEF IInv, Drain, StreamInv
<1>4. CurrentInv'
    BY DEF IInv, Drain, CurrentInv, DrainNext
<1>5. WaitersInv'
    BY DEF IInv, Drain, WaitersInv
<1>6. LiveInv'
    BY DEF IInv, Drain, LiveInv, TypeOK, EntryLive
<1> QED
    BY <1>1, <1>2, <1>3, <1>4, <1>5, <1>6 DEF IInv

LEMMA DrainTooEarlyKeeps ==
    ASSUME IInv, NEW t \in Tags, DrainTooEarly(t)
    PROVE  IInv'
<1>1. TypeOK'
    BY DEF IInv, DrainTooEarly, TypeOK, Crashes
<1>2. MethodInv'
    BY DEF IInv, DrainTooEarly, MethodInv
<1>3. StreamInv'
    BY DEF IInv, DrainTooEarly, StreamInv
<1>4. CurrentInv'
    BY DEF IInv, DrainTooEarly, CurrentInv
<1>5. WaitersInv'
    BY DEF IInv, DrainTooEarly, WaitersInv
<1>6. LiveInv'
    BY DEF IInv, DrainTooEarly, LiveInv, EntryLive
<1> QED
    BY <1>1, <1>2, <1>3, <1>4, <1>5, <1>6 DEF IInv

LEMMA ListenReturnsKeeps ==
    ASSUME IInv, ListenReturns
    PROVE  IInv'
<1>1. TypeOK'
    BY DEF IInv, ListenReturns, TypeOK, ListenerPCs
<1>2. MethodInv'
    BY DEF IInv, ListenReturns, MethodInv
<1>3. StreamInv'
    BY DEF IInv, ListenReturns, StreamInv, Busy
<1>4. CurrentInv'
    BY DEF IInv, ListenReturns, CurrentInv, Busy
<1>5. WaitersInv'
    BY DEF IInv, ListenReturns, WaitersInv
<1>6. LiveInv'
    BY DEF IInv, ListenReturns, LiveInv, EntryLive
<1> QED
    BY <1>1, <1>2, <1>3, <1>4, <1>5, <1>6 DEF IInv

(* A handler moves on; its entry stays what it is (lines 64-117).           *)
LEMMA BeginKeeps ==
    ASSUME IInv, NEW r \in Requests, Begin(r)
    PROVE  IInv'
<1>1. TypeOK'
    BY DEF IInv, Begin, TypeOK, Goto, HandlerPCs
<1>2. MethodInv'
    BY DEF IInv, Begin, MethodInv
<1>3. StreamInv'
    BY DEF IInv, Begin, StreamInv, Goto
<1>4. CurrentInv'
    BY DEF IInv, Begin, CurrentInv, Goto
<1>5. WaitersInv'
    BY DEF IInv, Begin, WaitersInv, Goto
<1>6. LiveInv'
    BY DEF IInv, Begin, LiveInv, Goto, EntryLive
<1> QED
    BY <1>1, <1>2, <1>3, <1>4, <1>5, <1>6 DEF IInv

LEMMA AcquireKeeps ==
    ASSUME IInv, NEW r \in Requests, Acquire(r)
    PROVE  IInv'
<1>1. TypeOK'
    BY DEF IInv, Acquire, TypeOK, Goto, HandlerPCs
<1>2. MethodInv'
    BY DEF IInv, Acquire, MethodInv
<1>3. StreamInv'
    BY DEF IInv, Acquire, StreamInv, Goto
<1>4. CurrentInv'
    BY DEF IInv, Acquire, CurrentInv, Goto
<1>5. WaitersInv'
    BY DEF IInv, Acquire, WaitersInv, Goto
<1>6. LiveInv'
    BY DEF IInv, Acquire, LiveInv, Goto, EntryLive
<1> QED
    BY <1>1, <1>2, <1>3, <1>4, <1>5, <1>6 DEF IInv

(* A handler that has to wait is pushed once (lines 98-113).                *)
LEMMA AcquireWaitsKeeps ==
    ASSUME IInv, NEW r \in Requests, AcquireWaits(r)
    PROVE  IInv'
<1>1. TypeOK'
    BY DEF IInv, AcquireWaits, TypeOK, Goto, HandlerPCs
<1>2. MethodInv'
    BY DEF IInv, AcquireWaits, MethodInv
<1>3. StreamInv'
    BY DEF IInv, AcquireWaits, StreamInv, Goto
<1>4. CurrentInv'
    BY DEF IInv, AcquireWaits, CurrentInv, Goto
<1>5. WaitersInv'
  <2>1. (\A q \in Requests :
          handler[q] = "waiting" <=> \E i \in 1 .. Len(waiters) : waiters[i] = q)'
    <3>1. /\ waiters \in Seq(Requests) /\ waiters' = Append(waiters, r)
          /\ handler[r] = "acquire"
          /\ handler' = [handler EXCEPT ![r] = "waiting"]
          /\ handler \in [Requests -> HandlerPCs]
        BY DEF AcquireWaits, Goto, IInv, TypeOK
    <3>2. /\ Len(waiters) \in Nat /\ Len(waiters') = Len(waiters) + 1
          /\ waiters'[Len(waiters) + 1] = r
          /\ \A i \in 1 .. Len(waiters) : waiters'[i] = waiters[i]
        BY <3>1
    <3>3. ASSUME NEW q \in Requests
          PROVE  handler'[q] = "waiting" <=>
                    \E i \in 1 .. Len(waiters') : waiters'[i] = q
      <4>1. CASE q = r
        <5>1. Len(waiters) + 1 \in 1 .. Len(waiters')
            BY <3>2
        <5> QED
            BY <3>1, <3>2, <4>1, <5>1
      <4>2. CASE q # r
        <5>1. handler'[q] = handler[q]
            BY <3>1, <4>2
        <5>2. (\E i \in 1 .. Len(waiters') : waiters'[i] = q) <=>
                 \E i \in 1 .. Len(waiters) : waiters[i] = q
          <6>1. \A i \in 1 .. Len(waiters') :
                   i \in 1 .. Len(waiters) \/ i = Len(waiters) + 1
              BY <3>2
          <6>2. \A i \in 1 .. Len(waiters) : i \in 1 .. Len(waiters')
              BY <3>2
          <6> QED
              BY <3>2, <4>2, <6>1, <6>2
        <5> QED
            BY <5>1, <5>2 DEF IInv, WaitersInv
      <4> QED
          BY <4>1, <4>2
    <3> QED
        BY <3>3
  <2>2. (\A i, j \in 1 .. Len(waiters) : waiters[i] = waiters[j] => i = j)'
      BY DEF IInv, AcquireWaits, WaitersInv, Goto
  <2> QED
      BY <2>1, <2>2 DEF WaitersInv
<1>6. LiveInv'
    BY DEF IInv, AcquireWaits, LiveInv, Goto, EntryLive
<1> QED
    BY <1>1, <1>2, <1>3, <1>4, <1>5, <1>6 DEF IInv

LEMMA WriteKeeps ==
    ASSUME IInv, NEW r \in Requests, Write(r)
    PROVE  IInv'
<1>0. PICK to \in HandlerPCs :
          /\ to \in {"writing", "sending"}
          /\ handler[r] \in {"granted", "handed"}
          /\ handler' = [handler EXCEPT ![r] = to]
    BY DEF Write, Goto, HandlerPCs
<1>1. TypeOK'
    BY <1>0 DEF IInv, Write, TypeOK, HandlerPCs, Crashes
<1>2. MethodInv'
    BY <1>0 DEF IInv, Write, MethodInv
<1>3. StreamInv'
    BY <1>0 DEF IInv, Write, StreamInv
<1>4. CurrentInv'
    BY <1>0 DEF IInv, Write, CurrentInv
<1>5. WaitersInv'
    BY <1>0 DEF IInv, Write, WaitersInv
<1>6. LiveInv'
    BY <1>0 DEF IInv, Write, LiveInv, EntryLive
<1> QED
    BY <1>1, <1>2, <1>3, <1>4, <1>5, <1>6 DEF IInv

LEMMA WriteEndsKeeps ==
    ASSUME IInv, NEW r \in Requests, WriteEnds(r)
    PROVE  IInv'
<1>0. PICK to \in HandlerPCs :
          /\ to = "release"
          /\ handler[r] \in {"writing", "sending"}
          /\ handler' = [handler EXCEPT ![r] = to]
    BY DEF WriteEnds, Goto, HandlerPCs
<1>1. TypeOK'
    BY <1>0 DEF IInv, WriteEnds, TypeOK, HandlerPCs
<1>2. MethodInv'
    BY <1>0 DEF IInv, WriteEnds, MethodInv
<1>3. StreamInv'
    BY <1>0 DEF IInv, WriteEnds, StreamInv
<1>4. CurrentInv'
    BY <1>0 DEF IInv, WriteEnds, CurrentInv
<1>5. WaitersInv'
    BY <1>0 DEF IInv, WriteEnds, WaitersInv
<1>6. LiveInv'
    BY <1>0 DEF IInv, WriteEnds, LiveInv, EntryLive
<1> QED
    BY <1>1, <1>2, <1>3, <1>4, <1>5, <1>6 DEF IInv

LEMMA ReleaseKeeps ==
    ASSUME IInv, NEW r \in Requests, Release(r)
    PROVE  IInv'
<1>1. TypeOK'
    BY DEF IInv, Release, TypeOK, Goto, HandlerPCs
<1>2. MethodInv'
    BY DEF IInv, Release, MethodInv
<1>3. StreamInv'
    BY DEF IInv, Release, StreamInv, Goto
<1>4. CurrentInv'
    BY DEF IInv, Release, CurrentInv, Goto
<1>5. WaitersInv'
    BY DEF IInv, Release, WaitersInv, Goto
<1>6. LiveInv'
    BY DEF IInv, Release, LiveInv, Goto, EntryLive
<1> QED
    BY <1>1, <1>2, <1>3, <1>4, <1>5, <1>6 DEF IInv

(* The waiter that is granted the lock was the last one pushed, and is      *)
(* pushed no more (lines 71-78).                                            *)
LEMMA HandOverKeeps ==
    ASSUME IInv, NEW r \in Requests, HandOver(r)
    PROVE  IInv'
<1>1. TypeOK'
  <2>1. waiters \in Seq(Requests) /\ waiters # <<>>
      BY DEF IInv, TypeOK, HandOver
  <2>2. SubSeq(waiters, 1, Len(waiters) - 1) \in Seq(Requests)
      BY <2>1
  <2>3. handler' \in [Requests -> HandlerPCs]
      BY DEF IInv, TypeOK, HandOver, HandlerPCs
  <2> QED
      BY <2>2, <2>3 DEF IInv, TypeOK, HandOver
<1>2. MethodInv'
    BY DEF IInv, HandOver, MethodInv
<1>3. StreamInv'
  <2>1. PICK w \in Requests :
              /\ handler[w] = "waiting" /\ handler[r] = "release"
              /\ \A q \in Requests :
                    handler'[q] = IF q = w THEN "handed"
                                  ELSE IF q = r THEN "parking"
                                  ELSE handler[q]
      BY HandOverEffect
  <2>2. UNCHANGED <<client, stream, listener, current>>
      BY DEF HandOver
  <2>3. \A q \in Requests : handler[q] = "none" => handler'[q] = "none"
      BY <2>1
  <2>4. \A i \in 1 .. Len(stream) : stream[i] \in Requests
      BY DEF IInv, TypeOK
  <2> QED
      BY <2>2, <2>3, <2>4 DEF IInv, StreamInv
<1>4. CurrentInv'
  <2>1. PICK w \in Requests :
              /\ handler[w] = "waiting" /\ handler[r] = "release"
              /\ \A q \in Requests :
                    handler'[q] = IF q = w THEN "handed"
                                  ELSE IF q = r THEN "parking"
                                  ELSE handler[q]
      BY HandOverEffect
  <2>2. UNCHANGED <<client, listener, current, entry, pending, tag>>
      BY DEF HandOver
  <2>3. \A q \in Requests : handler[q] = "none" => handler'[q] = "none"
      BY <2>1
  <2> QED
      BY <2>2, <2>3 DEF IInv, CurrentInv
<1>5. WaitersInv'
  <2>1. PICK w \in Requests :
              /\ handler[w] = "waiting" /\ handler[r] = "release"
              /\ w = waiters[Len(waiters)]
              /\ \A q \in Requests :
                    handler'[q] = IF q = w THEN "handed"
                                  ELSE IF q = r THEN "parking"
                                  ELSE handler[q]
              /\ Len(waiters) \in Nat \ {0}
              /\ Len(waiters') = Len(waiters) - 1
              /\ \A i \in 1 .. Len(waiters) - 1 : waiters'[i] = waiters[i]
      BY HandOverEffect
  <2>2. /\ Len(waiters) \in 1 .. Len(waiters)
        /\ \A i \in 1 .. Len(waiters') :
              i \in 1 .. Len(waiters) - 1 /\ i \in 1 .. Len(waiters)
                /\ i # Len(waiters) /\ waiters'[i] = waiters[i]
      BY <2>1
  <2>3. \A i, j \in 1 .. Len(waiters) : waiters[i] = waiters[j] => i = j
      BY DEF IInv, WaitersInv
  <2>4. \A i, j \in 1 .. Len(waiters') : waiters'[i] = waiters'[j] => i = j
      BY <2>2, <2>3
  <2>5. ASSUME NEW q \in Requests
        PROVE  handler'[q] = "waiting" <=>
                  \E i \in 1 .. Len(waiters') : waiters'[i] = q
    <3>1. handler[q] = "waiting" <=>
             \E i \in 1 .. Len(waiters) : waiters[i] = q
        BY DEF IInv, WaitersInv
    <3>2. handler'[q] = "waiting" <=> handler[q] = "waiting" /\ q # w
        BY <2>1
    <3>3. ASSUME handler'[q] = "waiting"
          PROVE  \E i \in 1 .. Len(waiters') : waiters'[i] = q
      <4>1. PICK i \in 1 .. Len(waiters) : waiters[i] = q
          BY <3>1, <3>2, <3>3
      <4>2. i # Len(waiters)
          BY <2>1, <3>2, <3>3, <4>1
      <4>3. i \in 1 .. Len(waiters') /\ waiters'[i] = q
          BY <2>1, <4>1, <4>2
      <4> QED
          BY <4>3
    <3>4. ASSUME NEW i \in 1 .. Len(waiters'), waiters'[i] = q
          PROVE  handler'[q] = "waiting"
      <4>1. waiters[i] = q /\ i \in 1 .. Len(waiters) /\ i # Len(waiters)
          BY <2>2, <3>4
      <4>2. q # w
          BY <2>1, <2>2, <2>3, <4>1
      <4> QED
          BY <3>1, <3>2, <4>1, <4>2
    <3> QED
        BY <3>3, <3>4
  <2> QED
      BY <2>4, <2>5 DEF WaitersInv
<1>6. LiveInv'
  <2>1. PICK w \in Requests :
              /\ handler[w] = "waiting" /\ handler[r] = "release"
              /\ \A q \in Requests :
                    handler'[q] = IF q = w THEN "handed"
                                  ELSE IF q = r THEN "parking"
                                  ELSE handler[q]
      BY HandOverEffect
  <2>2. UNCHANGED <<entry, pending, tag, coro>>
      BY DEF HandOver
  <2>3. \A q \in Requests : handler'[q] \notin {"none", "gone"} =>
                               handler[q] \notin {"none", "gone"}
      BY <2>1
  <2> QED
      BY <2>2, <2>3 DEF IInv, LiveInv, EntryLive
<1> QED
    BY <1>1, <1>2, <1>3, <1>4, <1>5, <1>6 DEF IInv

(* A handler that parks adds a reference to its own entry (lines 80-95).    *)
LEMMA ParkLockKeeps ==
    ASSUME IInv, NEW r \in Requests, ParkLock(r)
    PROVE  IInv'
<1>1. TypeOK'
    BY DEF IInv, ParkLock, TypeOK, Goto, HandlerPCs
<1>2. MethodInv'
    BY DEF IInv, ParkLock, MethodInv
<1>3. StreamInv'
    BY DEF IInv, ParkLock, StreamInv, Goto
<1>4. CurrentInv'
    BY DEF IInv, ParkLock, CurrentInv, Goto
<1>5. WaitersInv'
    BY DEF IInv, ParkLock, WaitersInv, Goto
<1>6. LiveInv'
    BY DEF IInv, ParkLock, LiveInv, Goto, EntryLive
<1> QED
    BY <1>1, <1>2, <1>3, <1>4, <1>5, <1>6 DEF IInv

LEMMA ParkKeeps ==
    ASSUME IInv, NEW r \in Requests, Park(r)
    PROVE  IInv'
<1>1. TypeOK'
  <2>1. (client \in [Requests -> {"new", "sent", "answered"}])'
      BY DEF IInv, Park, TypeOK
  <2>2. (tag \in [Requests -> Tags])'
      BY DEF IInv, Park, TypeOK, Tags
  <2>3. (method \in [Requests -> {"End", "Ping", "GetNode"}])'
      BY DEF IInv, Park, TypeOK
  <2>4. (stream \in Seq(Requests))'
      BY DEF IInv, Park, TypeOK
  <2>5. (listener \in ListenerPCs)'
      BY DEF IInv, Park, TypeOK, ListenerPCs
  <2>6. (current \in Requests \cup {None})'
      BY DEF IInv, Park, TypeOK
  <2>7. (keeping \in Requests \cup {"listener", None})'
      BY DEF IInv, Park, TypeOK
  <2>8. (pending \in [Tags -> Nodes \cup {None}])'
      BY DEF IInv, Park, TypeOK, Tags
  <2>9. (entry \in [Requests -> Nodes \cup {None}])'
      BY DEF IInv, Park, TypeOK
  <2>10. (coro \in [Nodes -> Requests \cup {None}])'
      BY DEF IInv, Park, TypeOK
  <2>11. (finished \in Seq(Nodes))'
    <3>1. finished \in Seq(Nodes) /\ entry[r] \in Nodes
        BY DEF IInv, TypeOK, LiveInv, Park, Goto
    <3>2. finished' = Append(finished, entry[r])
        BY DEF Park
    <3> QED
        BY <3>1, <3>2, AppendProperties
  <2>12. (handler \in [Requests -> HandlerPCs])'
      BY DEF IInv, Park, TypeOK, Goto, HandlerPCs
  <2>13. (writeLock \in BOOLEAN)'
      BY DEF IInv, Park, TypeOK
  <2>14. (waiters \in Seq(Requests))'
      BY DEF IInv, Park, TypeOK
  <2>15. (closed \in BOOLEAN)'
      BY DEF IInv, Park, TypeOK
  <2>16. (crash \in Crashes)'
      BY DEF IInv, Park, TypeOK, Crashes
  <2> QED
      BY <2>1, <2>2, <2>3, <2>4, <2>5, <2>6, <2>7, <2>8, <2>9, <2>10, <2>11,
         <2>12, <2>13, <2>14, <2>15, <2>16 DEF TypeOK
<1>2. MethodInv'
    BY DEF IInv, Park, MethodInv
<1>3. StreamInv'
    BY DEF IInv, Park, StreamInv, Goto
<1>4. CurrentInv'
    BY DEF IInv, Park, CurrentInv, Goto
<1>5. WaitersInv'
    BY DEF IInv, Park, WaitersInv, Goto
<1>6. LiveInv'
    BY DEF IInv, Park, LiveInv, Goto, EntryLive
<1> QED
    BY <1>1, <1>2, <1>3, <1>4, <1>5, <1>6 DEF IInv

-----------------------------------------------------------------------------
(* A connection starts without requests, entries and handlers.              *)
LEMMA InitIInv == Init => IInv
<1> SUFFICES ASSUME Init PROVE IInv
    OBVIOUS
<1>1. TypeOK
  <2>1. 0 \in Tags
      BY MaxTagsAssumption DEF Tags
  <2>2. /\ client \in [Requests -> {"new", "sent", "answered"}]
        /\ tag \in [Requests -> Tags]
        /\ method \in [Requests -> {"End", "Ping", "GetNode"}]
      BY <2>1 DEF Init
  <2>3. /\ stream \in Seq(Requests) /\ finished \in Seq(Nodes)
        /\ waiters \in Seq(Requests)
      BY DEF Init
  <2>4. /\ listener \in ListenerPCs /\ current \in Requests \cup {None}
        /\ keeping \in Requests \cup {"listener", None}
        /\ writeLock \in BOOLEAN /\ closed \in BOOLEAN /\ crash \in Crashes
      BY DEF Init, ListenerPCs, Crashes
  <2>5. /\ pending \in [Tags -> Nodes \cup {None}]
        /\ entry \in [Requests -> Nodes \cup {None}]
        /\ coro \in [Nodes -> Requests \cup {None}]
        /\ handler \in [Requests -> HandlerPCs]
      BY DEF Init, HandlerPCs
  <2> QED
      BY <2>2, <2>3, <2>4, <2>5 DEF TypeOK
<1>2. MethodInv /\ StreamInv /\ CurrentInv
    BY DEF Init, MethodInv, StreamInv, CurrentInv, Busy
<1>3. WaitersInv /\ LiveInv
    BY DEF Init, WaitersInv, LiveInv, EntryLive
<1> QED
    BY <1>1, <1>2, <1>3 DEF IInv

(* No step of the client, of the listener or of a handler breaks it.        *)
LEMMA NextKeeps == IInv /\ [Next]_vars => IInv'
<1> SUFFICES ASSUME IInv, [Next]_vars PROVE IInv'
    OBVIOUS
<1>1. ASSUME NEW r \in Requests, SendRequest(r)
      PROVE  IInv'
    BY <1>1, SendRequestKeeps
<1>2. ASSUME NEW r \in Requests, Handle(r)
      PROVE  IInv'
    BY <1>2, BeginKeeps, AcquireKeeps, AcquireWaitsKeeps, WriteKeeps,
       WriteEndsKeeps, ReleaseKeeps, HandOverKeeps, ParkLockKeeps, ParkKeeps
    DEF Handle
<1>3. CASE Close
    BY <1>3, CloseKeeps
<1>4. CASE Listen
    BY <1>4, ReadHeaderKeeps, ReapKeeps, ReapStaleKeeps, AcceptKeeps,
       RejectKeeps, FallThroughKeeps, ReadBodyKeeps, SpawnKeeps,
       SpawnOverLiveKeeps, ListenEndsKeeps, DrainKeeps, DrainTooEarlyKeeps,
       ListenReturnsKeeps
    DEF Listen
<1>5. CASE UNCHANGED vars
    BY <1>5 DEF vars, IInv, TypeOK, MethodInv, StreamInv, CurrentInv,
       WaitersInv, LiveInv, EntryLive, Busy
<1> QED
    BY <1>1, <1>2, <1>3, <1>4, <1>5 DEF Next

(* Stream, map, handlers and waiters fit together in every state, also of a *)
(* connection whose client uses tags again at once or sends any method.     *)
THEOREM Invariance == Spec => []IInv
<1>1. Init => IInv
    BY InitIInv
<1>2. IInv /\ [Next]_vars => IInv'
    BY NextKeeps
<1> QED
    BY <1>1, <1>2, PTL DEF Spec

-----------------------------------------------------------------------------
(* Every variable has its type; in particular every waiter is a request and *)
(* every reference in finishedHandlers was taken of an entry (lines 71-95). *)
THEOREM TypeCorrect == Spec => []TypeOK
<1>1. IInv => TypeOK
    BY DEF IInv
<1> QED
    BY <1>1, Invariance, PTL

(* No reap frees the entry of a handler that has not ended, and no new      *)
(* request takes it over (lines 24-37 and 64).                              *)
THEOREM EntriesLive == Spec => []EntryLive
<1>1. IInv => EntryLive
    BY DEF IInv, LiveInv
<1> QED
    BY <1>1, Invariance, PTL

-----------------------------------------------------------------------------
(* The release of lines 71-78 is also done for methods that never took the  *)
(* lock.  Until a handler of such a method begins, the lock has its owner.  *)
Lockless ==
    \E r \in Requests :
       method[r] # "Ping" /\ handler[r] \notin {"none", "ready"}

Owns(r) ==
    handler[r] \in {"granted", "writing", "handed", "sending", "release"}

(* One handler owns the lock exactly while it is taken, and it is taken     *)
(* while somebody waits.                                                    *)
OwnInv ==
    /\ \A q, r \in Requests : Owns(q) /\ Owns(r) => q = r
    /\ writeLock <=> \E r \in Requests : Owns(r)
    /\ \A r \in Requests : handler[r] = "waiting" => writeLock

PingInv ==
    /\ OwnInv
    /\ WriteExclusive

(* The steps that leave the handlers and the lock alone.                    *)
LEMMA QuietOwns ==
    ASSUME PingInv, UNCHANGED <<handler, writeLock>>,
           crash' # "simultaneous_write"
    PROVE  PingInv'
<1>1. \A r \in Requests : Owns(r)' <=> Owns(r)
    BY DEF Owns
<1> QED
    BY <1>1 DEF PingInv, OwnInv, WriteExclusive

(* Handlers that are reaped are parked: they do not own the lock.           *)
LEMMA ReapOwns ==
    ASSUME PingInv, IInv, crash = "no", Reap
    PROVE  PingInv'
<1>1. OwnInv'
    BY DEF PingInv, Reap, OwnInv, Reapable, Owns
<1>2. WriteExclusive'
    BY DEF PingInv, Reap, WriteExclusive
<1> QED
    BY <1>1, <1>2 DEF PingInv

LEMMA SpawnOwns ==
    ASSUME PingInv, IInv, crash = "no", Spawn
    PROVE  PingInv'
<1>1. OwnInv'
    BY DEF PingInv, IInv, Spawn, OwnInv, CurrentInv, Owns, Busy
<1>2. WriteExclusive'
    BY DEF PingInv, Spawn, WriteExclusive
<1> QED
    BY <1>1, <1>2 DEF PingInv

LEMMA DrainOwns ==
    ASSUME PingInv, IInv, crash = "no", NEW t \in Tags, Drain(t)
    PROVE  PingInv'
<1>1. OwnInv'
    BY DEF PingInv, Drain, OwnInv, Owns
<1>2. WriteExclusive'
    BY DEF PingInv, Drain, WriteExclusive
<1> QED
    BY <1>1, <1>2 DEF PingInv

(* A handler of a ping does not own the lock when it begins (lines 98-113). *)
LEMMA BeginOwns ==
    ASSUME PingInv, IInv, crash = "no", NEW r \in Requests,
           Begin(r), method[r] = "Ping"
    PROVE  PingInv'
<1>1. OwnInv'
  <2>1. handler' = [handler EXCEPT ![r] = "acquire"] /\ handler[r] = "ready"
      BY DEF Begin, Goto
  <2>2. ASSUME NEW q \in Requests
        PROVE  /\ Owns(q)' <=> Owns(q)
               /\ handler'[q] = "waiting" <=> handler[q] = "waiting"
      BY <2>1 DEF IInv, TypeOK, Owns
  <2> QED
      BY <2>2 DEF Begin, PingInv, OwnInv
<1>2. WriteExclusive'
    BY DEF PingInv, Begin, WriteExclusive
<1> QED
    BY <1>1, <1>2 DEF PingInv

LEMMA AcquireOwns ==
    ASSUME PingInv, IInv, crash = "no", NEW r \in Requests,
           Acquire(r)
    PROVE  PingInv'
<1>1. OwnInv'
    BY DEF PingInv, IInv, Acquire, OwnInv, TypeOK, Goto, Owns
<1>2. WriteExclusive'
    BY DEF PingInv, Acquire, WriteExclusive
<1> QED
    BY <1>1, <1>2 DEF PingInv

LEMMA AcquireWaitsOwns ==
    ASSUME PingInv, IInv, crash = "no", NEW r \in Requests,
           AcquireWaits(r)
    PROVE  PingInv'
<1>1. OwnInv'
    BY DEF PingInv, AcquireWaits, OwnInv, Goto, Owns
<1>2. WriteExclusive'
    BY DEF PingInv, AcquireWaits, WriteExclusive
<1> QED
    BY <1>1, <1>2 DEF PingInv

(* The owner of the lock is the only one that writes (lines 98-117).        *)
LEMMA WriteOwns ==
    ASSUME PingInv, IInv, crash = "no", NEW r \in Requests,
           Write(r)
    PROVE  PingInv'
<1>0. PICK to \in HandlerPCs :
          /\ to \in {"writing", "sending"}
          /\ handler[r] \in {"granted", "handed"}
          /\ handler' = [handler EXCEPT ![r] = to]
    BY DEF Write, Goto, HandlerPCs
<1>1. OwnInv'
    BY <1>0 DEF PingInv, Write, OwnInv, Owns
<1>2. WriteExclusive'
    BY <1>0 DEF PingInv, Write, WriteExclusive, OwnInv, Owns
<1> QED
    BY <1>1, <1>2 DEF PingInv

LEMMA WriteEndsOwns ==
    ASSUME PingInv, IInv, crash = "no", NEW r \in Requests,
           WriteEnds(r)
    PROVE  PingInv'
<1>0. PICK to \in HandlerPCs :
          /\ to = "release"
          /\ handler[r] \in {"writing", "sending"}
          /\ handler' = [handler EXCEPT ![r] = to]
    BY DEF WriteEnds, Goto, HandlerPCs
<1>1. OwnInv'
    BY <1>0 DEF PingInv, WriteEnds, OwnInv, Owns
<1>2. WriteExclusive'
    BY <1>0 DEF PingInv, WriteEnds, WriteExclusive
<1> QED
    BY <1>1, <1>2 DEF PingInv

(* The lock is freed by its owner, with nobody waiting, or handed over      *)
(* (lines 71-78).                                                           *)
LEMMA ReleaseOwns ==
    ASSUME PingInv, IInv, crash = "no", NEW r \in Requests,
           Release(r)
    PROVE  PingInv'
<1>1. OwnInv'
    BY DEF PingInv, IInv, Release, OwnInv, TypeOK, WaitersInv, Goto, Owns
<1>2. WriteExclusive'
    BY DEF PingInv, Release, WriteExclusive
<1> QED
    BY <1>1, <1>2 DEF PingInv

LEMMA HandOverOwns ==
    ASSUME PingInv, IInv, crash = "no", NEW r \in Requests,
           HandOver(r)
    PROVE  PingInv'
<1>1. OwnInv'
  <2>1. PICK w \in Requests :
              /\ handler[w] = "waiting" /\ handler[r] = "release"
              /\ \A q \in Requests :
                    handler'[q] = IF q = w THEN "handed"
                                  ELSE IF q = r THEN "parking"
                                  ELSE handler[q]
      BY HandOverEffect
  <2>2. Owns(r) /\ Owns(w)' /\ writeLock' = writeLock
      BY <2>1 DEF Owns, HandOver
  <2>3. \A q \in Requests : Owns(q) => q = r
      BY <2>2 DEF PingInv, OwnInv
  <2>4. \A q \in Requests : Owns(q)' => q = w
      BY <2>1, <2>3 DEF Owns
  <2>5. writeLock'
      BY <2>2 DEF PingInv, OwnInv
  <2> QED
      BY <2>2, <2>4, <2>5 DEF OwnInv
<1>2. WriteExclusive'
    BY DEF PingInv, HandOver, WriteExclusive
<1> QED
    BY <1>1, <1>2 DEF PingInv

(* Parking is done by handlers that do not own the write lock (lines        *)
(* 80-95).                                                                  *)
LEMMA ParkLockOwns ==
    ASSUME PingInv, IInv, crash = "no", NEW r \in Requests,
           ParkLock(r)
    PROVE  PingInv'
<1>1. OwnInv'
    BY DEF PingInv, ParkLock, OwnInv, Goto, Owns
<1>2. WriteExclusive'
    BY DEF PingInv, ParkLock, WriteExclusive
<1> QED
    BY <1>1, <1>2 DEF PingInv

LEMMA ParkOwns ==
    ASSUME PingInv, IInv, crash = "no", NEW r \in Requests,
           Park(r)
    PROVE  PingInv'
<1>1. OwnInv'
    BY DEF PingInv, Park, OwnInv, Goto, Owns
<1>2. WriteExclusive'
    BY DEF PingInv, Park, WriteExclusive
<1> QED
    BY <1>1, <1>2 DEF PingInv

LEMMA InitPing == Init => PingInv
    BY DEF Init, PingInv, OwnInv, Owns, WriteExclusive

(* No step gives the lock to two handlers, or leaks it, but the begin of a  *)
(* method that does not take it.                                            *)
LEMMA NextOwns ==
    ASSUME IInv, PingInv, [Next]_vars
    PROVE  PingInv' \/ Lockless'
<1>1. CASE /\ crash = "no"
           /\ \/ \E r \in Requests : SendRequest(r)
              \/ Close \/ ReadHeader \/ ReapStale \/ Accept \/ Reject
              \/ FallThrough \/ ReadBody \/ SpawnOverLive \/ ListenEnds
              \/ \E t \in Tags : DrainTooEarly(t)
              \/ ListenReturns
  <2>1. UNCHANGED <<handler, writeLock>> /\ crash' # "simultaneous_write"
      BY <1>1 DEF SendRequest, Close, ReadHeader, ReapStale, Accept, Reject,
         FallThrough, ReadBody, SpawnOverLive, ListenEnds, DrainTooEarly,
         ListenReturns
  <2> QED
      BY <2>1, QuietOwns
<1>2. CASE crash = "no" /\ (Reap \/ Spawn \/ \E t \in Tags : Drain(t))
    BY <1>2, ReapOwns, SpawnOwns, DrainOwns
<1>3. ASSUME NEW r \in Requests, Begin(r), method[r] # "Ping"
      PROVE  Lockless'
  <2>1. handler'[r] = "release" /\ method'[r] # "Ping"
      BY <1>3 DEF Begin, Goto, IInv, TypeOK
  <2> QED
      BY <2>1 DEF Lockless
<1>4. CASE crash = "no" /\ \E r \in Requests : Handle(r)
    BY <1>3, <1>4, BeginOwns, AcquireOwns, AcquireWaitsOwns, WriteOwns,
       WriteEndsOwns, ReleaseOwns, HandOverOwns, ParkLockOwns, ParkOwns
    DEF Handle
<1>5. CASE UNCHANGED vars
  <2>1. UNCHANGED <<handler, writeLock>> /\ crash' # "simultaneous_write"
      BY <1>5 DEF vars, PingInv, WriteExclusive
  <2> QED
      BY <2>1, QuietOwns
<1> QED
    BY <1>1, <1>2, <1>4, <1>5 DEF Next, Listen

(* A handler that has begun stays that way, and its method is fixed.        *)
LEMMA LocklessStays ==
    ASSUME IInv, Lockless, [Next]_vars
    PROVE  Lockless'
<1>1. PICK r \in Requests :
          method[r] # "Ping" /\ handler[r] \notin {"none", "ready"}
    BY DEF Lockless
<1>2. method'[r] = method[r]
  <2>1. CASE \E q \in Requests : SendRequest(q)
    <3>1. PICK q \in Requests : SendRequest(q)
        BY <2>1
    <3>2. q # r
        BY <1>1, <3>1 DEF SendRequest, IInv, StreamInv
    <3> QED
        BY <3>1, <3>2 DEF SendRequest, IInv, TypeOK
  <2>2. CASE ~\E q \in Requests : SendRequest(q)
      BY <2>2 DEF Next, vars, Close, Listen, ReadHeader, Reap, ReapStale,
         Accept, Reject, FallThrough, ReadBody, Spawn, SpawnOverLive,
         ListenEnds, Drain, DrainTooEarly, ListenReturns, Handle, Begin,
         Acquire, AcquireWaits, Write, WriteEnds, Release, HandOver, ParkLock,
         Park
  <2> QED
      BY <2>1, <2>2
<1>3. handler'[r] \notin {"none", "ready"}
  <2>1. CASE \/ \E q \in Requests : SendRequest(q)
             \/ Close \/ ReadHeader \/ ReapStale \/ Accept \/ Reject
             \/ FallThrough \/ ReadBody \/ SpawnOverLive \/ ListenEnds
             \/ \E t \in Tags : DrainTooEarly(t)
             \/ ListenReturns \/ UNCHANGED vars
    <3>1. handler' = handler
        BY <2>1 DEF SendRequest, Close, ReadHeader, ReapStale, Accept,
           Reject, FallThrough, ReadBody, SpawnOverLive, ListenEnds,
           DrainTooEarly, ListenReturns, vars
    <3> QED
        BY <1>1, <3>1
  <2>2. CASE Reap
    <3>1. handler'[r] \in {"gone", handler[r]}
        BY <2>2 DEF Reap
    <3> QED
        BY <1>1, <3>1
  <2>3. CASE Spawn
    <3>1. handler' = [handler EXCEPT ![current] = "ready"] /\ current # r
        BY <1>1, <2>3 DEF Spawn, IInv, CurrentInv, Busy
    <3> QED
        BY <1>1, <3>1 DEF IInv, TypeOK
  <2>4. ASSUME NEW t \in Tags, Drain(t)
        PROVE  handler'[r] \notin {"none", "ready"}
    <3>1. handler' = [handler EXCEPT ![coro[pending[t]]] = "gone"]
        BY <2>4 DEF Drain
    <3>2. handler'[r] \in {"gone", handler[r]}
        BY <3>1 DEF IInv, TypeOK
    <3> QED
        BY <1>1, <3>2
  <2>5. ASSUME NEW q \in Requests, Handle(q), ~HandOver(q)
        PROVE  handler'[r] \notin {"none", "ready"}
    <3>1. PICK to \in HandlerPCs \ {"none", "ready"} :
              handler' = [handler EXCEPT ![q] = to]
        BY <2>5 DEF Handle, Begin, Acquire, AcquireWaits, Write, WriteEnds,
           Release, ParkLock, Park, Goto, HandlerPCs
    <3> QED
        BY <1>1, <3>1 DEF IInv, TypeOK
  <2>6. ASSUME NEW q \in Requests, HandOver(q)
        PROVE  handler'[r] \notin {"none", "ready"}
    <3>1. handler'[r] \in {"handed", "parking", handler[r]}
        BY <2>6, HandOverEffect
    <3> QED
        BY <1>1, <3>1
  <2> QED
      BY <2>1, <2>2, <2>3, <2>4, <2>5, <2>6 DEF Next, Listen
<1> QED
    BY <1>1, <1>2, <1>3 DEF Lockless

(* What the own invariant says of the write lock.                           *)
LEMMA OwnedLock ==
    ASSUME IInv, PingInv
    PROVE  WriteLockOwned
<1>1. \A r \in Requests : r \in Owners <=> Owns(r)
    BY DEF Owners, Owns
<1>2. Owners \subseteq Requests /\ Waiting \subseteq Requests
    BY DEF Owners, Waiting
<1>3. \A q, r \in Owners : q = r
    BY <1>1, <1>2 DEF PingInv, OwnInv
<1>4. writeLock <=> Owners # {}
    BY <1>1, <1>2 DEF PingInv, OwnInv
<1>5. Waiting # {} => writeLock
    BY DEF PingInv, OwnInv, Waiting
<1>6. Waiting = {waiters[i] : i \in 1 .. Len(waiters)}
  <2>1. \A i \in 1 .. Len(waiters) : waiters[i] \in Requests
      BY DEF IInv, TypeOK
  <2> QED
      BY <2>1 DEF IInv, WaitersInv, Waiting
<1>7. \A i, j \in 1 .. Len(waiters) : waiters[i] = waiters[j] => i = j
    BY DEF IInv, WaitersInv
<1> QED
    BY <1>3, <1>4, <1>5, <1>6, <1>7 DEF WriteLockOwned

LEMMA UntilLockless == Spec => [](PingInv \/ Lockless)
<1>1. Init => PingInv
    BY InitPing
<1>2. IInv /\ (PingInv \/ Lockless) /\ [Next]_vars => (PingInv \/ Lockless)'
    BY NextOwns, LocklessStays
<1> QED
    BY <1>1, <1>2, Invariance, PTL DEF Spec

(* Whatever methods the client uses: until a handler begins whose method    *)
(* does not take the write lock, responses are written one at a time and    *)
(* the lock has one owner or is free (lines 66-78 and 98-113).              *)
THEOREM LockUntilLockless ==
    Spec => []((WriteExclusive /\ WriteLockOwned) \/ Lockless)
<1>1. IInv /\ (PingInv \/ Lockless)
         => (WriteExclusive /\ WriteLockOwned) \/ Lockless
    BY OwnedLock DEF PingInv
<1> QED
    BY <1>1, Invariance, UntilLockless, PTL

LEMMA PingsTakeLock ==
    ASSUME Methods = {"Ping"}, IInv
    PROVE  ~Lockless
BY DEF IInv, MethodInv, Lockless

(* Responses of concurrent pings are written one at a time: the assertion   *)
(* of PlainSocketTransport.cpp:139 holds.                                   *)
THEOREM WritesExclude ==
    ASSUME Methods = {"Ping"}
    PROVE  Spec => []WriteExclusive
<1>1. IInv => ~Lockless
    BY PingsTakeLock
<1> QED
    BY <1>1, Invariance, LockUntilLockless, PTL

(* The write lock has one owner or is free, and whoever waits for it is     *)
(* pushed once, behind an owner (lines 71-78 and 98-113).                   *)
THEOREM LockOwned ==
    ASSUME Methods = {"Ping"}
    PROVE  Spec => []WriteLockOwned
<1>1. IInv => ~Lockless
    BY PingsTakeLock
<1> QED
    BY <1>1, Invariance, LockUntilLockless, PTL

-----------------------------------------------------------------------------
(* Who is destroyed by the assignment of handlerCoro (line 47).             *)
Answering ==
    {"writing", "sending", "release", "parking", "parkLocked", "parked"}

(* A handler that was answered and not reaped has the tag of the listener's *)
(* request: the client has given it out again.                              *)
TagReused ==
    \E q \in Requests \ {current} :
       /\ tag[q] = tag[current]
       /\ client[q] = "answered" /\ handler[q] \in Answering

UncheckedReused == HandlersChecked \/ TagReused

(* Unanswered requests have tags of their own.                              *)
SentInv ==
    \A q, r \in Requests :
       q # r /\ client[q] = "sent" /\ client[r] = "sent" => tag[q] # tag[r]

AnsweredInv ==
    \A r \in Requests :
       client[r] = "answered" => handler[r] \in Answering \cup {"gone"}

(* Entries of the map have addresses of their own.                          *)
MapInv ==
    \A t, u \in Tags : pending[t] = pending[u] /\ pending[t] # None => t = u

(* The handler that an entry of the map keeps is one of its tag, and has    *)
(* not ended.                                                               *)
CoroInv ==
    \A t \in Tags :
       pending[t] # None /\ coro[pending[t]] # None =>
          /\ tag[coro[pending[t]]] = t
          /\ handler[coro[pending[t]]] \notin {"none", "gone"}

ReuseInv ==
    /\ SentInv
    /\ AnsweredInv
    /\ MapInv
    /\ CoroInv
    /\ UncheckedReused

(* The steps that leave the client, the map and the handlers alone.         *)
LEMMA QuietReuse ==
    ASSUME ReuseInv,
           UNCHANGED <<client, tag, pending, coro, handler>>,
           \/ crash' # "unchecked_destroy"
           \/ UNCHANGED <<current, crash>>
    PROVE  ReuseInv'
<1>1. SentInv'
    BY DEF ReuseInv, SentInv
<1>2. AnsweredInv'
    BY DEF ReuseInv, AnsweredInv
<1>3. MapInv'
    BY DEF ReuseInv, MapInv
<1>4. CoroInv'
    BY DEF ReuseInv, CoroInv
<1>5. UncheckedReused'
    BY DEF ReuseInv, UncheckedReused, HandlersChecked, TagReused
<1> QED
    BY <1>1, <1>2, <1>3, <1>4, <1>5 DEF ReuseInv

(* The client takes a tag that no unanswered request has.                   *)
LEMMA SendRequestReuse ==
    ASSUME IInv, ReuseInv, crash = "no", NEW r \in Requests, SendRequest(r)
    PROVE  ReuseInv'
<1>1. PICK t \in Tags \ UsedTags : tag' = [tag EXCEPT ![r] = t]
    BY DEF SendRequest
<1>2. /\ client[r] = "new" /\ client' = [client EXCEPT ![r] = "sent"]
      /\ UNCHANGED <<pending, coro, handler, crash>>
    BY DEF SendRequest
<1>3. \A q \in Requests : /\ tag'[q] = IF q = r THEN t ELSE tag[q]
                          /\ client'[q] = IF q = r THEN "sent" ELSE client[q]
    BY <1>1, <1>2 DEF IInv, TypeOK
<1>4. \A q \in Requests : client[q] = "sent" => tag[q] # t
    BY <1>1 DEF UsedTags
<1>5. SentInv'
    BY <1>3, <1>4 DEF ReuseInv, SentInv
<1>6. AnsweredInv'
    BY <1>2, <1>3 DEF ReuseInv, AnsweredInv
<1>7. MapInv'
    BY <1>2 DEF ReuseInv, MapInv
<1>8. CoroInv'
  <2>1. ASSUME NEW u \in Tags, pending[u] # None, coro[pending[u]] # None
        PROVE  coro[pending[u]] # r /\ coro[pending[u]] \in Requests
    <3>1. coro[pending[u]] \in Requests
        BY <2>1 DEF IInv, TypeOK
    <3>2. handler[coro[pending[u]]] # "none"
        BY <2>1 DEF ReuseInv, CoroInv
    <3> QED
        BY <1>2, <3>1, <3>2 DEF IInv, StreamInv
  <2> QED
      BY <1>2, <1>3, <2>1 DEF ReuseInv, CoroInv
<1>9. UncheckedReused'
    BY <1>2 DEF UncheckedReused, HandlersChecked, TagReused
<1> QED
    BY <1>5, <1>6, <1>7, <1>8, <1>9 DEF ReuseInv

(* A handler is reaped with its entry (lines 24-34).                        *)
LEMMA ReapReuse ==
    ASSUME IInv, ReuseInv, crash = "no", Reap
    PROVE  ReuseInv'
<1>1. /\ UNCHANGED <<client, tag, crash>> /\ Reapable
      /\ pending' = [t \in Tags |->
             IF pending[t] \in Finished THEN None ELSE pending[t]]
      /\ coro' = [n \in Nodes |-> IF n \in Finished THEN None ELSE coro[n]]
      /\ handler' = [r \in Requests |->
             IF \E n \in Finished : coro[n] = r THEN "gone" ELSE handler[r]]
    BY DEF Reap
<1>2. SentInv'
    BY <1>1 DEF ReuseInv, SentInv
<1>3. AnsweredInv'
    BY <1>1 DEF ReuseInv, AnsweredInv
<1>4. MapInv'
    BY <1>1 DEF ReuseInv, MapInv
<1>5. CoroInv'
  <2>1. ASSUME NEW t \in Tags, pending'[t] # None, coro'[pending'[t]] # None
        PROVE  /\ tag'[coro'[pending'[t]]] = t
               /\ handler'[coro'[pending'[t]]] \notin {"none", "gone"}
    <3> DEFINE m == pending[t]
               q == coro[pending[t]]
    <3>1. pending'[t] = m /\ m \notin Finished /\ m # None
        BY <1>1, <2>1
    <3>2. m \in Nodes
        BY <3>1 DEF IInv, TypeOK
    <3>3. coro'[m] = q /\ q # None
        BY <1>1, <2>1, <3>1, <3>2
    <3>4. q \in Requests
        BY <3>2, <3>3 DEF IInv, TypeOK
    <3>5. tag[q] = t /\ handler[q] \notin {"none", "gone"}
        BY <3>1, <3>3 DEF ReuseInv, CoroInv
    <3>6. ASSUME NEW n \in Finished, coro[n] = q
          PROVE  FALSE
      <4>1. PICK u \in Tags : pending[u] = n
          BY <1>1 DEF Reapable, Live
      <4>2. n # None
          BY NoneAssumption DEF Finished, IInv, TypeOK
      <4>3. tag[q] = u
          BY <3>3, <3>6, <4>1, <4>2 DEF ReuseInv, CoroInv
      <4> QED
          BY <3>1, <3>5, <4>1, <4>3
    <3>7. handler'[q] = handler[q]
        BY <1>1, <3>4, <3>6
    <3> QED
        BY <1>1, <3>1, <3>3, <3>5, <3>7
  <2> QED
      BY <2>1 DEF CoroInv
<1>6. UncheckedReused'
    BY <1>1 DEF UncheckedReused, HandlersChecked, TagReused
<1> QED
    BY <1>2, <1>3, <1>4, <1>5, <1>6 DEF ReuseInv

(* A new entry has an address that no other one has, and keeps no handler.  *)
LEMMA EmplaceReuse ==
    ASSUME IInv, ReuseInv, listener \in Busy, EmplaceEntry,
           UNCHANGED <<client, tag, handler, crash>>, crash = "no"
    PROVE  ReuseInv'
<1>1. PICK n \in Nodes :
          /\ pending' = [pending EXCEPT ![tag[current]] = n]
          /\ \/ pending[tag[current]] = n /\ coro' = coro
             \/ /\ pending[tag[current]] = None /\ ~Live(n)
                /\ coro' = [coro EXCEPT ![n] = None]
    BY EmplaceEffect
<1>2. /\ pending \in [Tags -> Nodes \cup {None}]
      /\ coro \in [Nodes -> Requests \cup {None}]
      /\ tag[current] \in Tags
    BY DEF IInv, TypeOK, CurrentInv
<1>3. \A t \in Tags : pending'[t] = IF t = tag[current] THEN n ELSE pending[t]
    BY <1>1, <1>2
<1>4. SentInv' /\ AnsweredInv' /\ UncheckedReused'
    BY DEF ReuseInv, SentInv, AnsweredInv, UncheckedReused,
       HandlersChecked, TagReused
<1>5. CASE pending[tag[current]] = n /\ coro' = coro
  <2>1. \A t \in Tags : pending'[t] = pending[t]
      BY <1>3, <1>5
  <2>2. MapInv'
      BY <2>1 DEF ReuseInv, MapInv
  <2>3. CoroInv'
      BY <1>5, <2>1 DEF ReuseInv, CoroInv
  <2> QED
      BY <1>4, <2>2, <2>3 DEF ReuseInv
<1>6. CASE /\ pending[tag[current]] = None /\ ~Live(n)
           /\ coro' = [coro EXCEPT ![n] = None]
  <2>1. \A t \in Tags : pending[t] # n
      BY <1>6 DEF Live
  <2>2. coro'[n] = None /\ \A m \in Nodes \ {n} : coro'[m] = coro[m]
      BY <1>2, <1>6
  <2>3. MapInv'
      BY <1>3, <2>1 DEF ReuseInv, MapInv
  <2>4. ASSUME NEW t \in Tags, pending'[t] # None, coro'[pending'[t]] # None
        PROVE  /\ tag'[coro'[pending'[t]]] = t
               /\ handler'[coro'[pending'[t]]] \notin {"none", "gone"}
    <3>1. pending'[t] = pending[t]
        BY <1>3, <2>2, <2>4
    <3>2. pending[t] \in Nodes \ {n}
        BY <1>2, <2>1, <2>4, <3>1
    <3> QED
        BY <2>2, <2>4, <3>1, <3>2 DEF ReuseInv, CoroInv
  <2>5. CoroInv'
      BY <2>4 DEF CoroInv
  <2> QED
      BY <1>4, <2>3, <2>5 DEF ReuseInv
<1> QED
    BY <1>1, <1>5, <1>6

(* The new handler is kept by the entry of its own tag (line 47).           *)
LEMMA SpawnReuse ==
    ASSUME IInv, ReuseInv, crash = "no", Spawn
    PROVE  ReuseInv'
<1>1. /\ UNCHANGED <<client, tag, pending, crash>>
      /\ coro' = [coro EXCEPT ![entry[current]] = current]
      /\ handler' = [handler EXCEPT ![current] = "ready"]
    BY DEF Spawn
<1>2. /\ current \in Requests /\ handler[current] = "none"
      /\ entry[current] \in Nodes /\ pending[tag[current]] = entry[current]
    BY DEF Spawn, IInv, CurrentInv, Busy
<1>3. /\ \A m \in Nodes : coro'[m] = IF m = entry[current] THEN current
                                     ELSE coro[m]
      /\ \A r \in Requests : handler'[r] = IF r = current THEN "ready"
                                           ELSE handler[r]
    BY <1>1, <1>2 DEF IInv, TypeOK
<1>4. SentInv' /\ MapInv' /\ UncheckedReused'
    BY <1>1 DEF ReuseInv, SentInv, MapInv, UncheckedReused,
       HandlersChecked, TagReused
<1>5. AnsweredInv'
    BY <1>1, <1>2, <1>3 DEF ReuseInv, AnsweredInv, Answering
<1>6. ASSUME NEW t \in Tags, pending[t] # None, coro'[pending[t]] # None
      PROVE  /\ tag[coro'[pending[t]]] = t
             /\ handler'[coro'[pending[t]]] \notin {"none", "gone"}
  <2>1. pending[t] \in Nodes /\ tag[current] \in Tags
      BY <1>2, <1>6 DEF IInv, TypeOK
  <2>2. CASE pending[t] = entry[current]
    <3>1. t = tag[current]
        BY <1>2, <1>6, <2>1, <2>2 DEF ReuseInv, MapInv
    <3> QED
        BY <1>2, <1>3, <2>1, <2>2, <3>1
  <2>3. CASE pending[t] # entry[current]
    <3>1. coro'[pending[t]] = coro[pending[t]]
        BY <1>3, <2>1, <2>3
    <3>2. coro[pending[t]] \in Requests
        BY <1>6, <2>1, <3>1 DEF IInv, TypeOK
    <3> QED
        BY <1>2, <1>3, <1>6, <3>1, <3>2 DEF ReuseInv, CoroInv
  <2> QED
      BY <2>2, <2>3
<1>7. CoroInv'
    BY <1>1, <1>6 DEF CoroInv
<1> QED
    BY <1>4, <1>5, <1>7 DEF ReuseInv

(* The handler that is destroyed was answered: the client has given its tag *)
(* to the listener's request.                                               *)
LEMMA SpawnOverLiveReuse ==
    ASSUME IInv, ReuseInv, crash = "no", SpawnOverLive
    PROVE  ReuseInv'
<1>1. /\ UNCHANGED <<client, tag, pending, coro, handler, current>>
      /\ coro[entry[current]] # None
    BY DEF SpawnOverLive
<1>2. /\ current \in Requests /\ handler[current] = "none"
      /\ client[current] # "new"
      /\ entry[current] \in Nodes /\ pending[tag[current]] = entry[current]
    BY DEF SpawnOverLive, IInv, CurrentInv, Busy
<1> DEFINE q == coro[entry[current]]
<1>3. q \in Requests /\ tag[current] \in Tags /\ entry[current] # None
    BY <1>1, <1>2, NoneAssumption DEF IInv, TypeOK
<1>4. tag[q] = tag[current] /\ handler[q] \notin {"none", "gone"}
    BY <1>1, <1>2, <1>3 DEF ReuseInv, CoroInv
<1>5. q # current /\ client[q] # "new"
    BY <1>2, <1>3, <1>4 DEF IInv, StreamInv
<1>6. client[current] = "sent"
    BY <1>2 DEF IInv, TypeOK, ReuseInv, AnsweredInv, Answering
<1> HIDE DEF q
<1>7. client[q] = "answered"
    BY <1>2, <1>3, <1>4, <1>5, <1>6 DEF IInv, TypeOK, ReuseInv, SentInv
<1>8. handler[q] \in Answering
    BY <1>3, <1>4, <1>7 DEF ReuseInv, AnsweredInv
<1>9. UncheckedReused'
    BY <1>1, <1>3, <1>4, <1>5, <1>7, <1>8 DEF UncheckedReused,
       HandlersChecked, TagReused
<1>10. SentInv' /\ AnsweredInv' /\ MapInv' /\ CoroInv'
    BY <1>1 DEF ReuseInv, SentInv, AnsweredInv, MapInv, CoroInv
<1> QED
    BY <1>9, <1>10 DEF ReuseInv

(* A handler that is drained leaves with its entry (lines 54-61).           *)
LEMMA DrainReuse ==
    ASSUME IInv, ReuseInv, crash = "no", NEW t \in Tags, Drain(t)
    PROVE  ReuseInv'
<1> DEFINE n == pending[t]
<1>1. /\ UNCHANGED <<client, tag, crash>>
      /\ n # None /\ coro[n] # None
      /\ pending' = [pending EXCEPT ![t] = None]
      /\ coro' = [coro EXCEPT ![n] = None]
      /\ handler' = [handler EXCEPT ![coro[n]] = "gone"]
    BY DEF Drain, DrainNext
<1>2. n \in Nodes /\ coro[n] \in Requests /\ tag[coro[n]] = t
    BY <1>1 DEF IInv, TypeOK, ReuseInv, CoroInv
<1>3. /\ \A u \in Tags : pending'[u] = IF u = t THEN None ELSE pending[u]
      /\ \A m \in Nodes : coro'[m] = IF m = n THEN None ELSE coro[m]
      /\ \A r \in Requests :
            handler'[r] = IF r = coro[n] THEN "gone" ELSE handler[r]
    BY <1>1, <1>2 DEF IInv, TypeOK
<1>4. SentInv' /\ UncheckedReused'
    BY <1>1 DEF ReuseInv, SentInv, UncheckedReused, HandlersChecked, TagReused
<1>5. AnsweredInv'
    BY <1>1, <1>3 DEF ReuseInv, AnsweredInv
<1>6. MapInv'
    BY <1>3 DEF ReuseInv, MapInv
<1>7. ASSUME NEW u \in Tags, pending'[u] # None, coro'[pending'[u]] # None
      PROVE  /\ tag'[coro'[pending'[u]]] = u
             /\ handler'[coro'[pending'[u]]] \notin {"none", "gone"}
  <2>1. u # t /\ pending'[u] = pending[u]
      BY <1>3, <1>7
  <2>2. pending[u] \in Nodes /\ pending[u] # n
      BY <1>1, <1>7, <2>1 DEF IInv, TypeOK, ReuseInv, MapInv
  <2>3. coro'[pending[u]] = coro[pending[u]]
      BY <1>3, <2>2
  <2>4. coro[pending[u]] \in Requests
      BY <1>7, <2>1, <2>2, <2>3 DEF IInv, TypeOK
  <2>5. /\ tag[coro[pending[u]]] = u
        /\ handler[coro[pending[u]]] \notin {"none", "gone"}
      BY <1>7, <2>1, <2>3 DEF ReuseInv, CoroInv
  <2>6. coro[pending[u]] # coro[n]
      BY <1>2, <2>1, <2>5
  <2> QED
      BY <1>1, <1>3, <2>1, <2>3, <2>4, <2>5, <2>6
<1>8. CoroInv'
    BY <1>7 DEF CoroInv
<1> QED
    BY <1>4, <1>5, <1>6, <1>8 DEF ReuseInv

(* A handler answers when it has begun, and is not gone before it is reaped. *)
LEMMA HandleReuse ==
    ASSUME IInv, ReuseInv, crash = "no", NEW r \in Requests, Handle(r)
    PROVE  ReuseInv'
<1>1. UNCHANGED <<tag, pending, coro>> /\ crash' # "unchecked_destroy"
    BY DEF Handle, Begin, Acquire, AcquireWaits, Write, WriteEnds, Release,
       HandOver, ParkLock, Park
<1>2. \A q \in Requests :
         /\ client'[q] = IF Write(r) /\ q = r THEN "answered" ELSE client[q]
         /\ client[q] = "answered" =>
               handler[q] \in Answering \cup {"gone"}
    BY DEF Handle, Begin, Acquire, AcquireWaits, Write, WriteEnds, Release,
       HandOver, ParkLock, Park, IInv, TypeOK, ReuseInv, AnsweredInv
<1>3. \A q \in Requests :
         /\ Write(r) /\ q = r => handler'[q] \in {"writing", "sending"}
         /\ handler[q] \in Answering \cup {"gone"}
               => handler'[q] \in Answering \cup {"gone"}
         /\ handler[q] \notin {"none", "gone"}
               => handler'[q] \notin {"none", "gone"}
  <2>1. CASE HandOver(r)
    <3>1. \A q \in Requests :
              \/ handler'[q] = "handed" /\ handler[q] = "waiting"
              \/ handler'[q] = "parking" /\ handler[q] = "release"
              \/ handler'[q] = handler[q]
        BY <2>1, HandOverEffect
    <3>2. ~Write(r)
        BY <2>1 DEF HandOver, Write, Goto
    <3> QED
        BY <3>1, <3>2 DEF Answering
  <2>2. CASE ~HandOver(r)
    <3>1. PICK to \in HandlerPCs \ {"none", "gone"} :
              /\ handler' = [handler EXCEPT ![r] = to]
              /\ handler[r] \in Answering => to \in Answering
              /\ handler[r] # "gone"
              /\ Write(r) => to \in {"writing", "sending"}
        BY <2>2 DEF Handle, Begin, Acquire, AcquireWaits, Write, WriteEnds,
           Release, ParkLock, Park, Goto, HandlerPCs, Answering
    <3> QED
        BY <3>1 DEF IInv, TypeOK
  <2> QED
      BY <2>1, <2>2
<1>4. SentInv'
    BY <1>1, <1>2 DEF ReuseInv, SentInv
<1>5. AnsweredInv'
    BY <1>2, <1>3 DEF AnsweredInv, Answering
<1>6. MapInv' /\ UncheckedReused'
    BY <1>1 DEF ReuseInv, MapInv, UncheckedReused, HandlersChecked, TagReused
<1>7. CoroInv'
  <2>1. \A t \in Tags : pending[t] # None /\ coro[pending[t]] # None =>
                           coro[pending[t]] \in Requests
      BY DEF IInv, TypeOK
  <2> QED
      BY <1>1, <1>3, <2>1 DEF ReuseInv, CoroInv
<1> QED
    BY <1>4, <1>5, <1>6, <1>7 DEF ReuseInv

LEMMA NextReuse ==
    ASSUME IInv, ReuseInv, [Next]_vars
    PROVE  ReuseInv'
<1>1. CASE crash = "no" /\ \E r \in Requests : SendRequest(r) \/ Handle(r)
    BY <1>1, SendRequestReuse, HandleReuse
<1>2. CASE crash = "no" /\ (Accept \/ FallThrough)
    BY <1>2, EmplaceReuse DEF Accept, FallThrough, Busy
<1>3. CASE /\ crash = "no"
           /\ Reap \/ Spawn \/ SpawnOverLive \/ \E t \in Tags : Drain(t)
    BY <1>3, ReapReuse, SpawnReuse, SpawnOverLiveReuse, DrainReuse
<1>4. CASE /\ crash = "no"
           /\ \/ Close \/ ReadHeader \/ ReapStale \/ Reject \/ ReadBody
              \/ ListenEnds \/ ListenReturns
              \/ \E t \in Tags : DrainTooEarly(t)
  <2>1. /\ UNCHANGED <<client, tag, pending, coro, handler>>
        /\ crash' # "unchecked_destroy"
      BY <1>4 DEF Close, ReadHeader, ReapStale, Reject, ReadBody, ListenEnds,
         ListenReturns, DrainTooEarly
  <2> QED
      BY <2>1, QuietReuse
<1>5. CASE UNCHANGED vars
    BY <1>5, QuietReuse DEF vars
<1> QED
    BY <1>1, <1>2, <1>3, <1>4, <1>5 DEF Next, Listen

(* HandlersChecked can only fail by a tag that the client uses again, as it *)
(* may once it has the response, before the handler that sent the response  *)
(* was reaped (lines 24-47).                                                *)
THEOREM UncheckedOnlyReused == Spec => [](HandlersChecked \/ TagReused)
<1>1. Init => ReuseInv
    BY DEF Init, ReuseInv, SentInv, AnsweredInv, MapInv, CoroInv,
       UncheckedReused, HandlersChecked, TagReused
<1>2. IInv /\ ReuseInv /\ [Next]_vars => ReuseInv'
    BY NextReuse
<1>3. ReuseInv => HandlersChecked \/ TagReused
    BY DEF ReuseInv, UncheckedReused
<1> QED
    BY <1>1, <1>2, <1>3, Invariance, PTL DEF Spec
=============================================================================
