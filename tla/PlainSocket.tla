----------------------------- MODULE PlainSocket -----------------------------
(***************************************************************************)
(* A TCP transport, src/src/transport/PlainSocketTransport.cpp.            *)
(*                                                                         *)
(* The coroutine of a rawRead publishes its buffer and its handle and      *)
(* suspends; callbacks of the event loop fill the buffer and schedule the  *)
(* handle.  close, connect and rawWrite run on other threads.  Calls into  *)
(* libuv are made under the event loop's lock and are single steps here    *)
(* (EventLoop has the lock); how a caller joins the coroutine it calls is  *)
(* one step too (Coroutines has it).                                       *)
(***************************************************************************)
EXTENDS Naturals, Sequences

CONSTANTS
    Sizes,      \* sizes of reads, 0 among them
    Lens,       \* lengths of writes
    MaxReads,   \* bound: how many reads
    MaxWrites,  \* bound: how many writes
    MaxBytes    \* bound: how many bytes the peer sends

ASSUME SizesAssumption == Sizes \subseteq Nat
ASSUME LensAssumption == Lens \subseteq Nat \ {0}
ASSUME BoundsAssumption == {MaxReads, MaxWrites, MaxBytes} \subseteq Nat

VARIABLES
    conn,       \* connect, and the error callback that is installed
    read,       \* the members of the transport that a read uses
    co,         \* the coroutine of the rawRead in progress
    socket,     \* the libuv handle, and whether the transport exists
    writer,     \* the rawWrite in progress
    received,   \* ghost: the bytes the kernel took, as <<write, byte>>
    got,        \* ghost: what the last read returned
    calls,      \* ghost: how many reads and writes have begun
    crash       \* what ended the process

vars == <<conn, read, co, socket, writer, received, got, calls, crash>>

ConnPCs == {"start", "resolved", "registered", "suspended", "scheduled",
            "connected", "failed"}

(* A connect that libuv refuses at once is followed by no event. *)
Attempts == {"none", "pending", "refused", "made", "error"}

CoPCs == {"none", "starting", "suspended", "scheduled"}

(* The ends of the process: assertions of PlainSocketTransport.cpp, a      *)
(* running coroutine that is resumed, an exception without a caller to     *)
(* take it, a promise that unwinding destroys unchecked, an event that     *)
(* uses the locals of a connect that has returned.                         *)
Crashes == {"no", "simultaneous_read", "flag_not_raised", "no_request",
            "transport_gone", "resumed_running", "raised_without_caller",
            "unchecked_destroy", "stale_connect_handle"}

(* The bytes of the peer are numbered from 1. *)
Failed == <<0>>

(* A transport that was accepted is connected, one that was created for    *)
(* connect is not; setupHandler has installed its callbacks.               *)
Init ==
    /\ conn \in [pc : {"start", "connected"}, attempt : {"none"},
                 errorHandler : {"own"}]
    /\ read = [data |-> <<>>, offset |-> 0, size |-> 0, handle |-> FALSE,
               flag |-> FALSE]
    /\ co = [pc |-> "none", stored |-> FALSE]
    /\ socket = [reading |-> FALSE, pos |-> 0, eof |-> FALSE,
                 closing |-> FALSE, closed |-> FALSE, alive |-> TRUE]
    /\ writer = [flag |-> FALSE, len |-> 0]
    /\ received = <<>>
    /\ got = <<>>
    /\ calls = [read |-> 0, write |-> 0]
    /\ crash = "no"

readVars == <<read, co, got>>
writeVars == <<writer, received>>

-----------------------------------------------------------------------------
(* connect *)

Resolve ==
    /\ conn.pc = "start"
    /\ \E to \in {"resolved", "failed"} : conn' = [conn EXCEPT !.pc = to]
    /\ UNCHANGED <<readVars, socket, writeVars, calls, crash>>

(* Both callbacks get the handle of the coroutine, which still runs; the   *)
(* one for errors replaces that of setupHandler, for ever.                 *)
Register ==
    /\ conn.pc = "resolved"
    /\ \E result \in {"pending", "refused"} :
           conn' = [pc |-> "registered", attempt |-> result,
                    errorHandler |-> "connect"]
    /\ UNCHANGED <<readVars, socket, writeVars, calls, crash>>

(* Also after a connect that was refused. *)
ConnectSuspends ==
    /\ conn.pc = "registered"
    /\ conn' = [conn EXCEPT !.pc = "suspended"]
    /\ UNCHANGED <<readVars, socket, writeVars, calls, crash>>

ConnectEvent(result) ==
    /\ conn.attempt = "pending"
    /\ IF conn.pc = "suspended"
       THEN /\ conn' = [conn EXCEPT !.pc = "scheduled", !.attempt = result]
            /\ UNCHANGED crash
       ELSE crash' = "resumed_running" /\ UNCHANGED conn
    /\ UNCHANGED <<readVars, socket, writeVars, calls>>

ConnectReturns ==
    /\ conn.pc = "scheduled"
    /\ conn' = [conn EXCEPT !.pc = IF conn.attempt = "made" THEN "connected"
                                   ELSE "failed"]
    /\ UNCHANGED <<readVars, socket, writeVars, calls, crash>>

-----------------------------------------------------------------------------
(* rawRead *)

(* Up to the suspension, without a lock. *)
Start(n) ==
    /\ conn.pc = "connected" /\ socket.alive
    /\ co.pc = "none" /\ got # Failed /\ calls.read < MaxReads
    /\ calls' = [calls EXCEPT !.read = @ + 1]
    /\ \/ /\ read.flag
          /\ crash' = "simultaneous_read"
          /\ UNCHANGED <<read, co>>
       \/ /\ ~read.flag /\ n = 0
          /\ UNCHANGED <<read, co, crash>>
       \/ /\ ~read.flag /\ n > 0
          /\ read' = [read EXCEPT !.data = [i \in 1 .. n |-> 0], !.offset = 0,
                                  !.size = n, !.flag = TRUE]
          /\ co' = [pc |-> "starting", stored |-> FALSE]
          /\ UNCHANGED crash
    /\ UNCHANGED <<conn, socket, writeVars, got>>

Cleared == [data |-> <<>>, offset |-> 0, size |-> 0, handle |-> FALSE,
            flag |-> FALSE]

(* The socket is closing: raiseClosedTransportException.  Nobody is known  *)
(* to wait for the coroutine, the exception leaves the callback, the       *)
(* coroutine and the call of rawRead, and the body of the caller gets it   *)
(* there (a listener or a request may catch it); or, as unwinding destroys *)
(* a promise that nobody has checked, the process ends at Promise.h:102.   *)
FailAtOnce ==
    \/ /\ socket.closing /\ read.flag
       /\ read' = Cleared
       /\ co' = [pc |-> "none", stored |-> FALSE]
       /\ got' = Failed
       /\ crash' \in {crash, "unchecked_destroy"}
       /\ UNCHANGED socket
    \/ /\ socket.closing /\ ~read.flag
       /\ crash' = "flag_not_raised"
       /\ UNCHANGED <<readVars, socket>>

(* The handle is published, and libuv reads. *)
Publish ==
    /\ ~socket.closing
    /\ read' = [read EXCEPT !.handle = TRUE]
    /\ co' = [co EXCEPT !.pc = "suspended"]
    /\ socket' = [socket EXCEPT !.reading = TRUE]
    /\ UNCHANGED <<got, crash>>

(* The coroutine is suspended and its callback runs, under the event       *)
(* loop's lock.                                                            *)
Request ==
    /\ co.pc = "starting"
    /\ Publish \/ FailAtOnce
    /\ UNCHANGED <<conn, writeVars, calls>>

(* The caller gets the coroutine and waits for it. *)
Join ==
    /\ co.pc \in {"suspended", "scheduled"} /\ ~co.stored
    /\ co' = [co EXCEPT !.stored = TRUE]
    /\ UNCHANGED <<conn, read, socket, writeVars, got, calls, crash>>

(* A worker of the pool resumes the coroutine, which ends. *)
Return ==
    /\ co.pc = "scheduled" /\ co.stored
    /\ co' = [pc |-> "none", stored |-> FALSE]
    /\ UNCHANGED <<conn, read, socket, writeVars, got, calls, crash>>

-----------------------------------------------------------------------------
(* Callbacks of the event loop *)

(* raiseClosedTransportException, and the coroutine is scheduled. *)
RaiseClosed ==
    \/ /\ read.flag /\ co.stored
       /\ read' = Cleared
       /\ co' = [co EXCEPT !.pc = "scheduled"]
       /\ got' = Failed
       /\ UNCHANGED crash
    \/ /\ ~read.flag
       /\ crash' = "flag_not_raised"
       /\ UNCHANGED readVars
    \/ /\ read.flag /\ ~co.stored
       /\ crash' = "raised_without_caller"
       /\ UNCHANGED readVars

(* What a callback that holds the transport does for its read. *)
RaiseIfReading ==
    IF socket.alive /\ read.handle THEN RaiseClosed
    ELSE UNCHANGED <<readVars, crash>>

\* Mutant: libuv is told the size of the whole buffer.
RoomOfAll == read.size

(* The allocation callback: where the next bytes go, and how many. *)
Room == read.size - read.offset

\* Mutant: libuv is told the start of the buffer.
FillFromStart(n) ==
    [i \in DOMAIN read.data |->
        IF i \in 1 .. n THEN socket.pos + i ELSE read.data[i]]

Fill(n) ==
    [i \in DOMAIN read.data |->
        IF i \in read.offset + 1 .. read.offset + n
        THEN socket.pos + i - read.offset ELSE read.data[i]]

\* Mutant: reading goes on after the last byte.
CompleteReading(n) ==
    /\ read' = Cleared
    /\ co' = [co EXCEPT !.pc = "scheduled"]
    /\ got' = Fill(n)
    /\ socket' = [socket EXCEPT !.pos = @ + n]
    /\ UNCHANGED crash

(* The buffer is full: stop reading, schedule the coroutine. *)
Complete(n) ==
    /\ read' = Cleared
    /\ co' = [co EXCEPT !.pc = "scheduled"]
    /\ got' = Fill(n)
    /\ socket' = [socket EXCEPT !.pos = @ + n, !.reading = FALSE]
    /\ UNCHANGED crash

(* The assertions of the data callback. *)
DataFault ==
    CASE ~socket.alive -> "transport_gone"
      [] socket.alive /\ ~read.handle -> "no_request"
      [] socket.alive /\ read.handle /\ ~read.flag -> "flag_not_raised"
      [] OTHER -> "no"

DataEvent(n) ==
    /\ socket.reading /\ socket.pos + n <= MaxBytes
    /\ \/ /\ DataFault # "no"
          /\ crash' = DataFault
          /\ UNCHANGED <<readVars, socket>>
       \/ /\ DataFault = "no" /\ n <= Room
          /\ read.offset + n = read.size
          /\ Complete(n)
       \/ /\ DataFault = "no" /\ n <= Room
          /\ read.offset + n # read.size
          /\ read' = [read EXCEPT !.data = Fill(n), !.offset = @ + n]
          /\ socket' = [socket EXCEPT !.pos = @ + n]
          /\ UNCHANGED <<co, got, crash>>
    /\ UNCHANGED <<conn, writeVars, calls>>

(* The peer has closed: libuv stops reading. *)
EndEvent ==
    /\ socket.reading /\ socket.eof
    /\ RaiseIfReading
    /\ socket' = [socket EXCEPT !.reading = FALSE]
    /\ UNCHANGED <<conn, writeVars, calls>>

(* A read fails: libuv stops reading, and onClose closes the socket.  After *)
(* connect the callback writes to its locals and resumes its coroutine.     *)
ErrorEvent ==
    /\ socket.reading
    /\ IF conn.errorHandler = "connect"
       THEN crash' = "stale_connect_handle" /\ UNCHANGED <<readVars, socket>>
       ELSE /\ RaiseIfReading
            /\ socket' = [socket EXCEPT !.reading = FALSE,
                                        !.closing = @ \/ socket.alive]
    /\ UNCHANGED <<conn, writeVars, calls>>

\* Mutant: the reader learns nothing of a close.
CloseEventQuiet ==
    /\ socket.closing /\ ~socket.closed
    /\ socket' = [socket EXCEPT !.closed = TRUE]
    /\ UNCHANGED <<conn, readVars, writeVars, calls, crash>>

(* The loop reports the end of a close: onClose once more. *)
CloseEvent ==
    /\ socket.closing /\ ~socket.closed
    /\ RaiseIfReading
    /\ socket' = [socket EXCEPT !.closed = TRUE]
    /\ UNCHANGED <<conn, writeVars, calls>>

-----------------------------------------------------------------------------
(* close, called by the node for a transport it has accepted, the end of    *)
(* the transport, and the peer's                                            *)

Shut(s) == [s EXCEPT !.closing = TRUE, !.reading = FALSE]

Close ==
    /\ socket.alive /\ conn.attempt = "none" /\ conn.pc = "connected"
    /\ ~socket.closing
    /\ socket' = Shut(socket)
    /\ UNCHANGED <<conn, readVars, writeVars, calls, crash>>

(* The last owner drops the transport: nobody reads, connects or writes.   *)
(* No callback finds it any more; onClose closes the socket.               *)
Destroy ==
    /\ socket.alive /\ co.pc = "none" /\ ~writer.flag
    /\ conn.pc \in {"connected", "failed"}
    /\ socket' = [Shut(socket) EXCEPT !.alive = FALSE]
    /\ UNCHANGED <<conn, readVars, writeVars, calls, crash>>

PeerClose ==
    /\ ~socket.eof /\ conn.pc = "connected"
    /\ socket' = [socket EXCEPT !.eof = TRUE]
    /\ UNCHANGED <<conn, readVars, writeVars, calls, crash>>

-----------------------------------------------------------------------------
(* rawWrite, which takes no lock *)

Write(n) ==
    /\ conn.pc = "connected" /\ socket.alive
    /\ ~writer.flag /\ calls.write < MaxWrites
    /\ writer' = [flag |-> TRUE, len |-> n]
    /\ calls' = [calls EXCEPT !.write = @ + 1]
    /\ UNCHANGED <<conn, readVars, socket, received, crash>>

(* try_write is repeated while it finds no room.  It takes all, or a part, *)
(* or fails: rawWrite returns in each case.                                *)
TryWrite(k) ==
    /\ writer.flag /\ k <= writer.len
    /\ received' = received \o [i \in 1 .. k |-> <<calls.write, i>>]
    /\ writer' = [writer EXCEPT !.flag = FALSE]
    /\ UNCHANGED <<conn, readVars, socket, calls, crash>>

-----------------------------------------------------------------------------
Bytes == 1 .. MaxBytes

Taken == {0} \cup Lens

Reader == (\E n \in Sizes : Start(n)) \/ Request \/ Join \/ Return

Closing == Close \/ Destroy \/ PeerClose

Refused == conn.pc = "suspended" /\ conn.attempt = "refused"

Ended == crash # "no" \/ Refused \/ socket.closed

Next ==
    \/ /\ crash = "no"
       /\ \/ Resolve \/ Register \/ ConnectSuspends \/ ConnectReturns
          \/ \E result \in {"made", "error"} : ConnectEvent(result)
          \/ Reader
          \/ \E n \in Bytes : DataEvent(n)
          \/ EndEvent \/ ErrorEvent \/ CloseEvent \/ Closing
          \/ \E n \in Lens : Write(n)
          \/ \E k \in Taken : TryWrite(k)
    \/ Ended /\ UNCHANGED vars

Spec == Init /\ [][Next]_vars

(* Threads and the loop run; a connect that was begun is answered or times *)
(* out; the peer reads, so that try_write finds room.  The peer need not   *)
(* send, close or be closed.                                               *)
Fairness ==
    /\ WF_vars(crash = "no" /\ (ConnectSuspends \/ ConnectReturns))
    /\ WF_vars(crash = "no" /\ \E result \in {"made", "error"} :
                                  ConnectEvent(result))
    /\ WF_vars(crash = "no" /\ (Request \/ Join \/ Return))
    /\ WF_vars(crash = "no" /\ EndEvent)
    /\ WF_vars(crash = "no" /\ CloseEvent)
    /\ WF_vars(crash = "no" /\ \E k \in Taken : TryWrite(k))

FairSpec == Spec /\ Fairness

-----------------------------------------------------------------------------
(* Types of the members of PlainSocketTransport.h; the bytes in the buffer *)
(* never exceed its size.                                                  *)
TypeOK ==
    /\ conn \in [pc : ConnPCs, attempt : Attempts,
                 errorHandler : {"own", "connect"}]
    /\ read.size \in Sizes \cup {0} /\ read.offset \in 0 .. read.size
    /\ read.data \in [1 .. read.size -> 0 .. MaxBytes]
    /\ read.handle \in BOOLEAN /\ read.flag \in BOOLEAN
    /\ co \in [pc : CoPCs, stored : BOOLEAN]
    /\ socket \in [reading : BOOLEAN, pos : 0 .. MaxBytes, eof : BOOLEAN,
                   closing : BOOLEAN, closed : BOOLEAN, alive : BOOLEAN]
    /\ writer \in [flag : BOOLEAN, len : Lens \cup {0}]
    /\ calls \in [read : 0 .. MaxReads, write : 0 .. MaxWrites]
    /\ crash \in Crashes

(* Callbacks and readers agree on the read in progress, although they      *)
(* share no lock for it: its handle is published exactly while its         *)
(* coroutine is suspended, libuv reads only for a published handle, of a   *)
(* transport that exists and with room in the buffer, and the flag is      *)
(* raised exactly until the coroutine is scheduled.  So none of the        *)
(* assertions on lines 85, 131, 190, 196, 205 and 213 fails, and nothing   *)
(* is resumed that is not suspended.                                       *)
ReadRequested ==
    /\ crash \notin {"simultaneous_read", "flag_not_raised", "no_request",
                     "transport_gone"}
    /\ read.handle <=> co.pc = "suspended"
    /\ read.flag <=> co.pc \in {"starting", "suspended"}
    /\ socket.reading => read.handle /\ socket.alive /\ Room > 0

Stream == INSTANCE ByteStream
    WITH wanted <- read.size, pos <- socket.pos - read.offset,
         write <- calls.write

(* Reads return what the peer sent, in order, or fail once; of every write *)
(* the peer gets a first part (lines 83-121, 137-146, 189-219).            *)
ImplementsByteStream == Stream!Spec

(* A rawRead that has begun when the socket is closed, by either end, and  *)
(* that is not suspended yet, or waits, or is scheduled, returns; a        *)
(* connect that was not refused returns; and a write returns.              *)
CallsReturn ==
    /\ co.pc # "none" /\ (socket.eof \/ socket.closing)
         ~> co.pc = "none" \/ crash # "no"
    /\ conn.pc = "suspended" ~> conn.pc # "suspended" \/ Refused
    /\ writer.flag ~> ~writer.flag \/ crash # "no"
=============================================================================
