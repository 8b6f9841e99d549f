-------------------------- MODULE PlainSocketProofs --------------------------
(***************************************************************************)
(* PlainSocket delivers what ByteStream promises and fails none of its     *)
(* assertions about reads, for reads and writes of any size and number.    *)
(***************************************************************************)
EXTENDS PlainSocket, SequenceTheorems, TLAPS

(* Between two reads the members of the transport are reset; during a read  *)
(* its buffer has room.                                                     *)
BufferInv ==
    /\ read \in [data : {read.data}, offset : Nat, size : Nat,
                handle : BOOLEAN, flag : BOOLEAN]
    /\ co.pc \in {"none", "scheduled"} => read = Cleared
    /\ co.pc \in {"starting", "suspended"} => read.offset < read.size

(* A closed socket is not read, and nobody reads a transport that is gone.  *)
ClosedInv ==
    /\ socket.closing => ~socket.reading
    /\ ~socket.alive => co.pc = "none"

(* The buffer begins with the bytes that follow the last read's.            *)
DataInv ==
    /\ read.offset <= socket.pos
    /\ \A i \in 1 .. read.offset :
          read.data[i] = socket.pos - read.offset + i

(* What the peer has of the write in progress is nothing.                   *)
WriterInv ==
    /\ received \in Seq(Nat \X Nat)
    /\ \A i \in DOMAIN received : received[i][1] <= calls.write
    /\ writer.flag =>
          /\ calls.write > 0
          /\ \A i \in DOMAIN received : received[i][1] < calls.write

IInv ==
    /\ TypeOK
    /\ ReadRequested
    /\ BufferInv
    /\ ClosedInv
    /\ DataInv
    /\ WriterInv


-----------------------------------------------------------------------------
(* A state that satisfies IInv has records with these fields.               *)
LEMMA Shapes ==
    ASSUME IInv
    PROVE  /\ read = [data |-> read.data, offset |-> read.offset,
                      size |-> read.size, handle |-> read.handle,
                      flag |-> read.flag]
           /\ co = [pc |-> co.pc, stored |-> co.stored]
           /\ socket = [reading |-> socket.reading, pos |-> socket.pos,
                        eof |-> socket.eof, closing |-> socket.closing,
                        closed |-> socket.closed, alive |-> socket.alive]
           /\ read.size \in Nat /\ read.offset \in Nat /\ socket.pos \in Nat
           /\ read.offset <= read.size /\ read.offset <= socket.pos
           /\ Room \in Nat
<1>1. read = [data |-> read.data, offset |-> read.offset,
              size |-> read.size, handle |-> read.handle, flag |-> read.flag]
    BY DEF IInv, BufferInv
<1>2. co = [pc |-> co.pc, stored |-> co.stored]
    BY DEF IInv, TypeOK
<1>3. socket = [reading |-> socket.reading, pos |-> socket.pos,
                eof |-> socket.eof, closing |-> socket.closing,
                closed |-> socket.closed, alive |-> socket.alive]
    BY DEF IInv, TypeOK
<1>4. read.size \in Nat /\ read.offset \in Nat /\ socket.pos \in Nat
        /\ read.offset <= read.size /\ read.offset <= socket.pos
  <2>1. MaxBytes \in Nat
      BY BoundsAssumption
  <2>2. /\ read.size \in Sizes \cup {0} /\ read.offset \in 0 .. read.size
        /\ socket.pos \in 0 .. MaxBytes /\ read.offset <= socket.pos
      BY DEF IInv, TypeOK, DataInv
  <2>3. read.size \in Nat
      BY DEF IInv, BufferInv
  <2> QED
      BY <2>1, <2>2, <2>3
<1>5. Room \in Nat
    BY <1>4 DEF Room
<1> QED
    BY <1>1, <1>2, <1>3, <1>4, <1>5

(* A read that begins publishes an empty buffer; one of no bytes returns at *)
(* once (lines 84-92).                                                      *)
LEMMA StartEffect ==
    ASSUME IInv, NEW n \in Sizes, Start(n)
    PROVE  /\ ~read.flag /\ co.pc = "none" /\ got # Failed
           /\ UNCHANGED <<conn, socket, writer, received, got, crash>>
           /\ calls'.write = calls.write
           /\ \/ n = 0 /\ UNCHANGED <<read, co>>
              \/ /\ n \in Nat \ {0}
                 /\ read' = [data |-> [i \in 1 .. n |-> 0], offset |-> 0,
                             size |-> n, handle |-> FALSE, flag |-> TRUE]
                 /\ co' = [pc |-> "starting", stored |-> FALSE]
<1>1. ~read.flag /\ co.pc = "none" /\ got # Failed /\ read = Cleared
    BY DEF IInv, ReadRequested, BufferInv, Start
<1>2. UNCHANGED <<conn, socket, writer, received, got, crash>>
    BY <1>1 DEF Start, writeVars
<1>3. calls'.write = calls.write
    BY DEF Start, IInv, TypeOK
<1>4. n \in Nat
    BY SizesAssumption
<1>5. CASE n = 0
    BY <1>1, <1>2, <1>3, <1>5 DEF Start
<1>6. CASE n > 0
  <2>1. read' = [Cleared EXCEPT !.data = [i \in 1 .. n |-> 0], !.offset = 0,
                                !.size = n, !.flag = TRUE]
      BY <1>1, <1>6 DEF Start
  <2>2. read' = [data |-> [i \in 1 .. n |-> 0], offset |-> 0,
                 size |-> n, handle |-> FALSE, flag |-> TRUE]
      BY <2>1 DEF Cleared
  <2>3. co' = [pc |-> "starting", stored |-> FALSE]
      BY <1>1, <1>6 DEF Start
  <2> QED
      BY <1>1, <1>2, <1>3, <1>4, <1>6, <2>2, <2>3
<1> QED
    BY <1>4, <1>5, <1>6

(* The request publishes the handle of the suspended coroutine and starts   *)
(* reading, or it finds the socket closing and fails (lines 100-113).       *)
LEMMA RequestEffect ==
    ASSUME IInv, Request
    PROVE  /\ co.pc = "starting" /\ read.flag
           /\ UNCHANGED <<conn, writer, received, calls>>
           /\ \/ /\ socket.closing
                 /\ crash' \in {crash, "unchecked_destroy"}
                 /\ read' = Cleared
                 /\ co' = [pc |-> "none", stored |-> FALSE]
                 /\ got' = Failed /\ socket' = socket
              \/ /\ ~socket.closing /\ socket.alive /\ crash' = crash
                 /\ got' = got
                 /\ read' = [data |-> read.data, offset |-> read.offset,
                             size |-> read.size, handle |-> TRUE,
                             flag |-> TRUE]
                 /\ co' = [pc |-> "suspended", stored |-> co.stored]
                 /\ socket' = [reading |-> TRUE, pos |-> socket.pos,
                               eof |-> socket.eof, closing |-> FALSE,
                               closed |-> socket.closed, alive |-> TRUE]
<1>1. co.pc = "starting" /\ read.flag /\ socket.alive
    BY DEF IInv, TypeOK, ReadRequested, ClosedInv, Request
<1>2. UNCHANGED <<conn, writer, received, calls>>
    BY DEF Request, writeVars
<1>3. CASE socket.closing
    BY <1>1, <1>2, <1>3 DEF Request, Publish, FailAtOnce
<1>4. CASE ~socket.closing
  <2>1. /\ read' = [read EXCEPT !.handle = TRUE]
        /\ co' = [co EXCEPT !.pc = "suspended"]
        /\ socket' = [socket EXCEPT !.reading = TRUE]
        /\ crash' = crash /\ got' = got
      BY <1>4 DEF Request, Publish, FailAtOnce
  <2>2. read.flag = TRUE
      BY <1>1 DEF IInv, TypeOK
  <2>3. read' = [data |-> read.data, offset |-> read.offset,
                 size |-> read.size, handle |-> TRUE, flag |-> TRUE]
      BY <2>1, <2>2, Shapes
  <2>4. co' = [pc |-> "suspended", stored |-> co.stored]
      BY <2>1, Shapes
  <2>5. socket.closing = FALSE /\ socket.alive = TRUE
      BY <1>1, <1>4 DEF IInv, TypeOK
  <2>6. socket' = [reading |-> TRUE, pos |-> socket.pos,
                   eof |-> socket.eof, closing |-> FALSE,
                   closed |-> socket.closed, alive |-> TRUE]
      BY <2>1, <2>5, Shapes
  <2> QED
      BY <1>1, <1>2, <1>4, <2>1, <2>3, <2>4, <2>6
<1> QED
    BY <1>3, <1>4

(* None of the assertions of the data callback fails: the bytes that come   *)
(* complete the buffer, or leave room (lines 189-219).                      *)
LEMMA DataEffect ==
    ASSUME IInv, NEW n \in Bytes, DataEvent(n)
    PROVE  /\ read.handle /\ read.flag /\ socket.reading /\ socket.alive
           /\ co.pc = "suspended" /\ ~socket.closing
           /\ n \in Nat \ {0} /\ socket.pos + n <= MaxBytes
           /\ UNCHANGED <<conn, writer, received, calls, crash>>
           /\ \/ /\ read.offset + n = read.size
                 /\ read' = Cleared
                 /\ co' = [pc |-> "scheduled", stored |-> co.stored]
                 /\ got' = Fill(n)
                 /\ socket' = [reading |-> FALSE, pos |-> socket.pos + n,
                               eof |-> socket.eof, closing |-> socket.closing,
                               closed |-> socket.closed,
                               alive |-> socket.alive]
              \/ /\ read.offset + n < read.size
                 /\ read' = [data |-> Fill(n), offset |-> read.offset + n,
                             size |-> read.size, handle |-> read.handle,
                             flag |-> read.flag]
                 /\ co' = co /\ got' = got
                 /\ socket' = [reading |-> socket.reading,
                               pos |-> socket.pos + n,
                               eof |-> socket.eof, closing |-> socket.closing,
                               closed |-> socket.closed,
                               alive |-> socket.alive]
<1>1. /\ read.handle /\ read.flag /\ socket.reading /\ socket.alive
      /\ co.pc = "suspended" /\ ~socket.closing
    BY DEF IInv, ReadRequested, ClosedInv, DataEvent
<1>2. DataFault = "no"
    BY <1>1 DEF DataFault
<1>3. n \in Nat \ {0} /\ socket.pos + n <= MaxBytes
    BY BoundsAssumption DEF Bytes, DataEvent
<1>4. UNCHANGED <<conn, writer, received, calls, crash>>
    BY <1>2 DEF DataEvent, writeVars, Complete
<1>5. CASE Complete(n) /\ read.offset + n = read.size
  <2>1. /\ read' = Cleared /\ got' = Fill(n)
        /\ co' = [co EXCEPT !.pc = "scheduled"]
        /\ socket' = [socket EXCEPT !.pos = @ + n, !.reading = FALSE]
      BY <1>5 DEF Complete
  <2>2. co' = [pc |-> "scheduled", stored |-> co.stored]
      BY <2>1, Shapes
  <2>3. socket' = [reading |-> FALSE, pos |-> socket.pos + n,
                   eof |-> socket.eof, closing |-> socket.closing,
                   closed |-> socket.closed, alive |-> socket.alive]
      BY <2>1, Shapes
  <2> QED
      BY <1>1, <1>3, <1>4, <1>5, <2>1, <2>2, <2>3
<1>6. CASE /\ n <= Room /\ read.offset + n # read.size
           /\ read' = [read EXCEPT !.data = Fill(n), !.offset = @ + n]
           /\ socket' = [socket EXCEPT !.pos = @ + n]
           /\ UNCHANGED <<co, got, crash>>
  <2>1. read.offset + n < read.size
      BY <1>3, <1>6, Shapes DEF Room
  <2>2. read' = [data |-> Fill(n), offset |-> read.offset + n,
                 size |-> read.size, handle |-> read.handle,
                 flag |-> read.flag]
      BY <1>6, Shapes
  <2>3. socket' = [reading |-> socket.reading, pos |-> socket.pos + n,
                   eof |-> socket.eof, closing |-> socket.closing,
                   closed |-> socket.closed, alive |-> socket.alive]
      BY <1>6, Shapes
  <2> QED
      BY <1>1, <1>3, <1>4, <1>6, <2>1, <2>2, <2>3
<1> QED
    BY <1>2, <1>5, <1>6 DEF DataEvent

(* A callback that finds a published handle finds its flag raised, and      *)
(* clears both, or finds no caller yet (lines 130-135).                     *)
LEMMA RaiseEffect ==
    ASSUME IInv, crash = "no", RaiseIfReading
    PROVE  \/ /\ UNCHANGED <<read, co, got>>
              /\ crash' \in {crash, "raised_without_caller"}
              /\ crash' = crash => ~(socket.alive /\ read.handle)
           \/ /\ co.pc = "suspended" /\ read.flag /\ socket.alive
              /\ read' = Cleared
              /\ co' = [pc |-> "scheduled", stored |-> co.stored]
              /\ got' = Failed /\ crash' = crash
<1>1. CASE ~(socket.alive /\ read.handle)
    BY <1>1 DEF RaiseIfReading, readVars
<1>2. CASE socket.alive /\ read.handle
  <2>1. co.pc = "suspended" /\ read.flag
      BY <1>2 DEF IInv, ReadRequested
  <2>2. CASE ~co.stored
      BY <1>2, <2>1, <2>2 DEF RaiseIfReading, RaiseClosed, readVars
  <2>3. CASE co.stored
    <3>1. /\ read' = Cleared /\ got' = Failed /\ crash' = crash
          /\ co' = [co EXCEPT !.pc = "scheduled"]
        BY <1>2, <2>1, <2>3 DEF RaiseIfReading, RaiseClosed
    <3> QED
        BY <1>2, <2>1, <3>1, Shapes
  <2> QED
      BY <2>2, <2>3
<1> QED
    BY <1>1, <1>2
-----------------------------------------------------------------------------

(* A read that begins keeps the invariant: its buffer is empty, its handle  *)
(* not yet published (lines 84-92).                                         *)
LEMMA StartKeeps ==
    ASSUME IInv, NEW n \in Sizes, Start(n)
    PROVE  IInv'
<1>1. CASE n = 0
  <2>1. /\ UNCHANGED <<conn, read, co, socket, writer, received, got, crash>>
        /\ calls'.write = calls.write
      BY <1>1, StartEffect
  <2>2. calls' \in [read : 0 .. MaxReads, write : 0 .. MaxWrites]
      BY BoundsAssumption DEF Start, IInv, TypeOK
  <2>3. TypeOK'
      BY <2>1, <2>2 DEF IInv, TypeOK
  <2>4. ReadRequested' /\ BufferInv' /\ ClosedInv' /\ DataInv' /\ WriterInv'
      BY <2>1 DEF IInv, ReadRequested, BufferInv, ClosedInv, DataInv,
         WriterInv, Room, Cleared
  <2> QED
      BY <2>3, <2>4 DEF IInv
<1>2. CASE n # 0
  <2> DEFINE zeros == [i \in 1 .. n |-> 0]
  <2>1. /\ n \in Nat /\ n > 0 /\ co.pc = "none" /\ ~read.flag
        /\ UNCHANGED <<conn, socket, writer, received, got, crash>>
        /\ calls'.write = calls.write
        /\ read' = [data |-> zeros, offset |-> 0, size |-> n,
                    handle |-> FALSE, flag |-> TRUE]
        /\ co' = [pc |-> "starting", stored |-> FALSE]
      BY <1>2, StartEffect
  <2>2. calls' \in [read : 0 .. MaxReads, write : 0 .. MaxWrites]
      BY BoundsAssumption DEF Start, IInv, TypeOK
  <2>3. /\ read'.data = zeros /\ read'.offset = 0 /\ read'.size = n
        /\ read'.handle = FALSE /\ read'.flag = TRUE
        /\ co'.pc = "starting"
      BY <2>1
  <2>4. TypeOK'
    <3>1. zeros \in [1 .. n -> 0 .. MaxBytes]
      <4>1. 0 \in 0 .. MaxBytes
          BY BoundsAssumption
      <4> QED
          BY <4>1
    <3>2. 0 \in 0 .. n /\ n \in Sizes \cup {0}
        BY <2>1
    <3>3. co' \in [pc : CoPCs, stored : BOOLEAN]
        BY <2>1 DEF CoPCs
    <3>4. /\ read'.size \in Sizes \cup {0}
          /\ read'.offset \in 0 .. read'.size
          /\ read'.data \in [1 .. read'.size -> 0 .. MaxBytes]
          /\ read'.handle \in BOOLEAN /\ read'.flag \in BOOLEAN
        BY <2>3, <3>1, <3>2
    <3> QED
        BY <2>1, <2>2, <3>3, <3>4 DEF IInv, TypeOK
  <2>5. ReadRequested'
    <3>1. ~socket.reading
        BY <2>1 DEF IInv, ReadRequested
    <3>2. crash' \notin {"simultaneous_read", "flag_not_raised", "no_request",
                         "transport_gone"}
        BY <2>1 DEF IInv, ReadRequested
    <3> QED
        BY <2>1, <2>3, <3>1, <3>2 DEF ReadRequested
  <2>6. BufferInv'
    <3>1. read' \in [data : {read'.data}, offset : Nat, size : Nat,
                     handle : BOOLEAN, flag : BOOLEAN]
        BY <2>1
    <3> QED
        BY <2>1, <2>3, <3>1 DEF BufferInv
  <2>7. ClosedInv'
    <3>1. socket.alive
        BY DEF Start
    <3> QED
        BY <2>1, <3>1 DEF IInv, ClosedInv
  <2>8. DataInv'
      BY <2>1, <2>3, Shapes DEF DataInv
  <2>9. WriterInv'
      BY <2>1 DEF IInv, WriterInv
  <2> QED
      BY <2>4, <2>5, <2>6, <2>7, <2>8, <2>9 DEF IInv
<1> QED
    BY <1>1, <1>2

(* Reading begins with the handle published and room in the buffer, and     *)
(* never for a socket that is closing (lines 100-113).                      *)
LEMMA RequestKeeps ==
    ASSUME IInv, crash = "no", Request
    PROVE  IInv'
<1>1. CASE socket.closing
  <2>1. /\ crash' \in {crash, "unchecked_destroy"} /\ read' = Cleared
        /\ co' = [pc |-> "none", stored |-> FALSE]
        /\ UNCHANGED <<conn, socket, writer, received, calls>>
      BY <1>1, RequestEffect
  <2>2. /\ read'.data = <<>> /\ read'.offset = 0 /\ read'.size = 0
        /\ read'.handle = FALSE /\ read'.flag = FALSE
        /\ co'.pc = "none"
      BY <2>1 DEF Cleared
  <2>3. socket.reading = FALSE
      BY <1>1 DEF IInv, TypeOK, ClosedInv
  <2>4. TypeOK'
    <3>1. co' \in [pc : CoPCs, stored : BOOLEAN] /\ crash' \in Crashes
        BY <2>1 DEF IInv, TypeOK, CoPCs, Crashes
    <3>2. read'.size \in Sizes \cup {0} /\ read'.offset \in 0 .. 0
        BY <2>2
    <3>3. read'.data \in [1 .. 0 -> 0 .. MaxBytes]
      <4>1. <<>> \in [1 .. 0 -> 0 .. MaxBytes]
          OBVIOUS
      <4> QED
          BY <2>2, <4>1
    <3>4. /\ read'.offset \in 0 .. read'.size
          /\ read'.data \in [1 .. read'.size -> 0 .. MaxBytes]
        BY <2>2, <3>2, <3>3
    <3>5. read'.handle \in BOOLEAN /\ read'.flag \in BOOLEAN
        BY <2>2
    <3> QED
        BY <2>1, <3>1, <3>2, <3>4, <3>5 DEF IInv, TypeOK
  <2>5. ReadRequested'
      BY <2>1, <2>2, <2>3 DEF IInv, ReadRequested
  <2>6. BufferInv'
    <3>1. read' \in [data : {read'.data}, offset : Nat, size : Nat,
                     handle : BOOLEAN, flag : BOOLEAN]
        BY <2>1 DEF Cleared
    <3>2. co'.pc = "none" /\ read' = Cleared'
        BY <2>1, <2>2 DEF Cleared
    <3> QED
        BY <3>1, <3>2 DEF BufferInv
  <2>7. ClosedInv' /\ WriterInv'
      BY <2>1, <2>2 DEF IInv, ClosedInv, WriterInv
  <2>8. DataInv'
      BY <2>1, <2>2, Shapes DEF DataInv
  <2> QED
      BY <2>4, <2>5, <2>6, <2>7, <2>8 DEF IInv
<1>2. CASE ~socket.closing
  <2>1. /\ co.pc = "starting" /\ read.flag /\ ~socket.closing /\ crash' = crash
        /\ UNCHANGED <<conn, writer, received, calls>>
        /\ read' = [data |-> read.data, offset |-> read.offset,
                    size |-> read.size, handle |-> TRUE, flag |-> TRUE]
        /\ co' = [pc |-> "suspended", stored |-> co.stored]
        /\ socket' = [reading |-> TRUE, pos |-> socket.pos,
                      eof |-> socket.eof, closing |-> FALSE,
                      closed |-> socket.closed, alive |-> TRUE]
      BY <1>2, RequestEffect
  <2>2. /\ read'.data = read.data /\ read'.offset = read.offset
        /\ read'.size = read.size /\ read'.handle = TRUE
        /\ read'.flag = TRUE /\ co'.pc = "suspended"
        /\ socket'.reading = TRUE /\ socket'.pos = socket.pos
        /\ socket'.closing = FALSE /\ socket'.alive = TRUE
      BY <2>1
  <2>3. TypeOK'
    <3>1. co' \in [pc : CoPCs, stored : BOOLEAN]
        BY <2>1 DEF IInv, TypeOK, CoPCs
    <3>2. socket' \in [reading : BOOLEAN, pos : 0 .. MaxBytes, eof : BOOLEAN,
                       closing : BOOLEAN, closed : BOOLEAN, alive : BOOLEAN]
        BY <2>1 DEF IInv, TypeOK
    <3>3. /\ read'.size \in Sizes \cup {0}
          /\ read'.offset \in 0 .. read'.size
          /\ read'.data \in [1 .. read'.size -> 0 .. MaxBytes]
          /\ read'.handle \in BOOLEAN /\ read'.flag \in BOOLEAN
        BY <2>2 DEF IInv, TypeOK
    <3> QED
        BY <2>1, <3>1, <3>2, <3>3 DEF IInv, TypeOK
  <2>4. ReadRequested'
    <3>1. read.offset < read.size
        BY <2>1 DEF IInv, BufferInv
    <3>2. Room' > 0
        BY <2>2, <3>1, Shapes DEF Room
    <3>3. crash' \notin {"simultaneous_read", "flag_not_raised", "no_request",
                         "transport_gone"}
        BY <2>1 DEF IInv, ReadRequested
    <3> QED
        BY <2>2, <3>2, <3>3 DEF ReadRequested
  <2>5. BufferInv'
    <3>1. read' \in [data : {read'.data}, offset : Nat, size : Nat,
                     handle : BOOLEAN, flag : BOOLEAN]
        BY <2>1, Shapes
    <3>2. read'.offset < read'.size
        BY <2>1, <2>2 DEF IInv, BufferInv
    <3> QED
        BY <2>2, <3>1, <3>2 DEF BufferInv
  <2>6. ClosedInv' /\ DataInv'
      BY <2>2 DEF IInv, ClosedInv, DataInv
  <2>7. WriterInv'
      BY <2>1 DEF IInv, WriterInv
  <2> QED
      BY <2>3, <2>4, <2>5, <2>6, <2>7 DEF IInv
<1> QED
    BY <1>1, <1>2

(* Bytes that arrive continue those in the buffer (lines 189-219).          *)
LEMMA FillContinues ==
    ASSUME IInv, NEW n \in Nat \ {0}, read.offset + n <= read.size,
           socket.pos + n <= MaxBytes
    PROVE  /\ Fill(n) \in [1 .. read.size -> 0 .. MaxBytes]
           /\ \A i \in 1 .. read.offset + n :
                 Fill(n)[i] = socket.pos - read.offset + i
<1>1. /\ read.data \in [1 .. read.size -> 0 .. MaxBytes]
      /\ \A i \in 1 .. read.offset :
            read.data[i] = socket.pos - read.offset + i
    BY DEF IInv, TypeOK, DataInv
<1>2. /\ read.size \in Nat /\ read.offset \in Nat /\ socket.pos \in Nat
      /\ read.offset <= socket.pos
    BY Shapes
<1>3. MaxBytes \in Nat
    BY BoundsAssumption
<1>4. DOMAIN read.data = 1 .. read.size
    BY <1>1
<1>5. ASSUME NEW i \in 1 .. read.size
      PROVE  Fill(n)[i] = IF i \in read.offset + 1 .. read.offset + n
                          THEN socket.pos + i - read.offset ELSE read.data[i]
    BY <1>4 DEF Fill
<1>6. ASSUME NEW i \in 1 .. read.size
      PROVE  Fill(n)[i] \in 0 .. MaxBytes
  <2>1. CASE i \in read.offset + 1 .. read.offset + n
    <3>1. socket.pos + i - read.offset \in 0 .. MaxBytes
        BY <1>2, <1>3, <2>1
    <3> QED
        BY <1>5, <2>1, <3>1
  <2>2. CASE ~(i \in read.offset + 1 .. read.offset + n)
      BY <1>1, <1>5, <2>2
  <2> QED
      BY <2>1, <2>2
<1>7. Fill(n) \in [1 .. read.size -> 0 .. MaxBytes]
    BY <1>4, <1>6 DEF Fill
<1>8. ASSUME NEW i \in 1 .. read.offset + n
      PROVE  Fill(n)[i] = socket.pos - read.offset + i
  <2>1. i \in 1 .. read.size /\ i \in Nat
      BY <1>2
  <2>2. CASE i \in read.offset + 1 .. read.offset + n
    <3>1. Fill(n)[i] = socket.pos + i - read.offset
        BY <1>5, <2>1, <2>2
    <3> QED
        BY <1>2, <2>1, <3>1
  <2>3. CASE i \in 1 .. read.offset
    <3>1. ~(i \in read.offset + 1 .. read.offset + n)
        BY <1>2, <2>3
    <3>2. Fill(n)[i] = read.data[i]
        BY <1>5, <2>1, <3>1
    <3> QED
        BY <1>1, <2>3, <3>2
  <2> QED
      BY <1>2, <2>1, <2>2, <2>3
<1> QED
    BY <1>7, <1>8

(* The members are reset with the last byte; before it the buffer has room. *)
LEMMA DataEventKeeps ==
    ASSUME IInv, NEW n \in Bytes, DataEvent(n)
    PROVE  IInv'
<1>1. /\ read.handle /\ read.flag /\ socket.reading /\ socket.alive
      /\ co.pc = "suspended" /\ ~socket.closing
      /\ n \in Nat \ {0} /\ socket.pos + n <= MaxBytes
      /\ UNCHANGED <<conn, writer, received, calls, crash>>
    BY DataEffect
<1>2. /\ read.size \in Nat /\ read.offset \in Nat /\ socket.pos \in Nat
      /\ read.offset <= socket.pos
    BY Shapes
<1>3. socket.pos + n \in 0 .. MaxBytes
    BY <1>1, <1>2, BoundsAssumption
<1>4. crash' \notin {"simultaneous_read", "flag_not_raised", "no_request",
                     "transport_gone"}
    BY <1>1 DEF IInv, ReadRequested
<1>5. WriterInv'
    BY <1>1 DEF IInv, WriterInv
<1>6. CASE read.offset + n = read.size
  <2>1. /\ read' = Cleared
        /\ co' = [pc |-> "scheduled", stored |-> co.stored]
        /\ socket' = [reading |-> FALSE, pos |-> socket.pos + n,
                      eof |-> socket.eof, closing |-> socket.closing,
                      closed |-> socket.closed, alive |-> socket.alive]
      BY <1>2, <1>6, DataEffect
  <2>2. /\ read'.data = <<>> /\ read'.offset = 0 /\ read'.size = 0
        /\ read'.handle = FALSE /\ read'.flag = FALSE
        /\ co'.pc = "scheduled" /\ socket'.reading = FALSE
        /\ socket'.pos = socket.pos + n /\ socket'.alive
        /\ ~socket'.closing
      BY <1>1, <2>1 DEF Cleared
  <2>3. TypeOK'
    <3>1. co' \in [pc : CoPCs, stored : BOOLEAN]
        BY <2>1 DEF IInv, TypeOK, CoPCs
    <3>2. socket' \in [reading : BOOLEAN, pos : 0 .. MaxBytes, eof : BOOLEAN,
                       closing : BOOLEAN, closed : BOOLEAN, alive : BOOLEAN]
        BY <1>3, <2>1 DEF IInv, TypeOK
    <3>3. <<>> \in [1 .. 0 -> 0 .. MaxBytes]
        OBVIOUS
    <3>4. /\ read'.size \in Sizes \cup {0}
          /\ read'.offset \in 0 .. read'.size
          /\ read'.data \in [1 .. read'.size -> 0 .. MaxBytes]
          /\ read'.handle \in BOOLEAN /\ read'.flag \in BOOLEAN
      <4>1. read'.size \in Sizes \cup {0} /\ read'.offset \in 0 .. 0
          BY <2>2
      <4>2. read'.data \in [1 .. 0 -> 0 .. MaxBytes]
          BY <2>2, <3>3
      <4> QED
          BY <2>2, <4>1, <4>2
    <3> QED
        BY <1>1, <3>1, <3>2, <3>4 DEF IInv, TypeOK
  <2>4. ReadRequested'
      BY <1>4, <2>2 DEF ReadRequested
  <2>5. BufferInv'
    <3>1. read' \in [data : {read'.data}, offset : Nat, size : Nat,
                     handle : BOOLEAN, flag : BOOLEAN]
        BY <2>1 DEF Cleared
    <3>2. co'.pc = "scheduled" /\ read' = Cleared'
        BY <2>1, <2>2 DEF Cleared
    <3> QED
        BY <3>1, <3>2 DEF BufferInv
  <2>6. ClosedInv'
      BY <2>2 DEF ClosedInv
  <2>7. DataInv'
      BY <1>1, <1>2, <2>2 DEF DataInv
  <2> QED
      BY <1>5, <2>3, <2>4, <2>5, <2>6, <2>7 DEF IInv
<1>7. CASE read.offset + n # read.size
  <2> DEFINE data == Fill(n)
  <2>1. /\ read.offset + n < read.size
        /\ read' = [data |-> data, offset |-> read.offset + n,
                    size |-> read.size, handle |-> read.handle,
                    flag |-> read.flag]
        /\ co' = co /\ got' = got
        /\ socket' = [reading |-> socket.reading, pos |-> socket.pos + n,
                      eof |-> socket.eof, closing |-> socket.closing,
                      closed |-> socket.closed, alive |-> socket.alive]
      BY <1>7, DataEffect
  <2>2. /\ data \in [1 .. read.size -> 0 .. MaxBytes]
        /\ \A i \in 1 .. read.offset + n :
              data[i] = socket.pos - read.offset + i
    <3>1. read.offset + n <= read.size /\ n \in Nat \ {0}
        BY <1>1, <1>2, <2>1
    <3> QED
        BY <1>1, <3>1, FillContinues
  <2> HIDE DEF data
  <2>3. /\ read'.data = data /\ read'.offset = read.offset + n
        /\ read'.size = read.size /\ read'.handle = read.handle
        /\ read'.flag = read.flag /\ co'.pc = "suspended"
        /\ socket'.reading = socket.reading
        /\ socket'.pos = socket.pos + n /\ socket'.alive = socket.alive
        /\ socket'.closing = socket.closing
      BY <1>1, <2>1
  <2>4. TypeOK'
    <3>1. socket' \in [reading : BOOLEAN, pos : 0 .. MaxBytes, eof : BOOLEAN,
                       closing : BOOLEAN, closed : BOOLEAN, alive : BOOLEAN]
        BY <1>3, <2>1 DEF IInv, TypeOK
    <3>2. /\ read.size \in Sizes \cup {0} /\ read.handle \in BOOLEAN
          /\ read.flag \in BOOLEAN
        BY DEF IInv, TypeOK
    <3>3. read.offset + n \in 0 .. read.size
        BY <1>1, <1>2, <2>1
    <3>4. /\ read'.size \in Sizes \cup {0}
          /\ read'.offset \in 0 .. read'.size
          /\ read'.data \in [1 .. read'.size -> 0 .. MaxBytes]
          /\ read'.handle \in BOOLEAN /\ read'.flag \in BOOLEAN
        BY <2>2, <2>3, <3>2, <3>3
    <3> QED
        BY <1>1, <2>1, <3>1, <3>4 DEF IInv, TypeOK
  <2>5. ReadRequested'
    <3>1. Room' > 0
        BY <1>1, <1>2, <2>1, <2>3 DEF Room
    <3> QED
        BY <1>1, <1>4, <2>3, <3>1 DEF ReadRequested
  <2>6. BufferInv'
    <3>1. read' \in [data : {read'.data}, offset : Nat, size : Nat,
                     handle : BOOLEAN, flag : BOOLEAN]
      <4>1. read.offset + n \in Nat /\ read.handle \in BOOLEAN
              /\ read.flag \in BOOLEAN
          BY <1>1, <1>2 DEF IInv, TypeOK
      <4> QED
          BY <1>2, <2>1, <2>3, <4>1
    <3>2. read'.offset < read'.size
        BY <2>1, <2>3
    <3> QED
        BY <2>3, <3>1, <3>2 DEF BufferInv
  <2>7. ClosedInv'
      BY <1>1, <2>3 DEF ClosedInv
  <2>8. DataInv'
    <3>1. read.offset + n <= socket.pos + n
        BY <1>1, <1>2
    <3>2. socket.pos + n - (read.offset + n) = socket.pos - read.offset
        BY <1>1, <1>2
    <3>3. \A i \in 1 .. read'.offset :
             read'.data[i] = socket'.pos - read'.offset + i
      <4>1. socket'.pos - read'.offset = socket.pos - read.offset
        <5>1. socket'.pos = socket.pos + n /\ read'.offset = read.offset + n
            BY <2>3
        <5> QED
            BY <1>1, <1>2, <5>1
      <4>2. ASSUME NEW i \in 1 .. read'.offset
            PROVE  read'.data[i] = socket'.pos - read'.offset + i
        <5>1. i \in 1 .. read.offset + n
            BY <2>3
        <5>2. data[i] = socket.pos - read.offset + i
            BY <2>2, <5>1
        <5> QED
            BY <2>3, <4>1, <5>2
      <4> QED
          BY <4>2
    <3> QED
        BY <2>3, <3>1, <3>3 DEF DataInv
  <2> QED
      BY <1>5, <2>4, <2>5, <2>6, <2>7, <2>8 DEF IInv
<1> QED
    BY <1>6, <1>7

(* A callback that may end the read leaves a socket that is not read.       *)
LEMMA CallbackKeeps ==
    ASSUME IInv, crash = "no", RaiseIfReading,
           NEW c \in BOOLEAN, NEW d \in BOOLEAN,
           UNCHANGED <<conn, writer, received, calls>>,
           socket' = [reading |-> FALSE, pos |-> socket.pos,
                      eof |-> socket.eof, closing |-> c, closed |-> d,
                      alive |-> socket.alive]
    PROVE  IInv'
<1>1. /\ socket'.reading = FALSE /\ socket'.pos = socket.pos
      /\ socket'.alive = socket.alive
    OBVIOUS
<1>2. socket' \in [reading : BOOLEAN, pos : 0 .. MaxBytes, eof : BOOLEAN,
                   closing : BOOLEAN, closed : BOOLEAN, alive : BOOLEAN]
    BY DEF IInv, TypeOK
<1>3. WriterInv'
    BY DEF IInv, WriterInv
<1>4. CASE /\ UNCHANGED <<read, co, got>>
           /\ crash' \in {crash, "raised_without_caller"}
  <2>1. TypeOK'
      BY <1>2, <1>4 DEF IInv, TypeOK, Crashes
  <2>2. ReadRequested'
      BY <1>1, <1>4 DEF IInv, ReadRequested
  <2>3. BufferInv' /\ ClosedInv' /\ DataInv'
      BY <1>1, <1>4 DEF IInv, BufferInv, ClosedInv, DataInv, Cleared
  <2> QED
      BY <1>3, <2>1, <2>2, <2>3 DEF IInv
<1>5. CASE /\ socket.alive /\ read' = Cleared /\ crash' = crash
           /\ co' = [pc |-> "scheduled", stored |-> co.stored]
  <2>1. /\ read'.data = <<>> /\ read'.offset = 0 /\ read'.size = 0
        /\ read'.handle = FALSE /\ read'.flag = FALSE
        /\ co'.pc = "scheduled"
      BY <1>5 DEF Cleared
  <2>2. TypeOK'
    <3>1. co' \in [pc : CoPCs, stored : BOOLEAN]
        BY <1>5 DEF IInv, TypeOK, CoPCs
    <3>2. <<>> \in [1 .. 0 -> 0 .. MaxBytes]
        OBVIOUS
    <3>3. /\ read'.size \in Sizes \cup {0}
          /\ read'.offset \in 0 .. read'.size
          /\ read'.data \in [1 .. read'.size -> 0 .. MaxBytes]
          /\ read'.handle \in BOOLEAN /\ read'.flag \in BOOLEAN
      <4>1. read'.size \in Sizes \cup {0} /\ read'.offset \in 0 .. 0
          BY <2>1
      <4>2. read'.data \in [1 .. 0 -> 0 .. MaxBytes]
          BY <2>1, <3>2
      <4> QED
          BY <2>1, <4>1, <4>2
    <3> QED
        BY <1>2, <1>5, <3>1, <3>3 DEF IInv, TypeOK
  <2>3. ReadRequested'
      BY <1>1, <1>5, <2>1 DEF IInv, ReadRequested
  <2>4. BufferInv'
    <3>1. read' \in [data : {read'.data}, offset : Nat, size : Nat,
                     handle : BOOLEAN, flag : BOOLEAN]
        BY <1>5 DEF Cleared
    <3>2. co'.pc = "scheduled" /\ read' = Cleared'
        BY <1>5, <2>1 DEF Cleared
    <3> QED
        BY <3>1, <3>2 DEF BufferInv
  <2>5. ClosedInv'
      BY <1>1, <1>5 DEF ClosedInv
  <2>6. DataInv'
      BY <1>1, <2>1, Shapes DEF DataInv
  <2> QED
      BY <1>3, <2>2, <2>3, <2>4, <2>5, <2>6 DEF IInv
<1> QED
    BY <1>4, <1>5, RaiseEffect

(* The end of the stream, an error and the end of a close are such          *)
(* callbacks (lines 130-156).                                               *)
LEMMA EndEventKeeps ==
    ASSUME IInv, crash = "no", EndEvent
    PROVE  IInv'
<1>1. socket' = [reading |-> FALSE, pos |-> socket.pos, eof |-> socket.eof,
                 closing |-> socket.closing, closed |-> socket.closed,
                 alive |-> socket.alive]
    BY Shapes DEF EndEvent
<1>2. socket.closing \in BOOLEAN /\ socket.closed \in BOOLEAN
    BY DEF IInv, TypeOK
<1> QED
    BY <1>1, <1>2, CallbackKeeps DEF EndEvent, writeVars

LEMMA CloseEventKeeps ==
    ASSUME IInv, crash = "no", CloseEvent
    PROVE  IInv'
<1>1. socket.reading = FALSE
    BY DEF IInv, TypeOK, ClosedInv, CloseEvent
<1>2. socket' = [reading |-> FALSE, pos |-> socket.pos, eof |-> socket.eof,
                 closing |-> socket.closing, closed |-> TRUE,
                 alive |-> socket.alive]
    BY <1>1, Shapes DEF CloseEvent
<1>3. socket.closing \in BOOLEAN
    BY DEF IInv, TypeOK
<1> QED
    BY <1>2, <1>3, CallbackKeeps DEF CloseEvent, writeVars

LEMMA ErrorEventKeeps ==
    ASSUME IInv, crash = "no", ErrorEvent
    PROVE  IInv'
<1>1. CASE conn.errorHandler = "connect"
  <2>1. /\ crash' = "stale_connect_handle"
        /\ UNCHANGED <<conn, read, co, socket, writer, received, got, calls>>
      BY <1>1 DEF ErrorEvent, readVars, writeVars
  <2>2. TypeOK'
      BY <2>1 DEF IInv, TypeOK, Crashes
  <2>3. ReadRequested' /\ BufferInv' /\ ClosedInv' /\ DataInv' /\ WriterInv'
      BY <2>1 DEF IInv, ReadRequested, BufferInv, ClosedInv, DataInv,
         WriterInv, Room, Cleared
  <2> QED
      BY <2>2, <2>3 DEF IInv
<1>2. CASE conn.errorHandler # "connect"
  <2>1. socket' = [socket EXCEPT !.reading = FALSE,
                                 !.closing = @ \/ socket.alive]
      BY <1>2 DEF ErrorEvent
  <2>2. socket' = [reading |-> FALSE, pos |-> socket.pos, eof |-> socket.eof,
                   closing |-> socket.closing \/ socket.alive,
                   closed |-> socket.closed, alive |-> socket.alive]
      BY <2>1, Shapes
  <2>3. (socket.closing \/ socket.alive) \in BOOLEAN
          /\ socket.closed \in BOOLEAN
      BY DEF IInv, TypeOK
  <2> QED
      BY <1>2, <2>2, <2>3, CallbackKeeps DEF ErrorEvent, writeVars
<1> QED
    BY <1>1, <1>2

(* A connect changes nothing a read or a write is about (lines 23-73).      *)
LEMMA ResolveKeeps ==
    ASSUME IInv, Resolve
    PROVE  IInv'
<1>1. TypeOK'
    BY DEF IInv, Resolve, TypeOK, readVars, writeVars, ConnPCs
<1>2. ReadRequested'
    BY DEF IInv, Resolve, ReadRequested, readVars, Room
<1>3. BufferInv'
    BY DEF IInv, Resolve, BufferInv, readVars
<1>4. ClosedInv'
    BY DEF IInv, Resolve, ClosedInv, readVars
<1>5. DataInv'
    BY DEF IInv, Resolve, DataInv, readVars
<1>6. WriterInv'
    BY DEF IInv, Resolve, WriterInv, writeVars
<1> QED
    BY <1>1, <1>2, <1>3, <1>4, <1>5, <1>6 DEF IInv

LEMMA RegisterKeeps ==
    ASSUME IInv, Register
    PROVE  IInv'
<1>1. TypeOK'
    BY DEF IInv, Register, TypeOK, readVars, writeVars, ConnPCs, Attempts
<1>2. ReadRequested'
    BY DEF IInv, Register, ReadRequested, readVars, Room
<1>3. BufferInv'
    BY DEF IInv, Register, BufferInv, readVars
<1>4. ClosedInv'
    BY DEF IInv, Register, ClosedInv, readVars
<1>5. DataInv'
    BY DEF IInv, Register, DataInv, readVars
<1>6. WriterInv'
    BY DEF IInv, Register, WriterInv, writeVars
<1> QED
    BY <1>1, <1>2, <1>3, <1>4, <1>5, <1>6 DEF IInv

LEMMA ConnectSuspendsKeeps ==
    ASSUME IInv, ConnectSuspends
    PROVE  IInv'
<1>1. TypeOK'
    BY DEF IInv, ConnectSuspends, TypeOK, readVars, writeVars, ConnPCs
<1>2. ReadRequested'
    BY DEF IInv, ConnectSuspends, ReadRequested, readVars, Room
<1>3. BufferInv'
    BY DEF IInv, ConnectSuspends, BufferInv, readVars
<1>4. ClosedInv'
    BY DEF IInv, ConnectSuspends, ClosedInv, readVars
<1>5. DataInv'
    BY DEF IInv, ConnectSuspends, DataInv, readVars
<1>6. WriterInv'
    BY DEF IInv, ConnectSuspends, WriterInv, writeVars
<1> QED
    BY <1>1, <1>2, <1>3, <1>4, <1>5, <1>6 DEF IInv

LEMMA ConnectEventKeeps ==
    ASSUME IInv, NEW result \in {"made", "error"}, ConnectEvent(result)
    PROVE  IInv'
<1>1. TypeOK'
  <2>1. (conn \in [pc : ConnPCs, attempt : Attempts,
                 errorHandler : {"own", "connect"}])'
    <3>1. CASE conn.pc = "suspended"
      <4>1. conn' = [conn EXCEPT !.pc = "scheduled", !.attempt = result]
          BY <3>1 DEF ConnectEvent
      <4>2. result \in Attempts /\ "scheduled" \in ConnPCs
          BY DEF Attempts, ConnPCs
      <4> QED
          BY <4>1, <4>2 DEF IInv, TypeOK
    <3>2. CASE conn.pc # "suspended"
        BY <3>2 DEF ConnectEvent, IInv, TypeOK
    <3> QED
        BY <3>1, <3>2
  <2>2. (read.size \in Sizes \cup {0} /\ read.offset \in 0 .. read.size)'
      BY DEF IInv, ConnectEvent, TypeOK, readVars
  <2>3. (read.data \in [1 .. read.size -> 0 .. MaxBytes])'
      BY DEF IInv, ConnectEvent, TypeOK, readVars
  <2>4. (read.handle \in BOOLEAN /\ read.flag \in BOOLEAN)'
      BY DEF IInv, ConnectEvent, TypeOK, readVars
  <2>5. (co \in [pc : CoPCs, stored : BOOLEAN])'
      BY DEF IInv, ConnectEvent, TypeOK, readVars, CoPCs
  <2>6. (socket \in [reading : BOOLEAN, pos : 0 .. MaxBytes, eof : BOOLEAN,
                   closing : BOOLEAN, closed : BOOLEAN, alive : BOOLEAN])'
      BY DEF IInv, ConnectEvent, TypeOK
  <2>7. (writer \in [flag : BOOLEAN, len : Lens \cup {0}])'
      BY DEF IInv, ConnectEvent, TypeOK, writeVars
  <2>8. (calls \in [read : 0 .. MaxReads, write : 0 .. MaxWrites])'
      BY DEF IInv, ConnectEvent, TypeOK
  <2>9. (crash \in Crashes)'
      BY DEF IInv, ConnectEvent, TypeOK, Crashes
  <2> QED
      BY <2>1, <2>2, <2>3, <2>4, <2>5, <2>6, <2>7, <2>8, <2>9 DEF TypeOK
<1>2. ReadRequested'
    BY DEF IInv, ConnectEvent, ReadRequested, readVars, Room
<1>3. BufferInv'
    BY DEF IInv, ConnectEvent, BufferInv, readVars
<1>4. ClosedInv'
    BY DEF IInv, ConnectEvent, ClosedInv, readVars
<1>5. DataInv'
    BY DEF IInv, ConnectEvent, DataInv, readVars
<1>6. WriterInv'
    BY DEF IInv, ConnectEvent, WriterInv, writeVars
<1> QED
    BY <1>1, <1>2, <1>3, <1>4, <1>5, <1>6 DEF IInv

LEMMA ConnectReturnsKeeps ==
    ASSUME IInv, ConnectReturns
    PROVE  IInv'
<1>1. TypeOK'
    BY DEF IInv, ConnectReturns, TypeOK, readVars, writeVars, ConnPCs
<1>2. ReadRequested'
    BY DEF IInv, ConnectReturns, ReadRequested, readVars, Room
<1>3. BufferInv'
    BY DEF IInv, ConnectReturns, BufferInv, readVars
<1>4. ClosedInv'
    BY DEF IInv, ConnectReturns, ClosedInv, readVars
<1>5. DataInv'
    BY DEF IInv, ConnectReturns, DataInv, readVars
<1>6. WriterInv'
    BY DEF IInv, ConnectReturns, WriterInv, writeVars
<1> QED
    BY <1>1, <1>2, <1>3, <1>4, <1>5, <1>6 DEF IInv

(* The caller waits; nothing else changes.                                  *)
LEMMA JoinKeeps ==
    ASSUME IInv, Join
    PROVE  IInv'
<1>1. TypeOK'
  <2>1. (conn \in [pc : ConnPCs, attempt : Attempts,
                 errorHandler : {"own", "connect"}])'
      BY DEF IInv, Join, TypeOK, ConnPCs, Attempts
  <2>2. (read.size \in Sizes \cup {0} /\ read.offset \in 0 .. read.size)'
      BY DEF IInv, Join, TypeOK
  <2>3. (read.data \in [1 .. read.size -> 0 .. MaxBytes])'
      BY DEF IInv, Join, TypeOK
  <2>4. (read.handle \in BOOLEAN /\ read.flag \in BOOLEAN)'
      BY DEF IInv, Join, TypeOK
  <2>5. (co \in [pc : CoPCs, stored : BOOLEAN])'
      BY DEF IInv, Join, TypeOK, CoPCs
  <2>6. (socket \in [reading : BOOLEAN, pos : 0 .. MaxBytes, eof : BOOLEAN,
                   closing : BOOLEAN, closed : BOOLEAN, alive : BOOLEAN])'
      BY DEF IInv, Join, TypeOK
  <2>7. (writer \in [flag : BOOLEAN, len : Lens \cup {0}])'
      BY DEF IInv, Join, TypeOK, writeVars
  <2>8. (calls \in [read : 0 .. MaxReads, write : 0 .. MaxWrites])'
      BY DEF IInv, Join, TypeOK
  <2>9. (crash \in Crashes)'
      BY DEF IInv, Join, TypeOK, Crashes
  <2> QED
      BY <2>1, <2>2, <2>3, <2>4, <2>5, <2>6, <2>7, <2>8, <2>9 DEF TypeOK
<1>2. ReadRequested'
    BY DEF IInv, Join, ReadRequested, Room
<1>3. BufferInv'
    BY DEF IInv, Join, BufferInv
<1>4. ClosedInv'
    BY DEF IInv, Join, ClosedInv
<1>5. DataInv'
    BY DEF IInv, Join, DataInv
<1>6. WriterInv'
    BY DEF IInv, Join, WriterInv, writeVars
<1> QED
    BY <1>1, <1>2, <1>3, <1>4, <1>5, <1>6 DEF IInv

(* A coroutine that is resumed finds its members reset (lines 115-120).     *)
LEMMA ReturnKeeps ==
    ASSUME IInv, Return
    PROVE  IInv'
<1>1. TypeOK'
    BY DEF IInv, Return, TypeOK, writeVars, CoPCs
<1>2. ReadRequested'
    BY DEF IInv, Return, ReadRequested
<1>3. BufferInv'
    BY DEF IInv, Return, BufferInv
<1>4. ClosedInv'
    BY DEF IInv, Return, ClosedInv
<1>5. DataInv'
    BY DEF IInv, Return, DataInv
<1>6. WriterInv'
    BY DEF IInv, Return, WriterInv, writeVars
<1> QED
    BY <1>1, <1>2, <1>3, <1>4, <1>5, <1>6 DEF IInv

(* A socket that closes is no longer read (lines 157-170).                  *)
LEMMA CloseKeeps ==
    ASSUME IInv, Close
    PROVE  IInv'
<1>1. TypeOK'
    BY DEF IInv, Close, TypeOK, ReadRequested, Shut, readVars, writeVars
<1>2. ReadRequested'
    BY DEF IInv, Close, ReadRequested, Shut, readVars
<1>3. BufferInv'
    BY DEF IInv, Close, BufferInv, readVars
<1>4. ClosedInv'
    BY DEF IInv, Close, ClosedInv, Shut
<1>5. DataInv'
    BY DEF IInv, Close, DataInv, Shut, readVars
<1>6. WriterInv'
    BY DEF IInv, Close, WriterInv, writeVars
<1> QED
    BY <1>1, <1>2, <1>3, <1>4, <1>5, <1>6 DEF IInv

LEMMA DestroyKeeps ==
    ASSUME IInv, Destroy
    PROVE  IInv'
<1>1. TypeOK'
    BY DEF IInv, Destroy, TypeOK, ReadRequested, Shut, readVars, writeVars
<1>2. ReadRequested'
    BY DEF IInv, Destroy, ReadRequested, Shut, readVars
<1>3. BufferInv'
    BY DEF IInv, Destroy, BufferInv, readVars
<1>4. ClosedInv'
    BY DEF IInv, Destroy, ClosedInv, Shut, readVars
<1>5. DataInv'
    BY DEF IInv, Destroy, DataInv, Shut, readVars
<1>6. WriterInv'
    BY DEF IInv, Destroy, WriterInv, writeVars
<1> QED
    BY <1>1, <1>2, <1>3, <1>4, <1>5, <1>6 DEF IInv

LEMMA PeerCloseKeeps ==
    ASSUME IInv, PeerClose
    PROVE  IInv'
<1>1. TypeOK'
    BY DEF IInv, PeerClose, TypeOK, ReadRequested, readVars, writeVars
<1>2. ReadRequested'
    BY DEF IInv, PeerClose, ReadRequested, readVars, Room
<1>3. BufferInv'
    BY DEF IInv, PeerClose, BufferInv, readVars
<1>4. ClosedInv'
    BY DEF IInv, PeerClose, ClosedInv, readVars
<1>5. DataInv'
    BY DEF IInv, PeerClose, DataInv, readVars
<1>6. WriterInv'
    BY DEF IInv, PeerClose, WriterInv, writeVars
<1> QED
    BY <1>1, <1>2, <1>3, <1>4, <1>5, <1>6 DEF IInv

(* A write begins with a number of its own.                                 *)
LEMMA WriteKeeps ==
    ASSUME IInv, NEW n \in Lens, Write(n)
    PROVE  IInv'
<1>1. TypeOK'
    BY BoundsAssumption DEF IInv, Write, TypeOK, readVars
<1>2. ReadRequested'
    BY DEF IInv, Write, ReadRequested, readVars, Room
<1>3. BufferInv'
    BY DEF IInv, Write, BufferInv, readVars
<1>4. ClosedInv'
    BY DEF IInv, Write, ClosedInv
<1>5. DataInv'
    BY DEF IInv, Write, DataInv, readVars
<1>6. WriterInv'
    BY DEF IInv, Write, WriterInv, TypeOK
<1> QED
    BY <1>1, <1>2, <1>3, <1>4, <1>5, <1>6 DEF IInv

(* What the peer takes is numbered by the write in progress (lines          *)
(* 137-146).                                                                *)
LEMMA TryWriteKeeps ==
    ASSUME IInv, NEW k \in Taken, TryWrite(k)
    PROVE  IInv'
<1>1. TypeOK'
  <2>1. (conn \in [pc : ConnPCs, attempt : Attempts,
                 errorHandler : {"own", "connect"}])'
      BY DEF IInv, TryWrite, TypeOK, ConnPCs, Attempts
  <2>2. (read.size \in Sizes \cup {0} /\ read.offset \in 0 .. read.size)'
      BY DEF IInv, TryWrite, TypeOK, readVars
  <2>3. (read.data \in [1 .. read.size -> 0 .. MaxBytes])'
      BY DEF IInv, TryWrite, TypeOK, readVars
  <2>4. (read.handle \in BOOLEAN /\ read.flag \in BOOLEAN)'
      BY DEF IInv, TryWrite, TypeOK, readVars
  <2>5. (co \in [pc : CoPCs, stored : BOOLEAN])'
      BY DEF IInv, TryWrite, TypeOK, readVars, CoPCs
  <2>6. (socket \in [reading : BOOLEAN, pos : 0 .. MaxBytes, eof : BOOLEAN,
                   closing : BOOLEAN, closed : BOOLEAN, alive : BOOLEAN])'
      BY DEF IInv, TryWrite, TypeOK
  <2>7. (writer \in [flag : BOOLEAN, len : Lens \cup {0}])'
      BY DEF IInv, TryWrite, TypeOK
  <2>8. (calls \in [read : 0 .. MaxReads, write : 0 .. MaxWrites])'
      BY DEF IInv, TryWrite, TypeOK
  <2>9. (crash \in Crashes)'
      BY DEF IInv, TryWrite, TypeOK, Crashes
  <2> QED
      BY <2>1, <2>2, <2>3, <2>4, <2>5, <2>6, <2>7, <2>8, <2>9 DEF TypeOK
<1>2. ReadRequested'
    BY DEF IInv, TryWrite, ReadRequested, readVars, Room
<1>3. BufferInv'
    BY DEF IInv, TryWrite, BufferInv, readVars
<1>4. ClosedInv'
    BY DEF IInv, TryWrite, ClosedInv, readVars
<1>5. DataInv'
    BY DEF IInv, TryWrite, DataInv, readVars
<1>6. WriterInv'
  <2> DEFINE part == [i \in 1 .. k |-> <<calls.write, i>>]
             pairs == Nat \X Nat
  <2>1. k \in Nat
    <3>1. \A l \in Lens : l \in Nat
        BY LensAssumption
    <3> QED
        BY <3>1 DEF Taken
  <2>2. calls.write \in Nat /\ calls' = calls /\ ~writer'.flag
      BY BoundsAssumption DEF IInv, TypeOK, TryWrite
  <2>3. /\ writer.flag /\ received' = received \o part
        /\ received \in Seq(pairs)
      BY DEF TryWrite, IInv, WriterInv
  <2>4. /\ part \in Seq(pairs) /\ Len(part) = k
        /\ \A i \in 1 .. k : part[i][1] = calls.write
    <3>1. \A i \in 1 .. k : <<calls.write, i>> \in pairs
        BY <2>1, <2>2
    <3>2. part \in [1 .. k -> pairs]
        BY <3>1
    <3> QED
        BY <2>1, <3>2
  <2> HIDE DEF part, pairs
  <2>5. /\ received' \in Seq(pairs)
        /\ Len(received') = Len(received) + Len(part)
        /\ \A i \in 1 .. Len(received) + Len(part) :
              received'[i] = IF i <= Len(received) THEN received[i]
                             ELSE part[i - Len(received)]
      BY <2>3, <2>4, ConcatProperties
  <2>6. Len(received) \in Nat /\ DOMAIN received = 1 .. Len(received)
          /\ DOMAIN received' = 1 .. Len(received')
      BY <2>3, <2>5, LenProperties
  <2>7. ASSUME NEW i \in DOMAIN received'
        PROVE  received'[i][1] <= calls.write
    <3>1. i \in 1 .. Len(received) + k /\ i \in Nat
        BY <2>1, <2>4, <2>5, <2>6
    <3>2. CASE i <= Len(received)
      <4>1. i \in DOMAIN received /\ received'[i] = received[i]
          BY <2>4, <2>5, <2>6, <3>1, <3>2
      <4> QED
          BY <4>1 DEF IInv, WriterInv
    <3>3. CASE i > Len(received)
      <4>1. received'[i] = part[i - Len(received)]
              /\ i - Len(received) \in 1 .. k
          BY <2>1, <2>4, <2>5, <2>6, <3>1, <3>3
      <4>2. received'[i][1] = calls.write
          BY <2>4, <4>1
      <4> QED
          BY <2>2, <4>2
    <3> QED
        BY <2>6, <3>1, <3>2, <3>3
  <2> QED
      BY <2>2, <2>5, <2>7 DEF WriterInv, pairs
<1> QED
    BY <1>1, <1>2, <1>3, <1>4, <1>5, <1>6 DEF IInv

-----------------------------------------------------------------------------
(* A transport starts without a read and without a write.                   *)
LEMMA InitIInv == Init => IInv
<1> SUFFICES ASSUME Init PROVE IInv
    OBVIOUS
<1>1. /\ read = Cleared /\ co = [pc |-> "none", stored |-> FALSE]
      /\ socket = [reading |-> FALSE, pos |-> 0, eof |-> FALSE,
                   closing |-> FALSE, closed |-> FALSE, alive |-> TRUE]
      /\ writer = [flag |-> FALSE, len |-> 0] /\ received = <<>>
      /\ calls = [read |-> 0, write |-> 0] /\ crash = "no"
    BY DEF Init, Cleared
<1>2. 0 \in 0 .. MaxBytes /\ 0 \in 0 .. MaxReads /\ 0 \in 0 .. MaxWrites
    BY BoundsAssumption
<1>3. <<>> \in [1 .. 0 -> 0 .. MaxBytes]
    OBVIOUS
<1>4. TypeOK
  <2>1. conn \in [pc : ConnPCs, attempt : Attempts,
                  errorHandler : {"own", "connect"}]
      BY DEF Init, ConnPCs, Attempts
  <2>2. /\ read.data = <<>> /\ read.offset = 0 /\ read.size = 0
        /\ read.handle = FALSE /\ read.flag = FALSE
      BY <1>1 DEF Cleared
  <2>3. /\ read.size \in Sizes \cup {0} /\ read.offset \in 0 .. 0
        /\ read.data \in [1 .. 0 -> 0 .. MaxBytes]
        /\ read.handle \in BOOLEAN /\ read.flag \in BOOLEAN
    <3>1. read.data \in [1 .. 0 -> 0 .. MaxBytes]
        BY <1>3, <2>2
    <3>2. read.size \in Sizes \cup {0} /\ read.offset \in 0 .. 0
        BY <2>2
    <3> QED
        BY <2>2, <3>1, <3>2
  <2>4. /\ co \in [pc : CoPCs, stored : BOOLEAN]
        /\ writer \in [flag : BOOLEAN, len : Lens \cup {0}]
        /\ crash \in Crashes
      BY <1>1 DEF CoPCs, Crashes
  <2>5. /\ socket \in [reading : BOOLEAN, pos : 0 .. MaxBytes, eof : BOOLEAN,
                       closing : BOOLEAN, closed : BOOLEAN, alive : BOOLEAN]
        /\ calls \in [read : 0 .. MaxReads, write : 0 .. MaxWrites]
      BY <1>1, <1>2
  <2> QED
      BY <2>1, <2>2, <2>3, <2>4, <2>5 DEF TypeOK
<1>5. ReadRequested
    BY <1>1 DEF ReadRequested, Cleared
<1>6. BufferInv /\ ClosedInv /\ DataInv
    BY <1>1 DEF BufferInv, ClosedInv, DataInv, Cleared
<1>7. WriterInv
    BY <1>1 DEF WriterInv
<1> QED
    BY <1>4, <1>5, <1>6, <1>7 DEF IInv

(* No step of a thread, of the loop or of the peer breaks the invariant.    *)
LEMMA NextKeeps == IInv /\ [Next]_vars => IInv'
<1> SUFFICES ASSUME IInv, [Next]_vars PROVE IInv'
    OBVIOUS
<1>1. CASE Resolve \/ Register \/ ConnectSuspends \/ ConnectReturns
    BY <1>1, ResolveKeeps, RegisterKeeps, ConnectSuspendsKeeps,
       ConnectReturnsKeeps
<1>2. ASSUME NEW result \in {"made", "error"}, ConnectEvent(result)
      PROVE  IInv'
    BY <1>2, ConnectEventKeeps
<1>3. CASE crash = "no" /\ Reader
    BY <1>3, StartKeeps, RequestKeeps, JoinKeeps, ReturnKeeps DEF Reader
<1>4. ASSUME NEW n \in Bytes, DataEvent(n)
      PROVE  IInv'
    BY <1>4, DataEventKeeps
<1>5. CASE crash = "no" /\ (EndEvent \/ ErrorEvent \/ CloseEvent)
    BY <1>5, EndEventKeeps, ErrorEventKeeps, CloseEventKeeps
<1>6. CASE Closing
    BY <1>6, CloseKeeps, DestroyKeeps, PeerCloseKeeps DEF Closing
<1>7. ASSUME NEW n \in Lens, Write(n)
      PROVE  IInv'
    BY <1>7, WriteKeeps
<1>8. ASSUME NEW k \in Taken, TryWrite(k)
      PROVE  IInv'
    BY <1>8, TryWriteKeeps
<1>9. CASE UNCHANGED vars
    BY <1>9 DEF vars, IInv, TypeOK, ReadRequested, BufferInv, ClosedInv,
       DataInv, WriterInv, Room, Cleared
<1> QED
    BY <1>1, <1>2, <1>3, <1>4, <1>5, <1>6, <1>7, <1>8, <1>9 DEF Next

(* Reader, callbacks, close and writer keep the members of the transport    *)
(* consistent in every state.                                               *)
THEOREM Invariance == Spec => []IInv
<1>1. Init => IInv
    BY InitIInv
<1>2. IInv /\ [Next]_vars => IInv'
    BY NextKeeps
<1> QED
    BY <1>1, <1>2, PTL DEF Spec

-----------------------------------------------------------------------------
(* Every member has its type, and no byte is written past the buffer of a   *)
(* read (line 206).                                                         *)
THEOREM TypeCorrect == Spec => []TypeOK
<1>1. IInv => TypeOK
    BY DEF IInv
<1> QED
    BY <1>1, Invariance, PTL

(* No assertion about the read in progress fails (lines 85, 131, 190, 196,  *)
(* 205 and 213).                                                            *)
THEOREM ReadsRequested == Spec => []ReadRequested
<1>1. IInv => ReadRequested
    BY DEF IInv
<1> QED
    BY <1>1, Invariance, PTL

-----------------------------------------------------------------------------
(* What ByteStream's variables are substituted by.                          *)
streamVars ==
    <<read.size, got, socket.pos - read.offset, calls.write, received>>

(* A transport without a read and a write is a stream at its start.         *)
LEMMA InitStream == Init => Stream!Init
    BY DEF Init, Stream!Init

(* The start of a read of some bytes is the abstract read (line 83).        *)
LEMMA StartReads ==
    ASSUME IInv, NEW n \in Sizes, Start(n)
    PROVE  Stream!Read(n) \/ UNCHANGED streamVars
<1>1. CASE n = 0
  <2>1. UNCHANGED <<read, got, socket, received>> /\ calls'.write = calls.write
      BY <1>1, StartEffect
  <2> QED
      BY <2>1 DEF streamVars
<1>2. CASE n # 0
  <2>1. /\ got # Failed /\ co.pc = "none"
        /\ UNCHANGED <<socket, received, got>> /\ calls'.write = calls.write
        /\ read'.size = n /\ read'.offset = 0
      BY <1>2, StartEffect
  <2>2. read.size = 0 /\ read.offset = 0
      BY <2>1 DEF IInv, BufferInv, Cleared
  <2>3. socket'.pos - read'.offset = socket.pos - read.offset
      BY <2>1, <2>2
  <2> QED
      BY <2>1, <2>2, <2>3 DEF Stream!Read, Failed, Stream!Failed
<1> QED
    BY <1>1, <1>2

(* The last byte of a read ends it with the bytes that follow those of the  *)
(* read before; bytes before the last one are not seen (lines 189-219).     *)
LEMMA DataReturns ==
    ASSUME IInv, NEW n \in Bytes, DataEvent(n)
    PROVE  Stream!Return \/ UNCHANGED streamVars
<1>1. /\ read.size \in Nat /\ read.offset \in Nat /\ socket.pos \in Nat
      /\ read.offset <= socket.pos
    BY Shapes
<1>2. /\ n \in Nat \ {0} /\ socket.pos + n <= MaxBytes
      /\ UNCHANGED <<received, calls>>
    BY DataEffect
<1>3. CASE read.offset + n = read.size
  <2>1. /\ read'.size = 0 /\ read'.offset = 0 /\ got' = Fill(n)
        /\ socket'.pos = socket.pos + n
      BY <1>1, <1>2, <1>3, DataEffect DEF Cleared
  <2>2. /\ Fill(n) \in [1 .. read.size -> 0 .. MaxBytes]
        /\ \A i \in 1 .. read.offset + n :
              Fill(n)[i] = socket.pos - read.offset + i
    <3>1. read.offset + n <= read.size
        BY <1>1, <1>3
    <3> QED
        BY <1>2, <3>1, FillContinues
  <2>3. Fill(n) = [i \in 1 .. read.size |-> socket.pos - read.offset + i]
      BY <1>3, <2>2
  <2>4. read.size > 0
      BY <1>1, <1>2, <1>3
  <2>5. socket'.pos - read'.offset = socket.pos - read.offset + read.size
      BY <1>1, <1>2, <1>3, <2>1
  <2> QED
      BY <1>2, <2>1, <2>3, <2>4, <2>5 DEF Stream!Return
<1>4. CASE read.offset + n # read.size
  <2>1. /\ read'.size = read.size /\ read'.offset = read.offset + n
        /\ got' = got /\ socket'.pos = socket.pos + n
      BY <1>4, DataEffect
  <2>2. socket'.pos - read'.offset = socket.pos - read.offset
      BY <1>1, <1>2, <2>1
  <2> QED
      BY <1>2, <2>1, <2>2 DEF streamVars
<1> QED
    BY <1>3, <1>4

(* A read that fails drops the bytes in its buffer (lines 130-135).         *)
LEMMA RaiseFails ==
    ASSUME IInv, crash = "no", RaiseIfReading,
           UNCHANGED <<received, calls>>, socket'.pos = socket.pos
    PROVE  Stream!Fail \/ UNCHANGED streamVars
<1>1. CASE UNCHANGED <<read, co, got>>
    BY <1>1 DEF streamVars
<1>2. CASE ~UNCHANGED <<read, co, got>>
  <2>1. /\ co.pc = "suspended" /\ read'.size = 0 /\ read'.offset = 0
        /\ got' = Failed
      BY <1>2, RaiseEffect DEF Cleared
  <2>2. read.offset < read.size
      BY <2>1 DEF IInv, BufferInv
  <2>3. /\ read.size \in Nat /\ read.offset \in Nat /\ socket.pos \in Nat
        /\ read.offset <= socket.pos
      BY Shapes
  <2>4. read.offset \in 0 .. read.size - 1 /\ read.size > 0
      BY <2>2, <2>3
  <2>5. socket'.pos - read'.offset = socket.pos - read.offset + read.offset
      BY <2>1, <2>3
  <2>6. \E k \in 0 .. read.size - 1 :
           socket'.pos - read'.offset = socket.pos - read.offset + k
      BY <2>4, <2>5
  <2> QED
      BY <2>1, <2>4, <2>6 DEF Stream!Fail, Failed, Stream!Failed
<1> QED
    BY <1>1, <1>2

(* A read that fails at once fails without a byte in its buffer; one that   *)
(* is published is not seen (lines 100-113).                                *)
LEMMA RequestFails ==
    ASSUME IInv, Request
    PROVE  Stream!Fail \/ UNCHANGED streamVars
<1>1. /\ read.size \in Nat /\ read.offset \in Nat /\ socket.pos \in Nat
      /\ read.offset < read.size /\ read.offset <= socket.pos
  <2>1. read.offset < read.size
      BY RequestEffect DEF IInv, BufferInv
  <2> QED
      BY <2>1, Shapes
<1>2. CASE socket.closing
  <2>1. /\ read'.size = 0 /\ read'.offset = 0 /\ got' = Failed
        /\ UNCHANGED <<socket, received, calls>>
      BY <1>2, RequestEffect DEF Cleared
  <2>2. read.offset \in 0 .. read.size - 1 /\ read.size > 0
      BY <1>1
  <2>3. socket'.pos - read'.offset = socket.pos - read.offset + read.offset
      BY <1>1, <2>1
  <2>4. \E k \in 0 .. read.size - 1 :
           socket'.pos - read'.offset = socket.pos - read.offset + k
      BY <2>2, <2>3
  <2> QED
      BY <2>1, <2>2, <2>4 DEF Stream!Fail, Failed, Stream!Failed
<1>3. CASE ~socket.closing
  <2>1. /\ UNCHANGED <<got, calls, received>> /\ read'.size = read.size
        /\ read'.offset = read.offset /\ socket'.pos = socket.pos
      BY <1>3, RequestEffect
  <2> QED
      BY <2>1 DEF streamVars
<1> QED
    BY <1>2, <1>3

(* The peer takes a first part of a write, once (lines 137-146).            *)
LEMMA TryWriteAccepts ==
    ASSUME IInv, NEW k \in Taken, TryWrite(k)
    PROVE  (\E l \in Lens : Stream!Accept(l)) \/ UNCHANGED streamVars
<1>1. /\ calls.write > 0
      /\ \A i \in DOMAIN received : received[i][1] < calls.write
    BY DEF TryWrite, IInv, WriterInv
<1>2. /\ UNCHANGED <<read, got, socket, calls>>
      /\ received' = received \o [i \in 1 .. k |-> <<calls.write, i>>]
    BY DEF TryWrite, readVars
<1>3. CASE k = 0
  <2>1. [i \in 1 .. 0 |-> <<calls.write, i>>] = <<>>
      OBVIOUS
  <2>2. received \o <<>> = received
      BY ConcatEmptySeq DEF IInv, WriterInv
  <2> QED
      BY <1>2, <1>3, <2>1, <2>2 DEF streamVars
<1>4. CASE k \in Lens
  <2>1. Stream!Accept(k)
      BY <1>1, <1>2 DEF Stream!Accept
  <2> QED
      BY <1>4, <2>1
<1> QED
    BY <1>3, <1>4 DEF Taken

(* Every step of a transport is a step of ByteStream or none.               *)
LEMMA NextRefines ==
    ASSUME IInv, [Next]_vars
    PROVE  [Stream!Next]_<<read.size, got, socket.pos - read.offset,
                           calls.write, received>>
<1> DEFINE Refined == Stream!Next \/ UNCHANGED streamVars
<1>1. ASSUME Resolve \/ Register \/ ConnectSuspends \/ ConnectReturns \/ Join
             \/ Return \/ UNCHANGED vars
      PROVE  Refined
    BY <1>1 DEF Resolve, Register, ConnectSuspends, ConnectReturns, Join,
       Return, readVars, writeVars, vars, streamVars
<1>2. ASSUME NEW result \in {"made", "error"}, ConnectEvent(result)
      PROVE  Refined
    BY <1>2 DEF ConnectEvent, readVars, writeVars, streamVars
<1>3. ASSUME NEW n \in Sizes, Start(n)
      PROVE  Refined
    BY <1>3, StartReads DEF Stream!Next
<1>4. ASSUME Request
      PROVE  Refined
    BY <1>4, RequestFails DEF Stream!Next
<1>5. ASSUME NEW n \in Bytes, DataEvent(n)
      PROVE  Refined
    BY <1>5, DataReturns DEF Stream!Next
<1>6. ASSUME crash = "no" /\ (EndEvent \/ ErrorEvent \/ CloseEvent)
      PROVE  Refined
  <2>1. UNCHANGED <<received, calls>> /\ socket'.pos = socket.pos
      BY <1>6, Shapes DEF EndEvent, ErrorEvent, CloseEvent, writeVars
  <2>2. RaiseIfReading \/ UNCHANGED <<read, got, socket>>
      BY <1>6 DEF EndEvent, ErrorEvent, CloseEvent, readVars
  <2>3. CASE RaiseIfReading
    <3>1. Stream!Fail \/ UNCHANGED streamVars
        BY <1>6, <2>1, <2>3, RaiseFails
    <3> QED
        BY <3>1 DEF Stream!Next, streamVars
  <2> QED
      BY <2>1, <2>2, <2>3 DEF streamVars
<1>7. ASSUME Close \/ Destroy \/ PeerClose
      PROVE  Refined
  <2>1. UNCHANGED <<read, got, received, calls>>
      BY <1>7 DEF Close, Destroy, PeerClose, readVars, writeVars
  <2>2. socket'.pos = socket.pos
      BY <1>7, Shapes DEF Close, Destroy, PeerClose, Shut
  <2> QED
      BY <2>1, <2>2 DEF streamVars
<1>8. ASSUME NEW n \in Lens, Write(n)
      PROVE  Refined
  <2>1. /\ UNCHANGED <<read, got, socket, received>>
        /\ calls'.write = calls.write + 1
      BY <1>8 DEF Write, readVars, IInv, TypeOK
  <2> QED
      BY <2>1 DEF Stream!Write, Stream!Next
<1>9. ASSUME NEW k \in Taken, TryWrite(k)
      PROVE  Refined
    BY <1>9, TryWriteAccepts DEF Stream!Next
<1> HIDE DEF Refined
<1>10. ASSUME crash = "no" /\ Reader
      PROVE  Refined
    BY <1>1, <1>3, <1>4, <1>10 DEF Reader
<1>11. ASSUME Closing
      PROVE  Refined
    BY <1>7, <1>11 DEF Closing
<1>12. ASSUME crash = "no" /\ Next
       PROVE  Refined
  <2>1. CASE Resolve \/ Register \/ ConnectSuspends \/ ConnectReturns
               \/ UNCHANGED vars
      BY <1>1, <2>1
  <2>2. CASE EndEvent \/ ErrorEvent \/ CloseEvent
      BY <1>6, <1>12, <2>2
  <2> QED
      BY <1>2, <1>5, <1>8, <1>9, <1>10, <1>11, <1>12, <2>1, <2>2 DEF Next
<1>13. ASSUME crash # "no" /\ Next
       PROVE  Refined
    BY <1>1, <1>13 DEF Next
<1>14. ASSUME UNCHANGED vars
       PROVE  Refined
    BY <1>1, <1>14
<1> QED
    BY <1>12, <1>13, <1>14 DEF Refined, streamVars

(* A transport implements ByteStream: reads return the bytes of the peer in *)
(* order and without a gap, whatever the number of events they arrive in,   *)
(* or fail once; the peer gets a first part of every write, once.           *)
THEOREM Refinement == Spec => ImplementsByteStream
<1>1. Init => Stream!Init
    BY InitStream
<1>2. IInv /\ [Next]_vars =>
         [Stream!Next]_<<read.size, got, socket.pos - read.offset,
                         calls.write, received>>
    BY NextRefines
<1> QED
    BY <1>1, <1>2, Invariance, PTL DEF Spec, ImplementsByteStream,
       Stream!Spec, Stream!vars

(* What the peer gets: of every write the first bytes, in their order, and  *)
(* of the writes those that came later after those that came before.        *)
PrefixesTaken ==
    \A i \in DOMAIN received :
       \/ /\ received[i][2] = 1
          /\ i = 1 \/ received[i - 1][1] < received[i][1]
       \/ /\ i > 1
          /\ received[i - 1][1] = received[i][1]
          /\ received[i - 1][2] + 1 = received[i][2]

(* The bytes that are added are those of one write, later than all others.  *)
LEMMA AcceptTakesPrefix ==
    ASSUME IInv, PrefixesTaken, NEW l \in Lens, Stream!Accept(l)
    PROVE  PrefixesTaken'
<1> DEFINE pairs == Nat \X Nat
           w == calls.write
           part == [i \in 1 .. l |-> <<w, i>>]
           n == Len(received)
<1>1. /\ \A i \in DOMAIN received : received[i][1] < w
      /\ received' = received \o part
    BY DEF Stream!Accept
<1>2. /\ received \in Seq(pairs) /\ w \in Nat /\ l \in Nat
    BY LensAssumption DEF IInv, WriterInv, TypeOK
<1>3. \A i \in 1 .. l : <<w, i>> \in pairs
    BY <1>2
<1>4. part \in Seq(pairs) /\ Len(part) = l
    BY <1>2, <1>3
<1>5. \A i \in 1 .. l : part[i] = <<w, i>>
    OBVIOUS
<1> HIDE DEF part, w, pairs
<1>6. /\ received' \in Seq(pairs)
      /\ Len(received') = n + l
      /\ \A i \in 1 .. n + l :
            received'[i] = IF i <= n THEN received[i] ELSE part[i - n]
    BY <1>1, <1>2, <1>4, ConcatProperties
<1>7. /\ n \in Nat /\ DOMAIN received = 1 .. n
      /\ DOMAIN received' = 1 .. n + l
    BY <1>2, <1>6, LenProperties
<1> HIDE DEF n
<1>8. ASSUME NEW i \in 1 .. n + l
      PROVE  \/ /\ received'[i][2] = 1
                /\ i = 1 \/ received'[i - 1][1] < received'[i][1]
             \/ /\ i > 1
                /\ received'[i - 1][1] = received'[i][1]
                /\ received'[i - 1][2] + 1 = received'[i][2]
  <2>1. CASE i <= n
    <3>1. i \in DOMAIN received /\ received'[i] = received[i]
        BY <1>2, <1>6, <1>7, <2>1
    <3>2. i > 1 => received'[i - 1] = received[i - 1]
        BY <1>2, <1>6, <1>7, <2>1
    <3>3. i = 1 \/ i > 1
        BY <1>2, <1>7
    <3> QED
        BY <3>1, <3>2, <3>3 DEF PrefixesTaken
  <2>2. CASE i = n + 1
    <3>1. received'[i] = <<w, 1>>
      <4>1. i - n = 1 /\ 1 \in 1 .. l /\ ~(i <= n)
          BY <1>2, <1>7, <2>2
      <4> QED
          BY <1>5, <1>6, <4>1
    <3>2. CASE n = 0
        BY <2>2, <3>1, <3>2
    <3>3. CASE n > 0
      <4>1. /\ i - 1 = n /\ n \in 1 .. n + l /\ n <= n
            /\ n \in DOMAIN received
          BY <1>2, <1>7, <2>2, <3>3
      <4>2. received'[i - 1] = received[n]
          BY <1>6, <4>1
      <4> QED
          BY <1>1, <3>1, <4>1, <4>2
    <3> QED
        BY <1>7, <3>2, <3>3
  <2>3. CASE i > n + 1
    <3>1. /\ i - n \in 1 .. l /\ (i - 1) - n \in 1 .. l
          /\ i - 1 \in 1 .. n + l /\ ~(i <= n) /\ ~(i - 1 <= n) /\ i > 1
          /\ ((i - 1) - n) + 1 = i - n
        BY <1>2, <1>7, <2>3
    <3>2. /\ received'[i] = <<w, i - n>>
          /\ received'[i - 1] = <<w, (i - 1) - n>>
        BY <1>5, <1>6, <3>1
    <3> QED
        BY <3>1, <3>2
  <2> QED
      BY <1>2, <1>7, <2>1, <2>2, <2>3
<1> QED
    BY <1>7, <1>8 DEF PrefixesTaken

(* Writes reach the peer in order and without a gap, also those that were   *)
(* cut off: what follows the part of one write is the start of a later one  *)
(* (PlainSocketTransport.cpp:137-146).                                      *)
THEOREM WritesInOrder == Spec => []PrefixesTaken
<1>1. Init => PrefixesTaken
    BY DEF Init, PrefixesTaken
<1>2. ASSUME IInv, PrefixesTaken, [Next]_vars
      PROVE  PrefixesTaken'
  <2>1. CASE UNCHANGED received
      BY <1>2, <2>1 DEF PrefixesTaken
  <2>2. CASE received' # received
    <3>1. Stream!Next
        BY <1>2, <2>2, NextRefines
    <3>2. PICK l \in Lens : Stream!Accept(l)
        BY <2>2, <3>1
        DEF Stream!Next, Stream!Read, Stream!Return, Stream!Fail, Stream!Write
    <3> QED
        BY <1>2, <3>2, AcceptTakesPrefix
  <2> QED
      BY <2>1, <2>2
<1> QED
    BY <1>1, <1>2, Invariance, PTL DEF Spec
=============================================================================
