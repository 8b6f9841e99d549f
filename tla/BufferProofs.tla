----------------------------- MODULE BufferProofs -----------------------------
(***************************************************************************)
(* Theorems about Buffer, for every width of its integers: the bounds are  *)
(* exact for a sound buffer, operations keep it sound, what is read is     *)
(* what was written; and where soundness ends the bounds let all pass.     *)
(***************************************************************************)
EXTENDS Buffer, TLAPS

(* The subtraction of the check does not wrap when the offset is inside.   *)
LEMMA RemainingExact ==
    ASSUME NEW b, Sound(b)
    PROVE  Minus(b.len, b.offset) = b.len - b.offset
BY DEF Sound, Minus

(* The check that throws DataSerialisationException, Buffer.h:82 and 109,  *)
(* Buffer.cpp:36, 47, 55 and 63, is exact for a sound buffer: an operation *)
(* passes if and only if its bytes are in the buffer.                      *)
THEOREM BoundsExact ==
    ASSUME NEW b, Sound(b), NEW n \in Nat
    PROVE  ~Refuses(b, n) <=> b.offset + n <= b.len
<1>1. b.len \in Int /\ b.offset \in Int
  BY DEF Sound, Buffers, Word
<1>2. Minus(b.len, b.offset) = b.len - b.offset
  BY RemainingExact
<1> QED BY <1>1, <1>2 DEF Refuses

(* The offset after a step over n bytes that are in the buffer. *)
LEMMA AdvanceExact ==
    ASSUME Machine, NEW b, Sound(b), NEW n \in Nat, b.offset + n <= b.len
    PROVE  /\ Plus(b.offset, n) = b.offset + n
           /\ Plus(b.offset, n) \in Word
           /\ Plus(b.offset, n) <= b.len
<1>1. b.len \in 0 .. Modulus - 1 /\ b.offset \in 0 .. Modulus - 1
  BY DEF Sound, Buffers, Word
<1>2. Modulus \in Nat
  BY DEF Machine
<1>3. b.offset + n < Modulus
  BY <1>1, <1>2
<1> QED BY <1>1, <1>2, <1>3 DEF Plus, Word

(* Members of Buffers, and functions as sequences. *)
LEMMA RecordIsBuffer ==
    ASSUME NEW x \in Seq(Byte), NEW l \in Word, NEW o \in Word
    PROVE  [data |-> x, len |-> l, offset |-> o] \in Buffers
BY DEF Buffers

LEMMA FunctionIsSeq ==
    ASSUME NEW S, NEW n \in Nat, NEW f \in [1 .. n -> S]
    PROVE  f \in Seq(S) /\ Len(f) = n /\ DOMAIN f = 1 .. n
OBVIOUS

(* Put writes the bytes, and only those, and moves behind them. *)
LEMMA PutExact ==
    ASSUME Machine, NEW b, Sound(b), NEW d \in Seq(Byte),
           b.offset + Len(d) <= b.len
    PROVE  /\ Sound(Put(b, d))
           /\ Put(b, d).len = b.len
           /\ Put(b, d).offset = b.offset + Len(d)
           /\ DOMAIN Put(b, d).data = 1 .. b.len
           /\ \A i \in 1 .. Len(d) : Put(b, d).data[b.offset + i] = d[i]
           /\ \A i \in 1 .. b.len :
                  i \notin b.offset + 1 .. b.offset + Len(d) =>
                      Put(b, d).data[i] = b.data[i]
<1> DEFINE new == [i \in 1 .. b.len |->
                      IF i \in b.offset + 1 .. b.offset + Len(d)
                      THEN d[i - b.offset] ELSE b.data[i]]
<1>1. /\ b.data \in Seq(Byte) /\ Len(b.data) = b.len
      /\ b.len \in Nat /\ b.offset \in Nat /\ b.len \in Word
  BY DEF Sound, Buffers, Word, Machine
<1>2. b \in Buffers
  BY DEF Sound
<1>3. DOMAIN b.data = 1 .. b.len /\ Len(d) \in Nat
  BY <1>1
<1>4. Put(b, d) = [data |-> new, len |-> b.len,
                   offset |-> Plus(b.offset, Len(d))]
  <2>1. new = [i \in DOMAIN b.data |->
                  IF i \in b.offset + 1 .. b.offset + Len(d)
                  THEN d[i - b.offset] ELSE b.data[i]]
    BY <1>3
  <2> HIDE DEF new
  <2> QED BY <2>1 DEF Put
<1>5. new \in [1 .. b.len -> Byte]
  <2>1. SUFFICES ASSUME NEW i \in 1 .. b.len
                 PROVE  new[i] \in Byte
    BY DEF new
  <2>2. CASE i \in b.offset + 1 .. b.offset + Len(d)
    <3>1. i - b.offset \in 1 .. Len(d)
      BY <1>1, <1>3, <2>2
    <3> QED BY <2>2, <3>1
  <2>3. CASE i \notin b.offset + 1 .. b.offset + Len(d)
    BY <2>3, <1>1
  <2> QED BY <2>2, <2>3
<1>6. new \in Seq(Byte) /\ Len(new) = b.len /\ DOMAIN new = 1 .. b.len
  <2> HIDE DEF new
  <2> QED BY <1>1, <1>5, FunctionIsSeq
<1>7. /\ Plus(b.offset, Len(d)) = b.offset + Len(d)
      /\ Plus(b.offset, Len(d)) \in Word
      /\ Plus(b.offset, Len(d)) <= b.len
  BY <1>3, AdvanceExact
<1>8. Sound(Put(b, d))
  <2>1. Put(b, d) \in Buffers
    BY <1>1, <1>4, <1>6, <1>7 DEF Buffers
  <2> QED BY <2>1, <1>4, <1>6, <1>7 DEF Sound
<1>9. ASSUME NEW i \in 1 .. Len(d)
      PROVE  new[b.offset + i] = d[i]
  <2>1. /\ b.offset + i \in 1 .. b.len
        /\ b.offset + i \in b.offset + 1 .. b.offset + Len(d)
        /\ (b.offset + i) - b.offset = i
    BY <1>1, <1>3
  <2> QED BY <2>1
<1>10. ASSUME NEW i \in 1 .. b.len,
              i \notin b.offset + 1 .. b.offset + Len(d)
       PROVE  new[i] = b.data[i]
  BY <1>10
<1> HIDE DEF new
<1> QED BY <1>4, <1>6, <1>7, <1>8, <1>9, <1>10

(* No operation takes the offset or the data out of a sound buffer,        *)
(* whether it throws or not (Buffer.h:81-115, Buffer.cpp:54-68).           *)
THEOREM SoundKept ==
    ASSUME Machine, NEW b, Sound(b), NEW d \in Seq(Byte), NEW n \in Nat
    PROVE  Sound(WriteData(b, d)) /\ Sound(ReadData(b, n).rest)
<1>1. Sound(WriteData(b, d))
  <2>1. CASE Refuses(b, Len(d))
    BY <2>1 DEF WriteData
  <2>2. CASE ~Refuses(b, Len(d))
    <3>1. Len(d) \in Nat
      OBVIOUS
    <3>2. b.offset + Len(d) <= b.len
      BY <2>2, <3>1, BoundsExact
    <3> QED BY <2>2, <3>2, PutExact DEF WriteData
  <2> QED BY <2>1, <2>2
<1>2. Sound(ReadData(b, n).rest)
  <2>1. CASE Refuses(b, n)
    BY <2>1 DEF ReadData
  <2>2. CASE ~Refuses(b, n)
    <3>1. b.offset + n <= b.len
      BY <2>2, BoundsExact
    <3>2. Plus(b.offset, n) \in Word /\ Plus(b.offset, n) <= b.len
      BY <3>1, AdvanceExact
    <3>3. Skip(b, n) = [data |-> b.data, len |-> b.len,
                        offset |-> Plus(b.offset, n)]
      BY DEF Skip, Sound, Buffers
    <3>4. Sound(Skip(b, n))
      BY <3>2, <3>3 DEF Sound, Buffers
    <3> QED BY <2>2, <3>4 DEF ReadData
  <2> QED BY <2>1, <2>2
<1> QED BY <1>1, <1>2

(* What was written at an offset is read from there (Buffer.cpp:54-68).    *)
THEOREM ReadsWhatWasWritten ==
    ASSUME Machine, NEW b, Sound(b), NEW d \in Seq(Byte),
           ~Refuses(b, Len(d)),
           NEW w, w = [WriteData(b, d) EXCEPT !.offset = b.offset]
    PROVE  ReadData(w, Len(d)).value = d
<1>1. Len(d) \in Nat /\ b.offset \in Nat /\ b.offset \in Word
  BY DEF Sound, Buffers, Word, Machine
<1>2. b.offset + Len(d) <= b.len
  BY <1>1, BoundsExact
<1>3. WriteData(b, d) = Put(b, d)
  BY DEF WriteData
<1>4. /\ Sound(Put(b, d)) /\ Put(b, d).len = b.len
      /\ \A i \in 1 .. Len(d) : Put(b, d).data[b.offset + i] = d[i]
  BY <1>2, PutExact
<1>5. w = [data |-> Put(b, d).data, len |-> b.len, offset |-> b.offset]
  BY <1>3, <1>4 DEF Sound, Buffers
<1>6. Sound(w)
  <2>1. /\ Put(b, d).data \in Seq(Byte) /\ Len(Put(b, d).data) = b.len
        /\ b.len \in Word /\ b.offset <= b.len
    BY <1>4 DEF Sound, Buffers
  <2>2. w \in Buffers
    BY <1>1, <1>5, <2>1, RecordIsBuffer
  <2> QED BY <1>5, <2>1, <2>2 DEF Sound
<1>7. ~Refuses(w, Len(d))
  BY <1>1, <1>2, <1>5, <1>6, BoundsExact
<1>8. At(w, Len(d)) = d
  BY <1>4, <1>5 DEF At
<1> QED BY <1>7, <1>8 DEF ReadData

(* The bytes of a string are behind the 4 bytes of its length. *)
LEMMA BytesApart ==
    ASSUME NEW o \in Nat, NEW n \in Nat, NEW l \in Nat, o + (n + 4) <= l,
           NEW i \in 1 .. 4
    PROVE  o + i \in 1 .. l /\ o + i \notin (o + 4) + 1 .. (o + 4) + n
OBVIOUS

(* A string is read as it was written: its length from the bytes before it *)
(* and nothing of what follows (Buffer.cpp:108-127).                       *)
THEOREM StringsReturn ==
    ASSUME Machine, NEW b, Sound(b), NEW s \in Seq(Byte),
           ~Refuses(b, Len(s) + 4),
           NEW w, w = [WriteString(b, s) EXCEPT !.offset = b.offset]
    PROVE  ReadString(w).value = s
<1> DEFINE e == Encode(Len(s))
           p == Put(b, e)
           q == Put(p, s)
           x == Skip(w, 4)
<1>1. /\ Len(s) \in Nat /\ b.offset \in Nat /\ b.len \in Nat
      /\ b.offset \in Word /\ b.len \in Word
  BY DEF Sound, Buffers, Word, Machine
<1>2. b.offset + (Len(s) + 4) <= b.len
  <2>1. Len(s) + 4 \in Nat
    BY <1>1
  <2> QED BY <2>1, BoundsExact
<1>3. e \in Seq(Byte) /\ Len(e) = 4 /\ e \in [1 .. 4 -> Byte]
  <2>1. Len(s) \in Word
    BY <1>1, <1>2 DEF Word, Machine
  <2>2. e \in [1 .. 4 -> Byte]
    BY <2>1 DEF Machine
  <2> HIDE DEF e
  <2> QED BY <2>2, FunctionIsSeq
<1>4. Decode(e) = Len(s)
  BY <1>1, <1>2 DEF Word, Machine
<1> HIDE DEF e
<1>5. /\ Sound(p) /\ p.len = b.len /\ p.offset = b.offset + 4
      /\ \A i \in 1 .. 4 : p.data[b.offset + i] = e[i]
  <2>1. b.offset + Len(e) <= b.len
    BY <1>1, <1>2, <1>3
  <2>2. /\ Sound(Put(b, e)) /\ Put(b, e).len = b.len
        /\ Put(b, e).offset = b.offset + Len(e)
        /\ \A i \in 1 .. Len(e) : Put(b, e).data[b.offset + i] = e[i]
    BY <1>3, <2>1, PutExact
  <2> QED BY <1>3, <2>2
<1>6. WriteString(b, s) = q
  <2>1. ~Refuses(b, 4)
    BY <1>1, <1>2, BoundsExact
  <2> QED BY <2>1 DEF WriteString, WriteWord, e
<1> HIDE DEF p
<1>7. /\ Sound(q) /\ q.len = b.len
      /\ \A i \in 1 .. Len(s) : q.data[(b.offset + 4) + i] = s[i]
      /\ \A i \in 1 .. b.len :
             i \notin (b.offset + 4) + 1 .. (b.offset + 4) + Len(s) =>
                 q.data[i] = p.data[i]
  <2>1. p.offset + Len(s) <= p.len
    BY <1>1, <1>2, <1>5
  <2> QED BY <1>5, <2>1, PutExact
<1> HIDE DEF q
<1>8. w = [data |-> q.data, len |-> b.len, offset |-> b.offset] /\ Sound(w)
  <2>1. w = [data |-> q.data, len |-> b.len, offset |-> b.offset]
    BY <1>6, <1>7 DEF Sound, Buffers
  <2>2. /\ q.data \in Seq(Byte) /\ Len(q.data) = b.len
        /\ b.offset <= b.len
    BY <1>1, <1>2, <1>7 DEF Sound, Buffers
  <2>3. w \in Buffers
    BY <1>1, <2>1, <2>2, RecordIsBuffer
  <2>4. w.data = q.data /\ w.len = b.len /\ w.offset = b.offset
    BY <2>1
  <2>5. Sound(w)
    BY <2>2, <2>3, <2>4 DEF Sound
  <2> QED BY <2>1, <2>5
<1>9. ~Refuses(w, 4)
  <2>1. Sound(w) /\ w.offset = b.offset /\ w.len = b.len
    BY <1>8
  <2>2. w.offset + 4 <= w.len
    BY <1>1, <1>2, <2>1
  <2> QED BY <2>1, <2>2, BoundsExact
<1>10. At(w, 4) = e
  <2>1. ASSUME NEW i \in 1 .. 4
        PROVE  q.data[b.offset + i] = e[i]
    <3>1. /\ b.offset + i \in 1 .. b.len
          /\ b.offset + i \notin (b.offset + 4) + 1 .. (b.offset + 4) + Len(s)
      BY <1>1, <1>2, BytesApart
    <3>2. q.data[b.offset + i] = p.data[b.offset + i]
      BY <1>7, <3>1
    <3> QED BY <1>5, <3>2
  <2> QED BY <1>3, <1>8, <2>1 DEF At
<1>11. x = [data |-> q.data, len |-> b.len, offset |-> b.offset + 4]
       /\ Sound(x)
  <2>1. /\ Plus(b.offset, 4) = b.offset + 4 /\ b.offset + 4 \in Word
        /\ b.offset + 4 <= b.len
    <3>1. b.offset + 4 <= b.len
      BY <1>1, <1>2
    <3> QED BY <3>1, AdvanceExact
  <2>2. x = [data |-> q.data, len |-> b.len, offset |-> b.offset + 4]
    <3>1. /\ w = [data |-> q.data, len |-> b.len, offset |-> b.offset]
          /\ w.offset = b.offset
      BY <1>8
    <3>2. x = [w EXCEPT !.offset = b.offset + 4]
      BY <2>1, <3>1 DEF Skip
    <3> HIDE DEF x
    <3> QED BY <3>1, <3>2
  <2>3. q.data \in Seq(Byte) /\ Len(q.data) = b.len
    BY <1>7 DEF Sound, Buffers
  <2>4. x \in Buffers
    BY <1>1, <2>1, <2>2, <2>3, RecordIsBuffer
  <2> QED BY <2>1, <2>2, <2>3, <2>4 DEF Sound
<1>12. ReadWord(w) = [value |-> Len(s), rest |-> x]
  BY <1>4, <1>9, <1>10 DEF ReadWord
<1> HIDE DEF x
<1>13. ~Refuses(x, Len(s))
  BY <1>1, <1>2, <1>11, BoundsExact
<1>14. At(x, Len(s)) = s
  BY <1>7, <1>11 DEF At
<1> QED BY <1>9, <1>12, <1>13, <1>14 DEF ReadString

(* A message with header and payload is sound, unless their sizes exceed   *)
(* an uint32_t: then the offset is behind the end (RequestBuffer.h:11-12). *)
THEOREM MessageSound ==
    ASSUME Machine, NEW header \in Word, NEW n \in Word,
           NEW b \in Message(header, n)
    PROVE  Sound(b) <=> n + header < Modulus
<1>1. Modulus \in Nat /\ header \in 0 .. Modulus - 1 /\ n \in 0 .. Modulus - 1
  BY DEF Machine, Word
<1>2. /\ b.data \in [1 .. Plus(n, header) -> Byte]
      /\ b.len = Plus(n, header) /\ b.offset = header
      /\ b = [data |-> b.data, len |-> b.len, offset |-> b.offset]
  BY DEF Message, Created
<1>3. CASE n + header < Modulus
  <2>1. Plus(n, header) = n + header /\ n + header \in Nat
    BY <1>1, <1>3 DEF Plus
  <2>2. b.data \in Seq(Byte) /\ Len(b.data) = b.len
    BY <1>2, <2>1
  <2>3. b \in Buffers
    BY <1>1, <1>2, <1>3, <2>1, <2>2 DEF Buffers, Word
  <2> QED BY <1>1, <1>2, <1>3, <2>1, <2>2, <2>3 DEF Sound
<1>4. CASE ~(n + header < Modulus)
  <2>1. Plus(n, header) = n + header - Modulus
    BY <1>1, <1>4 DEF Plus
  <2>2. ~(b.offset <= b.len)
    BY <1>1, <1>2, <2>1
  <2> QED BY <1>4, <2>2 DEF Sound
<1> QED BY <1>3, <1>4

(* Behind the end the check refuses nothing that a message could hold: the *)
(* difference of length and offset wraps (Buffer.h:82).                    *)
THEOREM BeyondEndPasses ==
    ASSUME Machine, NEW b \in Buffers, b.len < b.offset, NEW n \in Nat,
           n <= Modulus - (b.offset - b.len)
    PROVE  ~Refuses(b, n)
BY DEF Machine, Buffers, Word, Refuses, Minus

(* A buffer that was moved from, and that had a length, is not sound: it   *)
(* passes the check and has no data (Buffer.cpp:137-148).                  *)
THEOREM MovedFromPasses ==
    ASSUME Machine, NEW b, Sound(b), NEW n \in Nat, b.offset + n <= b.len,
           n > 0
    PROVE  ~Refuses(MovedFrom(b), n) /\ ~Sound(MovedFrom(b))
<1>1. MovedFrom(b) = [data |-> Null, len |-> b.len, offset |-> b.offset]
  BY DEF MovedFrom, Sound, Buffers
<1>2. /\ b.len \in Nat /\ b.offset \in Nat
      /\ Minus(b.len, b.offset) = b.len - b.offset
  <2>1. b.len \in Nat /\ b.offset \in Nat
    BY DEF Sound, Buffers, Word, Machine
  <2> QED BY <2>1, RemainingExact
<1>3. ~Refuses(MovedFrom(b), n)
  BY <1>1, <1>2 DEF Refuses
<1>4. Len(MovedFrom(b).data) = 0
  BY <1>1 DEF Null
<1>5. b.len # 0
  BY <1>2
<1> QED BY <1>1, <1>3, <1>4, <1>5 DEF Sound

(* The buffers of a response body are sound; those made from a vector have *)
(* its bytes and refuse to give any of them (Buffer.h:54-65,               *)
(* Buffer.cpp:23-28, 129-131, Transport.cpp:6-8).                          *)
THEOREM ConstructorsSound ==
    ASSUME Machine, NEW d \in Seq(Byte), Len(d) \in Word, NEW n \in Nat, n > 0
    PROVE  /\ Sound(Empty)
           /\ Sound(FromPointer(d, Len(d))) /\ ToBlob(FromPointer(d, Len(d))) = d
           /\ Refuses(FromVector(d), n) /\ FullyUsed(FromVector(d))
<1>1. Sound(Empty)
  <2>1. Null \in Seq(Byte) /\ Len(Null) = 0 /\ 0 \in Word
    BY DEF Null, Machine, Word
  <2>2. Empty \in Buffers
    BY <2>1, RecordIsBuffer DEF Empty
  <2> QED BY <2>1, <2>2 DEF Empty, Sound
<1>2. Sound(FromPointer(d, Len(d))) /\ ToBlob(FromPointer(d, Len(d))) = d
  <2>1. Len(d) \in Nat /\ 0 \in Word /\ Len(d) \in Word
    BY DEF Machine, Word
  <2>2. FromPointer(d, Len(d)) \in Buffers
    BY <2>1, RecordIsBuffer DEF FromPointer
  <2>3. Sound(FromPointer(d, Len(d)))
    BY <2>1, <2>2 DEF FromPointer, Sound
  <2>4. SubSeq(d, 1, Len(d)) = d
    BY <2>1
  <2> QED BY <2>3, <2>4 DEF FromPointer, ToBlob
<1>3. Refuses(FromVector(d), n) /\ FullyUsed(FromVector(d))
  BY DEF FromVector, Refuses, Minus, FullyUsed
<1> QED BY <1>1, <1>2, <1>3

(* A message whose size was computed for a string takes it and is then     *)
(* fully used (Buffer.h:44-46, 138-142, Buffer.cpp:119-127).               *)
THEOREM StringFits ==
    ASSUME Machine, NEW header \in Word, NEW s \in Seq(Byte),
           (Len(s) + 4) + header < Modulus,
           NEW b \in Message(header, StringSize(s))
    PROVE  ~Refuses(b, Len(s) + 4) /\ FullyUsed(WriteString(b, s))
<1>1. Len(s) \in Nat /\ Modulus \in Nat /\ header \in 0 .. Modulus - 1
  BY DEF Machine, Word
<1>2. StringSize(s) = Len(s) + 4 /\ StringSize(s) \in Word
  BY <1>1 DEF StringSize, Plus, Word
<1>3. Sound(b)
  BY <1>2, MessageSound
<1>4. b.offset = header /\ b.len = Len(s) + 4 + header
  BY <1>1, <1>2 DEF Message, Created, Plus
<1>5. ~Refuses(b, Len(s) + 4)
  <2>1. Len(s) + 4 \in Nat /\ b.offset + (Len(s) + 4) <= b.len
    BY <1>1, <1>4
  <2> QED BY <1>3, <2>1, BoundsExact
<1>6. ~Refuses(b, 4)
  <2>1. b.offset + 4 <= b.len
    BY <1>1, <1>4
  <2> QED BY <1>3, <2>1, BoundsExact
<1>7. Plus(b.offset, 4) = header + 4
  BY <1>1, <1>4 DEF Plus
<1>8. Plus(header + 4, Len(s)) = b.len
  BY <1>1, <1>4 DEF Plus
<1>9. Len(Encode(Len(s))) = 4
  <2>1. Len(s) \in Word
    BY <1>1 DEF Word
  <2>2. Encode(Len(s)) \in [1 .. 4 -> Byte]
    BY <2>1 DEF Machine
  <2> QED BY <2>2, FunctionIsSeq
<1>10. Put(b, Encode(Len(s))).offset = header + 4
       /\ Put(b, Encode(Len(s))).len = b.len
  BY <1>7, <1>9 DEF Put
<1>11. /\ Put(Put(b, Encode(Len(s))), s).offset = b.len
       /\ Put(Put(b, Encode(Len(s))), s).len = b.len
  BY <1>8, <1>10 DEF Put
<1> QED BY <1>5, <1>6, <1>11 DEF WriteString, WriteWord, FullyUsed
=============================================================================
