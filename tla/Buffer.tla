-------------------------------- MODULE Buffer --------------------------------
(***************************************************************************)
(* A message under construction or being read,                             *)
(* src/src/transport/Buffer.h and Buffer.cpp: bytes, a length and an       *)
(* offset, both unsigned and of fixed width.  A buffer is a value.  What   *)
(* throws DataSerialisationException leaves the buffer as it is then.      *)
(***************************************************************************)
EXTENDS Integers, Sequences

CONSTANTS
    Byte,       \* the values of a byte
    Modulus,    \* 2^32, the number of values of an uint32_t
    Encode(_),  \* the 4 bytes of an uint32_t in memory
    Decode(_)   \* the uint32_t that 4 bytes in memory are

Word == 0 .. Modulus - 1

(* What the theorems need of the machine: a word read is the word stored.  *)
Machine ==
    /\ Modulus \in Nat \ {0} /\ Modulus > 4
    /\ \A n \in Word : /\ Encode(n) \in [1 .. 4 -> Byte]
                       /\ Decode(Encode(n)) = n

(* Arithmetic of uint32_t. *)
Minus(a, b) == IF b <= a THEN a - b ELSE a - b + Modulus
Plus(a, b) == IF a + b < Modulus THEN a + b ELSE a + b - Modulus

Buffers == [data : Seq(Byte), len : Word, offset : Word]

-----------------------------------------------------------------------------
(* Constructors, moves, and what leaves the buffer *)

Null == <<>>

Empty == [data |-> Null, len |-> 0, offset |-> 0]

(* Memory from new[] holds anything. *)
Created(n, offset) ==
    [data : [1 .. n -> Byte], len : {n}, offset : {offset}]

(* RequestBuffer and ResponseBuffer: room for a header and n bytes.  The    *)
(* sum is computed as a size_t and passed as an uint32_t.                  *)
Message(header, n) == Created(Plus(n, header), header)

FromPointer(data, n) == [data |-> data, len |-> n, offset |-> 0]

(* The length of the vector is not kept. *)
FromVector(v) == [data |-> v, len |-> 0, offset |-> 0]

(* A moved buffer keeps its length and its offset, but no data. *)
MovedFrom(b) == [b EXCEPT !.data = Null]

ToBlob(b) == SubSeq(b.data, 1, b.len)

FullyUsed(b) == b.offset = b.len

-----------------------------------------------------------------------------
(* Writing and reading *)

(* The check of every operation, before it copies n bytes. *)
Refuses(b, n) == Minus(b.len, b.offset) < n

Put(b, d) ==
    [data |-> [i \in DOMAIN b.data |->
                  IF i \in b.offset + 1 .. b.offset + Len(d)
                  THEN d[i - b.offset] ELSE b.data[i]],
     len |-> b.len,
     offset |-> Plus(b.offset, Len(d))]

At(b, n) == [i \in 1 .. n |-> b.data[b.offset + i]]

Skip(b, n) == [b EXCEPT !.offset = Plus(b.offset, n)]

(* writeData, and the writes of identities, keys and signatures. *)
WriteData(b, d) == IF Refuses(b, Len(d)) THEN b ELSE Put(b, d)

(* readData: what is read, and the buffer after it. *)
ReadData(b, n) == IF Refuses(b, n) THEN [value |-> Null, rest |-> b]
                  ELSE [value |-> At(b, n), rest |-> Skip(b, n)]

(* An integer of 4 bytes is written and read in place. *)
WriteWord(b, n) == IF Refuses(b, 4) THEN b ELSE Put(b, Encode(n))

ReadWord(b) == IF Refuses(b, 4) THEN [value |-> 0, rest |-> b]
               ELSE [value |-> Decode(At(b, 4)), rest |-> Skip(b, 4)]

(* A string: its length, then its bytes.  The room for both is checked     *)
(* first, with the length of the string as a size_t, which does not wrap.  *)
WriteString(b, s) ==
    IF Refuses(b, Len(s) + 4) THEN b ELSE Put(WriteWord(b, Len(s)), s)

ReadString(b) ==
    LET size == ReadWord(b)
    IN  IF Refuses(b, 4) \/ Refuses(size.rest, size.value)
        THEN [value |-> Null, rest |-> size.rest]
        ELSE [value |-> At(size.rest, size.value),
              rest |-> Skip(size.rest, size.value)]

(* The size of a string in a message, computed beforehand. *)
StringSize(s) == Plus(4, Len(s))

-----------------------------------------------------------------------------
(* The buffers the program makes: the offset is inside, and the data is    *)
(* there.                                                                  *)
Sound(b) ==
    /\ b \in Buffers
    /\ b.offset <= b.len
    /\ Len(b.data) = b.len
=============================================================================
