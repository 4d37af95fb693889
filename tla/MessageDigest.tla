---------------------------- MODULE MessageDigest ----------------------------
(***************************************************************************)
(* SHA-512 as veracrypt_jni.cpp feeds it: sha512_init, any number of calls *)
(* of sha512_update that cut the message where they like, sha512_final,    *)
(* and the next message in the same SHA512Ctx, whose buffer keeps the      *)
(* bytes of the one before.                                                *)
(*                                                                         *)
(* sha512_compress is taken for the block it is given: ctx->state is the   *)
(* sequence of the bytes of all blocks so far. Two messages have the same  *)
(* digest in the model only where the code compresses the same blocks.     *)
(***************************************************************************)
EXTENDS Integers, Sequences

CONSTANTS BlockSize,    \* 128
          LengthSize,   \* 16 bytes for the length of the message
          Word,         \* 2^64, values of uint64_t
          Bytes,        \* what messages are made of
          Messages,
          Stop, Zero,   \* 0x80 and 0x00 of the padding
          Garbage       \* what is on the stack before

ASSUME BlockAssumption ==
    /\ BlockSize \in Nat /\ LengthSize \in Nat \ {0} /\ LengthSize < BlockSize
    /\ LengthSize % 2 = 0
ASSUME WordAssumption == Word \in Nat \ {0} /\ Word % 8 = 0
ASSUME MessagesAssumption ==
    Messages \subseteq Seq(Bytes) /\ \A m \in Messages : Len(m) < Word

VARIABLES hashing,     \* none, update, done: where in the calls
          message,     \* the bytes of all calls of sha512_update in a row
          left,        \* len of the call that runs, as it counts down
          fed,         \* history: bytes of the message that were taken
          compressed,  \* ctx->state
          byteCount, buf, bufPos

ctxVars == <<compressed, byteCount, buf, bufPos>>
digestVars == <<hashing, message, left, fed, ctxVars>>

Index == 0 .. BlockSize - 1

(* The byte of a word of the length field, from its top one on. *)
LengthByte(word, k) == <<word, k>>
Filling == {Stop, Zero, Garbage} \cup
           {LengthByte(w, k) : w \in 0 .. Word - 1, k \in 0 .. LengthSize}

DigestInit ==
    /\ hashing = "none"
    /\ message = <<>> /\ left = 0 /\ fed = 0
    /\ compressed = <<>> /\ byteCount = 0
    /\ buf = [i \in Index |-> Garbage] /\ bufPos = 0

-----------------------------------------------------------------------------
(* sha512_init leaves the buffer as it is. *)
HashInit ==
    /\ hashing \in {"none", "done"}
    /\ hashing' = "update"
    /\ message' \in Messages
    /\ left' = 0 /\ fed' = 0
    /\ compressed' = <<>> /\ byteCount' = 0 /\ bufPos' = 0
    /\ UNCHANGED buf

(* sha512_update is called with the next n bytes. *)
UpdateCall ==
    /\ hashing = "update" /\ left = 0
    /\ left' \in 1 .. Len(message) - fed
    /\ UNCHANGED <<hashing, message, fed, ctxVars>>

Block(b) == [i \in 1 .. BlockSize |-> b[i - 1]]

(* One turn of its loop. *)
UpdateTurn ==
    /\ hashing = "update" /\ left > 0
    /\ LET room == BlockSize - bufPos
           take == IF left < room THEN left ELSE room
           filled == [i \in Index |->
               IF i \in bufPos .. bufPos + take - 1
               THEN message[fed + i - bufPos + 1] ELSE buf[i]]
           full == bufPos + take = BlockSize
       IN  /\ buf' = filled
           /\ bufPos' = IF full THEN 0 ELSE bufPos + take
           /\ compressed' = IF full THEN compressed \o Block(filled) ELSE compressed
           /\ byteCount' = (byteCount + take) % Word
           /\ left' = left - take
           /\ fed' = fed + take
    /\ UNCHANGED <<hashing, message>>

(* memset of zeros over the places from from to to - 1. *)
Zeroed(b, from, to) == [i \in Index |-> IF i \in from .. to - 1 THEN Zero ELSE b[i]]

(* The bit count as two words, the high one first. *)
BitsLow(count) == (count * 8) % Word
BitsHigh(count) == count \div (Word \div 8)

lengthAt == BlockSize - LengthSize
WithLength(b, count) == [i \in Index |->
    IF i < lengthAt THEN b[i]
    ELSE IF i - lengthAt < LengthSize \div 2
    THEN LengthByte(BitsHigh(count), i - lengthAt)
    ELSE LengthByte(BitsLow(count), i - lengthAt - LengthSize \div 2)]

(* The comparison that makes room for the length field, off by one. *)
SpillsLate(pos) == pos > lengthAt + 1

(* The length does not fit behind the first pos bytes. *)
Spills(pos) == pos > lengthAt

(* sha512_final *)
HashFinal ==
    /\ hashing = "update" /\ left = 0 /\ fed = Len(message)
    /\ LET stopped == [buf EXCEPT ![bufPos] = Stop]
           spilled == Zeroed(stopped, bufPos + 1, BlockSize)
           spills == Spills(bufPos + 1)
           from == IF spills THEN 0 ELSE bufPos + 1
           last == WithLength(Zeroed(IF spills THEN spilled ELSE stopped,
                                     from, lengthAt), byteCount)
       IN  /\ buf' = last
           /\ bufPos' = from
           /\ compressed' = IF spills THEN compressed \o Block(spilled) \o Block(last)
                                      ELSE compressed \o Block(last)
    /\ hashing' = "done"
    /\ UNCHANGED <<message, left, fed, byteCount>>

DigestNext == HashInit \/ UpdateCall \/ UpdateTurn \/ HashFinal

DigestSpec == DigestInit /\ [][DigestNext]_digestVars

-----------------------------------------------------------------------------
(* Properties *)

DigestTypeOK ==
    /\ hashing \in {"none", "update", "done"}
    /\ message \in Seq(Bytes) /\ Len(message) < Word
    /\ left \in Nat /\ fed \in Nat
    /\ compressed \in Seq(Bytes \cup Filling)
    /\ byteCount \in 0 .. Word - 1
    /\ buf \in [Index -> Bytes \cup Filling]
    /\ bufPos \in 0 .. BlockSize

(* The shortest run of zeros after which message, stop and length fill blocks. *)
ZeroRun(n) == (BlockSize - ((n + 1 + LengthSize) % BlockSize)) % BlockSize

(* The message as FIPS 180-4 pads it: 8 times its length as one number of two
   words at the end. *)
PaddedByte(m, i) ==
    LET n == Len(m)
        k == i - (n + 1 + ZeroRun(n)) - 1
    IN  IF i <= n THEN m[i]
        ELSE IF i = n + 1 THEN Stop
        ELSE IF k < 0 THEN Zero
        ELSE IF k < LengthSize \div 2 THEN LengthByte((n * 8) \div Word, k)
        ELSE LengthByte((n * 8) % Word, k - LengthSize \div 2)
Padded(m) == [i \in 1 .. Len(m) + 1 + ZeroRun(Len(m)) + LengthSize |-> PaddedByte(m, i)]

(* sha512_final has compressed exactly the padded message: nothing of a digest
   depends on where sha512_update cut the message, on what the buffer of the
   context held before, or on which side of a block boundary the message ends. *)
DigestOfMessage == hashing = "done" => compressed = Padded(message)
=============================================================================
