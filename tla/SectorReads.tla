------------------------------ MODULE SectorReads ------------------------------
(***************************************************************************)
(* One sector from the file to its plaintext: read_full_at, whose pread64  *)
(* may be interrupted or bring only a part, and aes256_xts_decrypt, which  *)
(* changes its tweak in place from one block to the next.                  *)
(*                                                                         *)
(* AES is unknown: a decrypted block is what it was made from, the bytes   *)
(* of the file and the tweak. Bytes of the file are named by their place;  *)
(* a byte of a tweak is the set of its bits that are 1.                    *)
(***************************************************************************)
EXTENDS Integers

CONSTANTS SectorBytes,   \* bytes per sector
          BlockBytes,    \* 16
          ByteBits,      \* 8
          Reduction,     \* 0x87: the bits 0, 1, 2 and 7
          FirstTweaks,   \* what AES makes of the number of a sector
          Places,        \* where sectors are in the file
          FileEnds       \* where the file ends, which may have become shorter

ASSUME BlocksAssumption ==
    /\ SectorBytes \in Nat \ {0} /\ BlockBytes \in Nat \ {0} /\ ByteBits \in Nat \ {0}
    /\ SectorBytes % BlockBytes = 0
    /\ Places \subseteq Nat /\ FileEnds \subseteq Nat
    /\ Reduction \subseteq 0 .. ByteBits - 1
    /\ FirstTweaks \subseteq [0 .. BlockBytes - 1 -> SUBSET (0 .. ByteBits - 1)]

VARIABLES reading,   \* none, pread, tweak, blocks, read, failed: place in the calls
          sector,    \* place in the file, end of the file, first tweak
          count,     \* done of read_full_at
          enc,       \* the buffer on the stack
          T, pos,    \* of aes256_xts_decrypt
          plain      \* outBuf

sectorVars == <<reading, sector, count, enc, T, pos, plain>>

OldByte == -1        \* what is in a buffer before
OldBlock == <<>>
SectorIndex == 0 .. SectorBytes - 1

NoTweak == [i \in 0 .. BlockBytes - 1 |-> {}]

SectorInit ==
    /\ reading = "none"
    /\ sector = [place |-> 0, end |-> 0, tweak |-> NoTweak]
    /\ count = 0
    /\ enc = [i \in SectorIndex |-> OldByte]
    /\ T = NoTweak /\ pos = 0
    /\ plain = [b \in 0 .. (SectorBytes \div BlockBytes) - 1 |-> OldBlock]

-----------------------------------------------------------------------------
SectorCall ==
    /\ reading = "none"
    /\ reading' = "pread"
    /\ sector' \in [place : Places, end : FileEnds, tweak : FirstTweaks]
    /\ UNCHANGED <<count, enc, T, pos, plain>>

(* pread64 at offset + done, into the buffer at done. An interrupted call
   (EINTR) is made again and changes nothing. *)
Pread ==
    /\ reading = "pread" /\ count < SectorBytes
    /\ \E n \in 1 .. SectorBytes - count :
          /\ sector.place + count + n <= sector.end
          /\ enc' = [i \in SectorIndex |->
                 IF i \in count .. count + n - 1 THEN sector.place + i ELSE enc[i]]
          /\ count' = count + n
    /\ UNCHANGED <<reading, sector, T, pos, plain>>

(* An error, or the end of the file. *)
PreadFails ==
    /\ reading = "pread" /\ count < SectorBytes
    /\ reading' = "failed"
    /\ UNCHANGED <<sector, count, enc, T, pos, plain>>

FirstTweak ==
    /\ reading = "pread" /\ count = SectorBytes
    /\ reading' = "blocks"
    /\ T' = sector.tweak /\ pos' = 0
    /\ UNCHANGED <<sector, count, enc, plain>>

Xor(s, t) == (s \ t) \cup (t \ s)
Top == ByteBits - 1
ShiftedLeft(s) == {b + 1 : b \in s \ {Top}}
Carried(s) == IF Top \in s THEN {0} ELSE {}
LowByte(t) == Xor(ShiftedLeft(t[0]), IF Top \in t[BlockBytes - 1] THEN Reduction ELSE {})

(* The loop from the first byte on, over bytes that are shifted already. *)
DoubledUpwards(t) ==
    LET new[i \in 0 .. BlockBytes - 1] ==
            IF i = 0 THEN LowByte(t) ELSE ShiftedLeft(t[i]) \cup Carried(new[i - 1])
    IN  new

(* The loop from the last byte down, which reads bytes that are not yet shifted. *)
Doubled(t) == [i \in 0 .. BlockBytes - 1 |->
    IF i = 0 THEN LowByte(t) ELSE ShiftedLeft(t[i]) \cup Carried(t[i - 1])]

DecryptBlock ==
    /\ reading = "blocks" /\ pos + BlockBytes <= SectorBytes
    /\ plain' = [plain EXCEPT ![pos \div BlockBytes] =
           <<[i \in 0 .. BlockBytes - 1 |-> enc[pos + i]], T>>]
    /\ T' = Doubled(T)
    /\ pos' = pos + BlockBytes
    /\ UNCHANGED <<reading, sector, count, enc>>

(* The tweak is wiped. *)
DecryptEnd ==
    /\ reading = "blocks" /\ pos + BlockBytes > SectorBytes
    /\ reading' = "read"
    /\ T' = NoTweak
    /\ UNCHANGED <<sector, count, enc, pos, plain>>

SectorNext ==
    SectorCall \/ Pread \/ PreadFails \/ FirstTweak \/ DecryptBlock \/ DecryptEnd

SectorSpec == SectorInit /\ [][SectorNext]_sectorVars

-----------------------------------------------------------------------------
(* Properties *)

(* A tweak as a polynomial: the set of its exponents. *)
Exponents(t) == UNION {{ByteBits * i + b : b \in t[i]} : i \in 0 .. BlockBytes - 1}

(* IEEE 1619: times x, modulo a polynomial of the degree of a block. *)
TimesX(p) ==
    LET degree == ByteBits * BlockBytes
        up == {e + 1 : e \in p}
    IN  IF degree \in up THEN Xor(up \ {degree}, Reduction) ELSE up

(* Its product with the n-th power of x. *)
PowerOf(t) ==
    LET power[n \in Nat] == IF n = 0 THEN Exponents(t) ELSE TimesX(power[n - 1])
    IN  power

(* With an irreducible polynomial, as 0x87 makes it, no tweak but zero comes back
   within a sector. *)
ASSUME PolynomialAssumption ==
    \A t \in FirstTweaks : Exponents(t) # {} =>
        \A m, n \in 0 .. (SectorBytes \div BlockBytes) - 1 :
            PowerOf(t)[m] = PowerOf(t)[n] => m = n

(* Whatever pieces pread64 brings, a sector that is read consists of the bytes at
   its place in the file, each block decrypted with the power of x that XTS gives
   it, no two blocks with the same tweak; nothing of a sector that is cut off by
   the end of the file is decrypted. *)
SectorDecrypted ==
    LET tweak == sector.tweak IN
    /\ reading = "read" =>
          /\ \A b \in DOMAIN plain :
                /\ plain[b][1] = [i \in 0 .. BlockBytes - 1 |->
                                     sector.place + b * BlockBytes + i]
                /\ Exponents(plain[b][2]) = PowerOf(tweak)[b]
          /\ Exponents(tweak) # {} =>
                \A b, c \in DOMAIN plain : plain[b][2] = plain[c][2] => b = c
    /\ reading \in {"blocks", "read"} => sector.place + SectorBytes <= sector.end
    /\ reading = "failed" => \A b \in DOMAIN plain : plain[b] = OldBlock
=============================================================================
