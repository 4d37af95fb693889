---------------------------- MODULE KeyDerivation ----------------------------
(***************************************************************************)
(* HMAC-SHA-512 and PBKDF2 of veracrypt_jni.cpp, which turn the password   *)
(* and the salt of a container into its header key, step by step and with  *)
(* the buffer U that is message and result of the same hmac_sha512 call.   *)
(*                                                                         *)
(* A digest is an unknown function of the whole message that was hashed    *)
(* (DigestOfMessage of MessageDigest says that it is one), and a byte of T *)
(* is the set of the bytes that were XORed into it.                        *)
(***************************************************************************)
EXTENDS Integers, Sequences, FiniteSets

CONSTANTS KeyBlock,      \* 128, the block of the hash
          DigestSize,    \* 64
          SaltSize,      \* 64
          Counter,       \* the block index 1, as four bytes
          NoByte,        \* 0x00
          Passwords, Salts, Iterations

ASSUME SizesOfKeyAssumption ==
    DigestSize \in Nat \ {0} /\ KeyBlock \in Nat /\ DigestSize <= KeyBlock
    /\ SaltSize \in Nat
(* The salt of a container is as long as the buffer has room for; at least one turn
   is made. *)
ASSUME InputAssumption ==
    /\ \A s \in Salts : s \in Seq({s[i] : i \in DOMAIN s}) /\ Len(s) <= SaltSize
    /\ Iterations \subseteq Nat \ {0}

VARIABLES deriving,      \* none, inner, outer, fold, derived: place in the calls
          input,         \* password, salt and number of iterations
          k0, inner,     \* of the running hmac_sha512
          uBytes, tBytes, turn,  \* U, T and i of pbkdf2_sha512
          dk

deriveVars == <<deriving, input, k0, inner, uBytes, tBytes, turn, dk>>

Digest(m) == [i \in 1 .. DigestSize |-> <<"digest", m, i>>]
Xored(mask, k) == [i \in 1 .. KeyBlock |-> <<mask, k[i]>>]
Fill(s, n) == [i \in 1 .. n |-> IF i <= Len(s) THEN s[i] ELSE NoByte]
Upto(s, n) == SubSeq(s, 1, IF Len(s) < n THEN Len(s) ELSE n)
NoBytes == [i \in 1 .. DigestSize |-> NoByte]

DeriveInit ==
    /\ deriving = "none"
    /\ input = [password |-> <<>>, salt |-> <<>>, iterations |-> 0]
    /\ k0 = <<>> /\ inner = NoBytes /\ uBytes = NoBytes
    /\ tBytes = [i \in 1 .. DigestSize |-> {}]
    /\ turn = 0 /\ dk = <<>>

DeriveCall ==
    /\ deriving = "none"
    /\ deriving' = "key"
    /\ input' \in [password : Passwords, salt : Salts, iterations : Iterations]
    /\ UNCHANGED <<k0, inner, uBytes, tBytes, turn, dk>>

(* A key of a whole block is hashed as well. *)
HmacKeyWhole ==
    /\ deriving = "key"
    /\ deriving' = "inner"
    /\ LET key == input.password IN
       k0' = Fill(IF Len(key) >= KeyBlock THEN Digest(key) ELSE key, KeyBlock)
    /\ UNCHANGED <<input, inner, uBytes, tBytes, turn, dk>>

HmacKey ==
    /\ deriving = "key"
    /\ deriving' = "inner"
    /\ LET key == input.password IN
       k0' = Fill(IF Len(key) > KeyBlock THEN Digest(key) ELSE key, KeyBlock)
    /\ UNCHANGED <<input, inner, uBytes, tBytes, turn, dk>>

(* The message is the salt with its counter, then U. *)
HmacInner ==
    /\ deriving = "inner"
    /\ deriving' = "outer"
    /\ LET msg == IF turn = 0 THEN Upto(input.salt, SaltSize) \o Counter ELSE uBytes
       IN  inner' = Digest(Xored(54, k0) \o msg)
    /\ UNCHANGED <<input, k0, uBytes, tBytes, turn, dk>>

HmacOuter ==
    /\ deriving = "outer"
    /\ deriving' = "fold"
    /\ uBytes' = Digest(Xored(92, k0) \o inner)
    /\ UNCHANGED <<input, k0, inner, tBytes, turn, dk>>

(* T = U, then T ^= U, and the next turn of the loop or the result. *)
Fold ==
    /\ deriving = "fold"
    /\ tBytes' = [j \in 1 .. DigestSize |->
           IF turn = 0 THEN {uBytes[j]}
           ELSE IF uBytes[j] \in tBytes[j] THEN tBytes[j] \ {uBytes[j]}
           ELSE tBytes[j] \cup {uBytes[j]}]
    /\ turn' = turn + 1
    /\ IF turn + 1 < input.iterations
       THEN deriving' = "key" /\ UNCHANGED dk
       ELSE deriving' = "derived" /\ dk' = tBytes'
    /\ UNCHANGED <<input, k0, inner, uBytes>>

DeriveNext == DeriveCall \/ HmacKey \/ HmacInner \/ HmacOuter \/ Fold

DeriveSpec == DeriveInit /\ [][DeriveNext]_deriveVars

-----------------------------------------------------------------------------
(* HMAC and PBKDF2 as RFC 2104 and RFC 8018 define them. *)
Hmac(key, m) ==
    LET k == Fill(IF Len(key) > KeyBlock THEN Digest(key) ELSE key, KeyBlock)
    IN  Digest(Xored(92, k) \o Digest(Xored(54, k) \o m))

U[n \in Nat \ {0}] ==
    Hmac(input.password, IF n = 1 THEN input.salt \o Counter ELSE U[n - 1])

(* The XOR of the j-th bytes of the first n: the bytes of which there is an odd
   number. *)
XorOf(n, j) ==
    {U[i][j] : i \in {i \in 1 .. n :
                         Cardinality({h \in 1 .. n : U[h][j] = U[i][j]}) % 2 = 1}}

(* The header key is the XOR of the chain U[1] ... U[iterations] of HMACs, each
   of the one before, for passwords shorter than, as long as and longer than a
   block, although pbkdf2_sha512 reads and writes the chain in one buffer. *)
KeyIsDerived ==
    deriving = "derived" =>
        dk = [j \in 1 .. DigestSize |-> XorOf(input.iterations, j)]
=============================================================================
