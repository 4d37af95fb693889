--------------------------- MODULE RotatingChecksum ---------------------------
(***************************************************************************)
(* The checksums of FAT and exFAT, which all turn the sum by one bit and   *)
(* add a byte: fat_lfn_checksum over a short name, exfat_set_checksum_     *)
(* update over a set of records, exfat_validate_boot_region over the       *)
(* sectors of a boot region, and the loop over the up-case table.          *)
(*                                                                         *)
(* The same area is summed twice in parallel: as it was when its checksum  *)
(* was stored, and as it is found, with at most one byte damaged since.    *)
(***************************************************************************)
EXTENDS Integers

CONSTANTS Areas,     \* lfn, set, boot, upcase
          Size,        \* bytes of an area
          Unsummed,    \* places that are passed over: flags, the checksum itself
          Half,        \* 2^7, 2^15, 2^31: half the values of the sum
          ByteValues

ASSUME AreasAssumption ==
    /\ "none" \notin Areas
    /\ Size \in [Areas -> Nat] /\ Half \in [Areas -> Nat \ {0}]
    /\ Unsummed \in [Areas -> SUBSET Nat]
    /\ \A k \in Areas : ByteValues \subseteq 0 .. 2 * Half[k] - 1

VARIABLES area,      \* the area that is summed, "none" before
          damage,    \* the place of the damaged byte, the size of the area if none
          passed,    \* bytes that were passed
          written, found  \* checksum of the area as it was and as it is

checksumVars == <<area, damage, passed, written, found>>

ChecksumInit ==
    /\ area = "none" /\ damage = 0 /\ passed = 0 /\ written = 0 /\ found = 0

-----------------------------------------------------------------------------
SumStart ==
    /\ area = "none"
    /\ area' \in Areas
    /\ damage' \in 0 .. Size[area']
    /\ UNCHANGED <<passed, written, found>>

(* A shift in place of a rotation. *)
Shifted(sum, half, byte) == (sum \div 2 + byte) % (2 * half)

(* A bit that leaves at the low end comes in at the high end. *)
Rotated(sum, half, byte) == (sum \div 2 + (sum % 2) * half + byte) % (2 * half)

(* The next place is left out as well. *)
PassedOverTwice(k, i) == i \in Unsummed[k] \/ i - 1 \in Unsummed[k]

(* The continue of a loop, or the places that it has no turn for. *)
PassedOver(k, i) == i \in Unsummed[k]

(* One turn of a loop. *)
SumByte ==
    /\ area # "none" /\ passed < Size[area]
    /\ \E was, is \in ByteValues :
          /\ (was # is) <=> (passed = damage)
          /\ IF PassedOver(area, passed) THEN UNCHANGED <<written, found>>
             ELSE /\ written' = Rotated(written, Half[area], was)
                  /\ found' = Rotated(found, Half[area], is)
    /\ passed' = passed + 1
    /\ UNCHANGED <<area, damage>>

ChecksumNext == SumStart \/ SumByte

ChecksumSpec == ChecksumInit /\ [][ChecksumNext]_checksumVars

-----------------------------------------------------------------------------
(* Properties *)

ChecksumTypeOK ==
    /\ area \in Areas \cup {"none"}
    /\ damage \in Nat /\ passed \in Nat
    /\ area # "none" =>
          /\ damage \in 0 .. Size[area] /\ passed \in 0 .. Size[area]
          /\ written \in 0 .. 2 * Half[area] - 1
          /\ found \in 0 .. 2 * Half[area] - 1
    /\ area = "none" => passed = 0 /\ written = 0 /\ found = 0

(* The comparison with the stored checksum sees every damaged byte, wherever it
   is and whatever follows it, but for those that are left out on purpose: the
   mount flags of a volume may change, and its boot region stays valid. *)
DamageIsSeen ==
    area # "none" /\ passed = Size[area] =>
        (written = found <=> damage = Size[area] \/ damage \in Unsummed[area])
=============================================================================
