------------------------------ MODULE EntryNames ------------------------------
(***************************************************************************)
(* The way of a name from the units of a directory record to a path and    *)
(* back: utf16_to_utf8_strict unit by unit, the 8.3 name that stands in    *)
(* for a FAT32 name that is no text, the path that nativeListDir gives to  *)
(* the entry, the Java strings that it makes of both, and what             *)
(* safe_absolute_path, split_path and the document ids of                  *)
(* VeraCryptDocumentsProvider make of that path when it is asked for.      *)
(*                                                                         *)
(* Units and bytes are numbers, with their real widths. A Java string is   *)
(* written as the bytes that GetStringUTFChars gives of it.                *)
(***************************************************************************)
EXTENDS Integers, Sequences

CONSTANTS LongNames,    \* sequences of units of a long name
          BaseSize, ExtSize,   \* of an 8.3 name: 8 and 3
          ShortNames,   \* its bytes
          Parents,      \* directories that are listed, as paths
          Garbled,      \* strings that NewStringUTF may make of what is no text
          MaxNameBytes, \* kMaxUtf8NameBytes: 1024
          MaxPath       \* 4096

LongUnits == 1 .. 65534   \* 0 and 0xFFFF end a long name

(* A record whose name starts with 0 ends the directory, and with 0xE5 it is
   deleted; every other byte of an 8.3 name is taken as it is. *)
ASSUME NamesAssumption ==
    /\ LongNames \subseteq Seq(LongUnits)
    /\ BaseSize \in Nat \ {0} /\ ExtSize \in Nat
    /\ ShortNames \subseteq {s \in [1 .. BaseSize + ExtSize -> 0 .. 255] :
                              s[1] \notin {0, 229}}
    /\ Garbled \subseteq Seq(1 .. 255)
    /\ MaxNameBytes \in Nat /\ MaxPath \in Nat

VARIABLES naming,    \* none, decode, text, refused, named, skipped, listed, lost
          source,    \* format, directory and units of the entry
          index, high, utf8,  \* of utf16_to_utf8_strict
          name,      \* of the DirEntry
          entry,     \* the VolumeEntry: Java strings name and path
          answer     \* to the last request for the path

namesVars == <<naming, source, index, high, utf8, name, entry, answer>>

Slash == 47
Backslash == 92
Dot == 46
Space == 32
NoEntry == [name |-> <<>>, path |-> <<>>]
NoAnswer == [by |-> "none", parts |-> <<>>, granted |-> FALSE]

NamesInit ==
    /\ naming = "none"
    /\ source = [format |-> "fat32", parent |-> <<Slash>>, units |-> <<>>]
    /\ index = 1 /\ high = 0 /\ utf8 = <<>>
    /\ name = <<>> /\ entry = NoEntry /\ answer = NoAnswer

Has(s, b) == \E i \in DOMAIN s : s[i] = b
IsDots(s) == s = <<Dot>> \/ s = <<Dot, Dot>>

-----------------------------------------------------------------------------
(* UTF-16 to UTF-8 *)

NameCall ==
    /\ naming = "none"
    /\ naming' = "decode"
    /\ source' \in [format : {"fat32", "exfat"}, parent : Parents, units : LongNames]
    /\ UNCHANGED <<index, high, utf8, name, entry, answer>>

HighSurrogate(u) == u \in 55296 .. 56319
LowSurrogate(u) == u \in 56320 .. 57343

Tail6(c, shift) == 128 + ((c \div shift) % 64)

(* encode_codepoint with the bound of two bytes one too low. *)
EncodedLong(c) ==
    IF c <= 127 THEN <<c>>
    ELSE IF c <= 2046 THEN <<192 + c \div 64, Tail6(c, 1)>>
    ELSE IF c <= 65535 THEN <<224 + c \div 4096, Tail6(c, 64), Tail6(c, 1)>>
    ELSE <<240 + c \div 262144, Tail6(c, 4096), Tail6(c, 64), Tail6(c, 1)>>

(* encode_codepoint, which no surrogate reaches *)
Encoded(c) ==
    IF c <= 127 THEN <<c>>
    ELSE IF c <= 2047 THEN <<192 + c \div 64, Tail6(c, 1)>>
    ELSE IF c <= 65535 THEN <<224 + c \div 4096, Tail6(c, 64), Tail6(c, 1)>>
    ELSE <<240 + c \div 262144, Tail6(c, 4096), Tail6(c, 64), Tail6(c, 1)>>

CodePoint(h, u) == IF h = 0 THEN u ELSE 65536 + (h - 55296) * 1024 + (u - 56320)

Unit == source.units[index]
MoreUnits == naming = "decode" /\ index <= Len(source.units)

DecodeHigh ==
    /\ MoreUnits /\ high = 0 /\ HighSurrogate(Unit)
    /\ high' = Unit /\ index' = index + 1
    /\ UNCHANGED <<naming, source, utf8, name, entry, answer>>

DecodeCharacter ==
    /\ MoreUnits
    /\ IF high = 0 THEN ~HighSurrogate(Unit) /\ ~LowSurrogate(Unit)
                   ELSE LowSurrogate(Unit)
    /\ LET bytes == Encoded(CodePoint(high, Unit))
           fits == Len(utf8) + Len(bytes) <= MaxNameBytes
       IN  /\ naming' = IF fits THEN "decode" ELSE "refused"
           /\ utf8' = IF fits THEN utf8 \o bytes ELSE <<>>
    /\ high' = 0 /\ index' = index + 1
    /\ UNCHANGED <<source, name, entry, answer>>

(* What was converted before stays in the output. *)
DecodeLone ==
    /\ MoreUnits
    /\ IF high = 0 THEN LowSurrogate(Unit) ELSE ~LowSurrogate(Unit)
    /\ naming' = "refused"
    /\ UNCHANGED <<source, index, high, utf8, name, entry, answer>>

DecodeEnd ==
    /\ naming = "decode" /\ index = Len(source.units) + 1
    /\ naming' = IF high = 0 /\ utf8 # <<>> THEN "text" ELSE "refused"
    /\ utf8' = IF high = 0 THEN utf8 ELSE <<>>
    /\ UNCHANGED <<source, index, high, name, entry, answer>>

-----------------------------------------------------------------------------
(* The entry *)

(* A backslash is looked for where the slash should be. *)
LongNameSlashed ==
    /\ naming = "text"
    /\ IF source.format = "exfat" /\ (IsDots(utf8) \/ Has(utf8, Backslash))
       THEN naming' = "skipped" /\ UNCHANGED name
       ELSE naming' = "named" /\ name' = utf8
    /\ UNCHANGED <<source, index, high, utf8, entry, answer>>

(* A long name of FAT32, or one of exFAT that is good for a path. *)
LongName ==
    /\ naming = "text"
    /\ IF /\ source.format = "exfat"
          /\ IsDots(utf8) \/ Has(utf8, Slash) \/ Has(utf8, Backslash)
       THEN naming' = "skipped" /\ UNCHANGED name
       ELSE naming' = "named" /\ name' = utf8
    /\ UNCHANGED <<source, index, high, utf8, entry, answer>>

(* What is before the first b. *)
Before(s, b) ==
    LET found == {i \in DOMAIN s : s[i] = b}
        end == CHOOSE i \in found \cup {Len(s) + 1} : \A j \in found : i <= j
    IN  SubSeq(s, 1, end - 1)

(* The bytes of a field up to its first space. *)
Trimmed(s, from, to) == Before(SubSeq(s, from, to), Space)

(* fat_83_to_string *)
ShortName(s) ==
    LET base == Trimmed(s, 1, BaseSize)
        ext == Trimmed(s, BaseSize + 1, BaseSize + ExtSize)
    IN  IF ext = <<>> THEN base ELSE base \o <<Dot>> \o ext

(* FAT32 has a second name, exFAT passes over the set. *)
NoText ==
    /\ naming = "refused"
    /\ IF source.format = "exfat"
       THEN naming' = "skipped" /\ UNCHANGED name
       ELSE naming' = "named" /\ name' \in {ShortName(s) : s \in ShortNames}
    /\ UNCHANGED <<source, index, high, utf8, entry, answer>>

-----------------------------------------------------------------------------
(* Java strings, as Android's runtime makes them and gives them back: a pair of
   surrogates has one form of four bytes (by the letter of JNI it has six). *)

(* NewStringUTF reads one character at a time, by its first byte: units, or -1
   for bytes that are no character in its shortest form. *)
Width(b) == IF b < 128 THEN 1 ELSE IF b < 224 THEN 2 ELSE IF b < 240 THEN 3 ELSE 4
Smallest(n) == <<0, 128, 2048, 65536>>[n]
LastPoint == 1114111
Units(c) == IF c < 65536 THEN <<c>>
            ELSE <<55296 + ((c - 65536) \div 1024), 56320 + ((c - 65536) % 1024)>>
CharAt(s, i) ==
    LET tail(k) == s[i + k] - 128
    IN  IF Width(s[i]) = 1 THEN s[i]
        ELSE IF Width(s[i]) = 2 THEN (s[i] - 192) * 64 + tail(1)
        ELSE IF Width(s[i]) = 3 THEN (s[i] - 224) * 4096 + tail(1) * 64 + tail(2)
        ELSE (s[i] - 240) * 262144 + tail(1) * 4096 + tail(2) * 64 + tail(3)
Formed(s, i) ==
    /\ i + Width(s[i]) <= Len(s) + 1
    /\ \A k \in 1 .. Width(s[i]) - 1 : s[i + k] \in 128 .. 191
    /\ Smallest(Width(s[i])) <= CharAt(s, i) /\ CharAt(s, i) <= LastPoint
    /\ ~HighSurrogate(CharAt(s, i)) /\ ~LowSurrogate(CharAt(s, i))
UnitsAt(s, i) == IF Formed(s, i) THEN Units(CharAt(s, i)) ELSE <<-1>>
Read(s) ==
    LET from[i \in 1 .. Len(s) + 4] ==
            IF i > Len(s) THEN <<>> ELSE UnitsAt(s, i) \o from[i + Width(s[i])]
    IN  from[1]
Text(s) == ~Has(s, 0) /\ ~Has(Read(s), -1)

(* NewStringUTF(s.c_str()): the C string ends at the first NUL. Text comes back
   from GetStringUTFChars as it was; what becomes of other bytes is undefined. *)
NewString(s) == IF Text(Before(s, 0)) THEN {Before(s, 0)} ELSE Garbled

(* The last check on a name. *)
Passed(n) == n # <<>> /\ ~IsDots(n)

PathOf(parent, n) ==
    IF parent = <<Slash>> THEN <<Slash>> \o n ELSE parent \o <<Slash>> \o n

ListEntry ==
    /\ naming = "named"
    /\ IF Passed(name)
       THEN /\ naming' = "listed"
            /\ entry' \in [name : NewString(name),
                           path : NewString(PathOf(source.parent, name))]
       ELSE naming' = "skipped" /\ UNCHANGED entry
    /\ UNCHANGED <<source, index, high, utf8, name, answer>>

(* Where no string can be made, there is no listing at all. *)
NoStrings ==
    /\ naming = "named" /\ Passed(name)
    /\ naming' = "lost"
    /\ UNCHANGED <<source, index, high, utf8, name, entry, answer>>

-----------------------------------------------------------------------------
(* Requests for a path *)

(* split_path: what is between slashes, without what is empty. *)
EndOf(p, i) == CHOOSE e \in i .. Len(p) + 1 :
    /\ e <= Len(p) => p[e] = Slash
    /\ \A j \in i .. e - 1 : p[j] # Slash
Part(p, i) == IF EndOf(p, i) > i THEN <<SubSeq(p, i, EndOf(p, i) - 1)>> ELSE <<>>
Split(p) ==
    LET from[i \in 1 .. Len(p) + 2] ==
            IF i > Len(p) THEN <<>> ELSE Part(p, i) \o from[EndOf(p, i) + 1]
    IN  from[1]

HasDots(p) == \E i \in DOMAIN Split(p) : IsDots(Split(p)[i])
HasEmpty(p) == \E i \in 1 .. Len(p) - 1 : p[i] = Slash /\ p[i + 1] = Slash

(* safe_absolute_path: a path may end with a slash. *)
SafePath(p) ==
    /\ p # <<>> /\ p[1] = Slash
    /\ Len(p) <= MaxPath
    /\ ~HasEmpty(p) /\ ~HasDots(p)

(* nativeListDir has checked the directory that it lists. *)
ASSUME ParentsAssumption ==
    \A p \in Parents :
        /\ p \in Seq(1 .. 255) /\ p # <<>> /\ p[1] = Slash
        /\ ~HasEmpty(p) /\ ~HasDots(p)

(* nativeListDir and nativeReadFile go down the parts of a safe path. *)
AskNative ==
    /\ naming = "listed"
    /\ answer' = [by |-> "native", granted |-> SafePath(entry.path),
                  parts |-> IF SafePath(entry.path) THEN Split(entry.path) ELSE <<>>]
    /\ UNCHANGED <<naming, source, index, high, utf8, name, entry>>

(* The length of a Java string, in units. *)
JavaLength(p) == Len(SelectSeq(p, LAMBDA b : b \notin 128 .. 191))
                 + Len(SelectSeq(p, LAMBDA b : b >= 240))

(* normalizeDocumentId *)
GoodDocumentId(p) ==
    \/ p = <<Slash>>
    \/ /\ p # <<>> /\ p[1] = Slash /\ p[Len(p)] # Slash
       /\ JavaLength(p) <= MaxPath
       /\ ~HasEmpty(p) /\ ~HasDots(p)

(* substringBeforeLast: the directory that lookupEntry lists. *)
ParentOf(p) ==
    LET last == CHOOSE i \in DOMAIN p :
                   p[i] = Slash /\ \A j \in i + 1 .. Len(p) : p[j] # Slash
    IN  IF last = 1 THEN <<Slash>> ELSE SubSeq(p, 1, last - 1)

(* The root is not looked up. *)
AskProvider ==
    /\ naming = "listed" /\ entry.path # <<Slash>>
    /\ answer' = [by |-> "provider", granted |-> GoodDocumentId(entry.path),
                  parts |-> IF GoodDocumentId(entry.path)
                            THEN Split(ParentOf(entry.path)) ELSE <<>>]
    /\ UNCHANGED <<naming, source, index, high, utf8, name, entry>>

NamesNext ==
    \/ NameCall \/ DecodeHigh \/ DecodeCharacter \/ DecodeLone \/ DecodeEnd
    \/ LongName \/ NoText \/ ListEntry \/ NoStrings \/ AskNative \/ AskProvider

NamesSpec == NamesInit /\ [][NamesNext]_namesVars

-----------------------------------------------------------------------------
(* Properties *)

Paired(units) ==
    \A i \in DOMAIN units :
        /\ HighSurrogate(units[i]) => i < Len(units) /\ LowSurrogate(units[i + 1])
        /\ LowSurrogate(units[i]) => i > 1 /\ HighSurrogate(units[i - 1])

(* A directory whose path is text and does not end with a slash. *)
Plain(p) == p # <<Slash>> => Text(p) /\ p[Len(p)] # Slash

(* A name comes back. The text of a long name is read as the same units, and none
   with a lone surrogate is text. And in a directory whose own path is text, the
   app gets every name of exFAT as it is, with a path that, if it is not too long,
   is accepted as it was handed out and leads to the directory that was listed,
   and there to that name; so it is for a name of FAT32, but for two kinds that
   are listed although no path need lead to them: a name with a slash in it, and an
   8.3 name with a NUL or with bytes of a code page in it, which are no text. *)
NamesComeBack ==
    /\ naming = "text" => Read(utf8) = source.units /\ Paired(source.units)
    /\ /\ naming = "listed" /\ Plain(source.parent)
       /\ source.format # "exfat" => Text(name) /\ ~Has(name, Slash)
       => /\ entry.name = name
          /\ answer.by = "native" =>
                /\ answer.granted <=> Len(entry.path) <= MaxPath
                /\ answer.granted => answer.parts = Append(Split(source.parent), name)
          /\ answer.by = "provider" =>
                /\ answer.granted <=> JavaLength(entry.path) <= MaxPath
                /\ answer.granted => answer.parts = Split(source.parent)
=============================================================================
