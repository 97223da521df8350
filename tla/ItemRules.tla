----------------------------- MODULE ItemRules -----------------------------
(***************************************************************************)
(* The rules by which SQLiteDatabase accepts a DatabaseItem                *)
(* (src/src/Utils/Storage/SQLiteDatabase.cpp, lines 188 to 381), each of   *)
(* them beside a reference definition taken from the standard that it      *)
(* follows.                                                                *)
(*                                                                         *)
(* An id or a name is the sequence of its bytes. An address is a sequence  *)
(* of separators and runs; a run stands for the maximal pieces of text     *)
(* without a dot or a colon that the rules treat alike.                    *)
(***************************************************************************)
EXTENDS Integers, Sequences

CONSTANTS
    MaxIdBytes,    \* 128
    MaxNameBytes   \* 256

MaxAddressBytes == 253

---------------------------------------------------------------------------
(* UTF-8 *)

(* How many continuation bytes follow a lead byte, -1 when it is none. *)
ContinuationCount(lead) ==
    CASE lead \in 0..127 -> 0
      [] lead \in 192..223 -> 1
      [] lead \in 224..239 -> 2
      [] lead \in 240..247 -> 3
      [] OTHER -> -1

Minimum(count) == CASE count = 1 -> 128 [] count = 2 -> 2048 [] OTHER -> 65536

(* What a sequence of count continuation bytes may encode. *)
Encodable(codePoint, count) ==
    /\ codePoint >= Minimum(count) /\ codePoint <= 1114111
    /\ ~(codePoint >= 55296 /\ codePoint <= 57343)

(* Six bits of every continuation byte behind those of the lead byte. *)
CodePoint(text, index, count) ==
    LET bits(k) == text[index + k] % 64
    IN CASE count = 1 -> ((text[index] % 32) * 64) + bits(1)
         [] count = 2 -> ((((text[index] % 16) * 64) + bits(1)) * 64) + bits(2)
         [] count = 3 -> ((((((text[index] % 8) * 64) + bits(1)) * 64) + bits(2)) * 64) + bits(3)

(* One round of the loop. *)
EncodesAt(text, index) ==
    LET count == ContinuationCount(text[index])
    IN /\ count >= 0
       /\ index + count <= Len(text)
       /\ \A k \in 1..count : text[index + k] \in 128..191
       /\ count > 0 => Encodable(CodePoint(text, index, count), count)

IsValidUtf8(text) ==
    LET valid[index \in 1..Len(text) + 1] ==
            \/ index > Len(text)
            \/ /\ EncodesAt(text, index)
               /\ valid[index + ContinuationCount(text[index]) + 1]
    IN valid[1]

(* The well-formed sequences of Unicode, one line per row of its table. *)
WellFormedPiece(p) ==
    /\ \A k \in 2..Len(p) : p[k] \in 128..191
    /\ \/ Len(p) = 1 /\ p[1] \in 0..127
       \/ Len(p) = 2 /\ p[1] \in 194..223
       \/ /\ Len(p) = 3
          /\ \/ p[1] = 224 /\ p[2] >= 160
             \/ p[1] = 237 /\ p[2] <= 159
             \/ p[1] \in 225..239 \ {237}
       \/ /\ Len(p) = 4
          /\ \/ p[1] = 240 /\ p[2] >= 144
             \/ p[1] = 244 /\ p[2] <= 143
             \/ p[1] \in 241..243

WellFormed(text) ==
    \E ends \in SUBSET (0..Len(text)) :
        /\ {0, Len(text)} \subseteq ends
        /\ \A b \in ends \ {0} :
              LET a == CHOOSE a \in ends : a < b /\ ends \cap (a + 1)..(b - 1) = {}
              IN WellFormedPiece(SubSeq(text, a + 1, b))

ValidateSizedUtf8(text, maximum) ==
    /\ Len(text) \in 1..maximum
    /\ IsValidUtf8(text)

---------------------------------------------------------------------------
(* Addresses *)

Dot == "."
Colon == ":"

(* octet, overflow, fourDigits and digits are decimal: at most 255, three   *)
(* digits above it, four, five or more. hex has a letter from a to f and    *)
(* four characters at most; name is any other label of 63 characters;       *)
(* hyphened begins or ends with a hyphen and long has 64 characters.        *)
Decimal == {"octet", "overflow", "fourDigits", "digits"}
HexGroup == {"octet", "overflow", "fourDigits", "hex"}
Label == Decimal \cup {"hex", "name"}
Runs == Label \cup {"hyphened", "long"}

CharactersOf(token) ==
    CASE token \in {Dot, Colon} -> 1
      [] token = "fourDigits" \/ token = "hex" -> 4
      [] token = "digits" -> 5
      [] token = "name" -> 63
      [] token = "long" -> 64
      [] OTHER -> 3

SizeOf(address) ==
    LET size[n \in 0..Len(address)] ==
            IF n = 0 THEN 0 ELSE size[n - 1] + CharactersOf(address[n])
    IN size[Len(address)]

(* The pieces that a loop over find(separator, begin) visits. *)
Split(address, separator) ==
    LET parts[n \in 0..Len(address)] ==
            IF n = 0 THEN << <<>> >>
            ELSE LET before == parts[n - 1]
                 IN IF address[n] = separator
                    THEN Append(before, <<>>)
                    ELSE [before EXCEPT ![Len(before)] = Append(@, address[n])]
    IN parts[Len(address)]

IsValidIpv4(address) ==
    LET parts == Split(address, Dot)
    IN /\ \A k \in DOMAIN parts : parts[k] = <<"octet">>
       /\ Len(parts) = 4

IsGroup(part) == Len(part) = 1 /\ part[1] \in HexGroup

(* -1 stands for a part that is refused. *)
CountIpv6Parts(sequence, allowIpv4) ==
    LET parts == Split(sequence, Colon)
        Embedded(k) == \E j \in DOMAIN parts[k] : parts[k][j] = Dot
        Refused(k) == IF Embedded(k)
                      THEN ~allowIpv4 \/ k < Len(parts) \/ ~IsValidIpv4(parts[k])
                      ELSE ~IsGroup(parts[k])
    IN IF sequence = <<>> THEN 0
       ELSE IF \E k \in DOMAIN parts : Refused(k) THEN -1
       ELSE Len(parts) + (IF Embedded(Len(parts)) THEN 1 ELSE 0)

Compressions(address, from) ==
    {k \in from..Len(address) - 1 : address[k] = Colon /\ address[k + 1] = Colon}

EmptyCompression(left, right) == left >= 0 /\ right >= 0 /\ left + right <= 8

(* A compression stands for one group at least. *)
FitsIpv6(left, right) == left >= 0 /\ right >= 0 /\ left + right < 8

IsValidIpv6(address) ==
    LET first == CHOOSE k \in Compressions(address, 1) :
                     \A j \in Compressions(address, 1) : k <= j
    IN IF Compressions(address, 1) = {}
       THEN CountIpv6Parts(address, TRUE) = 8
       ELSE /\ Compressions(address, first + 2) = {}
            /\ FitsIpv6(CountIpv6Parts(SubSeq(address, 1, first - 1), FALSE),
                        CountIpv6Parts(SubSeq(address, first + 2, Len(address)), TRUE))

NumericDotsOnly(hostname) == \A k \in DOMAIN hostname : hostname[k] \in Decimal \cup {Dot}

IsValidHostname(address) ==
    LET hostname == IF address # <<>> /\ address[Len(address)] = Dot
                    THEN SubSeq(address, 1, Len(address) - 1) ELSE address
        labels == Split(hostname, Dot)
    IN /\ address # <<>> /\ SizeOf(address) <= MaxAddressBytes
       /\ hostname # <<>>
       /\ ~NumericDotsOnly(hostname)
       /\ \A k \in DOMAIN labels : Len(labels[k]) = 1 /\ labels[k][1] \in Label

IsValidAddress(address) ==
    IsValidIpv4(address) \/ IsValidIpv6(address) \/ IsValidHostname(address)

(* The text form of RFC 4291: eight groups, the last two of which may be   *)
(* written as an IPv4 address, where one "::" may stand for a run of zero  *)
(* groups.                                                                 *)
EightGroups(address) ==
    LET parts == Split(address, Colon)
    IN \/ Len(parts) = 8 /\ \A k \in 1..8 : IsGroup(parts[k])
       \/ Len(parts) = 7 /\ (\A k \in 1..6 : IsGroup(parts[k])) /\ IsValidIpv4(parts[7])

Expansion(address, at, zeros) ==
    LET left == SubSeq(address, 1, at - 1)
        right == SubSeq(address, at + 2, Len(address))
        middle == [k \in 1..2 * zeros - 1 |-> IF k % 2 = 1 THEN "octet" ELSE Colon]
    IN (IF left = <<>> THEN <<>> ELSE Append(left, Colon)) \o middle
       \o (IF right = <<>> THEN <<>> ELSE <<Colon>> \o right)

Rfc4291(address) ==
    \/ EightGroups(address)
    \/ \E at \in Compressions(address, 1), zeros \in 1..8 :
          EightGroups(Expansion(address, at, zeros))

---------------------------------------------------------------------------

ValidateItem(item) ==
    /\ ValidateSizedUtf8(item.id, MaxIdBytes)
    /\ ValidateSizedUtf8(item.name, MaxNameBytes)
    /\ IsValidAddress(item.address)

ValidateItems(items) ==
    /\ \A k \in DOMAIN items : ValidateItem(items[k])
    /\ \A j, k \in DOMAIN items : items[j].id = items[k].id => j = k
=============================================================================
