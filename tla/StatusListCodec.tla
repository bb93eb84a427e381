--------------------------- MODULE StatusListCodec ---------------------------
(***************************************************************************)
(* StatusList::create and StatusList::update: how the statuses of a list   *)
(* are packed into the bytes of lst, and re-packed when a status needs     *)
(* wider entries.  A u8 and a u32 are the sets of the positions of their   *)
(* one bits: masks, shifts, and, or are operations on sets.  A status is   *)
(* its status_value.  zlib and base64url are external and left out: the    *)
(* bytes stand for lst, the list created without entries for the empty     *)
(* string (which decompresses to no bytes).  A request that is refused     *)
(* changes nothing and is not a step.                                      *)
(***************************************************************************)
EXTENDS Integers, FiniteSets, SequencesExt

CONSTANTS
    Indices,     \* indexes that requests name; i32, so also negative ones
    Statuses,    \* status values that requests name: u32, so sets of positions
    MaxIndex,    \* max_status_index
    MaxEntries   \* max_statuses_per_request

Byte == SUBSET (0..7)
Word == SUBSET (0..31)
MaxBits == 32

ASSUME IndicesAssumption == Indices \subseteq Int /\ MaxIndex \in Nat
ASSUME StatusesAssumption == Statuses \subseteq Word /\ MaxEntries \in Nat

VARIABLES
    bits,     \* StatusList.bits, 0 before the list is published
    bytes,    \* the array behind StatusList.lst, indexed from 0
    written   \* history variable: the last accepted status of each index

vars == <<bits, bytes, written>>

Entry == [index : Indices, status : Statuses]
Requests == BoundedSeq(Entry, MaxEntries)

NoBytes == <<>>

(* The number of bytes; the array is indexed from 0.                        *)
Length(array) == Cardinality(DOMAIN array)

IsArray(array) ==
    /\ Length(array) \in Nat /\ DOMAIN array = 0..(Length(array) - 1)
    /\ \A k \in DOMAIN array : array[k] \in Byte

TypeOK ==
    /\ bits \in 0..MaxBits
    /\ IsArray(bytes)
    /\ DOMAIN written \subseteq 0..MaxIndex
    /\ \A i \in DOMAIN written : written[i] \in Statuses

----------------------------------------------------------------------------
(* The helpers.                                                             *)

(* status_value, and the deserializer of the request before it: 0, 1, 2, or *)
(* 256 and above.                                                           *)
IsStatus(value) == value \in {{}, {0}, {1}} \/ \E b \in value : b >= 8

(* The width of the largest status; its highest bit is the highest of all.  *)
determine_bits(entries, original) ==
    LET top == Max({0} \cup UNION {entries[k].status : k \in DOMAIN entries})
        required == CASE top = 0    -> 1
                      [] top = 1    -> 2
                      [] top \in 2..3 -> 4
                      [] top \in 4..7 -> 8
                      [] OTHER      -> top + 1
    IN  Max({original, required})

(* Mutant: one byte more than the last entry needs.                         *)
calculate_array_size_spare(entries, width) ==
    (Max({entries[k].index : k \in DOMAIN entries}) * width + width - 1) \div 8 + 2

calculate_array_size(entries, width) ==
    LET end_bit == Max({entries[k].index : k \in DOMAIN entries}) * width + width - 1
    IN  end_bit \div 8 + 1

Shifted(word, by) == {b + by : b \in word}

(* Mutant: the bits are set and never cleared.                              *)
SetBits_noClear(byte, offset, n, value) ==
    byte \cup (Shifted(value, offset) \cap (offset..(offset + n - 1)))

(* Bits offset .. offset + n - 1 of a byte become the low n bits of value.  *)
SetBits(byte, offset, n, value) ==
    LET mask == offset..(offset + n - 1)
    IN  (byte \ mask) \cup (Shifted(value, offset) \cap mask)

(* The body of apply_updates' loop.  An entry within a byte is written with *)
(* a mask; any other with a mask in its first byte and in runs of up to     *)
(* eight bits from there on.                                                *)
apply_update(array, entry, width) ==
    LET bit_position == entry.index * width
        byte_index == bit_position \div 8
        bit_offset == bit_position % 8
        bits_written(k) == 8 * k - bit_position
        bits_this_byte(k) == Min({width - bits_written(k), 8})
    IN  IF bit_offset + width <= 8
        THEN [array EXCEPT ![byte_index] = SetBits(@, bit_offset, width, entry.status)]
        ELSE [k \in DOMAIN array |->
                CASE k = byte_index ->
                        SetBits(array[k], bit_offset, 8 - bit_offset, entry.status)
                  [] k > byte_index /\ bits_written(k) < width ->
                        SetBits(array[k], 0, bits_this_byte(k), Shifted(entry.status, -bits_written(k)))
                  [] OTHER -> array[k]]

(* The loop, as a recursive function of how many entries are written.       *)
apply_updates(array, entries, width) ==
    LET after[k \in 0..Len(entries)] ==
            IF k = 0 THEN array ELSE apply_update(after[k - 1], entries[k], width)
    IN  after[Len(entries)]

Zeros(len) == [k \in 0..(len - 1) |-> {}]

(* Vec::resize with zeros, when the array is too short.                     *)
Resized(array, len) ==
    IF len > Length(array)
    THEN [k \in 0..(len - 1) |-> IF k \in DOMAIN array THEN array[k] ELSE {}]
    ELSE array

(* How many entries the array has room for.                                 *)
Count(array, width) == (Length(array) * 8) \div width

(* Entry i of the array: its bits in each byte, shifted to their place.     *)
StatusAt(array, width, i) ==
    LET pos == i * width
        extracted(k) == {j \in array[k] : 8 * k + j \in pos..(pos + width - 1)}
    IN  UNION {Shifted(extracted(k), 8 * k - pos) : k \in DOMAIN array}

(* The two CorruptStoredList errors of decode_status_array.                 *)
Decodes(array, width) ==
    /\ (Length(array) * 8) % width < 8
    /\ \A i \in 0..(Count(array, width) - 1) : IsStatus(StatusAt(array, width, i))

(* The decoded statuses as the entries that re-create the list.             *)
decode_status_array(array, width) ==
    [k \in 1..Count(array, width) |->
        [index |-> k - 1, status |-> StatusAt(array, width, k - 1)]]

create_with_bits(entries, width) ==
    apply_updates(Zeros(calculate_array_size(entries, width)), entries, width)

----------------------------------------------------------------------------
Init ==
    /\ bits = 0
    /\ bytes = NoBytes
    /\ written = <<>>

(* What the service and the codec let through: at most MaxEntries entries   *)
(* (Requests), none above max_status_index, none negative, no reserved      *)
(* status.                                                                  *)
Accepts(entries) ==
    \A k \in DOMAIN entries :
        entries[k].index \in 0..MaxIndex /\ IsStatus(entries[k].status)

(* The reference: a map from index to status, later entries win.            *)
Record(map, entries) ==
    LET last(i) == CHOOSE k \in DOMAIN entries :
                      /\ entries[k].index = i
                      /\ \A j \in DOMAIN entries : entries[j].index = i => j <= k
        named == {entries[k].index : k \in DOMAIN entries}
    IN  [i \in DOMAIN map \cup named |->
            IF i \in named THEN entries[last(i)].status ELSE map[i]]

(* StatusList::create.                                                      *)
Create(entries) ==
    /\ bits = 0
    /\ Accepts(entries)
    /\ IF entries = <<>>
       THEN bits' = 1 /\ bytes' = NoBytes
       ELSE /\ bits' = determine_bits(entries, 1)
            /\ bytes' = create_with_bits(entries, bits')
    /\ written' = Record(written, entries)

(* StatusList::update when the entries keep their width.                    *)
UpdateInPlace(entries) ==
    /\ bits # 0
    /\ entries # <<>> /\ Accepts(entries)
    /\ determine_bits(entries, bits) = bits
    /\ bytes' = apply_updates(Resized(bytes, calculate_array_size(entries, bits)), entries, bits)
    /\ written' = Record(written, entries)
    /\ UNCHANGED bits

(* StatusList::update when a status needs wider entries: everything is      *)
(* decoded, the padding of the last byte too, and created again.            *)
UpdateWidening(entries) ==
    /\ bits # 0
    /\ entries # <<>> /\ Accepts(entries)
    /\ determine_bits(entries, bits) > bits
    /\ Decodes(bytes, bits)
    /\ bits' = determine_bits(entries, bits)
    /\ bytes' = create_with_bits(decode_status_array(bytes, bits) \o entries, bits')
    /\ written' = Record(written, entries)

Next == \E entries \in Requests :
    Create(entries) \/ UpdateInPlace(entries) \/ UpdateWidening(entries)

Spec == Init /\ [][Next]_vars

----------------------------------------------------------------------------
(* Properties.                                                              *)

(* What a verifier decodes from the published bits and bytes is, at every   *)
(* index, the last status accepted for it, and valid where there was none;  *)
(* every index that was ever named can be looked up.  This is across widths *)
(* and across bytes: no update disturbs a neighbour.                        *)
StatusesAreRight == bits # 0 =>
    /\ \A i \in DOMAIN written : i < Count(bytes, bits)
    /\ \A i \in 0..(Count(bytes, bits) - 1) :
          StatusAt(bytes, bits, i) = IF i \in DOMAIN written THEN written[i] ELSE {}

(* No list that create and update produce is refused as corrupt by the      *)
(* decoder when a later update has to widen it.                             *)
NeverCorrupt == bits # 0 => Decodes(bytes, bits)

=============================================================================
