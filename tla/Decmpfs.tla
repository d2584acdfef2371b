------------------------------- MODULE Decmpfs -------------------------------
(***************************************************************************)
(* The size field of the decmpfs header: sys/decmpfs.h, decmpfs_raw_item_ *)
(* size, the DECMPFS_PKG_* packing macros and the accessors                *)
(* decmpfs_get_uncompressed_size and decmpfs_get_directory_entries.        *)
(*                                                                         *)
(* One 64-bit field holds a file's logical size, a directory's number of   *)
(* children, or a dataless package's 40-bit size and 24-bit root child     *)
(* count.  A writer stores a header for one of the three kinds; a reader   *)
(* decodes it with the accessors.  Widths are scaled down to keep the      *)
(* inputs enumerable: the 64-bit field to W64 bits, the package size to    *)
(* W40, the child count to W24 (W64 = W40 + W24) and the (uint32_t) casts  *)
(* to W32.                                                                 *)
(***************************************************************************)
EXTENDS Naturals

CONSTANTS W64, W40, W24, W32

ASSUME W64 = W40 + W24 /\ W24 <= W32 /\ W32 < W64

Mask(w) == 2^w - 1
Trunc(x, w) == x % 2^w               \* x & Mask(w): a cast to w bits

DECMPFS_MAGIC == "cmpf"
DATALESS_CMPFS_TYPE == "DATALESS"
DATALESS_PKG_CMPFS_TYPE == "DATALESS_PKG"
CMP_Type1 == "Type1"

DECMPFS_PKG_SIZE_MASK == Mask(W40)
DECMPFS_PKG_COUNT_MASK == Mask(W24)
(* The mutant form shifts the count one bit short of the size field's top. *)
DECMPFS_PKG_CHLD_COUNT_SHIFT_short == W40 - 1
DECMPFS_PKG_CHLD_COUNT_SHIFT == W40

DECMPFS_PKG_SIZE(v) == Trunc(v, W40)
DECMPFS_PKG_CHLD_COUNT(v) ==
    Trunc(Trunc(v \div 2^DECMPFS_PKG_CHLD_COUNT_SHIFT, W24), W32)
(* ((size) & MASK) | ((uint64_t)(count) << SHIFT), the shift keeping W64   *)
(* bits; the two fields do not overlap, so | is +.                         *)
DECMPFS_PKG_VALUE_FROM_SIZE_COUNT(size, count) ==
    Trunc(size, W40) + Trunc(count * 2^DECMPFS_PKG_CHLD_COUNT_SHIFT, W64)

decmpfs_type_is_dataless(t) == t \in {DATALESS_CMPFS_TYPE, DATALESS_PKG_CMPFS_TYPE}

IsPkg(h) == h.compression_magic = DECMPFS_MAGIC
            /\ h.compression_type = DATALESS_PKG_CMPFS_TYPE

(* The mutant form forgets the package check and returns the raw field.    *)
decmpfs_get_uncompressed_size_raw(h) == h.value
decmpfs_get_uncompressed_size(h) ==
    IF IsPkg(h) THEN DECMPFS_PKG_SIZE(h.value) ELSE h.value
decmpfs_get_directory_entries(h) ==
    IF IsPkg(h) THEN DECMPFS_PKG_CHLD_COUNT(h.value) ELSE Trunc(h.value, W32)

Kinds == {"file", "dir", "pkg"}
Sizes == 0..Mask(W64)      \* uint64_t logical sizes and child counts
Counts == 0..Mask(W32)     \* package root child counts

VARIABLES
    hdr,       \* the decmpfs_header: magic, type and the 64-bit field
    written    \* what the writer meant to store: kind, size, count

vars == <<hdr, written>>

Init ==
    /\ hdr = [compression_magic |-> DECMPFS_MAGIC, compression_type |-> CMP_Type1, value |-> 0]
    /\ written = [kind |-> "file", size |-> 0, count |-> 0]

(* A compressed regular file: the field is its 64-bit logical size.        *)
WriteFile(type, size) ==
    /\ hdr' = [compression_magic |-> DECMPFS_MAGIC, compression_type |-> type, value |-> size]
    /\ written' = [kind |-> "file", size |-> size, count |-> 0]

(* A dataless directory: the field is its 64-bit number of children.       *)
WriteDir(n) ==
    /\ hdr' = [compression_magic |-> DECMPFS_MAGIC,
               compression_type |-> DATALESS_CMPFS_TYPE, value |-> n]
    /\ written' = [kind |-> "dir", size |-> 0, count |-> n]

(* A dataless package: DECMPFS_PKG_VALUE_FROM_SIZE_COUNT(size, count).     *)
WritePkg(size, count) ==
    /\ hdr' = [compression_magic |-> DECMPFS_MAGIC,
               compression_type |-> DATALESS_PKG_CMPFS_TYPE,
               value |-> DECMPFS_PKG_VALUE_FROM_SIZE_COUNT(size, count)]
    /\ written' = [kind |-> "pkg", size |-> size, count |-> count]

Next ==
    \/ \E t \in {CMP_Type1, DATALESS_CMPFS_TYPE}, s \in Sizes : WriteFile(t, s)
    \/ \E n \in Sizes : WriteDir(n)
    \/ \E s \in Sizes, c \in Counts : WritePkg(s, c)

Spec == Init /\ [][Next]_vars

-----------------------------------------------------------------------------
(* Every header decodes to what was written, for every value the encoding  *)
(* can hold: a file's size, a directory's child count that fits the        *)
(* (uint32_t) result, a package's size below 2^40 and count below 2^24,    *)
(* and neither package field leaks into the other.  The accessors tell the *)
(* kinds apart only by magic and type, DATALESS_CMPFS_TYPE being shared by *)
(* files and directories.                                                  *)
DecodesWritten ==
    CASE written.kind = "file" ->
            decmpfs_get_uncompressed_size(hdr) = written.size
      [] written.kind = "dir" ->
            written.count <= Mask(W32) => decmpfs_get_directory_entries(hdr) = written.count
      [] written.kind = "pkg" ->
            /\ written.size <= DECMPFS_PKG_SIZE_MASK
            /\ written.count <= DECMPFS_PKG_COUNT_MASK
            => /\ decmpfs_get_uncompressed_size(hdr) = written.size
               /\ decmpfs_get_directory_entries(hdr) = written.count

(* The header's comment: for directories the field is "a 64bits-encoded    *)
(* number of children", so decmpfs_get_directory_entries returns it.       *)
DirEntriesExact ==
    written.kind = "dir" => decmpfs_get_directory_entries(hdr) = written.count
=============================================================================
