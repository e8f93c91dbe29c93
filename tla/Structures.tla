------------------------------ MODULE Structures ------------------------------
(***************************************************************************)
(* How structures become bytes and are read back: XyoStructure,            *)
(* XyoIterableStructure, XyoIterator and XyoSchema.                        *)
(*                                                                         *)
(* A structure is <<catalogue, id>>, its size in 1, 2, 4 or 8 bytes, the   *)
(* size counting those bytes too, and its value.  A typed array has the    *)
(* catalogue and id of its items once, in front of them.  A byte has Byte  *)
(* values, 256 in the code; a small Byte brings the size classes together. *)
(***************************************************************************)
EXTENDS Integers, Sequences, SequencesExt

CONSTANTS Byte  \* values of a byte of a size or a value

ASSUME ByteAssumption == Byte \in 3 .. 256 /\ Byte % 2 = 0

\* Values of two bytes and of four.
Byte2 == Byte * Byte
Byte4 == Byte2 * Byte2

Schema(id, iterable, typed) == [id |-> id, iterable |-> iterable, typed |-> typed, size |-> 4]

\* The ids and the kinds of structures, before they have a size.  WITNESS, which
\* is a word of TLA+, is called WITNESSES.
XyoObjectSchema ==
  LET Plain(id) == Schema(id, FALSE, FALSE)
      Array(id) == Schema(id, TRUE, FALSE)
      Typed(id) == Schema(id, TRUE, TRUE)
  IN [ ARRAY_TYPED |-> Typed(1), BW |-> Array(2), INDEX |-> Plain(3),
       NEXT_PUBLIC_KEY |-> Plain(4), BRIDGE_BLOCK_SET |-> Array(5),
       BRIDGE_HASH_SET |-> Typed(6), PAYMENT_KEY |-> Plain(7), PREVIOUS_HASH |-> Array(8),
       EC_SIGNATURE |-> Plain(9), RSA_SIGNATURE |-> Plain(10), STUB_SIGNATURE |-> Plain(11),
       EC_PUBLIC_KEY |-> Plain(12), RSA_PUBLIC_KEY |-> Plain(13),
       STUB_PUBLIC_KEY |-> Plain(14), STUB_HASH |-> Plain(15), SHA_256 |-> Plain(16),
       SHA_3 |-> Plain(17), GPS |-> Array(18), RSSI |-> Plain(19), UNIX_TIME |-> Plain(20),
       FETTER |-> Array(21), FETTER_SET |-> Typed(22), WITNESSES |-> Array(23),
       WITNESS_SET |-> Typed(24), KEY_SET |-> Array(25), SIGNATURE_SET |-> Array(26),
       BW_FRAGMENT |-> Array(27), LAT |-> Plain(28), LNG |-> Plain(29),
       BLE_POWER_LEVEL |-> Plain(30) ]

BW      == XyoObjectSchema.BW
Fetter  == XyoObjectSchema.FETTER
Witness == XyoObjectSchema.WITNESSES

-----------------------------------------------------------------------------
(* Sizes and schemas in bytes.                                             *)

\* Mutant: the bytes of the size are not counted.
BestSizeOfValue(n) ==
  CASE n < Byte                      -> 1
    [] n >= Byte /\ n < Byte2        -> 2
    [] n >= Byte2 /\ n < Byte4       -> 4
    [] OTHER                         -> 8

\* getBestSize
BestSize(n) ==
  CASE n + 1 < Byte                      -> 1
    [] n + 1 >= Byte /\ n + 2 < Byte2    -> 2
    [] n + 2 >= Byte2 /\ n + 4 < Byte4   -> 4
    [] OTHER                             -> 8

\* What is left of a number without its last i bytes.
Without(n, size) ==
  LET left[i \in 0..size] == IF i = 0 THEN n ELSE left[i - 1] \div Byte
  IN  left

\* Mutant: the higher bytes stay in the lower ones.
DigitsWhole(n, size) == [i \in 1..size |-> Without(n, size)[size - i]]

\* writeUInt8 and its like; a number BestSize gave a class fits into it.
Digits(n, size) == [i \in 1..size |-> Without(n, size)[size - i] % Byte]

\* The bytes from one offset up to another: XyoBuffer.
Slice(bytes, from, to) == SubSeq(bytes, from + 1, to)

\* The number that bytes are the digits of, the highest first.
Number(bytes) ==
  LET upTo[i \in 0..Len(bytes)] == IF i = 0 THEN 0 ELSE upTo[i - 1] * Byte + bytes[i]
  IN  upTo[Len(bytes)]

\* readSize; of eight bytes only the last four are read.
ReadSize(bytes, size, offset) ==
  Number(Slice(bytes, IF size = 8 THEN offset + 4 ELSE offset, offset + size))

\* The sizes a size can have, by the first two bits of a catalogue.
Sizes == <<1, 2, 4, 8>>

\* The first two bytes of a structure.
Header(schema) ==
  LET sizeBits == CHOOSE k \in 0..3 : Sizes[k + 1] = schema.size
  IN  << 64 * sizeBits + (IF schema.iterable THEN 32 ELSE 0)
                       + (IF schema.typed THEN 16 ELSE 0), schema.id >>

ReadSchema(bytes, offset) ==
  LET catalogue == bytes[offset + 1]
  IN  [ id |-> bytes[offset + 2], size |-> Sizes[catalogue \div 64 + 1],
        iterable |-> (catalogue \div 32) % 2 = 1, typed |-> (catalogue \div 16) % 2 = 1 ]

\* encode
Encode(schema, value) ==
  LET size == BestSize(Len(value))
  IN  Header([schema EXCEPT !.size = size]) \o Digits(Len(value) + size, size) \o value

-----------------------------------------------------------------------------
(* Structures.  An item of a typed array has the schema in "override" and  *)
(* contents that begin with its size.                                      *)

Structure(bytes) == [contents |-> bytes, override |-> <<>>]

GetSchema(s) == IF s.override # <<>> THEN s.override[1] ELSE ReadSchema(s.contents, 0)
GetAll(s) == IF s.override # <<>> THEN Header(s.override[1]) \o s.contents ELSE s.contents

GetValue(s) ==
  LET size == GetSchema(s).size
      skip == IF s.override # <<>> THEN 0 ELSE 2
  IN  Slice(s.contents, size + skip, ReadSize(s.contents, size, skip) + skip)

\* newIterable: the items' bytes one after the other, in a typed array without
\* their headers but behind that of the first.
NewIterable(schema, items) ==
  LET all == [i \in DOMAIN items |-> GetAll(items[i])]
      typed == [i \in DOMAIN items |-> Slice(all[i], 2, Len(all[i]))]
  IN  Encode(schema,
             IF ~schema.typed THEN FlattenSeq(all)
             ELSE IF items = <<>> THEN <<>>
             ELSE Header(GetSchema(items[1])) \o FlattenSeq(typed))

\* readOwnHeader: where the items begin, and the schema of a typed array's.
OwnHeader(s) ==
  LET schema == GetSchema(s)
      empty == ReadSize(s.contents, schema.size, 2) = schema.size
  IN  IF schema.typed /\ ~empty
      THEN [offset |-> 4 + schema.size, typed |-> <<ReadSchema(s.contents, 2 + schema.size)>>]
      ELSE [offset |-> 2 + schema.size, typed |-> <<>>]

\* readItemAtOffset; <<>> where it throws.
ReadItem(s, typed, offset) ==
  LET skip == IF typed # <<>> THEN 0 ELSE 2
      schema == IF typed # <<>> THEN typed[1] ELSE ReadSchema(s.contents, offset)
      size == ReadSize(s.contents, schema.size, offset + skip)
      end == offset + skip + size
  IN  IF \/ offset + skip > Len(s.contents)
         \/ offset + skip + schema.size > Len(s.contents)
         \/ size = 0 \/ end > Len(s.contents)
      THEN <<>>
      ELSE << [contents |-> Slice(s.contents, offset, end), override |-> typed] >>

\* Mutant: the iterator counts the header a typed item does not have.
ItemsFar(s) ==
  LET own == OwnHeader(s)
      end == Len(GetAll(s))
      Behind(offset, item) == IF item = <<>> THEN end ELSE Min({end, offset + Len(GetAll(item[1]))})
      from[offset \in 0..end] ==
        IF offset >= end THEN <<>>
        ELSE LET item == ReadItem(s, own.typed, offset) IN item \o from[Behind(offset, item)]
  IN  from[own.offset]

\* What an iterator passes over; it stops where it throws.
Items(s) ==
  LET own == OwnHeader(s)
      end == Len(GetAll(s))
      header == IF own.typed # <<>> THEN 2 ELSE 0
      Behind(offset, item) ==
        IF item = <<>> THEN end ELSE offset + Len(GetAll(item[1])) - header
      from[offset \in 0..end] ==
        IF offset >= end THEN <<>>
        ELSE LET item == ReadItem(s, own.typed, offset) IN item \o from[Behind(offset, item)]
  IN  from[own.offset]

\* addElement of a structure that is no typed array: the ledger is the only one
\* that grows.
AddElement(bytes, item) ==
  Encode(GetSchema(Structure(bytes)), GetValue(Structure(bytes)) \o GetAll(item))

\* The elements of a sequence at some positions.
Among(seq, positions) ==
  FlattenSeq([i \in DOMAIN seq |-> IF i \in positions THEN <<seq[i]>> ELSE <<>>])

OfSchema(items, schema) ==
  Among(items, {i \in DOMAIN items : GetSchema(items[i]).id = schema.id})

\* getId
GetId(s, schema) == OfSchema(Items(s), schema)

Bytes(structures) == [i \in DOMAIN structures |-> GetAll(structures[i])]
=============================================================================
