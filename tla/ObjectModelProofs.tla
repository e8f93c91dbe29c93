-------------------------- MODULE ObjectModelProofs --------------------------
(*****************************************************************************)
(* A ledger that parties make together is the one that is built of its parts,*)
(* reads back as them, is signed where it has to be and says which origins   *)
(* they have: for every bound, every size of a part and every Byte.          *)
(*****************************************************************************)
EXTENDS ObjectModel, StructuresProofs

(* Item after item.                                                          *)

\* The greatest number of a set is its maximum, in the library's definition.
LEMMA GreatestOfSubset ==
  ASSUME NEW m \in Nat, NEW s \in SUBSET (1 .. m), m \in s
  PROVE  Max(s) = m
<1>1. \A y \in s : m >= y
  OBVIOUS
<1>2. \A x \in s : (\A y \in s : x >= y) => x = m
  OBVIOUS
<1> QED BY <1>1, <1>2, Zenon DEF Max

\* f is the ledger after each of the items that are added to it.
Adding(f, base, seq) ==
  f[0] = base /\ \A i \in 1 .. Len(seq) : f[i] = AddedToLedger(f[i - 1], seq[i])

\* addTransfer adds item after item: what the library's FoldLeft chooses is the function
\* its equation describes.
LEMMA AddingIsDefined ==
  ASSUME NEW base, NEW seq, Len(seq) \in Nat, DOMAIN seq = 1 .. Len(seq)
  PROVE  \E f : Adding(f, base, seq) /\ FoldLeft(AddedToLedger, base, seq) = f[Len(seq)]
<1> DEFINE n == Len(seq)
           Op(v, i) == AddedToLedger(v, seq[i])
           Step(f, s) == IF s = {} THEN base ELSE Op(f[s \ {Max(s)}], Max(s))
           Def(f, k) == f = [s \in SUBSET (1 .. k) |-> Step(f, s)]
           K == {k \in Nat : \E f : Def(f, k)}
<1> HIDE DEF Op
<1>1. 0 \in K
  <2> DEFINE f == [s \in SUBSET (1 .. 0) |-> base]
  <2>1. \A s \in SUBSET (1 .. 0) : s = {}
    OBVIOUS
  <2>2. \A s \in SUBSET (1 .. 0) : base = Step(f, s)
    BY <2>1
  <2> HIDE DEF Step
  <2>3. Def(f, 0)
    BY <2>2, Zenon
  <2> HIDE DEF Def, f
  <2> QED BY <2>3
<1>2. ASSUME NEW k \in Nat, k \in K PROVE k + 1 \in K
  <2> DEFINE m == k + 1
  <2>1. PICK f : Def(f, k)
    BY <1>2
  <2> DEFINE g == [s \in SUBSET (1 .. m) |-> IF m \in s THEN Op(f[s \ {m}], m) ELSE f[s]]
  <2>2. ASSUME NEW s \in SUBSET (1 .. k) PROVE g[s] = f[s]
    <3>1. s \in SUBSET (1 .. m) /\ m \notin s
      OBVIOUS
    <3> HIDE DEF m, Def
    <3> QED BY <3>1
  <2>3. ASSUME NEW s \in SUBSET (1 .. k) PROVE f[s] = Step(f, s)
    <3> HIDE DEF Step
    <3> QED BY <2>1, Zenon
  <2>4. ASSUME NEW s \in SUBSET (1 .. m) PROVE g[s] = Step(g, s)
    <3>1. CASE m \in s
      <4>1. Max(s) = m
        BY <3>1, GreatestOfSubset
      <4>2. s \ {m} \in SUBSET (1 .. k)
        BY SMT
      <4>3. g[s] = Op(f[s \ {m}], m) /\ s # {}
        BY <3>1, Zenon
      <4>4. g[s \ {m}] = f[s \ {m}]
        BY <2>2, <4>2
      <4> HIDE DEF g, m
      <4> QED BY <4>1, <4>3, <4>4, Zenon
    <3>2. CASE m \notin s
      <4>1. s \in SUBSET (1 .. k)
        BY <3>2
      <4>2. s \ {Max(s)} \in SUBSET (1 .. k)
        BY <4>1, Zenon
      <4>3. g[s] = f[s] /\ g[s \ {Max(s)}] = f[s \ {Max(s)}] /\ f[s] = Step(f, s)
        BY <2>2, <2>3, <4>1, <4>2
      <4> HIDE DEF g, m
      <4> QED BY <4>3, Zenon
    <3> QED BY <3>1, <3>2
  <2>5. g = [s \in SUBSET (1 .. m) |-> g[s]]
    BY Zenon
  <2> HIDE DEF g, Step
  <2>6. Def(g, m)
    BY <2>4, <2>5, Zenon
  <2> HIDE DEF Def
  <2> QED BY <2>6
<1>3. PICK g : Def(g, n) /\ g = CHOOSE h : Def(h, n)
  <2>1. \E h : Def(h, n)
    <3> HIDE DEF Def
    <3> QED BY <1>1, <1>2, Induction
  <2> HIDE DEF Def
  <2> QED BY <2>1, Zenon
<1>4. FoldLeft(AddedToLedger, base, seq) = (CHOOSE h : Def(h, n))[1 .. n]
  BY Zenon DEF FoldLeft, MapThenFoldSet, Op
<1> DEFINE f == [i \in 0 .. n |-> g[1 .. i]]
<1>5. \A i \in 0 .. n : f[i] = g[1 .. i] /\ 1 .. i \in SUBSET (1 .. n)
  OBVIOUS
<1>6. f[0] = base
  <2>1. 0 \in 0 .. n /\ 1 .. 0 = {} /\ {} \in SUBSET (1 .. n)
    OBVIOUS
  <2>2. g[{}] = Step(g, {})
    <3> HIDE DEF Step, f
    <3> QED BY <1>3, <2>1, Zenon
  <2> HIDE DEF f, Def
  <2> QED BY <1>5, <2>1, <2>2
<1>7. ASSUME NEW i \in 1 .. n PROVE f[i] = Op(f[i - 1], i)
  <2>1. i \in 0 .. n /\ i - 1 \in 0 .. n /\ (1 .. i) \ {i} = 1 .. (i - 1)
    OBVIOUS
  <2>2. Max(1 .. i) = i /\ 1 .. i # {}
    <3>1. i \in Nat /\ 1 .. i \in SUBSET (1 .. i) /\ i \in 1 .. i
      OBVIOUS
    <3> HIDE DEF f, Def, Step
    <3> QED BY <3>1, GreatestOfSubset
  <2>3. g[1 .. i] = Step(g, 1 .. i)
    <3>1. 1 .. i \in SUBSET (1 .. n)
      BY <1>5, <2>1
    <3> HIDE DEF Step, f
    <3> QED BY <1>3, <3>1, Zenon
  <2>4. Step(g, 1 .. i) = Op(g[1 .. (i - 1)], i)
    BY <2>1, <2>2, Zenon
  <2> HIDE DEF f, Def, Step
  <2> QED BY <1>5, <2>1, <2>3, <2>4
<1>8. FoldLeft(AddedToLedger, base, seq) = f[n]
  <2>1. n \in 0 .. n
    OBVIOUS
  <2> HIDE DEF f, Def
  <2> QED BY <1>3, <1>4, <1>5, <2>1
<1> QED BY <1>6, <1>7, <1>8 DEF Adding, Op

\* f is the origin after each of the items that are read.
Reading(f, base, seq) ==
  f[0] = base /\ \A i \in 1 .. Len(seq) : f[i] = ReadOriginItem(f[i - 1], seq[i])

\* getOriginInformationFromFetter reads item after item, in the same way.
LEMMA ReadingIsDefined ==
  ASSUME NEW base, NEW seq, Len(seq) \in Nat, DOMAIN seq = 1 .. Len(seq)
  PROVE  \E f : Reading(f, base, seq) /\ FoldLeft(ReadOriginItem, base, seq) = f[Len(seq)]
<1> DEFINE n == Len(seq)
           Op(v, i) == ReadOriginItem(v, seq[i])
           Step(f, s) == IF s = {} THEN base ELSE Op(f[s \ {Max(s)}], Max(s))
           Def(f, k) == f = [s \in SUBSET (1 .. k) |-> Step(f, s)]
           K == {k \in Nat : \E f : Def(f, k)}
<1> HIDE DEF Op
<1>1. 0 \in K
  <2> DEFINE f == [s \in SUBSET (1 .. 0) |-> base]
  <2>1. \A s \in SUBSET (1 .. 0) : s = {}
    OBVIOUS
  <2>2. \A s \in SUBSET (1 .. 0) : base = Step(f, s)
    BY <2>1
  <2> HIDE DEF Step
  <2>3. Def(f, 0)
    BY <2>2, Zenon
  <2> HIDE DEF Def, f
  <2> QED BY <2>3
<1>2. ASSUME NEW k \in Nat, k \in K PROVE k + 1 \in K
  <2> DEFINE m == k + 1
  <2>1. PICK f : Def(f, k)
    BY <1>2
  <2> DEFINE g == [s \in SUBSET (1 .. m) |-> IF m \in s THEN Op(f[s \ {m}], m) ELSE f[s]]
  <2>2. ASSUME NEW s \in SUBSET (1 .. k) PROVE g[s] = f[s]
    <3>1. s \in SUBSET (1 .. m) /\ m \notin s
      OBVIOUS
    <3> HIDE DEF m, Def
    <3> QED BY <3>1
  <2>3. ASSUME NEW s \in SUBSET (1 .. k) PROVE f[s] = Step(f, s)
    <3> HIDE DEF Step
    <3> QED BY <2>1, Zenon
  <2>4. ASSUME NEW s \in SUBSET (1 .. m) PROVE g[s] = Step(g, s)
    <3>1. CASE m \in s
      <4>1. Max(s) = m
        BY <3>1, GreatestOfSubset
      <4>2. s \ {m} \in SUBSET (1 .. k)
        BY SMT
      <4>3. g[s] = Op(f[s \ {m}], m) /\ s # {}
        BY <3>1, Zenon
      <4>4. g[s \ {m}] = f[s \ {m}]
        BY <2>2, <4>2
      <4> HIDE DEF g, m
      <4> QED BY <4>1, <4>3, <4>4, Zenon
    <3>2. CASE m \notin s
      <4>1. s \in SUBSET (1 .. k)
        BY <3>2
      <4>2. s \ {Max(s)} \in SUBSET (1 .. k)
        BY <4>1, Zenon
      <4>3. g[s] = f[s] /\ g[s \ {Max(s)}] = f[s \ {Max(s)}] /\ f[s] = Step(f, s)
        BY <2>2, <2>3, <4>1, <4>2
      <4> HIDE DEF g, m
      <4> QED BY <4>3, Zenon
    <3> QED BY <3>1, <3>2
  <2>5. g = [s \in SUBSET (1 .. m) |-> g[s]]
    BY Zenon
  <2> HIDE DEF g, Step
  <2>6. Def(g, m)
    BY <2>4, <2>5, Zenon
  <2> HIDE DEF Def
  <2> QED BY <2>6
<1>3. PICK g : Def(g, n) /\ g = CHOOSE h : Def(h, n)
  <2>1. \E h : Def(h, n)
    <3> HIDE DEF Def
    <3> QED BY <1>1, <1>2, Induction
  <2> HIDE DEF Def
  <2> QED BY <2>1, Zenon
<1>4. FoldLeft(ReadOriginItem, base, seq) = (CHOOSE h : Def(h, n))[1 .. n]
  BY Zenon DEF FoldLeft, MapThenFoldSet, Op
<1> DEFINE f == [i \in 0 .. n |-> g[1 .. i]]
<1>5. \A i \in 0 .. n : f[i] = g[1 .. i] /\ 1 .. i \in SUBSET (1 .. n)
  OBVIOUS
<1>6. f[0] = base
  <2>1. 0 \in 0 .. n /\ 1 .. 0 = {} /\ {} \in SUBSET (1 .. n)
    OBVIOUS
  <2>2. g[{}] = Step(g, {})
    <3> HIDE DEF Step, f
    <3> QED BY <1>3, <2>1, Zenon
  <2> HIDE DEF f, Def
  <2> QED BY <1>5, <2>1, <2>2
<1>7. ASSUME NEW i \in 1 .. n PROVE f[i] = Op(f[i - 1], i)
  <2>1. i \in 0 .. n /\ i - 1 \in 0 .. n /\ (1 .. i) \ {i} = 1 .. (i - 1)
    OBVIOUS
  <2>2. Max(1 .. i) = i /\ 1 .. i # {}
    <3>1. i \in Nat /\ 1 .. i \in SUBSET (1 .. i) /\ i \in 1 .. i
      OBVIOUS
    <3> HIDE DEF f, Def, Step
    <3> QED BY <3>1, GreatestOfSubset
  <2>3. g[1 .. i] = Step(g, 1 .. i)
    <3>1. 1 .. i \in SUBSET (1 .. n)
      BY <1>5, <2>1
    <3> HIDE DEF Step, f
    <3> QED BY <1>3, <3>1, Zenon
  <2>4. Step(g, 1 .. i) = Op(g[1 .. (i - 1)], i)
    BY <2>1, <2>2, Zenon
  <2> HIDE DEF f, Def, Step
  <2> QED BY <1>5, <2>1, <2>3, <2>4
<1>8. FoldLeft(ReadOriginItem, base, seq) = f[n]
  <2>1. n \in 0 .. n
    OBVIOUS
  <2> HIDE DEF f, Def
  <2> QED BY <1>3, <1>4, <1>5, <2>1
<1> QED BY <1>6, <1>7, <1>8 DEF Reading, Op

-----------------------------------------------------------------------------
(* Structures made here.                                                     *)
Encodings == {Encode(schema, value) : schema \in SizedSchema, value \in Data}

\* Structures that were made here, which have their header with them.
Encoded == {Structure(bytes) : bytes \in Encodings}

\* An entry of XyoObjectSchema: its id and its kind.
IsSchema(schema, id, iterable, typed) ==
  /\ schema \in SizedSchema
  /\ schema.id = id /\ schema.iterable = iterable /\ schema.typed = typed

\* What a block and a transfer are made of, as XyoObjectSchema has it.
LEMMA SchemasOfABlock ==
  LET O == XyoObjectSchema
  IN  /\ IsSchema(O.BW, 2, TRUE, FALSE)
      /\ IsSchema(O.FETTER, 21, TRUE, FALSE)
      /\ IsSchema(O.WITNESSES, 23, TRUE, FALSE)
      /\ IsSchema(O.KEY_SET, 25, TRUE, FALSE)
      /\ IsSchema(O.SIGNATURE_SET, 26, TRUE, FALSE)
      /\ IsSchema(O.BW_FRAGMENT, 27, TRUE, FALSE)
      /\ IsSchema(O.PREVIOUS_HASH, 8, TRUE, FALSE)
      /\ IsSchema(O.FETTER_SET, 22, TRUE, TRUE)
      /\ IsSchema(O.WITNESS_SET, 24, TRUE, TRUE)
      /\ IsSchema(O.INDEX, 3, FALSE, FALSE)
      /\ IsSchema(O.NEXT_PUBLIC_KEY, 4, FALSE, FALSE)
      /\ IsSchema(O.STUB_PUBLIC_KEY, 14, FALSE, FALSE)
      /\ IsSchema(O.STUB_SIGNATURE, 11, FALSE, FALSE)
      /\ IsSchema(O.SHA_256, 16, FALSE, FALSE)
      /\ IsSchema(O.RSSI, 19, FALSE, FALSE)
      /\ IsSchema(Schema(99, FALSE, FALSE), 99, FALSE, FALSE)
<1>1. LET O == XyoObjectSchema
      IN  /\ O.BW = Schema(2, TRUE, FALSE)
          /\ O.FETTER = Schema(21, TRUE, FALSE)
          /\ O.WITNESSES = Schema(23, TRUE, FALSE)
          /\ O.KEY_SET = Schema(25, TRUE, FALSE)
          /\ O.SIGNATURE_SET = Schema(26, TRUE, FALSE)
          /\ O.BW_FRAGMENT = Schema(27, TRUE, FALSE)
          /\ O.PREVIOUS_HASH = Schema(8, TRUE, FALSE)
          /\ O.FETTER_SET = Schema(22, TRUE, TRUE)
          /\ O.WITNESS_SET = Schema(24, TRUE, TRUE)
          /\ O.INDEX = Schema(3, FALSE, FALSE)
          /\ O.NEXT_PUBLIC_KEY = Schema(4, FALSE, FALSE)
          /\ O.STUB_PUBLIC_KEY = Schema(14, FALSE, FALSE)
          /\ O.STUB_SIGNATURE = Schema(11, FALSE, FALSE)
          /\ O.SHA_256 = Schema(16, FALSE, FALSE)
          /\ O.RSSI = Schema(19, FALSE, FALSE)
  BY Zenon DEF XyoObjectSchema
<1>2. /\ IsSchema(Schema(2, TRUE, FALSE), 2, TRUE, FALSE)
      /\ IsSchema(Schema(21, TRUE, FALSE), 21, TRUE, FALSE)
      /\ IsSchema(Schema(23, TRUE, FALSE), 23, TRUE, FALSE)
      /\ IsSchema(Schema(25, TRUE, FALSE), 25, TRUE, FALSE)
  BY DEF IsSchema, Schema, SizedSchema
<1>3. /\ IsSchema(Schema(26, TRUE, FALSE), 26, TRUE, FALSE)
      /\ IsSchema(Schema(27, TRUE, FALSE), 27, TRUE, FALSE)
      /\ IsSchema(Schema(8, TRUE, FALSE), 8, TRUE, FALSE)
  BY DEF IsSchema, Schema, SizedSchema
<1>4. /\ IsSchema(Schema(22, TRUE, TRUE), 22, TRUE, TRUE)
      /\ IsSchema(Schema(24, TRUE, TRUE), 24, TRUE, TRUE)
  BY DEF IsSchema, Schema, SizedSchema
<1>5. /\ IsSchema(Schema(3, FALSE, FALSE), 3, FALSE, FALSE)
      /\ IsSchema(Schema(4, FALSE, FALSE), 4, FALSE, FALSE)
      /\ IsSchema(Schema(14, FALSE, FALSE), 14, FALSE, FALSE)
      /\ IsSchema(Schema(11, FALSE, FALSE), 11, FALSE, FALSE)
      /\ IsSchema(Schema(16, FALSE, FALSE), 16, FALSE, FALSE)
      /\ IsSchema(Schema(19, FALSE, FALSE), 19, FALSE, FALSE)
      /\ IsSchema(Schema(99, FALSE, FALSE), 99, FALSE, FALSE)
  BY DEF IsSchema, Schema, SizedSchema
<1> QED BY <1>1, <1>2, <1>3, <1>4, <1>5, Zenon

\* A structure that was made here is what its bytes are read as.
LEMMA EncodedBytes ==
  ASSUME NEW s \in Encoded
  PROVE  s.contents \in Encodings /\ s.contents \in Data /\ s = Structure(s.contents)
         /\ GetAll(s) = s.contents /\ s.override = <<>>
<1>1. PICK bytes \in Encodings : s = Structure(bytes)
  BY DEF Encoded
<1>2. PICK schema \in SizedSchema, value \in Data : bytes = Encode(schema, value)
  BY DEF Encodings
<1>3. bytes \in Data
  BY <1>2, EncodedIsLonger
<1> QED BY <1>1, <1>3, Zenon DEF Structure, GetAll

\* encode makes such a structure.
LEMMA EncodeIsEncoded ==
  ASSUME NEW schema \in SizedSchema, NEW value \in Data
  PROVE  Structure(Encode(schema, value)) \in Encoded /\ Encode(schema, value) \in Encodings
         /\ Encode(schema, value) \in Data
<1>1. Encode(schema, value) \in Data
  BY EncodedIsLonger
<1>2. Encode(schema, value) \in Encodings
  BY DEF Encodings
<1> QED BY <1>1, <1>2, Zenon DEF Encoded

\* The bytes of some of them, one by one.
LEMMA BytesOfEncoded ==
  ASSUME NEW items \in Seq(Encoded)
  PROVE  /\ Bytes(items) \in Seq(Encodings) /\ Bytes(items) \in Seq(Data)
         /\ Len(Bytes(items)) = Len(items) /\ Len(items) \in Nat
         /\ DOMAIN items = 1 .. Len(items)
         /\ \A i \in 1 .. Len(items) :
              items[i] \in Encoded /\ Bytes(items)[i] = GetAll(items[i])
              /\ items[i] = Structure(Bytes(items)[i])
<1>1. Len(items) \in Nat /\ DOMAIN items = 1 .. Len(items) /\ \A i \in 1 .. Len(items) : items[i] \in Encoded
  OBVIOUS
<1>2. \A i \in 1 .. Len(items) : GetAll(items[i]) \in Encodings /\ GetAll(items[i]) \in Data
                                   /\ items[i] = Structure(GetAll(items[i]))
  BY <1>1, EncodedBytes, Zenon
<1>3. Bytes(items) = [i \in 1 .. Len(items) |-> GetAll(items[i])]
  BY <1>1 DEF Bytes
<1> HIDE DEF Bytes
<1> QED BY <1>1, <1>2, <1>3

\* newIterable makes such a structure of such items.
LEMMA IterableIsEncoded ==
  ASSUME NEW schema \in SizedSchema, ~ schema.typed, NEW items \in Seq(Encoded)
  PROVE  /\ NewIterable(schema, items) = Encode(schema, FlattenSeq(Bytes(items)))
         /\ NewIterable(schema, items) \in Encodings /\ NewIterable(schema, items) \in Data
         /\ Structure(NewIterable(schema, items)) \in Encoded
         /\ FlattenSeq(Bytes(items)) \in Data
<1>1. NewIterable(schema, items) = Encode(schema, FlattenSeq(Bytes(items)))
  BY Zenon DEF NewIterable, Bytes
<1>2. FlattenSeq(Bytes(items)) \in Data
  BY BytesOfEncoded, FlattenIsData
<1> QED BY <1>1, <1>2, EncodeIsEncoded

\* The items of an origin, each or none: index, previous hash and next key.
IndexItems(origin) == [i \in DOMAIN origin.index |-> CreateIndex(origin.index[i])]
PreviousItems(origin) == [i \in DOMAIN origin.previous |-> CreatePreviousHash(Hash(origin.previous[i]))]
KeyItems(origin) == [i \in DOMAIN origin.next |-> CreateNextPublicKey(NextKey(origin.next[i]))]

\* getOriginItems returns them in this order.
LEMMA ItemsOfAnOrigin ==
  ASSUME NEW origin
  PROVE  OriginItems(origin) = IndexItems(origin) \o PreviousItems(origin) \o KeyItems(origin)
BY Zenon DEF OriginItems, IndexItems, PreviousItems, KeyItems

\* What may be there is a sequence of one element or none.
LEMMA MaybeIsSequence ==
  ASSUME NEW S, NEW maybe \in Maybe(S)
  PROVE  maybe \in Seq(S) /\ Len(maybe) \in {0, 1} /\ DOMAIN maybe = 1 .. Len(maybe)
         /\ \A i \in 1 .. Len(maybe) : maybe[i] \in S
<1>1. CASE maybe = <<>>
  BY <1>1
<1>2. CASE \E x \in S : maybe = <<x>>
  BY <1>2
<1> QED BY <1>1, <1>2, Zenon DEF Maybe

\* A sequence of bounded length is a sequence.
LEMMA UpToIsSequence ==
  ASSUME NEW S, NEW n, n \in Nat, NEW s \in SeqUpTo(S, n)
  PROVE  s \in Seq(S) /\ Len(s) \in Nat /\ DOMAIN s = 1 .. Len(s) /\ \A i \in 1 .. Len(s) : s[i] \in S
<1>1. PICK k \in 0 .. n : s \in [1 .. k -> S]
  BY DEF SeqUpTo
<1> QED BY <1>1

\* The data of the model's hashes, keys and signatures are bytes.
LEMMA FilledIsData ==
  ASSUME NEW n \in Nat
  PROVE  Filled(n) \in Data
<1>1. Byte - 1 \in 0 .. 255
  BY ByteAssumption
<1> QED BY <1>1 DEF Filled, Data

\* So is a signer's key.
LEMMA SignerIsData == Signer \in Data
<1>1. Byte - 1 \in 0 .. 255
  BY ByteAssumption
<1> QED BY <1>1 DEF Signer, Data

\* Every item of a fetter or a witness is a structure that was made here: keys,
\* signatures, indices, hashes and next keys
LEMMA LeavesAreEncoded ==
  /\ \A data \in Data : PublicKey(data) \in Encoded /\ \A signer : SignWith(signer, data) \in Encoded
  /\ \A n \in Nat : CreateIndex(n) \in Encoded /\ Hash(n) \in Encoded
                    /\ CreatePreviousHash(Hash(n)) \in Encoded
                    /\ CreateNextPublicKey(NextKey(n)) \in Encoded
<1>1. ASSUME NEW data \in Data
      PROVE  PublicKey(data) \in Encoded /\ \A signer : SignWith(signer, data) \in Encoded
  BY SchemasOfABlock, EncodeIsEncoded, Zenon DEF PublicKey, SignWith, IsSchema
<1>2. ASSUME NEW n \in Nat
      PROVE  CreateIndex(n) \in Encoded /\ Hash(n) \in Encoded
             /\ CreatePreviousHash(Hash(n)) \in Encoded
             /\ CreateNextPublicKey(NextKey(n)) \in Encoded
  <2>1. CreateIndex(n) \in Encoded
    <3>1. Digits(n, 4) \in Data
      BY DigitsAreData
    <3> QED BY <3>1, SchemasOfABlock, EncodeIsEncoded, Zenon DEF CreateIndex, IsSchema
  <2>2. Hash(n) \in Encoded
    BY FilledIsData, SchemasOfABlock, EncodeIsEncoded, Zenon DEF Hash, IsSchema
  <2>3. CreatePreviousHash(Hash(n)) \in Encoded
    <3>1. <<Hash(n)>> \in Seq(Encoded)
      BY <2>2
    <3>2. XyoObjectSchema.PREVIOUS_HASH \in SizedSchema /\ ~ XyoObjectSchema.PREVIOUS_HASH.typed
      BY SchemasOfABlock, Zenon DEF IsSchema
    <3> QED BY <3>1, <3>2, IterableIsEncoded, Zenon DEF CreatePreviousHash
  <2>4. CreateNextPublicKey(NextKey(n)) \in Encoded
    <3>1. NextKey(n) \in Encoded
      BY <1>1, FilledIsData, Zenon DEF NextKey
    <3>2. GetAll(NextKey(n)) \in Data
      BY <3>1, EncodedBytes
    <3> QED BY <3>2, SchemasOfABlock, EncodeIsEncoded, Zenon DEF CreateNextPublicKey, IsSchema
  <2> QED BY <2>1, <2>2, <2>3, <2>4
<1> QED BY <1>1, <1>2

\* A reading of RSSI is one byte, with its sign or without.
LEMMA ReadingIsData ==
  ASSUME NEW h \in HeuristicKinds, h[1] = "rssi"
  PROVE  <<h[2] % Byte>> \in Data
<1>1. Strengths \subseteq Nat
  BY BoundAssumption, ByteAssumption
<1>2. ASSUME NEW r \in Readings PROVE r \in Int
  <2>1. r \in Strengths \/ \E n \in Strengths : r = -n
    BY Zenon DEF Readings
  <2>2. CASE r \in Strengths
    BY <1>1, <2>2
  <2>3. CASE \E n \in Strengths : r = -n
    <3>1. PICK n \in Strengths : r = -n
      BY <2>3
    <3>2. n \in Nat
      BY <1>1
    <3> QED BY <3>1, <3>2
  <2> QED BY <2>1, <2>2, <2>3
<1>3. h \in {"rssi"} \X Readings
  BY DEF HeuristicKinds
<1>4. h[2] \in Int
  BY <1>2, <1>3
<1>5. \A r \in Int : r % Byte \in 0 .. 255
  BY ByteAssumption
<1>6. h[2] % Byte \in 0 .. 255
  BY <1>4, <1>5, Zenon
<1> QED BY <1>6 DEF Data

\* and heuristics.
LEMMA HeuristicIsEncoded ==
  ASSUME NEW h \in HeuristicKinds
  PROVE  Heuristic(h) \in Encoded
<1>1. CASE h[1] = "rssi"
  <2>1. <<h[2] % Byte>> \in Data
    BY <1>1, ReadingIsData
  <2> QED BY <1>1, <2>1, SchemasOfABlock, EncodeIsEncoded, Zenon DEF Heuristic, IsSchema
<1>2. CASE h[1] # "rssi"
  <2>1. <<>> \in Data
    BY DEF Data
  <2> QED BY <1>2, <2>1, SchemasOfABlock, EncodeIsEncoded, Zenon DEF Heuristic, IsSchema
<1> QED BY <1>1, <1>2

-----------------------------------------------------------------------------
(* Parts.                                                                    *)

\* A part of a ledger is a fetter or a witness and has what that has.
LEMMA PartIsRecord ==
  ASSUME NEW part \in Parts
  PROVE  \/ /\ part.kind = "fetter"
            /\ part.origin.index \in Maybe(Indices) /\ part.origin.previous \in Maybe(HashSizes)
            /\ part.origin.next \in Maybe(KeySizes)
            /\ part.heuristics \in SeqUpTo(HeuristicKinds, MaxHeuristics)
         \/ part.kind = "witness" /\ part.sizes \in SeqUpTo(SignatureSizes, MaxSignatures)
<1>1. CASE part \in FetterParts
  <2>1. part \in [kind : {"fetter"}, origin : Origins, heuristics : SeqUpTo(HeuristicKinds, MaxHeuristics)]
    BY <1>1, Zenon DEF FetterParts
  <2>2. part.kind = "fetter" /\ part.origin \in Origins
        /\ part.heuristics \in SeqUpTo(HeuristicKinds, MaxHeuristics)
    BY <2>1
  <2> QED BY <2>2 DEF Origins
<1>2. CASE part \in WitnessParts
  BY <1>2 DEF WitnessParts
<1> QED BY <1>1, <1>2 DEF Parts

\* The items of an origin are structures that were made here.
LEMMA OriginItemsAreEncoded ==
  ASSUME NEW origin, origin.index \in Maybe(Indices), origin.previous \in Maybe(HashSizes),
         origin.next \in Maybe(KeySizes)
  PROVE  /\ IndexItems(origin) \in Seq(Encoded) /\ Len(IndexItems(origin)) = Len(origin.index)
         /\ PreviousItems(origin) \in Seq(Encoded) /\ Len(PreviousItems(origin)) = Len(origin.previous)
         /\ KeyItems(origin) \in Seq(Encoded) /\ Len(KeyItems(origin)) = Len(origin.next)
         /\ OriginItems(origin) \in Seq(Encoded)
<1>1. \A n \in Indices \cup HashSizes \cup KeySizes : n \in Nat
  BY BoundAssumption
<1>2. IndexItems(origin) \in Seq(Encoded) /\ Len(IndexItems(origin)) = Len(origin.index)
  <2>1. \A i \in DOMAIN origin.index : CreateIndex(origin.index[i]) \in Encoded
    BY <1>1, MaybeIsSequence, LeavesAreEncoded
  <2>2. DOMAIN origin.index = 1 .. Len(origin.index) /\ Len(origin.index) \in Nat
    BY MaybeIsSequence
  <2> QED BY <2>1, <2>2 DEF IndexItems
<1>3. PreviousItems(origin) \in Seq(Encoded) /\ Len(PreviousItems(origin)) = Len(origin.previous)
  <2>1. \A i \in DOMAIN origin.previous : CreatePreviousHash(Hash(origin.previous[i])) \in Encoded
    BY <1>1, MaybeIsSequence, LeavesAreEncoded
  <2>2. DOMAIN origin.previous = 1 .. Len(origin.previous) /\ Len(origin.previous) \in Nat
    BY MaybeIsSequence
  <2> QED BY <2>1, <2>2 DEF PreviousItems
<1>4. KeyItems(origin) \in Seq(Encoded) /\ Len(KeyItems(origin)) = Len(origin.next)
  <2>1. \A i \in DOMAIN origin.next : CreateNextPublicKey(NextKey(origin.next[i])) \in Encoded
    BY <1>1, MaybeIsSequence, LeavesAreEncoded
  <2>2. DOMAIN origin.next = 1 .. Len(origin.next) /\ Len(origin.next) \in Nat
    BY MaybeIsSequence
  <2> QED BY <2>1, <2>2 DEF KeyItems
<1>5. OriginItems(origin) \in Seq(Encoded)
  <2>1. IndexItems(origin) \o PreviousItems(origin) \in Seq(Encoded)
    BY <1>2, <1>3
  <2>2. (IndexItems(origin) \o PreviousItems(origin)) \o KeyItems(origin) \in Seq(Encoded)
    BY <1>4, <2>1
  <2> QED BY <2>2, ItemsOfAnOrigin, Zenon
<1> QED BY <1>2, <1>3, <1>4, <1>5

\* The key set of a fetter.
KeysOf == Structure(NewIterable(XyoObjectSchema.KEY_SET, <<PublicKey(Signer)>>))

\* It is a structure that was made here.
LEMMA KeysAreEncoded == KeysOf \in Encoded
<1>1. <<PublicKey(Signer)>> \in Seq(Encoded)
  BY SignerIsData, LeavesAreEncoded
<1>2. XyoObjectSchema.KEY_SET \in SizedSchema /\ ~ XyoObjectSchema.KEY_SET.typed
  BY SchemasOfABlock, Zenon DEF IsSchema
<1> QED BY <1>1, <1>2, IterableIsEncoded, Zenon DEF KeysOf

\* The schema of a part.
SchemaOf(part) == IF part.kind = "fetter" THEN Fetter ELSE Witness

\* It is of an array that is not typed, and says which kind the part is of.
LEMMA SchemaOfAPart ==
  ASSUME NEW part \in Parts
  PROVE  SchemaOf(part) \in SizedSchema /\ SchemaOf(part).typed = FALSE
         /\ SchemaOf(part).id = (IF part.kind = "fetter" THEN Fetter.id ELSE Witness.id)
         /\ Fetter.id = 21 /\ Witness.id = 23
<1>1. Fetter \in SizedSchema /\ Fetter.typed = FALSE /\ Fetter.id = 21
      /\ Witness \in SizedSchema /\ Witness.typed = FALSE /\ Witness.id = 23
  BY SchemasOfABlock, Zenon DEF IsSchema, Fetter, Witness
<1> QED BY <1>1 DEF SchemaOf

\* A part is an array of its leaves: createMasterArrayWithSubArray makes the sub array
\* its first item.
LEMMA PartIsEncoded ==
  ASSUME NEW part \in Parts
  PROVE  /\ Leaves(part) \in Seq(Encoded)
         /\ Part(part) = Structure(NewIterable(SchemaOf(part), Leaves(part)))
         /\ Part(part) \in Encoded
<1>1. ASSUME /\ part.kind = "fetter"
             /\ part.origin.index \in Maybe(Indices) /\ part.origin.previous \in Maybe(HashSizes)
             /\ part.origin.next \in Maybe(KeySizes)
             /\ part.heuristics \in SeqUpTo(HeuristicKinds, MaxHeuristics)
      PROVE  Leaves(part) \in Seq(Encoded)
             /\ Part(part) = Structure(NewIterable(SchemaOf(part), Leaves(part)))
  <2> DEFINE rest == [i \in DOMAIN part.heuristics |-> Heuristic(part.heuristics[i])]
             origin == part.origin
  <2>1. OriginItems(origin) \in Seq(Encoded)
    BY <1>1, OriginItemsAreEncoded
  <2>2. rest \in Seq(Encoded)
    <3>1. MaxHeuristics \in Nat
      BY BoundAssumption
    <3>2. \A i \in DOMAIN part.heuristics : Heuristic(part.heuristics[i]) \in Encoded
      BY <1>1, <3>1, UpToIsSequence, HeuristicIsEncoded
    <3>3. DOMAIN part.heuristics = 1 .. Len(part.heuristics) /\ Len(part.heuristics) \in Nat
      BY <1>1, <3>1, UpToIsSequence
    <3> QED BY <3>2, <3>3
  <2>3. Payload(part) = OriginItems(origin) \o rest
    BY Zenon DEF Payload
  <2>4. Payload(part) \in Seq(Encoded)
    <3> HIDE DEF rest, origin
    <3> QED BY <2>1, <2>2, <2>3
  <2>5. Leaves(part) = <<KeysOf>> \o Payload(part)
    BY <1>1, Zenon DEF Leaves, KeysOf
  <2>6. Leaves(part) \in Seq(Encoded)
    BY <2>4, <2>5, KeysAreEncoded
  <2>7. [i \in DOMAIN <<Signer>> |-> PublicKey(<<Signer>>[i])] = <<PublicKey(Signer)>>
    OBVIOUS
  <2>8. FetterOf(<<Signer>>, Payload(part)) = Structure(NewIterable(Fetter, Leaves(part)))
    BY <2>5, <2>7, Zenon DEF FetterOf, MasterArray, KeysOf
  <2> QED BY <1>1, <2>6, <2>8, Zenon DEF Part, SchemaOf
<1>2. ASSUME part.kind = "witness", part.sizes \in SeqUpTo(SignatureSizes, MaxSignatures)
      PROVE  Leaves(part) \in Seq(Encoded)
             /\ Part(part) = Structure(NewIterable(SchemaOf(part), Leaves(part)))
  <2> DEFINE signatures == [i \in DOMAIN part.sizes |-> SignWith(Signer, Filled(part.sizes[i]))]
             O == XyoObjectSchema
  <2>1. signatures \in Seq(Encoded)
    <3>1. MaxSignatures \in Nat /\ \A n \in SignatureSizes : n \in Nat
      BY BoundAssumption
    <3>2. \A i \in DOMAIN part.sizes : SignWith(Signer, Filled(part.sizes[i])) \in Encoded
      BY <1>2, <3>1, UpToIsSequence, FilledIsData, LeavesAreEncoded
    <3>3. DOMAIN part.sizes = 1 .. Len(part.sizes) /\ Len(part.sizes) \in Nat
      BY <1>2, <3>1, UpToIsSequence
    <3> QED BY <3>2, <3>3
  <2>2. O.SIGNATURE_SET \in SizedSchema /\ ~ O.SIGNATURE_SET.typed
    BY SchemasOfABlock, Zenon DEF IsSchema
  <2>3. Structure(NewIterable(O.SIGNATURE_SET, signatures)) \in Encoded
    <3> HIDE DEF signatures, O
    <3> QED BY <2>1, <2>2, IterableIsEncoded
  <2>4. Leaves(part) = <<Structure(NewIterable(O.SIGNATURE_SET, signatures))>>
    BY <1>2, Zenon DEF Leaves
  <2>5. Leaves(part) \in Seq(Encoded)
    <3> HIDE DEF signatures, O
    <3> QED BY <2>3, <2>4
  <2>6. part.kind # "fetter"
    BY <1>2
  <2> QED BY <2>5, <2>6, Zenon DEF Part, SchemaOf
<1>3. Leaves(part) \in Seq(Encoded) /\ Part(part) = Structure(NewIterable(SchemaOf(part), Leaves(part)))
  BY <1>1, <1>2, PartIsRecord
<1> QED BY <1>3, SchemaOfAPart, IterableIsEncoded, Zenon

\* The parts of a ledger as structures, one by one, and the ledger made of them.
LEMMA PartsAreEncoded ==
  ASSUME NEW parts \in Seq(Parts)
  PROVE  /\ PartsOf(parts) \in Seq(Encoded) /\ Len(PartsOf(parts)) = Len(parts)
         /\ Len(parts) \in Nat /\ DOMAIN parts = 1 .. Len(parts)
         /\ Bytes(PartsOf(parts)) \in Seq(Data) /\ Len(Bytes(PartsOf(parts))) = Len(parts)
         /\ \A i \in 1 .. Len(parts) :
              parts[i] \in Parts /\ PartsOf(parts)[i] = Part(parts[i])
              /\ Bytes(PartsOf(parts))[i] = GetAll(Part(parts[i]))
         /\ Built(parts) = Encode(BW, FlattenSeq(Bytes(PartsOf(parts))))
         /\ Built(parts) \in Data
<1>1. Len(parts) \in Nat /\ DOMAIN parts = 1 .. Len(parts) /\ \A i \in 1 .. Len(parts) : parts[i] \in Parts
  OBVIOUS
<1>2. \A i \in 1 .. Len(parts) : Part(parts[i]) \in Encoded
  BY <1>1, PartIsEncoded, Zenon
<1>3. PartsOf(parts) \in Seq(Encoded) /\ Len(PartsOf(parts)) = Len(parts)
      /\ \A i \in 1 .. Len(parts) : PartsOf(parts)[i] = Part(parts[i])
  BY <1>1, <1>2 DEF PartsOf
<1>4. BW \in SizedSchema /\ ~ BW.typed
  BY SchemasOfABlock, Zenon DEF IsSchema, BW
<1>5. /\ Bytes(PartsOf(parts)) \in Seq(Data) /\ Len(Bytes(PartsOf(parts))) = Len(PartsOf(parts))
      /\ \A i \in 1 .. Len(PartsOf(parts)) : Bytes(PartsOf(parts))[i] = GetAll(PartsOf(parts)[i])
  BY <1>3, BytesOfEncoded
<1>6. Built(parts) = Encode(BW, FlattenSeq(Bytes(PartsOf(parts)))) /\ Built(parts) \in Data
  BY <1>3, <1>4, IterableIsEncoded, Zenon DEF Built
<1> QED BY <1>1, <1>3, <1>5, <1>6

-----------------------------------------------------------------------------
(* What fits into a buffer.                                                  *)

\* What a buffer of Node can hold has a size of at most four bytes.
LEMMA BufferFits == MaxBufferLength \in Nat /\ MaxBufferLength + 4 < Byte4 /\ Byte4 \in Nat
<1>1. Byte2 \in Nat /\ Byte2 >= 16
  BY ByteAssumption DEF Byte2
<1>2. Byte4 \in Nat /\ Byte4 >= 256
  <2> DEFINE b == Byte2
  <2>1. b \in Nat /\ b >= 16
    BY <1>1
  <2> HIDE DEF b
  <2>2. b * b \in Nat /\ b * b >= 16 * b
    BY <2>1
  <2>3. b * b >= 256
    BY <2>1, <2>2
  <2> QED BY <2>2, <2>3 DEF Byte4, b
<1> QED BY <1>2 DEF MaxBufferLength

\* What is no longer than a buffer can be is read back.
LEMMA ShortIsEncoding ==
  ASSUME NEW schema \in SizedSchema, NEW value \in Data,
         Len(Encode(schema, value)) <= MaxBufferLength
  PROVE  Fits(value) /\ IsEncoding(Encode(schema, value))
<1>1. Len(Encode(schema, value)) > Len(value) + 2 /\ Encode(schema, value) \in Data
  BY EncodedIsLonger
<1>2. Len(value) \in Nat /\ Len(Encode(schema, value)) \in Nat
  BY <1>1, DataLength
<1>3. Len(value) + 4 < Byte4
  BY <1>1, <1>2, BufferFits
<1> QED BY <1>3, Zenon DEF Fits, IsEncoding

\* So is every item of an array that is no longer than a buffer can be.
LEMMA IterableIsShort ==
  ASSUME NEW schema \in SizedSchema, ~ schema.typed, NEW items \in Seq(Encoded),
         Len(NewIterable(schema, items)) <= MaxBufferLength
  PROVE  /\ Fits(FlattenSeq(Bytes(items))) /\ AreEncodings(Bytes(items))
         /\ \A i \in 1 .. Len(items) : Len(Bytes(items)[i]) <= MaxBufferLength
<1> DEFINE pieces == Bytes(items)
<1>1. NewIterable(schema, items) = Encode(schema, FlattenSeq(pieces)) /\ FlattenSeq(pieces) \in Data
  BY IterableIsEncoded, Zenon
<1>2. Fits(FlattenSeq(pieces))
  BY <1>1, ShortIsEncoding
<1>3. Len(FlattenSeq(pieces)) <= MaxBufferLength
  <2>1. Len(Encode(schema, FlattenSeq(pieces))) > Len(FlattenSeq(pieces)) + 2
    BY <1>1, EncodedIsLonger
  <2>2. Encode(schema, FlattenSeq(pieces)) \in Data
    BY <1>1, EncodedIsLonger
  <2>3. Len(FlattenSeq(pieces)) \in Nat /\ Len(Encode(schema, FlattenSeq(pieces))) \in Nat
    BY <1>1, <2>2, DataLength
  <2>4. Len(Encode(schema, FlattenSeq(pieces))) <= MaxBufferLength
    BY <1>1
  <2> QED BY <2>1, <2>3, <2>4, BufferFits
<1>4. pieces \in Seq(Data) /\ Len(pieces) = Len(items)
      /\ \A i \in 1 .. Len(items) : items[i] \in Encoded /\ pieces[i] = GetAll(items[i])
  BY BytesOfEncoded, Zenon
<1>5. \A i \in 1 .. Len(pieces) : pieces[i] \in Data /\ Len(pieces[i]) <= Len(FlattenSeq(pieces))
  BY <1>4, FlattenIsData, Zenon
<1>6. \A i \in 1 .. Len(items) : Len(pieces[i]) <= MaxBufferLength
  <2> HIDE DEF pieces
  <2> TAKE i \in 1 .. Len(items)
  <2>1. Len(pieces[i]) \in Nat /\ Len(FlattenSeq(pieces)) \in Nat /\ Len(pieces[i]) <= Len(FlattenSeq(pieces))
    BY <1>1, <1>4, <1>5, DataLength
  <2> QED BY <1>3, <2>1, BufferFits
<1>7. ASSUME NEW i \in 1 .. Len(items) PROVE IsEncoding(pieces[i])
  <2> HIDE DEF pieces
  <2>1. pieces[i] \in Encodings
    BY <1>4, EncodedBytes
  <2>2. PICK other \in SizedSchema, value \in Data : pieces[i] = Encode(other, value)
    BY <2>1 DEF Encodings
  <2> QED BY <1>6, <2>2, ShortIsEncoding
<1> HIDE DEF pieces
<1>8. AreEncodings(pieces)
  BY <1>4, <1>7 DEF AreEncodings
<1> QED BY <1>2, <1>6, <1>8 DEF pieces

\* Such an array is read as the items it was made of.
LEMMA IterableIsRead ==
  ASSUME NEW schema \in SizedSchema, ~ schema.typed, NEW items \in Seq(Encoded),
         Len(NewIterable(schema, items)) <= MaxBufferLength
  PROVE  Items(Structure(NewIterable(schema, items))) = items
<1> DEFINE pieces == Bytes(items)
<1>1. Fits(FlattenSeq(pieces)) /\ AreEncodings(pieces)
  BY IterableIsShort
<1>2. NewIterable(schema, items) = Encode(schema, FlattenSeq(pieces))
  BY IterableIsEncoded, Zenon
<1>3. Items(Structure(NewIterable(schema, items))) = [i \in 1 .. Len(pieces) |-> Structure(pieces[i])]
  <2> HIDE DEF pieces
  <2> QED BY <1>1, <1>2, ArrayIsRead
<1>4. Len(pieces) = Len(items) /\ Len(items) \in Nat /\ DOMAIN items = 1 .. Len(items)
      /\ \A i \in 1 .. Len(items) : items[i] = Structure(pieces[i])
  BY BytesOfEncoded, Zenon
<1>5. items = [i \in 1 .. Len(items) |-> items[i]]
  OBVIOUS
<1> HIDE DEF pieces
<1> QED BY <1>3, <1>4, <1>5

\* The parts a ledger has are fetters and then witnesses, and fit into a buffer.
Held(parts) == parts \in Seq(Parts) /\ InOrder(parts) /\ Len(Built(parts)) <= MaxBufferLength

\* The bytes of a structure that was made of bytes are those.
LEMMA AllOfAStructure ==
  ASSUME NEW bytes
  PROVE  GetAll(Structure(bytes)) = bytes
BY DEF GetAll, Structure

\* A ledger made of its parts reads back as them, and each of them as its leaves.
LEMMA BuiltIsRead ==
  ASSUME NEW parts, parts \in Seq(Parts), Len(Built(parts)) <= MaxBufferLength
  PROVE  /\ Items(Structure(Built(parts))) = PartsOf(parts)
         /\ \A i \in 1 .. Len(parts) : Items(Part(parts[i])) = Leaves(parts[i])
<1>1. BW \in SizedSchema /\ ~ BW.typed
  BY SchemasOfABlock, Zenon DEF IsSchema, BW
<1>2. PartsOf(parts) \in Seq(Encoded) /\ Len(PartsOf(parts)) = Len(parts)
      /\ \A i \in 1 .. Len(parts) : parts[i] \in Parts /\ PartsOf(parts)[i] = Part(parts[i])
  BY PartsAreEncoded
<1>3. Items(Structure(Built(parts))) = PartsOf(parts)
  BY <1>1, <1>2, IterableIsRead, Zenon DEF Built
<1>4. ASSUME NEW i \in 1 .. Len(parts)
      PROVE  Items(Part(parts[i])) = Leaves(parts[i])
  <2> DEFINE part == parts[i]
  <2>1. part \in Parts /\ Leaves(part) \in Seq(Encoded)
        /\ Part(part) = Structure(NewIterable(SchemaOf(part), Leaves(part)))
    BY <1>2, PartIsEncoded
  <2>2. SchemaOf(part) \in SizedSchema /\ ~ SchemaOf(part).typed
    BY <2>1, SchemaOfAPart
  <2>3. Len(Bytes(PartsOf(parts))[i]) <= MaxBufferLength
    BY <1>1, <1>2, IterableIsShort, Zenon DEF Built
  <2>4. Bytes(PartsOf(parts))[i] = GetAll(Part(part))
    BY PartsAreEncoded
  <2>5. GetAll(Part(part)) = NewIterable(SchemaOf(part), Leaves(part))
    BY <2>1, AllOfAStructure
  <2> HIDE DEF part
  <2>6. Len(NewIterable(SchemaOf(part), Leaves(part))) <= MaxBufferLength
    BY <2>3, <2>4, <2>5
  <2>7. Items(Part(part)) = Leaves(part)
    BY <2>1, <2>2, <2>6, IterableIsRead
  <2> QED BY <2>7 DEF part
<1> QED BY <1>3, <1>4

-----------------------------------------------------------------------------
(* Fetters and what is signed.                                               *)

\* An array has the schema it was made with, and its items joined for a value.
LEMMA SchemaOfIterable ==
  ASSUME NEW schema \in SizedSchema, ~ schema.typed, NEW items \in Seq(Encoded),
         Len(NewIterable(schema, items)) <= MaxBufferLength
  PROVE  /\ GetSchema(Structure(NewIterable(schema, items))).id = schema.id
         /\ GetValue(Structure(NewIterable(schema, items))) = FlattenSeq(Bytes(items))
<1> DEFINE value == FlattenSeq(Bytes(items))
<1>1. Fits(value) /\ NewIterable(schema, items) = Encode(schema, value)
  BY IterableIsShort, IterableIsEncoded, Zenon
<1> HIDE DEF value
<1>2. /\ GetSchema(Structure(Encode(schema, value))) = Sized(schema, value)
      /\ GetValue(Structure(Encode(schema, value))) = value
  BY <1>1, EncodedIsStructure, Zenon
<1>3. Sized(schema, value).id = schema.id
  BY DEF Sized, SizedSchema
<1> QED BY <1>1, <1>2, <1>3 DEF value

\* A part of a ledger shows by its id whether it is a fetter.
LEMMA SchemaOfPart ==
  ASSUME NEW parts, parts \in Seq(Parts), Len(Built(parts)) <= MaxBufferLength,
         NEW i \in 1 .. Len(parts)
  PROVE  /\ GetSchema(Part(parts[i])).id = (IF parts[i].kind = "fetter" THEN Fetter.id ELSE Witness.id)
         /\ Fetter.id # Witness.id
         /\ parts[i].kind \in {"fetter", "witness"}
<1> DEFINE part == parts[i]
<1>1. BW \in SizedSchema /\ ~ BW.typed
  BY SchemasOfABlock, Zenon DEF IsSchema, BW
<1>2. PartsOf(parts) \in Seq(Encoded) /\ Len(PartsOf(parts)) = Len(parts) /\ part \in Parts
  BY PartsAreEncoded
<1>3. Leaves(part) \in Seq(Encoded)
      /\ Part(part) = Structure(NewIterable(SchemaOf(part), Leaves(part)))
  BY <1>2, PartIsEncoded
<1>4. /\ SchemaOf(part) \in SizedSchema /\ ~ SchemaOf(part).typed
      /\ SchemaOf(part).id = (IF part.kind = "fetter" THEN Fetter.id ELSE Witness.id)
      /\ Fetter.id # Witness.id
  <2> HIDE DEF part
  <2>1. SchemaOf(part) \in SizedSchema /\ SchemaOf(part).typed = FALSE
        /\ SchemaOf(part).id = (IF part.kind = "fetter" THEN Fetter.id ELSE Witness.id)
        /\ Fetter.id = 21 /\ Witness.id = 23
    BY <1>2, SchemaOfAPart, Zenon
  <2>2. Fetter.id # Witness.id
    BY <2>1
  <2> QED BY <2>1, <2>2, Zenon
<1>5. Len(NewIterable(SchemaOf(part), Leaves(part))) <= MaxBufferLength
  <2>1. Len(Bytes(PartsOf(parts))[i]) <= MaxBufferLength
    BY <1>1, <1>2, IterableIsShort, Zenon DEF Built
  <2>2. Bytes(PartsOf(parts))[i] = GetAll(Part(part))
    BY PartsAreEncoded
  <2>3. GetAll(Part(part)) = NewIterable(SchemaOf(part), Leaves(part))
    BY <1>3, AllOfAStructure
  <2> QED BY <2>1, <2>2, <2>3
<1>6. part.kind \in {"fetter", "witness"}
  BY <1>2, PartIsRecord
<1> HIDE DEF part
<1>7. GetSchema(Part(part)).id = SchemaOf(part).id
  BY <1>3, <1>4, <1>5, SchemaOfIterable
<1> QED BY <1>4, <1>6, <1>7 DEF part

\* How many fetters a ledger has in front of its witnesses.
FettersFirst(parts, n) ==
  /\ n \in 0 .. Len(parts)
  /\ \A i \in 1 .. Len(parts) : parts[i].kind = IF i <= n THEN "fetter" ELSE "witness"

\* A ledger has all its fetters in front of its witnesses.
LEMMA FettersComeFirst ==
  ASSUME NEW parts \in Seq(Parts), InOrder(parts)
  PROVE  \E n : FettersFirst(parts, n)
<1>1. Len(parts) \in Nat /\ DOMAIN parts = 1 .. Len(parts) /\ MaxParties \in Nat
  BY BoundAssumption
<1>2. PICK n \in 0 .. MaxParties :
        /\ n <= Len(parts) /\ Len(parts) <= 2 * n
        /\ \A i \in DOMAIN parts : parts[i].kind = IF i <= n THEN "fetter" ELSE "witness"
  BY Zenon DEF InOrder
<1>3. n \in 0 .. Len(parts)
  BY <1>1, <1>2
<1> QED BY <1>1, <1>2, <1>3, Zenon DEF FettersFirst

\* getId finds them, and the items it finds are theirs.
LEMMA FettersAreFound ==
  ASSUME NEW parts, parts \in Seq(Parts), Len(Built(parts)) <= MaxBufferLength,
         NEW n, FettersFirst(parts, n)
  PROVE  /\ OfKind(parts, "fetter") = SubSeq(parts, 1, n)
         /\ GetId(Structure(Built(parts)), Fetter) = SubSeq(PartsOf(parts), 1, n)
<1>1. Len(parts) \in Nat /\ DOMAIN parts = 1 .. Len(parts) /\ n \in 0 .. Len(parts)
      /\ \A i \in 1 .. Len(parts) : (parts[i].kind = "fetter") <=> i <= n
  BY DEF FettersFirst
<1>2. OfKind(parts, "fetter") = SubSeq(parts, 1, n)
  <2> DEFINE positions == {i \in DOMAIN parts : parts[i].kind = "fetter"}
  <2>1. \A i \in 1 .. Len(parts) : i \in positions <=> i <= n
    BY <1>1
  <2>2. OfKind(parts, "fetter") = Among(parts, positions)
    BY Zenon DEF OfKind
  <2> HIDE DEF positions
  <2> QED BY <1>1, <2>1, <2>2, AmongFirst
<1>3. GetId(Structure(Built(parts)), Fetter) = SubSeq(PartsOf(parts), 1, n)
  <2> DEFINE items == PartsOf(parts)
             positions == {i \in DOMAIN items : GetSchema(items[i]).id = Fetter.id}
  <2>1. Items(Structure(Built(parts))) = items
    BY BuiltIsRead
  <2>2. GetId(Structure(Built(parts)), Fetter) = Among(items, positions)
    BY <2>1, Zenon DEF GetId, OfSchema
  <2>3. items \in Seq(Encoded) /\ Len(items) = Len(parts) /\ DOMAIN items = 1 .. Len(parts)
        /\ \A i \in 1 .. Len(parts) : items[i] = Part(parts[i])
    BY PartsAreEncoded
  <2> HIDE DEF items
  <2>4. \A i \in 1 .. Len(parts) : i \in positions <=> i <= n
    <3> TAKE i \in 1 .. Len(parts)
    <3>1. GetSchema(Part(parts[i])).id = Fetter.id <=> parts[i].kind = "fetter"
      BY SchemaOfPart
    <3> QED BY <1>1, <2>3, <3>1
  <2> HIDE DEF positions
  <2>5. Among(items, positions) = SubSeq(items, 1, n)
    BY <1>1, <2>3, <2>4, AmongFirst
  <2> QED BY <2>2, <2>5 DEF items
<1> QED BY <1>2, <1>3

\* getSigningData, which counts the bytes of the fetters from the beginning of the value,
\* takes these bytes and no others.
LEMMA SigningTheFetters ==
  ASSUME NEW parts, Held(parts)
  PROVE  SigningData(Structure(Built(parts))) = FlattenSeq(Bytes(PartsOf(OfKind(parts, "fetter"))))
<1>1. parts \in Seq(Parts) /\ Len(Built(parts)) <= MaxBufferLength
  BY DEF Held
<1>2. PICK n : FettersFirst(parts, n)
  BY FettersComeFirst DEF Held
<1> DEFINE pieces == Bytes(PartsOf(parts))
           front == SubSeq(pieces, 1, n)
           back == SubSeq(pieces, n + 1, Len(pieces))
<1>3. n \in 0 .. Len(parts) /\ Len(parts) \in Nat /\ Len(pieces) = Len(parts) /\ pieces \in Seq(Data)
      /\ DOMAIN parts = 1 .. Len(parts) /\ Len(PartsOf(parts)) = Len(parts)
      /\ PartsOf(parts) \in Seq(Encoded)
  BY <1>1, <1>2, PartsAreEncoded DEF FettersFirst
<1>4. OfKind(parts, "fetter") = SubSeq(parts, 1, n)
      /\ GetId(Structure(Built(parts)), Fetter) = SubSeq(PartsOf(parts), 1, n)
  BY <1>1, <1>2, FettersAreFound
<1>5. Bytes(SubSeq(PartsOf(parts), 1, n)) = front
  <2> DEFINE items == PartsOf(parts)
  <2>1. items \in Seq(Encoded) /\ Len(items) = Len(parts) /\ \A i \in 1 .. n : pieces[i] = GetAll(items[i])
    BY <1>3, BytesOfEncoded
  <2> HIDE DEF items, pieces
  <2>2. SubSeq(items, 1, n) = [i \in 1 .. n |-> items[i]]
    BY <1>3, <2>1
  <2>3. SubSeq(pieces, 1, n) = [i \in 1 .. n |-> pieces[i]]
    BY <1>3
  <2> QED BY <1>3, <2>1, <2>2, <2>3 DEF Bytes, items
<1>6. PartsOf(SubSeq(parts, 1, n)) = SubSeq(PartsOf(parts), 1, n)
  <2>1. SubSeq(parts, 1, n) = [i \in 1 .. n |-> parts[i]]
    BY <1>3
  <2>2. SubSeq(PartsOf(parts), 1, n) = [i \in 1 .. n |-> PartsOf(parts)[i]]
    BY <1>3
  <2>3. \A i \in 1 .. n : PartsOf(parts)[i] = Part(parts[i])
    <3>1. \A i \in 1 .. Len(parts) : PartsOf(parts)[i] = Part(parts[i])
      BY <1>1, PartsAreEncoded
    <3> QED BY <1>3, <3>1
  <2> QED BY <1>3, <2>1, <2>2, <2>3 DEF PartsOf
<1>7. GetValue(Structure(Built(parts))) = FlattenSeq(pieces)
  <2>1. BW \in SizedSchema /\ ~ BW.typed
    BY SchemasOfABlock, Zenon DEF IsSchema, BW
  <2> QED BY <1>1, <1>3, <2>1, SchemaOfIterable, Zenon DEF Built
<1>8. front \in Seq(Data) /\ back \in Seq(Data) /\ pieces = front \o back
  <2> HIDE DEF pieces
  <2>1. front \o back = SubSeq(pieces, 1, Len(pieces))
    <3>1. 1 \in 1 .. Len(pieces) + 1 /\ n \in 1 - 1 .. Len(pieces) /\ Len(pieces) \in n .. Len(pieces)
      BY <1>3
    <3> QED BY <1>3, <3>1, ConcatAdjacentSubSeq, Zenon
  <2>2. SubSeq(pieces, 1, Len(pieces)) = pieces
    BY <1>3, SubSeqFull
  <2>3. \A i \in 1 .. Len(pieces) : pieces[i] \in Data
    BY <1>3
  <2>4. front \in Seq(Data)
    BY <1>3, <2>3, SubSeqProperties
  <2>5. back \in Seq(Data)
    BY <1>3, <2>3, SubSeqProperties
  <2> QED BY <2>1, <2>2, <2>4, <2>5
<1>9. FlattenSeq(front) \in Data /\ FlattenSeq(back) \in Data
      /\ FlattenSeq(pieces) = FlattenSeq(front) \o FlattenSeq(back)
  <2> HIDE DEF front, back, pieces
  <2> QED BY <1>8, FlattenConcatenated, FlattenIsData
<1> DEFINE a == FlattenSeq(front)
           b == FlattenSeq(back)
<1>10. SigningData(Structure(Built(parts))) = Slice(a \o b, 0, Len(a))
  <2> HIDE DEF front, back, pieces
  <2> QED BY <1>4, <1>5, <1>7, <1>9, Zenon DEF SigningData, WitnessFetterBoundary
<1>11. Slice(a \o b, 0, Len(a)) = a
  <2> HIDE DEF a, b
  <2>1. a \in Data /\ b \in Data
    BY <1>9 DEF a, b
  <2>2. a \o b \in Data /\ Stands(a, a \o b, 0) /\ Len(a) \in Nat
    BY <2>1, DataJoined, DataLength
  <2>3. Slice(a \o b, 0, 0 + Len(a)) = a
    BY <2>1, <2>2, StandingIsSliced
  <2> QED BY <2>2, <2>3
<1> QED BY <1>4, <1>5, <1>6, <1>10, <1>11

-----------------------------------------------------------------------------
(* What is sent.                                                             *)

\* A packet of at most 255 bytes of choice is split where it was joined: getChoice and
\* getResponse of what sendChoicePacket sent.
THEOREM PacketIsRead ==
  ASSUME NEW choice \in Data, Len(choice) < 256, NEW response \in Data
  PROVE  ReadPacket(ChoicePacket(choice, response)) = <<[choice |-> choice, response |-> response]>>
<1> DEFINE sized == SizeEncoded(choice)
           data == sized \o response
           n == Len(choice)
<1>1. n \in 0 .. 255
  <2>1. Len(choice) \in Nat
    BY DataLength
  <2>2. n \in Nat /\ n < 256
    BY <2>1
  <2> HIDE DEF n
  <2> QED BY <2>2
<1>2. <<n>> \in Data /\ Len(<<n>>) = 1 /\ <<n>>[1] = n
  <2> HIDE DEF n
  <2> QED BY <1>1 DEF Data
<1>3. sized = <<n>> \o choice
  BY Zenon DEF SizeEncoded
<1>4. /\ sized \in Data /\ Len(sized) = 1 + n
      /\ Stands(<<n>>, sized, 0) /\ Stands(choice, sized, 1)
  <2> HIDE DEF n
  <2> QED BY <1>2, <1>3, DataJoined DEF n
<1>5. /\ data \in Data /\ Len(data) = 1 + n + Len(response)
      /\ Stands(sized, data, 0) /\ Stands(response, data, 1 + n)
  <2> HIDE DEF n, sized
  <2> QED BY <1>4, DataJoined
<1>6. Stands(choice, data, 1)
  <2> HIDE DEF n, sized, data
  <2>1. Stands(choice, data, 0 + 1)
    BY <1>4, <1>5, StandsBehind
  <2> QED BY <2>1
<1>7. data[1] = n
  <2> HIDE DEF sized, data
  <2>1. data[0 + 1] = sized[1] /\ sized[0 + 1] = <<n>>[1]
    <3> HIDE DEF n
    <3>1. 1 \in 1 .. Len(<<n>>) /\ 1 \in 1 .. Len(sized)
      BY <1>1, <1>2, <1>4
    <3> QED BY <1>4, <1>5, <3>1, Zenon DEF Stands
  <2> QED BY <1>2, <2>1
<1>8. Slice(data, 1, n + 1) = choice /\ Slice(data, n + 1, Len(data)) = response
  <2> DEFINE m == Len(response)
  <2>1. m \in Nat /\ n \in Nat /\ Len(data) = 1 + n + m
    BY <1>1, <1>5, DataLength
  <2> HIDE DEF sized, data
  <2>2. Slice(data, 1, 1 + n) = choice
    BY <1>5, <1>6, StandingIsSliced
  <2>3. Slice(data, 1 + n, 1 + n + m) = response
    <3>1. 1 + n \in Nat
      BY <1>1
    <3> HIDE DEF n
    <3> QED BY <1>5, <3>1, StandingIsSliced
  <2> HIDE DEF n, m
  <2>4. 1 + n = n + 1 /\ 1 + n + m = Len(data)
    BY <2>1
  <2> QED BY <2>2, <2>3, <2>4 DEF n, m
<1>9. data # <<>> /\ ~ (data[1] + 1 > Len(data))
  <2>1. Len(response) \in Nat
    BY DataLength
  <2> HIDE DEF sized, data, n
  <2> QED BY <1>1, <1>5, <1>7, <2>1
<1>10. ChoicePacket(choice, response) = data
  BY Zenon DEF ChoicePacket
<1>11. ReadPacket(data) = << [choice |-> Slice(data, 1, data[1] + 1),
                              response |-> Slice(data, data[1] + 1, Len(data))] >>
  <2> HIDE DEF data
  <2> QED BY <1>9, Zenon DEF ReadPacket
<1> HIDE DEF data, n
<1> QED BY <1>7, <1>8, <1>10, <1>11

\* Two schemas with the same header are the same.
LEMMA HeaderIsUnique ==
  ASSUME NEW one \in SizedSchema, NEW other \in SizedSchema, Header(one) = Header(other)
  PROVE  one = other
<1>1. \A schema \in SizedSchema : ReadSchema(Header(schema), 0) = schema
  <2> TAKE schema \in SizedSchema
  <2>1. Header(schema)[0 + 1] = Header(schema)[1] /\ Header(schema)[0 + 2] = Header(schema)[2]
    OBVIOUS
  <2> QED BY <2>1, HeaderIsRead
<1> QED BY <1>1

\* A typed array of some items is not longer than the items are.
LEMMA BodiesAreShorter ==
  ASSUME NEW pieces, AreEncodings(pieces), Len(pieces) > 0, NEW kind \in SizedSchema
  PROVE  /\ Bodies(pieces) \in Seq(Data) /\ FlattenSeq(Bodies(pieces)) \in Data
         /\ Header(kind) \o FlattenSeq(Bodies(pieces)) \in Data
         /\ Len(Header(kind) \o FlattenSeq(Bodies(pieces))) <= Len(FlattenSeq(pieces))
<1> DEFINE n == Len(pieces)
           bodies == Bodies(pieces)
<1>1. n \in Nat /\ n > 0 /\ pieces \in Seq(Data)
  BY DEF AreEncodings
<1>2. \A i \in 1 .. n : Body(pieces[i]) \in Data /\ Len(Body(pieces[i])) = Len(pieces[i]) - 2
                          /\ pieces[i] \in Data /\ Len(pieces[i]) \in Nat
  BY EncodingShape, Zenon DEF AreEncodings
<1>3. bodies \in Seq(Data) /\ Len(bodies) = n /\ \A i \in 1 .. n : bodies[i] = Body(pieces[i])
  BY <1>1, <1>2 DEF Bodies
<1> HIDE DEF bodies
<1>4. PICK f : Joined(pieces, f) /\ FlattenSeq(pieces) = f[n]
  BY <1>1, FlattenIsJoined
<1>5. PICK b : Joined(bodies, b) /\ FlattenSeq(bodies) = b[n]
  BY <1>3, FlattenIsJoined
<1> DEFINE K == {k \in Nat : k < n => Len(b[k + 1]) + 2 <= Len(f[k + 1])}
<1>6. ASSUME NEW i \in 1 .. n
      PROVE  /\ Len(b[i]) = Len(b[i - 1]) + Len(pieces[i]) - 2
             /\ Len(f[i]) = Len(f[i - 1]) + Len(pieces[i])
             /\ Len(b[i - 1]) \in Nat /\ Len(f[i - 1]) \in Nat /\ Len(pieces[i]) \in Nat
  <2>1. b[i - 1] \in Data /\ f[i - 1] \in Data
    <3>1. i - 1 \in 0 .. n
      BY <1>1
    <3>2. b \in [0 .. n -> Data] /\ f \in [0 .. n -> Data]
      BY <1>3, <1>4, <1>5 DEF Joined
    <3> HIDE DEF n, K
    <3> QED BY <3>1, <3>2
  <2>2. b[i] = b[i - 1] \o bodies[i] /\ f[i] = f[i - 1] \o pieces[i]
    <3>1. i \in 1 .. Len(bodies) /\ i \in 1 .. Len(pieces)
      BY <1>3
    <3> HIDE DEF n, K
    <3> QED BY <1>4, <1>5, <3>1, Zenon DEF Joined
  <2>3. bodies[i] \in Data /\ pieces[i] \in Data /\ Len(bodies[i]) = Len(pieces[i]) - 2
    BY <1>2, <1>3
  <2>4. Len(b[i]) = Len(b[i - 1]) + Len(bodies[i]) /\ Len(f[i]) = Len(f[i - 1]) + Len(pieces[i])
    BY <2>1, <2>2, <2>3, DataJoined
  <2>5. Len(b[i - 1]) \in Nat /\ Len(f[i - 1]) \in Nat /\ Len(pieces[i]) \in Nat
    BY <2>1, <2>3, DataLength
  <2> QED BY <2>3, <2>4, <2>5
<1>7. 0 \in K
  <2>1. Len(b[0]) = 0 /\ Len(f[0]) = 0
    BY <1>4, <1>5 DEF Joined
  <2>2. Len(b[1]) = Len(b[1 - 1]) + Len(pieces[1]) - 2 /\ Len(f[1]) = Len(f[1 - 1]) + Len(pieces[1])
        /\ Len(pieces[1]) \in Nat
    <3>1. 1 \in 1 .. n
      BY <1>1
    <3> HIDE DEF K, n
    <3> QED BY <1>6, <3>1
  <2>3. Len(b[1]) + 2 <= Len(f[1])
    BY <2>1, <2>2
  <2> QED BY <2>3
<1>8. ASSUME NEW k \in Nat, k \in K PROVE k + 1 \in K
  <2> SUFFICES ASSUME k + 1 < n PROVE Len(b[(k + 1) + 1]) + 2 <= Len(f[(k + 1) + 1])
    OBVIOUS
  <2> DEFINE m == k + 1
             p == Len(pieces[m + 1])
  <2>1. Len(b[m]) + 2 <= Len(f[m])
    BY <1>1, <1>8
  <2>2. m + 1 \in 1 .. n /\ (m + 1) - 1 = m
    BY <1>1
  <2> HIDE DEF m, K
  <2>3. /\ Len(b[m + 1]) = Len(b[m]) + p - 2 /\ Len(f[m + 1]) = Len(f[m]) + p
        /\ Len(b[m]) \in Nat /\ Len(f[m]) \in Nat /\ p \in Nat
    BY <1>6, <2>2
  <2> HIDE DEF p
  <2>4. Len(b[m + 1]) + 2 <= Len(f[m + 1])
    BY <2>1, <2>3
  <2> QED BY <2>4 DEF m
<1>9. Len(b[n]) + 2 <= Len(f[n])
  <2>1. n - 1 \in K
    <3> HIDE DEF K
    <3>1. Nat \subseteq K
      BY <1>7, <1>8, Induction
    <3> QED BY <1>1, <3>1
  <2>2. n - 1 < n /\ (n - 1) + 1 = n
    BY <1>1
  <2> QED BY <2>1, <2>2
<1>10. Header(kind) \in Data /\ Len(Header(kind)) = 2 /\ FlattenSeq(bodies) \in Data
  BY <1>3, HeaderIsData, FlattenIsData
<1>11. /\ Header(kind) \o FlattenSeq(bodies) \in Data
       /\ Len(Header(kind) \o FlattenSeq(bodies)) = 2 + Len(FlattenSeq(bodies))
  BY <1>10, DataJoined
<1>12. Len(FlattenSeq(bodies)) \in Nat
  BY <1>10, DataLength
<1>13. FlattenSeq(pieces) \in Data /\ Len(FlattenSeq(pieces)) \in Nat
  BY <1>1, FlattenIsData, DataLength
<1>14. 2 + Len(FlattenSeq(bodies)) <= Len(FlattenSeq(pieces))
  BY <1>4, <1>5, <1>9, <1>12, <1>13
<1> QED BY <1>3, <1>10, <1>11, <1>14 DEF bodies

\* A typed set reads back as its items, byte for byte, if they share a header
LEMMA TypedTransferIsRead ==
  ASSUME NEW schema \in SizedSchema, schema.typed, NEW items \in Seq(Encoded), Len(items) > 0,
         AreEncodings(Bytes(items)), Fits(FlattenSeq(Bytes(items))),
         \A i, j \in 1 .. Len(items) : Header(GetSchema(items[i])) = Header(GetSchema(items[j]))
  PROVE  /\ Bytes(Items(Structure(NewIterable(schema, items)))) = Bytes(items)
         /\ NewIterable(schema, items) \in Data
<1> DEFINE pieces == Bytes(items)
           n == Len(items)
           kind == ReadSchema(pieces[1], 0)
<1>1. /\ Len(pieces) = n /\ n \in Nat /\ n > 0 /\ DOMAIN items = 1 .. n
      /\ \A i \in 1 .. n : pieces[i] = GetAll(items[i]) /\ items[i] = Structure(pieces[i])
  BY BytesOfEncoded
<1>2. \A i \in 1 .. n : IsEncoding(pieces[i])
  BY <1>1, Zenon DEF AreEncodings
<1>3. \A i \in 1 .. n : ReadSchema(pieces[i], 0) \in SizedSchema
  BY <1>2, EncodingShape, Zenon
<1>4. \A i \in 1 .. n : GetSchema(items[i]) = ReadSchema(pieces[i], 0)
  <2> HIDE DEF pieces, n
  <2>1. \A bytes : GetSchema(Structure(bytes)) = ReadSchema(bytes, 0)
    BY DEF GetSchema, Structure
  <2> QED BY <1>1, <2>1
<1>5. 1 \in 1 .. n /\ kind \in SizedSchema
  BY <1>1, <1>3
<1>6. \A i \in 1 .. n : ReadSchema(pieces[i], 0) = kind
  <2> HIDE DEF pieces
  <2> TAKE i \in 1 .. n
  <2>1. Header(ReadSchema(pieces[i], 0)) = Header(kind)
    BY <1>4, <1>5
  <2> QED BY <1>3, <1>5, <2>1, HeaderIsUnique
<1>7. NewIterable(schema, items) = Encode(schema, Header(kind) \o FlattenSeq(Bodies(pieces)))
  <2> DEFINE all == [i \in DOMAIN items |-> GetAll(items[i])]
             typed == [i \in DOMAIN items |-> Slice(all[i], 2, Len(all[i]))]
  <2>1. all = pieces
    BY Zenon DEF Bytes
  <2>2. typed = Bodies(pieces)
    <3> HIDE DEF pieces, all
    <3> QED BY <1>1, <2>1, Zenon DEF Bodies, Body
  <2>3. items # <<>>
    BY <1>1
  <2>4. GetSchema(items[1]) = kind
    BY <1>4, <1>5
  <2>5. NewIterable(schema, items) = Encode(schema, Header(GetSchema(items[1])) \o FlattenSeq(typed))
    BY <2>3, Zenon DEF NewIterable
  <2> HIDE DEF typed, kind, pieces
  <2> QED BY <2>2, <2>4, <2>5
<1>8. Fits(Header(kind) \o FlattenSeq(Bodies(pieces)))
  <2> DEFINE value == Header(kind) \o FlattenSeq(Bodies(pieces))
             flat == FlattenSeq(pieces)
  <2>1. value \in Data /\ Len(value) <= Len(flat)
    <3> HIDE DEF pieces
    <3>1. AreEncodings(pieces) /\ Len(pieces) > 0
      BY <1>1 DEF pieces
    <3> HIDE DEF kind
    <3> QED BY <1>5, <3>1, BodiesAreShorter
  <2>2. flat \in Data /\ Len(flat) + 4 < Byte4
    BY DEF Fits
  <2> HIDE DEF value, flat
  <2>3. Len(value) \in Nat /\ Len(flat) \in Nat
    BY <2>1, <2>2, DataLength
  <2>4. Len(value) + 4 < Byte4
    BY <2>1, <2>2, <2>3, BufferFits
  <2> QED BY <2>1, <2>4 DEF Fits, value
<1>9. Items(Structure(NewIterable(schema, items))) = [i \in 1 .. n |-> TypedItem(pieces[i])]
  <2>1. AreEncodings(pieces) /\ Len(pieces) > 0 /\ Len(pieces) = n
    BY <1>1
  <2> HIDE DEF pieces, n, kind
  <2> QED BY <1>6, <1>7, <1>8, <2>1, TypedArrayIsRead
<1>10. ASSUME NEW i \in 1 .. n PROVE GetAll(TypedItem(pieces[i])) = pieces[i]
  <2> DEFINE piece == pieces[i]
  <2>1. Header(ReadSchema(piece, 0)) \o Body(piece) = piece
    BY <1>2, EncodingShape, Zenon
  <2> HIDE DEF piece
  <2>2. GetAll(TypedItem(piece)) = Header(ReadSchema(piece, 0)) \o Body(piece)
    BY DEF GetAll, TypedItem
  <2> QED BY <2>1, <2>2 DEF piece
<1> HIDE DEF pieces, n
<1>11. Bytes([i \in 1 .. n |-> TypedItem(pieces[i])]) = [i \in 1 .. n |-> pieces[i]]
  BY <1>10 DEF Bytes
<1>12. pieces = [i \in 1 .. n |-> pieces[i]]
  BY <1>1 DEF pieces, Bytes
<1>13. NewIterable(schema, items) \in Data
  <2> DEFINE value == Header(kind) \o FlattenSeq(Bodies(pieces))
  <2>1. value \in Data
    BY <1>8 DEF Fits
  <2> HIDE DEF value
  <2>2. Encode(schema, value) \in Data
    BY <2>1, EncodedIsLonger
  <2> QED BY <1>7, <2>2 DEF value
<1> QED BY <1>9, <1>11, <1>12, <1>13 DEF pieces

\* and so does one of several kinds, whatever headers they have.
LEMMA PlainTransferIsRead ==
  ASSUME NEW schema \in SizedSchema, ~ schema.typed, NEW items \in Seq(Encoded),
         AreEncodings(Bytes(items)), Fits(FlattenSeq(Bytes(items)))
  PROVE  /\ Bytes(Items(Structure(NewIterable(schema, items)))) = Bytes(items)
         /\ NewIterable(schema, items) \in Data
<1> DEFINE pieces == Bytes(items)
<1>1. NewIterable(schema, items) = Encode(schema, FlattenSeq(pieces))
  BY IterableIsEncoded, Zenon
<1>2. Items(Structure(NewIterable(schema, items))) = [i \in 1 .. Len(pieces) |-> Structure(pieces[i])]
  BY <1>1, ArrayIsRead, Zenon
<1>3. Len(pieces) \in Nat /\ pieces \in Seq(Data)
  BY BytesOfEncoded
<1> HIDE DEF pieces
<1>4. Bytes([i \in 1 .. Len(pieces) |-> Structure(pieces[i])]) = [i \in 1 .. Len(pieces) |-> pieces[i]]
  BY AllOfAStructure DEF Bytes
<1>5. pieces = [i \in 1 .. Len(pieces) |-> pieces[i]]
  BY <1>3
<1>6. NewIterable(schema, items) \in Data
  BY IterableIsEncoded
<1> QED BY <1>2, <1>4, <1>5, <1>6 DEF pieces

\* The parts of one side, made and short enough to be sent.
Sendable(parts) ==
  /\ parts \in Seq(Parts) /\ Len(parts) > 0
  /\ AreEncodings(Bytes(PartsOf(parts))) /\ Fits(FlattenSeq(Bytes(PartsOf(parts))))

\* Whichever set encodeTransfer takes for some parts, its items are those parts.
LEMMA TransferIsRead ==
  ASSUME NEW parts, Sendable(parts), OneHeader(parts),
         \A i \in 1 .. Len(parts) :
           GetSchema(Part(parts[i])).id = (IF parts[i].kind = "fetter" THEN Fetter.id ELSE Witness.id),
         \A i \in 1 .. Len(parts) : parts[i].kind \in {"fetter", "witness"}
  PROVE  LET sent == GetAll(EncodeTransfer(PartsOf(parts)))
         IN  sent \in Data /\ Bytes(Items(Structure(sent))) = Bytes(PartsOf(parts))
<1> DEFINE items == PartsOf(parts)
           n == Len(parts)
           ids == {GetSchema(items[i]).id : i \in DOMAIN items}
<1>1. /\ items \in Seq(Encoded) /\ Len(items) = n /\ n \in Nat /\ n > 0 /\ DOMAIN parts = 1 .. n
      /\ DOMAIN items = 1 .. n /\ \A i \in 1 .. n : items[i] = Part(parts[i])
  BY PartsAreEncoded DEF Sendable
<1>2. AreEncodings(Bytes(items)) /\ Fits(FlattenSeq(Bytes(items)))
  BY DEF Sendable
<1>3. Fetter.id = 21 /\ Witness.id = 23
  BY SchemasOfABlock, Zenon DEF IsSchema, Fetter, Witness
<1>4. EncodeTransfer(items) = Structure(NewIterable(
        CASE ids = {Witness.id} -> XyoObjectSchema.WITNESS_SET
          [] ids = {Fetter.id}  -> XyoObjectSchema.FETTER_SET
          [] OTHER              -> XyoObjectSchema.BW_FRAGMENT, items))
  BY Zenon DEF EncodeTransfer
<1>5. ASSUME NEW id, ids = {id}
      PROVE  \A i, j \in 1 .. n : Header(GetSchema(items[i])) = Header(GetSchema(items[j]))
  <2> TAKE i, j \in 1 .. n
  <2>1. GetSchema(items[i]).id = id /\ GetSchema(items[j]).id = id
    <3>1. GetSchema(items[i]).id \in ids /\ GetSchema(items[j]).id \in ids
      BY <1>1, Zenon
    <3> QED BY <1>5, <3>1, Zenon
  <2>2. GetSchema(Part(parts[i])).id = GetSchema(Part(parts[j])).id
    BY <1>1, <2>1
  <2>3. parts[i].kind = parts[j].kind
    <3> HIDE DEF items, ids
    <3> QED BY <1>3, <2>2
  <2>4. Header(GetSchema(Part(parts[i]))) = Header(GetSchema(Part(parts[j])))
    BY <1>1, <2>3, Zenon DEF OneHeader
  <2> QED BY <1>1, <2>4
<1>6. /\ XyoObjectSchema.WITNESS_SET \in SizedSchema /\ XyoObjectSchema.WITNESS_SET.typed
      /\ XyoObjectSchema.FETTER_SET \in SizedSchema /\ XyoObjectSchema.FETTER_SET.typed
      /\ XyoObjectSchema.BW_FRAGMENT \in SizedSchema /\ ~ XyoObjectSchema.BW_FRAGMENT.typed
  BY SchemasOfABlock, Zenon DEF IsSchema
<1> HIDE DEF items, ids, n
<1>7. {Witness.id} # {Fetter.id}
  BY <1>3
<1>8. CASE ids = {Witness.id}
  <2>1. EncodeTransfer(items) = Structure(NewIterable(XyoObjectSchema.WITNESS_SET, items))
    BY <1>4, <1>7, <1>8, Zenon
  <2> DEFINE bytes == NewIterable(XyoObjectSchema.WITNESS_SET, items)
  <2>2. bytes \in Data /\ Bytes(Items(Structure(bytes))) = Bytes(items)
    BY <1>1, <1>2, <1>5, <1>6, <1>8, TypedTransferIsRead
  <2> HIDE DEF bytes
  <2>3. GetAll(EncodeTransfer(items)) = bytes
    BY <2>1, AllOfAStructure DEF bytes
  <2> QED BY <2>2, <2>3 DEF items
<1>9. CASE ids = {Fetter.id}
  <2>1. EncodeTransfer(items) = Structure(NewIterable(XyoObjectSchema.FETTER_SET, items))
    BY <1>4, <1>7, <1>9, Zenon
  <2> DEFINE bytes == NewIterable(XyoObjectSchema.FETTER_SET, items)
  <2>2. bytes \in Data /\ Bytes(Items(Structure(bytes))) = Bytes(items)
    BY <1>1, <1>2, <1>5, <1>6, <1>9, TypedTransferIsRead
  <2> HIDE DEF bytes
  <2>3. GetAll(EncodeTransfer(items)) = bytes
    BY <2>1, AllOfAStructure DEF bytes
  <2> QED BY <2>2, <2>3 DEF items
<1>10. CASE ids # {Witness.id} /\ ids # {Fetter.id}
  <2>1. EncodeTransfer(items) = Structure(NewIterable(XyoObjectSchema.BW_FRAGMENT, items))
    BY <1>4, <1>10, Zenon
  <2> DEFINE bytes == NewIterable(XyoObjectSchema.BW_FRAGMENT, items)
  <2>2. bytes \in Data /\ Bytes(Items(Structure(bytes))) = Bytes(items)
    BY <1>1, <1>2, <1>6, PlainTransferIsRead
  <2> HIDE DEF bytes
  <2>3. GetAll(EncodeTransfer(items)) = bytes
    BY <2>1, AllOfAStructure DEF bytes
  <2> QED BY <2>2, <2>3 DEF items
<1> QED BY <1>8, <1>9, <1>10, Zenon

-----------------------------------------------------------------------------
(* What is added.                                                            *)

\* A ledger grows by the items of a transfer one by one and stays short enough.
LEMMA PrefixOfData ==
  ASSUME NEW have \in Seq(Data), NEW more \in Seq(Data), Fits(FlattenSeq(have \o more)),
         NEW i \in 0 .. Len(more)
  PROVE  /\ have \o SubSeq(more, 1, i) \in Seq(Data)
         /\ Fits(FlattenSeq(have \o SubSeq(more, 1, i)))
         /\ i < Len(more) => /\ Append(have \o SubSeq(more, 1, i), more[i + 1])
                                  = have \o SubSeq(more, 1, i + 1)
                             /\ more[i + 1] \in Data
<1> DEFINE n == Len(more)
           front == SubSeq(more, 1, i)
           back == SubSeq(more, i + 1, n)
           first == have \o front
<1>1. n \in Nat /\ i \in 0 .. n /\ \A j \in 1 .. n : more[j] \in Data
  OBVIOUS
<1>2. front \in Seq(Data) /\ back \in Seq(Data) /\ Len(front) = i
  BY <1>1, SubSeqProperties
<1>3. front \o back = more
  <2>1. 1 \in 1 .. n + 1 /\ i \in 1 - 1 .. n /\ n \in i .. n
    BY <1>1
  <2>2. front \o back = SubSeq(more, 1, n)
    BY <2>1, ConcatAdjacentSubSeq, Zenon
  <2>3. SubSeq(more, 1, n) = more
    BY SubSeqFull
  <2> QED BY <2>2, <2>3, Zenon
<1>4. first \in Seq(Data) /\ first \o back = have \o more
  <2> HIDE DEF front, back
  <2>1. have \o (front \o back) = (have \o front) \o back
    BY <1>2, PiecesAssociate
  <2> QED BY <1>2, <1>3, <2>1
<1>5. Fits(FlattenSeq(first))
  <2> DEFINE a == FlattenSeq(first)
             b == FlattenSeq(back)
  <2>1. FlattenSeq(have \o more) = a \o b /\ a \in Data /\ b \in Data
    <3> HIDE DEF first, back
    <3> QED BY <1>2, <1>4, FlattenConcatenated, FlattenIsData
  <2>2. Len(a \o b) = Len(a) + Len(b) /\ Len(a) \in Nat /\ Len(b) \in Nat
    <3> HIDE DEF a, b
    <3> QED BY <2>1, DataJoined, DataLength
  <2>3. Len(a \o b) + 4 < Byte4
    BY <2>1 DEF Fits
  <2> HIDE DEF a, b
  <2>4. Len(a) + 4 < Byte4
    BY <2>2, <2>3, BufferFits
  <2> QED BY <2>1, <2>4 DEF Fits, a
<1>6. ASSUME i < n
      PROVE  Append(first, more[i + 1]) = have \o SubSeq(more, 1, i + 1) /\ more[i + 1] \in Data
  <2>1. i + 1 \in 1 .. n
    BY <1>1, <1>6
  <2>2. SubSeq(more, 1, i + 1) = front \o <<more[i + 1]>>
    <3>1. 1 \in 1 .. n /\ i + 1 \in 1 .. n /\ (i + 1) - 1 = i
      BY <1>1, <2>1
    <3>2. SubSeq(more, 1, i + 1) = SubSeq(more, 1, (i + 1) - 1) \o <<more[i + 1]>>
      BY <3>1, SubSeqRecursiveSecond, Zenon
    <3> QED BY <3>1, <3>2
  <2>3. more[i + 1] \in Data
    BY <1>1, <2>1
  <2> DEFINE x == more[i + 1]
  <2> HIDE DEF x, front
  <2>4. have \o (front \o <<x>>) = (have \o front) \o <<x>>
    BY <1>2, <2>3, ConcatAssociative DEF x
  <2>5. Append(first, x) = first \o <<x>>
    <3> HIDE DEF first
    <3> QED BY <1>4
  <2> QED BY <2>2, <2>3, <2>4, <2>5 DEF x
<1> QED BY <1>4, <1>5, <1>6

\* Ledgers with any bytes.
Ledgers == [bytes : Data, sentFetter : BOOLEAN, ok : BOOLEAN]

\* addToLedger adds one element.
LEMMA AddedIsLedger ==
  ASSUME NEW l \in Ledgers, NEW item, AddElement(l.bytes, item) \in Data
  PROVE  /\ AddedToLedger(l, item) \in Ledgers
         /\ AddedToLedger(l, item).bytes = AddElement(l.bytes, item)
<1> DEFINE ok == l.ok /\ ~ IsCompleted(l.bytes)
<1>1. AddedToLedger(l, item) = [l EXCEPT !.bytes = AddElement(l.bytes, item), !.ok = ok]
  BY Zenon DEF AddedToLedger
<1>2. ok \in BOOLEAN
  OBVIOUS
<1> HIDE DEF ok
<1> QED BY <1>1, <1>2 DEF Ledgers

\* addTransfer makes of a ledger the one that newIterable makes of its items and the
\* transfer's.
LEMMA TransferIsAdded ==
  ASSUME NEW have \in Seq(Data), NEW more \in Seq(Data), Fits(FlattenSeq(have \o more)),
         NEW l \in Ledgers, l.bytes = Encode(BW, FlattenSeq(have)),
         NEW transfer, Bytes(Items(transfer)) = more
  PROVE  AddTransfer(l, transfer).bytes = Encode(BW, FlattenSeq(have \o more))
<1> DEFINE x == Items(transfer)
           n == Len(more)
<1>1. n \in Nat /\ DOMAIN more = 1 .. n
  OBVIOUS
<1>2. DOMAIN x = 1 .. n /\ \A i \in 1 .. n : GetAll(x[i]) = more[i]
  <2>1. more = [i \in DOMAIN x |-> GetAll(x[i])]
    BY Zenon DEF Bytes
  <2> HIDE DEF x
  <2> QED BY <1>1, <2>1
<1>3. Len(x) = n
  BY <1>1, <1>2, LenProperties
<1>4. PICK f : Adding(f, l, x) /\ FoldLeft(AddedToLedger, l, x) = f[n]
  <2> HIDE DEF x, n
  <2> QED BY <1>1, <1>2, <1>3, AddingIsDefined
<1> HIDE DEF x
<1>5. BW \in SizedSchema /\ ~ BW.typed
  BY SchemasOfABlock, Zenon DEF IsSchema, BW
<1> DEFINE Is(i) == f[i] \in Ledgers /\ f[i].bytes = Encode(BW, FlattenSeq(have \o SubSeq(more, 1, i)))
           K == {k \in Nat : k <= n => Is(k)}
<1>6. 0 \in K
  <2>1. SubSeq(more, 1, 0) = <<>> /\ have \o <<>> = have
    OBVIOUS
  <2>2. f[0] = l
    BY <1>4 DEF Adding
  <2>3. Is(0)
    BY <2>1, <2>2
  <2> HIDE DEF Is
  <2> QED BY <2>3
<1>7. ASSUME NEW k \in Nat, k \in K PROVE k + 1 \in K
  <2> SUFFICES ASSUME k + 1 <= n PROVE Is(k + 1)
    <3> HIDE DEF Is
    <3> QED OBVIOUS
  <2> DEFINE pieces == have \o SubSeq(more, 1, k)
             m == k + 1
  <2>1. k \in 0 .. n /\ k < n /\ m \in 1 .. n /\ m - 1 = k /\ k <= n
    BY <1>1
  <2>2. Is(k)
    <3> HIDE DEF Is
    <3> QED BY <1>7, <2>1
  <2>3. /\ pieces \in Seq(Data) /\ Fits(FlattenSeq(pieces)) /\ more[m] \in Data
        /\ Append(pieces, more[m]) = have \o SubSeq(more, 1, m)
    BY <2>1, PrefixOfData
  <2>4. f[m] = AddedToLedger(f[k], x[m])
    <3> HIDE DEF m, Is, K
    <3> QED BY <1>3, <1>4, <2>1 DEF Adding
  <2>5. f[k] \in Ledgers /\ f[k].bytes = Encode(BW, FlattenSeq(pieces))
    BY <2>2
  <2>6. GetAll(x[m]) = more[m]
    BY <1>2, <2>1
  <2> HIDE DEF pieces, m
  <2>7. AddElement(f[k].bytes, x[m]) = Encode(BW, FlattenSeq(Append(pieces, more[m])))
    <3> HIDE DEF n, Is, K
    <3>1. GetAll(x[m]) \in Data
      BY <2>3, <2>6
    <3>2. AddElement(Encode(BW, FlattenSeq(pieces)), x[m]) =
            Encode(BW, FlattenSeq(Append(pieces, GetAll(x[m]))))
      BY <1>5, <2>3, <3>1, AddedIsBuilt
    <3> QED BY <2>5, <2>6, <3>2, Zenon
  <2>8. Append(pieces, more[m]) \in Seq(Data)
    BY <2>3, AppendProperties
  <2>9. Encode(BW, FlattenSeq(Append(pieces, more[m]))) \in Data
    BY <1>5, <2>8, FlattenIsData, EncodedIsLonger
  <2>10. f[m] \in Ledgers /\ f[m].bytes = Encode(BW, FlattenSeq(Append(pieces, more[m])))
    BY <2>4, <2>5, <2>7, <2>9, AddedIsLedger
  <2> QED BY <2>3, <2>10 DEF m
<1>8. Is(n)
  <2> HIDE DEF Is
  <2>1. Nat \subseteq K
    <3> HIDE DEF K
    <3> QED BY <1>6, <1>7, Induction
  <2> QED BY <1>1, <2>1
<1>9. SubSeq(more, 1, n) = more
  BY SubSeqFull
<1> QED BY <1>4, <1>8, <1>9, Zenon DEF AddTransfer, x

\* The bytes of parts that are joined are joined.
LEMMA PartsJoined ==
  ASSUME NEW have \in Seq(Parts), NEW parts \in Seq(Parts)
  PROVE  Bytes(PartsOf(have \o parts)) = Bytes(PartsOf(have)) \o Bytes(PartsOf(parts))
<1> DEFINE whole == have \o parts
           n == Len(have)
           m == Len(parts)
           a == Bytes(PartsOf(have))
           b == Bytes(PartsOf(parts))
           c == Bytes(PartsOf(whole))
<1>1. n \in Nat /\ m \in Nat /\ whole \in Seq(Parts) /\ Len(whole) = n + m
      /\ (\A i \in 1 .. n : whole[i] = have[i]) /\ (\A i \in 1 .. m : whole[n + i] = parts[i])
  BY ConcatProperties
<1> HIDE DEF whole
<1>2. /\ a \in Seq(Data) /\ Len(a) = n /\ \A i \in 1 .. n : a[i] = GetAll(Part(have[i]))
  BY PartsAreEncoded
<1>3. /\ b \in Seq(Data) /\ Len(b) = m /\ \A i \in 1 .. m : b[i] = GetAll(Part(parts[i]))
  BY PartsAreEncoded
<1>4. /\ c \in Seq(Data) /\ Len(c) = n + m /\ \A i \in 1 .. n + m : c[i] = GetAll(Part(whole[i]))
  BY <1>1, PartsAreEncoded
<1> HIDE DEF a, b, c, n, m
<1>5. /\ a \o b \in Seq(Data) /\ Len(a \o b) = n + m
      /\ \A i \in 1 .. n + m : (a \o b)[i] = IF i <= n THEN a[i] ELSE b[i - n]
  BY <1>2, <1>3, ConcatProperties
<1>6. ASSUME NEW i \in 1 .. n + m PROVE c[i] = (a \o b)[i]
  <2>1. CASE i <= n
    BY <1>1, <1>2, <1>4, <1>5, <2>1
  <2>2. CASE ~ (i <= n)
    <3>1. i - n \in 1 .. m /\ n + (i - n) = i
      BY <1>1, <2>2
    <3>2. whole[i] = parts[i - n]
      BY <1>1, <3>1
    <3> QED BY <1>3, <1>4, <1>5, <2>2, <3>1, <3>2
  <2> QED BY <2>1, <2>2
<1>7. c = a \o b
  BY <1>4, <1>5, <1>6, SeqEqual
<1> QED BY <1>7 DEF a, b, c, whole

\* The parts of a ledger that fits into a buffer can be read back.
LEMMA HeldIsWritten ==
  ASSUME NEW parts, parts \in Seq(Parts), Len(Built(parts)) <= MaxBufferLength
  PROVE  AreEncodings(Bytes(PartsOf(parts))) /\ Fits(FlattenSeq(Bytes(PartsOf(parts))))
<1>1. BW \in SizedSchema /\ ~ BW.typed
  BY SchemasOfABlock, Zenon DEF IsSchema, BW
<1>2. PartsOf(parts) \in Seq(Encoded)
  BY PartsAreEncoded
<1> QED BY <1>1, <1>2, IterableIsShort, Zenon DEF Built

\* The parts that are to stand behind those of a ledger can be sent, and what they make
\* with it can be read.
LEMMA BackIsSendable ==
  ASSUME NEW have \in Seq(Parts), NEW parts \in Seq(Parts), Len(parts) > 0,
         Len(Built(have \o parts)) <= MaxBufferLength
  PROVE  /\ Sendable(parts)
         /\ \A i \in 1 .. Len(parts) :
              /\ GetSchema(Part(parts[i])).id =
                   (IF parts[i].kind = "fetter" THEN Fetter.id ELSE Witness.id)
              /\ parts[i].kind \in {"fetter", "witness"}
         /\ Fits(FlattenSeq(Bytes(PartsOf(have)) \o Bytes(PartsOf(parts))))
<1> DEFINE whole == have \o parts
           n == Len(have)
           m == Len(parts)
           a == Bytes(PartsOf(have))
           b == Bytes(PartsOf(parts))
<1>1. n \in Nat /\ m \in Nat /\ whole \in Seq(Parts) /\ Len(whole) = n + m
      /\ (\A i \in 1 .. m : whole[n + i] = parts[i])
  BY ConcatProperties
<1>2. AreEncodings(Bytes(PartsOf(whole))) /\ Fits(FlattenSeq(Bytes(PartsOf(whole))))
  BY <1>1, HeldIsWritten
<1>3. Bytes(PartsOf(whole)) = a \o b
  BY PartsJoined
<1>4. a \in Seq(Data) /\ Len(a) = n /\ b \in Seq(Data) /\ Len(b) = m
  BY PartsAreEncoded
<1>5. ASSUME NEW i \in 1 .. m
      PROVE  /\ GetSchema(Part(parts[i])).id =
                  (IF parts[i].kind = "fetter" THEN Fetter.id ELSE Witness.id)
             /\ parts[i].kind \in {"fetter", "witness"}
             /\ IsEncoding(b[i])
  <2>1. n + i \in 1 .. Len(whole) /\ whole[n + i] = parts[i]
    BY <1>1
  <2> HIDE DEF whole
  <2>2. /\ GetSchema(Part(whole[n + i])).id =
             (IF whole[n + i].kind = "fetter" THEN Fetter.id ELSE Witness.id)
        /\ whole[n + i].kind \in {"fetter", "witness"}
    BY <1>1, <2>1, SchemaOfPart DEF whole
  <2> HIDE DEF a, b, n, m
  <2>3. (a \o b)[n + i] = b[i] /\ n + i \in 1 .. Len(a \o b)
    BY <1>1, <1>4
  <2>4. IsEncoding(b[i])
    BY <1>2, <1>3, <2>3 DEF AreEncodings
  <2> QED BY <2>1, <2>2, <2>4
<1>6. Fits(FlattenSeq(b))
  <2> DEFINE x == FlattenSeq(a)
             y == FlattenSeq(b)
  <2> HIDE DEF a, b, whole
  <2>1. FlattenSeq(a \o b) = x \o y /\ x \in Data /\ y \in Data
    BY <1>4, FlattenConcatenated, FlattenIsData
  <2> HIDE DEF x, y
  <2>2. Len(x \o y) = Len(x) + Len(y) /\ Len(x) \in Nat /\ Len(y) \in Nat
    BY <2>1, DataJoined, DataLength
  <2>3. Len(x \o y) + 4 < Byte4
    BY <1>2, <1>3, <2>1 DEF Fits
  <2>4. Len(y) + 4 < Byte4
    BY <2>2, <2>3, BufferFits
  <2> QED BY <2>1, <2>4 DEF Fits, y
<1>7. AreEncodings(b)
  <2> HIDE DEF b
  <2> QED BY <1>4, <1>5 DEF AreEncodings
<1> QED BY <1>2, <1>3, <1>5, <1>6, <1>7 DEF Sendable

\* A ledger made of received bytes is a ledger.
LEMMA NewLedgerIsLedger ==
  ASSUME NEW bytes \in Data
  PROVE  [NewLedger EXCEPT !.bytes = bytes] \in Ledgers
         /\ [NewLedger EXCEPT !.bytes = bytes].bytes = bytes
BY DEF NewLedger, Ledgers

\* What one party sends, as one set or another, with a choice before it or without, makes
\* of the other party's ledger the one built of its parts and the received ones.
THEOREM ReceivedIsAdded ==
  ASSUME NEW have \in Seq(Parts), NEW parts \in Seq(Parts), Len(parts) > 0,
         Len(Built(have \o parts)) <= MaxBufferLength, OneHeader(parts),
         NEW choice \in {<<>>, << 1 >>}
  PROVE  LET sent == GetAll(EncodeTransfer(PartsOf(parts)))
             l == [NewLedger EXCEPT !.bytes = Built(have)]
         IN  /\ ReadPacket(ChoicePacket(choice, sent))[1].response = sent
             /\ AddTransfer(l, Structure(sent)).bytes = Built(have \o parts)
<1> DEFINE sent == GetAll(EncodeTransfer(PartsOf(parts)))
           l == [NewLedger EXCEPT !.bytes = Built(have)]
           a == Bytes(PartsOf(have))
           b == Bytes(PartsOf(parts))
<1>1. /\ Sendable(parts) /\ Fits(FlattenSeq(a \o b))
      /\ \A i \in 1 .. Len(parts) :
           /\ GetSchema(Part(parts[i])).id =
                (IF parts[i].kind = "fetter" THEN Fetter.id ELSE Witness.id)
           /\ parts[i].kind \in {"fetter", "witness"}
  BY BackIsSendable
<1>2. sent \in Data /\ Bytes(Items(Structure(sent))) = b
  BY <1>1, TransferIsRead, Zenon
<1>3. a \in Seq(Data) /\ b \in Seq(Data)
      /\ Built(have) = Encode(BW, FlattenSeq(a)) /\ Built(have) \in Data
  BY PartsAreEncoded
<1>4. l \in Ledgers /\ l.bytes = Encode(BW, FlattenSeq(a))
  BY <1>3, NewLedgerIsLedger
<1> HIDE DEF l, sent
<1>5. AddTransfer(l, Structure(sent)).bytes = Encode(BW, FlattenSeq(a \o b))
  <2> HIDE DEF a, b
  <2> QED BY <1>1, <1>2, <1>3, <1>4, TransferIsAdded
<1>6. Built(have \o parts) = Encode(BW, FlattenSeq(a \o b))
  <2>1. have \o parts \in Seq(Parts)
    OBVIOUS
  <2>2. Built(have \o parts) = Encode(BW, FlattenSeq(Bytes(PartsOf(have \o parts))))
    BY <2>1, PartsAreEncoded
  <2> QED BY <2>2, PartsJoined
<1>7. ReadPacket(ChoicePacket(choice, sent))[1].response = sent
  <2>1. choice \in Data /\ Len(choice) < 256
    <3>1. choice = <<>> \/ choice = << 1 >>
      OBVIOUS
    <3>2. CASE choice = <<>>
      BY <3>2 DEF Data
    <3>3. CASE choice = << 1 >>
      BY <3>3 DEF Data
    <3> QED BY <3>1, <3>2, <3>3
  <2>2. ReadPacket(ChoicePacket(choice, sent)) = <<[choice |-> choice, response |-> sent]>>
    BY <1>2, <2>1, PacketIsRead
  <2> QED BY <2>2
<1> QED BY <1>5, <1>6, <1>7 DEF l, sent

-----------------------------------------------------------------------------
(* The ledger.                                                               *)

\* The inductive invariant.  GrownIsBuilt alone is not inductive: that the parts fit into
\* a buffer, so that every size can be read, is needed for a step and comes from the steps
\* before; that fetters come first is needed for what is signed.
IInv == Held(added) /\ GrownIsBuilt

\* A new ledger is the one built of no parts.
LEMMA InitHolds ==
  ASSUME Init
  PROVE  IInv
<1>1. added = <<>> /\ ledger = NewLedger.bytes
  BY DEF Init
<1>2. <<>> \in Seq(Parts)
  OBVIOUS
<1>3. PartsOf(<<>>) = <<>>
  BY DEF PartsOf
<1>4. Built(<<>>) = NewLedger.bytes
  BY <1>3 DEF Built, NewLedger
<1>5. InOrder(<<>>)
  <2>1. 0 \in 0 .. MaxParties
    BY BoundAssumption
  <2> QED BY <2>1 DEF InOrder
<1>6. Len(Built(<<>>)) <= MaxBufferLength
  <2> DEFINE bytes == Encode(BW, <<>>)
  <2>1. Built(<<>>) = Encode(BW, FlattenSeq(Bytes(PartsOf(<<>>))))
    BY <1>2, PartsAreEncoded
  <2>2. Bytes(<<>>) = <<>>
    BY DEF Bytes
  <2>3. Built(<<>>) = bytes
    BY <1>3, <2>1, <2>2, FlattenOfNone
  <2>4. BW \in SizedSchema
    BY SchemasOfABlock, Zenon DEF IsSchema, BW
  <2>5. <<>> \in Data /\ Len(<<>>) = 0
    BY DEF Data
  <2>6. 0 + 4 < Byte4 /\ BestSize(0) \in {1, 2, 4}
    <3>1. 0 + 4 < Byte4
      BY BufferFits
    <3> QED BY <3>1, BestSizeFits
  <2>7. MaxBufferLength >= 6
    <3>1. Byte2 \in Nat /\ Byte2 >= 16
      BY ByteAssumption DEF Byte2
    <3>2. Byte2 * Byte2 \in Nat /\ Byte2 * Byte2 >= 16 * Byte2
      BY <3>1
    <3>3. Byte4 \in Nat /\ Byte4 >= 256
      BY <3>1, <3>2 DEF Byte4
    <3> QED BY <3>3 DEF MaxBufferLength
  <2>8. Len(bytes) = 2 + BestSize(0) + 0
    BY <2>4, <2>5, <2>6, EncodeShape
  <2> HIDE DEF bytes
  <2>9. Len(bytes) <= MaxBufferLength
    BY <2>6, <2>7, <2>8, BufferFits
  <2> QED BY <2>3, <2>9
<1> QED BY <1>1, <1>2, <1>4, <1>5, <1>6 DEF IInv, Held, GrownIsBuilt

\* addToLedger keeps the invariant
LEMMA AddingKeeps ==
  ASSUME IInv, NEW part \in Parts, AddToLedger(part)
  PROVE  IInv'
<1> DEFINE more == Append(added, part)
           pieces == Bytes(PartsOf(added))
<1>1. added \in Seq(Parts) /\ Len(Built(added)) <= MaxBufferLength /\ ledger = Built(added)
  BY DEF IInv, Held, GrownIsBuilt
<1>2. InOrder(more) /\ Len(Built(more)) <= MaxBufferLength
      /\ ledger' = AddElement(ledger, Part(part)) /\ added' = more
  BY DEF AddToLedger
<1>3. more \in Seq(Parts) /\ more = added \o <<part>> /\ <<part>> \in Seq(Parts)
  BY <1>1
<1>4. GetAll(Part(part)) \in Data /\ Bytes(PartsOf(<<part>>)) = <<GetAll(Part(part))>>
  <2>1. GetAll(Part(part)) \in Data
    BY PartIsEncoded, EncodedBytes
  <2>2. PartsOf(<<part>>) = <<Part(part)>>
    BY DEF PartsOf
  <2>3. Bytes(<<Part(part)>>) = <<GetAll(Part(part))>>
    BY DEF Bytes
  <2> QED BY <2>1, <2>2, <2>3
<1>5. pieces \in Seq(Data) /\ Built(added) = Encode(BW, FlattenSeq(pieces)) /\ Fits(FlattenSeq(pieces))
  BY <1>1, PartsAreEncoded, HeldIsWritten
<1>6. BW \in SizedSchema /\ ~ BW.typed
  BY SchemasOfABlock, Zenon DEF IsSchema, BW
<1>7. Built(more) = Encode(BW, FlattenSeq(Append(pieces, GetAll(Part(part)))))
  <2> HIDE DEF pieces, more
  <2>1. Built(more) = Encode(BW, FlattenSeq(Bytes(PartsOf(more))))
    BY <1>3, PartsAreEncoded
  <2>2. Bytes(PartsOf(more)) = pieces \o <<GetAll(Part(part))>>
    BY <1>1, <1>3, <1>4, PartsJoined DEF pieces
  <2>3. pieces \o <<GetAll(Part(part))>> = Append(pieces, GetAll(Part(part)))
    BY <1>4, <1>5
  <2> QED BY <2>1, <2>2, <2>3
<1>8. AddElement(Built(added), Part(part)) = Encode(BW, FlattenSeq(Append(pieces, GetAll(Part(part)))))
  <2> HIDE DEF pieces
  <2> QED BY <1>4, <1>5, <1>6, AddedIsBuilt
<1> HIDE DEF more
<1>9. ledger' = Built(added')
  BY <1>1, <1>2, <1>7, <1>8
<1> QED BY <1>2, <1>3, <1>9, Zenon DEF IInv, Held, GrownIsBuilt

\* and so does addTransfer.
LEMMA ReceivingKeeps ==
  ASSUME IInv, NEW parts \in Seq(Parts), Len(parts) > 0, ReceiveTransfer(parts)
  PROVE  IInv'
<1> DEFINE more == added \o parts
           sent == GetAll(EncodeTransfer(PartsOf(parts)))
           l == [NewLedger EXCEPT !.bytes = Built(added)]
<1>1. added \in Seq(Parts) /\ ledger = Built(added)
  BY DEF IInv, Held, GrownIsBuilt
<1>2. InOrder(more) /\ OneHeader(parts) /\ Len(Built(more)) <= MaxBufferLength /\ added' = more
  BY Zenon DEF ReceiveTransfer
<1>3. ASSUME NEW choice \in {<<>>, << 1 >>}
      PROVE  ReadPacket(ChoicePacket(choice, sent))[1].response = sent
             /\ AddTransfer(l, Structure(sent)).bytes = Built(more)
  BY <1>1, <1>2, ReceivedIsAdded
<1>4. \E bytes \in (IF OfKind(parts, "witness") # <<>> THEN {sent}
                    ELSE {ReadPacket(ChoicePacket(choice, sent))[1].response : choice \in {<<>>, << 1 >>}}) :
        ledger' = AddTransfer(l, Structure(bytes)).bytes
  BY <1>1, Zenon DEF ReceiveTransfer
<1> HIDE DEF sent, l, more
<1>5. ledger' = AddTransfer(l, Structure(sent)).bytes
  BY <1>3, <1>4
<1>6. ledger' = Built(added')
  BY <1>2, <1>3, <1>5
<1>7. more \in Seq(Parts)
  BY <1>1 DEF more
<1> QED BY <1>2, <1>6, <1>7, Zenon DEF IInv, Held, GrownIsBuilt

\* Every step does.
LEMMA StepKeeps ==
  ASSUME IInv, [Next]_vars
  PROVE  IInv'
<1>1. CASE UNCHANGED vars
  <2>1. ledger' = ledger /\ added' = added
    BY <1>1 DEF vars
  <2> QED BY <2>1, Zenon DEF IInv, GrownIsBuilt
<1>2. ASSUME NEW part \in Parts, AddToLedger(part) PROVE IInv'
  BY <1>2, AddingKeeps
<1>3. ASSUME NEW part \in Parts, ReceiveTransfer(<<part>>) PROVE IInv'
  <2>1. <<part>> \in Seq(Parts) /\ Len(<<part>>) > 0
    OBVIOUS
  <2> QED BY <1>3, <2>1, ReceivingKeeps
<1>4. ASSUME NEW part1 \in Parts, NEW part2 \in Parts, ReceiveTransfer(<<part1, part2>>) PROVE IInv'
  <2>1. <<part1, part2>> \in Seq(Parts) /\ Len(<<part1, part2>>) > 0
    OBVIOUS
  <2> QED BY <1>4, <2>1, ReceivingKeeps
<1> QED BY <1>1, <1>2, <1>3, <1>4, Zenon DEF Next

\* The inductive invariant holds.
THEOREM LedgerInvariant == Spec => []IInv
<1>1. Init => IInv
  BY InitHolds
<1>2. IInv /\ [Next]_vars => IInv'
  BY StepKeeps
<1> QED BY <1>1, <1>2, PTL DEF Spec

\* A ledger that grew on two nodes, item by item and transfer by transfer, has the bytes
\* of one that is built of all its items at once: for every size of its items, and over
\* every boundary of a size class, the parties' blocks have the same hash.
THEOREM LedgerIsGrownAsBuilt == Spec => []GrownIsBuilt
<1>1. IInv => GrownIsBuilt
  BY DEF IInv
<1> QED BY <1>1, LedgerInvariant, PTL

\* Whatever was put into a ledger, at both depths, is read back from it in order.
THEOREM LedgerReadsBack == Spec => []ReadsBack
<1>1. ASSUME IInv PROVE ReadsBack
  <2>1. added \in Seq(Parts) /\ Len(Built(added)) <= MaxBufferLength /\ ledger = Built(added)
    BY <1>1 DEF IInv, Held, GrownIsBuilt
  <2>2. /\ Items(Structure(ledger)) = PartsOf(added)
        /\ \A i \in 1 .. Len(added) : Items(Part(added[i])) = Leaves(added[i])
    BY <2>1, BuiltIsRead
  <2>3. /\ DOMAIN PartsOf(added) = 1 .. Len(added)
        /\ \A i \in 1 .. Len(added) : PartsOf(added)[i] = Part(added[i])
    BY <2>1, PartsAreEncoded
  <2> QED BY <2>2, <2>3, Zenon DEF ReadsBack
<1>2. IInv => ReadsBack
  BY <1>1
<1> QED BY <1>2, LedgerInvariant, PTL

\* What a party signs are the bytes of the fetters, whatever their sizes and however many
\* witnesses stand behind them.
THEOREM LedgerSignedAreTheFetters == Spec => []SignedAreTheFetters
<1>1. ASSUME IInv PROVE SignedAreTheFetters
  <2>1. Held(added) /\ ledger = Built(added)
    BY <1>1 DEF IInv, GrownIsBuilt
  <2> QED BY <2>1, SigningTheFetters DEF SignedAreTheFetters
<1>2. IInv => SignedAreTheFetters
  BY <1>1
<1> QED BY <1>2, LedgerInvariant, PTL

\* A ledger has bytes for contents, and the parts it was given are parts.
THEOREM LedgerTypeOK == Spec => []TypeOK
<1>1. ASSUME IInv PROVE TypeOK
  <2>1. added \in Seq(Parts) /\ Len(Built(added)) <= MaxBufferLength /\ ledger = Built(added)
    BY <1>1 DEF IInv, Held, GrownIsBuilt
  <2> DEFINE value == FlattenSeq(Bytes(PartsOf(added)))
             size == BestSize(Len(value))
             digits == Digits(Len(value) + size, size)
  <2>2. Fits(value) /\ ledger = Encode(BW, value)
    BY <2>1, HeldIsWritten, PartsAreEncoded
  <2>3. BW \in SizedSchema
    BY SchemasOfABlock, Zenon DEF IsSchema, BW
  <2>4. value \in Data /\ Len(value) + 4 < Byte4 /\ Len(value) \in Nat
    BY <2>2, DataLength DEF Fits
  <2>5. size \in {1, 2, 4} /\ ledger \in Data /\ Stands(digits, ledger, 2) /\ Len(digits) = size
    <3> HIDE DEF value
    <3> QED BY <2>2, <2>3, <2>4, EncodeShape
  <2>6. GetSchema(Structure(ledger)).size = size
    <3> HIDE DEF value
    <3>1. GetSchema(Structure(ledger)) = Sized(BW, value)
      BY <2>2, <2>3, EncodedIsStructure, Zenon
    <3> QED BY <2>3, <3>1 DEF Sized, SizedSchema
  <2>7. \A i \in 1 .. size : digits[i] \in 0 .. (Byte - 1)
    <3> HIDE DEF value
    <3>1. Len(value) + size \in Nat /\ size \in Nat
      BY <2>4, <2>5
    <3> QED BY <3>1, DigitsAreData
  <2> HIDE DEF digits, size, value
  <2>8. \A i \in 1 .. size : ledger[2 + i] \in 0 .. (Byte - 1)
    BY <2>5, <2>7 DEF Stands
  <2> QED BY <2>1, <2>5, <2>6, <2>8 DEF TypeOK, Data
<1>2. IInv => TypeOK
  BY <1>1
<1> QED BY <1>2, LedgerInvariant, PTL

-----------------------------------------------------------------------------
(* Reading the origins.                                                      *)

\* The ids getOriginInformationFromFetter looks for.
LEMMA OriginSchemas ==
  /\ XyoObjectSchema.INDEX.id = 3 /\ XyoObjectSchema.NEXT_PUBLIC_KEY.id = 4
  /\ XyoObjectSchema.PREVIOUS_HASH.id = 8
BY SchemasOfABlock, Zenon DEF IsSchema

\* It leaves alone what has another.
LEMMA OtherItemIsSkipped ==
  ASSUME NEW origin, NEW item, GetSchema(item).id \notin {3, 4, 8}
  PROVE  ReadOriginItem(origin, item) = origin
<1> DEFINE id == GetSchema(item).id
<1>1. id # 3 /\ id \notin {4, 8}
  OBVIOUS
<1> QED BY <1>1, OriginSchemas, Zenon DEF ReadOriginItem

\* A structure that fits into a buffer is read as what it was made of.
LEMMA ShortIsRead ==
  ASSUME NEW schema \in SizedSchema, NEW value \in Data,
         Len(Encode(schema, value)) <= MaxBufferLength
  PROVE  /\ GetSchema(Structure(Encode(schema, value))).id = schema.id
         /\ GetSchema(Structure(Encode(schema, value))).iterable = schema.iterable
         /\ GetValue(Structure(Encode(schema, value))) = value
<1>1. Fits(value)
  BY ShortIsEncoding
<1>2. /\ GetSchema(Structure(Encode(schema, value))) = Sized(schema, value)
      /\ GetValue(Structure(Encode(schema, value))) = value
  BY <1>1, EncodedIsStructure, Zenon
<1>3. Sized(schema, value).id = schema.id /\ Sized(schema, value).iterable = schema.iterable
  BY DEF Sized, SizedSchema
<1> QED BY <1>2, <1>3

\* An item fits into a buffer.
IsShort(item) == Len(GetAll(item)) <= MaxBufferLength

\* The key set of a fetter says nothing of its origin,
LEMMA KeysAreSkipped ==
  ASSUME NEW origin, IsShort(KeysOf)
  PROVE  ReadOriginItem(origin, KeysOf) = origin
<1> DEFINE items == <<PublicKey(Signer)>>
           value == FlattenSeq(Bytes(items))
           O == XyoObjectSchema
<1>1. items \in Seq(Encoded)
  BY SignerIsData, LeavesAreEncoded
<1>2. IsSchema(O.KEY_SET, 25, TRUE, FALSE) /\ O.KEY_SET \in SizedSchema /\ ~ O.KEY_SET.typed
  BY SchemasOfABlock, Zenon DEF IsSchema
<1> HIDE DEF items, O
<1>3. NewIterable(O.KEY_SET, items) = Encode(O.KEY_SET, value) /\ value \in Data
  BY <1>1, <1>2, IterableIsEncoded, Zenon
<1> HIDE DEF value
<1>4. KeysOf = Structure(Encode(O.KEY_SET, value))
  BY <1>3, Zenon DEF KeysOf, items, O
<1>5. Len(Encode(O.KEY_SET, value)) <= MaxBufferLength
  BY <1>4, AllOfAStructure DEF IsShort
<1>6. GetSchema(KeysOf).id = 25
  BY <1>2, <1>3, <1>4, <1>5, ShortIsRead, Zenon DEF IsSchema
<1>7. 25 \notin {3, 4, 8}
  OBVIOUS
<1> QED BY <1>6, <1>7, OtherItemIsSkipped, Zenon

\* nor does a heuristic.
LEMMA HeuristicIsSkipped ==
  ASSUME NEW origin, NEW h \in HeuristicKinds, IsShort(Heuristic(h))
  PROVE  ReadOriginItem(origin, Heuristic(h)) = origin
<1> DEFINE O == XyoObjectSchema
<1>1. ASSUME NEW schema, NEW id, NEW value \in Data, IsSchema(schema, id, FALSE, FALSE), id \in {19, 99},
             Heuristic(h) = Structure(Encode(schema, value))
      PROVE  ReadOriginItem(origin, Heuristic(h)) = origin
  <2>1. Len(Encode(schema, value)) <= MaxBufferLength
    BY <1>1, AllOfAStructure DEF IsShort
  <2>2. GetSchema(Heuristic(h)).id = id
    BY <1>1, <2>1, ShortIsRead, Zenon DEF IsSchema
  <2>3. id \notin {3, 4, 8}
    BY <1>1
  <2> QED BY <2>2, <2>3, OtherItemIsSkipped
<1>2. CASE h[1] = "rssi"
  <2>1. <<h[2] % Byte>> \in Data
    BY <1>2, ReadingIsData
  <2>2. Heuristic(h) = Structure(Encode(O.RSSI, <<h[2] % Byte>>))
    BY <1>2, Zenon DEF Heuristic
  <2> QED BY <1>1, <2>1, <2>2, SchemasOfABlock
<1>3. CASE h[1] # "rssi"
  <2>1. <<>> \in Data
    BY DEF Data
  <2>2. Heuristic(h) = Structure(Encode(Schema(99, FALSE, FALSE), <<>>))
    BY <1>3, Zenon DEF Heuristic
  <2> QED BY <1>1, <2>1, <2>2, SchemasOfABlock
<1> QED BY <1>2, <1>3

\* An index is read as the number it is, over all 32 bits,
LEMMA IndexIsRead ==
  ASSUME NEW origin, NEW n \in 0 .. (Byte4 - 1), IsShort(CreateIndex(n))
  PROVE  ReadOriginItem(origin, CreateIndex(n)) = [origin EXCEPT !.index = n]
<1> DEFINE value == Digits(n, 4)
           schema == XyoObjectSchema.INDEX
<1>1. n \in Nat /\ n < Byte4
  BY BufferFits
<1>2. value \in Data /\ Len(value) = 4
  BY <1>1, DigitsAreData
<1>3. IsSchema(schema, 3, FALSE, FALSE)
  BY SchemasOfABlock, Zenon
<1>4. CreateIndex(n) = Structure(Encode(schema, value))
  BY Zenon DEF CreateIndex
<1>5. Without(n, 4)[4] = 0
  BY <1>1, ClassFits
<1>6. Number(value) = n
  BY <1>1, <1>5, DigitsAreRead
<1> HIDE DEF schema
<1>7. ReadUnsigned(value) = n
  <2>1. Stands(value, value, 0)
    BY <1>2 DEF Stands
  <2>2. ReadSize(value, 4, 0) = n
    BY <1>1, <1>2, <1>6, <2>1, SizeIsRead
  <2> HIDE DEF value
  <2> QED BY <1>2, <2>2 DEF ReadUnsigned
<1> HIDE DEF value
<1>8. Len(Encode(schema, value)) <= MaxBufferLength
  BY <1>4, AllOfAStructure DEF IsShort
<1>9. GetSchema(CreateIndex(n)).id = 3 /\ GetValue(CreateIndex(n)) = value
  BY <1>2, <1>3, <1>4, <1>8, ShortIsRead, Zenon DEF IsSchema
<1>10. 3 \notin {4, 8}
  OBVIOUS
<1> QED BY <1>7, <1>9, <1>10, OriginSchemas, Zenon DEF ReadOriginItem

\* and a previous hash as the only item of its list.
LEMMA PreviousHashIsRead ==
  ASSUME NEW origin, NEW m \in Nat, IsShort(CreatePreviousHash(Hash(m)))
  PROVE  ReadOriginItem(origin, CreatePreviousHash(Hash(m)))
           = [origin EXCEPT !.previousHash = <<GetAll(Hash(m))>>]
<1> DEFINE items == <<Hash(m)>>
           value == FlattenSeq(Bytes(items))
           schema == XyoObjectSchema.PREVIOUS_HASH
           item == CreatePreviousHash(Hash(m))
<1>1. items \in Seq(Encoded) /\ Len(items) = 1 /\ items[1] = Hash(m)
  BY LeavesAreEncoded
<1>2. IsSchema(schema, 8, TRUE, FALSE) /\ schema \in SizedSchema /\ ~ schema.typed
  BY SchemasOfABlock, Zenon DEF IsSchema
<1>3. item = Structure(NewIterable(schema, items))
  BY Zenon DEF CreatePreviousHash
<1> HIDE DEF items, schema, item
<1>4. NewIterable(schema, items) = Encode(schema, value) /\ value \in Data
  BY <1>1, <1>2, IterableIsEncoded, Zenon
<1>5. Len(NewIterable(schema, items)) <= MaxBufferLength
  BY <1>3, AllOfAStructure DEF IsShort, item
<1>6. Items(item) = items
  BY <1>1, <1>2, <1>3, <1>5, IterableIsRead
<1> HIDE DEF value
<1>7. GetSchema(item).id = 8 /\ GetSchema(item).iterable
  BY <1>2, <1>3, <1>4, <1>5, ShortIsRead, Zenon DEF IsSchema
<1>8. ReadOriginItem(origin, item) = ReadOnlyItem(origin, 8, items)
  <2>1. 8 \in {4, 8} /\ 8 # 3
    OBVIOUS
  <2> QED BY <1>6, <1>7, <2>1, OriginSchemas, Zenon DEF ReadOriginItem
<1>9. ReadOnlyItem(origin, 8, items) = [origin EXCEPT !.previousHash = <<GetAll(items[1])>>]
  <2>1. ~ (Len(items) # 1) /\ 8 # 4
    BY <1>1
  <2> QED BY <1>1, <2>1, OriginSchemas, Zenon DEF ReadOnlyItem
<1> QED BY <1>1, <1>8, <1>9 DEF item

\* An origin without a next key, as it is read.
OriginOf(index, previousHash) ==
  [index |-> index, nextPublicKey |-> <<>>, previousHash |-> previousHash, ok |-> TRUE]

\* The index is among the first k items of a fetter: it is the second, if there is one,
HasIndex(origin, k) == Len(origin.index) = 1 /\ k >= 2

\* and the previous hash is behind it.
HasPrevious(origin, k) == Len(origin.previous) = 1 /\ k >= 2 + Len(origin.index)

\* What has been read of an origin behind the first k items of its fetter.
ReadUpTo(origin, k) ==
  OriginOf(IF HasIndex(origin, k) THEN origin.index[1] ELSE -1,
           IF HasPrevious(origin, k) THEN <<GetAll(Hash(origin.previous[1]))>> ELSE <<>>)

\* Origins without a next key differ in two fields.
LEMMA OriginIsUpdated ==
  /\ NoOrigin = OriginOf(-1, <<>>)
  /\ \A index, previousHash, value :
       /\ [OriginOf(index, previousHash) EXCEPT !.index = value] = OriginOf(value, previousHash)
       /\ [OriginOf(index, previousHash) EXCEPT !.previousHash = value] = OriginOf(index, value)
<1> DEFINE key == <<>>
           ok == TRUE
           Record(index, hash) ==
             [index |-> index, nextPublicKey |-> key, previousHash |-> hash, ok |-> ok]
<1>1. \A index, hash : OriginOf(index, hash) = Record(index, hash)
  BY Zenon DEF OriginOf
<1>2. NoOrigin = OriginOf(-1, <<>>)
  BY Zenon DEF NoOrigin, OriginOf
<1> HIDE DEF key, ok
<1>3. \A index, hash, value :
        /\ [Record(index, hash) EXCEPT !.index = value] = Record(value, hash)
        /\ [Record(index, hash) EXCEPT !.previousHash = value] = Record(index, value)
  OBVIOUS
<1> HIDE DEF Record
<1> QED BY <1>1, <1>2, <1>3

\* The items of a fetter that announces no key, by their place.
Placed(origin, heuristics, x) ==
  LET a == Len(origin.index)
      b == Len(origin.previous)
  IN  /\ Len(x) = 1 + a + b + Len(heuristics)
      /\ DOMAIN x = 1 .. Len(x)
      /\ x[1] = KeysOf
      /\ a = 1 => x[2] = CreateIndex(origin.index[1])
      /\ b = 1 => x[2 + a] = CreatePreviousHash(Hash(origin.previous[1]))
      /\ \A i \in 1 .. Len(heuristics) : x[1 + a + b + i] = Heuristic(heuristics[i])

\* They are the leaves of its part.
LEMMA LeavesArePlaced ==
  ASSUME NEW part \in Parts, part.kind = "fetter", part.origin.next = <<>>
  PROVE  /\ part.origin.index \in Maybe(Indices) /\ part.origin.previous \in Maybe(HashSizes)
         /\ part.heuristics \in Seq(HeuristicKinds)
         /\ Placed(part.origin, part.heuristics, Leaves(part))
<1> DEFINE origin == part.origin
           heuristics == part.heuristics
           rest == [i \in DOMAIN heuristics |-> Heuristic(heuristics[i])]
           indices == IndexItems(origin)
           hashes == PreviousItems(origin)
           a == Len(origin.index)
           b == Len(origin.previous)
           c == Len(heuristics)
<1>1. /\ origin.index \in Maybe(Indices) /\ origin.previous \in Maybe(HashSizes)
      /\ origin.next \in Maybe(KeySizes) /\ heuristics \in SeqUpTo(HeuristicKinds, MaxHeuristics)
  BY PartIsRecord
<1>2. heuristics \in Seq(HeuristicKinds) /\ c \in Nat /\ DOMAIN heuristics = 1 .. c
  <2>1. MaxHeuristics \in Nat
    BY BoundAssumption
  <2> QED BY <1>1, <2>1, UpToIsSequence
<1>3. a \in {0, 1} /\ DOMAIN origin.index = 1 .. a /\ b \in {0, 1} /\ DOMAIN origin.previous = 1 .. b
  BY <1>1, MaybeIsSequence
<1>4. OriginItems(origin) = indices \o hashes \o <<>>
  <2>1. KeyItems(origin) = <<>>
    BY DEF KeyItems
  <2> QED BY <2>1, ItemsOfAnOrigin, Zenon
<1>5. Leaves(part) = <<KeysOf>> \o ((indices \o hashes \o <<>>) \o rest)
  BY <1>4, Zenon DEF Leaves, KeysOf, Payload
<1>6. /\ indices \in Seq(Encoded) /\ Len(indices) = a /\ hashes \in Seq(Encoded) /\ Len(hashes) = b
  BY <1>1, OriginItemsAreEncoded
<1>7. a = 1 => indices[1] = CreateIndex(origin.index[1])
  BY <1>3 DEF IndexItems
<1>8. b = 1 => hashes[1] = CreatePreviousHash(Hash(origin.previous[1]))
  BY <1>3 DEF PreviousItems
<1>9. rest \in Seq(Encoded) /\ Len(rest) = c /\ \A i \in 1 .. c : rest[i] = Heuristic(heuristics[i])
  <2>1. \A i \in 1 .. c : Heuristic(heuristics[i]) \in Encoded
    BY <1>2, HeuristicIsEncoded
  <2> QED BY <1>2, <2>1
<1> DEFINE keys == KeysOf
<1>10. keys \in Encoded
  BY KeysAreEncoded
<1> HIDE DEF indices, hashes, rest, keys, a, b, c
<1>11. indices \o hashes \in Seq(Encoded) /\ Len(indices \o hashes) = a + b
       /\ (a = 1 => (indices \o hashes)[1] = indices[1])
       /\ (b = 1 => (indices \o hashes)[1 + a] = hashes[1])
  BY <1>3, <1>6, ConcatProperties
<1> DEFINE front == indices \o hashes
<1> HIDE DEF front
<1>12. front \o <<>> = front
  BY <1>11, ConcatEmptySeq DEF front
<1> DEFINE payload == front \o rest
<1>13. payload \in Seq(Encoded) /\ Len(payload) = a + b + c
       /\ (a = 1 => payload[1] = front[1]) /\ (b = 1 => payload[1 + a] = front[1 + a])
       /\ \A i \in 1 .. c : payload[a + b + i] = rest[i]
  <2>1. front \in Seq(Encoded) /\ Len(front) = a + b
    BY <1>11 DEF front
  <2>2. /\ front \o rest \in Seq(Encoded) /\ Len(front \o rest) = Len(front) + Len(rest)
        /\ \A i \in 1 .. Len(front) + Len(rest) :
             (front \o rest)[i] = IF i <= Len(front) THEN front[i] ELSE rest[i - Len(front)]
    BY <1>9, <2>1, ConcatProperties
  <2>3. ASSUME NEW i \in 1 .. c PROVE payload[a + b + i] = rest[i]
    <3>1. a + b + i \in 1 .. (a + b + c) /\ ~ (a + b + i <= a + b) /\ a + b + i - (a + b) = i
      BY <1>2, <1>3 DEF c
    <3> QED BY <1>9, <2>1, <2>2, <3>1
  <2>4. c \in Nat
    BY <1>2 DEF c
  <2>5. (a = 1 => payload[1] = front[1]) /\ (b = 1 => payload[1 + a] = front[1 + a])
    BY <1>3, <1>9, <2>1, <2>2, <2>4
  <2> QED BY <1>9, <2>1, <2>2, <2>3, <2>5
<1> HIDE DEF payload
<1>14. Leaves(part) = <<keys>> \o payload
  BY <1>5, <1>12, Zenon DEF payload, front, keys
<1>15. c \in Nat
  BY <1>2 DEF c
<1> DEFINE x == <<keys>> \o payload
<1>16. /\ x \in Seq(Encoded) /\ Len(x) = 1 + a + b + c /\ DOMAIN x = 1 .. Len(x) /\ x[1] = keys
       /\ \A j \in 1 .. (a + b + c) : x[1 + j] = payload[j]
  BY <1>3, <1>10, <1>13, <1>15
<1> HIDE DEF x
<1>17. (a = 1 => x[2] = indices[1]) /\ (b = 1 => x[2 + a] = hashes[1])
  <2>1. a = 1 => 1 \in 1 .. (a + b + c) /\ 1 + 1 = 2
    BY <1>3, <1>15
  <2>2. b = 1 => 1 + a \in 1 .. (a + b + c) /\ 1 + (1 + a) = 2 + a
    BY <1>3, <1>15
  <2> QED BY <1>11, <1>13, <1>16, <2>1, <2>2 DEF front
<1>18. ASSUME NEW i \in 1 .. c PROVE x[1 + a + b + i] = rest[i]
  <2>1. a + b + i \in 1 .. (a + b + c) /\ 1 + (a + b + i) = 1 + a + b + i
    BY <1>3, <1>15
  <2> QED BY <1>13, <1>16, <2>1
<1>19. Placed(origin, heuristics, x)
  <2> HIDE DEF origin, heuristics
  <2> QED BY <1>7, <1>8, <1>9, <1>16, <1>17, <1>18 DEF Placed, keys, a, b, c
<1> QED BY <1>1, <1>2, <1>14, <1>19 DEF x

\* Reading the items of a fetter one after the other reads what its origin put in.
LEMMA OriginIsReadUpTo ==
  ASSUME NEW part \in Parts, part.kind = "fetter", part.origin.next = <<>>,
         \A i \in 1 .. Len(Leaves(part)) : IsShort(Leaves(part)[i])
  PROVE  FoldLeft(ReadOriginItem, NoOrigin, Leaves(part))
           = ReadUpTo(part.origin, Len(Leaves(part)))
<1> DEFINE origin == part.origin
           heuristics == part.heuristics
           x == Leaves(part)
           n == Len(x)
           a == Len(origin.index)
           b == Len(origin.previous)
           c == Len(heuristics)
<1>1. /\ origin.index \in Maybe(Indices) /\ origin.previous \in Maybe(HashSizes)
      /\ heuristics \in Seq(HeuristicKinds) /\ Placed(origin, heuristics, x)
  BY LeavesArePlaced
<1>2. /\ a \in {0, 1} /\ (a = 1 => origin.index[1] \in Indices)
      /\ b \in {0, 1} /\ (b = 1 => origin.previous[1] \in HashSizes)
  BY <1>1, MaybeIsSequence
<1>3. c \in Nat /\ \A i \in 1 .. c : heuristics[i] \in HeuristicKinds
  BY <1>1
<1> HIDE DEF origin, heuristics, x
<1>4. /\ n = 1 + a + b + c /\ DOMAIN x = 1 .. n /\ x[1] = KeysOf
      /\ (a = 1 => x[2] = CreateIndex(origin.index[1]))
      /\ (b = 1 => x[2 + a] = CreatePreviousHash(Hash(origin.previous[1])))
      /\ \A i \in 1 .. c : x[1 + a + b + i] = Heuristic(heuristics[i])
  BY <1>1, Zenon DEF Placed
<1>5. \A i \in 1 .. n : IsShort(x[i])
  BY DEF x
<1> HIDE DEF n, a, b, c
<1>6. n \in Nat
  BY <1>2, <1>3, <1>4
<1>7. PICK f : Reading(f, NoOrigin, x) /\ FoldLeft(ReadOriginItem, NoOrigin, x) = f[n]
  BY <1>4, <1>6, ReadingIsDefined DEF n
<1> DEFINE read(k) == ReadUpTo(origin, k)
           K == {k \in Nat : k <= n => f[k] = read(k)}
<1>8. 0 \in K
  <2>1. read(0) = NoOrigin
    <3>1. ~ HasIndex(origin, 0) /\ ~ HasPrevious(origin, 0)
      BY <1>2 DEF HasIndex, HasPrevious, a
    <3> QED BY <3>1, OriginIsUpdated, Zenon DEF ReadUpTo
  <2>2. f[0] = NoOrigin
    BY <1>7 DEF Reading
  <2> HIDE DEF read
  <2> QED BY <2>1, <2>2
<1>9. ASSUME NEW k \in Nat, k \in K PROVE k + 1 \in K
  <2> SUFFICES ASSUME k + 1 <= n PROVE f[k + 1] = read(k + 1)
    <3> HIDE DEF read
    <3> QED OBVIOUS
  <2> DEFINE m == k + 1
  <2>1. f[k] = read(k) /\ m \in 1 .. n /\ m - 1 = k
    <3> HIDE DEF read
    <3> QED BY <1>6, <1>9
  <2>2. f[m] = ReadOriginItem(read(k), x[m])
    <3> HIDE DEF read, m, K
    <3> QED BY <1>7, <2>1 DEF Reading, n
  <2>3. IsShort(x[m])
    BY <1>5, <2>1
  <2>4. CASE m = 1
    <3>1. ReadOriginItem(read(k), x[m]) = read(k)
      <4> HIDE DEF read, m
      <4> QED BY <1>4, <2>3, <2>4, KeysAreSkipped
    <3>2. read(m) = read(k)
      <4>1. /\ ~ HasIndex(origin, k) /\ ~ HasPrevious(origin, k)
            /\ ~ HasIndex(origin, m) /\ ~ HasPrevious(origin, m)
        BY <1>2, <2>4 DEF HasIndex, HasPrevious, a
      <4> HIDE DEF m
      <4> QED BY <4>1, Zenon DEF ReadUpTo
    <3> QED BY <2>2, <3>1, <3>2
  <2>5. CASE m = 2 /\ a = 1
    <3>1. origin.index[1] \in 0 .. (Byte4 - 1)
      BY <1>2, <2>5, BoundAssumption
    <3>2. ReadOriginItem(read(k), x[m]) = [read(k) EXCEPT !.index = origin.index[1]]
      <4> HIDE DEF read, m
      <4> QED BY <1>4, <2>3, <2>5, <3>1, IndexIsRead
    <3>3. read(m) = [read(k) EXCEPT !.index = origin.index[1]]
      <4>1. HasIndex(origin, m) /\ ~ HasPrevious(origin, k) /\ ~ HasPrevious(origin, m)
        BY <2>5 DEF HasIndex, HasPrevious, a
      <4> DEFINE before == IF HasIndex(origin, k) THEN origin.index[1] ELSE -1
      <4>2. read(k) = OriginOf(before, <<>>)
        BY <4>1, Zenon DEF ReadUpTo
      <4> HIDE DEF m, before
      <4>3. read(m) = OriginOf(origin.index[1], <<>>)
        BY <4>1, Zenon DEF ReadUpTo
      <4> HIDE DEF read
      <4>4. [OriginOf(before, <<>>) EXCEPT !.index = origin.index[1]]
              = OriginOf(origin.index[1], <<>>)
        BY OriginIsUpdated
      <4> QED BY <4>2, <4>3, <4>4
    <3> QED BY <2>2, <3>2, <3>3
  <2>6. CASE m = 2 + a /\ b = 1
    <3> DEFINE size == origin.previous[1]
    <3>1. size \in Nat
      BY <1>2, <2>6, BoundAssumption
    <3>2. ReadOriginItem(read(k), x[m]) = [read(k) EXCEPT !.previousHash = <<GetAll(Hash(size))>>]
      <4> HIDE DEF read, m, size
      <4> QED BY <1>4, <2>3, <2>6, <3>1, PreviousHashIsRead DEF size
    <3>3. read(m) = [read(k) EXCEPT !.previousHash = <<GetAll(Hash(size))>>]
      <4>1. HasPrevious(origin, m) /\ (HasIndex(origin, m) <=> HasIndex(origin, k))
        BY <1>2, <2>6 DEF HasIndex, HasPrevious, a, b
      <4> DEFINE index == IF HasIndex(origin, k) THEN origin.index[1] ELSE -1
                 before == IF HasPrevious(origin, k) THEN <<GetAll(Hash(size))>> ELSE <<>>
      <4>2. read(k) = OriginOf(index, before)
        BY Zenon DEF ReadUpTo
      <4> HIDE DEF m, before
      <4>3. read(m) = OriginOf(index, <<GetAll(Hash(size))>>)
        BY <4>1, Zenon DEF ReadUpTo
      <4> HIDE DEF read, index
      <4>4. [OriginOf(index, before) EXCEPT !.previousHash = <<GetAll(Hash(size))>>]
              = OriginOf(index, <<GetAll(Hash(size))>>)
        BY OriginIsUpdated
      <4> QED BY <4>2, <4>3, <4>4
    <3> QED BY <2>2, <3>2, <3>3
  <2>7. CASE m > 1 + a + b
    <3> DEFINE i == m - (1 + a + b)
    <3>1. i \in 1 .. c /\ 1 + a + b + i = m
      BY <1>2, <1>3, <1>4, <2>1, <2>7
    <3>2. x[m] = Heuristic(heuristics[i]) /\ heuristics[i] \in HeuristicKinds
      <4> HIDE DEF i, m
      <4>1. x[1 + a + b + i] = Heuristic(heuristics[i]) /\ heuristics[i] \in HeuristicKinds
        BY <1>3, <1>4, <3>1
      <4> QED BY <3>1, <4>1
    <3>3. ReadOriginItem(read(k), x[m]) = read(k)
      <4> HIDE DEF read, m, i
      <4> QED BY <2>3, <3>2, HeuristicIsSkipped
    <3>4. read(m) = read(k)
      <4>1. /\ HasIndex(origin, m) <=> HasIndex(origin, k)
            /\ HasPrevious(origin, m) <=> HasPrevious(origin, k)
        <5>1. (a = 1 => k >= 2 /\ m >= 2) /\ (b = 1 => k >= 2 + a /\ m >= 2 + a)
          BY <1>2, <2>7
        <5> HIDE DEF m
        <5> QED BY <5>1, Zenon DEF HasIndex, HasPrevious, a, b
      <4> HIDE DEF m
      <4> QED BY <4>1, Zenon DEF ReadUpTo
    <3> QED BY <2>2, <3>3, <3>4
  <2>8. m = 1 \/ (m = 2 /\ a = 1) \/ (m = 2 + a /\ b = 1) \/ m > 1 + a + b
    BY <1>2, <2>1
  <2> QED BY <2>4, <2>5, <2>6, <2>7, <2>8
<1>10. f[n] = read(n)
  <2> HIDE DEF read
  <2>1. Nat \subseteq K
    <3> HIDE DEF K
    <3> QED BY <1>8, <1>9, Induction
  <2> QED BY <1>6, <2>1
<1> QED BY <1>7, <1>10 DEF n, x, origin

\* The leaves of a part of a ledger that fits into a buffer fit, too.
LEMMA LeavesAreShort ==
  ASSUME NEW parts, parts \in Seq(Parts), Len(Built(parts)) <= MaxBufferLength,
         NEW i \in 1 .. Len(parts)
  PROVE  \A j \in 1 .. Len(Leaves(parts[i])) : IsShort(Leaves(parts[i])[j])
<1> DEFINE part == parts[i]
<1>1. BW \in SizedSchema /\ ~ BW.typed
  BY SchemasOfABlock, Zenon DEF IsSchema, BW
<1>2. PartsOf(parts) \in Seq(Encoded) /\ Len(PartsOf(parts)) = Len(parts) /\ part \in Parts
      /\ Bytes(PartsOf(parts))[i] = GetAll(Part(part))
  BY PartsAreEncoded
<1>3. Len(GetAll(Part(part))) <= MaxBufferLength
  <2>1. Len(Bytes(PartsOf(parts))[i]) <= MaxBufferLength
    BY <1>1, <1>2, IterableIsShort, Zenon DEF Built
  <2> QED BY <1>2, <2>1
<1>4. Leaves(part) \in Seq(Encoded)
      /\ Part(part) = Structure(NewIterable(SchemaOf(part), Leaves(part)))
  BY <1>2, PartIsEncoded
<1>5. SchemaOf(part) \in SizedSchema /\ ~ SchemaOf(part).typed
  BY <1>2, SchemaOfAPart
<1> HIDE DEF part
<1>6. Len(NewIterable(SchemaOf(part), Leaves(part))) <= MaxBufferLength
  BY <1>3, <1>4, AllOfAStructure
<1>7. \A j \in 1 .. Len(Leaves(part)) : Len(Bytes(Leaves(part))[j]) <= MaxBufferLength
  BY <1>4, <1>5, <1>6, IterableIsShort
<1>8. \A j \in 1 .. Len(Leaves(part)) : Bytes(Leaves(part))[j] = GetAll(Leaves(part)[j])
  BY <1>4, BytesOfEncoded
<1> QED BY <1>7, <1>8 DEF IsShort, part

\* From a block in which no party announces a key anyone reads, for every party, the index
\* and the previous hash its origin chain put in, and -1 and nothing where it put none.
THEOREM LedgerOriginIsRead == Spec => []OriginIsRead
<1>1. ASSUME IInv PROVE OriginIsRead
  <2>1. added \in Seq(Parts) /\ InOrder(added) /\ Len(Built(added)) <= MaxBufferLength
        /\ ledger = Built(added)
    BY <1>1 DEF IInv, Held, GrownIsBuilt
  <2>2. PICK n : FettersFirst(added, n)
    BY <2>1, FettersComeFirst
  <2>3. n \in 0 .. Len(added) /\ Len(added) \in Nat /\ \A i \in 1 .. n : added[i].kind = "fetter"
    BY <2>1, <2>2 DEF FettersFirst
  <2> DEFINE fetters == SubSeq(added, 1, n)
             items == SubSeq(PartsOf(added), 1, n)
  <2>4. OfKind(added, "fetter") = fetters /\ GetId(Structure(ledger), Fetter) = items
    BY <2>1, <2>2, FettersAreFound
  <2>5. /\ fetters = [i \in 1 .. n |-> added[i]] /\ items = [i \in 1 .. n |-> PartsOf(added)[i]]
        /\ Len(fetters) = n /\ \A i \in 1 .. n : PartsOf(added)[i] = Part(added[i]) /\ added[i] \in Parts
    <3>1. PartsOf(added) \in Seq(Encoded) /\ Len(PartsOf(added)) = Len(added)
          /\ \A i \in 1 .. Len(added) : PartsOf(added)[i] = Part(added[i]) /\ added[i] \in Parts
      BY <2>1, PartsAreEncoded
    <3>2. items = [i \in 1 .. n |-> PartsOf(added)[i]]
      BY <2>3, <3>1
    <3>3. fetters = [i \in 1 .. n |-> added[i]] /\ Len(fetters) = n
      BY <2>1, <2>3
    <3>4. \A i \in 1 .. n : i \in 1 .. Len(added)
      BY <2>3
    <3> QED BY <3>1, <3>2, <3>3, <3>4
  <2> HIDE DEF fetters, items
  <2>6. \A i \in 1 .. n : Items(items[i]) = Leaves(added[i])
    <3>1. \A i \in 1 .. Len(added) : Items(Part(added[i])) = Leaves(added[i])
      BY <2>1, BuiltIsRead
    <3> QED BY <2>3, <2>5, <3>1
  <2> DEFINE read == [i \in DOMAIN items |-> FoldLeft(ReadOriginItem, NoOrigin, Items(items[i]))]
  <2>7. read = [i \in 1 .. n |-> FoldLeft(ReadOriginItem, NoOrigin, Leaves(added[i]))]
    <3>1. DOMAIN items = 1 .. n
      BY <2>5
    <3> QED BY <2>6, <3>1, Zenon
  <2>8. ASSUME NEW i \in 1 .. n, added[i].origin.next = <<>>
        PROVE  read[i].ok /\ OriginReadAs(added[i].origin, read[i])
    <3> DEFINE part == added[i]
               origin == part.origin
               x == Leaves(part)
    <3>1. part \in Parts /\ part.kind = "fetter" /\ i \in 1 .. Len(added)
      BY <2>3, <2>5
    <3>2. \A j \in 1 .. Len(x) : IsShort(x[j])
      BY <2>1, <3>1, LeavesAreShort
    <3>3. read[i] = ReadUpTo(origin, Len(x))
      <4>1. FoldLeft(ReadOriginItem, NoOrigin, x) = ReadUpTo(origin, Len(x))
        BY <2>8, <3>1, <3>2, OriginIsReadUpTo
      <4> HIDE DEF read
      <4> QED BY <2>7, <4>1
    <3>4. /\ origin.index \in Maybe(Indices) /\ origin.previous \in Maybe(HashSizes)
          /\ part.heuristics \in Seq(HeuristicKinds) /\ Placed(origin, part.heuristics, x)
      BY <2>8, <3>1, LeavesArePlaced
    <3> HIDE DEF read, x, part
    <3>5. ReadUpTo(origin, Len(x)).ok /\ OriginReadAs(origin, ReadUpTo(origin, Len(x)))
      <4> HIDE DEF origin
      <4> DEFINE a == Len(origin.index)
                 b == Len(origin.previous)
                 c == Len(part.heuristics)
      <4>1. /\ a \in {0, 1} /\ DOMAIN origin.index = 1 .. a
            /\ b \in {0, 1} /\ DOMAIN origin.previous = 1 .. b /\ c \in Nat
        BY <3>4, MaybeIsSequence
      <4>2. Len(x) = 1 + a + b + c
        BY <3>4, Zenon DEF Placed
      <4>3. (HasIndex(origin, Len(x)) <=> a = 1) /\ (HasPrevious(origin, Len(x)) <=> b = 1)
        <5> HIDE DEF x, a, b, c
        <5>1. (a = 1 => 1 + a + b + c >= 2) /\ (b = 1 => 1 + a + b + c >= 2 + a)
          BY <4>1
        <5> QED BY <4>2, <5>1, Zenon DEF HasIndex, HasPrevious, a, b
      <4>4. origin.index = <<>> <=> a = 0
        BY <3>4, MaybeIsSequence
      <4> DEFINE r == ReadUpTo(origin, Len(x))
                 hashes == [j \in DOMAIN origin.previous |-> GetAll(Hash(origin.previous[j]))]
      <4>5. r.ok /\ r.index = (IF a = 1 THEN origin.index[1] ELSE -1)
            /\ r.previousHash = (IF b = 1 THEN <<GetAll(Hash(origin.previous[1]))>> ELSE <<>>)
        <5> HIDE DEF x, a, b
        <5> QED BY <4>3 DEF ReadUpTo, OriginOf
      <4>6. hashes = (IF b = 1 THEN <<GetAll(Hash(origin.previous[1]))>> ELSE <<>>)
        <5>1. CASE b = 1
          <6>1. DOMAIN origin.previous = {1}
            BY <4>1, <5>1
          <6> QED BY <5>1, <6>1
        <5>2. CASE b = 0
          <6>1. DOMAIN origin.previous = {}
            BY <4>1, <5>2
          <6> QED BY <5>2, <6>1
        <5> QED BY <4>1, <5>1, <5>2
      <4>7. r.index = (IF origin.index = <<>> THEN -1 ELSE origin.index[1])
        BY <4>1, <4>4, <4>5
      <4> HIDE DEF r
      <4> QED BY <4>5, <4>6, <4>7, Zenon DEF OriginReadAs, r
    <3> QED BY <3>3, <3>5 DEF part
  <2>9. Len(read) = n
    <3> HIDE DEF read
    <3> QED BY <2>3, <2>7
  <2>10. /\ DOMAIN fetters = 1 .. n /\ DOMAIN read = 1 .. n
         /\ \A i \in 1 .. n : fetters[i] = added[i]
    <3> HIDE DEF read
    <3> QED BY <2>5, <2>7
  <2>11. OriginInformation(ledger) = IF \A i \in DOMAIN read : read[i].ok
                                     THEN [ok |-> TRUE, origins |-> read]
                                     ELSE [ok |-> FALSE, origins |-> <<>>]
    BY <2>4, Zenon DEF OriginInformation
  <2> HIDE DEF read
  <2>12. ASSUME \A i \in DOMAIN fetters : fetters[i].origin.next = <<>>
         PROVE  /\ OriginInformation(ledger) = [ok |-> TRUE, origins |-> read]
                /\ \A i \in DOMAIN fetters : OriginReadAs(fetters[i].origin, read[i])
    <3>1. \A i \in 1 .. n : read[i].ok /\ OriginReadAs(fetters[i].origin, read[i])
      BY <2>8, <2>10, <2>12
    <3> QED BY <2>10, <2>11, <3>1, Zenon
  <2>13. OriginsReadAs(fetters, OriginInformation(ledger))
    <3>1. [ok |-> TRUE, origins |-> read].ok /\ [ok |-> TRUE, origins |-> read].origins = read
      OBVIOUS
    <3>2. Len(fetters) = n
      BY <2>5
    <3> QED BY <2>9, <2>12, <3>1, <3>2, Zenon DEF OriginsReadAs
  <2> QED BY <2>4, <2>13, Zenon DEF OriginIsRead
<1>2. IInv => OriginIsRead
  BY <1>1
<1> QED BY <1>2, LedgerInvariant, PTL

=============================================================================
