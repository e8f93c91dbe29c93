--------------------------- MODULE StructuresProofs --------------------------
(*****************************************************************************)
(* What is written of numbers, headers, structures and arrays is read back as*)
(* it was, for every number, schema, value and item, and every Byte.         *)
(*                                                                           *)
(* The recursive functions of Structures, and those of the library's         *)
(* FlattenSeq, are defined by CHOOSE: that such a function exists is proved by*)
(* induction, over a set of numbers of which the least one outside would have*)
(* to be.                                                                    *)
(*****************************************************************************)
EXTENDS Structures, SequenceTheorems, WellFoundedInduction, TLAPS

(* Induction, numbers and headers.                                           *)

\* The order of the numbers is well-founded, in the form the library has it.
LEMMA LessThanIsWellFounded == IsWellFoundedOn({ss \in Nat \X Nat : ss[1] < ss[2]}, Nat)
BY NatLessThanWellFounded DEF OpToRel

\* A set of numbers that is not empty has a least one.
LEMMA LeastNatural ==
  ASSUME NEW T, T \subseteq Nat, T # {}
  PROVE  \E n \in T : \A m \in T : n <= m
<1> DEFINE R == {ss \in Nat \X Nat : ss[1] < ss[2]}
<1>1. PICK x \in T : \A y \in T : ~ (<<y, x>> \in R)
  <2>1. IsWellFoundedOn(R, Nat)
    BY LessThanIsWellFounded
  <2> HIDE DEF R
  <2> QED BY <2>1, WFMin
<1>2. ASSUME NEW y \in T PROVE x <= y
  <2>1. <<y, x>> \in Nat \X Nat
    OBVIOUS
  <2>2. ~ (<<y, x>>[1] < <<y, x>>[2])
    BY <1>1, <2>1
  <2> QED BY <2>2
<1> QED BY <1>2

\* Induction over the numbers, for a set where the library's theorem has an operator.
LEMMA Induction ==
  ASSUME NEW S, 0 \in S, \A n \in Nat : n \in S => n + 1 \in S
  PROVE  Nat \subseteq S
<1> DEFINE T == {n \in Nat : n \notin S}
<1>1. SUFFICES ASSUME T # {} PROVE FALSE
  OBVIOUS
<1>2. PICK n \in T : \A m \in T : n <= m
  BY <1>1, LeastNatural
<1>3. n # 0 /\ n - 1 \in Nat
  OBVIOUS
<1>4. n - 1 \notin T
  BY <1>2, <1>3
<1> QED BY <1>3, <1>4

\* The function Without chooses is the one its equation describes.
LEMMA WithoutIsDefined ==
  ASSUME NEW n, NEW size \in Nat
  PROVE  Without(n, size) = [i \in 0..size |-> IF i = 0 THEN n ELSE Without(n, size)[i - 1] \div Byte]
<1> DEFINE Def(f, k) == f = [i \in 0..k |-> IF i = 0 THEN n ELSE f[i - 1] \div Byte]
           S == {k \in Nat : \E f : Def(f, k)}
<1>1. 0 \in S
  <2> DEFINE f == [i \in 0..0 |-> n]
  <2>1. Def(f, 0)
    OBVIOUS
  <2> QED BY <2>1
<1>2. ASSUME NEW k \in Nat, k \in S PROVE k + 1 \in S
  <2>1. PICK f : Def(f, k)
    BY <1>2
  <2> DEFINE g == [i \in 0..(k + 1) |-> IF i = k + 1 THEN f[k] \div Byte ELSE f[i]]
  <2>2. Def(g, k + 1)
    BY <2>1
  <2> HIDE DEF g
  <2> QED BY <2>2
<1>3. \E f : Def(f, size)
  <2> HIDE DEF Def
  <2> QED BY <1>1, <1>2, Induction
<1>4. Def(CHOOSE f : Def(f, size), size)
  BY <1>3
<1> QED BY <1>4 DEF Without

\* So is the one Number chooses.
LEMMA NumberIsDefined ==
  ASSUME NEW bytes, Len(bytes) \in Nat
  PROVE  \E f : /\ f = [i \in 0..Len(bytes) |-> IF i = 0 THEN 0 ELSE f[i - 1] * Byte + bytes[i]]
                /\ Number(bytes) = f[Len(bytes)]
<1> DEFINE Def(f, k) == f = [i \in 0..k |-> IF i = 0 THEN 0 ELSE f[i - 1] * Byte + bytes[i]]
           S == {k \in Nat : \E f : Def(f, k)}
<1>1. 0 \in S
  <2> DEFINE f == [i \in 0..0 |-> 0]
  <2>1. Def(f, 0)
    OBVIOUS
  <2> QED BY <2>1
<1>2. ASSUME NEW k \in Nat, k \in S PROVE k + 1 \in S
  <2>1. PICK f : Def(f, k)
    BY <1>2
  <2> DEFINE g == [i \in 0..(k + 1) |-> IF i = k + 1 THEN f[k] * Byte + bytes[k + 1] ELSE f[i]]
  <2>2. Def(g, k + 1)
    BY <2>1
  <2> HIDE DEF g
  <2> QED BY <2>2
<1>3. \E f : Def(f, Len(bytes))
  <2> HIDE DEF Def
  <2> QED BY <1>1, <1>2, Induction
<1>4. Def(CHOOSE f : Def(f, Len(bytes)), Len(bytes))
  BY <1>3
<1>5. Number(bytes) = (CHOOSE f : Def(f, Len(bytes)))[Len(bytes)]
  BY DEF Number
<1> QED BY <1>4, <1>5

\* What is left of a number without its last bytes are numbers, each what is left of
\* the one before it.
LEMMA WithoutIsNatural ==
  ASSUME NEW n \in Nat, NEW size \in Nat
  PROVE  /\ Without(n, size)[0] = n
         /\ \A i \in 1..size : Without(n, size)[i] = Without(n, size)[i - 1] \div Byte
         /\ \A i \in 0..size : Without(n, size)[i] \in Nat
<1> DEFINE w == Without(n, size)
           S == {i \in Nat : i <= size => w[i] \in Nat}
<1>1. w = [i \in 0..size |-> IF i = 0 THEN n ELSE w[i - 1] \div Byte]
  BY WithoutIsDefined
<1> HIDE DEF w
<1>2. w[0] = n /\ \A i \in 1..size : w[i] = w[i - 1] \div Byte
  BY <1>1
<1>3. ASSUME NEW i \in Nat, i \in S PROVE i + 1 \in S
  <2> SUFFICES ASSUME i + 1 <= size PROVE w[i + 1] \in Nat
    OBVIOUS
  <2>1. w[i] \in Nat /\ w[i + 1] = w[i] \div Byte
    BY <1>2, <1>3
  <2> QED BY <2>1, ByteAssumption
<1>4. 0 \in S
  BY <1>2
<1>5. Nat \subseteq S
  <2> HIDE DEF S
  <2> QED BY <1>3, <1>4, Induction
<1>6. \A i \in 0..size : w[i] \in Nat
  BY <1>5
<1> QED BY <1>2, <1>6 DEF w

\* readSize of what writeUInt8 and its like wrote is the number that was written, if
\* it fits into that many bytes.
THEOREM DigitsAreRead ==
  ASSUME NEW n \in Nat, NEW size \in Nat, Without(n, size)[size] = 0
  PROVE  Number(Digits(n, size)) = n
<1> DEFINE w == Without(n, size)
           d == Digits(n, size)
<1>1. /\ w[0] = n
      /\ \A i \in 1..size : w[i] = w[i - 1] \div Byte
      /\ \A i \in 0..size : w[i] \in Nat
  BY WithoutIsNatural
<1>2. Len(d) = size /\ \A i \in 1..size : d[i] = w[size - i] % Byte
  BY DEF Digits
<1>3. w[size] = 0 OBVIOUS
<1> HIDE DEF w, d
<1>4. PICK f : f = [i \in 0..size |-> IF i = 0 THEN 0 ELSE f[i - 1] * Byte + d[i]] /\ Number(d) = f[size]
  BY <1>2, NumberIsDefined
<1> DEFINE S == {i \in Nat : i <= size => f[i] = w[size - i]}
<1>5. 0 \in S
  BY <1>4, <1>3
<1>6. ASSUME NEW i \in Nat, i \in S PROVE i + 1 \in S
  <2> SUFFICES ASSUME i + 1 <= size PROVE f[i + 1] = w[size - (i + 1)]
    OBVIOUS
  <2> DEFINE m == w[size - (i + 1)]
  <2>1. m \in Nat /\ w[size - i] = m \div Byte
    BY <1>1
  <2>2. f[i + 1] = f[i] * Byte + d[i + 1]
    BY <1>4
  <2>3. d[i + 1] = m % Byte
    BY <1>2
  <2>4. f[i] = m \div Byte
    BY <1>6, <2>1
  <2> HIDE DEF m
  <2>5. m = Byte * (m \div Byte) + (m % Byte)
    BY <2>1, ByteAssumption
  <2>6. (m \div Byte) * Byte = Byte * (m \div Byte)
    BY <2>1, ByteAssumption
  <2> QED BY <2>2, <2>3, <2>4, <2>5, <2>6 DEF m
<1>7. Nat \subseteq S
  <2> HIDE DEF S
  <2> QED BY <1>5, <1>6, Induction
<1>8. f[size] = w[0]
  BY <1>7
<1> QED BY <1>1, <1>4, <1>8 DEF d

\* A number that fits into some bytes fits without its last one into one fewer.
LEMMA DividedIsLess ==
  ASSUME NEW m \in Nat, NEW c \in Nat, m < Byte * c
  PROVE  m \div Byte \in Nat /\ m \div Byte < c
BY ByteAssumption

\* A number below a power of Byte fits into that many bytes.
LEMMA ClassFits ==
  ASSUME NEW n \in Nat
  PROVE  /\ n < Byte  => Without(n, 1)[1] = 0
         /\ n < Byte2 => Without(n, 2)[2] = 0
         /\ n < Byte4 => Without(n, 4)[4] = 0
<1>1. ASSUME n < Byte PROVE Without(n, 1)[1] = 0
  <2>1. Without(n, 1)[1] = n \div Byte
    BY WithoutIsNatural
  <2> QED BY <1>1, <2>1, ByteAssumption
<1>2. ASSUME n < Byte2 PROVE Without(n, 2)[2] = 0
  <2> DEFINE w == Without(n, 2)
  <2>1. w[0] = n /\ w[1] = w[0] \div Byte /\ w[2] = w[1] \div Byte
    BY WithoutIsNatural
  <2> HIDE DEF w
  <2>2. w[1] \in Nat /\ w[1] < Byte
    BY <1>2, <2>1, DividedIsLess, ByteAssumption DEF Byte2
  <2>3. w[2] = 0
    BY <2>1, <2>2, ByteAssumption
  <2> QED BY <2>3 DEF w
<1>3. ASSUME n < Byte4 PROVE Without(n, 4)[4] = 0
  <2> DEFINE w == Without(n, 4)
  <2>1. /\ w[0] = n /\ w[1] = w[0] \div Byte /\ w[2] = w[1] \div Byte
        /\ w[3] = w[2] \div Byte /\ w[4] = w[3] \div Byte
    BY WithoutIsNatural
  <2> HIDE DEF w
  <2>2. /\ Byte \in Nat /\ Byte2 \in Nat /\ Byte * Byte2 \in Nat
        /\ Byte4 = Byte * (Byte * Byte2) /\ Byte2 = Byte * Byte
    BY ByteAssumption DEF Byte2, Byte4
  <2>3. w[1] \in Nat /\ w[1] < Byte * Byte2
    BY <1>3, <2>1, <2>2, DividedIsLess
  <2>4. w[2] \in Nat /\ w[2] < Byte2
    BY <2>1, <2>2, <2>3, DividedIsLess
  <2>5. w[3] \in Nat /\ w[3] < Byte
    BY <2>1, <2>2, <2>4, DividedIsLess
  <2>6. w[4] = 0
    BY <2>1, <2>5, ByteAssumption
  <2> QED BY <2>6 DEF w
<1> QED BY <1>1, <1>2, <1>3

\* The class getBestSize gives a length has room for the length and its own bytes: the
\* size, which counts them too, is written whole at every boundary of a class.
LEMMA BestSizeFits ==
  ASSUME NEW n \in Nat, n + 4 < Byte4
  PROVE  /\ BestSize(n) \in {1, 2, 4}
         /\ Without(n + BestSize(n), BestSize(n))[BestSize(n)] = 0
<1>1. Byte \in Nat /\ Byte2 \in Nat /\ Byte4 \in Nat
  BY ByteAssumption DEF Byte2, Byte4
<1>2. BestSize(n) \in {1, 2, 4}
  BY <1>1 DEF BestSize
<1>3. CASE BestSize(n) = 1
  <2>1. n + 1 < Byte
    BY <1>1, <1>3 DEF BestSize
  <2> QED BY <1>3, <2>1, ClassFits
<1>4. CASE BestSize(n) = 2
  <2>1. n + 2 < Byte2
    BY <1>1, <1>4 DEF BestSize
  <2> QED BY <1>4, <2>1, ClassFits
<1>5. CASE BestSize(n) = 4
  BY <1>5, ClassFits
<1> QED BY <1>2, <1>3, <1>4, <1>5

\* Any schema that has its size, also one that is not in the catalogue.
SizedSchema == [id : 0 .. 255, iterable : BOOLEAN, typed : BOOLEAN, size : {1, 2, 4, 8}]

\* The bits of a catalogue do not mix.
LEMMA CatalogueBits ==
  ASSUME NEW k \in 0 .. 3, NEW a \in {0, 1}, NEW b \in {0, 1}
  PROVE  /\ 64 * k + 32 * a + 16 * b \in 0 .. 255
         /\ (64 * k + 32 * a + 16 * b) \div 64 = k
         /\ ((64 * k + 32 * a + 16 * b) \div 32) % 2 = a
         /\ ((64 * k + 32 * a + 16 * b) \div 16) % 2 = b
<1>1. k = 0 \/ k = 1 \/ k = 2 \/ k = 3
  OBVIOUS
<1>2. CASE a = 0 /\ b = 0
  BY <1>1, <1>2
<1>3. CASE a = 0 /\ b = 1
  BY <1>1, <1>3
<1>4. CASE a = 1 /\ b = 0
  BY <1>1, <1>4
<1>5. CASE a = 1 /\ b = 1
  BY <1>1, <1>5
<1> QED BY <1>2, <1>3, <1>4, <1>5

\* The two bytes a schema is written as are read as that schema, wherever they stand.
THEOREM HeaderIsRead ==
  ASSUME NEW schema \in SizedSchema, NEW bytes, NEW offset \in Nat,
         bytes[offset + 1] = Header(schema)[1], bytes[offset + 2] = Header(schema)[2]
  PROVE  /\ ReadSchema(bytes, offset) = schema
         /\ Header(schema) \in Seq(0 .. 255) /\ Len(Header(schema)) = 2
<1>1. PICK k \in 0 .. 3 : schema.size = Sizes[k + 1]
  BY DEF SizedSchema, Sizes
<1> DEFINE a == IF schema.iterable THEN 1 ELSE 0
           b == IF schema.typed THEN 1 ELSE 0
           c == 64 * k + 32 * a + 16 * b
<1>2. Header(schema) = <<c, schema.id>>
  <2> DEFINE bits == CHOOSE j \in 0 .. 3 : Sizes[j + 1] = schema.size
  <2>1. bits = k
    BY <1>1 DEF Sizes
  <2>2. /\ (IF schema.iterable THEN 32 ELSE 0) = 32 * a
        /\ (IF schema.typed THEN 16 ELSE 0) = 16 * b
    OBVIOUS
  <2>3. Header(schema) = << 64 * bits + (IF schema.iterable THEN 32 ELSE 0)
                                    + (IF schema.typed THEN 16 ELSE 0), schema.id >>
    BY Zenon DEF Header
  <2> HIDE DEF bits
  <2> QED BY <2>1, <2>2, <2>3
<1>3. /\ c \in 0 .. 255 /\ c \div 64 = k
      /\ (c \div 32) % 2 = a /\ (c \div 16) % 2 = b
  BY CatalogueBits
<1>4. ((c \div 32) % 2 = 1) = schema.iterable /\ ((c \div 16) % 2 = 1) = schema.typed
  BY <1>3 DEF SizedSchema
<1> HIDE DEF c
<1>5. ReadSchema(bytes, offset) = schema
  BY <1>1, <1>2, <1>3, <1>4 DEF ReadSchema, SizedSchema
<1>6. schema.id \in 0 .. 255
  BY DEF SizedSchema
<1> QED BY <1>2, <1>3, <1>5, <1>6

\* Bytes of a structure, which are bytes of a buffer.
Data == Seq(0 .. 255)

\* A piece stands in some bytes behind an offset.
Stands(piece, bytes, offset) ==
  /\ offset + Len(piece) <= Len(bytes)
  /\ \A j \in 1 .. Len(piece) : bytes[offset + j] = piece[j]

\* Some bytes have a length, and each is a byte.
LEMMA DataLength ==
  ASSUME NEW bytes \in Data
  PROVE  Len(bytes) \in Nat /\ \A i \in 1 .. Len(bytes) : bytes[i] \in 0 .. 255
<1>1. Len(bytes) \in Nat /\ bytes \in [1 .. Len(bytes) -> 0 .. 255]
  <2> DEFINE B == 0 .. 255
  <2>1. bytes \in Seq(B)
    BY DEF Data
  <2> HIDE DEF B
  <2>2. Len(bytes) \in Nat /\ bytes \in [1 .. Len(bytes) -> B]
    BY <2>1, LenProperties
  <2> QED BY <2>2 DEF B
<1> QED BY <1>1

\* Bytes that are joined stand in what they make, one behind the other.
LEMMA DataJoined ==
  ASSUME NEW a \in Data, NEW b \in Data
  PROVE  /\ a \o b \in Data /\ Len(a \o b) = Len(a) + Len(b)
         /\ Stands(a, a \o b, 0) /\ Stands(b, a \o b, Len(a))
<1>1. Len(a) \in Nat /\ Len(b) \in Nat
  BY DataLength
<1>2. /\ a \o b \in Data /\ Len(a \o b) = Len(a) + Len(b)
      /\ \A i \in 1 .. Len(a) + Len(b) : (a \o b)[i] = IF i <= Len(a) THEN a[i] ELSE b[i - Len(a)]
  BY ConcatProperties DEF Data
<1> QED BY <1>1, <1>2 DEF Stands

\* The bytes between two offsets are there, and as many as are between them.
LEMMA SliceOfData ==
  ASSUME NEW bytes \in Data, NEW from \in Nat, NEW to \in Nat, from <= to, to <= Len(bytes)
  PROVE  /\ Slice(bytes, from, to) \in Data
         /\ Len(Slice(bytes, from, to)) = to - from
         /\ \A j \in 1 .. (to - from) : Slice(bytes, from, to)[j] = bytes[from + j]
<1>1. ASSUME NEW i \in (from + 1) .. to PROVE bytes[i] \in 0 .. 255
  <2>1. i \in 1 .. Len(bytes)
    BY DataLength
  <2> QED BY <2>1, DataLength
<1>2. /\ SubSeq(bytes, from + 1, to) \in Data
      /\ Len(SubSeq(bytes, from + 1, to)) = IF from + 1 <= to THEN to - (from + 1) + 1 ELSE 0
      /\ \A i \in 1 .. to - (from + 1) + 1 : SubSeq(bytes, from + 1, to)[i] = bytes[from + 1 + i - 1]
  BY <1>1, SubSeqProperties DEF Data
<1> QED BY <1>2 DEF Slice

\* What stands behind an offset is what is sliced from there.
LEMMA StandingIsSliced ==
  ASSUME NEW bytes \in Data, NEW offset \in Nat, NEW piece \in Data, Stands(piece, bytes, offset)
  PROVE  Slice(bytes, offset, offset + Len(piece)) = piece
<1>1. Len(piece) \in Nat /\ Len(bytes) \in Nat
  BY DataLength
<1> DEFINE slice == Slice(bytes, offset, offset + Len(piece))
<1>2. /\ offset <= offset + Len(piece) /\ offset + Len(piece) <= Len(bytes)
      /\ offset + Len(piece) \in Nat /\ offset + Len(piece) - offset = Len(piece)
  BY <1>1 DEF Stands
<1>3. slice \in Data /\ Len(slice) = Len(piece) /\ \A j \in 1 .. Len(piece) : slice[j] = bytes[offset + j]
  <2> DEFINE to == offset + Len(piece)
  <2>1. /\ to \in Nat /\ offset <= to /\ to <= Len(bytes) /\ to - offset = Len(piece)
        /\ slice = Slice(bytes, offset, to)
    BY <1>2
  <2> HIDE DEF to
  <2>2. /\ Slice(bytes, offset, to) \in Data /\ Len(Slice(bytes, offset, to)) = to - offset
        /\ \A j \in 1 .. (to - offset) : Slice(bytes, offset, to)[j] = bytes[offset + j]
    BY <2>1, SliceOfData
  <2> HIDE DEF slice
  <2> QED BY <2>1, <2>2
<1> HIDE DEF slice
<1>4. \A j \in 1 .. Len(slice) : slice[j] = piece[j]
  BY <1>3 DEF Stands
<1>5. slice = piece
  BY <1>3, <1>4, SeqEqual DEF Data
<1> QED BY <1>5 DEF slice

\* The bytes of a number are bytes, and as many as there is room for.
LEMMA DigitsAreData ==
  ASSUME NEW n \in Nat, NEW size \in Nat
  PROVE  /\ Digits(n, size) \in Data /\ Len(Digits(n, size)) = size
         /\ \A i \in 1 .. size : Digits(n, size)[i] \in 0 .. (Byte - 1)
<1>1. \A i \in 1 .. size : Without(n, size)[size - i] \in Nat
  BY WithoutIsNatural
<1>2. ASSUME NEW m \in Nat PROVE m % Byte \in 0 .. (Byte - 1) /\ m % Byte \in 0 .. 255
  BY ByteAssumption
<1>3. Digits(n, size) = [i \in 1 .. size |-> Without(n, size)[size - i] % Byte]
  BY DEF Digits
<1>4. ASSUME NEW i \in 1 .. size
      PROVE  Digits(n, size)[i] \in 0 .. (Byte - 1) /\ Digits(n, size)[i] \in 0 .. 255
  <2>1. Digits(n, size)[i] = Without(n, size)[size - i] % Byte
    BY <1>3
  <2> QED BY <1>1, <1>2, <2>1
<1>5. Digits(n, size) \in [1 .. size -> 0 .. 255]
  BY <1>3, <1>4
<1>6. Digits(n, size) \in Data /\ Len(Digits(n, size)) = size
  BY <1>5, SeqDef DEF Data
<1> QED BY <1>4, <1>6

\* What stands in a piece stands where the piece does.
LEMMA StandsBehind ==
  ASSUME NEW a \in Data, NEW b \in Data, NEW c \in Data, NEW i \in Nat, NEW j \in Nat,
         Stands(a, b, i), Stands(b, c, j)
  PROVE  Stands(a, c, j + i)
<1>1. Len(a) \in Nat /\ Len(b) \in Nat /\ Len(c) \in Nat
  BY DataLength
<1>2. ASSUME NEW k \in 1 .. Len(a) PROVE c[j + i + k] = a[k]
  <2>1. i + k \in 1 .. Len(b)
    BY <1>1 DEF Stands
  <2>2. c[j + (i + k)] = b[i + k] /\ b[i + k] = a[k]
    BY <2>1 DEF Stands
  <2> QED BY <2>2, <1>1
<1> QED BY <1>1, <1>2 DEF Stands

\* The bytes encode makes: the header of the schema with the size of its class, the
\* size and the value, one behind the other.
LEMMA EncodeShape ==
  ASSUME NEW schema \in SizedSchema, NEW value \in Data, Len(value) + 4 < Byte4
  PROVE  LET size == BestSize(Len(value))
             sized == [schema EXCEPT !.size = size]
             digits == Digits(Len(value) + size, size)
             bytes == Encode(schema, value)
         IN  /\ size \in {1, 2, 4} /\ sized \in SizedSchema
             /\ bytes \in Data /\ Len(bytes) = 2 + size + Len(value)
             /\ Stands(Header(sized), bytes, 0)
             /\ Stands(digits, bytes, 2) /\ Stands(value, bytes, 2 + size)
             /\ digits \in Data /\ Len(digits) = size
             /\ Number(digits) = Len(value) + size
<1> DEFINE size == BestSize(Len(value))
           sized == [schema EXCEPT !.size = size]
           digits == Digits(Len(value) + size, size)
           header == Header(sized)
<1>1. Len(value) \in Nat
  BY DataLength
<1>2. size \in {1, 2, 4} /\ Number(digits) = Len(value) + size
  BY <1>1, BestSizeFits, DigitsAreRead
<1>3. sized \in SizedSchema
  BY <1>2 DEF SizedSchema
<1>4. header \in Data /\ Len(header) = 2
  <2>1. header[0 + 1] = header[1] /\ header[0 + 2] = header[2]
    OBVIOUS
  <2> HIDE DEF header, sized
  <2> QED BY <2>1, <1>3, HeaderIsRead DEF Data, header
<1>5. digits \in Data /\ Len(digits) = size
  BY <1>1, <1>2, DigitsAreData
<1>6. Encode(schema, value) = header \o digits \o value
  BY DEF Encode
<1> HIDE DEF header, digits, size
<1> DEFINE front == header \o digits
           bytes == front \o value
<1>7. front \in Data /\ Len(front) = 2 + size /\ Stands(header, front, 0) /\ Stands(digits, front, 2)
  BY <1>4, <1>5, DataJoined
<1>8. /\ bytes \in Data /\ Len(bytes) = 2 + size + Len(value)
      /\ Stands(front, bytes, 0) /\ Stands(value, bytes, 2 + size)
  BY <1>7, DataJoined
<1>9. Stands(header, bytes, 0) /\ Stands(digits, bytes, 2)
  <2> HIDE DEF front, bytes
  <2>1. Stands(header, bytes, 0 + 0) /\ Stands(digits, bytes, 0 + 2)
    BY <1>4, <1>5, <1>7, <1>8, StandsBehind
  <2> QED BY <2>1
<1> QED BY <1>2, <1>3, <1>5, <1>6, <1>8, <1>9 DEF header, digits, size

\* The schema encode writes for a value.
Sized(schema, value) == [schema EXCEPT !.size = BestSize(Len(value))]

\* A value is short enough that its size is not written in eight bytes, of which
\* readSize reads only four.
Fits(value) == value \in Data /\ Len(value) + 4 < Byte4

\* readSize reads the bytes of a size where they stand.
LEMMA SizeIsRead ==
  ASSUME NEW n \in Nat, NEW size \in {1, 2, 4}, Number(Digits(n, size)) = n,
         NEW bytes \in Data, NEW offset \in Nat, Stands(Digits(n, size), bytes, offset)
  PROVE  ReadSize(bytes, size, offset) = n
<1>1. Digits(n, size) \in Data /\ Len(Digits(n, size)) = size
  BY DigitsAreData
<1>2. Slice(bytes, offset, offset + size) = Digits(n, size)
  BY <1>1, StandingIsSliced
<1>3. ReadSize(bytes, size, offset) = Number(Slice(bytes, offset, offset + size))
  BY DEF ReadSize
<1> QED BY <1>2, <1>3

\* What encode wrote is read wherever it stands: schema, size and value.
LEMMA EncodedIsRead ==
  ASSUME NEW schema \in SizedSchema, NEW value, Fits(value),
         NEW bytes \in Data, NEW offset \in Nat, Stands(Encode(schema, value), bytes, offset)
  PROVE  LET size == BestSize(Len(value))
         IN  /\ ReadSchema(bytes, offset) = Sized(schema, value)
             /\ ReadSize(bytes, size, offset + 2) = Len(value) + size
             /\ Slice(bytes, offset + 2 + size, offset + 2 + size + Len(value)) = value
<1> DEFINE size == BestSize(Len(value))
           sized == Sized(schema, value)
           digits == Digits(Len(value) + size, size)
           encoded == Encode(schema, value)
<1>1. /\ value \in Data /\ Len(value) \in Nat /\ Len(value) + 4 < Byte4
  BY DataLength DEF Fits
<1>2. /\ size \in {1, 2, 4} /\ sized \in SizedSchema
      /\ encoded \in Data /\ Stands(Header(sized), encoded, 0)
      /\ Stands(digits, encoded, 2) /\ Stands(value, encoded, 2 + size)
      /\ digits \in Data /\ Len(digits) = size
      /\ Number(digits) = Len(value) + size
  BY <1>1, EncodeShape DEF Sized
<1>3. Stands(encoded, bytes, offset)
  OBVIOUS
<1> HIDE DEF sized, encoded
<1>4. Header(sized) \in Data /\ Len(Header(sized)) = 2
  <2>1. Header(sized)[0 + 1] = Header(sized)[1] /\ Header(sized)[0 + 2] = Header(sized)[2]
    OBVIOUS
  <2> QED BY <1>2, <2>1, HeaderIsRead DEF Data
<1>5. ReadSchema(bytes, offset) = sized
  <2>1. Stands(Header(sized), bytes, offset + 0)
    BY <1>2, <1>3, <1>4, StandsBehind
  <2>2. bytes[offset + 1] = Header(sized)[1] /\ bytes[offset + 2] = Header(sized)[2]
    BY <1>4, <2>1 DEF Stands
  <2> QED BY <1>2, <2>2, HeaderIsRead
<1>6. ReadSize(bytes, size, offset + 2) = Len(value) + size
  <2>1. Stands(digits, bytes, offset + 2)
    BY <1>2, <1>3, StandsBehind
  <2>2. Len(value) + size \in Nat /\ offset + 2 \in Nat
    BY <1>1, <1>2
  <2> HIDE DEF size
  <2> QED BY <1>2, <2>1, <2>2, SizeIsRead
<1>7. Slice(bytes, offset + 2 + size, offset + 2 + size + Len(value)) = value
  <2> HIDE DEF size
  <2>1. 2 + size \in Nat /\ offset + (2 + size) \in Nat /\ offset + (2 + size) = offset + 2 + size
    BY <1>2
  <2>2. Stands(value, bytes, offset + (2 + size))
    BY <1>1, <1>2, <1>3, <2>1, StandsBehind
  <2> QED BY <1>1, <2>1, <2>2, StandingIsSliced
<1> QED BY <1>5, <1>6, <1>7 DEF sized

\* A structure made of what encode wrote has the schema and the value it was made of.
THEOREM EncodedIsStructure ==
  ASSUME NEW schema \in SizedSchema, NEW value, Fits(value)
  PROVE  LET s == Structure(Encode(schema, value))
         IN  /\ GetSchema(s) = Sized(schema, value)
             /\ GetValue(s) = value
             /\ GetAll(s) = Encode(schema, value)
<1> DEFINE bytes == Encode(schema, value)
           s == Structure(bytes)
           size == BestSize(Len(value))
<1>1. bytes \in Data /\ Len(bytes) \in Nat
  BY EncodeShape, DataLength DEF Fits
<1>2. Stands(bytes, bytes, 0)
  BY <1>1 DEF Stands
<1>3. /\ ReadSchema(bytes, 0) = Sized(schema, value)
      /\ ReadSize(bytes, size, 0 + 2) = Len(value) + size
      /\ Slice(bytes, 0 + 2 + size, 0 + 2 + size + Len(value)) = value
  BY <1>1, <1>2, EncodedIsRead
<1>4. size \in {1, 2, 4} /\ Len(value) \in Nat
  BY EncodeShape, DataLength DEF Fits
<1> HIDE DEF bytes, size
<1>5. s.override = <<>> /\ s.contents = bytes
  BY DEF Structure
<1>6. GetSchema(s) = Sized(schema, value) /\ GetAll(s) = bytes
  BY <1>3, <1>5 DEF GetSchema, GetAll
<1>7. GetSchema(s).size = size
  BY <1>6 DEF Sized, SizedSchema, size
<1>8. GetValue(s) = Slice(bytes, size + 2, ReadSize(bytes, size, 2) + 2)
  <2> HIDE DEF s
  <2> QED BY <1>5, <1>7 DEF GetValue
<1>9. GetValue(s) = value
  BY <1>3, <1>4, <1>8
<1> QED BY <1>6, <1>9 DEF bytes

\* f is what an iterator collects from each offset on, where item is what it reads at
\* an offset and next where it goes on.
IsWalk(f, end, item, next) ==
  f = [o \in 0 .. end |-> IF o >= end THEN <<>> ELSE item[o] \o f[next[o]]]

\* An iterator goes on behind the offset it read at, and not behind the end.
IsForward(next, end) == \A o \in 0 .. end : o < end => next[o] \in (o + 1) .. end

\* An iterator that goes forward comes to an end: what it collects is defined.
LEMMA WalkIsDefined ==
  ASSUME NEW end \in Nat, NEW item, NEW next, IsForward(next, end)
  PROVE  \E f : IsWalk(f, end, item, next)
<1> USE DEF IsForward
<1> DEFINE Step(f, o) == IF o >= end THEN <<>> ELSE item[o] \o f[next[o]]
           Def(f, k) == f = [o \in (end - k) .. end |-> Step(f, o)]
           S == {k \in Nat : k <= end => \E f : Def(f, k)}
<1>1. 0 \in S
  <2> DEFINE f == [o \in end .. end |-> <<>>]
  <2>1. f = [o \in (end - 0) .. end |-> Step(f, o)]
    OBVIOUS
  <2> HIDE DEF f
  <2>2. \E g : Def(g, 0)
    BY <2>1
  <2> QED BY <2>2
<1>2. ASSUME NEW k \in Nat, k \in S PROVE k + 1 \in S
  <2> HIDE DEF Def
  <2> SUFFICES ASSUME k + 1 <= end PROVE \E f : Def(f, k + 1)
    OBVIOUS
  <2>1. PICK f : Def(f, k)
    BY <1>2
  <2> USE DEF Def
  <2> DEFINE lo == end - (k + 1)
             g == [o \in lo .. end |-> IF o = lo THEN item[lo] \o f[next[lo]] ELSE f[o]]
  <2>2. lo \in Nat /\ lo < end /\ next[lo] \in (lo + 1) .. end
    OBVIOUS
  <2>3. \A o \in (lo + 1) .. end : g[o] = f[o] /\ f[o] = Step(f, o)
    <3>1. \A o \in (lo + 1) .. end : o \in lo .. end /\ o # lo /\ o \in (end - k) .. end
      BY <2>2
    <3> HIDE DEF Step, lo
    <3> QED BY <2>1, <3>1
  <2>4. ASSUME NEW o \in (lo + 1) .. end PROVE Step(f, o) = Step(g, o)
    <3>1. CASE o >= end
      BY <3>1
    <3>2. CASE o < end
      <4>1. next[o] \in (lo + 1) .. end
        BY <2>2, <3>2
      <4>2. f[next[o]] = g[next[o]]
        BY <2>3, <4>1
      <4> QED BY <4>2
    <3> QED BY <2>2, <3>1, <3>2
  <2>5. g[lo] = Step(g, lo)
    <3>1. g[next[lo]] = f[next[lo]]
      BY <2>2, <2>3
    <3>2. g[lo] = item[lo] \o f[next[lo]]
      <4>1. lo \in lo .. end
        BY <2>2
      <4> HIDE DEF lo
      <4> QED BY <4>1
    <3>3. ~ (lo >= end)
      BY <2>2
    <3> HIDE DEF g, lo
    <3> QED BY <3>1, <3>2, <3>3
  <2>6. g = [o \in lo .. end |-> Step(g, o)]
    <3>1. \A o \in lo .. end : g[o] = Step(g, o)
      <4> TAKE o \in lo .. end
      <4>1. CASE o = lo
        BY <2>5, <4>1
      <4>2. CASE o # lo
        <5>1. o \in (lo + 1) .. end
          BY <2>2, <4>2
        <5> HIDE DEF g, Step
        <5> QED BY <2>3, <2>4, <5>1
      <4> QED BY <4>1, <4>2
    <3>2. g = [o \in lo .. end |-> g[o]]
      OBVIOUS
    <3> HIDE DEF g, Step
    <3> QED BY <3>1, <3>2
  <2> HIDE DEF g, Step
  <2>7. Def(g, k + 1)
    BY <2>6
  <2> QED BY <2>7
<1>3. Nat \subseteq S
  <2> HIDE DEF S
  <2> QED BY <1>1, <1>2, Induction
<1>4. PICK f : Def(f, end)
  <2> HIDE DEF Def
  <2> QED BY <1>3
<1>5. f = [o \in 0 .. end |-> Step(f, o)]
  <2>1. end - end = 0
    OBVIOUS
  <2> HIDE DEF Step
  <2> QED BY <1>4, <2>1
<1> QED BY <1>5 DEF IsWalk

\* An iterator passes over the elements of x one after the other, at the offsets of at.
Passes(item, next, x, at, end) ==
  \A i \in 1 .. Len(x) : at[i] < end /\ item[at[i]] = <<x[i]>> /\ next[at[i]] = at[i + 1]

\* An iterator that passes over the elements of x collects x.
LEMMA WalkCollects ==
  ASSUME NEW end \in Nat, NEW item, NEW next, NEW f, IsWalk(f, end, item, next),
         NEW S, NEW x \in Seq(S), NEW at \in [1 .. Len(x) + 1 -> 0 .. end], at[Len(x) + 1] = end,
         Passes(item, next, x, at, end)
  PROVE  f[at[1]] = x
<1>1. f[end] = <<>> /\ \A o \in 0 .. end : o < end => f[o] = item[o] \o f[next[o]]
  <2> DEFINE Step(o) == IF o >= end THEN <<>> ELSE item[o] \o f[next[o]]
  <2>1. f = [o \in 0 .. end |-> Step(o)]
    BY DEF IsWalk
  <2> HIDE DEF Step
  <2>2. \A o \in 0 .. end : f[o] = Step(o)
    BY <2>1, Zenon
  <2>3. Step(end) = <<>> /\ end \in 0 .. end
    BY DEF Step
  <2>4. ASSUME NEW o \in 0 .. end, o < end PROVE Step(o) = item[o] \o f[next[o]]
    <3>1. ~ (o >= end)
      BY <2>4
    <3> QED BY <3>1, Zenon DEF Step
  <2> QED BY <2>2, <2>3, <2>4, Zenon
<1> DEFINE n == Len(x)
           T == {j \in Nat : j <= n => f[at[n + 1 - j]] = SubSeq(x, n + 1 - j, n)}
<1>2. n \in Nat
  BY LenProperties
<1>3. \A i \in 1 .. n : at[i] \in 0 .. end /\ at[i] < end /\ item[at[i]] = <<x[i]>> /\ next[at[i]] = at[i + 1]
  BY <1>2 DEF Passes
<1> HIDE DEF n
<1>4. 0 \in T
  <2>1. SubSeq(x, n + 1, n) = <<>>
    BY <1>2, SubSeqEmpty
  <2>2. n + 1 - 0 = n + 1
    BY <1>2
  <2>3. at[n + 1] = end
    BY DEF n
  <2> QED BY <1>2, <1>1, <2>1, <2>2, <2>3
<1>5. ASSUME NEW j \in Nat, j \in T PROVE j + 1 \in T
  <2> SUFFICES ASSUME j + 1 <= n PROVE f[at[n - j]] = SubSeq(x, n - j, n)
    BY <1>2
  <2> DEFINE i == n - j
  <2>1. i \in 1 .. n /\ i + 1 = n + 1 - j
    BY <1>2
  <2>2. f[at[i + 1]] = SubSeq(x, i + 1, n)
    <3>1. f[at[n + 1 - j]] = SubSeq(x, n + 1 - j, n)
      BY <1>5, <1>2
    <3> QED BY <2>1, <3>1
  <2>3. at[i] \in 0 .. end /\ at[i] < end /\ item[at[i]] = <<x[i]>> /\ next[at[i]] = at[i + 1]
    BY <1>3, <2>1
  <2> HIDE DEF i
  <2>4. f[at[i]] = <<x[i]>> \o SubSeq(x, i + 1, n)
    BY <2>2, <2>3, <1>1
  <2>5. SubSeq(x, i, n) = <<x[i]>> \o SubSeq(x, i + 1, n)
    BY <1>2, <2>1, SubSeqRecursiveFirst DEF n
  <2> QED BY <2>4, <2>5 DEF i
<1>6. Nat \subseteq T
  <2> HIDE DEF T
  <2> QED BY <1>4, <1>5, Induction
<1>7. f[at[1]] = SubSeq(x, 1, n)
  <2>1. n \in T
    BY <1>2, <1>6
  <2>2. n + 1 - n = 1 /\ n <= n
    BY <1>2
  <2>3. f[at[n + 1 - n]] = SubSeq(x, n + 1 - n, n)
    BY <2>1, <2>2
  <2> HIDE DEF T
  <2> QED BY <2>2, <2>3
<1> QED BY <1>7, SubSeqFull DEF n

\* The function the library's FlattenSeq chooses is the one its equation describes.
LEMMA FlattenIsDefined ==
  ASSUME NEW pieces, Len(pieces) \in Nat \ {0}
  PROVE  \E f : /\ f = [i \in 1 .. Len(pieces) |-> IF i = 1 THEN pieces[i] ELSE f[i - 1] \o pieces[i]]
                /\ FlattenSeq(pieces) = f[Len(pieces)]
<1> DEFINE Step(f, i) == IF i = 1 THEN pieces[i] ELSE f[i - 1] \o pieces[i]
           Def(f, k) == f = [i \in 1 .. k |-> Step(f, i)]
           S == {k \in Nat : \E f : Def(f, k)}
<1>1. 0 \in S
  <2> DEFINE f == [i \in 1 .. 0 |-> <<>>]
  <2>1. Def(f, 0)
    OBVIOUS
  <2> QED BY <2>1
<1>2. ASSUME NEW k \in Nat, k \in S PROVE k + 1 \in S
  <2>1. PICK f : Def(f, k)
    BY <1>2
  <2> DEFINE g == [i \in 1 .. (k + 1) |-> IF i = k + 1 THEN Step(f, i) ELSE f[i]]
  <2>2. \A i \in 1 .. k : g[i] = f[i] /\ f[i] = Step(f, i)
    <3> HIDE DEF Step
    <3> QED BY <2>1
  <2>3. g[k + 1] = Step(f, k + 1)
    <3> HIDE DEF Step
    <3> QED OBVIOUS
  <2>4. g = [i \in 1 .. (k + 1) |-> g[i]]
    OBVIOUS
  <2> HIDE DEF g
  <2>5. \A i \in 1 .. (k + 1) : Step(g, i) = Step(f, i)
    <3> TAKE i \in 1 .. (k + 1)
    <3>1. CASE i = 1
      BY <3>1
    <3>2. CASE i # 1
      <4>1. i - 1 \in 1 .. k
        BY <3>2
      <4> QED BY <2>2, <4>1
    <3> QED BY <3>1, <3>2
  <2> HIDE DEF Step
  <2>6. \A i \in 1 .. (k + 1) : g[i] = Step(g, i)
    BY <2>2, <2>3, <2>5
  <2>7. Def(g, k + 1)
    BY <2>4, <2>6
  <2> HIDE DEF Def
  <2> QED BY <2>7
<1>3. \E f : Def(f, Len(pieces))
  <2> HIDE DEF Def
  <2> QED BY <1>1, <1>2, Induction
<1>4. Def(CHOOSE f : Def(f, Len(pieces)), Len(pieces))
  BY <1>3
<1>5. FlattenSeq(pieces) = (CHOOSE f : Def(f, Len(pieces)))[Len(pieces)]
  BY DEF FlattenSeq
<1> QED BY <1>4, <1>5

\* flat is what is there of some pieces when one after the other is appended.
Joined(pieces, flat) ==
  /\ flat \in [0 .. Len(pieces) -> Data]
  /\ flat[0] = <<>>
  /\ \A i \in 1 .. Len(pieces) : flat[i] = flat[i - 1] \o pieces[i]

\* FlattenSeq appends piece after piece.
LEMMA FlattenIsJoined ==
  ASSUME NEW pieces \in Seq(Data)
  PROVE  \E flat : Joined(pieces, flat) /\ FlattenSeq(pieces) = flat[Len(pieces)]
<1> DEFINE n == Len(pieces)
<1>1. n \in Nat /\ \A i \in 1 .. n : pieces[i] \in Data
  BY LenProperties
<1>2. <<>> \in Data
  BY DEF Data
<1>3. CASE n = 0
  <2> DEFINE flat == [i \in 0 .. 0 |-> <<>>]
  <2>1. pieces = <<>>
    BY <1>3
  <2>2. FlattenSeq(pieces) = <<>>
    BY <1>3, <2>1 DEF FlattenSeq
  <2>3. Joined(pieces, flat) /\ flat[0] = <<>>
    BY <1>2, <1>3 DEF Joined
  <2> HIDE DEF flat
  <2> QED BY <1>3, <2>2, <2>3
<1>4. CASE n # 0
  <2>1. PICK f : /\ f = [i \in 1 .. n |-> IF i = 1 THEN pieces[i] ELSE f[i - 1] \o pieces[i]]
                 /\ FlattenSeq(pieces) = f[n]
    BY <1>1, <1>4, FlattenIsDefined
  <2>2. f[1] = pieces[1] /\ \A i \in 2 .. n : f[i] = f[i - 1] \o pieces[i]
    <3>1. 1 \in 1 .. n /\ \A i \in 2 .. n : i \in 1 .. n /\ i # 1
      BY <1>1, <1>4
    <3> HIDE DEF n
    <3> QED BY <2>1, <3>1
  <2> DEFINE flat == [i \in 0 .. n |-> IF i = 0 THEN <<>> ELSE f[i]]
             S == {i \in Nat : i <= n => flat[i] \in Data}
  <2>3. /\ flat[0] = <<>> /\ flat[n] = f[n]
        /\ \A i \in 1 .. n : flat[i] = f[i]
    BY <1>1, <1>4
  <2>4. flat = [i \in 0 .. n |-> flat[i]]
    OBVIOUS
  <2> HIDE DEF flat
  <2>5. \A i \in 1 .. n : flat[i] = flat[i - 1] \o pieces[i]
    <3> TAKE i \in 1 .. n
    <3>1. CASE i = 1
      <4>1. <<>> \o pieces[1] = pieces[1]
        BY <1>1, <1>2, <3>1, ConcatEmptySeq DEF Data
      <4>2. flat[i] = pieces[1] /\ flat[i - 1] = <<>>
        BY <2>2, <2>3, <3>1
      <4> QED BY <3>1, <4>1, <4>2
    <3>2. CASE i # 1
      <4>1. i \in 2 .. n /\ i - 1 \in 1 .. n
        BY <1>1, <3>2
      <4> QED BY <2>2, <2>3, <4>1
    <3> QED BY <3>1, <3>2
  <2>6. 0 \in S
    BY <1>2, <2>3
  <2>7. ASSUME NEW i \in Nat, i \in S PROVE i + 1 \in S
    <3> SUFFICES ASSUME i + 1 <= n PROVE flat[i + 1] \in Data
      OBVIOUS
    <3> DEFINE m == i + 1
    <3>1. m \in 1 .. n /\ m - 1 = i /\ i <= n
      BY <1>1
    <3>2. flat[i] \in Data
      BY <2>7, <3>1
    <3> HIDE DEF m
    <3>3. flat[m] = flat[m - 1] \o pieces[m] /\ pieces[m] \in Data
      BY <1>1, <2>5, <3>1
    <3>4. flat[m] \in Data
      BY <3>1, <3>2, <3>3, DataJoined
    <3> QED BY <3>4 DEF m
  <2>8. Nat \subseteq S
    <3> HIDE DEF S
    <3> QED BY <2>6, <2>7, Induction
  <2>9. \A i \in 0 .. n : flat[i] \in Data
    BY <1>1, <2>8
  <2>10. flat \in [0 .. n -> Data]
    BY <2>4, <2>9
  <2> QED BY <2>1, <2>3, <2>5, <2>10 DEF Joined
<1> QED BY <1>3, <1>4

\* What is there of some pieces does not depend on what comes behind them.
LEMMA JoinedIsUnique ==
  ASSUME NEW pieces, NEW longer, Len(pieces) \in Nat, Len(longer) \in Nat, Len(pieces) <= Len(longer),
         \A i \in 1 .. Len(pieces) : longer[i] = pieces[i],
         NEW flat, Joined(pieces, flat), NEW other, Joined(longer, other)
  PROVE  \A i \in 0 .. Len(pieces) : other[i] = flat[i]
<1> DEFINE n == Len(pieces)
           S == {i \in Nat : i <= n => other[i] = flat[i]}
<1>1. /\ flat[0] = <<>> /\ \A i \in 1 .. n : flat[i] = flat[i - 1] \o pieces[i]
      /\ other[0] = <<>> /\ \A i \in 1 .. n : other[i] = other[i - 1] \o pieces[i]
  <2>1. \A i \in 1 .. n : i \in 1 .. Len(longer) /\ longer[i] = pieces[i]
    OBVIOUS
  <2>2. \A i \in 1 .. n : other[i] = other[i - 1] \o pieces[i]
    BY <2>1 DEF Joined
  <2> QED BY <2>2 DEF Joined
<1>2. 0 \in S
  BY <1>1
<1>3. ASSUME NEW i \in Nat, i \in S PROVE i + 1 \in S
  <2> DEFINE m == i + 1
  <2> SUFFICES ASSUME m <= n PROVE other[m] = flat[m]
    OBVIOUS
  <2>1. m \in 1 .. n /\ m - 1 = i /\ i <= n
    OBVIOUS
  <2>2. other[i] = flat[i]
    BY <1>3, <2>1
  <2> HIDE DEF m, n
  <2> QED BY <1>1, <2>1, <2>2
<1>4. Nat \subseteq S
  <2> HIDE DEF S
  <2> QED BY <1>2, <1>3, Induction
<1> QED BY <1>4

\* Joining sequences of pieces is associative.
LEMMA PiecesAssociate ==
  ASSUME NEW a \in Seq(Data), NEW b \in Seq(Data), NEW c \in Seq(Data)
  PROVE  a \o (b \o c) = (a \o b) \o c
<1> DEFINE left == (a \o b) \o c
           right == a \o (b \o c)
           n == Len(a) + Len(b) + Len(c)
<1>1. left \in Seq(Data) /\ right \in Seq(Data) /\ Len(left) = n /\ Len(right) = n
  BY ConcatProperties
<1>2. \A i \in 1 .. n : left[i] = right[i]
  BY ConcatProperties
<1> HIDE DEF left, right, n
<1>3. left = right
  BY <1>1, <1>2, SeqEqual
<1> QED BY <1>3 DEF left, right

\* Joining bytes is associative.
LEMMA BytesAssociate ==
  ASSUME NEW a \in Data, NEW b \in Data, NEW c \in Data
  PROVE  a \o (b \o c) = (a \o b) \o c
<1> DEFINE B == 0 .. 255
           left == (a \o b) \o c
           right == a \o (b \o c)
           n == Len(a) + Len(b) + Len(c)
<1>1. a \in Seq(B) /\ b \in Seq(B) /\ c \in Seq(B)
  BY DEF Data
<1> HIDE DEF B
<1>2. left \in Seq(B) /\ right \in Seq(B) /\ Len(left) = n /\ Len(right) = n
  BY <1>1, ConcatProperties
<1>3. \A i \in 1 .. n : left[i] = right[i]
  BY <1>1, ConcatProperties
<1> HIDE DEF left, right, n
<1>4. left = right
  BY <1>2, <1>3, SeqEqual
<1> QED BY <1>4 DEF left, right

\* One more piece stands behind those that were there.
LEMMA FlattenAppended ==
  ASSUME NEW pieces \in Seq(Data), NEW piece \in Data
  PROVE  /\ FlattenSeq(pieces) \in Data
         /\ FlattenSeq(Append(pieces, piece)) = FlattenSeq(pieces) \o piece
<1> DEFINE longer == Append(pieces, piece)
           n == Len(pieces)
<1>1. /\ n \in Nat /\ longer \in Seq(Data) /\ Len(longer) = n + 1
      /\ \A i \in 1 .. n : longer[i] = pieces[i]
      /\ longer[n + 1] = piece
  <2>1. n \in Nat /\ longer \in Seq(Data) /\ Len(longer) = n + 1
    BY AppendProperties, LenProperties
  <2>2. \A i \in 1 .. n + 1 : longer[i] = IF i <= n THEN pieces[i] ELSE piece
    BY <2>1, AppendProperties
  <2> HIDE DEF longer, n
  <2> QED BY <2>1, <2>2
<1>2. PICK flat : Joined(pieces, flat) /\ FlattenSeq(pieces) = flat[n]
  BY FlattenIsJoined
<1> HIDE DEF longer
<1>3. PICK other : Joined(longer, other) /\ FlattenSeq(longer) = other[n + 1]
  BY <1>1, FlattenIsJoined
<1>4. other[n] = flat[n]
  BY <1>1, <1>2, <1>3, JoinedIsUnique
<1>5. other[n + 1] = other[n] \o piece
  <2> DEFINE m == n + 1
  <2>1. m \in 1 .. Len(longer) /\ m - 1 = n
    BY <1>1
  <2> HIDE DEF m, n
  <2>2. other[m] = other[m - 1] \o longer[m]
    BY <1>3, <2>1 DEF Joined
  <2>3. longer[m] = piece
    BY <1>1 DEF m
  <2> QED BY <2>1, <2>2, <2>3 DEF m
<1>6. flat[n] \in Data
  BY <1>1, <1>2 DEF Joined
<1> QED BY <1>2, <1>3, <1>4, <1>5, <1>6 DEF longer

\* Every piece stands behind the ones before it.
LEMMA PiecesStand ==
  ASSUME NEW pieces \in Seq(Data), NEW flat, Joined(pieces, flat)
  PROVE  \A i \in 1 .. Len(pieces) :
            /\ Stands(pieces[i], flat[Len(pieces)], Len(flat[i - 1]))
            /\ Len(flat[i]) = Len(flat[i - 1]) + Len(pieces[i])
<1> DEFINE n == Len(pieces)
<1>1. /\ n \in Nat
      /\ \A i \in 1 .. n : pieces[i] \in Data /\ flat[i - 1] \in Data /\ flat[i] = flat[i - 1] \o pieces[i]
      /\ \A i \in 0 .. n : flat[i] \in Data
  BY LenProperties DEF Joined
<1> HIDE DEF n
<1> TAKE i \in 1 .. Len(pieces)
<1>2. i \in 1 .. n
  BY DEF n
<1>3. Stands(pieces[i], flat[i], Len(flat[i - 1])) /\ Len(flat[i]) = Len(flat[i - 1]) + Len(pieces[i])
  BY <1>1, <1>2, DataJoined
<1> DEFINE S == {k \in Nat : i + k <= n => Stands(pieces[i], flat[i + k], Len(flat[i - 1]))}
<1>4. 0 \in S
  BY <1>3, <1>2
<1>5. ASSUME NEW k \in Nat, k \in S PROVE k + 1 \in S
  <2> DEFINE m == i + (k + 1)
  <2> SUFFICES ASSUME m <= n PROVE Stands(pieces[i], flat[m], Len(flat[i - 1]))
    OBVIOUS
  <2>1. m \in 1 .. n /\ m - 1 = i + k /\ i + k <= n /\ m \in 0 .. n /\ m - 1 \in 0 .. n
    BY <1>2, <1>1
  <2>2. Stands(pieces[i], flat[m - 1], Len(flat[i - 1]))
    BY <1>5, <2>1
  <2> HIDE DEF m
  <2>3. flat[m] = flat[m - 1] \o pieces[m] /\ pieces[m] \in Data /\ flat[m - 1] \in Data /\ flat[m] \in Data
    BY <1>1, <2>1
  <2>4. Stands(flat[m - 1], flat[m], 0)
    BY <2>3, DataJoined
  <2>5. Len(flat[i - 1]) \in Nat /\ pieces[i] \in Data
    BY <1>1, <1>2, DataLength
  <2>6. Stands(pieces[i], flat[m], 0 + Len(flat[i - 1]))
    BY <2>2, <2>3, <2>4, <2>5, StandsBehind
  <2> QED BY <2>5, <2>6
<1>6. Nat \subseteq S
  <2> HIDE DEF S
  <2> QED BY <1>4, <1>5, Induction
<1>7. n - i \in S /\ i + (n - i) = n /\ n <= n
  <2>1. n - i \in Nat /\ i + (n - i) = n
    BY <1>1, <1>2
  <2> HIDE DEF S
  <2> QED BY <1>6, <2>1, <1>1
<1>8. Stands(pieces[i], flat[n], Len(flat[i - 1]))
  BY <1>7
<1> QED BY <1>3, <1>8 DEF n

\* Bytes are the digits of a natural number.
LEMMA NumberIsNatural ==
  ASSUME NEW bytes \in Data
  PROVE  Number(bytes) \in Nat
<1> DEFINE n == Len(bytes)
<1>1. n \in Nat /\ \A i \in 1 .. n : bytes[i] \in Nat
  <2>1. n \in Nat /\ \A i \in 1 .. n : bytes[i] \in 0 .. 255
    BY DataLength
  <2>2. 0 .. 255 \subseteq Nat
    OBVIOUS
  <2> HIDE DEF n
  <2> QED BY <2>1, <2>2, Zenon
<1>2. PICK f : /\ f = [i \in 0 .. n |-> IF i = 0 THEN 0 ELSE f[i - 1] * Byte + bytes[i]]
               /\ Number(bytes) = f[n]
  BY <1>1, NumberIsDefined
<1>3. f[0] = 0 /\ \A i \in 1 .. n : f[i] = f[i - 1] * Byte + bytes[i]
  <2> HIDE DEF n
  <2>1. \A i \in 0 .. n : f[i] = IF i = 0 THEN 0 ELSE f[i - 1] * Byte + bytes[i]
    BY <1>2, Zenon
  <2>2. 0 \in 0 .. n /\ \A i \in 1 .. n : i \in 0 .. n /\ i # 0
    BY <1>1
  <2> QED BY <2>1, <2>2, Zenon
<1> DEFINE S == {i \in Nat : i <= n => f[i] \in Nat}
<1>4. 0 \in S
  BY <1>3
<1> HIDE DEF n
<1>5. ASSUME NEW i \in Nat, i \in S PROVE i + 1 \in S
  <2> DEFINE m == i + 1
  <2> SUFFICES ASSUME m <= n PROVE f[m] \in Nat
    OBVIOUS
  <2>1. m \in 1 .. n /\ m - 1 = i /\ i <= n
    BY <1>1
  <2>2. f[i] \in Nat
    BY <1>5, <2>1
  <2> HIDE DEF m
  <2>3. f[m] = f[i] * Byte + bytes[m] /\ bytes[m] \in Nat
    BY <1>1, <1>3, <2>1
  <2> QED BY <2>2, <2>3, ByteAssumption
<1>6. Nat \subseteq S
  <2> HIDE DEF S
  <2> QED BY <1>4, <1>5, Induction
<1> QED BY <1>1, <1>2, <1>6

\* What encode makes of a value that is short enough to be read back.
IsEncoding(bytes) ==
  \E schema \in SizedSchema : \E value : Fits(value) /\ bytes = Encode(schema, value)

\* The bytes a typed array has of an item: without the header.
Body(bytes) == Slice(bytes, 2, Len(bytes))

\* A header has two bytes.
LEMMA HeaderIsData ==
  ASSUME NEW schema \in SizedSchema
  PROVE  Header(schema) \in Data /\ Len(Header(schema)) = 2
<1>1. Header(schema)[0 + 1] = Header(schema)[1] /\ Header(schema)[0 + 2] = Header(schema)[2]
  OBVIOUS
<1> QED BY <1>1, HeaderIsRead DEF Data

\* A schema is read where its header stands.
LEMMA HeaderStands ==
  ASSUME NEW schema \in SizedSchema, NEW bytes, NEW offset \in Nat,
         Stands(Header(schema), bytes, offset)
  PROVE  ReadSchema(bytes, offset) = schema
<1>1. Len(Header(schema)) = 2
  BY HeaderIsData
<1>2. bytes[offset + 1] = Header(schema)[1] /\ bytes[offset + 2] = Header(schema)[2]
  BY <1>1 DEF Stands
<1> QED BY <1>2, HeaderIsRead

\* What encode made is a header and the rest, which begins with a size.
LEMMA EncodingShape ==
  ASSUME NEW bytes, IsEncoding(bytes)
  PROVE  LET schema == ReadSchema(bytes, 0)
         IN  /\ schema \in SizedSchema /\ schema.size \in {1, 2, 4}
             /\ bytes \in Data /\ Len(bytes) \in Nat /\ Len(bytes) >= 2 + schema.size
             /\ Body(bytes) \in Data /\ Len(Body(bytes)) = Len(bytes) - 2
             /\ Stands(Body(bytes), bytes, 2)
             /\ Header(schema) \o Body(bytes) = bytes
<1>1. PICK kind, value : kind \in SizedSchema /\ Fits(value) /\ bytes = Encode(kind, value)
  BY DEF IsEncoding
<1> DEFINE size == BestSize(Len(value))
           sized == Sized(kind, value)
           header == Header(sized)
           body == Body(bytes)
<1>2. /\ size \in {1, 2, 4} /\ sized \in SizedSchema
      /\ bytes \in Data /\ Len(bytes) = 2 + size + Len(value) /\ Len(value) \in Nat
      /\ Stands(header, bytes, 0)
  BY <1>1, EncodeShape, DataLength DEF Fits, Sized
<1>3. sized.size = size
  BY DEF Sized, SizedSchema
<1> HIDE DEF size, sized
<1>4. ReadSchema(bytes, 0) = sized
  BY <1>2, HeaderStands
<1>5. /\ body \in Data /\ Len(body) = Len(bytes) - 2
      /\ \A j \in 1 .. Len(body) : body[j] = bytes[2 + j]
  <2>1. 2 \in Nat /\ Len(bytes) \in Nat /\ 2 <= Len(bytes) /\ Len(bytes) <= Len(bytes)
    BY <1>2
  <2>2. /\ body \in Data /\ Len(body) = Len(bytes) - 2
        /\ \A j \in 1 .. (Len(bytes) - 2) : body[j] = bytes[2 + j]
    BY <1>2, <2>1, SliceOfData DEF Body
  <2> HIDE DEF body
  <2> QED BY <2>2
<1>6. header \in Data /\ Len(header) = 2
  BY <1>2, HeaderIsData
<1> HIDE DEF header, body
<1>7. /\ header \o body \in Data /\ Len(header \o body) = 2 + Len(body)
      /\ Stands(header, header \o body, 0) /\ Stands(body, header \o body, 2)
  BY <1>5, <1>6, DataJoined
<1>8. header \o body = bytes
  <2> DEFINE joined == header \o body
  <2>1. ASSUME NEW j \in 1 .. Len(joined) PROVE joined[j] = bytes[j]
    <3>1. Len(joined) = Len(bytes) /\ Len(joined) = 2 + Len(body) /\ Len(body) \in Nat
      BY <1>2, <1>5, <1>7
    <3>2. CASE j <= 2
      <4>1. j \in 1 .. 2
        BY <3>2
      <4>2. joined[0 + j] = header[j] /\ bytes[0 + j] = header[j]
        BY <1>2, <1>6, <1>7, <4>1 DEF Stands
      <4> QED BY <4>1, <4>2
    <3>3. CASE j > 2
      <4>1. j - 2 \in 1 .. Len(body) /\ 2 + (j - 2) = j
        BY <3>1, <3>3
      <4>2. joined[2 + (j - 2)] = body[j - 2] /\ bytes[2 + (j - 2)] = body[j - 2]
        BY <1>5, <1>7, <4>1 DEF Stands
      <4> QED BY <4>1, <4>2
    <3> QED BY <3>2, <3>3
  <2>2. joined \in Data /\ Len(joined) = Len(bytes)
    BY <1>2, <1>5, <1>7
  <2> HIDE DEF joined
  <2>3. joined = bytes
    BY <1>2, <2>1, <2>2, SeqEqual DEF Data
  <2> QED BY <2>3 DEF joined
<1>9. Stands(body, bytes, 2)
  BY <1>7, <1>8
<1> QED BY <1>2, <1>3, <1>4, <1>5, <1>8, <1>9 DEF header, body

\* Schema and size of what encode made are read where it stands, and its size where it
\* stands without its header.
LEMMA EncodingIsRead ==
  ASSUME NEW piece, IsEncoding(piece), NEW bytes \in Data, NEW offset \in Nat
  PROVE  LET schema == ReadSchema(piece, 0)
         IN  /\ Stands(piece, bytes, offset) =>
                  /\ ReadSchema(bytes, offset) = schema
                  /\ ReadSize(bytes, schema.size, offset + 2) = Len(piece) - 2
             /\ Stands(Body(piece), bytes, offset) =>
                  ReadSize(bytes, schema.size, offset) = Len(piece) - 2
<1>1. PICK kind, value : kind \in SizedSchema /\ Fits(value) /\ piece = Encode(kind, value)
  BY DEF IsEncoding
<1> DEFINE size == BestSize(Len(value))
           sized == Sized(kind, value)
           digits == Digits(Len(value) + size, size)
<1>2. /\ size \in {1, 2, 4} /\ sized \in SizedSchema
      /\ piece \in Data /\ Len(piece) = 2 + size + Len(value) /\ Len(value) \in Nat
      /\ Stands(Header(sized), piece, 0) /\ Stands(digits, piece, 2)
      /\ digits \in Data /\ Len(digits) = size
      /\ Number(digits) = Len(value) + size
  BY <1>1, EncodeShape, DataLength DEF Fits, Sized
<1>3. sized.size = size
  BY DEF Sized, SizedSchema
<1> HIDE DEF size, sized
<1>4. ReadSchema(piece, 0) = sized
  BY <1>2, HeaderStands
<1>5. Len(value) + size = Len(piece) - 2 /\ Len(value) + size \in Nat
  BY <1>2
<1>6. ASSUME NEW o \in Nat, Stands(digits, bytes, o) PROVE ReadSize(bytes, size, o) = Len(piece) - 2
  BY <1>2, <1>5, <1>6, SizeIsRead
<1>7. ASSUME Stands(piece, bytes, offset)
      PROVE  ReadSchema(bytes, offset) = sized /\ Stands(digits, bytes, offset + 2)
  <2>1. Header(sized) \in Data
    BY <1>2, HeaderIsData
  <2>2. Stands(Header(sized), bytes, offset + 0)
    BY <1>2, <1>7, <2>1, StandsBehind
  <2>3. ReadSchema(bytes, offset) = sized
    BY <1>2, <2>2, HeaderStands
  <2> HIDE DEF digits
  <2> QED BY <1>2, <1>7, <2>3, StandsBehind
<1>8. ASSUME Stands(Body(piece), bytes, offset) PROVE Stands(digits, bytes, offset)
  <2> DEFINE body == Body(piece)
  <2>1. /\ body \in Data /\ Len(body) = Len(piece) - 2 /\ Stands(body, piece, 2)
    BY EncodingShape
  <2> HIDE DEF digits, body
  <2>2. \A j \in 1 .. Len(digits) : piece[2 + j] = digits[j] /\ j \in 1 .. Len(body)
    BY <1>2, <2>1 DEF Stands
  <2>3. Stands(digits, body, 0)
    BY <1>2, <2>1, <2>2 DEF Stands
  <2>4. Stands(digits, bytes, offset + 0)
    BY <1>2, <1>8, <2>1, <2>3, StandsBehind DEF body
  <2> QED BY <2>4
<1> HIDE DEF digits
<1>9. offset + 2 \in Nat
  OBVIOUS
<1> QED BY <1>3, <1>4, <1>6, <1>7, <1>8, <1>9

\* readItemAtOffset does not read past the end, and an item it returns has bytes: the
\* iterator of any bytes, also of those that came from a socket, goes forward.
THEOREM ReadIsAdvance ==
  ASSUME NEW s, s.contents \in Data, NEW typed,
         typed = <<>> \/ \E schema \in SizedSchema : typed = <<schema>>,
         NEW offset \in 0 .. Len(s.contents), offset < Len(s.contents),
         ReadItem(s, typed, offset) # <<>>
  PROVE  LET header == IF typed # <<>> THEN 2 ELSE 0
         IN  /\ ReadItem(s, typed, offset) # <<>>
             /\ offset + Len(GetAll(ReadItem(s, typed, offset)[1])) - header
                  \in (offset + 1) .. Len(s.contents)
<1> DEFINE bytes == s.contents
           end == Len(bytes)
           skip == IF typed # <<>> THEN 0 ELSE 2
           header == IF typed # <<>> THEN 2 ELSE 0
           schema == IF typed # <<>> THEN typed[1] ELSE ReadSchema(bytes, offset)
           size == ReadSize(bytes, schema.size, offset + skip)
           last == offset + skip + size
           item == [contents |-> Slice(bytes, offset, last), override |-> typed]
<1>1. end \in Nat /\ \A i \in 1 .. end : bytes[i] \in 0 .. 255
  BY DataLength
<1>2. schema.size \in {1, 2, 4, 8}
  <2>1. CASE typed # <<>>
    <3>1. PICK kind \in SizedSchema : typed = <<kind>>
      BY <2>1
    <3>2. schema = kind
      BY <3>1
    <3> QED BY <3>2 DEF SizedSchema
  <2>2. CASE typed = <<>>
    <3> DEFINE catalogue == bytes[offset + 1]
    <3>1. catalogue \in 0 .. 255
      <4>1. offset + 1 \in 1 .. end
        BY <1>1
      <4> QED BY <1>1, <4>1
    <3>2. ReadSchema(bytes, offset).size = Sizes[catalogue \div 64 + 1]
      BY DEF ReadSchema
    <3> HIDE DEF catalogue
    <3>3. catalogue \div 64 + 1 \in 1 .. 4
      BY <3>1
    <3> QED BY <2>2, <3>3, <3>2 DEF Sizes
  <2> QED BY <2>1, <2>2
<1>3. ReadItem(s, typed, offset) =
        IF \/ offset + skip > end \/ offset + skip + schema.size > end \/ size = 0 \/ last > end
        THEN <<>> ELSE <<item>>
  BY Zenon DEF ReadItem
<1>4. ~ (\/ offset + skip > end \/ offset + skip + schema.size > end \/ size = 0 \/ last > end)
  BY <1>3, Zenon
<1> HIDE DEF schema, bytes, size
<1>5. size \in Nat
  <2> DEFINE from == IF schema.size = 8 THEN offset + skip + 4 ELSE offset + skip
             to == offset + skip + schema.size
  <2>1. from \in Nat /\ to \in Nat /\ from <= to /\ to <= Len(bytes)
    BY <1>1, <1>2, <1>4
  <2>2. size = Number(Slice(bytes, from, to))
    BY DEF ReadSize, size
  <2> HIDE DEF from, to
  <2>3. Slice(bytes, from, to) \in Data
    BY <2>1, SliceOfData DEF bytes
  <2> QED BY <2>2, <2>3, NumberIsNatural
<1>6. /\ offset + skip + schema.size <= end /\ size # 0 /\ last <= end
      /\ ReadItem(s, typed, offset) = <<item>>
  <2>1. ReadItem(s, typed, offset) = <<item>>
    BY <1>3, <1>4, Zenon
  <2>2. offset + skip + schema.size <= end /\ size # 0 /\ last <= end
    BY <1>1, <1>2, <1>5, <1>4
  <2> QED BY <2>1, <2>2
<1>7. /\ item.contents \in Data /\ Len(item.contents) = skip + size
  <2>1. last \in Nat /\ offset <= last /\ last - offset = skip + size
    BY <1>5
  <2>2. bytes \in Data /\ offset \in Nat
    BY DEF bytes
  <2> HIDE DEF last
  <2>3. Slice(bytes, offset, last) \in Data /\ Len(Slice(bytes, offset, last)) = last - offset
    BY <1>6, <2>1, <2>2, SliceOfData
  <2> QED BY <2>1, <2>3
<1> HIDE DEF last
<1>8. Len(GetAll(item)) - header = skip + size
  <2>1. CASE typed = <<>>
    BY <1>5, <1>7, <2>1 DEF GetAll
  <2>2. CASE typed # <<>>
    <3>1. PICK kind \in SizedSchema : typed = <<kind>>
      BY <2>2
    <3>2. GetAll(item) = Header(kind) \o item.contents
      BY <3>1 DEF GetAll
    <3>3. Header(kind) \in Data /\ Len(Header(kind)) = 2
      BY HeaderIsData
    <3>4. Len(GetAll(item)) = 2 + Len(item.contents)
      BY <1>7, <3>2, <3>3, DataJoined
    <3> QED BY <1>5, <1>7, <2>2, <3>4
  <2> QED BY <2>1, <2>2
<1>9. Len(GetAll(item)) \in Nat
  <2>1. CASE typed = <<>>
    BY <1>5, <1>7, <2>1 DEF GetAll
  <2>2. CASE typed # <<>>
    <3>1. PICK kind \in SizedSchema : typed = <<kind>>
      BY <2>2
    <3>2. GetAll(item) = Header(kind) \o item.contents
      BY <3>1 DEF GetAll
    <3> QED BY <1>7, <3>2, HeaderIsData, DataJoined, DataLength
  <2> QED BY <2>1, <2>2
<1> DEFINE length == Len(GetAll(item))
<1>10. length - header = skip + size /\ length \in Nat /\ ReadItem(s, typed, offset) = <<item>>
  BY <1>6, <1>8, <1>9
<1>11. offset + length - header = last /\ last \in (offset + 1) .. end
  <2> HIDE DEF length
  <2> QED BY <1>1, <1>6, <1>5, <1>10 DEF last
<1>12. ReadItem(s, typed, offset)[1] = item
  BY <1>6
<1> QED BY <1>11, <1>12 DEF bytes

-----------------------------------------------------------------------------
(* Arrays.                                                                   *)

\* An iterator over a structure passes over the items of x one after the other.
Passing(s, typed, header, x, at) ==
  \A i \in 1 .. Len(x) :
    /\ at[i] < Len(s.contents) /\ ReadItem(s, typed, at[i]) = <<x[i]>>
    /\ at[i + 1] = at[i] + Len(GetAll(x[i])) - header

\* What a structure's iterator passes over are its items.
LEMMA ItemsAreWalked ==
  ASSUME NEW s, s.override = <<>>, s.contents \in Data,
         NEW typed, typed = OwnHeader(s).typed,
         typed = <<>> \/ \E schema \in SizedSchema : typed = <<schema>>,
         NEW header, header = IF typed # <<>> THEN 2 ELSE 0,
         NEW S, NEW x \in Seq(S), NEW at \in [1 .. Len(x) + 1 -> 0 .. Len(s.contents)],
         at[1] = OwnHeader(s).offset, at[Len(x) + 1] = Len(s.contents),
         Passing(s, typed, header, x, at)
  PROVE  Items(s) = x
<1> DEFINE end == Len(s.contents)
           item == [o \in 0 .. end |-> ReadItem(s, typed, o)]
           Behind(o, read) == IF read = <<>> THEN end ELSE o + Len(GetAll(read[1])) - header
           next == [o \in 0 .. end |-> Behind(o, item[o])]
           Walk(f) == IsWalk(f, end, item, next)
           Read(f) == f = [o \in 0 .. end |->
                             IF o >= end THEN <<>>
                             ELSE LET read == ReadItem(s, typed, o) IN read \o f[Behind(o, read)]]
<1>1. end \in Nat
  BY DataLength
<1>2. GetAll(s) = s.contents
  BY DEF GetAll
<1>3. Items(s) = (CHOOSE f : Read(f))[OwnHeader(s).offset]
  BY <1>2, Zenon DEF Items
<1>4. ASSUME NEW f PROVE Read(f) <=> Walk(f)
  <2>1. \A o \in 0 .. end : item[o] = ReadItem(s, typed, o) /\ next[o] = Behind(o, ReadItem(s, typed, o))
    BY Zenon
  <2> HIDE DEF item, next, Behind
  <2> QED BY <2>1 DEF IsWalk
<1>5. ASSUME NEW o \in 0 .. end, o < end PROVE next[o] \in (o + 1) .. end
  <2>1. next[o] = Behind(o, ReadItem(s, typed, o))
    BY Zenon
  <2>2. CASE ReadItem(s, typed, o) = <<>>
    <3>1. next[o] = end
      BY <2>1, <2>2
    <3> HIDE DEF next, end
    <3> QED BY <1>1, <1>5, <3>1
  <2>3. CASE ReadItem(s, typed, o) # <<>>
    <3>1. o + Len(GetAll(ReadItem(s, typed, o)[1])) - header \in (o + 1) .. end
      BY <1>5, <2>3, ReadIsAdvance
    <3>2. next[o] = o + Len(GetAll(ReadItem(s, typed, o)[1])) - header
      BY <2>1, <2>3, Zenon
    <3> QED BY <3>1, <3>2, Zenon
  <2> QED BY <2>2, <2>3
<1> HIDE DEF item, next, Read, end, Behind
<1>6. \E f : Walk(f)
  <2>1. IsForward(next, end)
    BY <1>5 DEF IsForward
  <2> QED BY <1>1, <2>1, WalkIsDefined
<1> HIDE DEF Walk
<1>7. PICK f : Walk(f) /\ f = CHOOSE g : Read(g)
  BY <1>4, <1>6, Zenon
<1>8. ASSUME NEW i \in 1 .. Len(x)
      PROVE  at[i] < end /\ item[at[i]] = <<x[i]>> /\ next[at[i]] = at[i + 1]
  <2>1. at[i] \in 0 .. end /\ at[i] < end /\ ReadItem(s, typed, at[i]) = <<x[i]>>
        /\ at[i + 1] = at[i] + Len(GetAll(x[i])) - header
    <3>1. i \in 1 .. Len(x) + 1
      BY LenProperties
    <3> QED BY <3>1 DEF end, Passing
  <2>2. item[at[i]] = <<x[i]>>
    BY <2>1 DEF item
  <2>3. next[at[i]] = Behind(at[i], <<x[i]>>)
    BY <2>1, <2>2, Zenon DEF next
  <2>4. Behind(at[i], <<x[i]>>) = at[i + 1]
    BY <2>1 DEF Behind
  <2> QED BY <2>1, <2>2, <2>3, <2>4
<1>9. at \in [1 .. Len(x) + 1 -> 0 .. end] /\ at[Len(x) + 1] = end
  BY DEF end
<1>10. f[at[1]] = x
  <2>1. Passes(item, next, x, at, end)
    BY <1>8, Zenon DEF Passes
  <2> QED BY <1>1, <1>7, <1>9, <2>1, WalkCollects DEF Walk
<1> QED BY <1>3, <1>7, <1>10

\* The same with the offsets counted from zero, as pieces are.
PassedOver(s, typed, header, x, at, n) ==
  /\ x = [i \in 1 .. n |-> x[i]]
  /\ at \in [0 .. n -> 0 .. Len(s.contents)]
  /\ at[0] = OwnHeader(s).offset /\ at[n] = Len(s.contents)
  /\ \A i \in 1 .. n :
       /\ at[i - 1] < Len(s.contents) /\ ReadItem(s, typed, at[i - 1]) = <<x[i]>>
       /\ at[i] = at[i - 1] + Len(GetAll(x[i])) - header

\* What a structure's iterator passes over are its items, with those offsets.
LEMMA ItemsAreThosePassedOver ==
  ASSUME NEW s, s.override = <<>>, s.contents \in Data,
         NEW typed, typed = OwnHeader(s).typed,
         typed = <<>> \/ \E schema \in SizedSchema : typed = <<schema>>,
         NEW header, header = IF typed # <<>> THEN 2 ELSE 0,
         NEW n \in Nat, NEW x, NEW at, PassedOver(s, typed, header, x, at, n)
  PROVE  Items(s) = x
<1> DEFINE S == {x[i] : i \in 1 .. n}
           later == [i \in 1 .. n + 1 |-> at[i - 1]]
<1>1. x \in Seq(S) /\ Len(x) = n
  <2>1. x = [i \in 1 .. n |-> x[i]]
    BY DEF PassedOver
  <2>2. x \in [1 .. n -> S]
    BY <2>1, Zenon
  <2> HIDE DEF S
  <2>3. x \in Seq(S)
    BY <2>2, SeqDef
  <2>4. Len(x) \in Nat /\ DOMAIN x = 1 .. Len(x) /\ DOMAIN x = 1 .. n
    BY <2>2, <2>3, LenProperties
  <2>5. Len(x) = n
    BY <2>4
  <2> QED BY <2>3, <2>5
<1>2. /\ at \in [0 .. n -> 0 .. Len(s.contents)]
      /\ at[0] = OwnHeader(s).offset /\ at[n] = Len(s.contents)
  BY DEF PassedOver
<1>3. ASSUME NEW i \in 1 .. n + 1 PROVE later[i] = at[i - 1] /\ i - 1 \in 0 .. n
  BY Zenon, SMT
<1>4. later \in [1 .. n + 1 -> 0 .. Len(s.contents)]
  <2>1. \A i \in 1 .. n + 1 : at[i - 1] \in 0 .. Len(s.contents)
    BY <1>2, <1>3
  <2> QED BY <2>1, Zenon
<1> HIDE DEF later, S
<1>5. later[1] = OwnHeader(s).offset /\ later[n + 1] = Len(s.contents)
  <2>1. 1 \in 1 .. n + 1 /\ n + 1 \in 1 .. n + 1 /\ 1 - 1 = 0 /\ n + 1 - 1 = n
    OBVIOUS
  <2>2. later[1] = at[1 - 1] /\ later[n + 1] = at[n + 1 - 1]
    BY <1>3, <2>1
  <2> QED BY <1>2, <2>1, <2>2
<1>6. ASSUME NEW i \in 1 .. n
      PROVE  /\ later[i] < Len(s.contents) /\ ReadItem(s, typed, later[i]) = <<x[i]>>
             /\ later[i + 1] = later[i] + Len(GetAll(x[i])) - header
  <2>1. i \in 1 .. n + 1 /\ i + 1 \in 1 .. n + 1 /\ i + 1 - 1 = i
    OBVIOUS
  <2>2. later[i] = at[i - 1] /\ later[i + 1] = at[i + 1 - 1]
    BY <1>3, <2>1
  <2>3. /\ at[i - 1] < Len(s.contents) /\ ReadItem(s, typed, at[i - 1]) = <<x[i]>>
        /\ at[i] = at[i - 1] + Len(GetAll(x[i])) - header
    BY DEF PassedOver
  <2> QED BY <2>1, <2>2, <2>3
<1>7. Passing(s, typed, header, x, later)
  BY <1>1, <1>6 DEF Passing
<1> QED BY <1>1, <1>4, <1>5, <1>7, ItemsAreWalked

\* An item stands in an array with its header, and is read as what it was.
LEMMA PlainItemIsRead ==
  ASSUME NEW s, s.contents \in Data, NEW piece, IsEncoding(piece),
         NEW offset \in Nat, Stands(piece, s.contents, offset)
  PROVE  /\ ReadItem(s, <<>>, offset) = <<Structure(piece)>>
         /\ piece \in Data /\ Len(piece) \in Nat \ {0} /\ offset + Len(piece) <= Len(s.contents)
<1> DEFINE schema == ReadSchema(s.contents, offset)
           size == ReadSize(s.contents, schema.size, offset + 2)
           end == offset + 2 + size
<1>1. /\ piece \in Data /\ Len(piece) \in Nat /\ Len(piece) >= 2 + ReadSchema(piece, 0).size
      /\ ReadSchema(piece, 0).size \in {1, 2, 4}
  BY EncodingShape
<1>2. schema = ReadSchema(piece, 0) /\ size = Len(piece) - 2
  BY EncodingIsRead
<1>3. ReadItem(s, <<>>, offset) =
        IF \/ offset + 2 > Len(s.contents) \/ offset + 2 + schema.size > Len(s.contents)
           \/ size = 0 \/ end > Len(s.contents)
        THEN <<>> ELSE << [contents |-> Slice(s.contents, offset, end), override |-> <<>>] >>
  BY Zenon DEF ReadItem
<1>4. offset + Len(piece) <= Len(s.contents) /\ Len(s.contents) \in Nat
  BY DataLength DEF Stands
<1> HIDE DEF schema, size
<1>5. /\ ~ (\/ offset + 2 > Len(s.contents) \/ offset + 2 + schema.size > Len(s.contents)
            \/ size = 0 \/ end > Len(s.contents))
      /\ end = offset + Len(piece)
  <2> DEFINE length == Len(piece)
             room == Len(s.contents)
  <2>1. /\ length \in Nat /\ room \in Nat /\ schema.size \in {1, 2, 4}
        /\ length >= 2 + schema.size /\ size = length - 2 /\ offset + length <= room
    BY <1>1, <1>2, <1>4
  <2> HIDE DEF length, room
  <2>2. /\ ~ (offset + 2 > room \/ offset + 2 + schema.size > room \/ size = 0 \/ end > room)
        /\ end = offset + length
    BY <2>1
  <2> QED BY <2>2 DEF length, room
<1>6. Slice(s.contents, offset, end) = piece
  BY <1>1, <1>5, StandingIsSliced
<1> HIDE DEF end
<1>7. ReadItem(s, <<>>, offset) = << [contents |-> piece, override |-> <<>>] >>
  BY <1>3, <1>5, <1>6, Zenon
<1> QED BY <1>1, <1>4, <1>7 DEF Structure

\* What the iterator of a typed array makes of an item.
TypedItem(piece) == [contents |-> Body(piece), override |-> <<ReadSchema(piece, 0)>>]

\* An item stands in a typed array without its header, and has it again when it is read.
LEMMA TypedItemIsRead ==
  ASSUME NEW s, s.contents \in Data, NEW piece, IsEncoding(piece),
         NEW offset \in Nat, Stands(Body(piece), s.contents, offset)
  PROVE  /\ ReadItem(s, <<ReadSchema(piece, 0)>>, offset) = <<TypedItem(piece)>>
         /\ GetAll(TypedItem(piece)) = piece /\ GetSchema(TypedItem(piece)) = ReadSchema(piece, 0)
         /\ piece \in Data /\ Len(piece) \in Nat /\ Len(Body(piece)) = Len(piece) - 2
         /\ Len(piece) > 2 /\ offset + Len(piece) - 2 <= Len(s.contents)
<1> DEFINE schema == ReadSchema(piece, 0)
           typed == <<schema>>
           size == ReadSize(s.contents, schema.size, offset + 0)
           end == offset + 0 + size
<1>1. /\ piece \in Data /\ Len(piece) \in Nat /\ Len(piece) >= 2 + schema.size
      /\ schema.size \in {1, 2, 4}
      /\ Body(piece) \in Data /\ Len(Body(piece)) = Len(piece) - 2
      /\ Header(schema) \o Body(piece) = piece
  BY EncodingShape
<1>2. size = Len(piece) - 2
  BY EncodingIsRead
<1>3. typed # <<>> /\ typed[1] = schema
  OBVIOUS
<1> HIDE DEF typed
<1>4. ReadItem(s, typed, offset) =
        IF \/ offset + 0 > Len(s.contents) \/ offset + 0 + schema.size > Len(s.contents)
           \/ size = 0 \/ end > Len(s.contents)
        THEN <<>> ELSE << [contents |-> Slice(s.contents, offset, end), override |-> typed] >>
  BY <1>3, Zenon DEF ReadItem
<1>5. offset + Len(Body(piece)) <= Len(s.contents) /\ Len(s.contents) \in Nat
  BY DataLength DEF Stands
<1>6. /\ ~ (\/ offset + 0 > Len(s.contents) \/ offset + 0 + schema.size > Len(s.contents)
            \/ size = 0 \/ end > Len(s.contents))
      /\ end = offset + Len(Body(piece))
  <2> DEFINE n == Len(s.contents)
             body == Len(Body(piece))
             class == schema.size
  <2>1. size = body /\ body \in Nat /\ body >= class /\ class \in {1, 2, 4}
    BY <1>1, <1>2
  <2>2. offset + body <= n /\ n \in Nat
    BY <1>5
  <2> HIDE DEF size, n, body, class
  <2>3. /\ ~ (\/ offset + 0 > n \/ offset + 0 + class > n \/ size = 0 \/ offset + 0 + size > n)
        /\ offset + 0 + size = offset + body
    BY <2>1, <2>2
  <2> QED BY <2>3, Zenon DEF n, body, class
<1> HIDE DEF size
<1>7. Slice(s.contents, offset, end) = Body(piece)
  BY <1>1, <1>6, StandingIsSliced
<1> HIDE DEF end
<1>8. ReadItem(s, typed, offset) = << [contents |-> Body(piece), override |-> typed] >>
  BY <1>4, <1>6, <1>7, Zenon
<1>9. GetAll(TypedItem(piece)) = Header(schema) \o Body(piece) /\ GetSchema(TypedItem(piece)) = schema
  BY DEF GetAll, GetSchema, TypedItem
<1>10. Len(piece) > 2 /\ offset + Len(piece) - 2 <= Len(s.contents)
  BY <1>1, <1>5
<1> QED BY <1>1, <1>8, <1>9, <1>10 DEF typed, TypedItem

\* The bytes of some items that can be read back.
AreEncodings(pieces) ==
  pieces \in Seq(Data) /\ \A i \in 1 .. Len(pieces) : IsEncoding(pieces[i])

\* The iterator of an array reads each of some pieces as an item, wherever it stands.
ReadsEach(s, typed, header, pieces, x) ==
  /\ x = [i \in 1 .. Len(pieces) |-> x[i]]
  /\ \A i \in 1 .. Len(pieces) : \A o \in Nat :
       Stands(pieces[i], s.contents, o) =>
         /\ ReadItem(s, typed, o) = <<x[i]>>
         /\ Len(pieces[i]) # 0 /\ Len(GetAll(x[i])) - header = Len(pieces[i])
         /\ Len(GetAll(x[i])) \in Nat

\* An array of pieces that its iterator reads has the items it reads them as.
LEMMA PiecesArePassedOver ==
  ASSUME NEW s, s.override = <<>>, s.contents \in Data,
         NEW typed, typed = OwnHeader(s).typed,
         typed = <<>> \/ \E schema \in SizedSchema : typed = <<schema>>,
         NEW header, header = IF typed # <<>> THEN 2 ELSE 0,
         NEW base \in Nat, base = OwnHeader(s).offset,
         NEW pieces \in Seq(Data), Stands(FlattenSeq(pieces), s.contents, base),
         Len(s.contents) = base + Len(FlattenSeq(pieces)),
         NEW x, ReadsEach(s, typed, header, pieces, x)
  PROVE  Items(s) = x
<1> DEFINE value == FlattenSeq(pieces)
           bytes == s.contents
           n == Len(pieces)
<1>1. n \in Nat /\ \A i \in 1 .. n : pieces[i] \in Data /\ Len(pieces[i]) \in Nat
  BY LenProperties, DataLength
<1>2. PICK flat : Joined(pieces, flat) /\ value = flat[n]
  BY FlattenIsJoined
<1> DEFINE at == [i \in 0 .. n |-> base + Len(flat[i])]
<1>3. value \in Data /\ Len(value) \in Nat /\ Len(bytes) \in Nat
  <2>1. flat[n] \in Data
    BY <1>1, <1>2 DEF Joined
  <2> HIDE DEF value
  <2> QED BY <1>2, <2>1, DataLength
<1>4. /\ flat \in [0 .. n -> Data] /\ Len(flat[0]) = 0
      /\ \A i \in 1 .. n : Stands(pieces[i], value, Len(flat[i - 1]))
                           /\ Len(flat[i]) = Len(flat[i - 1]) + Len(pieces[i])
      /\ \A i \in 0 .. n : flat[i] \in Data /\ Len(flat[i]) \in Nat
  <2>1. flat \in [0 .. n -> Data] /\ flat[0] = <<>>
    BY <1>2 DEF Joined
  <2>2. \A i \in 0 .. n : flat[i] \in Data
    BY <2>1
  <2> HIDE DEF n, value
  <2> QED BY <1>1, <1>2, <2>1, <2>2, PiecesStand, DataLength DEF n
<1>5. bytes \in Data /\ Len(bytes) = base + Len(value) /\ Stands(value, bytes, base)
  OBVIOUS
<1>6. \A i \in 1 .. n : \A o \in Nat :
        Stands(pieces[i], bytes, o) =>
          /\ ReadItem(s, typed, o) = <<x[i]>>
          /\ Len(pieces[i]) # 0 /\ Len(GetAll(x[i])) - header = Len(pieces[i])
          /\ Len(GetAll(x[i])) \in Nat
  BY DEF ReadsEach
<1>7. header \in {0, 2} /\ x = [i \in 1 .. n |-> x[i]]
  BY Zenon DEF ReadsEach
<1> HIDE DEF value, bytes, n
<1>8. ASSUME NEW i \in 1 .. n
      PROVE  /\ base + Len(flat[i - 1]) < Len(bytes)
             /\ ReadItem(s, typed, base + Len(flat[i - 1])) = <<x[i]>>
             /\ base + Len(flat[i]) = base + Len(flat[i - 1]) + Len(GetAll(x[i])) - header
             /\ base + Len(flat[i - 1]) \in 0 .. Len(bytes)
  <2> DEFINE o == Len(flat[i - 1])
             length == Len(pieces[i])
             end == Len(bytes)
             all == Len(GetAll(x[i]))
  <2>1. i - 1 \in 0 .. n /\ o \in Nat
    BY <1>1, <1>4
  <2>2. pieces[i] \in Data /\ Stands(pieces[i], value, o) /\ length \in Nat
    BY <1>1, <1>4
  <2>3. Stands(pieces[i], bytes, base + o) /\ base + o \in Nat
    <3> HIDE DEF o
    <3> QED BY ONLY base \in Nat, <1>3, <1>5, <2>1, <2>2, StandsBehind
  <2>4. ReadItem(s, typed, base + o) = <<x[i]>> /\ length # 0 /\ all - header = length /\ all \in Nat
    <3> HIDE DEF o
    <3> QED BY <1>6, <2>3
  <2>5. base + o + length <= end
    BY <2>3 DEF Stands
  <2>6. Len(flat[i]) = o + length /\ end \in Nat
    BY <1>3, <1>4
  <2> HIDE DEF o, length, end, all
  <2>7. /\ base + o < end /\ base + o \in 0 .. end
        /\ base + (o + length) = base + o + all - header
    <3>1. header \in {0, 2}
      BY <1>7
    <3> QED BY ONLY base \in Nat, <2>1, <2>2, <2>4, <2>5, <2>6, <3>1
  <2> QED BY <2>4, <2>6, <2>7 DEF o, length, end, all
<1>9. \A i \in 0 .. n : at[i] = base + Len(flat[i])
  BY Zenon
<1>10. at \in [0 .. n -> 0 .. Len(bytes)]
  <2>1. ASSUME NEW i \in 0 .. n PROVE base + Len(flat[i]) \in 0 .. Len(bytes)
    <3>1. CASE i = n
      <4>1. base + Len(flat[i]) = Len(bytes) /\ Len(bytes) \in Nat
        BY <1>2, <1>3, <1>5, <3>1
      <4> QED BY <4>1
    <3>2. CASE i # n
      <4>1. i + 1 \in 1 .. n /\ i + 1 - 1 = i
        BY <1>1, <3>2
      <4>2. base + Len(flat[i + 1 - 1]) \in 0 .. Len(bytes)
        BY <1>8, <4>1
      <4> QED BY <4>1, <4>2
    <3> QED BY <3>1, <3>2
  <2> QED BY <2>1, Zenon
<1> HIDE DEF at
<1>11. at[0] = base /\ at[n] = Len(bytes)
  <2>1. 0 \in 0 .. n /\ n \in 0 .. n /\ base + 0 = base
    BY <1>1
  <2>2. Len(flat[n]) = Len(value) /\ Len(flat[0]) = 0
    BY <1>2, <1>4
  <2>3. at[0] = base + Len(flat[0]) /\ at[n] = base + Len(flat[n])
    BY <1>9, <2>1, Zenon
  <2> QED BY <1>5, <2>1, <2>2, <2>3
<1>12. PassedOver(s, typed, header, x, at, n)
  <2>1. ASSUME NEW i \in 1 .. n
        PROVE  /\ at[i - 1] < Len(bytes) /\ ReadItem(s, typed, at[i - 1]) = <<x[i]>>
               /\ at[i] = at[i - 1] + Len(GetAll(x[i])) - header
    <3>1. i - 1 \in 0 .. n /\ i \in 0 .. n
      BY <1>1
    <3>2. at[i - 1] = base + Len(flat[i - 1]) /\ at[i] = base + Len(flat[i])
      BY <1>9, <3>1
    <3> QED BY <1>8, <3>2
  <2> QED BY <1>7, <1>10, <1>11, <2>1 DEF PassedOver, bytes
<1> QED BY <1>1, <1>12, ItemsAreThosePassedOver

\* An array is read back as the items it was made of, whatever their sizes and kinds:
\* XyoIterator over what newIterable made.
THEOREM ArrayIsRead ==
  ASSUME NEW schema \in SizedSchema, ~ schema.typed, NEW pieces, AreEncodings(pieces),
         Fits(FlattenSeq(pieces))
  PROVE  Items(Structure(Encode(schema, FlattenSeq(pieces)))) =
           [i \in 1 .. Len(pieces) |-> Structure(pieces[i])]
<1> DEFINE value == FlattenSeq(pieces)
           bytes == Encode(schema, value)
           s == Structure(bytes)
           size == BestSize(Len(value))
           base == 2 + size
           x == [i \in 1 .. Len(pieces) |-> Structure(pieces[i])]
<1>1. pieces \in Seq(Data) /\ \A i \in 1 .. Len(pieces) : IsEncoding(pieces[i])
  BY DEF AreEncodings
<1>2. /\ size \in {1, 2, 4} /\ bytes \in Data /\ Len(bytes) = base + Len(value)
      /\ Stands(value, bytes, base) /\ base \in Nat
  <2>1. value \in Data /\ Len(value) + 4 < Byte4
    BY DEF Fits
  <2> HIDE DEF value, s, x
  <2>2. /\ size \in {1, 2, 4} /\ bytes \in Data /\ Len(bytes) = 2 + size + Len(value)
        /\ Stands(value, bytes, 2 + size)
    BY <2>1, EncodeShape
  <2> HIDE DEF bytes, size
  <2> QED BY <2>2
<1>3. s.override = <<>> /\ s.contents = bytes
  BY DEF Structure
<1>4. OwnHeader(s).typed = <<>> /\ OwnHeader(s).offset = base
  <2>1. GetSchema(s) = Sized(schema, value)
    BY EncodedIsStructure
  <2>2. ~ GetSchema(s).typed /\ GetSchema(s).size = size
    BY <2>1 DEF Sized, SizedSchema
  <2> HIDE DEF s, size
  <2> QED BY <2>2 DEF OwnHeader
<1>5. x = [i \in 1 .. Len(pieces) |-> x[i]]
  BY Zenon
<1>6. ASSUME NEW i \in 1 .. Len(pieces), NEW o \in Nat, Stands(pieces[i], s.contents, o)
      PROVE  /\ ReadItem(s, <<>>, o) = <<x[i]>>
             /\ Len(pieces[i]) # 0 /\ Len(GetAll(x[i])) - 0 = Len(pieces[i])
             /\ Len(GetAll(x[i])) \in Nat
  <2>1. x[i] = Structure(pieces[i])
    BY Zenon
  <2>2. GetAll(x[i]) = pieces[i]
    BY <2>1 DEF GetAll, Structure
  <2> HIDE DEF s, x, bytes
  <2>3. ReadItem(s, <<>>, o) = <<Structure(pieces[i])>> /\ Len(pieces[i]) \in Nat \ {0}
    BY <1>1, <1>2, <1>3, <1>6, PlainItemIsRead
  <2> QED BY <2>1, <2>2, <2>3
<1> HIDE DEF value, bytes, s, base, x
<1>7. Items(s) = x
  <2>1. ReadsEach(s, <<>>, 0, pieces, x)
    BY <1>5, <1>6 DEF ReadsEach
  <2>2. Stands(FlattenSeq(pieces), s.contents, base) /\ Len(s.contents) = base + Len(FlattenSeq(pieces))
    BY <1>2, <1>3 DEF value
  <2> QED BY <1>1, <1>2, <1>3, <1>4, <2>2, <2>1, PiecesArePassedOver
<1> QED BY <1>7 DEF s, x, value, bytes

\* The items of a typed array, without their headers.
Bodies(pieces) == [i \in 1 .. Len(pieces) |-> Body(pieces[i])]

\* So is a typed array, whose items share one header.
THEOREM TypedArrayIsRead ==
  ASSUME NEW schema \in SizedSchema, schema.typed, NEW pieces, AreEncodings(pieces),
         Len(pieces) > 0,
         NEW kind, \A i \in 1 .. Len(pieces) : ReadSchema(pieces[i], 0) = kind,
         Fits(Header(kind) \o FlattenSeq(Bodies(pieces)))
  PROVE  Items(Structure(Encode(schema, Header(kind) \o FlattenSeq(Bodies(pieces))))) =
           [i \in 1 .. Len(pieces) |-> TypedItem(pieces[i])]
<1> DEFINE bodies == Bodies(pieces)
           flat == FlattenSeq(bodies)
           value == Header(kind) \o flat
           bytes == Encode(schema, value)
           s == Structure(bytes)
           size == BestSize(Len(value))
           base == 4 + size
           typed == <<kind>>
           x == [i \in 1 .. Len(pieces) |-> TypedItem(pieces[i])]
<1>1. /\ pieces \in Seq(Data) /\ Len(pieces) \in Nat
      /\ \A i \in 1 .. Len(pieces) : IsEncoding(pieces[i])
  BY LenProperties DEF AreEncodings
<1>2. kind \in SizedSchema
  <2>1. 1 \in 1 .. Len(pieces)
    BY <1>1
  <2> QED BY <1>1, <2>1, EncodingShape
<1>3. Header(kind) \in Data /\ Len(Header(kind)) = 2
  BY <1>2, HeaderIsData
<1>4. bodies \in Seq(Data) /\ Len(bodies) = Len(pieces) /\ \A i \in 1 .. Len(pieces) : bodies[i] = Body(pieces[i])
  <2>1. \A i \in 1 .. Len(pieces) : Body(pieces[i]) \in Data
    BY <1>1, EncodingShape
  <2>2. bodies \in [1 .. Len(pieces) -> Data] /\ \A i \in 1 .. Len(pieces) : bodies[i] = Body(pieces[i])
    BY <2>1, Zenon DEF Bodies
  <2> HIDE DEF bodies
  <2>3. bodies \in Seq(Data)
    BY <1>1, <2>2, SeqDef
  <2>4. Len(bodies) \in Nat /\ DOMAIN bodies = 1 .. Len(bodies) /\ DOMAIN bodies = 1 .. Len(pieces)
    BY <2>2, <2>3, LenProperties
  <2>5. Len(bodies) = Len(pieces)
    BY <1>1, <2>4
  <2> QED BY <2>2, <2>3, <2>5
<1>5. flat \in Data /\ Len(flat) \in Nat
  <2>1. PICK f : Joined(bodies, f) /\ flat = f[Len(bodies)]
    BY <1>4, FlattenIsJoined
  <2>2. flat \in Data
    BY <1>1, <1>4, <2>1 DEF Joined
  <2> HIDE DEF flat
  <2> QED BY <2>2, DataLength
<1> HIDE DEF flat, bodies
<1>6. /\ value \in Data /\ Len(value) = 2 + Len(flat) /\ Stands(Header(kind), value, 0)
      /\ Stands(flat, value, 2)
  <2> DEFINE head == Header(kind)
  <2>1. head \in Data /\ Len(head) = 2
    BY <1>3
  <2> HIDE DEF head
  <2>2. /\ head \o flat \in Data /\ Len(head \o flat) = 2 + Len(flat)
        /\ Stands(head, head \o flat, 0) /\ Stands(flat, head \o flat, 2)
    BY ONLY <1>5, <2>1, DataJoined
  <2> QED BY <2>2 DEF head
<1>7. /\ size \in {1, 2, 4} /\ bytes \in Data /\ Len(bytes) = 2 + size + Len(value)
      /\ Stands(value, bytes, 2 + size) /\ base \in Nat /\ Fits(value)
  <2>1. Fits(value)
    BY DEF flat, bodies
  <2>2. value \in Data /\ Len(value) + 4 < Byte4
    BY <2>1 DEF Fits
  <2> HIDE DEF value, s, x, typed
  <2>3. /\ size \in {1, 2, 4} /\ bytes \in Data /\ Len(bytes) = 2 + size + Len(value)
        /\ Stands(value, bytes, 2 + size)
    BY <2>2, EncodeShape
  <2> HIDE DEF bytes, size
  <2> QED BY <2>1, <2>3
<1>8. s.override = <<>> /\ s.contents = bytes
  BY DEF Structure
<1>9. GetSchema(s) = Sized(schema, value)
  BY <1>7, EncodedIsStructure
<1> HIDE DEF value
<1>10. ReadSize(bytes, size, 2) = Len(value) + size
  <2>1. Stands(bytes, bytes, 0) /\ 0 + 2 = 2
    BY <1>7, DataLength DEF Stands
  <2> HIDE DEF size
  <2>2. ReadSize(bytes, BestSize(Len(value)), 0 + 2) = Len(value) + BestSize(Len(value))
    BY <1>7, <2>1, EncodedIsRead
  <2> QED BY <2>1, <2>2 DEF size
<1>11. ReadSchema(bytes, 2 + size) = kind
  <2> HIDE DEF size, bytes
  <2>1. Stands(Header(kind), bytes, 2 + size + 0) /\ 2 + size \in Nat /\ 2 + size + 0 = 2 + size
    BY <1>3, <1>6, <1>7, StandsBehind
  <2> QED BY <1>2, <2>1, HeaderStands
<1>12. OwnHeader(s).typed = typed /\ OwnHeader(s).offset = base
  <2>1. GetSchema(s).typed /\ GetSchema(s).size = size
    BY <1>9 DEF Sized, SizedSchema
  <2>2. ReadSize(s.contents, GetSchema(s).size, 2) # GetSchema(s).size
    <3> HIDE DEF s, size, bytes
    <3> QED BY <1>5, <1>6, <1>7, <1>8, <1>10, <2>1
  <2> HIDE DEF s, size, bytes
  <2> QED BY <1>8, <1>11, <2>1, <2>2 DEF OwnHeader
<1>13. Stands(flat, bytes, base) /\ Len(bytes) = base + Len(flat)
  <2> HIDE DEF size, bytes
  <2>1. Stands(flat, bytes, 2 + size + 2) /\ 2 + size + 2 = 4 + size
    BY <1>5, <1>6, <1>7, StandsBehind
  <2> QED BY <1>5, <1>6, <1>7, <2>1
<1>14. x = [i \in 1 .. Len(bodies) |-> x[i]]
  BY <1>4, Zenon
<1>15. typed # <<>> /\ \E k \in SizedSchema : typed = <<k>>
  BY <1>2
<1>16. ASSUME NEW i \in 1 .. Len(bodies), NEW o \in Nat, Stands(bodies[i], s.contents, o)
      PROVE  /\ ReadItem(s, typed, o) = <<x[i]>>
             /\ Len(bodies[i]) # 0 /\ Len(GetAll(x[i])) - 2 = Len(bodies[i])
             /\ Len(GetAll(x[i])) \in Nat
  <2>1. i \in 1 .. Len(pieces) /\ bodies[i] = Body(pieces[i])
    BY <1>4
  <2>2. x[i] = TypedItem(pieces[i]) /\ typed = <<ReadSchema(pieces[i], 0)>>
    BY <2>1
  <2> HIDE DEF s, x, bytes, typed, base, size
  <2>3. IsEncoding(pieces[i]) /\ Stands(Body(pieces[i]), s.contents, o)
    BY <1>1, <1>16, <2>1
  <2>4. /\ ReadItem(s, <<ReadSchema(pieces[i], 0)>>, o) = <<TypedItem(pieces[i])>>
        /\ GetAll(TypedItem(pieces[i])) = pieces[i]
        /\ Len(pieces[i]) \in Nat /\ Len(Body(pieces[i])) = Len(pieces[i]) - 2
        /\ Len(pieces[i]) > 2
    BY <1>7, <1>8, <2>3, TypedItemIsRead
  <2>5. Len(bodies[i]) = Len(pieces[i]) - 2 /\ GetAll(x[i]) = pieces[i]
    BY <2>1, <2>2, <2>4
  <2>6. ReadItem(s, typed, o) = <<x[i]>>
    BY ONLY <2>2, <2>4, Zenon
  <2> DEFINE length == Len(pieces[i])
  <2>7. length \in Nat /\ length > 2 /\ Len(GetAll(x[i])) = length /\ Len(bodies[i]) = length - 2
    BY ONLY <2>4, <2>5
  <2> HIDE DEF length
  <2> QED BY ONLY <2>6, <2>7
<1> HIDE DEF bytes, s, base, x, typed
<1>17. Items(s) = x
  <2>1. ReadsEach(s, typed, 2, bodies, x)
    BY <1>14, <1>16 DEF ReadsEach
  <2>2. Stands(FlattenSeq(bodies), s.contents, base) /\ Len(s.contents) = base + Len(FlattenSeq(bodies))
    BY <1>8, <1>13 DEF flat
  <2> QED BY <1>4, <1>7, <1>8, <1>12, <1>15, <2>2, <2>1, PiecesArePassedOver
<1> QED BY <1>17 DEF s, x, value, bytes, flat, bodies

-----------------------------------------------------------------------------
(* Growing.                                                                  *)

\* A structure is longer than its value, by its header and more.
LEMMA EncodedIsLonger ==
  ASSUME NEW schema \in SizedSchema, NEW value \in Data
  PROVE  /\ Encode(schema, value) \in Data
         /\ Len(Encode(schema, value)) > Len(value) + 2
<1> DEFINE size == BestSize(Len(value))
           sized == [schema EXCEPT !.size = size]
           digits == Digits(Len(value) + size, size)
           header == Header(sized)
<1>1. Len(value) \in Nat
  BY DataLength
<1>2. size \in {1, 2, 4, 8}
  BY DEF BestSize
<1>3. sized \in SizedSchema
  BY <1>2 DEF SizedSchema
<1> HIDE DEF sized
<1>4. header \in Data /\ Len(header) = 2
  BY <1>3, HeaderIsData
<1>5. digits \in Data /\ Len(digits) = size
  BY <1>1, <1>2, DigitsAreData
<1>6. Encode(schema, value) = (header \o digits) \o value
  BY DEF Encode, sized
<1> HIDE DEF header, digits, size
<1>7. header \o digits \in Data /\ Len(header \o digits) = 2 + size
  BY <1>4, <1>5, DataJoined
<1> DEFINE front == header \o digits
<1> HIDE DEF front
<1>8. front \o value \in Data /\ Len(front \o value) = 2 + size + Len(value)
  BY <1>7, DataJoined DEF front
<1> QED BY <1>1, <1>2, <1>6, <1>8 DEF front

\* Pieces that are joined are bytes, and none is longer than they all.
LEMMA FlattenIsData ==
  ASSUME NEW pieces \in Seq(Data)
  PROVE  /\ FlattenSeq(pieces) \in Data
         /\ \A i \in 1 .. Len(pieces) :
              pieces[i] \in Data /\ Len(pieces[i]) <= Len(FlattenSeq(pieces))
<1> DEFINE value == FlattenSeq(pieces)
           n == Len(pieces)
<1>1. n \in Nat /\ \A i \in 1 .. n : pieces[i] \in Data
  BY LenProperties
<1>2. PICK flat : Joined(pieces, flat) /\ value = flat[n]
  BY FlattenIsJoined
<1>3. value \in Data
  <2> HIDE DEF value
  <2> QED BY <1>1, <1>2 DEF Joined
<1> HIDE DEF value
<1>4. ASSUME NEW i \in 1 .. n PROVE Len(pieces[i]) <= Len(value)
  <2>1. Stands(pieces[i], value, Len(flat[i - 1]))
    BY <1>2, PiecesStand
  <2>2. flat[i - 1] \in Data
    BY <1>1, <1>2 DEF Joined
  <2>3. Len(flat[i - 1]) \in Nat /\ Len(pieces[i]) \in Nat /\ Len(value) \in Nat
    BY <1>1, <1>3, <2>2, DataLength
  <2> DEFINE o == Len(flat[i - 1])
             length == Len(pieces[i])
             end == Len(value)
  <2>4. o + length <= end
    BY <2>1 DEF Stands
  <2>5. o \in Nat /\ length \in Nat /\ end \in Nat
    BY <2>3
  <2> HIDE DEF o, length, end
  <2>6. length <= end
    BY ONLY <2>4, <2>5
  <2> QED BY <2>6 DEF length, end
<1> QED BY <1>1, <1>3, <1>4 DEF value

\* No pieces make no bytes.
LEMMA FlattenOfNone == FlattenSeq(<<>>) = <<>>
<1>1. Len(<<>>) = 0
  OBVIOUS
<1> QED BY <1>1 DEF FlattenSeq

\* One piece makes itself.
LEMMA FlattenOfOne ==
  ASSUME NEW piece \in Data
  PROVE  FlattenSeq(<<piece>>) = piece
<1>1. <<>> \in Seq(Data) /\ Append(<<>>, piece) = <<piece>>
  OBVIOUS
<1>2. FlattenSeq(<<piece>>) = <<>> \o piece
  BY <1>1, FlattenOfNone, FlattenAppended
<1> QED BY <1>2, ConcatEmptySeq DEF Data

\* Pieces can be joined in two groups.
LEMMA FlattenConcatenated ==
  ASSUME NEW front \in Seq(Data), NEW back \in Seq(Data)
  PROVE  FlattenSeq(front \o back) = FlattenSeq(front) \o FlattenSeq(back)
<1> DEFINE n == Len(front)
           first(i) == SubSeq(back, 1, i)
           S == {i \in Nat : i <= Len(back) =>
                   FlattenSeq(front \o first(i)) = FlattenSeq(front) \o FlattenSeq(first(i))}
<1>1. Len(back) \in Nat /\ n \in Nat /\ FlattenSeq(front) \in Data
  BY LenProperties, FlattenIsData
<1>2. 0 \in S
  <2>1. first(0) = <<>>
    BY <1>1, SubSeqEmpty
  <2>2. front \o <<>> = front /\ FlattenSeq(front) \o <<>> = FlattenSeq(front)
    BY <1>1, ConcatEmptySeq DEF Data
  <2> QED BY <2>1, <2>2, FlattenOfNone
<1>3. ASSUME NEW i \in Nat, i \in S PROVE i + 1 \in S
  <2> DEFINE m == i + 1
  <2> SUFFICES ASSUME m <= Len(back)
               PROVE  FlattenSeq(front \o first(m)) = FlattenSeq(front) \o FlattenSeq(first(m))
    OBVIOUS
  <2>1. i <= Len(back) /\ m \in 1 .. Len(back) /\ m - 1 = i
    BY <1>1
  <2>2. FlattenSeq(front \o first(i)) = FlattenSeq(front) \o FlattenSeq(first(i))
    BY <1>3, <2>1
  <2>3. first(m) = Append(first(i), back[m]) /\ first(i) \in Seq(Data) /\ back[m] \in Data
    <3>1. back[m] \in Data
      BY <2>1, ElementOfSeq
    <3>2. SubSeq(back, 1, i) \in Seq(Data)
      BY <1>1, <2>1, SubSeqProperties
    <3>3. SubSeq(back, 1, m) = Append(SubSeq(back, 1, m - 1), back[m])
      BY <1>1, <2>1, SubSeqRecursiveSecond
    <3> QED BY <2>1, <3>1, <3>2, <3>3
  <2> HIDE DEF m, first
  <2>4. front \o first(m) = Append(front \o first(i), back[m]) /\ front \o first(i) \in Seq(Data)
    <3> DEFINE start == first(i)
               last == back[m]
    <3>1. front \in Seq(Data) /\ start \in Seq(Data) /\ last \in Data /\ <<last>> \in Seq(Data)
      BY <2>3
    <3> HIDE DEF start, last
    <3>2. front \o start \in Seq(Data)
      BY <3>1, ConcatProperties
    <3>3. Append(start, last) = start \o <<last>>
      BY ONLY <3>1, AppendIsConcat
    <3>4. Append(front \o start, last) = (front \o start) \o <<last>>
      BY ONLY <3>1, <3>2, AppendIsConcat
    <3>5. (front \o start) \o <<last>> = front \o (start \o <<last>>)
      BY <3>1, PiecesAssociate
    <3>6. front \o Append(start, last) = Append(front \o start, last)
      BY <3>3, <3>4, <3>5, Zenon
    <3> QED BY <2>3, <3>2, <3>6, Zenon DEF start, last
  <2>5. FlattenSeq(front \o first(m)) = (FlattenSeq(front) \o FlattenSeq(first(i))) \o back[m]
    BY <2>2, <2>3, <2>4, FlattenAppended
  <2>6. FlattenSeq(first(m)) = FlattenSeq(first(i)) \o back[m] /\ FlattenSeq(first(i)) \in Data
    BY <2>3, FlattenAppended
  <2>7. (FlattenSeq(front) \o FlattenSeq(first(i))) \o back[m] = FlattenSeq(front) \o (FlattenSeq(first(i)) \o back[m])
    <3> DEFINE a == FlattenSeq(front)
               b == FlattenSeq(first(i))
               c == back[m]
    <3>1. a \in Data /\ b \in Data /\ c \in Data
      BY <1>1, <2>3, <2>6
    <3> HIDE DEF a, b, c
    <3>2. (a \o b) \o c = a \o (b \o c)
      BY <3>1, BytesAssociate
    <3> QED BY <3>2 DEF a, b, c
  <2> QED BY <2>5, <2>6, <2>7
<1>4. Nat \subseteq S
  <2> HIDE DEF S
  <2> QED BY <1>2, <1>3, Induction
<1>5. FlattenSeq(front \o first(Len(back))) = FlattenSeq(front) \o FlattenSeq(first(Len(back)))
  <2> HIDE DEF first
  <2> QED BY <1>1, <1>4
<1>6. first(Len(back)) = back
  BY SubSeqFull
<1> QED BY <1>5, <1>6

\* addElement makes of an array the one newIterable makes of its items and one more: the
\* size it had, whatever class it was in, leaves no trace.
THEOREM AddedIsBuilt ==
  ASSUME NEW schema \in SizedSchema, ~ schema.typed, NEW pieces \in Seq(Data),
         Fits(FlattenSeq(pieces)), NEW item, GetAll(item) \in Data
  PROVE  AddElement(Encode(schema, FlattenSeq(pieces)), item) =
           Encode(schema, FlattenSeq(Append(pieces, GetAll(item))))
<1> DEFINE value == FlattenSeq(pieces)
           s == Structure(Encode(schema, value))
           longer == value \o GetAll(item)
<1>1. GetSchema(s) = Sized(schema, value) /\ GetValue(s) = value
  BY EncodedIsStructure
<1>2. FlattenSeq(Append(pieces, GetAll(item))) = longer
  BY FlattenAppended
<1>3. AddElement(Encode(schema, value), item) = Encode(Sized(schema, value), longer)
  BY <1>1 DEF AddElement
<1> HIDE DEF value, s, longer
<1>4. [Sized(schema, value) EXCEPT !.size = BestSize(Len(longer))]
        = [schema EXCEPT !.size = BestSize(Len(longer))]
  BY DEF Sized, SizedSchema
<1>5. Encode(Sized(schema, value), longer) = Encode(schema, longer)
  BY <1>4, Zenon DEF Encode
<1> QED BY <1>2, <1>3, <1>5 DEF value

-----------------------------------------------------------------------------
(* Parts of a sequence.                                                      *)

\* f is what there is of the elements at some positions, up to each of them.
Collected(f, seq, positions) ==
  /\ f[0] = <<>>
  /\ \A i \in 1 .. Len(seq) :
       f[i] = f[i - 1] \o (IF i \in positions THEN <<seq[i]>> ELSE <<>>)

\* Among collects the elements at some positions one after the other.
LEMMA AmongIsDefined ==
  ASSUME NEW S, NEW seq \in Seq(S), NEW positions
  PROVE  \E f : Collected(f, seq, positions) /\ Among(seq, positions) = f[Len(seq)]
<1> USE DEF Collected
<1> DEFINE n == Len(seq)
           piece(i) == IF i \in positions THEN <<seq[i]>> ELSE <<>>
           pieces == [i \in 1 .. n |-> piece(i)]
<1>1. n \in Nat /\ DOMAIN seq = 1 .. n /\ \A i \in 1 .. n : seq[i] \in S
  BY LenProperties
<1>2. Among(seq, positions) = FlattenSeq(pieces)
  BY <1>1, Zenon DEF Among
<1>3. \A i \in 1 .. n : piece(i) \in Seq(S)
  BY <1>1
<1> HIDE DEF piece
<1>4. pieces \in Seq(Seq(S)) /\ Len(pieces) = n /\ \A i \in 1 .. n : pieces[i] = piece(i)
  BY <1>1, <1>3
<1> HIDE DEF pieces, n
<1>5. CASE n = 0
  <2> DEFINE f == [i \in 0 .. 0 |-> <<>>]
  <2>1. pieces = <<>>
    BY <1>4, <1>5
  <2>2. f[0] = <<>> /\ FlattenSeq(pieces) = f[n]
    BY <1>5, <2>1, FlattenOfNone
  <2>3. \A i \in 1 .. n : f[i] = f[i - 1] \o piece(i)
    BY <1>5
  <2> HIDE DEF f
  <2> QED BY <1>2, <2>2, <2>3 DEF n, piece
<1>6. CASE n # 0
  <2>1. PICK g : /\ g = [i \in 1 .. n |-> IF i = 1 THEN pieces[i] ELSE g[i - 1] \o pieces[i]]
                 /\ FlattenSeq(pieces) = g[n]
    BY <1>1, <1>4, <1>6, FlattenIsDefined
  <2>2. g[1] = pieces[1] /\ \A i \in 2 .. n : g[i] = g[i - 1] \o pieces[i]
    <3>1. 1 \in 1 .. n /\ \A i \in 2 .. n : i \in 1 .. n /\ i # 1
      BY <1>1, <1>6
    <3> QED BY <2>1, <3>1
  <2> DEFINE f == [i \in 0 .. n |-> IF i = 0 THEN <<>> ELSE g[i]]
  <2>3. f[0] = <<>> /\ f[n] = g[n] /\ \A i \in 1 .. n : f[i] = g[i]
    BY <1>1, <1>6
  <2> HIDE DEF f
  <2>4. \A i \in 1 .. n : f[i] = f[i - 1] \o piece(i)
    <3> TAKE i \in 1 .. n
    <3>1. CASE i = 1
      <4>1. <<>> \o piece(1) = piece(1)
        BY <1>3, <3>1, ConcatEmptySeq
      <4>2. f[i] = piece(1) /\ f[i - 1] = <<>>
        BY <1>4, <2>2, <2>3, <3>1
      <4> QED BY <3>1, <4>1, <4>2
    <3>2. CASE i # 1
      <4>1. i \in 2 .. n /\ i - 1 \in 1 .. n
        BY <1>1, <3>2
      <4> QED BY <1>4, <2>2, <2>3, <4>1
    <3> QED BY <3>1, <3>2
  <2> QED BY <1>2, <2>1, <2>3, <2>4 DEF n, piece
<1> QED BY <1>5, <1>6

\* The elements at the first positions are the beginning of a sequence.
LEMMA AmongFirst ==
  ASSUME NEW S, NEW seq \in Seq(S), NEW k \in 0 .. Len(seq), NEW positions,
         \A i \in 1 .. Len(seq) : i \in positions <=> i <= k
  PROVE  Among(seq, positions) = SubSeq(seq, 1, k)
<1> DEFINE n == Len(seq)
           upTo(i) == IF i <= k THEN i ELSE k
           first(i) == SubSeq(seq, 1, i)
<1>1. n \in Nat /\ k \in Nat /\ k <= n
  BY LenProperties
<1>2. PICK f : Collected(f, seq, positions) /\ Among(seq, positions) = f[n]
  BY AmongIsDefined
<1>3. /\ f[0] = <<>>
      /\ \A i \in 1 .. n : f[i] = f[i - 1] \o (IF i \in positions THEN <<seq[i]>> ELSE <<>>)
  BY <1>2 DEF Collected
<1> DEFINE N == {i \in Nat : i <= n => f[i] = first(upTo(i))}
<1>4. 0 \in N
  <2>1. first(0) = <<>> /\ upTo(0) = 0
    BY <1>1, SubSeqEmpty
  <2> HIDE DEF first, upTo
  <2> QED BY <1>3, <2>1
<1>5. ASSUME NEW i \in Nat, i \in N PROVE i + 1 \in N
  <2> DEFINE m == i + 1
  <2> SUFFICES ASSUME m <= n PROVE f[m] = first(upTo(m))
    OBVIOUS
  <2>1. m \in 1 .. n /\ m - 1 = i /\ i <= n
    BY <1>1
  <2>2. f[i] = first(upTo(i))
    BY <1>5, <2>1
  <2>3. CASE m <= k
    <3>1. upTo(m) = m /\ upTo(i) = m - 1 /\ m \in positions
      BY <2>1, <2>3
    <3>2. first(m) = Append(first(m - 1), seq[m])
      BY <2>1, SubSeqRecursiveSecond
    <3>3. first(m - 1) \in Seq(S) /\ seq[m] \in S
      BY <2>1, SubSeqProperties, ElementOfSeq
    <3> HIDE DEF m, first, upTo
    <3>4. f[m] = first(m - 1) \o <<seq[m]>>
      BY <1>3, <2>1, <2>2, <3>1
    <3> QED BY <3>1, <3>2, <3>3, <3>4, AppendIsConcat
  <2>4. CASE ~ (m <= k)
    <3>1. upTo(m) = k /\ upTo(i) = k /\ m \notin positions
      BY <1>1, <2>1, <2>4
    <3>2. first(k) \in Seq(S)
      BY <1>1, SubSeqProperties
    <3> HIDE DEF m, first, upTo
    <3>3. f[m] = first(k) \o <<>>
      BY <1>3, <2>1, <2>2, <3>1
    <3> QED BY <3>1, <3>2, <3>3, ConcatEmptySeq
  <2> QED BY <2>3, <2>4
<1>6. Nat \subseteq N
  <2> HIDE DEF N
  <2> QED BY <1>4, <1>5, Induction
<1>7. f[n] = first(upTo(n)) /\ upTo(n) = k
  <2>1. f[n] = first(upTo(n))
    <3> HIDE DEF first, upTo
    <3> QED BY <1>1, <1>6
  <2>2. upTo(n) = k
    BY <1>1
  <2> QED BY <2>1, <2>2
<1> QED BY <1>2, <1>7

=============================================================================
