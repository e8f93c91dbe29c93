----------------------------- MODULE OriginGetter -----------------------------
(***************************************************************************)
(* Reading the origin of every party from a block:                         *)
(* XyoBoundWitnessOriginGetter over the items getHeuristics finds.         *)
(***************************************************************************)
EXTENDS ByteLedger

\* readUnsignedNumber
ReadUnsigned(bytes) ==
  IF Len(bytes) \in {1, 2, 4} THEN ReadSize(bytes, Len(bytes), 0) ELSE -1

NoOrigin == [index |-> -1, nextPublicKey |-> <<>>, previousHash |-> <<>>, ok |-> TRUE]

\* Mutant: the list is taken for the hash in it.
ReadOriginItemOfList(origin, item) ==
  CASE GetSchema(item).id = XyoObjectSchema.PREVIOUS_HASH.id ->
         [origin EXCEPT !.previousHash = <<GetAll(item)>>]
    [] GetSchema(item).id = XyoObjectSchema.INDEX.id ->
         [origin EXCEPT !.index = ReadUnsigned(GetValue(item))]
    [] OTHER -> origin

\* The next key and the previous hash have to be lists of one item; it throws if
\* they are not, and "ok" is FALSE.
ReadOnlyItem(origin, id, items) ==
  CASE Len(items) # 1 -> [origin EXCEPT !.ok = FALSE]
    [] Len(items) = 1 /\ id = XyoObjectSchema.NEXT_PUBLIC_KEY.id ->
         [origin EXCEPT !.nextPublicKey = <<GetAll(items[1])>>]
    [] Len(items) = 1 /\ id = XyoObjectSchema.PREVIOUS_HASH.id ->
         [origin EXCEPT !.previousHash = <<GetAll(items[1])>>]

\* A step of getOriginInformationFromFetter.
ReadOriginItem(origin, item) ==
  LET id == GetSchema(item).id
      O == XyoObjectSchema
  IN  CASE id \in {O.NEXT_PUBLIC_KEY.id, O.PREVIOUS_HASH.id} ->
             ReadOnlyItem(origin, id, IF GetSchema(item).iterable THEN Items(item) ELSE <<>>)
        [] id = O.INDEX.id -> [origin EXCEPT !.index = ReadUnsigned(GetValue(item))]
        [] OTHER -> origin

\* getOriginInformation of the items getHeuristics finds, fetter by fetter: what
\* one fetter throws nobody catches, and no party's origin is returned.
OriginInformation(bytes) ==
  LET fetters == GetId(Structure(bytes), Fetter)
      origins == [i \in DOMAIN fetters |-> FoldLeft(ReadOriginItem, NoOrigin, Items(fetters[i]))]
  IN  IF \A i \in DOMAIN origins : origins[i].ok
      THEN [ok |-> TRUE, origins |-> origins]
      ELSE [ok |-> FALSE, origins |-> <<>>]
=============================================================================
