------------------------------ MODULE Heuristics ------------------------------
(***************************************************************************)
(* Reading a block's items for people: XyoHumanHeuristicResolver with the  *)
(* default resolvers, which name every item and turn it into a value.      *)
(*                                                                         *)
(* Base 64 and base 58 lose nothing, so the text of an item is the bytes   *)
(* it encodes; a double is the eight bytes it is read from.                *)
(***************************************************************************)
EXTENDS OriginGetter

\* readSignedNumber
ReadSigned(bytes) ==
  LET range == Byte^Len(bytes)
      n == ReadUnsigned(bytes)
  IN  IF n < range \div 2 THEN n ELSE n - range

\* The default resolvers: for an id the name and the kind of value.
DefaultResolvers ==
  LET For(schema, name, kind) == schema.id :> [name |-> name, kind |-> kind]
      O == XyoObjectSchema
  IN  For(O.BLE_POWER_LEVEL, "rssiAt1m", "signed") @@ For(O.RSSI, "rssi", "signed")
      @@ For(O.INDEX, "index", "unsigned") @@ For(O.UNIX_TIME, "date", "time")
      @@ For(O.LAT, "lat", "double") @@ For(O.LNG, "lng", "double")
      @@ For(O.GPS, "gps", "object") @@ For(O.FETTER, "fetter", "object")
      @@ For(O.WITNESSES, "witness", "object")
      @@ For(O.KEY_SET, "keySet", "array") @@ For(O.SIGNATURE_SET, "signatureSet", "array")
      @@ For(O.BW, "boundWitness", "values")
      @@ For(O.BRIDGE_HASH_SET, "bridgeHashSet", "values")
      @@ For(O.PREVIOUS_HASH, "previousHash", "only")
      @@ For(O.PAYMENT_KEY, "paymentKey", "text")
      @@ For(O.EC_PUBLIC_KEY, "secp566k1PublicKey", "text")
      @@ For(O.EC_SIGNATURE, "secp566k1Signature", "text")
      @@ For(O.RSA_PUBLIC_KEY, "rsaPublicKey", "text")
      @@ For(O.RSA_SIGNATURE, "rsaSignature", "text")
      @@ For(O.STUB_PUBLIC_KEY, "stubPublicKey", "text")
      @@ For(O.STUB_SIGNATURE, "stubSignature", "text")
      @@ For(O.STUB_HASH, "stubHash", "text") @@ For(O.SHA_256, "sha256", "text")
      @@ For(O.SHA_3, "sha3", "text")

\* Mutant: of children with one name the first.
AsObjectOfFirst(children) ==
  [name \in {children[i].name : i \in DOMAIN children} |->
     children[SelectInSeq(children, LAMBDA child : child.name = name)].value]

\* uniqueIterableToObject: of children with one name the last.
AsObject(children) ==
  [name \in {children[i].name : i \in DOMAIN children} |->
     children[SelectLastInSeq(children, LAMBDA child : child.name = name)].value]

\* The value of an item that is no list.
PlainValue(kind, bytes) ==
  LET value == GetValue(Structure(bytes))
  IN  CASE kind = "text"     -> [text |-> bytes]
        [] kind = "signed"   -> [number |-> ReadSigned(value)]
        [] kind = "unsigned" -> [number |-> ReadUnsigned(value)]
        [] kind = "time"     -> [number |-> ReadSize(value, 6, 2)]
        [] kind = "double"   -> [double |-> Slice(value, 0, 8)]

\* The value of a list of what its items resolved to.
ListValue(kind, children) ==
  CASE kind = "object" -> [object |-> AsObject(children)]
    [] kind = "array"  -> [array |-> children]
    [] kind = "values" -> [array |-> [i \in DOMAIN children |-> children[i].value]]
    [] kind = "only"   -> IF Len(children) = 1 THEN children[1].value ELSE [invalid |-> TRUE]

\* resolve: an item without a resolver is its id and its text.
RECURSIVE Resolve(_)
Resolve(bytes) ==
  LET id == ReadSchema(bytes, 0).id
      resolver == IF id \in DOMAIN DefaultResolvers THEN DefaultResolvers[id]
                  ELSE [name |-> ToString(id), kind |-> "text"]
      items == Items(Structure(bytes))
  IN  [ name  |-> resolver.name,
        value |-> IF resolver.kind \in {"object", "array", "values", "only"}
                  THEN ListValue(resolver.kind,
                                 [i \in DOMAIN items |-> Resolve(GetAll(items[i]))])
                  ELSE PlainValue(resolver.kind, bytes) ]
=============================================================================
