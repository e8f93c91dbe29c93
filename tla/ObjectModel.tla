----------------------------- MODULE ObjectModel -----------------------------
(***************************************************************************)
(* A block travels as bytes and is read.  One party's fetters and          *)
(* witnesses go into a set, the set is sent, the other party iterates over *)
(* it and adds every item to a ledger of its own; whoever has the ledger   *)
(* reads from it what the parties put in.                                  *)
(*                                                                         *)
(* A fetter is what an origin chain puts into it and the heuristics of the *)
(* application; a witness is the sizes of its signatures, which depend on  *)
(* the algorithm and not, as here, on one another.                         *)
(***************************************************************************)
EXTENDS OriginGetter

CONSTANTS Indices,       \* indices of a chain
          HashSizes,     \* sizes of a previous hash
          KeySizes,      \* sizes of a next public key
          Strengths,     \* numbers that an RSSI heuristic has or has negated
          MaxHeuristics, \* bound on the heuristics of a fetter
          SignatureSizes,
          MaxSignatures, \* bound on the signatures of a witness
          MaxParties     \* bound on the fetters of a ledger

ASSUME BoundAssumption ==
  /\ Indices \subseteq 0 .. (Byte4 - 1)
  /\ HashSizes \cup KeySizes \cup SignatureSizes \subseteq Nat
  /\ Strengths \subseteq 0 .. (Byte \div 2 - 1)
  /\ {MaxHeuristics, MaxSignatures, MaxParties} \subseteq Nat

VARIABLES ledger,  \* contents of a XyoZigZagBoundWitness
          added    \* the parts it was given

vars == <<ledger, added>>

Maybe(S) == {<<>>} \cup {<<x>> : x \in S}
SeqUpTo(S, n) == UNION {[1 .. k -> S] : k \in 0 .. n}

\* A heuristic: <<"rssi", reading>> or one without value and resolver.
Readings == Strengths \cup {-n : n \in Strengths}
HeuristicKinds == ({"rssi"} \X Readings) \cup {<<"other">>}

\* A fetter of a chain has its index, and the previous hash and the next key
\* where there are any.  Heuristics besides are explored of a fetter with the
\* lowest index and nothing more.
Origins == [index : Maybe(Indices), previous : Maybe(HashSizes), next : Maybe(KeySizes)]

FetterParts ==
  { part \in [kind : {"fetter"}, origin : Origins,
              heuristics : SeqUpTo(HeuristicKinds, MaxHeuristics)] :
      /\ part.origin.index = <<>> => part.origin.previous = <<>> /\ part.origin.next = <<>>
      /\ part.heuristics # <<>> =>
           part.origin = [index |-> <<Min(Indices)>>, previous |-> <<>>, next |-> <<>>] }
WitnessParts == [kind : {"witness"}, sizes : SeqUpTo(SignatureSizes, MaxSignatures)]
Parts == FetterParts \cup WitnessParts

OfKind(parts, kind) == Among(parts, {i \in DOMAIN parts : parts[i].kind = kind})

-----------------------------------------------------------------------------
(* The structures of a part.                                               *)

Signer == <<Byte - 1>>
Filled(n) == [i \in 1 .. n |-> Byte - 1]
Hash(n) == Structure(Encode(XyoObjectSchema.SHA_256, Filled(n)))
NextKey(n) == PublicKey(Filled(n))

Heuristic(h) ==
  IF h[1] = "rssi" THEN Structure(Encode(XyoObjectSchema.RSSI, <<h[2] % Byte>>))
  ELSE Structure(Encode(Schema(99, FALSE, FALSE), <<>>))

\* getOriginItems
OriginItems(origin) ==
  LET Each(maybe, Create(_)) == [i \in DOMAIN maybe |-> Create(maybe[i])]
  IN  Each(origin.index, CreateIndex)
      \o Each(origin.previous, LAMBDA n : CreatePreviousHash(Hash(n)))
      \o Each(origin.next, LAMBDA n : CreateNextPublicKey(NextKey(n)))

\* getPayloads: the origin's items come first.
Payload(part) ==
  OriginItems(part.origin) \o [i \in DOMAIN part.heuristics |-> Heuristic(part.heuristics[i])]

Leaves(part) ==
  IF part.kind = "fetter"
  THEN <<Structure(NewIterable(XyoObjectSchema.KEY_SET, <<PublicKey(Signer)>>))>> \o Payload(part)
  ELSE << Structure(NewIterable(XyoObjectSchema.SIGNATURE_SET,
            [i \in DOMAIN part.sizes |-> SignWith(Signer, Filled(part.sizes[i]))])) >>

Part(part) ==
  IF part.kind = "fetter" THEN FetterOf(<<Signer>>, Payload(part))
  ELSE Structure(NewIterable(Witness, Leaves(part)))
PartsOf(parts) == [i \in DOMAIN parts |-> Part(parts[i])]

-----------------------------------------------------------------------------
(* A ledger grows, fetters before witnesses, as BoundWitness has it.       *)

\* buffer.constants.MAX_LENGTH of Node 10, which .nvmrc names: 2^31 - 1 bytes, half
\* of what a size in four bytes can count.  A larger ledger throws when it is made.
MaxBufferLength == Byte4 \div 2 - 1

Init == ledger = NewLedger.bytes /\ added = <<>>

\* The ledger made of its items at once.
Built(parts) == NewIterable(BW, PartsOf(parts))

\* The items a ledger can have: fetters and then witnesses, and not one after it is
\* completed.
InOrder(parts) ==
  \E n \in 0 .. MaxParties :
    /\ n <= Len(parts) /\ Len(parts) <= 2 * n
    /\ \A i \in DOMAIN parts : parts[i].kind = IF i <= n THEN "fetter" ELSE "witness"

\* The items of a typed array share a header.  In a session of two parties such
\* a set has one item.
OneHeader(parts) ==
  \A i, j \in DOMAIN parts :
    parts[i].kind = parts[j].kind =>
      Header(GetSchema(Part(parts[i]))) = Header(GetSchema(Part(parts[j])))

\* addTransfer of what the other party sent, which comes as it is, or where
\* nobody has signed behind the choice of the one that begins.
ReceiveTransfer(parts) ==
  LET sent == GetAll(EncodeTransfer(PartsOf(parts)))
      choices == {<<>>, <<1>>}
      received == IF OfKind(parts, "witness") # <<>> THEN {sent}
                  ELSE {ReadPacket(ChoicePacket(choice, sent))[1].response : choice \in choices}
  IN  /\ InOrder(added \o parts) /\ OneHeader(parts)
      /\ Len(Built(added \o parts)) <= MaxBufferLength
      /\ \E bytes \in received :
           ledger' = AddTransfer([NewLedger EXCEPT !.bytes = ledger], Structure(bytes)).bytes
      /\ added' = added \o parts

\* addToLedger of a part of one's own.
AddToLedger(part) ==
  /\ InOrder(Append(added, part))
  /\ Len(Built(Append(added, part))) <= MaxBufferLength
  /\ ledger' = AddElement(ledger, Part(part))
  /\ added' = Append(added, part)

Next ==
  \/ \E part \in Parts : AddToLedger(part) \/ ReceiveTransfer(<<part>>)
  \/ \E part1, part2 \in Parts : ReceiveTransfer(<<part1, part2>>)

Spec == Init /\ [][Next]_vars

-----------------------------------------------------------------------------
(* Properties.                                                             *)

TypeOK ==
  /\ ledger \in Seq(0..255) /\ added \in Seq(Parts)
  /\ \A i \in 1..GetSchema(Structure(ledger)).size : ledger[2 + i] \in 0..(Byte - 1)

\* Whatever was put into a ledger, at any depth, is read back from it in order,
\* whichever sets it travelled in and whatever sizes it has.
ReadsBack ==
  LET items == Items(Structure(ledger))
  IN  /\ Bytes(items) = Bytes(PartsOf(added))
      /\ \A i \in DOMAIN items : Bytes(Items(items[i])) = Bytes(Leaves(added[i]))

\* A ledger that grew item by item has the bytes of one that is made of all its
\* items at once: blocks that are rebuilt, or grow on two nodes in different
\* pieces, keep their hash.
GrownIsBuilt == ledger = Built(added)

\* What a party signs are the bytes of the fetters, whatever their sizes and
\* however many witnesses stand behind them already.
SignedAreTheFetters ==
  SigningData(Structure(ledger)) = FlattenSeq(Bytes(PartsOf(OfKind(added, "fetter"))))

OriginReadAs(origin, read) ==
  /\ read.index = IF origin.index = <<>> THEN -1 ELSE origin.index[1]
  /\ read.previousHash = [j \in DOMAIN origin.previous |-> GetAll(Hash(origin.previous[j]))]

OriginsReadAs(fetters, read) ==
  (\A i \in DOMAIN fetters : fetters[i].origin.next = <<>>) =>
    /\ read.ok
    /\ Len(read.origins) = Len(fetters)
    /\ \A i \in DOMAIN fetters : OriginReadAs(fetters[i].origin, read.origins[i])

\* From a block in which no party announces a key anyone reads, for every party,
\* the index and the previous hash its origin chain put in, and -1 and nothing
\* where it put none.  Of a block in which one does, AnnouncedKeyIsRead speaks.
OriginIsRead == OriginsReadAs(OfKind(added, "fetter"), OriginInformation(ledger))

-----------------------------------------------------------------------------
(* What the code says of itself and does not keep.                         *)

\* "1 next public key expected": a party that announces one next public key is
\* read as announcing it.
AnnouncedKeyIsRead ==
  LET fetters == OfKind(added, "fetter")
      read    == OriginInformation(ledger)
  IN  \A i \in DOMAIN fetters :
        fetters[i].origin.next # <<>> =>
          /\ read.ok
          /\ read.origins[i].nextPublicKey = <<GetAll(NextKey(fetters[i].origin.next[1]))>>
=============================================================================
