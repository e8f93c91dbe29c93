------------------------------ MODULE ByteLedger ------------------------------
(***************************************************************************)
(* The bound witness ledger in bytes: XyoBoundWitness and                  *)
(* XyoZigZagBoundWitness over structures, where BoundWitness has items.    *)
(*                                                                         *)
(* Signers are the stub signers of the simulation: a signature is a copy   *)
(* of what it signs, so that a block shows what was signed.                *)
(***************************************************************************)
EXTENDS Structures

\* createMasterArrayWithSubArray
MasterArray(master, sub, masterItems, subItems) ==
  Structure(NewIterable(master, <<Structure(NewIterable(sub, subItems))>> \o masterItems))

NumberOf(schema, bytes) == Len(GetId(Structure(bytes), schema))

\* getIsCompleted
IsCompleted(bytes) ==
  NumberOf(Witness, bytes) # 0 /\ NumberOf(Witness, bytes) = NumberOf(Fetter, bytes)

\* getWitnessFetterBoundary
WitnessFetterBoundary(s) == Len(FlattenSeq(Bytes(GetId(s, Fetter))))

\* Mutant: the boundary is counted from the ledger's own header.
SigningDataOfAll(s) == Slice(GetAll(s), 0, WitnessFetterBoundary(s))

\* getSigningData
SigningData(s) == Slice(GetValue(s), 0, WitnessFetterBoundary(s))

-----------------------------------------------------------------------------
(* Signers.                                                                *)

PublicKey(signer) == Structure(Encode(XyoObjectSchema.STUB_PUBLIC_KEY, signer))
SignWith(signer, data) == Structure(Encode(XyoObjectSchema.STUB_SIGNATURE, data))

\* createIndex, createPreviousHash and createNextPublicKey; a list only in the
\* second.
CreateIndex(n) == Structure(Encode(XyoObjectSchema.INDEX, Digits(n, 4)))
CreatePreviousHash(hash) == Structure(NewIterable(XyoObjectSchema.PREVIOUS_HASH, <<hash>>))
CreateNextPublicKey(key) == Structure(Encode(XyoObjectSchema.NEXT_PUBLIC_KEY, GetAll(key)))

FetterOf(signers, payload) ==
  MasterArray(Fetter, XyoObjectSchema.KEY_SET, payload,
              [i \in DOMAIN signers |-> PublicKey(signers[i])])

SignaturesOf(signers, data) ==
  MasterArray(Witness, XyoObjectSchema.SIGNATURE_SET, <<>>,
              [i \in DOMAIN signers |-> SignWith(signers[i], data)])

-----------------------------------------------------------------------------
(* What is sent and what comes in.                                         *)

\* encodeTransfer: a typed set if the items are of one kind.
EncodeTransfer(items) ==
  LET ids == {GetSchema(items[i]).id : i \in DOMAIN items}
      schema == CASE ids = {Witness.id} -> XyoObjectSchema.WITNESS_SET
                  [] ids = {Fetter.id}  -> XyoObjectSchema.FETTER_SET
                  [] OTHER              -> XyoObjectSchema.BW_FRAGMENT
  IN  Structure(NewIterable(schema, items))

\* Mutant: the window of fetters begins one early.
PassOnRepeated(bytes, n) ==
  LET fetters == GetId(Structure(bytes), Fetter)
      witnesses == GetId(Structure(bytes), Witness)
  IN  EncodeTransfer(Append(SubSeq(fetters, n + 1, Len(fetters)), Last(witnesses)))

\* passAndSign after it signed: the fetters the other side lacks and the newest
\* witness; n is the number of witnesses of the transfer received.
PassOn(bytes, n) ==
  LET fetters == GetId(Structure(bytes), Fetter)
      witnesses == GetId(Structure(bytes), Witness)
  IN  EncodeTransfer(Append(SubSeq(fetters, n + 2, Len(fetters)), Last(witnesses)))

-----------------------------------------------------------------------------
(* A ledger: its bytes, whether it has its party's fetter, and whether all *)
(* went well.                                                              *)

NewLedger == [bytes |-> NewIterable(BW, <<>>), sentFetter |-> FALSE, ok |-> TRUE]

\* addToLedger, which throws if the ledger is completed.
AddedToLedger(l, item) ==
  [l EXCEPT !.bytes = AddElement(@, item), !.ok = @ /\ ~IsCompleted(l.bytes)]

AddTransfer(l, transfer) == FoldLeft(AddedToLedger, l, Items(transfer))

SignBoundWitness(l, signers) ==
  AddedToLedger(l, SignaturesOf(signers, SigningData(Structure(l.bytes))))

AddFetter(l, signers, payload) ==
  IF l.sentFetter THEN l
  ELSE [AddedToLedger(l, FetterOf(signers, payload)) EXCEPT !.sentFetter = TRUE]

\* A ledger and what it answers a transfer of n witnesses.
Answer(l, out) == [ledger |-> l, out |-> out]
PassAfterSigning(l, n) == Answer(l, PassOn(l.bytes, n))

GetReturnFromIncoming(l, n, endpoint, signers) ==
  IF n = 0 /\ ~endpoint THEN Answer(l, EncodeTransfer(Items(Structure(l.bytes))))
  ELSE PassAfterSigning(SignBoundWitness(l, signers), n)

ReturnUnlessBalanced(l, n, endpoint, signers) ==
  IF NumberOf(Fetter, l.bytes) = NumberOf(Witness, l.bytes) THEN Answer(l, EncodeTransfer(<<>>))
  ELSE GetReturnFromIncoming(l, n, endpoint, signers)

\* incomingData, <<>> for an undefined transfer.
IncomingData(l, transfer, endpoint, signers, payload) ==
  ReturnUnlessBalanced(
    AddFetter(IF transfer = <<>> THEN l ELSE AddTransfer(l, transfer[1]), signers, payload),
    IF transfer = <<>> THEN 0 ELSE Len(GetId(transfer[1], Witness)),
    endpoint, signers)

-----------------------------------------------------------------------------
(* Packets.                                                                *)

\* getSizeEncodedCatalog: the choice behind its size in one byte.
SizeEncoded(choice) == <<Len(choice)>> \o choice

\* sendChoicePacket
ChoicePacket(choice, response) == SizeEncoded(choice) \o response

\* getChoice and getResponse, which throw on a packet shorter than it says.
ReadPacket(data) ==
  IF data = <<>> \/ data[1] + 1 > Len(data) THEN <<>>
  ELSE << [choice |-> Slice(data, 1, data[1] + 1), response |-> Slice(data, data[1] + 1, Len(data))] >>
=============================================================================
