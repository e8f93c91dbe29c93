------------------------------ MODULE Simulation ------------------------------
(***************************************************************************)
(* The sample blocks XyoJsonBoundWitnessCreator makes, each party with an  *)
(* origin state in memory and a stub signer that has its name for a key.   *)
(* All of a block happens in one call; the other side of a party is        *)
(* another object in the same process.                                     *)
(*                                                                         *)
(* The previous hash of a sample is the whole previous sample.  The        *)
(* heuristics of the JSON are dropped before they become structures.  An   *)
(* entry with no party or more than two throws, which changes nothing, but *)
(* ends the call before it forgets the parties.                            *)
(***************************************************************************)
EXTENDS OriginGetter

CONSTANTS Party,     \* the parties' names, in one byte
          MaxSamples \* bound on the samples made before the parties are forgotten

ASSUME PartyAssumption == Party \subseteq 0 .. 255 /\ MaxSamples \in Nat

VARIABLES partyToState, \* each party's index and previous hash; new when forgotten
          samples       \* the samples made of these states, also those of a call that threw

vars == <<partyToState, samples>>

\* The state of XyoOriginState over XyoRamOriginStateRepository.
NewState == [index |-> 0, previous |-> <<>>]

Init == partyToState = [p \in Party |-> NewState] /\ samples = <<>>

Signers(p) == <<(<<p>>)>>

\* Mutant: the index alone.
IndexAlone(p) == <<CreateIndex(partyToState[p].index)>>

\* appendNeededHeuristics: unlike in a node, the previous hash comes first.
NeededHeuristics(p) ==
  LET previous == partyToState[p].previous
  IN  [i \in DOMAIN previous |-> CreatePreviousHash(Structure(previous[i]))]
      \o <<CreateIndex(partyToState[p].index)>>

\* After the calls of incomingData that gave some answers: a party's ledger, which
\* is new before its first call, and what the last of the calls sends.
LedgerOf(answers, party) ==
  LET mine == SelectSeq(answers, LAMBDA answer : answer.party = party)
  IN  IF mine = <<>> THEN NewLedger ELSE Last(mine).ledger

TransferAfter(answers) == IF answers = <<>> THEN <<>> ELSE <<Last(answers).out>>

\* The calls of a block of some parties, and what each answered.
Exchange(parties, calls) ==
  LET Answers(answers, call) ==
        LET p == parties[call.party]
        IN  Append(answers, [party |-> call.party] @@
              IncomingData(LedgerOf(answers, call.party), TransferAfter(answers), call.endpoint,
                           Signers(p), NeededHeuristics(p)))
  IN  [parties |-> parties, answers |-> FoldLeft(Answers, <<>>, calls)]

Block(sample, i) == LedgerOf(sample.answers, i).bytes

Call(party, endpoint) == [party |-> party, endpoint |-> endpoint]

\* The calls of a block of two parties, and of one.
Zigzag == <<Call(1, FALSE), Call(2, TRUE), Call(1, FALSE), Call(2, FALSE)>>
Alone  == <<Call(1, TRUE)>>

\* addOriginBlock of a state without waiting signers.
AddOriginBlock(state, block) == [index |-> state.index + 1, previous |-> <<block>>]

\* createBlockfromJson of two parties.
CreateBlock(alice, bob) ==
  /\ Len(samples) < MaxSamples
  /\ \E sample \in {Exchange(<<alice, bob>>, Zigzag)} :
       /\ samples' = Append(samples, sample)
       /\ partyToState' = [partyToState EXCEPT ![alice] = AddOriginBlock(@, Block(sample, 1)),
                                               ![bob] = AddOriginBlock(@, Block(sample, 2))]

\* createSelfSignedBoundWitness: the state is not told of the block.
CreateSelfSigned(p) ==
  /\ Len(samples) < MaxSamples
  /\ samples' = Append(samples, Exchange(<<p>>, Alone))
  /\ UNCHANGED partyToState

\* Mutant: the states outlive the call.
ForgetSamples == samples' = <<>> /\ UNCHANGED partyToState

\* createBlocksFromJson returns.
ForgetParties ==
  /\ partyToState' = [p \in Party |-> NewState]
  /\ samples' = <<>>

Next ==
  \/ \E alice, bob \in Party : alice # bob /\ CreateBlock(alice, bob)
  \/ \E p \in Party : CreateSelfSigned(p)
  \/ ForgetParties

Spec == Init /\ [][Next]_vars

-----------------------------------------------------------------------------
(* Properties.                                                             *)

TypeOK ==
  /\ \A p \in Party : /\ partyToState[p].index \in 0 .. MaxSamples
                      /\ \A i \in DOMAIN partyToState[p].previous :
                           partyToState[p].previous[i] \in Seq(0 .. 255)
  /\ \A i \in DOMAIN samples :
       /\ samples[i].parties \in Seq(Party)
       /\ \A j \in DOMAIN samples[i].answers : samples[i].answers[j].ledger.bytes \in Seq(0 .. 255)

\* The items of a block that BoundWitness, which knows no bytes, makes of the
\* same calls.
OfItems == INSTANCE BoundWitness WITH Key <- Party

ItemsAgreed(parties) ==
  LET Made(sample, call) ==
        LET p == parties[call.party]
            l == sample.ledgers[call.party]
            made == OfItems!IncomingData(l, l # <<>>, sample.transfer, call.endpoint, p, <<p>>)
        IN  [ ledgers |-> [sample.ledgers EXCEPT ![call.party] = made.ledger],
              transfer |-> made.out ]
      new == [ledgers |-> [i \in DOMAIN parties |-> <<>>], transfer |-> <<>>]
  IN  FoldLeft(Made, new, IF Len(parties) = 1 THEN Alone ELSE Zigzag).ledgers[1]

\* The bytes of a block say what its items say: who announced which keys, and
\* what each signature covers.
Says(block, items) ==
  LET read == Items(Structure(block))
      Sub(s) == Items(Items(s)[1])
      Signed(signed) == FlattenSeq(Bytes([i \in DOMAIN signed |->
                          read[CHOOSE j \in DOMAIN items : items[j] = signed[i]]]))
  IN  /\ Len(read) = Len(items)
      /\ \A i \in DOMAIN items :
           IF items[i].kind = "fetter"
           THEN /\ GetSchema(read[i]).id = Fetter.id
                /\ Bytes(Sub(read[i])) = Bytes([j \in DOMAIN items[i].keys |->
                                                  PublicKey(<<items[i].keys[j]>>)])
           ELSE /\ GetSchema(read[i]).id = Witness.id
                /\ Bytes(Sub(read[i])) = Bytes([j \in DOMAIN items[i].sigs |->
                                                  SignWith(items[i].sigs[j], Signed(items[i].signed))])

\* The exchange of bytes implements the exchange of items: without an error both
\* parties of a sample end up with the same bytes, however large the blocks in
\* them, and these are those of the block BoundWitness makes.
BytesFollowItems ==
  \A i \in DOMAIN samples :
    /\ \A j \in DOMAIN samples[i].answers : samples[i].answers[j].ledger.ok
    /\ \A j \in DOMAIN samples[i].parties : IsCompleted(Block(samples[i], j))
    /\ Block(samples[i], 1) = Block(samples[i], Len(samples[i].parties))
    /\ Says(Block(samples[i], 1), ItemsAgreed(samples[i].parties))

\* A sample places every party in its chain: the origin read from the block has
\* the number of the party's earlier samples with another party for an index,
\* and the last of those, whole, for the previous hash.
OriginsAreRead ==
  \A i \in DOMAIN samples : \A j \in DOMAIN samples[i].parties :
    LET Earlier(k) == /\ Len(samples[k].parties) = 2
                      /\ \E n \in 1 .. 2 : samples[k].parties[n] = samples[i].parties[j]
        earlier == {k \in 1 .. i - 1 : Earlier(k)}
        read    == OriginInformation(Block(samples[i], j))
    IN  /\ read.ok
        /\ read.origins[j] =
             [ index |-> Cardinality(earlier), nextPublicKey |-> <<>>, ok |-> TRUE,
               previousHash |-> IF earlier = {} THEN <<>> ELSE <<Block(samples[Max(earlier)], 1)>> ]
=============================================================================
