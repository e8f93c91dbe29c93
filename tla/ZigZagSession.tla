---------------------------- MODULE ZigZagSession ----------------------------
(***************************************************************************)
(* One bound witness between two nodes: XyoZigZagBoundWitnessHander and    *)
(* XyoZigZagBoundWitnessSession on either side, talking through the        *)
(* XyoTcpPipe of each.                                                     *)
(*                                                                         *)
(* The client opened the connection and advertises its catalogue; the      *)
(* server's pipe carries that advertisement as initiation data.  A step is *)
(* what one event loop runs without giving control back: from the          *)
(* resolution of a promise to the next await.                              *)
(***************************************************************************)
EXTENDS BoundWitness

CONSTANTS Client, Server,
          KeysOf,         \* the keys each party may hold signers for
          ServerChoices,  \* what the server's catalogue may choose
          MaxSigners      \* bound on the signers a party holds at once

ASSUME PartyAssumption == Party = {Client, Server} /\ Client # Server
ASSUME KeysAssumption  == KeysOf \in [Party -> SUBSET Key]
ASSUME SignersAssumption == MaxSigners \in Nat \ {0}

VARIABLES
  pc,         \* where each call of boundWitness stands
  transfer,   \* the argument of doBoundWitness (first: the starting data)
  choice,     \* the choice the payloads are made for
  ledger,     \* the items of the session's bound witness
  sentFetter, \* hasSentFetter
  cycles,     \* the session's cycle counter
  signers,    \* the array of signers, shared by the session and the repository
  outbox,     \* what pipe.send is writing
  wire,       \* what is on its way to each party
  sock        \* each end of the connection

session == <<transfer, choice, ledger, sentFetter, cycles>>
vars == <<pc, session, signers, outbox, wire, sock>>

Peer(p) == IF p = Client THEN Server ELSE Client

Writing  == {"sendCatalog", "sendCycle"}
Awaiting == {"awaitChoice", "awaitCycle"}
Returned == {"block", "undefined"}

\* A catalogue or choice buffer: empty, or the flags of its first byte.
Flags   == {"BOUND_WITNESS", "TAKE_ORIGIN_CHAIN", "GIVE_ORIGIN_CHAIN"}
Choices == {<<>>} \cup {<<flags>> : flags \in SUBSET Flags}

\* Mutant: giving is not answered by taking.
FlipWithoutGive(c) ==
  CASE c = <<>> -> c
    [] c # <<>> /\ "TAKE_ORIGIN_CHAIN" \in c[1] -> <<{"GIVE_ORIGIN_CHAIN"}>>
    [] OTHER -> <<{"BOUND_WITNESS"}>>

Flip(c) ==
  CASE c = <<>> -> c
    [] c # <<>> /\ "TAKE_ORIGIN_CHAIN" \in c[1] -> <<{"GIVE_ORIGIN_CHAIN"}>>
    [] c # <<>> /\ "TAKE_ORIGIN_CHAIN" \notin c[1]
                /\ "GIVE_ORIGIN_CHAIN" \in c[1] -> <<{"TAKE_ORIGIN_CHAIN"}>>
    [] OTHER -> <<{"BOUND_WITNESS"}>>

ASSUME ChoicesAssumption == ServerChoices \subseteq Choices

\* The message kinds of the protocol; only a choice packet carries a choice.
Message(type, c, items) == [type |-> type, choice |-> c, items |-> items]

\* A transfer that may be undefined.
Undefined == [given |-> FALSE, items |-> <<>>]
Given(items) == [given |-> TRUE, items |-> items]

Init ==
  /\ pc = [p \in Party |-> "idle"]
  /\ transfer = [p \in Party |-> Undefined]
  /\ choice = [p \in Party |-> <<>>]
  /\ ledger = [p \in Party |-> <<>>]
  /\ sentFetter = [p \in Party |-> FALSE]
  /\ cycles = [p \in Party |-> 0]
  /\ signers \in {s \in [Party -> {<<k>> : k \in Key}] :
                    \A p \in Party : s[p][1] \in KeysOf[p]}
  /\ outbox = [p \in Party |-> Message("none", <<>>, <<>>)]
  /\ wire = [p \in Party |-> <<>>]
  /\ sock = [p \in Party |-> "open"]

-----------------------------------------------------------------------------
(* The steps a session takes between two awaits.                           *)

\* The call rejects inside boundWitness, which returns undefined.
Fail(p) ==
  /\ pc' = [pc EXCEPT ![p] = "undefined"]
  /\ UNCHANGED <<session, outbox>>

\* Mutants: the first cycle signs without a transfer; no cycle is an endpoint.
EndpointAtOnce(c, t) == c = 0
EndpointNever(c, t) == FALSE

\* Only the first cycle of a session that began with a transfer may sign
\* although nobody has signed before.
Endpoint(c, t) == c = 0 /\ t.given

\* doBoundWitness(t) in cycle c, up to the write it ends with or to its return.
DoBoundWitness(p, c, t) ==
  LET result == IncomingData(ledger[p], sentFetter[p], t.items,
                             Endpoint(c, t), p, signers[p])
  IN  IF IsCompleted(ledger[p])
      THEN /\ pc' = [pc EXCEPT ![p] = "block"]
           /\ cycles' = [cycles EXCEPT ![p] = c]
           /\ UNCHANGED <<transfer, choice, ledger, sentFetter, outbox>>
      ELSE IF ~result.ok THEN Fail(p)
      ELSE /\ pc' = [pc EXCEPT ![p] = "sendCycle"]
           /\ transfer' = [transfer EXCEPT ![p] = t]
           /\ ledger' = [ledger EXCEPT ![p] = result.ledger]
           /\ sentFetter' = [sentFetter EXCEPT ![p] = TRUE]
           /\ cycles' = [cycles EXCEPT ![p] = c]
           /\ outbox' = [outbox EXCEPT ![p] =
                IF c = 0 /\ ~t.given
                THEN Message("choice", Flip(choice[p]), result.out)
                ELSE Message("cycle", <<>>, result.out)]
           /\ UNCHANGED choice

\* doBoundWitness resumes with a response: the client's first cycle ends the
\* session whatever the ledger holds, any other goes round.
Resume(p, response) ==
  LET result == IncomingData(ledger[p], sentFetter[p], response.items,
                             FALSE, p, signers[p])
  IN  IF cycles[p] = 0 /\ transfer[p].given
      THEN IF ~result.ok THEN Fail(p)
           ELSE /\ pc' = [pc EXCEPT ![p] = "block"]
                /\ ledger' = [ledger EXCEPT ![p] = result.ledger]
                /\ UNCHANGED <<transfer, choice, sentFetter, cycles, outbox>>
      ELSE DoBoundWitness(p, cycles[p] + 1, response)

\* The start of handleBoundWitness: getPayloads is called for this choice.
AwaitPayloads(p, c, startingData) ==
  /\ pc' = [pc EXCEPT ![p] = "payloads"]
  /\ choice' = [choice EXCEPT ![p] = c]
  /\ transfer' = [transfer EXCEPT ![p] = startingData]
  /\ UNCHANGED <<ledger, sentFetter, cycles, outbox>>

-----------------------------------------------------------------------------
(* The calls of boundWitness.                                              *)

\* A node that opened the connection calls boundWitness.
StartClient ==
  /\ pc[Client] = "idle"
  /\ pc' = [pc EXCEPT ![Client] = "sendCatalog"]
  /\ outbox' = [outbox EXCEPT ![Client] = Message("catalog", <<>>, <<>>)]
  /\ UNCHANGED <<session, signers, wire, sock>>

\* The catalogue reaches the server network, whose callback calls boundWitness
\* on a pipe that carries it.
StartServer ==
  /\ pc[Server] = "idle" /\ sock[Server] = "open"
  /\ wire[Server] # <<>> /\ Head(wire[Server]).type = "catalog"
  /\ wire' = [wire EXCEPT ![Server] = Tail(@)]
  /\ \E serverChoice \in ServerChoices :
       AwaitPayloads(Server, Flip(serverChoice), Undefined)
  /\ UNCHANGED <<signers, sock>>

\* getPayloads resolves; the session is made and runs its first cycle.
MakeSession(p) ==
  /\ pc[p] = "payloads"
  /\ DoBoundWitness(p, 0, transfer[p])
  /\ UNCHANGED <<signers, wire, sock>>

\* pipe.send: the write is handed over and its callback runs.
Write(p) ==
  /\ pc[p] \in Writing /\ sock[p] = "open"
  /\ wire' = [wire EXCEPT ![Peer(p)] =
                IF sock[Peer(p)] = "open" THEN Append(@, outbox[p]) ELSE @]
  /\ UNCHANGED <<signers, sock>>

\* Mutant: every send waits.
WriteAndWaitAlways(p) ==
  /\ Write(p)
  /\ pc' = [pc EXCEPT ![p] = IF pc[p] = "sendCatalog" THEN "awaitChoice"
                             ELSE "awaitCycle"]
  /\ UNCHANGED <<session, outbox>>

\* send(data, true): the pipe goes on to wait for the next message.
WriteAndWait(p) ==
  /\ pc[p] = "sendCatalog" \/ cycles[p] = 0
  /\ Write(p)
  /\ pc' = [pc EXCEPT ![p] = IF pc[p] = "sendCatalog" THEN "awaitChoice"
                             ELSE "awaitCycle"]
  /\ UNCHANGED <<session, outbox>>

\* send(data, false): resolves undefined and the session goes round again.
WriteOnly(p) ==
  /\ pc[p] = "sendCycle" /\ cycles[p] > 0
  /\ Write(p)
  /\ Resume(p, Undefined)

\* send rejects: the write callback reports an error.
WriteFails(p) ==
  /\ pc[p] \in Writing /\ sock[p] = "closed"
  /\ Fail(p)
  /\ UNCHANGED <<signers, wire, sock>>

\* The client's wait resolves with the server's choice packet.
ReceiveChoice(p) ==
  /\ pc[p] = "awaitChoice"
  /\ wire[p] # <<>> /\ Head(wire[p]).type = "choice"
  /\ wire' = [wire EXCEPT ![p] = Tail(@)]
  /\ AwaitPayloads(p, Head(wire[p]).choice, Given(Head(wire[p]).items))
  /\ UNCHANGED <<signers, sock>>

\* A session's wait resolves with the peer's transfer.
ReceiveCycle(p) ==
  /\ pc[p] = "awaitCycle"
  /\ wire[p] # <<>> /\ Head(wire[p]).type = "cycle"
  /\ wire' = [wire EXCEPT ![p] = Tail(@)]
  /\ Resume(p, Given(Head(wire[p]).items))
  /\ UNCHANGED <<signers, sock>>

\* Mutant: no timer in a session.
TimeoutOfChoice(p) ==
  /\ pc[p] = "awaitChoice"
  /\ sock' = [sock EXCEPT ![p] = "closed"]
  /\ wire' = [wire EXCEPT ![p] = <<>>]
  /\ Fail(p)
  /\ UNCHANGED signers

\* The 7.5 s timer of waitForMessage: destroys the socket and rejects.
Timeout(p) ==
  /\ pc[p] \in Awaiting
  /\ sock' = [sock EXCEPT ![p] = "closed"]
  /\ wire' = [wire EXCEPT ![p] = <<>>]
  /\ Fail(p)
  /\ UNCHANGED signers

-----------------------------------------------------------------------------
(* What happens around the calls.                                          *)

\* The connection ends at p: the peer closed or destroyed it, or the network
\* broke.  Messages not yet received are lost and a pending wait rejects.
SocketCloses(p) ==
  /\ sock[p] = "open"
  /\ sock' = [sock EXCEPT ![p] = "closed"]
  /\ wire' = [wire EXCEPT ![p] = <<>>]
  /\ IF pc[p] \in Awaiting THEN Fail(p) ELSE UNCHANGED <<pc, session, outbox>>
  /\ UNCHANGED signers

\* The application closes the pipe once its call returned.
Close(p) ==
  /\ pc[p] \in Returned /\ sock[p] = "open"
  /\ sock' = [sock EXCEPT ![p] = "closed"]
  /\ wire' = [wire EXCEPT ![p] = <<>>]
  /\ UNCHANGED <<pc, session, outbox, signers>>

\* The origin state adds a signer to the repository's array, or drops its
\* oldest; the session was handed that very array.
AddSigner(p) ==
  /\ Len(signers[p]) < MaxSigners
  /\ \E k \in KeysOf[p] \ {signers[p][i] : i \in DOMAIN signers[p]} :
       signers' = [signers EXCEPT ![p] = Append(@, k)]
  /\ UNCHANGED <<pc, session, outbox, wire, sock>>

RemoveOldestSigner(p) ==
  /\ signers[p] # <<>>
  /\ signers' = [signers EXCEPT ![p] = Tail(@)]
  /\ UNCHANGED <<pc, session, outbox, wire, sock>>

\* What the event loop of p does of its own accord.
Progress(p) ==
  \/ p = Server /\ StartServer
  \/ MakeSession(p)
  \/ WriteAndWait(p)
  \/ WriteOnly(p)
  \/ WriteFails(p)
  \/ ReceiveChoice(p)
  \/ ReceiveCycle(p)
  \/ Timeout(p)

Next ==
  \/ StartClient
  \/ \E p \in Party :
       \/ Progress(p)
       \/ SocketCloses(p)
       \/ Close(p)
       \/ AddSigner(p)
       \/ RemoveOldestSigner(p)

Fairness == \A p \in Party : WF_vars(Progress(p))

Spec == Init /\ [][Next]_vars /\ Fairness

-----------------------------------------------------------------------------
(* Properties.                                                             *)

Sent(items) == items \in Seq(Items)

TypeOK ==
  /\ pc \in [Party -> {"idle", "payloads"} \cup Writing \cup Awaiting \cup Returned]
  /\ choice \in [Party -> Choices]
  /\ sentFetter \in [Party -> BOOLEAN]
  /\ cycles \in [Party -> Nat]
  /\ sock \in [Party -> {"open", "closed"}]
  /\ \A p \in Party :
       /\ signers[p] \in Seq(KeysOf[p])
       /\ Sent(ledger[p])
       /\ transfer[p].given \in BOOLEAN /\ Sent(transfer[p].items)
       /\ \A i \in DOMAIN wire[p] :
            wire[p][i].choice \in Choices /\ Sent(wire[p][i].items)

\* A client that got its block leaves no server without one: the server's
\* ledger is completed and the same, whatever was lost since.
Agreement ==
  pc[Client] = "block" => /\ IsCompleted(ledger[Server])
                          /\ ledger[Server] = ledger[Client]

\* boundWitness never returns a block a witness is missing from, although
\* the client returns without asking getIsCompleted.
ReturnedBlockIsCompleted ==
  \A p \in Party : pc[p] = "block" => IsCompleted(ledger[p])

\* Nobody signs part of an agreement: what a witness in a ledger signs, were it
\* with no signature at all, is the fetters of both parties, in the ledger's
\* order, and nothing else.
SignaturesCoverBothFetters ==
  \A p \in Party : \A i \in Positions(ledger[p], "witness") :
    LET signed == ledger[p][i].signed
    IN  /\ signed = SubSeq(ledger[p], 1, 2)
        /\ {signed[j].of : j \in DOMAIN signed} = Party
        /\ \A j \in DOMAIN signed : signed[j].kind = "fetter"

\* The server commits second: its signature exists only where the client's
\* over the same fetters does.
ServerSignsLast ==
  \A i \in Positions(ledger[Server], "witness") :
    ledger[Server][i].of = Server =>
      \E j \in 1 .. i - 1 : /\ ledger[Server][j].kind = "witness"
                            /\ ledger[Server][j].of = Client
                            /\ ledger[Server][j].signed = ledger[Server][i].signed

\* Witnesses come in reverse order, which getWitnessOfParty undoes.
WitnessMatchesFetter ==
  \A p \in Party :
    \A i \in 1 .. NumberOfParties(ledger[p]) :
      WitnessOfParty(ledger[p], i).of = FetterOfParty(ledger[p], i).of

\* The client announces its keys and signs with them in one turn: its witness
\* has the signatures of exactly the keys of its fetter, whatever happens to
\* the signers meanwhile.
ClientKeysMatchSignatures ==
  \A p \in Party :
    \A i \in 1 .. NumberOfParties(ledger[p]) :
      FetterOfParty(ledger[p], i).of = Client =>
        WitnessOfParty(ledger[p], i).sigs = FetterOfParty(ledger[p], i).keys

\* The parties make payloads for opposite roles: one gives what the other takes.
RolesComplement ==
  pc[Client] \notin {"idle", "sendCatalog", "awaitChoice", "undefined"} =>
    <<choice[Client], choice[Server]>> \in
      {<<<<>>, <<>>>>,
       <<<<{"BOUND_WITNESS"}>>, <<{"BOUND_WITNESS"}>>>>,
       <<<<{"TAKE_ORIGIN_CHAIN"}>>, <<{"GIVE_ORIGIN_CHAIN"}>>>>,
       <<<<{"GIVE_ORIGIN_CHAIN"}>>, <<{"TAKE_ORIGIN_CHAIN"}>>>>}

\* Every call of boundWitness returns, whatever the connection does.
EveryCallReturns ==
  \A p \in Party : pc[p] # "idle" ~> pc[p] \in Returned

\* No standstill: over an open connection a party waits only while a message
\* is on its way or the other side is still to send one.
NobodyWaitsInVain ==
  \A p \in Party :
    pc[p] \in Awaiting /\ (\A q \in Party : sock[q] = "open") =>
      \/ wire[p] # <<>>
      \/ pc[Peer(p)] \in Writing \cup {"payloads"}
      \/ pc[Peer(p)] \in Awaiting \cup {"idle"} /\ wire[Peer(p)] # <<>>

\* The session implements the two-party exchange.  The first party is the
\* server, whose fetter opens the ledger; a party has made its offer when its
\* own ledger holds its fetter and has signed when it holds its witness.
Own(l, p, kind) == {i \in Positions(l, kind) : l[i].of = p}
OfferIn(l, p) ==
  IF Own(l, p, "fetter") = {} THEN <<>> ELSE l[CHOOSE i \in Own(l, p, "fetter") : TRUE]
SignedIn(l, p) ==
  IF Own(l, p, "witness") = {} THEN <<>>
  ELSE l[CHOOSE i \in Own(l, p, "witness") : TRUE].signed

theOffers == [p \in Party |-> OfferIn(ledger[p], p)]
theSigned == [p \in Party |-> SignedIn(ledger[p], p)]
theHeld   == [p \in Party |-> IF pc[p] \in Returned THEN pc[p] ELSE "nothing"]
AllOffers == {FetterFrom(p, keys) : p \in Party,
                keys \in UNION {[1 .. n -> Key] : n \in 0 .. MaxSigners}}

Exchange == INSTANCE BoundWitnessExchange WITH
  First  <- Server,
  Second <- Client,
  Offers <- AllOffers,
  None   <- <<>>,
  offer  <- theOffers,
  signed <- theSigned,
  held   <- theHeld

ImplementsExchange == Exchange!Spec

-----------------------------------------------------------------------------
(* What the code says of itself and does not keep.                         *)

\* "[party index][key index]": the signatures at a party's index are made with
\* that party's keys.
SignaturesIndexedByParty ==
  \A p \in Party : IsCompleted(ledger[p]) =>
    \A i \in DOMAIN Signatures(ledger[p]) : \A j \in DOMAIN Signatures(ledger[p])[i] :
      Signatures(ledger[p])[i][j] \in KeysOf[FetterOfParty(ledger[p], i).of]

\* "[party index][key index]": a party's j-th signature is made with its j-th key.
SignaturesIndexedByKey ==
  \A p \in Party :
    \A i \in 1 .. NumberOfParties(ledger[p]) :
      WitnessOfParty(ledger[p], i).sigs = FetterOfParty(ledger[p], i).keys
=============================================================================
