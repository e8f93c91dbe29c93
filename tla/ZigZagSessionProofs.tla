------------------------ MODULE ZigZagSessionProofs ------------------------
(***************************************************************************)
(* The safety of ZigZagSession, for every catalogue of the server, every   *)
(* set of keys and every sequence of signers.                              *)
(*                                                                         *)
(* The argument is one inductive invariant.  The protocol has twelve       *)
(* phases, and each party either is where the phase puts it or has failed  *)
(* with its socket closed.  A party that fails freezes what it holds, and  *)
(* the other goes on to its next wait: that is why the ledgers, the cycle  *)
(* counters and the messages on their way depend on the phase alone.       *)
(*                                                                         *)
(* At the end: ZigZagSession implements BoundWitnessExchange.              *)
(***************************************************************************)
EXTENDS ZigZagSession, BoundWitnessLemmas

-----------------------------------------------------------------------------
(* The phases.                                                             *)

\* The fetters and the signatures of one run: the keys the server and the
\* client announced, and those the server signed with.
ServerFetter(ks) == FetterFrom(Server, ks)
ClientFetter(kc) == FetterFrom(Client, kc)
TheAnswer(ks, kc)    == Answered(ServerFetter(ks), ClientFetter(kc))
TheBlock(ks, kc, k)  == Agreed(ServerFetter(ks), ClientFetter(kc), k)

ServerPc(n) ==
  IF n <= 2 THEN "idle" ELSE IF n = 3 THEN "payloads" ELSE IF n = 4 THEN "sendCycle"
  ELSE IF n <= 8 THEN "awaitCycle" ELSE IF n = 9 THEN "sendCycle" ELSE "block"

ClientPc(n) ==
  IF n = 0 THEN "idle" ELSE IF n = 1 THEN "sendCatalog" ELSE IF n <= 5 THEN "awaitChoice"
  ELSE IF n = 6 THEN "payloads" ELSE IF n = 7 THEN "sendCycle"
  ELSE IF n <= 10 THEN "awaitCycle" ELSE "block"

\* Where the calls stand.  A call returns without a block only after its
\* socket closed.
ControlAt(n) ==
  /\ pc[Server] \in {ServerPc(n), "undefined"}
  /\ pc[Client] \in {ClientPc(n), "undefined"}
  /\ n <= 3 => sentFetter[Server] = FALSE
  /\ n >= 4 => sentFetter[Server] = TRUE
  /\ n <= 6 => sentFetter[Client] = FALSE
  /\ n >= 7 => sentFetter[Client] = TRUE
  /\ cycles[Server] = (IF n <= 8 THEN 0 ELSE IF n = 9 THEN 1 ELSE 2)
  /\ cycles[Client] = 0
  /\ \A p \in Party : sock[p] \in {"open", "closed"}
  /\ \A p \in Party : pc[p] = "undefined" => sock[p] = "closed"

LedgersAt(n, ks, kc, k) ==
  /\ ledger[Server] = (IF n <= 3 THEN <<>> ELSE IF n <= 8 THEN <<ServerFetter(ks)>>
                       ELSE TheBlock(ks, kc, k))
  /\ ledger[Client] = (IF n <= 6 THEN <<>> ELSE IF n <= 10 THEN TheAnswer(ks, kc)
                       ELSE TheBlock(ks, kc, k))

\* The packets of a run.
Catalog == Message("catalog", <<>>, <<>>)
Offer(ks) == Message("choice", Flip(choice[Server]), <<ServerFetter(ks)>>)
Answer(ks, kc) ==
  Message("cycle", <<>>, <<ClientFetter(kc),
                           SecondWitness(ServerFetter(ks), ClientFetter(kc))>>)
Countersignature(ks, kc, k) ==
  Message("cycle", <<>>, <<FirstWitness(ServerFetter(ks), ClientFetter(kc), k)>>)

TransfersAt(n, ks, kc) ==
  /\ transfer[Server] = (IF n <= 8 THEN Undefined ELSE Given(Answer(ks, kc).items))
  /\ transfer[Client] = (IF n <= 5 THEN Undefined ELSE Given(<<ServerFetter(ks)>>))

ChoicesAt(n) ==
  /\ n <= 2 => choice[Server] = <<>>
  /\ n >= 3 => \E c \in ServerChoices : choice[Server] = Flip(c)
  /\ choice[Client] = (IF n <= 5 THEN <<>> ELSE Flip(choice[Server]))

OutboxesAt(n, ks, kc, k) ==
  /\ n = 1 => outbox[Client] = Catalog
  /\ n = 4 => outbox[Server] = Offer(ks)
  /\ n = 7 => outbox[Client] = Answer(ks, kc)
  /\ n = 9 => outbox[Server] = Countersignature(ks, kc, k)

\* An open end holds the one message of the phase, a closed one has lost it.
WiresAt(n, ks, kc, k) ==
  /\ wire[Server] = (IF sock[Server] # "open" THEN <<>>
                     ELSE IF n = 2 THEN <<Catalog>>
                     ELSE IF n = 8 THEN <<Answer(ks, kc)>> ELSE <<>>)
  /\ wire[Client] = (IF sock[Client] # "open" THEN <<>>
                     ELSE IF n = 5 THEN <<Offer(ks)>>
                     ELSE IF n = 10 THEN <<Countersignature(ks, kc, k)>> ELSE <<>>)

Phase(n, ks, kc, k) ==
  /\ ControlAt(n)
  /\ LedgersAt(n, ks, kc, k)
  /\ TransfersAt(n, ks, kc)
  /\ ChoicesAt(n)
  /\ OutboxesAt(n, ks, kc, k)
  /\ WiresAt(n, ks, kc, k)

Phased ==
  \E n \in 0 .. 11 : \E ks \in Seq(KeysOf[Server]) : \E kc \in Seq(KeysOf[Client]) :
    \E k \in Seq(KeysOf[Server]) : Phase(n, ks, kc, k)

SignersOK ==
  \A p \in Party : signers[p] \in Seq(KeysOf[p]) /\ Len(signers[p]) <= MaxSigners

Shaped ==
  /\ pc = [p \in Party |-> pc[p]] /\ transfer = [p \in Party |-> transfer[p]]
  /\ choice = [p \in Party |-> choice[p]] /\ ledger = [p \in Party |-> ledger[p]]
  /\ sentFetter = [p \in Party |-> sentFetter[p]] /\ cycles = [p \in Party |-> cycles[p]]
  /\ signers = [p \in Party |-> signers[p]] /\ outbox = [p \in Party |-> outbox[p]]
  /\ wire = [p \in Party |-> wire[p]] /\ sock = [p \in Party |-> sock[p]]

IInv == Shaped /\ SignersOK /\ Phased

-----------------------------------------------------------------------------
(* The invariant holds at the start.                                       *)

LEMMA PartyFacts ==
  /\ Server \in Party /\ Client \in Party /\ Server # Client
  /\ \A p \in Party : p = Server \/ p = Client
  /\ Peer(Server) = Client /\ Peer(Client) = Server
  BY PartyAssumption DEF Peer

LEMMA InitInvariant == Init => IInv
  <1> SUFFICES ASSUME Init PROVE IInv
    OBVIOUS
  <1> USE PartyFacts
  <1>1. Shaped
    BY DEF Init, Shaped
  <1>2. SignersOK
    <2> SUFFICES ASSUME NEW p \in Party
                 PROVE  signers[p] \in Seq(KeysOf[p]) /\ Len(signers[p]) <= MaxSigners
      BY DEF SignersOK
    <2>1. PICK x \in Key : signers[p] = <<x>>
      BY DEF Init
    <2>2. x \in KeysOf[p]
      BY <2>1 DEF Init
    <2>3. <<x>> \in Seq(KeysOf[p]) /\ Len(<<x>>) = 1
      <3> DEFINE S == KeysOf[p]
      <3>1. x \in S
        BY <2>2
      <3> HIDE DEF S
      <3>2. <<x>> \in Seq(S) /\ Len(<<x>>) = 1
        BY <3>1
      <3> QED
        BY <3>2 DEF S
    <2> QED
      BY <2>1, <2>3, SignersAssumption
  <1>3. Phased
    <2>1. <<>> \in Seq(KeysOf[Server]) /\ <<>> \in Seq(KeysOf[Client])
      OBVIOUS
    <2>2. ControlAt(0)
      BY DEF Init, ControlAt, ServerPc, ClientPc
    <2>3. /\ LedgersAt(0, <<>>, <<>>, <<>>) /\ TransfersAt(0, <<>>, <<>>)
          /\ ChoicesAt(0) /\ OutboxesAt(0, <<>>, <<>>, <<>>)
          /\ WiresAt(0, <<>>, <<>>, <<>>)
      BY DEF Init, LedgersAt, TransfersAt, ChoicesAt, OutboxesAt, WiresAt
    <2>4. Phase(0, <<>>, <<>>, <<>>)
      BY <2>2, <2>3 DEF Phase
    <2>5. 0 \in 0 .. 11
      OBVIOUS
    <2> QED
      BY <2>1, <2>4, <2>5, Zenon DEF Phased
  <1> QED
    BY <1>1, <1>2, <1>3 DEF IInv

-----------------------------------------------------------------------------
(* Every step keeps the variables functions of the parties, and the        *)
(* signers the keys of their party.                                        *)

LEMMA StepShaped ==
  ASSUME Shaped, [Next]_vars
  PROVE  Shaped'
  <1> USE DEF Shaped
  <1>1. ASSUME StartClient PROVE Shaped'
    BY <1>1 DEF StartClient, session
  <1>2. ASSUME NEW p \in Party, NEW c, NEW t, DoBoundWitness(p, c, t)
        PROVE  /\ pc' = [q \in Party |-> pc'[q]]
               /\ transfer' = [q \in Party |-> transfer'[q]]
               /\ choice' = [q \in Party |-> choice'[q]]
               /\ ledger' = [q \in Party |-> ledger'[q]]
               /\ sentFetter' = [q \in Party |-> sentFetter'[q]]
               /\ cycles' = [q \in Party |-> cycles'[q]]
               /\ outbox' = [q \in Party |-> outbox'[q]]
    BY <1>2 DEF DoBoundWitness, Fail, session
  <1>3. ASSUME NEW p \in Party, NEW t, Resume(p, t)
        PROVE  /\ pc' = [q \in Party |-> pc'[q]]
               /\ transfer' = [q \in Party |-> transfer'[q]]
               /\ choice' = [q \in Party |-> choice'[q]]
               /\ ledger' = [q \in Party |-> ledger'[q]]
               /\ sentFetter' = [q \in Party |-> sentFetter'[q]]
               /\ cycles' = [q \in Party |-> cycles'[q]]
               /\ outbox' = [q \in Party |-> outbox'[q]]
    <2>1. CASE DoBoundWitness(p, cycles[p] + 1, t)
      BY <2>1, <1>2
    <2>2. CASE ~DoBoundWitness(p, cycles[p] + 1, t)
      BY <2>2, <1>3 DEF Resume, Fail, session
    <2> QED
      BY <2>1, <2>2
  <1>4. ASSUME NEW p \in Party, Progress(p) PROVE Shaped'
    <2>1. CASE StartServer
      BY <2>1 DEF StartServer, AwaitPayloads
    <2>2. CASE MakeSession(p)
      BY <2>2, <1>2 DEF MakeSession
    <2>3. CASE WriteAndWait(p)
      BY <2>3 DEF WriteAndWait, Write, session
    <2>4. CASE WriteOnly(p)
      BY <2>4, <1>3 DEF WriteOnly, Write
    <2>5. CASE WriteFails(p)
      BY <2>5 DEF WriteFails, Fail, session
    <2>6. CASE ReceiveChoice(p)
      BY <2>6 DEF ReceiveChoice, AwaitPayloads
    <2>7. CASE ReceiveCycle(p)
      BY <2>7, <1>3 DEF ReceiveCycle
    <2>8. CASE Timeout(p)
      BY <2>8 DEF Timeout, Fail, session
    <2> QED
      BY <1>4, <2>1, <2>2, <2>3, <2>4, <2>5, <2>6, <2>7, <2>8 DEF Progress
  <1>5. ASSUME NEW p \in Party, SocketCloses(p) PROVE Shaped'
    BY <1>5 DEF SocketCloses, Fail, session
  <1>6. ASSUME NEW p \in Party, Close(p) \/ AddSigner(p) \/ RemoveOldestSigner(p)
        PROVE  Shaped'
    BY <1>6 DEF Close, AddSigner, RemoveOldestSigner, session
  <1>7. CASE UNCHANGED vars
    BY <1>7 DEF vars, session
  <1> QED
    BY <1>1, <1>4, <1>5, <1>6, <1>7 DEF Next

LEMMA SignersKept ==
  ASSUME [Next]_vars
  PROVE  \/ signers' = signers
         \/ \E p \in Party : AddSigner(p) \/ RemoveOldestSigner(p)
  <1>1. CASE StartClient
    BY <1>1 DEF StartClient
  <1>2. ASSUME NEW p \in Party, Progress(p) PROVE signers' = signers
    BY <1>2 DEF Progress, StartServer, MakeSession, WriteAndWait, WriteOnly, Write,
                WriteFails, ReceiveChoice, ReceiveCycle, Timeout
  <1>3. ASSUME NEW p \in Party, SocketCloses(p) \/ Close(p) PROVE signers' = signers
    BY <1>3 DEF SocketCloses, Close
  <1>4. CASE UNCHANGED vars
    BY <1>4 DEF vars
  <1> QED
    BY <1>1, <1>2, <1>3, <1>4 DEF Next

LEMMA StepSigners ==
  ASSUME Shaped, SignersOK, [Next]_vars
  PROVE  SignersOK'
  <1>1. CASE signers' = signers
    BY <1>1 DEF SignersOK
  <1>2. ASSUME NEW p \in Party, AddSigner(p) PROVE SignersOK'
    <2>1. PICK x \in KeysOf[p] : signers' = [signers EXCEPT ![p] = Append(@, x)]
      BY <1>2 DEF AddSigner
    <2>2. signers[p] \in Seq(KeysOf[p]) /\ Len(signers[p]) < MaxSigners
      BY <1>2 DEF AddSigner, SignersOK
    <2>3. /\ Append(signers[p], x) \in Seq(KeysOf[p])
          /\ Len(Append(signers[p], x)) <= MaxSigners
      <3>1. /\ Append(signers[p], x) \in Seq(KeysOf[p])
            /\ Len(Append(signers[p], x)) = Len(signers[p]) + 1
        <4> DEFINE S == KeysOf[p]
                   s == signers[p]
        <4>1. s \in Seq(S) /\ x \in S
          BY <2>2
        <4> HIDE DEF S, s
        <4>2. Append(s, x) \in Seq(S) /\ Len(Append(s, x)) = Len(s) + 1
          BY <4>1, AppendProperties
        <4> QED
          BY <4>2 DEF S, s
      <3>2. Len(signers[p]) \in Nat
        BY <2>2
      <3> QED
        BY <2>2, <3>1, <3>2, SignersAssumption
    <2> QED
      BY <2>1, <2>3 DEF SignersOK, Shaped
  <1>3. ASSUME NEW p \in Party, RemoveOldestSigner(p) PROVE SignersOK'
    <2>1. signers[p] # <<>> /\ signers' = [signers EXCEPT ![p] = Tail(@)]
      BY <1>3 DEF RemoveOldestSigner
    <2>2. /\ Tail(signers[p]) \in Seq(KeysOf[p])
          /\ Len(Tail(signers[p])) <= MaxSigners
      <3>1. signers[p] \in Seq(KeysOf[p]) /\ Len(signers[p]) <= MaxSigners
        BY DEF SignersOK
      <3>2. /\ Tail(signers[p]) \in Seq(KeysOf[p])
            /\ Len(Tail(signers[p])) = Len(signers[p]) - 1
        BY <2>1, <3>1, HeadTailProperties
      <3>3. Len(signers[p]) \in Nat
        BY <3>1
      <3> QED
        BY <3>1, <3>2, <3>3, SignersAssumption
    <2> QED
      BY <2>1, <2>2 DEF SignersOK, Shaped
  <1> QED
    BY <1>1, <1>2, <1>3, SignersKept

-----------------------------------------------------------------------------
(* Every step keeps the phase or moves to the next one.                    *)

\* A failure, a close and a change of the signers keep it.
LEMMA LossKeepsPhase ==
  ASSUME NEW n \in 0 .. 11, NEW ks, NEW kc, NEW k, NEW p \in Party,
         Shaped, Phase(n, ks, kc, k), UNCHANGED <<session, outbox>>,
         \/ pc' = pc
         \/ pc' = [pc EXCEPT ![p] = "undefined"] /\ sock'[p] = "closed",
         \/ UNCHANGED <<sock, wire>>
         \/ /\ sock' = [sock EXCEPT ![p] = "closed"]
            /\ wire' = [wire EXCEPT ![p] = <<>>]
  PROVE  Phase(n, ks, kc, k)'
  <1> USE PartyFacts DEF Shaped, session
  <1>1. ControlAt(n)'
    BY DEF Phase, ControlAt
  <1>2. LedgersAt(n, ks, kc, k)' /\ TransfersAt(n, ks, kc)' /\ ChoicesAt(n)'
    BY DEF Phase, LedgersAt, TransfersAt, ChoicesAt
  <1>3. OutboxesAt(n, ks, kc, k)'
    BY DEF Phase, OutboxesAt, Offer
  <1>4. WiresAt(n, ks, kc, k)'
    BY DEF Phase, WiresAt, Offer
  <1> QED
    BY <1>1, <1>2, <1>3, <1>4 DEF Phase

LEMMA LossStep ==
  ASSUME NEW n \in 0 .. 11, NEW ks, NEW kc, NEW k, NEW p \in Party,
         Shaped, Phase(n, ks, kc, k),
         \/ WriteFails(p) \/ Timeout(p) \/ SocketCloses(p) \/ Close(p)
         \/ AddSigner(p) \/ RemoveOldestSigner(p) \/ UNCHANGED vars
  PROVE  Phase(n, ks, kc, k)'
  <1>1. UNCHANGED <<session, outbox>>
    BY DEF WriteFails, Timeout, SocketCloses, Close, AddSigner, RemoveOldestSigner,
           Fail, vars
  <1>2. \/ pc' = pc
        \/ pc' = [pc EXCEPT ![p] = "undefined"] /\ sock'[p] = "closed"
    BY DEF WriteFails, Timeout, SocketCloses, Close, AddSigner, RemoveOldestSigner,
           Fail, vars, Shaped
  <1>3. \/ UNCHANGED <<sock, wire>>
        \/ /\ sock' = [sock EXCEPT ![p] = "closed"]
           /\ wire' = [wire EXCEPT ![p] = <<>>]
    BY DEF WriteFails, Timeout, SocketCloses, Close, AddSigner, RemoveOldestSigner, vars
  <1> QED
    BY <1>1, <1>2, <1>3, LossKeepsPhase

\* What the lemmas about ledgers ask for.
LEMMA FetterFacts ==
  ASSUME NEW ks \in Seq(KeysOf[Server]), NEW kc \in Seq(KeysOf[Client])
  PROVE  /\ ks \in Seq(Key) /\ kc \in Seq(Key)
         /\ ServerFetter(ks) \in Fetters /\ ServerFetter(ks).of = Server
         /\ ClientFetter(kc) \in Fetters /\ ClientFetter(kc).of = Client
         /\ ServerFetter(ks).keys = ks /\ ClientFetter(kc).keys = kc
  <1>1. KeysOf[Server] \subseteq Key /\ KeysOf[Client] \subseteq Key
    BY PartyFacts, KeysAssumption
  <1>2. ks \in Seq(Key) /\ kc \in Seq(Key)
    BY <1>1
  <1> QED
    BY <1>2, PartyFacts DEF ServerFetter, ClientFetter, FetterFrom, Fetters

\* A turn that neither finds the ledger completed nor throws.
Turn(p, c, t) ==
  IncomingData(ledger[p], sentFetter[p], t.items, Endpoint(c, t), p, signers[p])

LEMMA TurnTaken ==
  ASSUME NEW p \in Party, NEW c, NEW t, DoBoundWitness(p, c, t),
         ~IsCompleted(ledger[p]), Turn(p, c, t).ok
  PROVE  /\ pc' = [pc EXCEPT ![p] = "sendCycle"]
         /\ transfer' = [transfer EXCEPT ![p] = t]
         /\ ledger' = [ledger EXCEPT ![p] = Turn(p, c, t).ledger]
         /\ sentFetter' = [sentFetter EXCEPT ![p] = TRUE]
         /\ cycles' = [cycles EXCEPT ![p] = c]
         /\ outbox' = [outbox EXCEPT ![p] =
              IF c = 0 /\ ~t.given THEN Message("choice", Flip(choice[p]), Turn(p, c, t).out)
              ELSE Message("cycle", <<>>, Turn(p, c, t).out)]
         /\ choice' = choice
  BY DEF DoBoundWitness, Turn

LEMMA StartClientStep ==
  ASSUME NEW n \in 0 .. 11, NEW ks, NEW kc, NEW k,
         Shaped, Phase(n, ks, kc, k), StartClient
  PROVE  /\ n = 0
         /\ Phase(1, ks, kc, k)'
         /\ pc' = [pc EXCEPT ![Client] = "sendCatalog"]
  <1> USE PartyFacts DEF Shaped, session
  <1>1. n = 0
    BY DEF StartClient, Phase, ControlAt, ClientPc
  <1>2. ControlAt(1)'
    BY <1>1 DEF StartClient, Phase, ControlAt, ServerPc, ClientPc
  <1>3. LedgersAt(1, ks, kc, k)' /\ TransfersAt(1, ks, kc)' /\ ChoicesAt(1)'
    BY <1>1 DEF StartClient, Phase, LedgersAt, TransfersAt, ChoicesAt
  <1>4. OutboxesAt(1, ks, kc, k)'
    BY DEF StartClient, OutboxesAt, Catalog
  <1>5. WiresAt(1, ks, kc, k)'
    BY <1>1 DEF StartClient, Phase, WiresAt
  <1> QED
    BY <1>1, <1>2, <1>3, <1>4, <1>5 DEF Phase, StartClient

LEMMA StartServerStep ==
  ASSUME NEW n \in 0 .. 11, NEW ks, NEW kc, NEW k,
         Shaped, Phase(n, ks, kc, k), StartServer
  PROVE  /\ n = 2
         /\ Phase(3, ks, kc, k)'
         /\ pc' = [pc EXCEPT ![Server] = "payloads"]
  <1> USE PartyFacts DEF Shaped
  <1>1. n = 2
    <2>1. n <= 2
      BY DEF StartServer, Phase, ControlAt, ServerPc
    <2> QED
      BY <2>1 DEF StartServer, Phase, WiresAt
  <1>2. PICK c \in ServerChoices : AwaitPayloads(Server, Flip(c), Undefined)
    BY DEF StartServer
  <1>3. /\ pc' = [pc EXCEPT ![Server] = "payloads"]
        /\ transfer' = [transfer EXCEPT ![Server] = Undefined]
        /\ UNCHANGED <<ledger, sentFetter, cycles, sock>>
    BY <1>2 DEF StartServer, AwaitPayloads
  <1>4. ControlAt(3)' /\ LedgersAt(3, ks, kc, k)' /\ TransfersAt(3, ks, kc)'
    <2>1. ControlAt(2) /\ LedgersAt(2, ks, kc, k) /\ TransfersAt(2, ks, kc)
      BY <1>1 DEF Phase
    <2>2. ControlAt(3)'
      <3>1. pc'[Server] = "payloads" /\ pc'[Client] = pc[Client]
        BY <1>3
      <3>2. sock[Server] = "open"
        BY DEF StartServer
      <3> HIDE DEF Shaped
      <3> QED
        BY <1>3, <2>1, <3>1, <3>2 DEF ControlAt, ServerPc, ClientPc
    <2>3. LedgersAt(3, ks, kc, k)'
      BY <1>3, <2>1 DEF LedgersAt
    <2>4. TransfersAt(3, ks, kc)'
      <3> HIDE DEF Undefined
      <3> QED
        BY <1>3, <2>1 DEF TransfersAt
    <2> QED
      BY <2>2, <2>3, <2>4
  <1>5. ChoicesAt(3)'
    BY <1>1, <1>2 DEF AwaitPayloads, Phase, ChoicesAt
  <1>6. OutboxesAt(3, ks, kc, k)'
    BY DEF OutboxesAt
  <1>7. WiresAt(3, ks, kc, k)'
    <2>1. wire[Server] = <<Catalog>> /\ Tail(<<Catalog>>) = <<>>
      BY <1>1 DEF StartServer, Phase, WiresAt
    <2> QED
      BY <1>1, <2>1 DEF StartServer, Phase, WiresAt
  <1> QED
    BY <1>1, <1>3, <1>4, <1>5, <1>6, <1>7 DEF Phase

\* The server announces the keys it holds now.
LEMMA ServerOffersStep ==
  ASSUME NEW n \in 0 .. 11, NEW ks, NEW kc, NEW k, NEW s \in Seq(Key),
         s = signers[Server], Shaped, Phase(n, ks, kc, k), MakeSession(Server)
  PROVE  /\ n = 3
         /\ Phase(4, s, kc, k)'
         /\ pc' = [pc EXCEPT ![Server] = "sendCycle"]
  <1> DEFINE r == Turn(Server, 0, Undefined)
             a == <<ServerFetter(s)>>
  <1> USE PartyFacts DEF Shaped
  <1>1. n = 3
    BY DEF MakeSession, Phase, ControlAt, ServerPc
  <1>2. /\ ControlAt(3) /\ LedgersAt(3, ks, kc, k) /\ TransfersAt(3, ks, kc)
        /\ ChoicesAt(3) /\ WiresAt(3, ks, kc, k)
    BY <1>1 DEF Phase
  <1>3. ledger[Server] = <<>> /\ sentFetter[Server] = FALSE /\ transfer[Server] = Undefined
    BY <1>2 DEF LedgersAt, ControlAt, TransfersAt
  <1>4. Undefined.items = <<>> /\ ~Undefined.given /\ Endpoint(0, Undefined) = FALSE
    BY DEF Undefined, Endpoint
  <1>5. r = IncomingData(<<>>, FALSE, <<>>, FALSE, Server, s)
    BY <1>3, <1>4 DEF Turn
  <1>6. r.ok /\ r.ledger = a /\ r.out = a
    <2> HIDE DEF r, Shaped
    <2>1. ServerFetter(s) = FetterFrom(Server, s)
      BY DEF ServerFetter
    <2>2. r.ok /\ r.ledger = <<FetterFrom(Server, s)>> /\ r.out = <<FetterFrom(Server, s)>>
      BY <1>5, IncomingNothing
    <2> QED
      BY <2>1, <2>2
  <1>7. ~IsCompleted(ledger[Server]) /\ DoBoundWitness(Server, 0, Undefined)
    BY <1>3, CountEmpty DEF IsCompleted, MakeSession
  <1> HIDE DEF r, a, Undefined
  <1>8. /\ pc' = [pc EXCEPT ![Server] = "sendCycle"]
        /\ transfer' = [transfer EXCEPT ![Server] = Undefined]
        /\ ledger' = [ledger EXCEPT ![Server] = r.ledger]
        /\ sentFetter' = [sentFetter EXCEPT ![Server] = TRUE]
        /\ cycles' = [cycles EXCEPT ![Server] = 0]
        /\ outbox' = [outbox EXCEPT ![Server] =
             Message("choice", Flip(choice[Server]), r.out)]
        /\ choice' = choice /\ sock' = sock /\ wire' = wire
    BY <1>4, <1>6, <1>7, TurnTaken DEF MakeSession, r
  <1>9. ControlAt(4)'
    <2>1. /\ pc'[Server] = "sendCycle" /\ pc'[Client] = pc[Client]
          /\ sentFetter'[Server] = TRUE /\ sentFetter'[Client] = sentFetter[Client]
          /\ cycles'[Server] = 0 /\ cycles'[Client] = cycles[Client]
      BY <1>8
    <2> HIDE DEF Shaped
    <2> QED
      BY <1>2, <1>8, <2>1 DEF ControlAt, ServerPc, ClientPc
  <1>10. LedgersAt(4, s, kc, k)'
    <2>1. ledger'[Server] = r.ledger /\ ledger'[Client] = ledger[Client]
      BY <1>8
    <2> HIDE DEF Shaped
    <2> QED
      BY <1>2, <1>6, <2>1 DEF LedgersAt, a
  <1>11. TransfersAt(4, s, kc)' /\ ChoicesAt(4)'
    BY <1>2, <1>8 DEF TransfersAt, ChoicesAt
  <1>12. OutboxesAt(4, s, kc, k)'
    BY <1>6, <1>8 DEF OutboxesAt, Offer, a
  <1>13. WiresAt(4, s, kc, k)'
    BY <1>2, <1>8 DEF WiresAt
  <1> QED
    BY <1>1, <1>8, <1>9, <1>10, <1>11, <1>12, <1>13 DEF Phase

\* The client announces the keys it holds now and signs with them.
LEMMA ClientAnswersStep ==
  ASSUME NEW n \in 0 .. 11, NEW ks \in Seq(KeysOf[Server]), NEW kc, NEW k,
         NEW s \in Seq(KeysOf[Client]),
         s = signers[Client], Shaped, Phase(n, ks, kc, k), MakeSession(Client)
  PROVE  /\ n = 6
         /\ Phase(7, ks, s, k)'
         /\ pc' = [pc EXCEPT ![Client] = "sendCycle"]
  <1> DEFINE a == ServerFetter(ks)
             b == ClientFetter(s)
             w == SecondWitness(a, b)
             t == Given(<<a>>)
             r == Turn(Client, 0, t)
  <1> USE PartyFacts
  <1>1. n = 6
    BY DEF MakeSession, Phase, ControlAt, ClientPc
  <1>2. /\ ControlAt(6) /\ LedgersAt(6, ks, kc, k) /\ TransfersAt(6, ks, kc)
        /\ ChoicesAt(6) /\ WiresAt(6, ks, kc, k)
    BY <1>1 DEF Phase
  <1>3. ledger[Client] = <<>> /\ sentFetter[Client] = FALSE /\ transfer[Client] = t
    BY <1>2 DEF LedgersAt, ControlAt, TransfersAt
  <1>4. t.items = <<a>> /\ t.given /\ Endpoint(0, t) = TRUE
    BY DEF Given, Endpoint
  <1>5. r = IncomingData(<<>>, FALSE, <<a>>, TRUE, Client, s)
    BY <1>3, <1>4 DEF Turn
  <1>6. r.ok /\ r.ledger = Answered(a, b) /\ r.out = <<b, w>>
    <2>1. a \in Fetters /\ s \in Seq(Key) /\ b = FetterFrom(Client, s)
      BY FetterFacts DEF ClientFetter
    <2> HIDE DEF a, b, r
    <2> QED
      BY <1>5, <2>1, IncomingOffer
  <1>7. ~IsCompleted(ledger[Client]) /\ DoBoundWitness(Client, 0, t)
    BY <1>3, CountEmpty DEF IsCompleted, MakeSession
  <1> HIDE DEF r, t, a, b
  <1>8. /\ pc' = [pc EXCEPT ![Client] = "sendCycle"]
        /\ transfer' = [transfer EXCEPT ![Client] = t]
        /\ ledger' = [ledger EXCEPT ![Client] = r.ledger]
        /\ sentFetter' = [sentFetter EXCEPT ![Client] = TRUE]
        /\ cycles' = [cycles EXCEPT ![Client] = 0]
        /\ outbox' = [outbox EXCEPT ![Client] = Message("cycle", <<>>, r.out)]
        /\ choice' = choice /\ sock' = sock /\ wire' = wire
    BY <1>4, <1>6, <1>7, TurnTaken DEF MakeSession, r
  <1>9. /\ pc'[Client] = "sendCycle" /\ pc'[Server] = pc[Server]
        /\ transfer'[Client] = t /\ transfer'[Server] = transfer[Server]
        /\ ledger'[Client] = r.ledger /\ ledger'[Server] = ledger[Server]
        /\ sentFetter'[Client] = TRUE /\ sentFetter'[Server] = sentFetter[Server]
        /\ cycles'[Client] = 0 /\ cycles'[Server] = cycles[Server]
        /\ outbox'[Client] = Message("cycle", <<>>, r.out)
    BY <1>8 DEF Shaped
  <1>10. ControlAt(7)'
    BY <1>2, <1>8, <1>9 DEF ControlAt, ServerPc, ClientPc
  <1>11. LedgersAt(7, ks, s, k)'
    BY <1>2, <1>6, <1>9 DEF LedgersAt, TheAnswer, a, b
  <1>12. TransfersAt(7, ks, s)' /\ ChoicesAt(7)'
    BY <1>2, <1>8, <1>9 DEF TransfersAt, ChoicesAt, t, a
  <1>13. OutboxesAt(7, ks, s, k)'
    BY <1>6, <1>9 DEF OutboxesAt, Answer, w, a, b
  <1>14. WiresAt(7, ks, s, k)'
    BY <1>2, <1>8 DEF WiresAt
  <1> QED
    BY <1>1, <1>8, <1>10, <1>11, <1>12, <1>13, <1>14 DEF Phase

\* A write and the wait after it move the phase on and the message with it.
LEMMA WriteAndWaitStep ==
  ASSUME NEW n \in 0 .. 11, NEW ks, NEW kc, NEW k, NEW p \in Party,
         Shaped, Phase(n, ks, kc, k), WriteAndWait(p)
  PROVE  /\ n \in {1, 4, 7} /\ (n = 4 <=> p = Server)
         /\ Phase(n + 1, ks, kc, k)'
         /\ pc' = [pc EXCEPT ![p] = IF n = 1 THEN "awaitChoice" ELSE "awaitCycle"]
  <1> USE PartyFacts
  <1>1. n \in {1, 4, 7} /\ (n = 4 <=> p = Server)
    BY DEF WriteAndWait, Write, Writing, Phase, ControlAt, ServerPc, ClientPc
  <1>2. /\ ControlAt(n) /\ LedgersAt(n, ks, kc, k) /\ TransfersAt(n, ks, kc)
        /\ ChoicesAt(n) /\ OutboxesAt(n, ks, kc, k) /\ WiresAt(n, ks, kc, k)
    BY DEF Phase
  <1>3. /\ UNCHANGED <<transfer, choice, ledger, sentFetter, cycles, outbox, sock>>
        /\ sock[p] = "open"
        /\ wire' = [wire EXCEPT ![Peer(p)] =
                      IF sock[Peer(p)] = "open" THEN Append(@, outbox[p]) ELSE @]
        /\ pc' = [pc EXCEPT ![p] = IF pc[p] = "sendCatalog" THEN "awaitChoice"
                                   ELSE "awaitCycle"]
    BY DEF WriteAndWait, Write, session
  <1>4. /\ pc'[p] = (IF pc[p] = "sendCatalog" THEN "awaitChoice" ELSE "awaitCycle")
        /\ pc'[Peer(p)] = pc[Peer(p)]
        /\ wire'[p] = wire[p]
        /\ wire'[Peer(p)] = (IF sock[Peer(p)] = "open" THEN Append(wire[Peer(p)], outbox[p])
                             ELSE wire[Peer(p)])
    BY <1>3 DEF Shaped
  <1>5. \A m : Append(<<>>, m) = <<m>>
    BY AppendToNone
  <1>6. ASSUME n = 1 PROVE Phase(n + 1, ks, kc, k)'
    <2>1. ControlAt(2)'
      BY <1>1, <1>2, <1>3, <1>4, <1>6 DEF ControlAt, ServerPc, ClientPc
    <2>2. LedgersAt(2, ks, kc, k)' /\ TransfersAt(2, ks, kc)' /\ ChoicesAt(2)'
      BY <1>2, <1>3, <1>6 DEF LedgersAt, TransfersAt, ChoicesAt
    <2>3. OutboxesAt(2, ks, kc, k)'
      BY DEF OutboxesAt
    <2>4. WiresAt(2, ks, kc, k)'
      <3>1. /\ p = Client /\ Peer(p) = Server /\ outbox[Client] = Catalog
            /\ wire[Server] = <<>>
        BY <1>1, <1>2, <1>6 DEF OutboxesAt, WiresAt
      <3>2. /\ wire'[Client] = wire[Client]
            /\ wire'[Server] = (IF sock[Server] = "open" THEN <<Catalog>> ELSE <<>>)
        BY <1>4, <1>5, <3>1
      <3> QED
        BY <1>2, <1>3, <1>6, <3>2 DEF WiresAt
    <2> QED
      BY <1>1, <1>6, <2>1, <2>2, <2>3, <2>4 DEF Phase
  <1>7. ASSUME n = 4 PROVE Phase(n + 1, ks, kc, k)'
    <2>1. ControlAt(5)'
      BY <1>1, <1>2, <1>3, <1>4, <1>7 DEF ControlAt, ServerPc, ClientPc
    <2>2. LedgersAt(5, ks, kc, k)' /\ TransfersAt(5, ks, kc)' /\ ChoicesAt(5)'
      BY <1>2, <1>3, <1>7 DEF LedgersAt, TransfersAt, ChoicesAt
    <2>3. OutboxesAt(5, ks, kc, k)'
      BY DEF OutboxesAt
    <2>4. WiresAt(5, ks, kc, k)'
      <3>1. /\ p = Server /\ Peer(p) = Client /\ outbox[Server] = Offer(ks)
            /\ wire[Client] = <<>>
        BY <1>1, <1>2, <1>7 DEF OutboxesAt, WiresAt
      <3>2. /\ wire'[Server] = wire[Server]
            /\ wire'[Client] = (IF sock[Client] = "open" THEN <<Offer(ks)>> ELSE <<>>)
        BY <1>4, <1>5, <3>1
      <3> QED
        BY <1>2, <1>3, <1>7, <3>2 DEF WiresAt, Offer
    <2> QED
      BY <1>1, <1>7, <2>1, <2>2, <2>3, <2>4 DEF Phase
  <1>8. ASSUME n = 7 PROVE Phase(n + 1, ks, kc, k)'
    <2>1. ControlAt(8)'
      BY <1>1, <1>2, <1>3, <1>4, <1>8 DEF ControlAt, ServerPc, ClientPc
    <2>2. LedgersAt(8, ks, kc, k)' /\ TransfersAt(8, ks, kc)' /\ ChoicesAt(8)'
      BY <1>2, <1>3, <1>8 DEF LedgersAt, TransfersAt, ChoicesAt
    <2>3. OutboxesAt(8, ks, kc, k)'
      BY DEF OutboxesAt
    <2>4. WiresAt(8, ks, kc, k)'
      <3>1. /\ p = Client /\ Peer(p) = Server /\ outbox[Client] = Answer(ks, kc)
            /\ wire[Server] = <<>>
        BY <1>1, <1>2, <1>8 DEF OutboxesAt, WiresAt
      <3>2. /\ wire'[Client] = wire[Client]
            /\ wire'[Server] = (IF sock[Server] = "open" THEN <<Answer(ks, kc)>> ELSE <<>>)
        BY <1>4, <1>5, <3>1
      <3> QED
        BY <1>2, <1>3, <1>8, <3>2 DEF WiresAt
    <2> QED
      BY <1>1, <1>8, <2>1, <2>2, <2>3, <2>4 DEF Phase
  <1>9. pc[p] = "sendCatalog" <=> n = 1
    BY <1>1, <1>2 DEF WriteAndWait, Write, Writing, ControlAt, ServerPc, ClientPc
  <1> QED
    BY <1>1, <1>3, <1>6, <1>7, <1>8, <1>9

\* The server hands over its signature and, its ledger completed, returns.
LEMMA WriteOnlyStep ==
  ASSUME NEW n \in 0 .. 11, NEW ks \in Seq(KeysOf[Server]),
         NEW kc \in Seq(KeysOf[Client]), NEW k \in Seq(KeysOf[Server]), NEW p \in Party,
         Shaped, Phase(n, ks, kc, k), WriteOnly(p)
  PROVE  /\ n = 9
         /\ Phase(10, ks, kc, k)'
         /\ pc' = [pc EXCEPT ![Server] = "block"]
  <1> USE PartyFacts
  <1>1. n = 9 /\ p = Server
    BY DEF WriteOnly, Phase, ControlAt, ServerPc, ClientPc
  <1>2. /\ ControlAt(9) /\ LedgersAt(9, ks, kc, k) /\ TransfersAt(9, ks, kc)
        /\ ChoicesAt(9) /\ OutboxesAt(9, ks, kc, k) /\ WiresAt(9, ks, kc, k)
    BY <1>1 DEF Phase
  <1>3. cycles[Server] = 1 /\ ledger[Server] = TheBlock(ks, kc, k)
    BY <1>2 DEF ControlAt, LedgersAt
  <1>4. IsCompleted(ledger[Server])
    <2>1. k \in Seq(Key)
      BY FetterFacts
    <2> QED
      <3>1. ServerFetter(ks) \in Fetters /\ ClientFetter(kc) \in Fetters
        BY FetterFacts
      <3> QED
        BY <1>3, <2>1, <3>1, StagesCompleted DEF TheBlock
  <1>5. DoBoundWitness(Server, 2, Undefined)
    BY <1>1, <1>3 DEF WriteOnly, Resume
  <1>6. /\ pc' = [pc EXCEPT ![Server] = "block"]
        /\ cycles' = [cycles EXCEPT ![Server] = 2]
        /\ UNCHANGED <<transfer, choice, ledger, sentFetter, outbox, sock>>
        /\ wire' = [wire EXCEPT ![Client] =
                      IF sock[Client] = "open" THEN Append(@, outbox[Server]) ELSE @]
        /\ sock[Server] = "open"
    BY <1>1, <1>4, <1>5 DEF DoBoundWitness, WriteOnly, Write
  <1>7. /\ pc'[Server] = "block" /\ pc'[Client] = pc[Client]
        /\ cycles'[Server] = 2 /\ cycles'[Client] = cycles[Client]
        /\ wire'[Server] = wire[Server]
        /\ wire'[Client] = (IF sock[Client] = "open" THEN Append(wire[Client], outbox[Server])
                            ELSE wire[Client])
    BY <1>6 DEF Shaped
  <1>8. ControlAt(10)'
    BY <1>2, <1>6, <1>7 DEF ControlAt, ServerPc, ClientPc
  <1>9. LedgersAt(10, ks, kc, k)' /\ TransfersAt(10, ks, kc)' /\ ChoicesAt(10)'
    BY <1>2, <1>6 DEF LedgersAt, TransfersAt, ChoicesAt
  <1>10. OutboxesAt(10, ks, kc, k)'
    BY DEF OutboxesAt
  <1>11. WiresAt(10, ks, kc, k)'
    <2>1. \A m : Append(<<>>, m) = <<m>>
      BY AppendToNone
    <2> QED
      BY <1>2, <1>6, <1>7, <2>1 DEF WiresAt, OutboxesAt
  <1> QED
    BY <1>1, <1>6, <1>8, <1>9, <1>10, <1>11 DEF Phase

\* The client takes the server's choice, and answers it with the opposite.
LEMMA ReceiveChoiceStep ==
  ASSUME NEW n \in 0 .. 11, NEW ks, NEW kc, NEW k, NEW p \in Party,
         Shaped, Phase(n, ks, kc, k), ReceiveChoice(p)
  PROVE  /\ n = 5
         /\ Phase(6, ks, kc, k)'
         /\ pc' = [pc EXCEPT ![Client] = "payloads"]
  <1> USE PartyFacts
  <1>1. n = 5 /\ p = Client
    <2>1. p = Client /\ n \in 2 .. 5
      BY DEF ReceiveChoice, Phase, ControlAt, ServerPc, ClientPc
    <2>2. wire[Client] # <<>>
      BY <2>1 DEF ReceiveChoice
    <2> QED
      BY <2>1, <2>2 DEF Phase, WiresAt
  <1>2. /\ ControlAt(5) /\ LedgersAt(5, ks, kc, k) /\ TransfersAt(5, ks, kc)
        /\ ChoicesAt(5) /\ WiresAt(5, ks, kc, k)
    BY <1>1 DEF Phase
  <1>3. wire[Client] = <<Offer(ks)>>
    BY <1>1, <1>2 DEF WiresAt, ReceiveChoice
  <1>4. Head(wire[Client]) = Offer(ks) /\ Tail(wire[Client]) = <<>>
    BY <1>3
  <1>5. /\ Offer(ks).choice = Flip(choice[Server])
        /\ Offer(ks).items = <<ServerFetter(ks)>>
    BY DEF Offer, Message
  <1>6. /\ pc' = [pc EXCEPT ![Client] = "payloads"]
        /\ choice' = [choice EXCEPT ![Client] = Flip(choice[Server])]
        /\ transfer' = [transfer EXCEPT ![Client] = Given(<<ServerFetter(ks)>>)]
        /\ wire' = [wire EXCEPT ![Client] = <<>>]
        /\ UNCHANGED <<ledger, sentFetter, cycles, outbox, sock>>
    BY <1>1, <1>4, <1>5 DEF ReceiveChoice, AwaitPayloads
  <1>7. /\ pc'[Client] = "payloads" /\ pc'[Server] = pc[Server]
        /\ choice'[Client] = Flip(choice[Server]) /\ choice'[Server] = choice[Server]
        /\ transfer'[Client] = Given(<<ServerFetter(ks)>>)
        /\ transfer'[Server] = transfer[Server]
        /\ wire'[Client] = <<>> /\ wire'[Server] = wire[Server]
    BY <1>6 DEF Shaped
  <1>8. ControlAt(6)'
    BY <1>2, <1>6, <1>7 DEF ControlAt, ServerPc, ClientPc
  <1>9. LedgersAt(6, ks, kc, k)' /\ TransfersAt(6, ks, kc)' /\ ChoicesAt(6)'
    BY <1>2, <1>6, <1>7 DEF LedgersAt, TransfersAt, ChoicesAt
  <1>10. OutboxesAt(6, ks, kc, k)'
    BY DEF OutboxesAt
  <1>11. WiresAt(6, ks, kc, k)'
    BY <1>2, <1>6, <1>7 DEF WiresAt
  <1> QED
    BY <1>1, <1>6, <1>8, <1>9, <1>10, <1>11 DEF Phase

\* The server takes the client's answer and countersigns with what keys it
\* holds by now.
LEMMA CountersignStep ==
  ASSUME NEW n \in 0 .. 11, NEW ks \in Seq(KeysOf[Server]),
         NEW kc \in Seq(KeysOf[Client]), NEW k, NEW s \in Seq(KeysOf[Server]),
         s = signers[Server], Shaped, Phase(n, ks, kc, k), ReceiveCycle(Server)
  PROVE  /\ n = 8
         /\ Phase(9, ks, kc, s)'
         /\ pc' = [pc EXCEPT ![Server] = "sendCycle"]
  <1> DEFINE a == ServerFetter(ks)
             b == ClientFetter(kc)
             w == SecondWitness(a, b)
             t == Given(<<b, w>>)
             r == Turn(Server, 1, t)
  <1> USE PartyFacts
  <1>1. n = 8
    <2>1. n \in 5 .. 8
      BY DEF ReceiveCycle, Phase, ControlAt, ServerPc
    <2>2. wire[Server] # <<>>
      BY DEF ReceiveCycle
    <2> QED
      BY <2>1, <2>2 DEF Phase, WiresAt
  <1>2. /\ ControlAt(8) /\ LedgersAt(8, ks, kc, k) /\ TransfersAt(8, ks, kc)
        /\ ChoicesAt(8) /\ WiresAt(8, ks, kc, k)
    BY <1>1 DEF Phase
  <1>3. /\ ledger[Server] = <<a>> /\ sentFetter[Server] = TRUE
        /\ transfer[Server] = Undefined /\ cycles[Server] = 0
    BY <1>2 DEF LedgersAt, ControlAt, TransfersAt
  <1>4. wire[Server] = <<Answer(ks, kc)>>
    BY <1>2 DEF WiresAt, ReceiveCycle
  <1>5. Head(wire[Server]) = Answer(ks, kc) /\ Tail(wire[Server]) = <<>>
    BY <1>4
  <1>6. Given(Head(wire[Server]).items) = t
    BY <1>5 DEF Answer, Message
  <1>7. DoBoundWitness(Server, 1, t)
    <2>1. Resume(Server, t)
      BY <1>6 DEF ReceiveCycle
    <2> QED
      BY <1>3, <2>1 DEF Resume, Undefined
  <1>8. t.items = <<b, w>> /\ t.given /\ Endpoint(1, t) = FALSE
    BY DEF Given, Endpoint
  <1>9. a \in Fetters /\ a.of = Server /\ b \in Fetters /\ s \in Seq(Key)
    BY FetterFacts
  <1>10. ~IsCompleted(ledger[Server])
    BY <1>3, <1>9, StagesCompleted
  <1> HIDE DEF a, b
  <1>11. r = IncomingData(<<a>>, TRUE, <<b, w>>, FALSE, a.of, s)
    BY <1>3, <1>8, <1>9 DEF Turn
  <1> HIDE DEF t, r
  <1>12. r.ok /\ r.ledger = Agreed(a, b, s) /\ r.out = <<FirstWitness(a, b, s)>>
    BY <1>9, <1>11, IncomingAnswer
  <1>13. /\ pc' = [pc EXCEPT ![Server] = "sendCycle"]
         /\ transfer' = [transfer EXCEPT ![Server] = t]
         /\ ledger' = [ledger EXCEPT ![Server] = r.ledger]
         /\ sentFetter' = [sentFetter EXCEPT ![Server] = TRUE]
         /\ cycles' = [cycles EXCEPT ![Server] = 1]
         /\ outbox' = [outbox EXCEPT ![Server] = Message("cycle", <<>>, r.out)]
         /\ wire' = [wire EXCEPT ![Server] = <<>>]
         /\ choice' = choice /\ sock' = sock
    <2>1. Turn(Server, 1, t).ok
      BY <1>12 DEF r
    <2>2. /\ pc' = [pc EXCEPT ![Server] = "sendCycle"]
          /\ transfer' = [transfer EXCEPT ![Server] = t]
          /\ ledger' = [ledger EXCEPT ![Server] = Turn(Server, 1, t).ledger]
          /\ sentFetter' = [sentFetter EXCEPT ![Server] = TRUE]
          /\ cycles' = [cycles EXCEPT ![Server] = 1]
          /\ outbox' = [outbox EXCEPT ![Server] =
               IF 1 = 0 /\ ~t.given
               THEN Message("choice", Flip(choice[Server]), Turn(Server, 1, t).out)
               ELSE Message("cycle", <<>>, Turn(Server, 1, t).out)]
          /\ choice' = choice
      BY <1>7, <1>10, <2>1, TurnTaken
    <2>3. ~(1 = 0)
      OBVIOUS
    <2>4. outbox' = [outbox EXCEPT ![Server] = Message("cycle", <<>>, r.out)]
      BY <2>2, <2>3 DEF r
    <2>5. wire' = [wire EXCEPT ![Server] = <<>>] /\ sock' = sock
      BY <1>5 DEF ReceiveCycle
    <2> QED
      BY <2>2, <2>4, <2>5 DEF r
  <1>14. /\ pc'[Server] = "sendCycle" /\ pc'[Client] = pc[Client]
         /\ transfer'[Server] = t /\ transfer'[Client] = transfer[Client]
         /\ ledger'[Server] = r.ledger /\ ledger'[Client] = ledger[Client]
         /\ sentFetter'[Server] = TRUE /\ sentFetter'[Client] = sentFetter[Client]
         /\ cycles'[Server] = 1 /\ cycles'[Client] = cycles[Client]
         /\ outbox'[Server] = Message("cycle", <<>>, r.out)
         /\ wire'[Server] = <<>> /\ wire'[Client] = wire[Client]
    BY <1>13 DEF Shaped
  <1>15. sock[Server] = "open"
    BY <1>4 DEF ReceiveCycle, Phase, WiresAt
  <1>16. ControlAt(9)'
    BY <1>2, <1>13, <1>14, <1>15 DEF ControlAt, ServerPc, ClientPc
  <1>17. LedgersAt(9, ks, kc, s)'
    BY <1>2, <1>12, <1>14 DEF LedgersAt, TheBlock, a, b
  <1>18. TransfersAt(9, ks, kc)' /\ ChoicesAt(9)'
    <2>1. t = Given(Answer(ks, kc).items)
      BY <1>5, <1>6
    <2> QED
      BY <1>2, <1>13, <1>14, <2>1 DEF TransfersAt, ChoicesAt
  <1>19. OutboxesAt(9, ks, kc, s)'
    BY <1>12, <1>14 DEF OutboxesAt, Countersignature, a, b
  <1>20. WiresAt(9, ks, kc, s)'
    BY <1>2, <1>13, <1>14 DEF WiresAt
  <1> QED
    BY <1>1, <1>13, <1>16, <1>17, <1>18, <1>19, <1>20 DEF Phase

\* The client takes the server's signature and returns.
LEMMA ObtainStep ==
  ASSUME NEW n \in 0 .. 11, NEW ks \in Seq(KeysOf[Server]),
         NEW kc \in Seq(KeysOf[Client]), NEW k \in Seq(KeysOf[Server]),
         Shaped, SignersOK, Phase(n, ks, kc, k), ReceiveCycle(Client)
  PROVE  /\ n = 10
         /\ Phase(11, ks, kc, k)'
         /\ pc' = [pc EXCEPT ![Client] = "block"]
  <1> DEFINE a == ServerFetter(ks)
             b == ClientFetter(kc)
             v == FirstWitness(a, b, k)
             s == signers[Client]
             r == IncomingData(ledger[Client], sentFetter[Client], <<v>>, FALSE, Client, s)
  <1> USE PartyFacts
  <1>1. n = 10
    <2>1. n \in 8 .. 10
      BY DEF ReceiveCycle, Phase, ControlAt, ClientPc
    <2>2. wire[Client] # <<>>
      BY DEF ReceiveCycle
    <2> QED
      BY <2>1, <2>2 DEF Phase, WiresAt
  <1>2. /\ ControlAt(10) /\ LedgersAt(10, ks, kc, k) /\ TransfersAt(10, ks, kc)
        /\ ChoicesAt(10) /\ WiresAt(10, ks, kc, k)
    BY <1>1 DEF Phase
  <1>3. /\ ledger[Client] = Answered(a, b) /\ sentFetter[Client] = TRUE
        /\ transfer[Client].given /\ cycles[Client] = 0
    BY <1>2 DEF LedgersAt, ControlAt, TransfersAt, TheAnswer, Given
  <1>4. wire[Client] = <<Countersignature(ks, kc, k)>>
    BY <1>2 DEF WiresAt, ReceiveCycle
  <1>5. Head(wire[Client]) = Countersignature(ks, kc, k) /\ Tail(wire[Client]) = <<>>
    BY <1>4
  <1>6. Given(Head(wire[Client]).items).items = <<v>>
    BY <1>5 DEF Countersignature, Message, Given
  <1>7. /\ a \in Fetters /\ b \in Fetters /\ b.of = Client
        /\ k \in Seq(Key) /\ s \in Seq(Key)
    BY FetterFacts DEF SignersOK
  <1> HIDE DEF a, b, s
  <1>8. r = IncomingData(Answered(a, b), TRUE, <<v>>, FALSE, b.of, s)
    BY <1>3, <1>7
  <1> HIDE DEF r
  <1>9. r.ok /\ r.ledger = Agreed(a, b, k)
    BY <1>7, <1>8, IncomingCountersignature
  <1>10. /\ pc' = [pc EXCEPT ![Client] = "block"]
         /\ ledger' = [ledger EXCEPT ![Client] = Agreed(a, b, k)]
         /\ wire' = [wire EXCEPT ![Client] = <<>>]
         /\ UNCHANGED <<transfer, choice, sentFetter, cycles, outbox, sock>>
    <2>1. Resume(Client, Given(Head(wire[Client]).items))
      BY DEF ReceiveCycle
    <2>2. r = IncomingData(ledger[Client], sentFetter[Client],
                           Given(Head(wire[Client]).items).items, FALSE, Client,
                           signers[Client])
      BY <1>6 DEF r, s
    <2>3. pc' = [pc EXCEPT ![Client] = "block"] /\ ledger' = [ledger EXCEPT ![Client] = r.ledger]
          /\ UNCHANGED <<transfer, choice, sentFetter, cycles, outbox>>
      BY <1>3, <1>9, <2>1, <2>2 DEF Resume
    <2> QED
      BY <1>5, <1>9, <2>3 DEF ReceiveCycle
  <1>11. /\ pc'[Client] = "block" /\ pc'[Server] = pc[Server]
         /\ ledger'[Client] = Agreed(a, b, k) /\ ledger'[Server] = ledger[Server]
         /\ wire'[Client] = <<>> /\ wire'[Server] = wire[Server]
    BY <1>10 DEF Shaped
  <1>12. ControlAt(11)'
    BY <1>2, <1>10, <1>11 DEF ControlAt, ServerPc, ClientPc
  <1>13. LedgersAt(11, ks, kc, k)'
    BY <1>2, <1>11 DEF LedgersAt, TheBlock, a, b
  <1>14. TransfersAt(11, ks, kc)' /\ ChoicesAt(11)'
    BY <1>2, <1>10 DEF TransfersAt, ChoicesAt
  <1>15. OutboxesAt(11, ks, kc, k)'
    BY DEF OutboxesAt
  <1>16. WiresAt(11, ks, kc, k)'
    BY <1>2, <1>10, <1>11 DEF WiresAt
  <1> QED
    BY <1>1, <1>10, <1>12, <1>13, <1>14, <1>15, <1>16 DEF Phase

LEMMA StepPhased ==
  ASSUME Shaped, SignersOK, Phased, [Next]_vars
  PROVE  Phased'
  <1>1. PICK n \in 0 .. 11, ks \in Seq(KeysOf[Server]), kc \in Seq(KeysOf[Client]),
             k \in Seq(KeysOf[Server]) : Phase(n, ks, kc, k)
    BY DEF Phased
  <1>2. ASSUME NEW m \in 0 .. 11, NEW js \in Seq(KeysOf[Server]),
               NEW jc \in Seq(KeysOf[Client]), NEW j \in Seq(KeysOf[Server]),
               Phase(m, js, jc, j)'
        PROVE  Phased'
    BY <1>2 DEF Phased
  <1>3. PICK s, c : /\ s = signers[Server] /\ s \in Seq(KeysOf[Server])
                    /\ c = signers[Client] /\ c \in Seq(KeysOf[Client])
    BY PartyFacts DEF SignersOK
  <1>4. CASE StartClient
    BY <1>1, <1>2, <1>4, StartClientStep, SMTT(30)
  <1>5. ASSUME NEW p \in Party, Progress(p) PROVE Phased'
    <2>1. CASE p = Server /\ StartServer
      BY <1>1, <1>2, <2>1, StartServerStep, SMTT(30)
    <2>2. CASE MakeSession(p)
      <3>1. CASE p = Server
        <4>1. s \in Seq(Key)
          BY <1>3, <1>1, FetterFacts
        <4>2. Phase(4, s, kc, k)'
          BY <1>1, <1>3, <2>2, <3>1, <4>1, ServerOffersStep
        <4> QED
          BY <1>1, <1>2, <1>3, <4>2
      <3>2. CASE p = Client
        <4>1. Phase(7, ks, c, k)'
          BY <1>1, <1>3, <2>2, <3>2, ClientAnswersStep
        <4> QED
          BY <1>1, <1>2, <1>3, <4>1
      <3> QED
        BY <3>1, <3>2, PartyFacts
    <2>3. CASE WriteAndWait(p)
      <3>1. n \in {1, 4, 7} /\ Phase(n + 1, ks, kc, k)'
        BY <1>1, <2>3, WriteAndWaitStep
      <3>2. n + 1 \in 0 .. 11
        BY <3>1
      <3> QED
        BY <1>1, <1>2, <3>1, <3>2
    <2>4. CASE WriteOnly(p)
      <3>1. Phase(10, ks, kc, k)'
        BY <1>1, <2>4, WriteOnlyStep
      <3> QED
        BY <1>1, <1>2, <3>1
    <2>5. CASE WriteFails(p) \/ Timeout(p)
      BY <1>1, <1>2, <2>5, LossStep
    <2>6. CASE ReceiveChoice(p)
      <3>1. Phase(6, ks, kc, k)'
        BY <1>1, <2>6, ReceiveChoiceStep
      <3> QED
        BY <1>1, <1>2, <3>1
    <2>7. CASE ReceiveCycle(p)
      <3>1. CASE p = Server
        <4>1. Phase(9, ks, kc, s)'
          BY <1>1, <1>3, <2>7, <3>1, CountersignStep
        <4> QED
          BY <1>1, <1>2, <1>3, <4>1
      <3>2. CASE p = Client
        <4>1. Phase(11, ks, kc, k)'
          BY <1>1, <2>7, <3>2, ObtainStep
        <4> QED
          BY <1>1, <1>2, <4>1
      <3> QED
        BY <3>1, <3>2, PartyFacts
    <2> QED
      BY <1>5, <2>1, <2>2, <2>3, <2>4, <2>5, <2>6, <2>7 DEF Progress
  <1>6. ASSUME NEW p \in Party,
               SocketCloses(p) \/ Close(p) \/ AddSigner(p) \/ RemoveOldestSigner(p)
        PROVE  Phased'
    BY <1>1, <1>2, <1>6, LossStep
  <1>7. CASE UNCHANGED vars
    BY <1>1, <1>2, <1>7, PartyFacts, LossStep
  <1> QED
    BY <1>4, <1>5, <1>6, <1>7 DEF Next

\* The inductive invariant of the session.
THEOREM SessionInvariant == Spec => []IInv
  <1>1. Init => IInv
    BY InitInvariant
  <1>2. IInv /\ [Next]_vars => IInv'
    BY StepShaped, StepSigners, StepPhased DEF IInv
  <1> QED
    BY <1>1, <1>2, PTL DEF Spec

-----------------------------------------------------------------------------
(* What the invariant says of the ledgers.                                 *)

\* The four forms a ledger of the session takes.
Forms(a, b, k) == {<<>>, <<a>>, Answered(a, b), Agreed(a, b, k)}

LEMMA LedgerForms ==
  ASSUME IInv
  PROVE  \E a \in Fetters : \E b \in Fetters : \E k \in Seq(Key) :
           /\ a.of = Server /\ b.of = Client
           /\ \A p \in Party : ledger[p] \in Forms(a, b, k)
           /\ ledger[Server] # Answered(a, b)
  <1>1. PICK n \in 0 .. 11, ks \in Seq(KeysOf[Server]), kc \in Seq(KeysOf[Client]),
             k \in Seq(KeysOf[Server]) : Phase(n, ks, kc, k)
    BY DEF IInv, Phased
  <1> DEFINE a == ServerFetter(ks)
             b == ClientFetter(kc)
  <1>2. /\ a \in Fetters /\ b \in Fetters /\ k \in Seq(Key)
        /\ a.of = Server /\ b.of = Client
    BY FetterFacts
  <1> HIDE DEF a, b
  <1>3. \A p \in Party : ledger[p] \in Forms(a, b, k)
    BY <1>1, PartyFacts DEF Phase, LedgersAt, Forms, TheAnswer, TheBlock, a, b
  <1>4. ledger[Server] \in {<<>>, <<a>>, Agreed(a, b, k)}
    BY <1>1 DEF Phase, LedgersAt, TheBlock, a, b
  <1>5. Answered(a, b) \notin {<<>>, <<a>>, Agreed(a, b, k)}
    BY DEF Answered, Agreed
  <1> QED
    BY <1>2, <1>3, <1>4, <1>5

LEMMA FormsWitnesses ==
  ASSUME NEW a \in Fetters, NEW b \in Fetters, NEW k \in Seq(Key)
  PROVE  /\ Positions(<<>>, "witness") = {} /\ Positions(<<a>>, "witness") = {}
         /\ Positions(Answered(a, b), "witness") = {3}
         /\ Positions(Agreed(a, b, k), "witness") = {3, 4}
         /\ Answered(a, b)[3] = SecondWitness(a, b)
         /\ Agreed(a, b, k)[3] = SecondWitness(a, b)
         /\ Agreed(a, b, k)[4] = FirstWitness(a, b, k)
  <1> DEFINE w == SecondWitness(a, b)
             v == FirstWitness(a, b, k)
  <1>1. a.kind = "fetter" /\ b.kind = "fetter" /\ w.kind = "witness" /\ v.kind = "witness"
    BY DEF Fetters, SecondWitness, FirstWitness, WitnessFrom
  <1> HIDE DEF w, v
  <1>2. Positions(<<>>, "witness") = {} /\ Positions(<<a>>, "witness") = {}
    BY <1>1 DEF Positions
  <1>3. Positions(<<a, b, w>>, "witness") = {3}
    BY <1>1 DEF Positions
  <1>4. Positions(<<a, b, w, v>>, "witness") = {3, 4}
    BY <1>1 DEF Positions
  <1> QED
    BY <1>2, <1>3, <1>4 DEF Answered, Agreed, w, v

LEMMA FormsParties ==
  ASSUME NEW a \in Fetters, NEW b \in Fetters, NEW k \in Seq(Key)
  PROVE  /\ NumberOfParties(<<>>) = 0 /\ NumberOfParties(<<a>>) = 0
         /\ NumberOfParties(Answered(a, b)) = 0
         /\ NumberOfParties(Agreed(a, b, k)) = 2
  <1> DEFINE w == SecondWitness(a, b)
             v == FirstWitness(a, b, k)
  <1>1. w \in Witnesses /\ v \in Witnesses
    BY StageTypes
  <1> HIDE DEF w, v
  <1>2. /\ Count(<<>>, "fetter") = 0 /\ Count(<<>>, "witness") = 0
        /\ Count(<<a>>, "fetter") = 1 /\ Count(<<a>>, "witness") = 0
        /\ Count(<<a, b, w>>, "fetter") = 2 /\ Count(<<a, b, w>>, "witness") = 1
        /\ Count(<<a, b, w, v>>, "fetter") = 2 /\ Count(<<a, b, w, v>>, "witness") = 2
    BY <1>1, StageCounts
  <1> QED
    BY <1>2 DEF NumberOfParties, Answered, Agreed, w, v

LEMMA PartiesItems ==
  ASSUME NEW a \in Fetters, NEW b \in Fetters, NEW k \in Seq(Key)
  PROVE  LET l == Agreed(a, b, k)
         IN  /\ FetterOfParty(l, 1) = a /\ WitnessOfParty(l, 1) = FirstWitness(a, b, k)
             /\ FetterOfParty(l, 2) = b /\ WitnessOfParty(l, 2) = SecondWitness(a, b)
  <1>1. NumberOfParties(Agreed(a, b, k)) = 2
    BY FormsParties
  <1>2. /\ Agreed(a, b, k)[1] = a /\ Agreed(a, b, k)[2] = b
        /\ Agreed(a, b, k)[3] = SecondWitness(a, b)
        /\ Agreed(a, b, k)[4] = FirstWitness(a, b, k)
    BY DEF Agreed
  <1>3. 2 * 2 - 1 + 1 = 4 /\ 2 * 2 - 2 + 1 = 3
    OBVIOUS
  <1> QED
    BY <1>1, <1>2, <1>3 DEF FetterOfParty, WitnessOfParty

-----------------------------------------------------------------------------
(* The properties.                                                         *)

LEMMA InvCover == IInv => SignaturesCoverBothFetters
  <1> SUFFICES ASSUME IInv, NEW p \in Party, NEW i \in Positions(ledger[p], "witness")
               PROVE  LET signed == ledger[p][i].signed
                      IN  /\ signed = SubSeq(ledger[p], 1, 2)
                          /\ {signed[j].of : j \in DOMAIN signed} = Party
                          /\ \A j \in DOMAIN signed : signed[j].kind = "fetter"
    BY DEF SignaturesCoverBothFetters
  <1>1. PICK a \in Fetters, b \in Fetters, k \in Seq(Key) :
          /\ a.of = Server /\ b.of = Client
          /\ ledger[p] \in Forms(a, b, k)
    BY LedgerForms
  <1>2. ledger[p] \in {Answered(a, b), Agreed(a, b, k)}
    BY <1>1, FormsWitnesses DEF Forms
  <1>3. ledger[p][i].signed = <<a, b>>
    <2>1. /\ Positions(Answered(a, b), "witness") = {3}
          /\ Positions(Agreed(a, b, k), "witness") = {3, 4}
          /\ Answered(a, b)[3] = SecondWitness(a, b)
          /\ Agreed(a, b, k)[3] = SecondWitness(a, b)
          /\ Agreed(a, b, k)[4] = FirstWitness(a, b, k)
      BY FormsWitnesses, ZenonT(30)
    <2>2. ledger[p][i] \in {SecondWitness(a, b), FirstWitness(a, b, k)}
      BY <1>2, <2>1
    <2> QED
      BY <2>2 DEF SecondWitness, FirstWitness, WitnessFrom
  <1>4. SubSeq(ledger[p], 1, 2) = <<a, b>>
    BY <1>2, PrefixTwoOfThree, PrefixTwoOfFour DEF Answered, Agreed
  <1>5. {<<a, b>>[j].of : j \in DOMAIN <<a, b>>} = Party
    BY <1>1, PartyAssumption
  <1>6. \A j \in DOMAIN <<a, b>> : <<a, b>>[j].kind = "fetter"
    BY DEF Fetters
  <1> QED
    BY <1>3, <1>4, <1>5, <1>6

LEMMA InvServerLast == IInv => ServerSignsLast
  <1> SUFFICES ASSUME IInv, NEW i \in Positions(ledger[Server], "witness"),
                      ledger[Server][i].of = Server
               PROVE  \E j \in 1 .. i - 1 :
                        /\ ledger[Server][j].kind = "witness"
                        /\ ledger[Server][j].of = Client
                        /\ ledger[Server][j].signed = ledger[Server][i].signed
    BY DEF ServerSignsLast
  <1>1. PICK a \in Fetters, b \in Fetters, k \in Seq(Key) :
          /\ a.of = Server /\ b.of = Client
          /\ ledger[Server] \in Forms(a, b, k)
    BY LedgerForms, PartyFacts
  <1>2. ledger[Server] \in {Answered(a, b), Agreed(a, b, k)}
    BY <1>1, FormsWitnesses DEF Forms
  <1>3. /\ ledger[Server][3] = SecondWitness(a, b)
        /\ i = 4 => ledger[Server][4] = FirstWitness(a, b, k)
        /\ i \in {3, 4}
    <2>1. /\ Positions(Answered(a, b), "witness") = {3}
          /\ Positions(Agreed(a, b, k), "witness") = {3, 4}
          /\ Answered(a, b)[3] = SecondWitness(a, b)
          /\ Agreed(a, b, k)[3] = SecondWitness(a, b)
          /\ Agreed(a, b, k)[4] = FirstWitness(a, b, k)
      BY FormsWitnesses, ZenonT(30)
    <2> QED
      BY <1>2, <2>1
  <1>4. i = 4
    BY <1>1, <1>3, PartyFacts DEF SecondWitness, WitnessFrom
  <1>5. /\ ledger[Server][3].kind = "witness" /\ ledger[Server][3].of = Client
        /\ ledger[Server][3].signed = ledger[Server][4].signed
    BY <1>1, <1>3, <1>4 DEF SecondWitness, FirstWitness, WitnessFrom
  <1>6. 3 \in 1 .. i - 1
    BY <1>4
  <1> QED
    BY <1>4, <1>5, <1>6

LEMMA InvWitnesses == IInv => WitnessMatchesFetter /\ ClientKeysMatchSignatures
  <1> SUFFICES ASSUME IInv, NEW p \in Party, NEW i \in 1 .. NumberOfParties(ledger[p])
               PROVE  /\ WitnessOfParty(ledger[p], i).of = FetterOfParty(ledger[p], i).of
                      /\ FetterOfParty(ledger[p], i).of = Client =>
                           WitnessOfParty(ledger[p], i).sigs = FetterOfParty(ledger[p], i).keys
    BY DEF WitnessMatchesFetter, ClientKeysMatchSignatures
  <1>1. PICK a \in Fetters, b \in Fetters, k \in Seq(Key) :
          /\ a.of = Server /\ b.of = Client
          /\ ledger[p] \in Forms(a, b, k)
    BY LedgerForms
  <1>2. ledger[p] = Agreed(a, b, k) /\ i \in {1, 2}
    <2>1. /\ NumberOfParties(<<>>) = 0 /\ NumberOfParties(<<a>>) = 0
          /\ NumberOfParties(Answered(a, b)) = 0
          /\ NumberOfParties(Agreed(a, b, k)) = 2
      BY FormsParties
    <2>2. ledger[p] = Agreed(a, b, k)
      BY <1>1, <2>1 DEF Forms
    <2> QED
      BY <2>1, <2>2
  <1>3. /\ FirstWitness(a, b, k).of = a.of /\ SecondWitness(a, b).of = b.of
        /\ SecondWitness(a, b).sigs = b.keys
    BY DEF SecondWitness, FirstWitness, WitnessFrom
  <1>4. \/ FetterOfParty(ledger[p], i) = a /\ WitnessOfParty(ledger[p], i) = FirstWitness(a, b, k)
        \/ FetterOfParty(ledger[p], i) = b /\ WitnessOfParty(ledger[p], i) = SecondWitness(a, b)
    BY <1>2, PartiesItems
  <1> QED
    BY <1>1, <1>3, <1>4, PartyFacts

LEMMA InvAgreement == IInv => Agreement /\ ReturnedBlockIsCompleted
  <1> SUFFICES ASSUME IInv PROVE Agreement /\ ReturnedBlockIsCompleted
    OBVIOUS
  <1> USE PartyFacts
  <1>1. PICK n \in 0 .. 11, ks \in Seq(KeysOf[Server]), kc \in Seq(KeysOf[Client]),
             k \in Seq(KeysOf[Server]) : Phase(n, ks, kc, k)
    BY DEF IInv, Phased
  <1>2. IsCompleted(TheBlock(ks, kc, k))
    <2>1. /\ ServerFetter(ks) \in Fetters /\ ClientFetter(kc) \in Fetters
          /\ k \in Seq(Key)
      BY FetterFacts
    <2> QED
      BY <2>1, StagesCompleted DEF TheBlock
  <1>3. pc[Client] = "block" => n = 11
    BY <1>1 DEF Phase, ControlAt, ClientPc
  <1>4. pc[Server] = "block" => n \in {10, 11}
    BY <1>1 DEF Phase, ControlAt, ServerPc
  <1>5. /\ n \in {10, 11} => ledger[Server] = TheBlock(ks, kc, k)
        /\ n = 11 => ledger[Client] = TheBlock(ks, kc, k)
    BY <1>1 DEF Phase, LedgersAt
  <1> QED
    BY <1>2, <1>3, <1>4, <1>5 DEF Agreement, ReturnedBlockIsCompleted

\* What flipping makes of a choice, and flipping that again.
LEMMA FlipFacts ==
  ASSUME NEW c \in Choices
  PROVE  <<Flip(Flip(c)), Flip(c)>> \in
           {<<<<>>, <<>>>>,
            <<<<{"BOUND_WITNESS"}>>, <<{"BOUND_WITNESS"}>>>>,
            <<<<{"TAKE_ORIGIN_CHAIN"}>>, <<{"GIVE_ORIGIN_CHAIN"}>>>>,
            <<<<{"GIVE_ORIGIN_CHAIN"}>>, <<{"TAKE_ORIGIN_CHAIN"}>>>>}
  <1>1. CASE c = <<>>
    BY <1>1 DEF Flip
  <1>2. CASE c # <<>> /\ "TAKE_ORIGIN_CHAIN" \in c[1]
    <2>1. Flip(c) = <<{"GIVE_ORIGIN_CHAIN"}>>
      BY <1>2 DEF Flip
    <2>2. Flip(<<{"GIVE_ORIGIN_CHAIN"}>>) = <<{"TAKE_ORIGIN_CHAIN"}>>
      BY DEF Flip
    <2> QED
      BY <2>1, <2>2
  <1>3. CASE c # <<>> /\ "TAKE_ORIGIN_CHAIN" \notin c[1] /\ "GIVE_ORIGIN_CHAIN" \in c[1]
    <2>1. Flip(c) = <<{"TAKE_ORIGIN_CHAIN"}>>
      BY <1>3 DEF Flip
    <2>2. Flip(<<{"TAKE_ORIGIN_CHAIN"}>>) = <<{"GIVE_ORIGIN_CHAIN"}>>
      BY DEF Flip
    <2> QED
      BY <2>1, <2>2
  <1>4. CASE c # <<>> /\ "TAKE_ORIGIN_CHAIN" \notin c[1] /\ "GIVE_ORIGIN_CHAIN" \notin c[1]
    <2>1. Flip(c) = <<{"BOUND_WITNESS"}>>
      BY <1>4 DEF Flip
    <2>2. Flip(<<{"BOUND_WITNESS"}>>) = <<{"BOUND_WITNESS"}>>
      BY DEF Flip
    <2> QED
      BY <2>1, <2>2
  <1> QED
    BY <1>1, <1>2, <1>3, <1>4

LEMMA InvRoles == IInv => RolesComplement
  <1> SUFFICES ASSUME IInv,
                      pc[Client] \notin {"idle", "sendCatalog", "awaitChoice", "undefined"}
               PROVE  <<choice[Client], choice[Server]>> \in
                        {<<<<>>, <<>>>>,
                         <<<<{"BOUND_WITNESS"}>>, <<{"BOUND_WITNESS"}>>>>,
                         <<<<{"TAKE_ORIGIN_CHAIN"}>>, <<{"GIVE_ORIGIN_CHAIN"}>>>>,
                         <<<<{"GIVE_ORIGIN_CHAIN"}>>, <<{"TAKE_ORIGIN_CHAIN"}>>>>}
    BY DEF RolesComplement
  <1>1. PICK n \in 0 .. 11 : ControlAt(n) /\ ChoicesAt(n)
    BY DEF IInv, Phased, Phase
  <1>2. n >= 6
    BY <1>1 DEF ControlAt, ClientPc
  <1>3. PICK c \in ServerChoices : choice[Server] = Flip(c)
    BY <1>1, <1>2 DEF ChoicesAt
  <1>4. choice[Client] = Flip(Flip(c))
    BY <1>1, <1>2, <1>3 DEF ChoicesAt
  <1>5. c \in Choices
    BY ChoicesAssumption
  <1> QED
    BY <1>3, <1>4, <1>5, FlipFacts

LEMMA InvNobodyWaits == IInv => NobodyWaitsInVain
  <1> SUFFICES ASSUME IInv, NEW p \in Party, pc[p] \in Awaiting,
                      \A q \in Party : sock[q] = "open"
               PROVE  \/ wire[p] # <<>>
                      \/ pc[Peer(p)] \in Writing \cup {"payloads"}
                      \/ pc[Peer(p)] \in Awaiting \cup {"idle"} /\ wire[Peer(p)] # <<>>
    BY DEF NobodyWaitsInVain
  <1> USE PartyFacts
  <1>1. PICK n \in 0 .. 11, ks \in Seq(KeysOf[Server]), kc \in Seq(KeysOf[Client]),
             k \in Seq(KeysOf[Server]) : Phase(n, ks, kc, k)
    BY DEF IInv, Phased
  <1>2. pc[Server] = ServerPc(n) /\ pc[Client] = ClientPc(n)
    BY <1>1 DEF Phase, ControlAt
  <1>3. /\ n = 2 => wire[Server] # <<>>
        /\ n = 8 => wire[Server] # <<>>
        /\ n = 5 => wire[Client] # <<>>
        /\ n = 10 => wire[Client] # <<>>
    BY <1>1 DEF Phase, WiresAt
  <1>4. CASE p = Client
    <2>1. n \in {2, 3, 4, 5, 8, 9, 10}
      BY <1>2, <1>4 DEF ClientPc, Awaiting
    <2> QED
      BY <1>2, <1>3, <1>4, <2>1 DEF ServerPc, Awaiting, Writing
  <1>5. CASE p = Server
    <2>1. n \in {5, 6, 7, 8}
      BY <1>2, <1>5 DEF ServerPc, Awaiting
    <2> QED
      BY <1>2, <1>3, <1>5, <2>1 DEF ClientPc, Awaiting, Writing
  <1> QED
    BY <1>4, <1>5

LEMMA InvType == IInv => TypeOK
  <1> SUFFICES ASSUME IInv PROVE TypeOK
    OBVIOUS
  <1> USE PartyFacts
  <1>1. PICK n \in 0 .. 11, ks \in Seq(KeysOf[Server]), kc \in Seq(KeysOf[Client]),
             k \in Seq(KeysOf[Server]) : Phase(n, ks, kc, k)
    BY DEF IInv, Phased
  <1>2. Shaped
    BY DEF IInv
  <1> DEFINE a == ServerFetter(ks)
             b == ClientFetter(kc)
             w == SecondWitness(a, b)
             v == FirstWitness(a, b, k)
             Pcs == {"idle", "payloads"} \cup Writing \cup Awaiting \cup Returned
  <1>3. /\ a \in Fetters /\ b \in Fetters /\ k \in Seq(Key)
    BY FetterFacts
  <1> HIDE DEF a, b
  <1>4. /\ <<>> \in Seq(Items) /\ <<a>> \in Seq(Items)
        /\ <<b, w>> \in Seq(Items) /\ <<v>> \in Seq(Items)
        /\ Answered(a, b) \in Seq(Items) /\ Agreed(a, b, k) \in Seq(Items)
    BY <1>3, StageTypes
  <1>5. \A q \in Party : pc[q] \in Pcs
    BY <1>1 DEF Phase, ControlAt, ServerPc, ClientPc, Writing, Awaiting, Returned
  <1>6. \A q \in Party : /\ sentFetter[q] \in BOOLEAN /\ cycles[q] \in Nat
                         /\ sock[q] \in {"open", "closed"}
    <2>1. ControlAt(n)
      BY <1>1 DEF Phase
    <2>2. sentFetter[Server] \in BOOLEAN
      <3>1. CASE n <= 3
        BY <2>1, <3>1 DEF ControlAt
      <3>2. CASE n >= 4
        BY <2>1, <3>2 DEF ControlAt
      <3> QED
        BY <3>1, <3>2
    <2>3. sentFetter[Client] \in BOOLEAN
      <3>1. CASE n <= 6
        BY <2>1, <3>1 DEF ControlAt
      <3>2. CASE n >= 7
        BY <2>1, <3>2 DEF ControlAt
      <3> QED
        BY <3>1, <3>2
    <2>4. \A q \in Party : cycles[q] \in Nat /\ sock[q] \in {"open", "closed"}
      BY <2>1 DEF ControlAt
    <2> QED
      BY <2>2, <2>3, <2>4
  <1>7. \A c \in Choices : Flip(c) \in Choices
    BY DEF Flip, Choices, Flags
  <1>8. choice[Server] \in Choices /\ choice[Client] \in Choices
    <2>1. <<>> \in Choices
      BY DEF Choices
    <2> QED
      BY <1>1, <1>7, <2>1, ChoicesAssumption DEF Phase, ChoicesAt
  <1>9. \A q \in Party : Sent(ledger[q])
    BY <1>1, <1>4 DEF Phase, LedgersAt, TheAnswer, TheBlock, Sent, a, b
  <1>10. \A q \in Party : transfer[q].given \in BOOLEAN /\ Sent(transfer[q].items)
    <2>1. /\ Undefined.given \in BOOLEAN /\ Sent(Undefined.items)
          /\ \A items : Given(items).given \in BOOLEAN /\ Given(items).items = items
      BY <1>4 DEF Undefined, Given, Sent
    <2>2. Answer(ks, kc).items = <<b, w>>
      BY DEF Answer, Message, a, b
    <2> HIDE DEF Undefined, Given
    <2> QED
      BY <1>1, <1>4, <2>1, <2>2, ZenonT(30) DEF Phase, TransfersAt, Sent, a
  <1>11. ASSUME NEW q \in Party, NEW i \in DOMAIN wire[q]
         PROVE  wire[q][i].choice \in Choices /\ Sent(wire[q][i].items)
    <2>1. /\ Catalog.choice = <<>> /\ Catalog.items = <<>>
          /\ Offer(ks).choice = Flip(choice[Server]) /\ Offer(ks).items = <<a>>
          /\ Answer(ks, kc).choice = <<>> /\ Answer(ks, kc).items = <<b, w>>
          /\ Countersignature(ks, kc, k).choice = <<>>
          /\ Countersignature(ks, kc, k).items = <<v>>
      BY DEF Catalog, Offer, Answer, Countersignature, Message, a, b
    <2>2. <<>> \in Choices
      BY DEF Choices
    <2>3. \E m \in {Catalog, Offer(ks), Answer(ks, kc), Countersignature(ks, kc, k)} :
            wire[q] = <<m>>
      <3>1. wire[q] # <<>>
        BY <1>11
      <3> QED
        BY <1>1, <3>1 DEF Phase, WiresAt
    <2>4. wire[q][i] \in {Catalog, Offer(ks), Answer(ks, kc), Countersignature(ks, kc, k)}
      BY <1>11, <2>3
    <2> QED
      BY <1>4, <1>7, <1>8, <2>1, <2>2, <2>4 DEF Sent
  <1>12. \A q \in Party : signers[q] \in Seq(KeysOf[q])
    BY DEF IInv, SignersOK
  <1>13. /\ pc \in [Party -> Pcs] /\ sentFetter \in [Party -> BOOLEAN]
         /\ cycles \in [Party -> Nat] /\ sock \in [Party -> {"open", "closed"}]
         /\ choice \in [Party -> Choices]
    <2> HIDE DEF Pcs
    <2>1. pc \in [Party -> Pcs]
      BY <1>2, <1>5 DEF Shaped
    <2>2. sentFetter \in [Party -> BOOLEAN]
      BY <1>2, <1>6 DEF Shaped
    <2>3. cycles \in [Party -> Nat]
      BY <1>2, <1>6 DEF Shaped
    <2>4. sock \in [Party -> {"open", "closed"}]
      BY <1>2, <1>6 DEF Shaped
    <2>5. choice \in [Party -> Choices]
      BY <1>2, <1>8 DEF Shaped
    <2> QED
      BY <2>1, <2>2, <2>3, <2>4, <2>5
  <1> QED
    BY <1>9, <1>10, <1>11, <1>12, <1>13 DEF TypeOK

\* Every variable of the session keeps its type.
THEOREM SessionTypeOK == Spec => []TypeOK
  BY SessionInvariant, InvType, PTL

\* A client that got its block leaves the server with the same completed one.
THEOREM SessionAgreement == Spec => []Agreement
  BY SessionInvariant, InvAgreement, PTL

\* boundWitness never returns a block a signature is missing from.
THEOREM SessionReturnsCompleted == Spec => []ReturnedBlockIsCompleted
  BY SessionInvariant, InvAgreement, PTL

\* Every signature covers the fetters of both parties and nothing else.
THEOREM SessionSignaturesCoverBoth == Spec => []SignaturesCoverBothFetters
  BY SessionInvariant, InvCover, PTL

\* The server's signature exists only after the client's over the same fetters.
THEOREM SessionServerSignsLast == Spec => []ServerSignsLast
  BY SessionInvariant, InvServerLast, PTL

\* getWitnessOfParty and getFetterOfParty give the same party's items.
THEOREM SessionWitnessMatchesFetter == Spec => []WitnessMatchesFetter
  BY SessionInvariant, InvWitnesses, PTL

\* The client's signatures are made with exactly the keys it announced.
THEOREM SessionClientKeysMatch == Spec => []ClientKeysMatchSignatures
  BY SessionInvariant, InvWitnesses, PTL

\* The two sides make their payloads for opposite roles.
THEOREM SessionRolesComplement == Spec => []RolesComplement
  BY SessionInvariant, InvRoles, PTL

\* Over an open connection nobody waits without a message on its way or to come.
THEOREM SessionNobodyWaitsInVain == Spec => []NobodyWaitsInVain
  BY SessionInvariant, InvNobodyWaits, PTL

-----------------------------------------------------------------------------
(* ZigZagSession implements BoundWitnessExchange: its initial states map to  *)
(* initial states of the exchange and every step to a step or a stutter.     *)
(* The phase of the session decides what the two parties have offered and    *)
(* signed, so the proof is one of what each change of phase maps to.  The    *)
(* fairness of the exchange is liveness and stays with TLC.                  *)


\* What the parties have offered and signed in a phase.
OffersAt(n, a, b) ==
  [p \in Party |-> IF p = Server THEN IF n <= 3 THEN <<>> ELSE a
                   ELSE IF n <= 6 THEN <<>> ELSE b]
SignedAt(n, a, b) ==
  [p \in Party |-> IF p = Server THEN IF n <= 8 THEN <<>> ELSE <<a, b>>
                   ELSE IF n <= 6 THEN <<>> ELSE <<a, b>>]

-----------------------------------------------------------------------------
(* The actions of the exchange, on the mapped variables.                   *)

LEMMA ExchangeParties == Exchange!Parties = Party
  BY PartyFacts DEF Exchange!Parties

LEMMA MappedOffer ==
  ASSUME theOffers[Server] = <<>>, theHeld[Server] = "nothing",
         NEW o \in AllOffers, theOffers' = [theOffers EXCEPT ![Server] = o],
         UNCHANGED <<theSigned, theHeld>>
  PROVE  Exchange!Next
  BY DEF Exchange!Next, Exchange!Offer

LEMMA MappedAnswer ==
  ASSUME theOffers[Server] # <<>>, theOffers[Client] = <<>>, theHeld[Client] = "nothing",
         NEW o \in AllOffers, theOffers' = [theOffers EXCEPT ![Client] = o],
         theSigned' = [theSigned EXCEPT ![Client] = <<theOffers[Server], o>>],
         UNCHANGED theHeld
  PROVE  Exchange!Next
  BY DEF Exchange!Next, Exchange!AnswerAndSign

LEMMA MappedCountersign ==
  ASSUME theSigned[Client] # <<>>, theSigned[Server] = <<>>, theHeld[Server] = "nothing",
         theSigned' = [theSigned EXCEPT ![Server] = theSigned[Client]],
         UNCHANGED <<theOffers, theHeld>>
  PROVE  Exchange!Next
  BY DEF Exchange!Next, Exchange!Countersign

LEMMA MappedObtain ==
  ASSUME NEW p \in Party, theHeld[p] = "nothing",
         \A q \in Party : theSigned[q] = <<theOffers[Server], theOffers[Client]>>,
         theHeld' = [theHeld EXCEPT ![p] = "block"], UNCHANGED <<theOffers, theSigned>>
  PROVE  Exchange!Next
  BY ExchangeParties DEF Exchange!Next, Exchange!Obtain

LEMMA MappedGiveUp ==
  ASSUME NEW p \in Party, theHeld[p] = "nothing",
         theHeld' = [theHeld EXCEPT ![p] = "undefined"], UNCHANGED <<theOffers, theSigned>>
  PROVE  Exchange!Next
  BY ExchangeParties DEF Exchange!Next, Exchange!GiveUp

-----------------------------------------------------------------------------
(* What a ledger of the session maps to.                                   *)

LEMMA OwnFetter ==
  ASSUME NEW l, NEW p, NEW i, Own(l, p, "fetter") = {i}
  PROVE  OfferIn(l, p) = l[i]
  BY DEF OfferIn

LEMMA OwnWitness ==
  ASSUME NEW l, NEW p, NEW i, Own(l, p, "witness") = {i}
  PROVE  SignedIn(l, p) = l[i].signed
  BY DEF SignedIn

LEMMA OwnNone ==
  ASSUME NEW l, NEW p
  PROVE  /\ Own(l, p, "fetter") = {} => OfferIn(l, p) = <<>>
         /\ Own(l, p, "witness") = {} => SignedIn(l, p) = <<>>
  BY DEF OfferIn, SignedIn

LEMMA OwnOffers ==
  ASSUME NEW a \in Fetters, NEW b \in Fetters, NEW k \in Seq(Key),
         a.of = Server, b.of = Client
  PROVE  /\ \A p \in Party : OfferIn(<<>>, p) = <<>>
         /\ OfferIn(<<a>>, Server) = a
         /\ OfferIn(Answered(a, b), Client) = b
         /\ OfferIn(Agreed(a, b, k), Server) = a
         /\ OfferIn(Agreed(a, b, k), Client) = b
  <1> DEFINE w == SecondWitness(a, b)
             v == FirstWitness(a, b, k)
  <1>1. /\ a.kind = "fetter" /\ b.kind = "fetter"
        /\ w.kind = "witness" /\ v.kind = "witness"
    BY DEF Fetters, SecondWitness, FirstWitness, WitnessFrom
  <1> HIDE DEF w, v
  <1>2. \A p \in Party : Own(<<>>, p, "fetter") = {}
    BY DEF Own, Positions
  <1>3. Own(<<a>>, Server, "fetter") = {1}
    BY <1>1 DEF Own, Positions
  <1>4. Own(<<a, b, w>>, Client, "fetter") = {2}
    BY <1>1, PartyFacts DEF Own, Positions
  <1>5. Own(<<a, b, w, v>>, Server, "fetter") = {1}
    BY <1>1, PartyFacts DEF Own, Positions
  <1>6. Own(<<a, b, w, v>>, Client, "fetter") = {2}
    BY <1>1, PartyFacts DEF Own, Positions
  <1>7. /\ \A p \in Party : OfferIn(<<>>, p) = <<>>
        /\ OfferIn(<<a>>, Server) = a
        /\ OfferIn(<<a, b, w>>, Client) = b
        /\ OfferIn(<<a, b, w, v>>, Server) = a
        /\ OfferIn(<<a, b, w, v>>, Client) = b
    <2>1. <<a>>[1] = a /\ <<a, b, w>>[2] = b /\ <<a, b, w, v>>[1] = a /\ <<a, b, w, v>>[2] = b
      OBVIOUS
    <2>2. \A p \in Party : OfferIn(<<>>, p) = <<>>
      BY <1>2, OwnNone
    <2> DEFINE l == <<a>>
               m == <<a, b, w>>
               o == <<a, b, w, v>>
    <2>3. Own(l, Server, "fetter") = {1} /\ Own(o, Server, "fetter") = {1}
      BY <1>3, <1>5
    <2>4. Own(m, Client, "fetter") = {2} /\ Own(o, Client, "fetter") = {2}
      BY <1>4, <1>6
    <2> HIDE DEF l, m, o
    <2>5. OfferIn(l, Server) = l[1] /\ OfferIn(o, Server) = o[1]
      BY <2>3, OwnFetter
    <2>6. OfferIn(m, Client) = m[2] /\ OfferIn(o, Client) = o[2]
      BY <2>4, OwnFetter
    <2> USE DEF l, m, o
    <2> QED
      BY <2>1, <2>2, <2>5, <2>6
  <1> QED
    BY <1>7 DEF Answered, Agreed, w, v

LEMMA OwnSignatures ==
  ASSUME NEW a \in Fetters, NEW b \in Fetters, NEW k \in Seq(Key),
         a.of = Server, b.of = Client
  PROVE  /\ \A p \in Party : SignedIn(<<>>, p) = <<>>
         /\ SignedIn(<<a>>, Server) = <<>>
         /\ SignedIn(Answered(a, b), Client) = <<a, b>>
         /\ SignedIn(Agreed(a, b, k), Server) = <<a, b>>
         /\ SignedIn(Agreed(a, b, k), Client) = <<a, b>>
  <1> DEFINE w == SecondWitness(a, b)
             v == FirstWitness(a, b, k)
  <1>1. /\ a.kind = "fetter" /\ b.kind = "fetter"
        /\ w.kind = "witness" /\ w.of = Client /\ w.signed = <<a, b>>
        /\ v.kind = "witness" /\ v.of = Server /\ v.signed = <<a, b>>
    BY DEF Fetters, SecondWitness, FirstWitness, WitnessFrom
  <1> HIDE DEF w, v
  <1>2. \A p \in Party : Own(<<>>, p, "witness") = {}
    BY DEF Own, Positions
  <1>3. Own(<<a>>, Server, "witness") = {}
    BY <1>1 DEF Own, Positions
  <1>4. Own(<<a, b, w>>, Client, "witness") = {3}
    BY <1>1, PartyFacts DEF Own, Positions
  <1>5. Own(<<a, b, w, v>>, Server, "witness") = {4}
    BY <1>1, PartyFacts DEF Own, Positions
  <1>6. Own(<<a, b, w, v>>, Client, "witness") = {3}
    BY <1>1, PartyFacts DEF Own, Positions
  <1>7. /\ \A p \in Party : SignedIn(<<>>, p) = <<>>
        /\ SignedIn(<<a>>, Server) = <<>>
        /\ SignedIn(<<a, b, w>>, Client) = <<a, b>>
        /\ SignedIn(<<a, b, w, v>>, Server) = <<a, b>>
        /\ SignedIn(<<a, b, w, v>>, Client) = <<a, b>>
    <2>1. /\ <<a, b, w>>[3].signed = <<a, b>>
          /\ <<a, b, w, v>>[4].signed = <<a, b>> /\ <<a, b, w, v>>[3].signed = <<a, b>>
      BY <1>1
    <2>2. /\ \A p \in Party : SignedIn(<<>>, p) = <<>>
          /\ SignedIn(<<a>>, Server) = <<>>
      BY <1>2, <1>3, OwnNone
    <2> DEFINE l == <<a, b, w>>
               m == <<a, b, w, v>>
    <2>3. Own(l, Client, "witness") = {3} /\ Own(m, Server, "witness") = {4}
          /\ Own(m, Client, "witness") = {3}
      BY <1>4, <1>5, <1>6
    <2> HIDE DEF l, m
    <2>4. SignedIn(l, Client) = l[3].signed
      BY <2>3, OwnWitness, ZenonT(30)
    <2>5. SignedIn(m, Server) = m[4].signed
      BY <2>3, OwnWitness, ZenonT(30)
    <2>6. SignedIn(m, Client) = m[3].signed
      BY <2>3, OwnWitness, ZenonT(30)
    <2> USE DEF l, m
    <2> QED
      BY <2>1, <2>2, <2>4, <2>5, <2>6
  <1> QED
    BY <1>7 DEF Answered, Agreed, w, v

\* The same for the ledgers of a phase, now and after a step.
LEMMA PhaseMaps ==
  ASSUME NEW n \in 0 .. 11, NEW ks \in Seq(KeysOf[Server]),
         NEW kc \in Seq(KeysOf[Client]), NEW k \in Seq(KeysOf[Server])
  PROVE  /\ Phase(n, ks, kc, k) =>
              /\ theOffers = OffersAt(n, ServerFetter(ks), ClientFetter(kc))
              /\ theSigned = SignedAt(n, ServerFetter(ks), ClientFetter(kc))
         /\ Phase(n, ks, kc, k)' =>
              /\ theOffers' = OffersAt(n, ServerFetter(ks), ClientFetter(kc))
              /\ theSigned' = SignedAt(n, ServerFetter(ks), ClientFetter(kc))
  <1> DEFINE a == ServerFetter(ks)
             b == ClientFetter(kc)
             IsAt(l) ==
               /\ l[Server] = (IF n <= 3 THEN <<>> ELSE IF n <= 8 THEN <<a>>
                               ELSE Agreed(a, b, k))
               /\ l[Client] = (IF n <= 6 THEN <<>> ELSE IF n <= 10 THEN Answered(a, b)
                               ELSE Agreed(a, b, k))
  <1>1. a \in Fetters /\ b \in Fetters /\ k \in Seq(Key) /\ a.of = Server /\ b.of = Client
    BY FetterFacts
  <1>2. /\ Phase(n, ks, kc, k) => IsAt(ledger)
        /\ Phase(n, ks, kc, k)' => IsAt(ledger')
    BY DEF Phase, LedgersAt, TheAnswer, TheBlock
  <1> HIDE DEF a, b
  <1>3. ASSUME NEW l, IsAt(l)
        PROVE  /\ [p \in Party |-> OfferIn(l[p], p)] = OffersAt(n, a, b)
               /\ [p \in Party |-> SignedIn(l[p], p)] = SignedAt(n, a, b)
    <2>1. /\ OfferIn(l[Server], Server) = (IF n <= 3 THEN <<>> ELSE a)
          /\ OfferIn(l[Client], Client) = (IF n <= 6 THEN <<>> ELSE b)
      BY <1>1, <1>3, OwnOffers, PartyFacts
    <2>2. /\ SignedIn(l[Server], Server) = (IF n <= 8 THEN <<>> ELSE <<a, b>>)
          /\ SignedIn(l[Client], Client) = (IF n <= 6 THEN <<>> ELSE <<a, b>>)
      <3>1. /\ SignedIn(<<>>, Server) = <<>> /\ SignedIn(<<>>, Client) = <<>>
            /\ SignedIn(<<a>>, Server) = <<>> /\ SignedIn(Answered(a, b), Client) = <<a, b>>
            /\ SignedIn(Agreed(a, b, k), Server) = <<a, b>>
            /\ SignedIn(Agreed(a, b, k), Client) = <<a, b>>
        BY <1>1, OwnSignatures, PartyFacts
      <3> DEFINE c == <<a, b>>
      <3> HIDE DEF c
      <3>2. /\ SignedIn(l[Server], Server) = (IF n <= 8 THEN <<>> ELSE c)
            /\ SignedIn(l[Client], Client) = (IF n <= 6 THEN <<>> ELSE c)
        BY <1>3, <3>1, SMTT(30) DEF c
      <3> QED
        BY <3>2 DEF c
    <2> QED
      BY <2>1, <2>2, PartyFacts DEF OffersAt, SignedAt
  <1> HIDE DEF IsAt
  <1> QED
    BY <1>2, <1>3 DEF theOffers, theSigned, a, b

LEMMA HeldKept ==
  ASSUME Shaped, NEW p \in Party, NEW x, pc[p] \notin Returned, x \notin Returned,
         pc' = [pc EXCEPT ![p] = x]
  PROVE  theHeld' = theHeld
  BY DEF theHeld, Shaped

LEMMA HeldEnds ==
  ASSUME Shaped, NEW p \in Party, NEW x \in Returned, pc[p] \notin Returned,
         pc' = [pc EXCEPT ![p] = x]
  PROVE  theHeld[p] = "nothing" /\ theHeld' = [theHeld EXCEPT ![p] = x]
  BY DEF theHeld, Shaped

-----------------------------------------------------------------------------
(* What the steps of the session map to.                                   *)

\* A step that changes no phase, and one that moves a message on.
LEMMA QuietImplements ==
  ASSUME NEW n \in 0 .. 11, NEW m \in 0 .. 11, NEW ks \in Seq(KeysOf[Server]),
         NEW kc \in Seq(KeysOf[Client]), NEW k \in Seq(KeysOf[Server]),
         Phase(n, ks, kc, k), Phase(m, ks, kc, k)',
         n <= 3 <=> m <= 3, n <= 6 <=> m <= 6, n <= 8 <=> m <= 8
  PROVE  UNCHANGED <<theOffers, theSigned>>
  <1> DEFINE a == ServerFetter(ks)
             b == ClientFetter(kc)
  <1>1. /\ theOffers = OffersAt(n, a, b) /\ theSigned = SignedAt(n, a, b)
        /\ theOffers' = OffersAt(m, a, b) /\ theSigned' = SignedAt(m, a, b)
    BY PhaseMaps
  <1> HIDE DEF a, b
  <1>2. OffersAt(m, a, b) = OffersAt(n, a, b) /\ SignedAt(m, a, b) = SignedAt(n, a, b)
    BY DEF OffersAt, SignedAt
  <1> QED
    BY <1>1, <1>2

\* A call that fails has given up.
LEMMA LossImplements ==
  ASSUME NEW n \in 0 .. 11, NEW ks \in Seq(KeysOf[Server]),
         NEW kc \in Seq(KeysOf[Client]), NEW k \in Seq(KeysOf[Server]), NEW p \in Party,
         Shaped, Phase(n, ks, kc, k),
         \/ WriteFails(p) \/ Timeout(p) \/ SocketCloses(p) \/ Close(p)
         \/ AddSigner(p) \/ RemoveOldestSigner(p) \/ UNCHANGED vars
  PROVE  [Exchange!Next]_(Exchange!vars)
  <1>1. UNCHANGED <<theOffers, theSigned>>
    <2>1. Phase(n, ks, kc, k)'
      BY LossStep
    <2> QED
      BY <2>1, QuietImplements
  <1>2. \/ pc' = pc
        \/ pc[p] \notin Returned /\ pc' = [pc EXCEPT ![p] = "undefined"]
    BY DEF WriteFails, Timeout, SocketCloses, Close, AddSigner, RemoveOldestSigner,
           Fail, vars, Writing, Awaiting, Returned
  <1>3. CASE pc' = pc
    BY <1>1, <1>3 DEF Exchange!vars, theHeld
  <1>4. CASE pc[p] \notin Returned /\ pc' = [pc EXCEPT ![p] = "undefined"]
    <2>1. "undefined" \in Returned
      BY DEF Returned
    <2>2. theHeld[p] = "nothing" /\ theHeld' = [theHeld EXCEPT ![p] = "undefined"]
      BY <1>4, <2>1, HeldEnds
    <2> QED
      BY <1>1, <2>2, MappedGiveUp
  <1> QED
    BY <1>2, <1>3, <1>4

\* Every fetter of the session is one of the offers.
LEMMA FetterOffered ==
  ASSUME NEW p \in Party, NEW s \in Seq(KeysOf[p]), Len(s) <= MaxSigners
  PROVE  FetterFrom(p, s) \in AllOffers /\ FetterFrom(p, s) # <<>>
  <1>1. s \in Seq(Key) /\ Len(s) \in 0 .. MaxSigners
    <2>1. KeysOf[p] \subseteq Key
      BY KeysAssumption
    <2> QED
      BY <2>1, SignersAssumption
  <1>2. s \in [1 .. Len(s) -> Key]
    BY <1>1
  <1>3. s \in UNION {[1 .. n -> Key] : n \in 0 .. MaxSigners}
    BY <1>1, <1>2
  <1>4. FetterFrom(p, s) # <<>>
    BY DEF FetterFrom
  <1> QED
    BY <1>3, <1>4 DEF AllOffers

\* The server's first cycle is the offer.
LEMMA OfferImplements ==
  ASSUME NEW n \in 0 .. 11, NEW ks \in Seq(KeysOf[Server]),
         NEW kc \in Seq(KeysOf[Client]), NEW k \in Seq(KeysOf[Server]),
         NEW s, s = signers[Server], Shaped, SignersOK, Phase(n, ks, kc, k),
         MakeSession(Server)
  PROVE  Exchange!Next
  <1> DEFINE a == ServerFetter(s)
             b == ClientFetter(kc)
  <1>1. s \in Seq(KeysOf[Server]) /\ Len(s) <= MaxSigners /\ s \in Seq(Key)
    BY PartyFacts, FetterFacts DEF SignersOK
  <1>2. n = 3 /\ Phase(4, s, kc, k)' /\ pc' = [pc EXCEPT ![Server] = "sendCycle"]
    BY <1>1, ServerOffersStep
  <1>3. a \in AllOffers
    BY <1>1, PartyFacts, FetterOffered DEF ServerFetter
  <1>4. /\ theOffers = OffersAt(3, ServerFetter(ks), b)
        /\ theSigned = SignedAt(3, ServerFetter(ks), b)
    BY <1>2, PhaseMaps
  <1>5. theOffers' = OffersAt(4, a, b) /\ theSigned' = SignedAt(4, a, b)
    BY <1>1, <1>2, PhaseMaps
  <1> HIDE DEF a, b
  <1>6. theOffers[Server] = <<>> /\ theOffers' = [theOffers EXCEPT ![Server] = a]
    BY <1>4, <1>5, PartyFacts DEF OffersAt
  <1>7. theSigned' = theSigned
    BY <1>4, <1>5 DEF SignedAt
  <1>8. theHeld' = theHeld /\ theHeld[Server] = "nothing"
    <2>1. pc[Server] \notin Returned /\ "sendCycle" \notin Returned
      BY DEF MakeSession, Returned
    <2> QED
      BY <1>2, <2>1, PartyFacts, HeldKept DEF theHeld
  <1> QED
    BY <1>3, <1>6, <1>7, <1>8, MappedOffer

\* The client's first cycle is its offer and its signature at once.
LEMMA AnswerImplements ==
  ASSUME NEW n \in 0 .. 11, NEW ks \in Seq(KeysOf[Server]),
         NEW kc \in Seq(KeysOf[Client]), NEW k \in Seq(KeysOf[Server]),
         NEW s, s = signers[Client], Shaped, SignersOK, Phase(n, ks, kc, k),
         MakeSession(Client)
  PROVE  Exchange!Next
  <1> DEFINE a == ServerFetter(ks)
             b == ClientFetter(s)
  <1>1. s \in Seq(KeysOf[Client]) /\ Len(s) <= MaxSigners
    BY PartyFacts DEF SignersOK
  <1>2. n = 6 /\ Phase(7, ks, s, k)' /\ pc' = [pc EXCEPT ![Client] = "sendCycle"]
    BY <1>1, ClientAnswersStep
  <1>3. b \in AllOffers
    BY <1>1, PartyFacts, FetterOffered DEF ClientFetter
  <1>4. /\ theOffers = OffersAt(6, a, ClientFetter(kc))
        /\ theSigned = SignedAt(6, a, ClientFetter(kc))
    BY <1>2, PhaseMaps
  <1>5. theOffers' = OffersAt(7, a, b) /\ theSigned' = SignedAt(7, a, b)
    BY <1>1, <1>2, PhaseMaps
  <1>6. a # <<>>
    BY DEF ServerFetter, FetterFrom
  <1> HIDE DEF a, b
  <1>7. /\ theOffers[Server] = a /\ theOffers[Client] = <<>>
        /\ theOffers' = [theOffers EXCEPT ![Client] = b]
    BY <1>4, <1>5, PartyFacts DEF OffersAt
  <1>8. theSigned' = [theSigned EXCEPT ![Client] = <<a, b>>]
    BY <1>4, <1>5, PartyFacts DEF SignedAt
  <1>9. theHeld' = theHeld /\ theHeld[Client] = "nothing"
    <2>1. pc[Client] \notin Returned /\ "sendCycle" \notin Returned
      BY DEF MakeSession, Returned
    <2> QED
      BY <1>2, <2>1, PartyFacts, HeldKept DEF theHeld
  <1> QED
    BY <1>3, <1>6, <1>7, <1>8, <1>9, MappedAnswer

\* The server's second cycle is the countersignature.
LEMMA CountersignImplements ==
  ASSUME NEW n \in 0 .. 11, NEW ks \in Seq(KeysOf[Server]),
         NEW kc \in Seq(KeysOf[Client]), NEW k \in Seq(KeysOf[Server]),
         NEW s, s = signers[Server], Shaped, SignersOK, Phase(n, ks, kc, k),
         ReceiveCycle(Server)
  PROVE  Exchange!Next
  <1> DEFINE a == ServerFetter(ks)
             b == ClientFetter(kc)
             c == <<a, b>>
  <1>1. s \in Seq(KeysOf[Server])
    BY PartyFacts DEF SignersOK
  <1>2. n = 8 /\ Phase(9, ks, kc, s)' /\ pc' = [pc EXCEPT ![Server] = "sendCycle"]
    BY <1>1, CountersignStep
  <1>3. theOffers = OffersAt(8, a, b) /\ theSigned = SignedAt(8, a, b)
    BY <1>2, PhaseMaps
  <1>4. theOffers' = OffersAt(9, a, b) /\ theSigned' = SignedAt(9, a, b)
    BY <1>1, <1>2, PhaseMaps
  <1>5. c # <<>>
    OBVIOUS
  <1>6. theOffers' = theOffers
    BY <1>3, <1>4 DEF OffersAt
  <1>7. /\ theSigned = [p \in Party |-> IF p = Server THEN <<>> ELSE c]
        /\ theSigned' = [p \in Party |-> c]
    BY <1>3, <1>4 DEF SignedAt
  <1> HIDE DEF a, b, c
  <1>8. /\ theSigned[Client] # <<>> /\ theSigned[Server] = <<>>
        /\ theSigned' = [theSigned EXCEPT ![Server] = theSigned[Client]]
    BY <1>5, <1>7, PartyFacts
  <1>9. theHeld' = theHeld /\ theHeld[Server] = "nothing"
    <2>1. pc[Server] \notin Returned /\ "sendCycle" \notin Returned
      BY DEF ReceiveCycle, Returned
    <2> QED
      BY <1>2, <2>1, PartyFacts, HeldKept DEF theHeld
  <1> QED
    BY <1>6, <1>8, <1>9, MappedCountersign

\* Returning with the block is obtaining it.
LEMMA ReturnImplements ==
  ASSUME NEW n \in 0 .. 11, NEW ks \in Seq(KeysOf[Server]),
         NEW kc \in Seq(KeysOf[Client]), NEW k \in Seq(KeysOf[Server]), NEW p \in Party,
         Shaped, SignersOK, Phase(n, ks, kc, k),
         WriteOnly(p) \/ (p = Client /\ ReceiveCycle(p))
  PROVE  Exchange!Next
  <1> DEFINE a == ServerFetter(ks)
             b == ClientFetter(kc)
  <1>1. /\ n \in {9, 10} /\ Phase(n + 1, ks, kc, k)'
        /\ pc' = [pc EXCEPT ![p] = "block"]
    <2>1. CASE WriteOnly(p)
      <3>1. n = 9 /\ Phase(10, ks, kc, k)' /\ pc' = [pc EXCEPT ![Server] = "block"]
        BY <2>1, WriteOnlyStep
      <3>2. p = Server
        BY <2>1, <3>1, PartyFacts DEF WriteOnly, Phase, ControlAt, ClientPc
      <3> QED
        BY <3>1, <3>2
    <2>2. CASE p = Client /\ ReceiveCycle(p)
      <3>1. n = 10 /\ Phase(11, ks, kc, k)' /\ pc' = [pc EXCEPT ![Client] = "block"]
        BY <2>2, ObtainStep
      <3> QED
        BY <2>2, <3>1
    <2> QED
      BY <2>1, <2>2
  <1>2. UNCHANGED <<theOffers, theSigned>>
    <2>1. n + 1 \in 0 .. 11
      BY <1>1
    <2> QED
      BY <1>1, <2>1, QuietImplements
  <1>3. theOffers = OffersAt(n, a, b) /\ theSigned = SignedAt(n, a, b)
    BY PhaseMaps
  <1> HIDE DEF a, b
  <1>4. /\ theOffers[Server] = a /\ theOffers[Client] = b
        /\ \A q \in Party : theSigned[q] = <<a, b>>
    BY <1>1, <1>3, PartyFacts DEF OffersAt, SignedAt
  <1>5. theHeld[p] = "nothing" /\ theHeld' = [theHeld EXCEPT ![p] = "block"]
    <2>1. pc[p] \notin Returned /\ "block" \in Returned
      BY DEF WriteOnly, ReceiveCycle, Returned
    <2> QED
      BY <1>1, <2>1, HeldEnds
  <1> QED
    BY <1>2, <1>4, <1>5, MappedObtain

\* Starting a call and moving a message on map to nothing.
LEMMA MoveImplements ==
  ASSUME NEW n \in 0 .. 11, NEW ks \in Seq(KeysOf[Server]),
         NEW kc \in Seq(KeysOf[Client]), NEW k \in Seq(KeysOf[Server]), NEW p \in Party,
         Shaped, SignersOK, Phase(n, ks, kc, k),
         \/ StartClient \/ (p = Server /\ StartServer) \/ WriteAndWait(p) \/ ReceiveChoice(p)
  PROVE  UNCHANGED Exchange!vars
  <1>1. /\ n \in {0, 1, 2, 4, 5, 7} /\ Phase(n + 1, ks, kc, k)'
        /\ \E q \in Party : \E x \in {"sendCatalog", "payloads", "awaitChoice", "awaitCycle"} :
             pc[q] \notin Returned /\ pc' = [pc EXCEPT ![q] = x]
    <2>1. CASE StartClient
      <3>1. pc[Client] \notin Returned
        BY <2>1 DEF StartClient, Returned
      <3>2. n = 0 /\ Phase(1, ks, kc, k)' /\ pc' = [pc EXCEPT ![Client] = "sendCatalog"]
        BY <2>1, StartClientStep
      <3>3. Client \in Party /\ 0 + 1 = 1
        BY PartyFacts
      <3> QED
        BY <3>1, <3>2, <3>3
    <2>2. CASE p = Server /\ StartServer
      <3>1. pc[Server] \notin Returned
        BY <2>2 DEF StartServer, Returned
      <3>2. n = 2 /\ Phase(3, ks, kc, k)' /\ pc' = [pc EXCEPT ![Server] = "payloads"]
        BY <2>2, StartServerStep
      <3>3. Server \in Party /\ 2 + 1 = 3
        BY PartyFacts
      <3> QED
        BY <3>1, <3>2, <3>3
    <2>3. CASE WriteAndWait(p)
      <3>1. pc[p] \notin Returned
        BY <2>3 DEF WriteAndWait, Write, Writing, Returned
      <3>2. n \in {1, 4, 7} /\ Phase(n + 1, ks, kc, k)'
            /\ pc' = [pc EXCEPT ![p] = IF n = 1 THEN "awaitChoice" ELSE "awaitCycle"]
        BY <2>3, WriteAndWaitStep
      <3> QED
        BY <3>1, <3>2
    <2>4. CASE ReceiveChoice(p)
      <3>1. pc[p] \notin Returned
        BY <2>4 DEF ReceiveChoice, Returned
      <3>2. n = 5 /\ Phase(6, ks, kc, k)' /\ pc' = [pc EXCEPT ![Client] = "payloads"]
        BY <2>4, ReceiveChoiceStep
      <3>3. p = Client /\ 5 + 1 = 6
        BY <2>4, <3>2, PartyFacts DEF ReceiveChoice, Phase, ControlAt, ServerPc
      <3> QED
        BY <3>1, <3>2, <3>3
    <2> QED
      BY <2>1, <2>2, <2>3, <2>4
  <1>2. UNCHANGED <<theOffers, theSigned>>
    <2>1. n + 1 \in 0 .. 11
      BY <1>1
    <2> QED
      BY <1>1, <2>1, QuietImplements
  <1>3. theHeld' = theHeld
    <2>1. {"sendCatalog", "payloads", "awaitChoice", "awaitCycle"} \cap Returned = {}
      BY DEF Returned
    <2> QED
      BY <1>1, <2>1, HeldKept
  <1> QED
    BY <1>2, <1>3 DEF Exchange!vars

LEMMA StepImplements ==
  ASSUME IInv, [Next]_vars
  PROVE  [Exchange!Next]_(Exchange!vars)
  <1> USE DEF IInv
  <1>1. PICK n \in 0 .. 11, ks \in Seq(KeysOf[Server]), kc \in Seq(KeysOf[Client]),
             k \in Seq(KeysOf[Server]) : Phase(n, ks, kc, k)
    BY DEF Phased
  <1>2. CASE StartClient
    <2>1. Client \in Party
      BY PartyFacts
    <2> QED
      BY <1>1, <1>2, <2>1, MoveImplements
  <1>3. ASSUME NEW p \in Party, Progress(p) PROVE [Exchange!Next]_(Exchange!vars)
    <2>1. CASE (p = Server /\ StartServer) \/ WriteAndWait(p) \/ ReceiveChoice(p)
      BY <1>1, <2>1, MoveImplements
    <2>2. CASE MakeSession(p)
      <3>1. PICK s : s = signers[p]
        OBVIOUS
      <3>2. CASE p = Server
        BY <1>1, <2>2, <3>1, <3>2, OfferImplements
      <3>3. CASE p = Client
        BY <1>1, <2>2, <3>1, <3>3, AnswerImplements
      <3> QED
        BY <3>2, <3>3, PartyFacts
    <2>3. CASE WriteOnly(p)
      <3>1. WriteOnly(p) \/ (p = Client /\ ReceiveCycle(p))
        BY <2>3
      <3> QED
        BY <1>1, <3>1, ReturnImplements
    <2>4. CASE WriteFails(p) \/ Timeout(p)
      BY <1>1, <2>4, LossImplements
    <2>5. CASE ReceiveCycle(p)
      <3>1. PICK s : s = signers[p]
        OBVIOUS
      <3>2. CASE p = Server
        BY <1>1, <2>5, <3>1, <3>2, CountersignImplements
      <3>3. CASE p = Client
        BY <1>1, <2>5, <3>3, ReturnImplements
      <3> QED
        BY <3>2, <3>3, PartyFacts
    <2> QED
      BY <1>3, <2>1, <2>2, <2>3, <2>4, <2>5 DEF Progress
  <1>4. ASSUME NEW p \in Party,
               SocketCloses(p) \/ Close(p) \/ AddSigner(p) \/ RemoveOldestSigner(p)
        PROVE  [Exchange!Next]_(Exchange!vars)
    BY <1>1, <1>4, LossImplements
  <1>5. CASE UNCHANGED vars
    BY <1>1, <1>5, PartyFacts, LossImplements
  <1> QED
    BY <1>2, <1>3, <1>4, <1>5 DEF Next

LEMMA InitImplements == Init => Exchange!Init
  <1> SUFFICES ASSUME Init PROVE Exchange!Init
    OBVIOUS
  <1>1. theHeld = [p \in Party |-> "nothing"]
    BY DEF Init, theHeld, Returned
  <1>2. \A p \in Party : Own(<<>>, p, "fetter") = {} /\ Own(<<>>, p, "witness") = {}
    BY DEF Own, Positions
  <1>3. \A p \in Party : OfferIn(<<>>, p) = <<>> /\ SignedIn(<<>>, p) = <<>>
    BY <1>2 DEF OfferIn, SignedIn
  <1>4. theOffers = [p \in Party |-> <<>>] /\ theSigned = [p \in Party |-> <<>>]
    BY <1>3 DEF Init, theOffers, theSigned
  <1> QED
    BY <1>1, <1>4, ExchangeParties DEF Exchange!Init

\* The session implements the exchange up to its fairness: one offer each, the
\* client's made together with its signature, the server's signature after it,
\* and a block only where both have signed the same pair of offers.
THEOREM SessionImplementsExchange ==
  Spec => Exchange!Init /\ [][Exchange!Next]_(Exchange!vars)
  <1>1. Init => Exchange!Init
    BY InitImplements
  <1>2. IInv /\ [Next]_vars => [Exchange!Next]_(Exchange!vars)
    BY StepImplements
  <1> QED
    BY <1>1, <1>2, SessionInvariant, PTL DEF Spec
=============================================================================
