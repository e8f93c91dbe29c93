# Verification of sdk-core-nodejs

TLA+ models of the XYO core SDK for Node (`src/`): two nodes meet, sign one
block together (a *bound witness*), and each adds it to its own *origin chain*.
What the SDK promises is therefore an agreement between two machines that share
only a TCP connection, and a chain that a crash must not break. The models
cover both, down to the bytes of a block and the timers of a connection.

Source paths below are relative to `src/src/`.

## 1. The system

| Component | State it keeps | Operations | Correct when |
|---|---|---|---|
| Ledger `bound-witness/xyo-bound-witness.ts`, `xyo-zig-zag-bound-witness.ts` | fetters and witnesses of one block, `hasSentFetter` | `incomingData`: add what came, add one's fetter, sign or not, choose what to send back | each signature covers both fetters; the two ledgers end up equal |
| Session, handler `xyo-zig-zag-bound-witness-session.ts`, `-handler.ts` | `cycles`; `currentBoundWitnessSession`, the lock | catalogue, choice, payloads, cycles, return of a block or of `undefined` | every call returns; a returned block is complete; one session at a time |
| Packets, flags `network/` | none | flip of a choice, catalogue and choice packets | the two sides take opposite roles |
| TCP pipe `network/tcp/xyo-tcp-pipe.ts` | socket, listeners, bytes read, a timer per wait | `send`, wait for an answer, `close` | answers arrive whole and in order; every wait ends |
| TCP server `network/tcp/xyo-tcp-server-network.ts` | per socket: listeners, opening and idle timer | accept, read the first message, hand the socket over | a connection gives at most one pipe and always ends |
| Origin state, payloads, genesis `origin/` | index, previous hash, waiting signers, announced key | `getPayloads`, `addOriginBlock`, `addSigner` | a block follows the one its previous hash names |
| Inserter `origin/xyo-bound-witness-inserter.ts` | listeners | advance state, commit, store the block and those it bridges, tell the listeners | no height twice; every block under its own hash |
| State file `persist/xyo-file-origin-state-repository.ts` | caches and one JSON file | `commit`, `restore`, signers | a restart that reads the file never falls below a stored block |
| Block repository `persist/xyo-memory-block-repository.ts` | map from hash to block | add, add a set, remove | each block under its own hash |
| Object model `object-model/` | the bytes of a structure | encode, arrays, iterate, grow | what is put in is read back; same items, same bytes |
| Validator `bound-witness/xyo-bound-witness-validator.ts` | the verifiers by algorithm | `validate` | a valid block is completed, and signed by all parties that announced keys |
| Heuristics `heuristics/` | the resolvers by id | name every item of a block and give its value; read each party's origin | a block reads as it was written |
| Simulation `simulation/` | an origin state per party | make sample blocks of one or two parties, forget the parties | both sides get the same block; the samples of a party form a chain |
| Signing, hashing `signing/`, `hashing/` | none | cryptography | see section 7 |

Interaction: the server network's callback gives the application a pipe; the
application calls `boundWitness(pipe)`; the handler asks the catalogue for its
choice and the payload constructor for payloads (which reads the origin state),
makes a session over a ledger, and drives the pipe; the application gives the
returned block to the inserter, which advances the origin state, commits the
state file, and stores the block. Whoever has a block can validate it, read its
origins, or have it resolved for people; the simulation makes blocks of the same
ledger and origin state in one process.

The code is single threaded, so a step of a model is what one turn of the event
loop does: from the resolution of a promise to the next `await`. What is hard
lies between the turns. Two calls overlap at the awaits of the handler. State is
read for the payloads and used when the block is inserted. The array of signers
is the repository's own and changes under a running session. Messages are lost
with their connection, and the last one always leaves one side not knowing.
Four timers outlive the stage they were set for. A crash can fall between any
two of the steps of an insertion. `PROJECT.json` lists these hazards at their
lines with the properties aimed at them.

## 2. The modules

| Module | Models | Stands on |
|---|---|---|
| `BoundWitness` | the ledger as a sequence of items; `incomingData` as a pure operator | |
| `ZigZagSession` | client and server, their calls of `boundWitness`, the connection between them | extends `BoundWitness` |
| `BoundWitnessExchange` | abstract: the ordered exchange of signatures a session implements | instance in `ZigZagSession` |
| `OriginNode` | one node: calls, lock, origin state, commit, crash, restore | |
| `TcpConnection` | one accepted connection: bytes, listeners, timers | |
| `BlockStore` | which blocks are stored under which hash, and who is told | |
| `Validator` | `validate`, of the ledgers a session produces | extends `ZigZagSession` |
| `Structures` | structures as bytes: sizes, schemas, arrays, iteration, growth | |
| `ByteLedger` | the ledger of `BoundWitness` in bytes; the stub signer; origin items; packets | extends `Structures` |
| `OriginGetter` | the reader of the parties' origins | extends `ByteLedger` |
| `Heuristics` | the resolvers for people | extends `OriginGetter` |
| `ObjectModel` | a ledger of any fetters and witnesses that grows by sent sets | extends `OriginGetter` |
| `ReadableBlocks` | these ledgers as people read them | extends `ObjectModel`, `Heuristics` |
| `Simulation` | sample blocks of chains of several parties | extends `OriginGetter`; instance of `BoundWitness` |
| `BoundWitnessLemmas` | what the ledger's operators make of any ledger and of those of a session | extends `BoundWitness` |
| `ZigZagSessionProofs` | the theorems about a session, and that it implements the exchange | extends `ZigZagSession`, `BoundWitnessLemmas` |
| `ValidatorProofs` | the theorem about the validator's answer | extends `Validator`, `ZigZagSessionProofs` |
| `OriginNodeProofs`, `TcpConnectionProofs`, `BlockStoreProofs` | the theorems about these modules | extend them |
| `StructuresProofs` | that structures and arrays are read back as they were written | extends `Structures` |
| `ObjectModelProofs` | the theorems about a ledger in bytes | extends `ObjectModel`, `StructuresProofs` |
| `MCZigZagSession`, `MCOriginNode`, `MCBlockStore` | values and symmetry for TLC | |

A definition under a comment "Mutant:" is a plausible mistake in the definition
after it. No specification uses it; each property has at least one mutant that
breaks it, so each is known to depend on the code.

### BoundWitness and ZigZagSession

`pc[p]` is where a call stands: `idle`; `sendCatalog` (the client's catalogue is
being written); `awaitChoice`; `payloads` (`getPayloads` was called);
`sendCycle`; `awaitCycle`; and the ends `block` and `undefined`. `DoBoundWitness`
and `Resume` are the two halves of `doBoundWitness` around its await;
`IncomingData` is the whole of `incomingData`. A signature is the key it is made
with and the items it covers, so "who signed what" is visible in a ledger.

Choices worth knowing:

- `fs` and `net` callbacks run in their own turn. `WriteAndWait` is one step: the
  write's callback runs and registers the listeners before any byte of an
  answer to that write can be read.
- `signers` is one variable, used by the repository and by a session alike,
  because `getSigners` returns the cached array itself. `AddSigner` and
  `RemoveOldestSigner` therefore happen between any two turns of a session.
- `SocketCloses(p)` stands for every end of a connection that `p` sees: the
  peer's close, its destroy after a timeout, a broken network. Whatever was on
  its way to `p` is lost. The network neither duplicates nor reorders: it is TCP.
- `IncomingData` can throw on a completed ledger; between two parties that
  follow the protocol it does not.

### BoundWitnessExchange

Offer, answer and sign in one step, countersign, obtain or give up. The mapping:
the first party is the server (its fetter opens the ledger), a party's offer is
its fetter in its own ledger, its signature is what its own witness covers, and
what it holds is where its call ended. The abstract specification says what a
user can rely on: nobody signs half an agreement, the client commits first, and
after a failure either side may have nothing although the other signed.

### OriginNode

A call goes `idle -> catalog -> payloads -> session -> opening -> writing ->
written -> stored`, or by `genesis` for a block signed alone, and can end in
`refused`, `undefined`, `rejected` (the disk refused) or `dead` (a crash). The
hash of a block is the call that made it. `file` is the state file: `missing`,
`state` or `garbage`. `fs.writeFile` is two steps, the open that empties the
file and the write, so that a crash between them leaves an empty file and two
commits at once can leave the end of the longer one. `Restore` of garbage throws
inside the callback of `readFile`, and the node stays `broken`. `readFile` takes
every error for a missing file, so `RestoreUnread` may happen to any file: the node
comes up as a new one, at index 0 with a new signer, and its next commit overwrites
what it could not read. `chain`, a history variable, numbers the chains that begin
so; blocks and files carry the number of their chain, and the chain properties are
stated of each chain by itself.

`Serial` tells two kinds of application apart. With `Serial = FALSE` calls
overlap freely. With `Serial = TRUE` the application waits for a call, insertion
included, before it makes the next, and adds one signer at a time, between
calls. Nothing in the SDK enforces this, and the chain properties need it: with
overlapping calls two blocks can name the same predecessor. The README of the
repository does not speak of it, so the properties carry it as their condition.

### TcpConnection

One socket as the server network and the pipe see it: `listeners` are the pairs
of owner and event that are registered, and `removeAllListeners` removes those
of both owners, as in the code. Bytes come in pieces of any size. Timers count
ticks; one that is due fires before the next tick. `quiet` counts the ticks
since the last change of hands, for the property that says who may cut a
connection. The peer is a program that answers when it is asked; the model of
the protocol above (`ZigZagSession`) shows that its own peers are.

### BlockStore

`Insert` puts together any block of two parties of which one, or both, bridge
old blocks; hashes stand in the fetters and blocks in the witnesses, which are in
reverse order. `PutAll` is the loop of `addOriginBlocks` in one step: the map after
it, where of equal hashes the last one counts. The hash of a block is its fetters, since `getHash` covers the
signing data only. `NestedObject` finds the first item with a bridge set, as
`getNestedObjectType` does.

### Validator

`Validate` gives `valid`, `invalid` or `throws`. A verifier is found by the
algorithm of a signature; the model takes the set of keys that have one. What a
verifier answers has no effect: the validator tests the promise it returns,
which is never false. Keys and signatures of an index belong to different
parties (section 4), so with different numbers of keys a signature is missing
and `validate` throws. An empty ledger is valid, and so is a completed block
whose parties announced no key, having no signers, whether or not anybody signed it:
there is no key to look at.

### Structures and ByteLedger

Bytes are numbers, `Byte` of them for sizes and values (256 in the code), while
the first two bytes of a structure keep their real bits. A structure is its
bytes, or, as an item of a typed array, its bytes without header and the schema
of the array. `Items` is what an iterator passes over. `ByteLedger` has the
operators of `BoundWitness` under their names, over bytes. Its signers are the
stub signers of the simulation, whose signature is a copy of what is signed, so
that a block shows what its signatures cover. Adding to a completed ledger
throws in the code and clears the ledger's `ok` here.

### Heuristics

`DefaultResolvers` is the table of default resolvers, `Resolve` what
`XyoHumanHeuristicResolver` makes of a structure, lists within lists included.
Base 64 and base 58 lose nothing, so the text of a structure is its bytes.
`ReadOriginItem` is a turn of the loop of the origin getter. Nothing catches what it
throws, so `OriginInformation` has no origins, `ok` being `FALSE`, as soon as one
fetter makes it throw.

### ObjectModel

`ledger` is the content of one `XyoZigZagBoundWitness`; `added` remembers what
it was given. A fetter holds one key, the origin items of its chain (index,
previous hash, next key, each with or without) and heuristics (readings of RSSI
with either sign, and one without value or resolver); a witness holds
signatures of any sizes. A transfer is encoded as the sender does, comes in a
choice packet if it has no witness, is read as the receiver's iterator does, and
grown into the ledger item by item. A ledger is no longer than `MaxBufferLength`,
what a buffer of the Node in `.nvmrc` can hold: 2^31 - 1 bytes, half of what a
size in four bytes can count. Making a longer one throws, so that the size class
of eight bytes, of which `readSize` reads only four, is out of reach.

`ObjectModel` knows no resolvers. What a block resolves to is a property of
`ReadableBlocks`, because `Heuristics` has RECURSIVE operators and theorems cannot
be proved in a module that reaches one.

### Simulation

A sample of two parties is one action, as it is one call: four calls of
`IncomingData` on two ledgers, the bytes of one answer being the transfer of the
next; a sample keeps its answers, of which each has its party's ledger. The
previous hash of a sample is the whole earlier sample, as in the code. The heuristics of the JSON have no part in it: `createBlockfromJson` passes an
empty list instead, so that `createHeuristic` is never reached. A sample a party
signs alone leaves its state. An entry with no party or more than two throws,
which ends a call before the parties are forgotten: the next call continues
their chains, so `ForgetParties` is an action that may come late.

## 3. The runs

| Run | Instance | States | What it shows |
|---|---|---|---|
| `session` | two keys a party, at most two signers, four kinds of choice | 204,725 | `Agreement`, `ReturnedBlockIsCompleted`, `SignaturesCoverBothFetters`, `ServerSignsLast`, `WitnessMatchesFetter`, `ClientKeysMatchSignatures`, `RolesComplement`, `NobodyWaitsInVain`, `OnlyAgreementsAreValid` |
| `exchange` | one key a party | 2,900 | every call returns; the session implements `BoundWitnessExchange`, liveness included |
| `node_serial` | `Serial`, three calls, two keys, two crashes, one failed read | 2,975,095 | links, heights, disk and announced keys, through crashes, disk errors, failed reads, restarts |
| `node_concurrent` | two calls that overlap, one key, one crash, one failed read | 31,417 | the lock is never left behind; every call ends |
| `connection` | limits 1, 2, 3, 5 ticks, a header of 2 bytes, bodies up to 2, three waits | 197,721 | one pipe, whole answers, no cut without reason, everything ends |
| `store` | two calls, three old blocks, one or both parties may bridge two, one listener | 666,180 | listeners hear only of what is stored; every block under its own hash; bridged blocks are all kept |
| `bytes` | `Byte` 4; indices 0, 6; hashes of 3 bytes, keys of 1; two heuristics; signatures of 0, 3 bytes, two a witness; two parties | 25,206 | reading back, growing as building, what is signed, origins and heuristics as written |
| `simulation` | `Byte` 16, three parties, three samples before the parties are forgotten | 820 | the exchange of bytes gives the block `BoundWitness` gives; every sample has its place in the chains |
| `party_index`, `key_index`, `node_lock`, `next_key` | as `exchange`, `session`, `node_concurrent`, and `bytes` without heuristics | | the disagreements of section 4 |

Why the bounds are enough:

- *session*: the protocol is between two parties, and a session has three
  transfers. Two signers are what it takes for one to join or leave while
  another stays; choices cover empty, plain, take, and give with a second flag.
- *exchange* keeps one key and one signer, since liveness and the mapping do not
  look at the number of signatures, but `RemoveOldestSigner` still empties it.
- *node_serial*: three calls are a block, its successor, and one that takes
  another's place after a crash or a failed commit; a fourth call repeats one of
  these situations. Two crashes: one leaves a file, the second comes after a
  restore. One failed read (`MaxMisreads`) makes two chains, of which the file can
  be the first while the node is on the second. The theorems remove all four bounds.
- *node_concurrent*: two calls are enough to overlap at every await.
- *connection*: the limits keep the order of the real ones (close 2 s, opening
  5 s, wait 7.5 s, idle 60 s); a header of two bytes and a body of two can be cut
  in every place, the header included; three waits leave two old timers around
  one under way.
- *store*: two calls may share bridged blocks; three old blocks of which a party
  bridges two are the least in which order and overlap both show. Blocks that
  both parties bridge are part of the instance; two properties are conditional
  on none, see section 6.
- *bytes*: with `Byte` 4 the size classes end at 2, 13 and 251 bytes of value,
  and structures of all the classes up to 4 bytes occur, with values on both
  sides of the first two boundaries. `MaxBufferLength` is 127 bytes then, and cuts
  off the largest ledgers of two parties. The theorems hold of every `Byte` from 4
  to 256 that is even, and of all sizes. Two heuristics are what it takes for one to hide another.
- *simulation*: a third sample is the first that carries a block that carries a
  block; sizes grow from under a hundred bytes to thousands, past the boundary
  of the class of 4 bytes at 254. Two samples with different partners and one
  alone put each of a party's indices next to each of the other's.

`CHECK_DEADLOCK FALSE`: calls, crashes and waits are finite in every instance and
a node whose calls have ended, or whose socket is closed, really stops. Being
stuck too early is what `NobodyWaitsInVain` and the liveness properties are
about. Symmetry is used in `node_serial` and `store` only, which check
no liveness.

### Fairness

- `ZigZagSession`: weak fairness of `Progress(p)`, what the event loop of a node
  does by itself: it runs callbacks that are ready, resolves what it awaits, and
  the 7.5 s timer of a wait fires in the end. Payload getters are assumed to
  resolve. There is no fairness on the start of a call, on closing, on a broken
  connection or on changes of the signers. A timeout may come at any moment, so
  nothing is shown only because the network is fast.
- `BoundWitnessExchange`: a party that made its offer obtains or gives up.
- `OriginNode`: weak fairness of `Progress(c)`: sessions end (this is
  `EveryCallReturns` of `ZigZagSession`) and the disk answers, with success or
  not. None on calls, crashes and restarts.
- `TcpConnection`: weak fairness of `Timing`: time passes, timers fire, the close
  event of a destroyed socket is delivered. None on the peer, which may fall
  silent, nor on the application, which may forget its pipe.

## 4. Where code and comments disagree

1. `party_index`: `getSignatures` says `[party index][key index]` and gives the
   witnesses in ledger order, the reverse of the parties' order.
   `WitnessMatchesFetter` shows that `getWitnessOfParty` turns it round correctly.
   The validator pairs by that index too, so it throws on a good block whose
   parties have different numbers of keys.
2. `key_index`: the server announces its keys in one turn and signs in a later one
   with an array that may have changed; its signatures then do not match its
   keys. `ClientKeysMatchSignatures` shows that the client cannot suffer this.
3. `node_lock`: the lock is checked before two awaits and set after them, so two
   sessions run at once. `LockHeldBySession` is what remains true: the lock is
   never left set without a session.
4. `next_key`: the origin getter expects the next public key in a list of one, and
   the origin state writes it without a list; reading the origins of a block in
   which any party announces a key throws, and nobody's origin is read. `OriginIsRead`
   is therefore about blocks in which no party announces a key: index and previous
   hash of every party are read as they were written.

## 5. What is proved

Every safety property of the runs `session`, `node_serial`, `connection` and
`store`, `LockHeldBySession`, the safety of the refinement, and of the run `bytes`
all but `ReadableAsWritten`, for all values of the constants that the assumptions
allow:

| Module | Theorems | For any |
|---|---|---|
| `ZigZagSessionProofs` | `SessionTypeOK`, `SessionAgreement`, `SessionReturnsCompleted`, `SessionSignaturesCoverBoth`, `SessionServerSignsLast`, `SessionWitnessMatchesFetter`, `SessionClientKeysMatch`, `SessionRolesComplement`, `SessionNobodyWaitsInVain` | keys, number of signers, choices of the server |
| the same | `SessionImplementsExchange`: `Spec` implies `Exchange!Init` and `[][Exchange!Next]` | the same |
| `ValidatorProofs` | `ValidatorPassesAgreements` | the same, and set of verifiers |
| `OriginNodeProofs` | `TypeCorrect`, `LockSafe`; if `Serial` also `ChainLinked`, `OneBlockPerIndex`, `ChainDurable`, `DiskFollowsMemory`, `KeysAnnounced` | calls, keys, number of crashes and of failed reads |
| `TcpConnectionProofs` | `ConnectionTypeOK`, `ConnectionOnePipe`, `ConnectionAnswersIntact`, `ConnectionNothingHereIsAwaited`, `ConnectionCutForAReason` | limits (opening and wait below idle), size of header and bodies, number of waits |
| `BlockStoreProofs` | `StoreTypeOK`, `StoreHeardIsStored`, `StoreUnderOwnHash`, `StoreKeepsBridged` | calls, old blocks, listeners, number of bridged blocks |
| `StructuresProofs` | `DigitsAreRead`, `HeaderIsRead`, `EncodedIsStructure`, `ArrayIsRead`, `TypedArrayIsRead`, `ReadIsAdvance`, `AddedIsBuilt` | number, schema, value, items; bytes |
| `ObjectModelProofs` | `LedgerTypeOK`, `LedgerReadsBack`, `LedgerIsGrownAsBuilt`, `LedgerSignedAreTheFetters`, `LedgerOriginIsRead`; of the operators `PacketIsRead`, `ReceivedIsAdded` | bytes, indices of 32 bits, sizes of hashes, keys and signatures, heuristics, number of parties |

Each name says which property it states; `PROJECT.json` lists the pairs.

Assumptions on the constants, which TLC evaluates in every run of their module:

- *session*: two parties; each has keys of its own set; choices are choices;
  `SignersAssumption`, that the bound on signers is positive, since a node starts
  with a signer it generates or was given;
- *validator*: there are verifiers for keys only;
- *node*: an undefined value is no call and no key, a node starts with a key,
  `Serial` is a truth value;
- *connection*: the limits are positive, those of opening and of a wait below that
  of an idle connection, as 5 s and 7.5 s are below 60 s; a header has at least
  one byte;
- *store*: the bound on bridged blocks is a number;
- *bytes*: `Byte` is even and at most 256, since a typed RSSI reading has a sign
  and items of a model are bytes of the code; indices fit into 32 bits; sizes are
  natural numbers.

### The session

None of the properties is inductive: what a ledger holds depends on which
messages were sent, and who can still be waiting depends on what is in the wires.
The invariant `IInv` says where the protocol is. A session without failures has
twelve phases, from both sides idle to both having the block, and the formula
`Phase(n, ks, kc, k)` gives what holds in the `n`-th: the two places in the code,
ledgers, transfers, choices, cycle counters, the packet being written and the one
on its way, in terms of the keys `ks` and `kc` the server and client announced
and the keys `k` the server signed with. A failure does not multiply the phases:
a party that gives up goes to `undefined`, keeps what it holds, and its peer can
only walk on to its next wait. So `Phased` says that there is a phase and keys
such that each party is where the phase puts it *or* is `undefined` behind a
closed socket, and an end of the wire that is not open has lost its message.
`Shaped` (the variables are functions on the parties) and `SignersOK` go with it.

Each step lemma takes one action from its phase to the next. What
`IncomingData` does is moved out into `BoundWitnessLemmas`, one lemma for each of
the four ways in which a session calls it; they rest on lemmas that count the
items of short ledgers, since `Count` and `Nth` are defined by cardinalities.
`Agreement` then is immediate: in the phases in which the client can have its
block, both ledgers are `Agreed(a, b, k)`. `ClientKeysMatchSignatures` holds
because the client's witness has the keys of its fetter; the server's has `k`,
which need not be `ks`: this is the divergence `key_index` of section 4, and the
proof shows that it is the only one.

The refinement maps each step by its phase: `IncomingData` of the server's first
turn is the offer, the client's answer is offer and signature in one, the server's
second turn countersigns, the end of a call obtains or gives up, all others
stutter. The
mapping is the operators `theOffers`, `theSigned` and `theHeld` of
`ZigZagSession`, the same that the run `exchange` checks. Fairness of the exchange
is a matter of liveness and stays with that run.

`OnlyAgreementsAreValid` follows from the same phases: the validator first
compares the number of key sets and signature sets, and of the ledgers of a
session only the empty and the completed one have as many of both. In the completed
one every key that was announced needs a signature of the other party; that the
client signs with the keys it announced gives the rest of `HasSigned`.

### The node

`LockHeldBySession` is inductive with the types. The chain properties are not:
which block follows which is decided by the caches, by the file, and by blocks
that are half made, and a crash replaces the first by the second. `ChainInv`
therefore says of *each* of the three that it is the end of the same chain:

- `OneCall`: one call at a time and none while the process is down (`Serial`);
- `Chains`: the caches, a readable file and every block continue the block of their
  chain that their previous hash names, and that block is fixed by now;
- `MakingIsCurrent`: a block being made still has the index, hash and key of the
  state, and is of its chain, nothing having been inserted since it read them;
- `InsertedIsCurrent`: a block being inserted is the one the state and its
  commit's copy end in, and the file is empty, or that copy, in the steps after;
- `OneWaits`: the signer that will join is the one that was announced;
- `AboveStored`: a node that is up is after every block it stored, in its chain or
  by being on a later one, which gives no height of a chain twice;
- `ChainsCounted`: no block, file or cache is of a chain that has not begun yet, so
  that a failed read begins one which is after all the others;
- `DownIsEmpty`, and the four safety properties that are used in the steps.

### The connection

`AnswersIntact` alone says nothing of the bytes that are still to come. The
invariant adds to the types

- `Listening`: whoever reads is the one the connection belongs to, and on an open
  socket that one does read; so exactly one reader counts the bytes;
- `Waiting`: every wait before the one under way is settled, the one under way is
  not, and no later wait has a timer;
- `Bytes`: what the reader has and what is on its way make up one message, which
  is not complete;
- `Hearing`: the answers heard are those said, but for the one under way;
- `Timers`: the timer of what goes on started with it, so that it and `quiet` make
  up its limit, and the idle timer of an open socket is not due before.

`Listening` gives `OnePipe`, `Hearing` gives `AnswersIntact` (which needs `Bytes`
to be inductive), `Bytes` gives `NothingHereIsAwaited`, and the action property
`CutForAReason` follows from `Waiting` and `Timers` in the state before the cut.

### The block repository

`Written` says that a block is there from when its call inserts it and stays as it
is; `Known` that a hash the repository had is that of such a block or of a bridged
one; `HeardLate` that a listener heard of a call only after its block was stored.
`StoredUnderOwnHash` and `BridgedBlocksAreKept` are then inductive. The lemma
`Stores` is the heart of it: if one party bridges at most, `NestedObject` finds
the hashes and the blocks of the same list although fetters and witnesses come in
reverse order, and putting them away in step puts each block under its hash,
which also needs that hashes tell blocks apart (`OldBlockHash`).

### Structures and ledgers in bytes

What is read of some bytes is recursion over them, and what was proved before of
every run is here an induction over data. The library states induction with an
operator for a parameter, which none of the installed provers can instantiate. It
also states that the order of the numbers is well-founded; from that follows
`LeastNatural`, and from the least number outside a set `Induction`, which is
stated of a *set* of numbers and needs no operator. The recursive functions of
`Structures` and the library's `FlattenSeq` and `FoldLeft` are `CHOOSE`s of a function
with a recursive equation, so that each has first to be shown to exist
(`WithoutIsDefined`, `NumberIsDefined`, `WalkIsDefined`, `FlattenIsDefined`,
`AmongIsDefined`, `AddingIsDefined`, `ReadingIsDefined`): by induction there is
one for every bound, and the one for the whole is what is chosen.

From there the argument goes up as the code does. A number in digits is that
number if it fits, and the size class fits it (`BestSizeFits`: the class is
chosen so that the size, which counts its own bytes, still fits at each
boundary). A header, a size and a value are then read back where they stand. An
iterator goes forward over whatever bytes it is given (`ReadIsAdvance`), and over
an array it stands at the beginning of each item in turn (`PiecesArePassedOver`).
`TypedArrayIsRead` needs that the items share a header, `OneHeader` of the model:
this is the precondition of a set in a transfer, which a set of one item has.

The invariant of a ledger is `IInv`: `Held(added)`, that its parts are fetters and
then witnesses and fit into a buffer, and `GrownIsBuilt`. `GrownIsBuilt` is not
inductive without the first, because a ledger that does not fit is not read back
and grows from something else; `MaxBufferLength` is in the model because the
attempt without it failed at exactly that place. `ReadsBack` is `ArrayIsRead` of
the ledger that was built; `SignedAreTheFetters` is that the fetters come first;
`OriginIsRead` reads the items of a fetter by their place, where a key set and
heuristics leave the origin as it is. The two steps differ in one thing: a part of
one's own is added as it is, those that were sent are first read from a typed set
or a mixed one, behind a choice or not, and added in a fold (`ReceivedIsAdded`).

Each inductive invariant was checked by TLC on the instance of its run before it
was proved.

### What is only model-checked

- Liveness: `EveryCallReturns`, `EveryCallEnds`, `EveryWaitEnds`,
  `EveryConnectionEnds`, and the fairness in `ImplementsExchange`.
- `ReadableAsWritten`: `Resolve`, the reader for people, is a RECURSIVE operator,
  with which the prover does nothing.
- `Simulation`: its samples nest whole blocks in blocks and its properties compare
  them with another specification's; a proof would have to carry both sides
  through all four calls of a session. `StructuresProofs` has what it would need of
  the bytes.

## 6. What the properties do not say

- `Agreement` is one-sided: a server that has its block knows nothing of the
  client, whose last message may have been lost.
- `BlocksAreLinked` is about the blocks the node made. Blocks whose commit failed
  count as predecessors; their successors name a block the node never stored.
- `StoredBlocksAreOnDisk` allows a damaged file: a crash during a commit leaves
  one, and the node cannot start again by itself.
- A node with an intact file starts a second chain if `readFile` fails for any
  reason, and stores blocks at heights it has blocks of already. No property denies
  that: `OneStoredBlockPerIndex`, `StoredBlocksAreOnDisk` and `DiskIsCurrent` speak of
  one chain, and of restarts that read the file.
- The chain properties say nothing of an application whose calls overlap, and
  `EveryKeyWasAnnounced` nothing of one that adds two signers before a block or one
  during a session: `Serial` excludes both.
- `StoredUnderOwnHash` and `BridgedBlocksAreKept` need that one party of a block
  bridges. When both do, hashes of one party meet blocks of the other.
- `OnlyAgreementsAreValid` is about ledgers that a session produced, and about who
  signed, not whether a signature is genuine: the validator does not look. Of a
  block whose parties announced no key it says only that it is completed. With
  unknown signatures not allowed it refuses each block with a signature whose
  algorithm it *knows*, which is why the property says only that less passes.
- `ReadableAsWritten` shows the latest of two items of one name. The others are
  in the block, and `ReadsBack` finds them, but not in its readable form.
- `OriginsAreRead`: a sample signed alone has the index and the previous hash of
  the sample that follows it.
- `ReadsBack` needs that the items of a typed set share a size class, as in
  sessions of two parties, whose typed sets have one item.

## 7. Not modelled

- `signing/` and `hashing/` wrap cryptographic libraries; a signature is taken
  for its key and what it covers, a hash for the block it names. Whether
  `XyoSecp256k1.verify` accepts what `sign` made depends on the libraries'
  encodings of numbers, which a model would have to take from them.
- Resolvers an application adds or removes; the registry is one table for the
  whole process, and the models have the default one.
- `validate` and `toJson` of structures, which change nothing and whose answers
  nothing in `src/` uses; `addElement` of a typed array, which nothing calls.
- The catalogue of an application; a choice of the server is any of a set.
- Listening again after an error of the server socket: when an error comes, and
  whether listening then succeeds, is the operating system's, and the code adds
  one `if`. The pipe of a connecting side, which the application makes of a
  socket of its own; it runs the same `send` and `close`.
- Sessions of more than two parties. `IncomingData` is written for any number;
  the handler, the simulation and the pipe only ever connect two.
- `private` members nothing reaches (`setPartyState`, `createHeuristic` of the
  simulation).

## 8. Plan

Done, in this order: `BoundWitness`, `ZigZagSession`, `BoundWitnessExchange`,
`OriginNode` with its proofs, `TcpConnection`, `BlockStore`, `ObjectModel`; then
`Structures`, `ByteLedger` and `Heuristics`, on which `ObjectModel` now stands,
`Simulation` and `Validator`; then the proofs of `ZigZagSession` with its
refinement, `TcpConnection`, `BlockStore` and `Validator`. Last came the proofs about
`Structures` and `ObjectModel`, for which the reader of origins moved out of
`Heuristics` into `OriginGetter`.

What could follow: the theorems about `Simulation`, and `Resolve` as a recursive
function, so that `ReadableAsWritten` can be proved too.
