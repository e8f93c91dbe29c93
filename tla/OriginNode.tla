----------------------------- MODULE OriginNode -----------------------------
(***************************************************************************)
(* One node and its origin chain: XyoZigZagBoundWitnessHander with its     *)
(* session lock, XyoOriginPayloadConstructor, XyoGenesisBlockCreator,      *)
(* XyoBoundWitnessInserter, XyoOriginState and the state file of           *)
(* XyoFileOriginStateRepository, under crashes and restarts.               *)
(*                                                                         *)
(* A call is one task of the application: it makes a block, alone or by    *)
(* boundWitness, and at once inserts the block it got.  The session itself *)
(* is ZigZagSession; here it completes or fails.  The hash of a block is   *)
(* represented by the call that made it.                                   *)
(***************************************************************************)
EXTENDS Integers, Sequences, FiniteSets

CONSTANTS Calls,       \* the application's calls
          Keys,        \* the keys signers can have
          None,        \* an undefined value
          GenesisKey,  \* the key of the signer a node starts with
          Serial,      \* whether the application waits for one call before the next
          MaxCrashes,  \* bound on crashes
          MaxMisreads  \* bound on failed reads of a state file that is there

ASSUME NoneAssumption == None \notin Calls /\ None \notin Keys
ASSUME KeyAssumption == GenesisKey \in Keys
ASSUME SerialAssumption == Serial \in BOOLEAN

VARIABLES
  phase,     \* where each call stands
  block,     \* the block each call makes
  snapshot,  \* the file contents each call's commit writes
  lock,      \* currentBoundWitnessSession
  index, previousHash, signers,  \* the caches of the state repository
  waiting, nextPublicKey,        \* the origin state's own fields
  file,      \* the state file
  status,    \* "up", "down", or "broken": restore threw
  crashes, misreads,
  chain      \* history: the chain the caches are of, known by the number of
             \* failed reads before it

state  == <<index, previousHash, signers, waiting, nextPublicKey, chain>>
vars == <<phase, block, snapshot, lock, state, file, status, crashes, misreads>>

Ended == {"refused", "undefined", "rejected", "stored", "dead"}
Phases == {"idle", "catalog", "payloads", "genesis", "session",
           "opening", "writing", "written"} \cup Ended
Active(c) == phase[c] \notin Ended \cup {"idle"}

\* A block: the origin items of its payload, and its keys once it has them.
Block(i, p, n, k, ch) ==
  [index |-> i, previousHash |-> p, nextPublicKey |-> n, keys |-> k, chain |-> ch]

\* A file that JSON.parse accepts, and two it does not: without contents, and
\* with the end of a longer write after a shorter one.  The size of the
\* contents grows with the number of signers.
Contents(i, p, s, ch) ==
  [kind |-> "state", index |-> i, previousHash |-> p, signers |-> s,
   size |-> Len(s) + 1, chain |-> ch]
Garbage(size) ==
  [kind |-> "garbage", index |-> 0, previousHash |-> None, signers |-> <<>>,
   size |-> size, chain |-> 0]
Missing == [Garbage(0) EXCEPT !.kind = "missing"]

Init ==
  /\ phase = [c \in Calls |-> "idle"]
  /\ block = [c \in Calls |-> Block(0, None, None, {}, 0)]
  /\ snapshot = [c \in Calls |-> Missing]
  /\ lock = None
  /\ index = 0 /\ previousHash = None /\ signers = <<GenesisKey>>
  /\ waiting = <<>> /\ nextPublicKey = None
  /\ file = Missing
  /\ status = "up" /\ crashes = 0 /\ misreads = 0 /\ chain = 0

-----------------------------------------------------------------------------
(* Making a block.                                                         *)

May(c) ==
  /\ status = "up" /\ phase[c] = "idle"
  /\ Serial => \A d \in Calls : ~Active(d)

Keyset == {signers[i] : i \in DOMAIN signers}

\* getPayloads reads the origin state in the turn it is called.
GetPayloads(c) ==
  block' = [block EXCEPT ![c] = Block(index, previousHash, nextPublicKey, {}, chain)]

\* Mutant: the catch leaves the lock.
CatchKeepingLock(c, outcome) ==
  /\ phase' = [phase EXCEPT ![c] = outcome]
  /\ UNCHANGED <<lock, block, snapshot, state, file, status, crashes, misreads>>

\* A throw inside boundWitness: the catch clears the lock, whoever holds it.
Catch(c, outcome) ==
  /\ phase' = [phase EXCEPT ![c] = outcome]
  /\ lock' = None
  /\ UNCHANGED <<block, snapshot, state, file, status, crashes, misreads>>

\* "Bound witness is already in session".
Refuse(c) == May(c) /\ lock # None /\ Catch(c, "refused")

\* boundWitness on a pipe with initiation data asks for payloads at once, on
\* any other it sends its catalogue and awaits the choice first.
CallAsServer(c) ==
  /\ May(c) /\ lock = None
  /\ phase' = [phase EXCEPT ![c] = "payloads"]
  /\ GetPayloads(c)
  /\ UNCHANGED <<snapshot, lock, state, file, status, crashes, misreads>>

CallAsClient(c) ==
  /\ May(c) /\ lock = None
  /\ phase' = [phase EXCEPT ![c] = "catalog"]
  /\ UNCHANGED <<block, snapshot, lock, state, file, status, crashes, misreads>>

ReceiveChoice(c) ==
  /\ phase[c] = "catalog"
  /\ phase' = [phase EXCEPT ![c] = "payloads"]
  /\ GetPayloads(c)
  /\ UNCHANGED <<snapshot, lock, state, file, status, crashes, misreads>>

\* The payloads are there: the session takes the lock, its fetter the keys.
MakeSession(c) ==
  /\ phase[c] = "payloads"
  /\ phase' = [phase EXCEPT ![c] = "session"]
  /\ lock' = c
  /\ block' = [block EXCEPT ![c].keys = Keyset]
  /\ UNCHANGED <<snapshot, state, file, status, crashes, misreads>>

\* The pipe rejects while the call awaits the choice or the session.
Disconnect(c) == phase[c] \in {"catalog", "session"} /\ Catch(c, "undefined")

\* XyoGenesisBlockCreator.create: payloads, then a block signed alone.
CreateGenesis(c) ==
  /\ May(c)
  /\ phase' = [phase EXCEPT ![c] = "genesis"]
  /\ GetPayloads(c)
  /\ UNCHANGED <<snapshot, lock, state, file, status, crashes, misreads>>

-----------------------------------------------------------------------------
(* Inserting it.                                                           *)

\* Mutants: the block is taken for its hash; the index stays.
AddOriginBlockItself(c) ==
  /\ nextPublicKey' = None
  /\ UNCHANGED <<signers, waiting>>
  /\ previousHash' = block[c]
  /\ index' = index + 1

AddOriginBlockInPlace(c) ==
  /\ nextPublicKey' = None
  /\ UNCHANGED <<signers, waiting>>
  /\ previousHash' = c
  /\ index' = index

\* addOriginBlock of the origin state: at most one waiting signer joins.
AddOriginBlock(c) ==
  /\ nextPublicKey' = None
  /\ IF waiting = <<>> THEN UNCHANGED <<signers, waiting>>
     ELSE signers' = Append(signers, Head(waiting)) /\ waiting' = Tail(waiting)
  /\ previousHash' = c
  /\ index' = index + 1

\* Mutant: commit takes its copy before the state advances.
InsertAfterCommit(c) ==
  /\ AddOriginBlock(c)
  /\ snapshot' = [snapshot EXCEPT ![c] = Contents(index, previousHash, signers, chain)]
  /\ phase' = [phase EXCEPT ![c] = "opening"]
  /\ UNCHANGED <<chain, file, status, crashes, misreads>>

\* insert up to its first await: the state advances and commit takes its copy.
Insert(c) ==
  /\ AddOriginBlock(c)
  /\ snapshot' = [snapshot EXCEPT ![c] = Contents(index', previousHash', signers', chain)]
  /\ phase' = [phase EXCEPT ![c] = "opening"]
  /\ UNCHANGED <<chain, file, status, crashes, misreads>>

SessionCompletes(c) ==
  /\ phase[c] = "session"
  /\ lock' = None
  /\ Insert(c)
  /\ UNCHANGED block

GenesisCompletes(c) ==
  /\ phase[c] = "genesis"
  /\ block' = [block EXCEPT ![c].keys = Keyset]
  /\ Insert(c)
  /\ UNCHANGED lock

\* fs.writeFile opens the file, which empties it, and then writes.
OpenFile(c) ==
  /\ phase[c] = "opening"
  /\ phase' = [phase EXCEPT ![c] = "writing"]
  /\ file' = Garbage(0)
  /\ UNCHANGED <<block, snapshot, lock, state, status, crashes, misreads>>

WriteFile(c) ==
  /\ phase[c] = "writing"
  /\ phase' = [phase EXCEPT ![c] = "written"]
  /\ file' = IF file.size <= snapshot[c].size THEN snapshot[c] ELSE Garbage(file.size)
  /\ UNCHANGED <<block, snapshot, lock, state, status, crashes, misreads>>

\* Mutant: an error of the write is taken for success.
CommitErrorIgnored(c) ==
  /\ phase[c] \in {"opening", "writing"}
  /\ phase' = [phase EXCEPT ![c] = "written"]
  /\ UNCHANGED <<block, snapshot, lock, state, file, status, crashes, misreads>>

\* The disk refuses: commit rejects, insert rejects, the state stays advanced.
CommitFails(c) ==
  /\ phase[c] \in {"opening", "writing"}
  /\ phase' = [phase EXCEPT ![c] = "rejected"]
  /\ UNCHANGED <<block, snapshot, lock, state, file, status, crashes, misreads>>

\* Mutants: the commit is not awaited; it is awaited until the file reads back.
StoreBlockEarly(c) ==
  /\ phase[c] \in {"opening", "writing", "written"}
  /\ phase' = [phase EXCEPT ![c] = "stored"]
  /\ UNCHANGED <<block, snapshot, lock, state, file, status, crashes, misreads>>

StoreBlockOnceRead(c) ==
  /\ phase[c] = "written" /\ file = snapshot[c]
  /\ phase' = [phase EXCEPT ![c] = "stored"]
  /\ UNCHANGED <<block, snapshot, lock, state, file, status, crashes, misreads>>

\* commit resolves and the block goes to the block repository.
StoreBlock(c) ==
  /\ phase[c] = "written"
  /\ phase' = [phase EXCEPT ![c] = "stored"]
  /\ UNCHANGED <<block, snapshot, lock, state, file, status, crashes, misreads>>

-----------------------------------------------------------------------------
(* Signers, crashes and restarts.                                          *)

\* Mutant: a signer joins at once on any chain.
AddSignerAtOnce(k) ==
  /\ status = "up" /\ k \notin Keyset
  /\ Serial => \A d \in Calls : ~Active(d)
  /\ signers' = Append(signers, k)
  /\ UNCHANGED <<phase, block, snapshot, lock, index, previousHash, waiting,
                 nextPublicKey, chain, file, status, crashes, misreads>>

\* addSigner: at once on an empty chain, announced and awaiting a block on any
\* other.  A serial application adds one at a time, between calls.
AddSigner(k) ==
  /\ status = "up" /\ k \notin Keyset /\ \A i \in DOMAIN waiting : waiting[i] # k
  /\ Serial => waiting = <<>> /\ \A d \in Calls : ~Active(d)
  /\ IF index = 0
     THEN signers' = Append(signers, k) /\ UNCHANGED <<waiting, nextPublicKey>>
     ELSE /\ waiting' = Append(waiting, k)
          /\ nextPublicKey' = k
          /\ UNCHANGED signers
  /\ UNCHANGED <<phase, block, snapshot, lock, index, previousHash, chain, file, status,
                 crashes, misreads>>

RemoveOldestSigner ==
  /\ status = "up" /\ signers # <<>>
  /\ signers' = Tail(signers)
  /\ UNCHANGED <<phase, block, snapshot, lock, index, previousHash, waiting,
                 nextPublicKey, chain, file, status, crashes, misreads>>

\* The process dies: everything but the file and the stored blocks is gone.
Crash ==
  /\ status = "up" /\ crashes < MaxCrashes
  /\ crashes' = crashes + 1
  /\ status' = "down"
  /\ phase' = [c \in Calls |-> IF Active(c) THEN "dead" ELSE phase[c]]
  /\ lock' = None
  /\ index' = 0 /\ previousHash' = None /\ signers' = <<>>
  /\ waiting' = <<>> /\ nextPublicKey' = None /\ chain' = 0
  /\ UNCHANGED <<block, snapshot, file, misreads>>

\* restore: without a file the node is new, a file that cannot be parsed throws,
\* any other fills the caches.
Restore ==
  /\ status = "down"
  /\ status' = IF file.kind = "garbage" THEN "broken" ELSE "up"
  /\ IF file.kind = "state"
     THEN index' = file.index /\ previousHash' = file.previousHash /\ signers' = file.signers
     ELSE /\ signers' = IF file.kind = "missing" THEN <<GenesisKey>> ELSE <<>>
          /\ UNCHANGED <<index, previousHash>>
  /\ chain' = file.chain
  /\ UNCHANGED <<phase, block, snapshot, lock, waiting, nextPublicKey, file, crashes, misreads>>

\* Any error of readFile is taken for a missing file: the node starts a new chain
\* over the file it could not read.
RestoreUnread ==
  /\ status = "down" /\ file.kind # "missing" /\ misreads < MaxMisreads
  /\ misreads' = misreads + 1
  /\ status' = "up"
  /\ signers' = <<GenesisKey>>
  /\ chain' = misreads'
  /\ UNCHANGED <<phase, block, snapshot, lock, index, previousHash, waiting, nextPublicKey,
                 file, crashes>>

Progress(c) ==
  \/ ReceiveChoice(c)
  \/ MakeSession(c)
  \/ Disconnect(c)
  \/ SessionCompletes(c)
  \/ GenesisCompletes(c)
  \/ OpenFile(c)
  \/ WriteFile(c)
  \/ CommitFails(c)
  \/ StoreBlock(c)

Next ==
  \/ \E c \in Calls :
       \/ Refuse(c)
       \/ CallAsServer(c)
       \/ CallAsClient(c)
       \/ CreateGenesis(c)
       \/ Progress(c)
  \/ \E k \in Keys : AddSigner(k)
  \/ RemoveOldestSigner
  \/ Crash
  \/ Restore
  \/ RestoreUnread

Fairness == \A c \in Calls : WF_vars(Progress(c))

Spec == Init /\ [][Next]_vars /\ Fairness

-----------------------------------------------------------------------------
(* Properties of any node.                                                 *)

CallsOrNone == Calls \cup {None}
KeysOrNone  == Keys \cup {None}
Blocks == [index : Nat, previousHash : CallsOrNone, nextPublicKey : KeysOrNone,
           keys : SUBSET Keys, chain : Nat]
FileContents == [kind : {"state", "garbage", "missing"}, index : Nat,
                 previousHash : CallsOrNone, signers : Seq(Keys), size : Nat,
                 chain : Nat]

TypeOK ==
  /\ phase \in [Calls -> Phases]
  /\ block \in [Calls -> Blocks]
  /\ lock \in CallsOrNone
  /\ index \in Nat /\ previousHash \in CallsOrNone /\ signers \in Seq(Keys)
  /\ waiting \in Seq(Keys) /\ nextPublicKey \in KeysOrNone
  /\ status \in {"up", "down", "broken"}
  /\ crashes \in Nat /\ misreads \in Nat /\ chain \in Nat
  /\ file \in FileContents /\ snapshot \in [Calls -> FileContents]

\* The node turns calls away only while a session runs: no failure, refusal or
\* overlap of calls leaves the lock taken for good.
LockHeldBySession == lock # None => phase[lock] = "session"

\* Every call ends, in a session lost or a block stored.
EveryCallEnds == \A c \in Calls : Active(c) ~> phase[c] \in Ended

-----------------------------------------------------------------------------
(* Properties of a node whose application waits for each call.             *)

\* The node's blocks form chains: an origin block has index 0 and no previous
\* hash, any other follows the block of its chain its previous hash names.
BlocksAreLinked ==
  \A c \in Calls :
    /\ block[c].previousHash = None <=> block[c].index = 0
    /\ block[c].previousHash # None =>
         /\ block[c].index = block[block[c].previousHash].index + 1
         /\ block[c].chain = block[block[c].previousHash].chain

\* No two blocks of one chain the node stored stand at the same height, crashes
\* included.  Only a restart that fails to read the state file begins another
\* chain: the node then stores a second block at heights it had.
OneStoredBlockPerIndex ==
  \A c, d \in Calls :
    /\ phase[c] = "stored" /\ phase[d] = "stored"
    /\ block[c].chain = block[d].chain /\ block[c].index = block[d].index
    => c = d

\* Height i of chain ch comes after block b.
After(ch, i, b) ==
  \/ ch > b.chain
  \/ ch = b.chain /\ i > b.index

\* Whatever the state file holds is after every stored block: a restart that
\* reads it never comes back below one.  A restart that does not read it begins
\* again at index 0, and the file keeps what it had.
StoredBlocksAreOnDisk ==
  \A c \in Calls : phase[c] = "stored" =>
    \/ file.kind = "garbage"
    \/ file.kind = "state" /\ After(file.chain, file.index, block[c])

\* While no commit runs and none failed, a restart that reads the file brings back
\* the chain, the index and the previous hash of the node.  Until its first block
\* a node has no file, or the one of an earlier chain that it could not read, which
\* a later restart may read after all.
DiskIsCurrent ==
  /\ status = "up"
  /\ \A c \in Calls : phase[c] \notin {"opening", "writing", "rejected"}
  => IF index = 0 THEN file.kind = "missing" \/ file.chain < chain
     ELSE /\ file.kind = "state"
          /\ file.chain = chain
          /\ file.index = index /\ file.previousHash = previousHash

\* A block is signed with keys of the block before it or with the one that
\* block announced.
EveryKeyWasAnnounced ==
  \A c \in Calls : block[c].previousHash # None =>
    block[c].keys \subseteq block[block[c].previousHash].keys
                           \cup {block[block[c].previousHash].nextPublicKey}

-----------------------------------------------------------------------------
(* What the code says of itself and does not keep.                         *)

\* "Bound witness is already in session": one session at a time.
OneSessionAtATime ==
  \A c, d \in Calls : phase[c] = "session" /\ phase[d] = "session" => c = d
=============================================================================
