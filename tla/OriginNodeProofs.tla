-------------------------- MODULE OriginNodeProofs --------------------------
(***************************************************************************)
(* Proofs about OriginNode, for any calls, keys and number of crashes.     *)
(***************************************************************************)
EXTENDS OriginNode, SequenceTheorems, TLAPS

-----------------------------------------------------------------------------
(* Type correctness.                                                       *)

\* The contents a commit writes are contents of a file.
LEMMA ContentsType ==
  ASSUME NEW i \in Nat, NEW p \in CallsOrNone, NEW s \in Seq(Keys), NEW ch \in Nat
  PROVE  Contents(i, p, s, ch) \in FileContents
  <1>1. Len(s) + 1 \in Nat
    OBVIOUS
  <1> QED
    BY <1>1 DEF Contents, FileContents

LEMMA GarbageType ==
  ASSUME NEW n \in Nat
  PROVE  Garbage(n) \in FileContents
  <1>1. <<>> \in Seq(Keys)
    OBVIOUS
  <1> QED
    BY <1>1 DEF Garbage, FileContents, CallsOrNone

LEMMA MissingType == Missing \in FileContents
  <1>1. <<>> \in Seq(Keys)
    OBVIOUS
  <1> QED
    BY <1>1 DEF Missing, Garbage, FileContents, CallsOrNone

\* Reading the origin state gives a block without keys.
LEMMA GetPayloadsType ==
  ASSUME TypeOK, NEW c \in Calls, GetPayloads(c)
  PROVE  block' \in [Calls -> Blocks]
  <1>1. Block(index, previousHash, nextPublicKey, {}, chain) \in Blocks
    BY DEF TypeOK, Block, Blocks
  <1> QED
    BY <1>1 DEF TypeOK, GetPayloads

\* The keys of the signers are keys.
LEMMA KeysetType ==
  ASSUME TypeOK, NEW c \in Calls, block' = [block EXCEPT ![c].keys = Keyset]
  PROVE  block' \in [Calls -> Blocks]
  <1>1. Keyset \subseteq Keys
    BY DEF TypeOK, Keyset
  <1>2. [block[c] EXCEPT !.keys = Keyset] \in Blocks
    BY <1>1 DEF TypeOK, Blocks
  <1> QED
    BY <1>2 DEF TypeOK

\* Inserting a block keeps the types of what it writes.
LEMMA InsertType ==
  ASSUME TypeOK, NEW c \in Calls, Insert(c)
  PROVE  /\ phase' \in [Calls -> Phases]
         /\ index' \in Nat /\ previousHash' \in CallsOrNone
         /\ signers' \in Seq(Keys) /\ waiting' \in Seq(Keys)
         /\ nextPublicKey' \in KeysOrNone
         /\ snapshot' \in [Calls -> FileContents]
         /\ UNCHANGED <<chain, file, status, crashes, misreads>>
  <1>1. index' \in Nat /\ previousHash' \in CallsOrNone /\ nextPublicKey' \in KeysOrNone
    BY DEF TypeOK, Insert, AddOriginBlock, CallsOrNone, KeysOrNone
  <1>2. signers' \in Seq(Keys) /\ waiting' \in Seq(Keys)
    <2>1. CASE waiting = <<>>
      BY <2>1 DEF TypeOK, Insert, AddOriginBlock
    <2>2. CASE waiting # <<>>
      <3>1. Head(waiting) \in Keys /\ Tail(waiting) \in Seq(Keys)
        BY <2>2, HeadTailProperties DEF TypeOK
      <3>2. Append(signers, Head(waiting)) \in Seq(Keys)
        BY <3>1 DEF TypeOK
      <3> QED
        BY <2>2, <3>1, <3>2 DEF Insert, AddOriginBlock
    <2> QED
      BY <2>1, <2>2
  <1>3. snapshot' \in [Calls -> FileContents]
    BY <1>1, <1>2, ContentsType DEF TypeOK, Insert
  <1>4. phase' \in [Calls -> Phases]
    BY DEF TypeOK, Insert, Phases
  <1> QED
    BY <1>1, <1>2, <1>3, <1>4 DEF Insert

LEMMA TypeInit == Init => TypeOK
  <1> SUFFICES ASSUME Init PROVE TypeOK
    OBVIOUS
  <1>1. block \in [Calls -> Blocks]
    BY DEF Init, Block, Blocks, CallsOrNone, KeysOrNone
  <1>2. file \in FileContents /\ snapshot \in [Calls -> FileContents]
    BY MissingType DEF Init
  <1>3. signers \in Seq(Keys) /\ waiting \in Seq(Keys)
    BY KeyAssumption DEF Init
  <1> QED
    BY <1>1, <1>2, <1>3 DEF Init, TypeOK, Phases, CallsOrNone, KeysOrNone

LEMMA TypeStep == TypeOK /\ [Next]_vars => TypeOK'
  <1> SUFFICES ASSUME TypeOK, [Next]_vars PROVE TypeOK'
    OBVIOUS
  <1>1. ASSUME NEW c \in Calls, Refuse(c) PROVE TypeOK'
    BY <1>1 DEF TypeOK, Refuse, Catch, state, Phases, Ended, CallsOrNone
  <1>2. ASSUME NEW c \in Calls, CallAsServer(c) PROVE TypeOK'
    BY <1>2, GetPayloadsType DEF TypeOK, CallAsServer, state, Phases
  <1>3. ASSUME NEW c \in Calls, CallAsClient(c) PROVE TypeOK'
    BY <1>3 DEF TypeOK, CallAsClient, state, Phases
  <1>4. ASSUME NEW c \in Calls, CreateGenesis(c) PROVE TypeOK'
    BY <1>4, GetPayloadsType DEF TypeOK, CreateGenesis, state, Phases
  <1>5. ASSUME NEW c \in Calls, ReceiveChoice(c) PROVE TypeOK'
    BY <1>5, GetPayloadsType DEF TypeOK, ReceiveChoice, state, Phases
  <1>6. ASSUME NEW c \in Calls, MakeSession(c) PROVE TypeOK'
    BY <1>6, KeysetType DEF TypeOK, MakeSession, state, Phases, CallsOrNone
  <1>7. ASSUME NEW c \in Calls, Disconnect(c) PROVE TypeOK'
    BY <1>7 DEF TypeOK, Disconnect, Catch, state, Phases, Ended, CallsOrNone
  <1>8. ASSUME NEW c \in Calls, SessionCompletes(c) PROVE TypeOK'
    BY <1>8, InsertType DEF TypeOK, SessionCompletes, CallsOrNone
  <1>9. ASSUME NEW c \in Calls, GenesisCompletes(c) PROVE TypeOK'
    BY <1>9, InsertType, KeysetType DEF TypeOK, GenesisCompletes
  <1>10. ASSUME NEW c \in Calls, OpenFile(c) PROVE TypeOK'
    BY <1>10, GarbageType DEF TypeOK, OpenFile, state, Phases
  <1>11. ASSUME NEW c \in Calls, WriteFile(c) PROVE TypeOK'
    <2>1. file.size \in Nat
      BY DEF TypeOK, FileContents
    <2>2. file' \in FileContents
      BY <1>11, <2>1, GarbageType DEF TypeOK, WriteFile
    <2> QED
      BY <1>11, <2>2 DEF TypeOK, WriteFile, state, Phases
  <1>12. ASSUME NEW c \in Calls, CommitFails(c) PROVE TypeOK'
    BY <1>12 DEF TypeOK, CommitFails, state, Phases, Ended
  <1>13. ASSUME NEW c \in Calls, StoreBlock(c) PROVE TypeOK'
    BY <1>13 DEF TypeOK, StoreBlock, state, Phases, Ended
  <1>14. ASSUME NEW k \in Keys, AddSigner(k) PROVE TypeOK'
    <2>1. Append(signers, k) \in Seq(Keys) /\ Append(waiting, k) \in Seq(Keys)
      BY DEF TypeOK
    <2> QED
      BY <1>14, <2>1 DEF TypeOK, AddSigner, KeysOrNone
  <1>15. ASSUME RemoveOldestSigner PROVE TypeOK'
    <2>1. Tail(signers) \in Seq(Keys)
      BY <1>15, HeadTailProperties DEF TypeOK, RemoveOldestSigner
    <2> QED
      BY <1>15, <2>1 DEF TypeOK, RemoveOldestSigner
  <1>16. ASSUME Crash PROVE TypeOK'
    <2>1. phase' \in [Calls -> Phases]
      BY <1>16 DEF TypeOK, Crash, Phases, Ended
    <2>2. <<>> \in Seq(Keys)
      OBVIOUS
    <2> QED
      BY <1>16, <2>1, <2>2 DEF TypeOK, Crash, CallsOrNone, KeysOrNone
  <1>17. ASSUME Restore PROVE TypeOK'
    <2>1. file.chain \in Nat /\ file.index \in Nat /\ file.previousHash \in CallsOrNone /\ file.signers \in Seq(Keys)
      BY DEF TypeOK, FileContents
    <2>2. <<>> \in Seq(Keys) /\ <<GenesisKey>> \in Seq(Keys)
      BY KeyAssumption
    <2> QED
      BY <1>17, <2>1, <2>2 DEF TypeOK, Restore
  <1>18. ASSUME RestoreUnread PROVE TypeOK'
    <2>1. <<GenesisKey>> \in Seq(Keys)
      BY KeyAssumption
    <2> QED
      BY <1>18, <2>1 DEF TypeOK, RestoreUnread
  <1>19. CASE UNCHANGED vars
    BY <1>19 DEF TypeOK, vars, state
  <1> QED
    BY <1>1, <1>2, <1>3, <1>4, <1>5, <1>6, <1>7, <1>8, <1>9, <1>10, <1>11,
       <1>12, <1>13, <1>14, <1>15, <1>16, <1>17, <1>18, <1>19 DEF Next, Progress

\* Every variable of the node keeps its type.
THEOREM TypeCorrect == Spec => []TypeOK
  <1> QED
    BY TypeInit, TypeStep, PTL DEF Spec

-----------------------------------------------------------------------------
(* The session lock.                                                       *)

\* A step that changes the lock gives it to a session or frees it, and one that
\* ends a session frees it.
LEMMA LockStep == TypeOK /\ LockHeldBySession /\ [Next]_vars => LockHeldBySession'
  <1> SUFFICES ASSUME TypeOK, LockHeldBySession, [Next]_vars PROVE LockHeldBySession'
    OBVIOUS
  <1> USE NoneAssumption DEF LockHeldBySession, TypeOK, CallsOrNone
  <1>1. ASSUME NEW c \in Calls, Refuse(c) PROVE LockHeldBySession'
    BY <1>1 DEF Refuse, Catch
  <1>2. ASSUME NEW c \in Calls, CallAsServer(c) \/ CallAsClient(c) \/ CreateGenesis(c)
        PROVE LockHeldBySession'
    BY <1>2 DEF CallAsServer, CallAsClient, CreateGenesis, May
  <1>3. ASSUME NEW c \in Calls, ReceiveChoice(c) PROVE LockHeldBySession'
    BY <1>3 DEF ReceiveChoice
  <1>4. ASSUME NEW c \in Calls, MakeSession(c) PROVE LockHeldBySession'
    BY <1>4 DEF MakeSession
  <1>5. ASSUME NEW c \in Calls, Disconnect(c) PROVE LockHeldBySession'
    BY <1>5 DEF Disconnect, Catch
  <1>6. ASSUME NEW c \in Calls, SessionCompletes(c) PROVE LockHeldBySession'
    BY <1>6 DEF SessionCompletes
  <1>7. ASSUME NEW c \in Calls, GenesisCompletes(c) PROVE LockHeldBySession'
    BY <1>7 DEF GenesisCompletes, Insert
  <1>8. ASSUME NEW c \in Calls, OpenFile(c) \/ WriteFile(c) \/ CommitFails(c) \/ StoreBlock(c)
        PROVE LockHeldBySession'
    BY <1>8 DEF OpenFile, WriteFile, CommitFails, StoreBlock
  <1>9. ASSUME NEW k \in Keys, AddSigner(k) PROVE LockHeldBySession'
    BY <1>9 DEF AddSigner
  <1>10. ASSUME RemoveOldestSigner \/ Restore \/ RestoreUnread PROVE LockHeldBySession'
    BY <1>10 DEF RemoveOldestSigner, Restore, RestoreUnread
  <1>11. ASSUME Crash PROVE LockHeldBySession'
    BY <1>11 DEF Crash
  <1>12. CASE UNCHANGED vars
    BY <1>12 DEF vars
  <1> QED
    BY <1>1, <1>2, <1>3, <1>4, <1>5, <1>6, <1>7, <1>8, <1>9, <1>10, <1>11, <1>12
       DEF Next, Progress

\* Whoever holds the lock is in a session, however the application's calls
\* overlap: the node is never locked for good.
THEOREM LockSafe == Spec => []LockHeldBySession
  <1>1. Init => LockHeldBySession
    BY DEF Init, LockHeldBySession
  <1> QED
    BY <1>1, TypeCorrect, LockStep, PTL DEF Spec

-----------------------------------------------------------------------------
(* The chain of a node whose application waits for each call.              *)

Making   == {"payloads", "session", "genesis"}
Inserted == {"opening", "writing", "written"}

\* A block keeps its contents once its call is here.
Fixed == Inserted \cup Ended

\* One call at a time, and none while the process is down.
OneCall ==
  /\ \A c, d \in Calls : Active(c) /\ Active(d) => c = d
  /\ \A c \in Calls : Active(c) => status = "up"

\* A chain ch of index i ends in p.
EndsIn(i, p, ch) ==
  /\ p = None <=> i = 0
  /\ p # None => phase[p] \in Fixed /\ i = block[p].index + 1 /\ ch = block[p].chain

\* The keys s may sign the block after p.
MaySign(s, p) ==
  p # None => {s[i] : i \in DOMAIN s} \subseteq block[p].keys \cup {block[p].nextPublicKey}

Chains ==
  /\ EndsIn(index, previousHash, chain)
  /\ MaySign(signers, previousHash)
  /\ file.kind = "state" => /\ EndsIn(file.index, file.previousHash, file.chain)
                            /\ file.index > 0
                            /\ MaySign(file.signers, file.previousHash)
  /\ \A c \in Calls : EndsIn(block[c].index, block[c].previousHash, block[c].chain)

\* A block being made holds the state, which waits for it.
MakingIsCurrent ==
  \A c \in Calls :
    /\ phase[c] \in Making =>
         /\ block[c].index = index /\ block[c].previousHash = previousHash
         /\ block[c].nextPublicKey = nextPublicKey /\ block[c].chain = chain
    /\ phase[c] = "session" => Keyset \subseteq block[c].keys

\* A block being inserted is the end of the chain its commit writes.
InsertedIsCurrent ==
  \A c \in Calls : phase[c] \in Inserted =>
    /\ index = block[c].index + 1 /\ previousHash = c /\ chain = block[c].chain
    /\ snapshot[c].kind = "state" /\ snapshot[c].chain = chain
    /\ snapshot[c].index = index /\ snapshot[c].previousHash = c
    /\ MaySign(snapshot[c].signers, c)
    /\ phase[c] = "writing" => file = Garbage(0)
    /\ phase[c] = "written" => file = snapshot[c]

\* At most one signer waits, and it is the one announced.
OneWaits == waiting # <<>> => Len(waiting) = 1 /\ waiting[1] = nextPublicKey

\* The node is after every block it stored.
AboveStored ==
  \A d \in Calls : phase[d] = "stored" =>
    /\ status = "up" => After(chain, index, block[d])
    /\ \A c \in Calls : phase[c] \in Inserted => After(block[c].chain, block[c].index, block[d])

\* Every chain began with one of the reads that failed, the first without one.
ChainsCounted ==
  /\ chain <= misreads /\ file.chain <= misreads
  /\ \A c \in Calls : block[c].chain <= misreads

\* A process that is down remembers nothing.
DownIsEmpty == status = "down" => index = 0 /\ previousHash = None

ChainInv ==
  /\ TypeOK /\ OneCall /\ Chains /\ MakingIsCurrent /\ InsertedIsCurrent
  /\ OneWaits /\ AboveStored /\ ChainsCounted /\ DownIsEmpty
  /\ OneStoredBlockPerIndex /\ StoredBlocksAreOnDisk /\ DiskIsCurrent /\ EveryKeyWasAnnounced

\* What is after a block stays so a height further up, and is not the block.
LEMMA AfterHigher ==
  ASSUME NEW b \in Blocks, NEW ch \in Nat, NEW i \in Nat, After(ch, i, b)
  PROVE  /\ After(ch, i + 1, b)
         /\ ch # b.chain \/ i # b.index
  BY DEF After, Blocks

\* A call that ends without a block leaves the chain alone; one whose commit
\* failed is remembered as rejected.
LEMMA ChainCallEnds ==
  ASSUME Serial, ChainInv, TypeOK', NEW c \in Calls,
         NEW outcome \in {"refused", "undefined", "rejected"},
         phase[c] \notin Ended,
         phase[c] \in Inserted => outcome = "rejected",
         phase' = [phase EXCEPT ![c] = outcome],
         UNCHANGED <<block, snapshot, state, file, status, misreads>>
  PROVE  ChainInv'
  <1> USE DEF ChainInv, TypeOK, state, Ended, Inserted
  <1>1. OneCall'
    BY DEF OneCall, Active
  <1>2. Chains' /\ EveryKeyWasAnnounced'
    BY DEF Chains, EndsIn, MaySign, Fixed, EveryKeyWasAnnounced
  <1>3. MakingIsCurrent' /\ InsertedIsCurrent'
    BY DEF MakingIsCurrent, InsertedIsCurrent, Making, Keyset, MaySign
  <1>4. AboveStored' /\ OneStoredBlockPerIndex' /\ StoredBlocksAreOnDisk' /\ ChainsCounted'
    BY DEF AboveStored, After, OneStoredBlockPerIndex, StoredBlocksAreOnDisk, ChainsCounted
  <1>5. DiskIsCurrent' /\ OneWaits' /\ DownIsEmpty'
    BY DEF DiskIsCurrent, OneWaits, DownIsEmpty
  <1> QED
    BY <1>1, <1>2, <1>3, <1>4, <1>5

\* A call that reads the state for its payloads makes the block that is next.
LEMMA ChainGetPayloads ==
  ASSUME Serial, ChainInv, TypeOK', NEW c \in Calls,
         phase[c] \in {"idle", "catalog"},
         \A d \in Calls \ {c} : ~Active(d),
         status = "up",
         phase' = [phase EXCEPT ![c] = "payloads"] \/ phase' = [phase EXCEPT ![c] = "genesis"],
         GetPayloads(c),
         UNCHANGED <<snapshot, state, file, status, misreads>>
  PROVE  ChainInv'
  <1> USE DEF ChainInv, TypeOK, state
  <1>1. /\ block'[c].index = index /\ block'[c].previousHash = previousHash
        /\ block'[c].nextPublicKey = nextPublicKey /\ block'[c].keys = {}
        /\ block'[c].chain = chain
        /\ \A d \in Calls \ {c} : block'[d] = block[d] /\ phase'[d] = phase[d]
        /\ phase'[c] \in {"payloads", "genesis"}
    BY DEF GetPayloads, Block
  <1>2. \A p \in Calls : phase[p] \in Fixed => p # c
    BY DEF Fixed, Inserted, Ended
  <1>3. OneCall'
    BY <1>1 DEF OneCall, Active
  <1>4. \A i, ch \in Nat, p \in CallsOrNone : EndsIn(i, p, ch) => EndsIn(i, p, ch)'
    BY <1>1, <1>2 DEF EndsIn, CallsOrNone
  <1>5. \A s \in Seq(Keys), p \in CallsOrNone, i, ch \in Nat :
          EndsIn(i, p, ch) /\ MaySign(s, p) => MaySign(s, p)'
    BY <1>1, <1>2 DEF EndsIn, MaySign, CallsOrNone
  <1>6. Chains'
    <2>1. EndsIn(index, previousHash, chain)' /\ MaySign(signers, previousHash)'
      BY <1>4, <1>5 DEF Chains
    <2>2. (file.kind = "state" => /\ EndsIn(file.index, file.previousHash, file.chain)
                                 /\ file.index > 0
                                 /\ MaySign(file.signers, file.previousHash))'
      BY <1>4, <1>5 DEF Chains, FileContents
    <2>3. ASSUME NEW d \in Calls PROVE EndsIn(block[d].index, block[d].previousHash, block[d].chain)'
      <3>1. CASE d = c
        BY <3>1, <1>1, <2>1 DEF EndsIn
      <3>2. CASE d # c
        BY <3>2, <1>1, <1>4 DEF Chains, Blocks
      <3> QED
        BY <3>1, <3>2
    <2> QED
      BY <2>1, <2>2, <2>3 DEF Chains
  <1>7. MakingIsCurrent'
    BY <1>1 DEF MakingIsCurrent, Making, Active, Ended
  <1>8. /\ \A d \in Calls : phase'[d] \notin Inserted
        /\ \A d \in Calls : phase'[d] = "stored" =>
             phase[d] = "stored" /\ block'[d] = block[d]
    BY <1>1 DEF Inserted, Active, Ended
  <1>9. InsertedIsCurrent' /\ AboveStored' /\ OneStoredBlockPerIndex' /\ StoredBlocksAreOnDisk'
        /\ ChainsCounted'
    <2>1. InsertedIsCurrent'
      BY <1>8 DEF InsertedIsCurrent
    <2>2. AboveStored'
      BY <1>8 DEF AboveStored, After
    <2>3. OneStoredBlockPerIndex' /\ StoredBlocksAreOnDisk'
      BY <1>8 DEF OneStoredBlockPerIndex, StoredBlocksAreOnDisk, After
    <2>4. ChainsCounted'
      BY <1>1 DEF ChainsCounted
    <2> QED
      BY <2>1, <2>2, <2>3, <2>4
  <1>10. DiskIsCurrent' /\ OneWaits' /\ DownIsEmpty'
    BY <1>1 DEF DiskIsCurrent, OneWaits, DownIsEmpty
  <1>11. EveryKeyWasAnnounced'
    <2> SUFFICES ASSUME NEW d \in Calls, block'[d].previousHash # None
                 PROVE  block'[d].keys \subseteq block'[block'[d].previousHash].keys
                          \cup {block'[block'[d].previousHash].nextPublicKey}
      BY DEF EveryKeyWasAnnounced
    <2>1. CASE d = c
      BY <2>1, <1>1
    <2>2. CASE d # c
      <3>1. block[d].previousHash \in Calls /\ block[d].previousHash # c
        BY <2>2, <1>1, <1>2 DEF Chains, EndsIn, Blocks, CallsOrNone
      <3> QED
        BY <2>2, <3>1, <1>1 DEF EveryKeyWasAnnounced
    <2> QED
      BY <2>1, <2>2
  <1> QED
    BY <1>3, <1>6, <1>7, <1>9, <1>10, <1>11

\* The fetter of a session holds the keys of the signers it is made with.
LEMMA ChainMakeSession ==
  ASSUME Serial, ChainInv, TypeOK', NEW c \in Calls, MakeSession(c)
  PROVE  ChainInv'
  <1> USE DEF ChainInv, TypeOK, state
  <1>1. /\ phase' = [phase EXCEPT ![c] = "session"] /\ phase[c] = "payloads"
        /\ block'[c].keys = Keyset
        /\ \A d \in Calls : /\ block'[d].index = block[d].index
                            /\ block'[d].previousHash = block[d].previousHash
                            /\ block'[d].nextPublicKey = block[d].nextPublicKey
                            /\ block'[d].chain = block[d].chain
        /\ \A d \in Calls \ {c} : block'[d].keys = block[d].keys
        /\ UNCHANGED <<snapshot, state, file, status, misreads>>
    BY DEF MakeSession, Blocks
  <1>2. \A p \in Calls : phase[p] \in Fixed => p # c
    BY <1>1 DEF Fixed, Inserted, Ended
  <1>3. OneCall'
    BY <1>1 DEF OneCall, Active, Ended
  <1>4. Chains'
    <2>1. \A i, ch \in Nat, p \in CallsOrNone : EndsIn(i, p, ch) => EndsIn(i, p, ch)'
      BY <1>1, <1>2 DEF EndsIn, CallsOrNone
    <2>2. \A s \in Seq(Keys), p \in CallsOrNone, i, ch \in Nat :
            EndsIn(i, p, ch) /\ MaySign(s, p) => MaySign(s, p)'
      BY <1>1, <1>2 DEF EndsIn, MaySign, CallsOrNone
    <2>3. \A d \in Calls : EndsIn(block[d].index, block[d].previousHash, block[d].chain)'
      BY <1>1, <2>1 DEF Chains, Blocks
    <2>4. EndsIn(index, previousHash, chain)' /\ MaySign(signers, previousHash)'
      BY <1>1, <2>1, <2>2 DEF Chains
    <2>5. (file.kind = "state" => /\ EndsIn(file.index, file.previousHash, file.chain)
                                 /\ file.index > 0
                                 /\ MaySign(file.signers, file.previousHash))'
      BY <1>1, <2>1, <2>2 DEF Chains, FileContents
    <2> QED
      BY <2>3, <2>4, <2>5 DEF Chains
  <1>5. MakingIsCurrent'
    BY <1>1 DEF MakingIsCurrent, Making, Keyset
  <1>6. InsertedIsCurrent'
    BY <1>1, <1>2 DEF InsertedIsCurrent, Inserted, MaySign
  <1>7. AboveStored' /\ OneStoredBlockPerIndex' /\ StoredBlocksAreOnDisk' /\ ChainsCounted'
    BY <1>1 DEF AboveStored, After, OneStoredBlockPerIndex, StoredBlocksAreOnDisk,
                ChainsCounted, Inserted
  <1>8. DiskIsCurrent' /\ OneWaits' /\ DownIsEmpty'
    BY <1>1 DEF DiskIsCurrent, OneWaits, DownIsEmpty
  <1>9. EveryKeyWasAnnounced'
    <2> SUFFICES ASSUME NEW d \in Calls, block'[d].previousHash # None
                 PROVE  block'[d].keys \subseteq block'[block'[d].previousHash].keys
                          \cup {block'[block'[d].previousHash].nextPublicKey}
      BY DEF EveryKeyWasAnnounced
    <2>1. block[d].previousHash \in Calls /\ block[d].previousHash # c
      BY <1>1, <1>2 DEF Chains, EndsIn, Blocks, CallsOrNone
    <2>2. CASE d = c
      <3>1. block[c].previousHash = previousHash
        BY <1>1 DEF MakingIsCurrent, Making
      <3>2. MaySign(signers, previousHash) /\ previousHash # None
        BY <2>1, <2>2, <3>1, NoneAssumption DEF Chains
      <3> HIDE DEF ChainInv, TypeOK
      <3>3. Keyset \subseteq block[previousHash].keys \cup {block[previousHash].nextPublicKey}
        BY <3>2 DEF MaySign, Keyset
      <3> QED
        BY <2>1, <2>2, <3>1, <3>3, <1>1
    <2>3. CASE d # c
      <3>1. EveryKeyWasAnnounced /\ block[d].previousHash # None
        BY <2>3, <1>1
      <3> HIDE DEF ChainInv, TypeOK
      <3> QED
        BY <2>1, <2>3, <3>1, <1>1 DEF EveryKeyWasAnnounced
    <2> QED
      BY <2>2, <2>3
  <1> QED
    BY <1>3, <1>4, <1>5, <1>6, <1>7, <1>8, <1>9

\* Inserting the block that was made makes it the end of the chain.  Its keys
\* are those of the session's fetter or of the signers that sign it alone.
LEMMA ChainInsert ==
  ASSUME Serial, ChainInv, TypeOK', NEW c \in Calls,
         phase[c] \in {"session", "genesis"},
         \/ phase[c] = "session" /\ block' = block
         \/ phase[c] = "genesis" /\ block' = [block EXCEPT ![c].keys = Keyset],
         Insert(c)
  PROVE  ChainInv'
  <1> USE DEF ChainInv, TypeOK
  <1>1. /\ \A d \in Calls : /\ block'[d].index = block[d].index
                            /\ block'[d].previousHash = block[d].previousHash
                            /\ block'[d].nextPublicKey = block[d].nextPublicKey
                            /\ block'[d].chain = block[d].chain
        /\ \A d \in Calls \ {c} : block'[d].keys = block[d].keys
        /\ Keyset \subseteq block'[c].keys
        /\ block'[c].keys \subseteq block[c].keys \cup Keyset
    <2>1. CASE phase[c] = "session" /\ block' = block
      BY <2>1 DEF MakingIsCurrent
    <2>2. CASE phase[c] = "genesis" /\ block' = [block EXCEPT ![c].keys = Keyset]
      BY <2>2 DEF Blocks
    <2> QED
      BY <2>1, <2>2
  <1>2. /\ phase' = [phase EXCEPT ![c] = "opening"]
        /\ index' = block[c].index + 1 /\ previousHash' = c
        /\ index = block[c].index /\ previousHash = block[c].previousHash
        /\ nextPublicKey = block[c].nextPublicKey
        /\ chain = block[c].chain
        /\ UNCHANGED <<chain, file, status, misreads>>
        /\ block[c].index \in Nat
    BY DEF Insert, AddOriginBlock, MakingIsCurrent, Making, Blocks
  <1>3. /\ snapshot'[c].kind = "state"
        /\ snapshot'[c].index = index' /\ snapshot'[c].previousHash = c
        /\ snapshot'[c].signers = signers' /\ snapshot'[c].chain = chain
    BY <1>2 DEF Insert, Contents
  <1>4. Active(c) /\ status = "up" /\ \A d \in Calls \ {c} : ~Active(d)
    BY DEF OneCall, Active, Ended
  <1>5. \A p \in Calls : phase[p] \in Fixed => p # c
    BY DEF Fixed, Inserted, Ended
  <1>6. MaySign(signers, c)'
    <2>1. CASE waiting = <<>>
      BY <2>1, <1>1 DEF Insert, AddOriginBlock, MaySign, Keyset
    <2>2. CASE waiting # <<>>
      <3>1. signers' = Append(signers, nextPublicKey)
        BY <2>2 DEF Insert, AddOriginBlock, OneWaits
      <3>2. \A i \in DOMAIN signers' : signers'[i] \in Keyset \cup {nextPublicKey}
        BY <3>1 DEF Keyset
      <3> QED
        BY <3>2, <1>1, <1>2 DEF MaySign
    <2> QED
      BY <2>1, <2>2
  <1>7. OneCall'
    BY <1>2, <1>4 DEF OneCall, Active, Ended
  <1>8. Chains'
    <2>1. EndsIn(index, previousHash, chain)'
      BY <1>1, <1>2, NoneAssumption DEF EndsIn, Fixed, Inserted
    <2>2. \A i, ch \in Nat, p \in CallsOrNone : EndsIn(i, p, ch) => EndsIn(i, p, ch)'
      BY <1>1, <1>2, <1>5 DEF EndsIn, CallsOrNone, Fixed, Inserted
    <2>3. \A s \in Seq(Keys), p \in CallsOrNone, i, ch \in Nat :
            EndsIn(i, p, ch) /\ MaySign(s, p) => MaySign(s, p)'
      BY <1>1, <1>5 DEF EndsIn, MaySign, CallsOrNone
    <2>4. (file.kind = "state" => /\ EndsIn(file.index, file.previousHash, file.chain)
                                 /\ file.index > 0
                                 /\ MaySign(file.signers, file.previousHash))'
      BY <1>2, <2>2, <2>3 DEF Chains, FileContents
    <2>5. \A d \in Calls : EndsIn(block[d].index, block[d].previousHash, block[d].chain)'
      BY <1>1, <2>2 DEF Chains, Blocks
    <2> QED
      BY <2>1, <2>4, <2>5, <1>6, <1>2 DEF Chains
  <1>9. MakingIsCurrent'
    BY <1>2, <1>4 DEF MakingIsCurrent, Making, Active, Ended
  <1>10. InsertedIsCurrent'
    <2> SUFFICES ASSUME NEW d \in Calls, phase'[d] \in Inserted
                 PROVE  d = c
      <3>1. phase'[c] = "opening"
        BY <1>2
      <3> HIDE DEF ChainInv, TypeOK
      <3> QED
        BY <3>1, <1>1, <1>2, <1>3, <1>6 DEF InsertedIsCurrent, MaySign
    <2> QED
      BY <1>2, <1>4 DEF Inserted, Active, Ended
  <1>11. AboveStored'
    <2> SUFFICES ASSUME NEW d \in Calls, phase'[d] = "stored"
                 PROVE  /\ After(chain', index', block'[d])
                        /\ \A e \in Calls : phase'[e] \in Inserted =>
                             After(block'[e].chain, block'[e].index, block'[d])
      BY DEF AboveStored, After
    <2>1. phase[d] = "stored" /\ phase'[c] = "opening" /\ d # c
      BY <1>2
    <2>2. After(chain, index, block[d]) /\ After(chain, index + 1, block[d])
      BY <2>1, <1>4, AfterHigher DEF AboveStored
    <2>3. \A e \in Calls : phase'[e] \in Inserted => e = c
      BY <1>2, <1>4 DEF Inserted, Active, Ended
    <2> HIDE DEF ChainInv, TypeOK
    <2>4. chain' = chain /\ index' = index + 1
      BY <1>2
    <2>5. /\ block'[d].chain = block[d].chain /\ block'[d].index = block[d].index
          /\ block'[c].chain = chain /\ block'[c].index = index
      BY <1>1, <1>2
    <2>6. After(chain', index', block'[d])
      BY <2>2, <2>4, <2>5 DEF After
    <2>7. After(block'[c].chain, block'[c].index, block'[d])
      BY <2>2, <2>5 DEF After
    <2> QED
      BY <2>3, <2>6, <2>7
  <1>12. OneStoredBlockPerIndex' /\ StoredBlocksAreOnDisk' /\ ChainsCounted'
    <2>1. \A d \in Calls : phase'[d] = "stored" => phase[d] = "stored"
      BY <1>2
    <2>2. OneStoredBlockPerIndex /\ StoredBlocksAreOnDisk /\ ChainsCounted
      OBVIOUS
    <2> HIDE DEF ChainInv, TypeOK
    <2>3. OneStoredBlockPerIndex'
      BY <2>1, <2>2, <1>1 DEF OneStoredBlockPerIndex
    <2>4. StoredBlocksAreOnDisk'
      BY <2>1, <2>2, <1>1, <1>2 DEF StoredBlocksAreOnDisk, After
    <2>5. ChainsCounted'
      BY <2>2, <1>1, <1>2 DEF ChainsCounted
    <2> QED
      BY <2>3, <2>4, <2>5
  <1>13. DiskIsCurrent' /\ DownIsEmpty'
    BY <1>2, <1>4 DEF DiskIsCurrent, DownIsEmpty
  <1>14. OneWaits'
    <2>1. waiting' = <<>>
      <3>1. CASE waiting = <<>>
        BY <3>1 DEF Insert, AddOriginBlock
      <3>2. CASE waiting # <<>>
        <4>1. Len(waiting) = 1 /\ waiting' = Tail(waiting)
          BY <3>2 DEF Insert, AddOriginBlock, OneWaits
        <4>2. Len(waiting') = 0
          BY <4>1, <3>2, HeadTailProperties
        <4> QED
          BY <4>2, EmptySeq
      <3> QED
        BY <3>1, <3>2
    <2> QED
      BY <2>1 DEF OneWaits
  <1>15. EveryKeyWasAnnounced'
    <2> SUFFICES ASSUME NEW d \in Calls, block'[d].previousHash # None
                 PROVE  block'[d].keys \subseteq block'[block'[d].previousHash].keys
                          \cup {block'[block'[d].previousHash].nextPublicKey}
      BY DEF EveryKeyWasAnnounced
    <2>1. block[d].previousHash \in Calls /\ block[d].previousHash # c
      BY <1>1, <1>5 DEF Chains, EndsIn, Blocks, CallsOrNone
    <2>2. CASE d = c
      <3>1. Keyset \subseteq block[block[c].previousHash].keys
                             \cup {block[block[c].previousHash].nextPublicKey}
        BY <2>1, <2>2, <1>1, <1>2 DEF Chains, MaySign, Keyset
      <3> QED
        BY <3>1, <2>1, <2>2, <1>1 DEF EveryKeyWasAnnounced
    <2>3. CASE d # c
      BY <2>1, <2>3, <1>1 DEF EveryKeyWasAnnounced
    <2> QED
      BY <2>2, <2>3
  <1> QED
    BY <1>7, <1>8, <1>9, <1>10, <1>11, <1>12, <1>13, <1>14, <1>15

\* The commit of the only call opens the file, fills it and resolves.
LEMMA ChainCommit ==
  ASSUME Serial, ChainInv, TypeOK', NEW c \in Calls,
         OpenFile(c) \/ WriteFile(c) \/ StoreBlock(c)
  PROVE  ChainInv'
  <1> USE DEF ChainInv, TypeOK, state
  <1>1. /\ phase[c] \in Inserted /\ phase'[c] \in Inserted \cup {"stored"}
        /\ \A d \in Calls \ {c} : phase'[d] = phase[d]
        /\ UNCHANGED <<block, snapshot, state, status, misreads>>
    BY DEF OpenFile, WriteFile, StoreBlock, Inserted
  <1>2. /\ \A d \in Calls \ {c} : phase[d] \notin Inserted \cup Making
        /\ status = "up"
    BY <1>1 DEF OneCall, Active, Inserted, Making, Ended
  <1>3. /\ index = block[c].index + 1 /\ previousHash = c /\ chain = block[c].chain
        /\ snapshot[c].kind = "state" /\ snapshot[c].chain = chain
        /\ snapshot[c].index = index /\ snapshot[c].previousHash = c
        /\ MaySign(snapshot[c].signers, c)
        /\ block[c].index \in Nat /\ block[c].chain \in Nat
    BY <1>1 DEF InsertedIsCurrent, Blocks
  <1>4. /\ phase'[c] = "writing" => file' = Garbage(0)
        /\ phase'[c] \in {"written", "stored"} => file' = snapshot[c]
        /\ phase'[c] # "opening"
    <2>1. CASE OpenFile(c)
      BY <2>1 DEF OpenFile
    <2>2. CASE WriteFile(c)
      <3>1. file = Garbage(0) /\ snapshot[c].size \in Nat
        BY <2>2, <1>1 DEF WriteFile, InsertedIsCurrent, FileContents
      <3> QED
        BY <2>2, <3>1 DEF WriteFile, Garbage
    <2>3. CASE StoreBlock(c)
      BY <2>3, <1>1 DEF StoreBlock, InsertedIsCurrent
    <2> QED
      BY <2>1, <2>2, <2>3
  <1>5. OneCall'
    BY <1>1, <1>2 DEF OneCall, Active, Inserted, Ended
  <1>6. \A i, ch \in Nat, p \in CallsOrNone : EndsIn(i, p, ch) => EndsIn(i, p, ch)'
    BY <1>1 DEF EndsIn, Fixed, Ended, CallsOrNone
  <1>7. Chains'
    <2>1. EndsIn(index, previousHash, chain)' /\ MaySign(signers, previousHash)'
      BY <1>1, <1>6 DEF Chains, MaySign
    <2>2. (file.kind = "state" => /\ EndsIn(file.index, file.previousHash, file.chain)
                                 /\ file.index > 0
                                 /\ MaySign(file.signers, file.previousHash))'
      BY <2>1, <1>1, <1>3, <1>4 DEF MaySign, Garbage, Inserted
    <2>3. \A d \in Calls : EndsIn(block[d].index, block[d].previousHash, block[d].chain)'
      BY <1>1, <1>6 DEF Chains, Blocks
    <2> QED
      BY <2>1, <2>2, <2>3 DEF Chains
  <1>8. MakingIsCurrent'
    BY <1>1 DEF MakingIsCurrent, Making, Inserted, Keyset
  <1>9. InsertedIsCurrent'
    BY <1>1, <1>2, <1>3, <1>4 DEF InsertedIsCurrent, Inserted, MaySign
  <1>10. \A d \in Calls \ {c} : phase'[d] = "stored" =>
           /\ phase[d] = "stored"
           /\ After(block[c].chain, block[c].index, block[d])
           /\ After(chain, index, block[d])
           /\ block[d].chain # block[c].chain \/ block[d].index # block[c].index
    <2> SUFFICES ASSUME NEW d \in Calls \ {c}, phase'[d] = "stored"
                 PROVE  /\ phase[d] = "stored"
                        /\ After(block[c].chain, block[c].index, block[d])
                        /\ After(chain, index, block[d])
                        /\ block[d].chain # block[c].chain \/ block[d].index # block[c].index
      OBVIOUS
    <2>1. phase[d] = "stored"
      BY <1>1
    <2>2. After(block[c].chain, block[c].index, block[d])
      BY <2>1, <1>1 DEF AboveStored
    <2>3. block[d] \in Blocks
      OBVIOUS
    <2> HIDE DEF ChainInv, TypeOK
    <2>4. /\ After(block[c].chain, block[c].index + 1, block[d])
          /\ block[d].chain # block[c].chain \/ block[d].index # block[c].index
      BY <2>2, <2>3, <1>3, AfterHigher
    <2>5. After(chain, index, block[d])
      BY <2>4, <1>3
    <2> QED
      BY <2>1, <2>2, <2>4, <2>5
  <1>11. AboveStored' /\ OneStoredBlockPerIndex'
    <2>1. \A e \in Calls : phase'[e] \in Inserted => e = c
      BY <1>1, <1>2
    <2>2. phase'[c] = "stored" => After(chain, index, block[c])
      BY <1>3 DEF After
    <2>3. OneStoredBlockPerIndex
      OBVIOUS
    <2> HIDE DEF ChainInv, TypeOK
    <2>4. UNCHANGED <<block, chain, index>>
      BY <1>1
    <2>5. ASSUME NEW d \in Calls, phase'[d] = "stored"
          PROVE  /\ After(chain, index, block[d])
                 /\ \A e \in Calls : phase'[e] \in Inserted =>
                      After(block[e].chain, block[e].index, block[d])
      <3>1. CASE d = c
        BY <2>1, <2>2, <2>5, <3>1 DEF Inserted
      <3>2. CASE d # c
        BY <2>1, <2>5, <3>2, <1>10
      <3> QED
        BY <3>1, <3>2
    <2>6. AboveStored'
      BY <2>4, <2>5 DEF AboveStored, After
    <2>7. OneStoredBlockPerIndex'
      BY <2>3, <2>4, <1>10 DEF OneStoredBlockPerIndex
    <2> QED
      BY <2>6, <2>7
  <1>12. StoredBlocksAreOnDisk'
    <2> SUFFICES ASSUME NEW d \in Calls, phase'[d] = "stored"
                 PROVE  \/ file'.kind = "garbage"
                        \/ file'.kind = "state" /\ After(file'.chain, file'.index, block'[d])
      BY DEF StoredBlocksAreOnDisk, After
    <2>1. CASE d = c
      BY <2>1, <1>1, <1>3, <1>4 DEF After
    <2>2. CASE d # c
      <3>1. After(chain, index, block[d])
        BY <2>2, <1>10
      <3>2. phase'[c] = "writing" \/ phase'[c] \in {"written", "stored"}
        BY <1>1, <1>4 DEF Inserted
      <3> QED
        BY <3>1, <3>2, <1>1, <1>3, <1>4 DEF Garbage
    <2> QED
      BY <2>1, <2>2
  <1>13. ChainsCounted'
    BY <1>1, <1>3, <1>4 DEF ChainsCounted, Garbage, Inserted
  <1>14. DiskIsCurrent'
    BY <1>1, <1>3, <1>4 DEF DiskIsCurrent, Inserted
  <1>15. OneWaits' /\ DownIsEmpty' /\ EveryKeyWasAnnounced'
    BY <1>1, <1>2 DEF OneWaits, DownIsEmpty, EveryKeyWasAnnounced
  <1> QED
    BY <1>5, <1>7, <1>8, <1>9, <1>11, <1>12, <1>13, <1>14, <1>15

\* A signer joins an empty chain, or waits and is announced; one that leaves
\* takes a key away.
LEMMA ChainSigners ==
  ASSUME Serial, ChainInv, TypeOK',
         RemoveOldestSigner \/ \E k \in Keys : AddSigner(k)
  PROVE  ChainInv'
  <1> USE DEF ChainInv, TypeOK
  <1>1. UNCHANGED <<phase, block, snapshot, lock, index, previousHash, chain, file, status, misreads>>
    BY DEF RemoveOldestSigner, AddSigner
  <1>2. OneCall' /\ EveryKeyWasAnnounced'
    BY <1>1 DEF OneCall, Active, EveryKeyWasAnnounced
  <1>3. AboveStored' /\ OneStoredBlockPerIndex' /\ StoredBlocksAreOnDisk' /\ ChainsCounted'
    BY <1>1 DEF AboveStored, After, OneStoredBlockPerIndex, StoredBlocksAreOnDisk, ChainsCounted
  <1>4. DiskIsCurrent' /\ DownIsEmpty' /\ InsertedIsCurrent'
    BY <1>1 DEF DiskIsCurrent, DownIsEmpty, InsertedIsCurrent, MaySign
  <1>5. CASE RemoveOldestSigner
    <2>1. Keyset' \subseteq Keyset /\ UNCHANGED <<waiting, nextPublicKey>>
      <3>1. /\ signers' = Tail(signers) /\ signers # <<>>
            /\ UNCHANGED <<waiting, nextPublicKey>>
        BY <1>5 DEF RemoveOldestSigner
      <3>2. /\ signers' \in Seq(Keys) /\ Len(signers') = Len(signers) - 1
            /\ \A i \in 1..Len(signers') : signers'[i] = signers[i + 1]
        BY <3>1, HeadTailProperties
      <3>3. ASSUME NEW i \in DOMAIN signers' PROVE signers'[i] \in Keyset
        <4>1. i \in 1..Len(signers') /\ i + 1 \in DOMAIN signers
          BY <3>2
        <4> QED
          BY <3>2, <4>1 DEF Keyset
      <3> QED
        BY <3>1, <3>3 DEF Keyset
    <2>2. Chains'
      <3>1. MaySign(signers, previousHash)'
        BY <1>1, <2>1 DEF Chains, MaySign, Keyset
      <3> QED
        BY <1>1, <3>1 DEF Chains, EndsIn, MaySign
    <2>3. MakingIsCurrent' /\ OneWaits'
      BY <1>1, <2>1 DEF MakingIsCurrent, OneWaits
    <2> QED
      BY <1>2, <1>3, <1>4, <2>2, <2>3
  <1>6. ASSUME NEW k \in Keys, AddSigner(k) PROVE ChainInv'
    <2>1. waiting = <<>> /\ \A d \in Calls : ~Active(d)
      BY <1>6 DEF AddSigner
    <2>2. Chains'
      <3>1. CASE index = 0
        BY <1>1, <3>1 DEF Chains, EndsIn, MaySign
      <3>2. CASE index # 0
        BY <1>1, <1>6, <3>2 DEF AddSigner, Chains, EndsIn, MaySign
      <3> QED
        BY <3>1, <3>2
    <2>3. MakingIsCurrent'
      BY <1>1, <2>1 DEF MakingIsCurrent, Making, Active, Ended
    <2>4. OneWaits'
      <3>1. CASE index = 0
        BY <1>6, <2>1, <3>1 DEF AddSigner, OneWaits
      <3>2. CASE index # 0
        <4>1. waiting' = Append(<<>>, k) /\ nextPublicKey' = k
          BY <1>6, <2>1, <3>2 DEF AddSigner
        <4> QED
          BY <4>1 DEF OneWaits
      <3> QED
        BY <3>1, <3>2
    <2> QED
      BY <1>2, <1>3, <1>4, <2>2, <2>3, <2>4
  <1> QED
    BY <1>5, <1>6

\* What a crash leaves is the file, and no call is left that would write it.
LEMMA ChainCrash ==
  ASSUME Serial, ChainInv, TypeOK', Crash
  PROVE  ChainInv'
  <1> USE DEF ChainInv, TypeOK
  <1>1. /\ status' = "down" /\ index' = 0 /\ previousHash' = None
        /\ waiting' = <<>> /\ chain' = 0 /\ UNCHANGED <<block, snapshot, file, misreads>>
        /\ \A c \in Calls : phase'[c] = IF Active(c) THEN "dead" ELSE phase[c]
    BY DEF Crash
  <1>2. \A c \in Calls : /\ phase'[c] \in Ended \cup {"idle"}
                         /\ phase'[c] = "stored" => phase[c] = "stored"
                         /\ phase[c] \in Fixed => phase'[c] \in Fixed
    BY <1>1 DEF Active, Ended, Fixed
  <1>3. OneCall' /\ MakingIsCurrent' /\ InsertedIsCurrent'
    BY <1>2 DEF OneCall, Active, MakingIsCurrent, InsertedIsCurrent, Making, Inserted, Ended
  <1>4. Chains'
    BY <1>1, <1>2 DEF Chains, EndsIn, MaySign, CallsOrNone, Blocks, FileContents
  <1>5. AboveStored' /\ OneStoredBlockPerIndex' /\ StoredBlocksAreOnDisk' /\ ChainsCounted'
    BY <1>1, <1>2 DEF AboveStored, After, OneStoredBlockPerIndex, StoredBlocksAreOnDisk,
                      ChainsCounted, Inserted, Ended
  <1>6. DiskIsCurrent' /\ OneWaits' /\ DownIsEmpty' /\ EveryKeyWasAnnounced'
    BY <1>1 DEF DiskIsCurrent, OneWaits, DownIsEmpty, EveryKeyWasAnnounced
  <1> QED
    BY <1>3, <1>4, <1>5, <1>6

\* A process that comes up has the chain of the file, above every stored block.
LEMMA ChainRestore ==
  ASSUME Serial, ChainInv, TypeOK', Restore
  PROVE  ChainInv'
  <1> USE DEF ChainInv, TypeOK
  <1>1. /\ status = "down" /\ status' \in {"up", "broken"}
        /\ UNCHANGED <<phase, block, snapshot, waiting, nextPublicKey, file, misreads>>
        /\ chain' = file.chain
        /\ status' = "up" => file.kind \in {"state", "missing"}
        /\ IF file.kind = "state"
           THEN index' = file.index /\ previousHash' = file.previousHash
                /\ signers' = file.signers
           ELSE index' = 0 /\ previousHash' = None
    BY DEF Restore, DownIsEmpty, FileContents
  <1>2. \A c \in Calls : ~Active(c)
    BY <1>1 DEF OneCall
  <1>3. OneCall' /\ MakingIsCurrent' /\ InsertedIsCurrent'
    BY <1>1, <1>2 DEF OneCall, Active, MakingIsCurrent, InsertedIsCurrent, Making, Inserted, Ended
  <1>4. Chains'
    <2>1. CASE file.kind = "state"
      BY <1>1, <2>1 DEF Chains, EndsIn, MaySign
    <2>2. CASE file.kind # "state"
      BY <1>1, <2>2 DEF Chains, EndsIn, MaySign
    <2> QED
      BY <2>1, <2>2
  <1>5. AboveStored'
    BY <1>1, <1>2 DEF AboveStored, After, StoredBlocksAreOnDisk, Active, Inserted, Ended
  <1>6. OneStoredBlockPerIndex' /\ StoredBlocksAreOnDisk' /\ EveryKeyWasAnnounced' /\ ChainsCounted'
    BY <1>1 DEF OneStoredBlockPerIndex, StoredBlocksAreOnDisk, After, EveryKeyWasAnnounced,
                ChainsCounted
  <1>7. DiskIsCurrent' /\ OneWaits' /\ DownIsEmpty'
    BY <1>1 DEF DiskIsCurrent, OneWaits, DownIsEmpty, Chains, FileContents
  <1> QED
    BY <1>3, <1>4, <1>5, <1>6, <1>7

\* A process that could not read its file begins a chain after all others.
LEMMA ChainRestoreUnread ==
  ASSUME Serial, ChainInv, TypeOK', RestoreUnread
  PROVE  ChainInv'
  <1> USE DEF ChainInv, TypeOK
  <1>1. /\ status = "down" /\ status' = "up" /\ index' = 0 /\ previousHash' = None
        /\ UNCHANGED <<phase, block, snapshot, waiting, nextPublicKey, file>>
        /\ misreads' = misreads + 1 /\ chain' = misreads'
    BY DEF RestoreUnread, DownIsEmpty
  <1>2. \A c \in Calls : ~Active(c)
    BY <1>1 DEF OneCall
  <1>3. /\ file.chain \in Nat /\ file.chain < chain'
        /\ \A c \in Calls : block[c].chain \in Nat /\ block[c].chain < chain'
    <2>1. file.chain \in Nat /\ \A c \in Calls : block[c].chain \in Nat
      BY DEF FileContents, Blocks
    <2> QED
      BY <2>1, <1>1 DEF ChainsCounted
  <1>4. OneCall' /\ MakingIsCurrent' /\ InsertedIsCurrent'
    BY <1>1, <1>2 DEF OneCall, Active, MakingIsCurrent, InsertedIsCurrent, Making, Inserted, Ended
  <1>5. Chains'
    BY <1>1 DEF Chains, EndsIn, MaySign
  <1>6. AboveStored'
    BY <1>1, <1>2, <1>3 DEF AboveStored, After, Active, Inserted, Ended
  <1>7. OneStoredBlockPerIndex' /\ StoredBlocksAreOnDisk' /\ EveryKeyWasAnnounced'
    BY <1>1 DEF OneStoredBlockPerIndex, StoredBlocksAreOnDisk, After, EveryKeyWasAnnounced
  <1>8. ChainsCounted'
    BY <1>1, <1>3 DEF ChainsCounted
  <1>9. DiskIsCurrent' /\ OneWaits' /\ DownIsEmpty'
    BY <1>1, <1>3 DEF DiskIsCurrent, OneWaits, DownIsEmpty
  <1> QED
    BY <1>4, <1>5, <1>6, <1>7, <1>8, <1>9

LEMMA ChainInit == Init => ChainInv
  <1> SUFFICES ASSUME Init PROVE ChainInv
    OBVIOUS
  <1>1. TypeOK
    BY TypeInit
  <1>2. OneCall /\ MakingIsCurrent /\ InsertedIsCurrent /\ AboveStored
    BY DEF Init, OneCall, Active, MakingIsCurrent, InsertedIsCurrent, AboveStored,
           Making, Inserted
  <1>3. Chains
    BY DEF Init, Block, Missing, Garbage, Chains, EndsIn, MaySign
  <1>4. OneWaits /\ DownIsEmpty /\ DiskIsCurrent /\ ChainsCounted
    BY DEF Init, Block, OneWaits, DownIsEmpty, DiskIsCurrent, ChainsCounted, Missing, Garbage
  <1>5. OneStoredBlockPerIndex /\ StoredBlocksAreOnDisk /\ EveryKeyWasAnnounced
    BY DEF Init, Block, OneStoredBlockPerIndex, StoredBlocksAreOnDisk, EveryKeyWasAnnounced
  <1> QED
    BY <1>1, <1>2, <1>3, <1>4, <1>5 DEF ChainInv

LEMMA ChainStep ==
  ASSUME Serial
  PROVE  ChainInv /\ [Next]_vars => ChainInv'
  <1> SUFFICES ASSUME ChainInv, [Next]_vars PROVE ChainInv'
    OBVIOUS
  <1>1. TypeOK /\ TypeOK' /\ OneCall
    BY TypeStep DEF ChainInv
  <1>2. ASSUME NEW c \in Calls, Refuse(c) \/ Disconnect(c) \/ CommitFails(c) PROVE ChainInv'
    <2>1. UNCHANGED <<block, snapshot, state, file, status, misreads>>
      BY <1>2 DEF Refuse, Disconnect, Catch, CommitFails
    <2>2. CASE Refuse(c)
      BY <2>1, <2>2, <1>1, ChainCallEnds DEF Refuse, Catch, May, Inserted, Ended
    <2>3. CASE Disconnect(c)
      BY <2>1, <2>3, <1>1, ChainCallEnds DEF Disconnect, Catch, Inserted, Ended
    <2>4. CASE CommitFails(c)
      BY <2>1, <2>4, <1>1, ChainCallEnds DEF CommitFails, Ended
    <2> QED
      BY <1>2, <2>2, <2>3, <2>4
  <1>3. ASSUME NEW c \in Calls, CallAsServer(c) \/ CreateGenesis(c) PROVE ChainInv'
    BY <1>1, <1>3, ChainGetPayloads DEF CallAsServer, CreateGenesis, May
  <1>4. ASSUME NEW c \in Calls, ReceiveChoice(c) PROVE ChainInv'
    <2>1. Active(c)
      BY <1>4 DEF ReceiveChoice, Active, Ended
    <2>2. status = "up" /\ \A d \in Calls \ {c} : ~Active(d)
      BY <1>1, <2>1 DEF OneCall
    <2> QED
      BY <1>1, <1>4, <2>2, ChainGetPayloads DEF ReceiveChoice
  <1>5. ASSUME NEW c \in Calls, CallAsClient(c) PROVE ChainInv'
    <2> USE DEF CallAsClient, May, ChainInv, TypeOK, state
    <2>1. OneCall' /\ MakingIsCurrent'
      BY <1>5, <1>1 DEF OneCall, Active, MakingIsCurrent, Making, Keyset, Ended
    <2>2. InsertedIsCurrent' /\ AboveStored' /\ DiskIsCurrent'
      BY <1>5 DEF InsertedIsCurrent, AboveStored, After, DiskIsCurrent, Inserted, MaySign
    <2>3. Chains' /\ EveryKeyWasAnnounced'
      BY <1>5 DEF Chains, EndsIn, MaySign, Fixed, Inserted, Ended, EveryKeyWasAnnounced
    <2>4. OneWaits' /\ DownIsEmpty' /\ ChainsCounted'
      BY <1>5 DEF OneWaits, DownIsEmpty, ChainsCounted
    <2>5. OneStoredBlockPerIndex' /\ StoredBlocksAreOnDisk'
      BY <1>5 DEF OneStoredBlockPerIndex, StoredBlocksAreOnDisk, After
    <2> QED
      BY <1>1, <2>1, <2>2, <2>3, <2>4, <2>5
  <1>6. ASSUME NEW c \in Calls, MakeSession(c) PROVE ChainInv'
    BY <1>1, <1>6, ChainMakeSession
  <1>7. ASSUME NEW c \in Calls, SessionCompletes(c) \/ GenesisCompletes(c) PROVE ChainInv'
    BY <1>1, <1>7, ChainInsert DEF SessionCompletes, GenesisCompletes
  <1>8. ASSUME NEW c \in Calls, OpenFile(c) \/ WriteFile(c) \/ StoreBlock(c) PROVE ChainInv'
    BY <1>1, <1>8, ChainCommit
  <1>9. ASSUME RemoveOldestSigner \/ \E k \in Keys : AddSigner(k) PROVE ChainInv'
    BY <1>1, <1>9, ChainSigners
  <1>10. ASSUME Crash PROVE ChainInv'
    BY <1>1, <1>10, ChainCrash
  <1>11. ASSUME Restore \/ RestoreUnread PROVE ChainInv'
    BY <1>1, <1>11, ChainRestore, ChainRestoreUnread
  <1>12. CASE UNCHANGED vars
    <2> USE <1>12 DEF vars, state
    <2>1. OneCall' /\ MakingIsCurrent' /\ InsertedIsCurrent' /\ AboveStored'
      BY DEF ChainInv, OneCall, Active, MakingIsCurrent, InsertedIsCurrent, MaySign,
             Keyset, AboveStored, After
    <2>2. Chains' /\ OneWaits' /\ DownIsEmpty' /\ DiskIsCurrent' /\ ChainsCounted'
      BY DEF ChainInv, Chains, EndsIn, MaySign, OneWaits, DownIsEmpty, DiskIsCurrent, ChainsCounted
    <2>3. OneStoredBlockPerIndex' /\ StoredBlocksAreOnDisk' /\ EveryKeyWasAnnounced'
      BY DEF ChainInv, OneStoredBlockPerIndex, StoredBlocksAreOnDisk, After, EveryKeyWasAnnounced
    <2> QED
      BY <1>1, <2>1, <2>2, <2>3 DEF ChainInv
  <1> QED
    BY <1>2, <1>3, <1>4, <1>5, <1>6, <1>7, <1>8, <1>9, <1>10, <1>11, <1>12
       DEF Next, Progress

\* When the application waits for each call, the node's blocks stay linked: each
\* follows the one of its chain that its previous hash names.
THEOREM ChainLinked ==
  ASSUME Serial
  PROVE  Spec => []BlocksAreLinked
  <1>1. ChainInv => BlocksAreLinked
    BY DEF ChainInv, Chains, EndsIn, BlocksAreLinked
  <1> QED
    BY <1>1, ChainInit, ChainStep, PTL DEF Spec

\* The blocks it stores of one chain stand at different heights.  A restart that
\* fails to read the state file, and nothing else, begins another chain.
THEOREM OneBlockPerIndex ==
  ASSUME Serial
  PROVE  Spec => []OneStoredBlockPerIndex
  <1>1. ChainInv => OneStoredBlockPerIndex
    BY DEF ChainInv
  <1> QED
    BY <1>1, ChainInit, ChainStep, PTL DEF Spec

\* The state file is after every block it stored, or garbage: no restart that reads
\* the file brings the node back below one.
THEOREM ChainDurable ==
  ASSUME Serial
  PROVE  Spec => []StoredBlocksAreOnDisk
  <1>1. ChainInv => StoredBlocksAreOnDisk
    BY DEF ChainInv
  <1> QED
    BY <1>1, ChainInit, ChainStep, PTL DEF Spec

\* After a commit that did not fail, a restart that reads the file brings back the
\* chain, index and previous hash it has; before its first block the file is none
\* or one of an earlier chain that it could not read.
THEOREM DiskFollowsMemory ==
  ASSUME Serial
  PROVE  Spec => []DiskIsCurrent
  <1>1. ChainInv => DiskIsCurrent
    BY DEF ChainInv
  <1> QED
    BY <1>1, ChainInit, ChainStep, PTL DEF Spec

\* Its blocks carry no key the block before did not carry or announce.
THEOREM KeysAnnounced ==
  ASSUME Serial
  PROVE  Spec => []EveryKeyWasAnnounced
  <1>1. ChainInv => EveryKeyWasAnnounced
    BY DEF ChainInv
  <1> QED
    BY <1>1, ChainInit, ChainStep, PTL DEF Spec
=============================================================================
