--------------------------- MODULE BlockStoreProofs ---------------------------
(***************************************************************************)
(* That the block repository answers with what was put in, for any number  *)
(* of bound witnesses, old blocks and listeners, however many blocks a     *)
(* party bridges.                                                          *)
(***************************************************************************)
EXTENDS BlockStore, SequenceTheorems, FiniteSetTheorems, TLAPS

OldHashes == {Hash(OldBlock(b)) : b \in OldBlocks}

-----------------------------------------------------------------------------
(* Old blocks and the lists of them.                                       *)

\* A hash tells old blocks apart.
LEMMA OldBlockHash ==
  ASSUME NEW a \in OldBlocks, NEW b \in OldBlocks, Hash(OldBlock(a)) = Hash(OldBlock(b))
  PROVE  a = b
  <1>1. \A o \in OldBlocks : /\ 1 \in {j \in DOMAIN OldBlock(o) : OldBlock(o)[j].kind = "fetter"}
                             /\ OldBlock(o)[1].of = o
    BY DEF OldBlock, Item
  <1>2. \A o \in OldBlocks : Hash(OldBlock(o))[1].of = o
    BY <1>1 DEF Hash
  <1> QED
    BY <1>2

\* A party's list of blocks is a sequence without repetitions.
LEMMA BridgedIsSequence ==
  ASSUME NEW s \in Bridged
  PROVE  /\ s \in Seq(OldBlocks)
         /\ \A i, j \in DOMAIN s : s[i] = s[j] => i = j
  <1>1. PICK n \in 0..MaxBridged : s \in [1..n -> OldBlocks]
    BY DEF Bridged
  <1>2. n \in Nat
    BY BridgeAssumption
  <1> QED
    BY <1>1, <1>2, SeqDef DEF Bridged

\* Its hashes and its blocks are lists as long.
LEMMA HashesAndBlocks ==
  ASSUME NEW s \in Bridged
  PROVE  /\ DOMAIN HashesOf(s) = DOMAIN s
         /\ DOMAIN BlocksOf(s) = DOMAIN s
         /\ HashesOf(s) = <<>> <=> s = <<>>
         /\ BlocksOf(s) = <<>> <=> s = <<>>
         /\ \A i \in DOMAIN s : /\ s[i] \in OldBlocks
                                /\ HashesOf(s)[i] = Hash(OldBlock(s[i]))
                                /\ BlocksOf(s)[i] = OldBlock(s[i])
  <1>1. s \in Seq(OldBlocks) /\ DOMAIN s = 1..Len(s)
    BY BridgedIsSequence
  <1>2. \A i \in DOMAIN s : s[i] \in OldBlocks
    BY <1>1
  <1>3. HashesOf(s) \in Seq(OldHashes) /\ Len(HashesOf(s)) = Len(s)
    BY <1>1, <1>2, SeqDef, LenProperties DEF HashesOf, OldHashes
  <1>4. BlocksOf(s) \in Seq({OldBlock(b) : b \in OldBlocks}) /\ Len(BlocksOf(s)) = Len(s)
    BY <1>1, <1>2, SeqDef, LenProperties DEF BlocksOf
  <1>5. /\ HashesOf(s) = <<>> <=> s = <<>>
        /\ BlocksOf(s) = <<>> <=> s = <<>>
    BY <1>1, <1>3, <1>4, EmptySeq
  <1> QED
    BY <1>2, <1>5 DEF HashesOf, BlocksOf

-----------------------------------------------------------------------------
(* The block of two parties.                                               *)

\* Its four items.
LEMMA FourItems ==
  ASSUME NEW c, NEW s1, NEW s2,
         NEW whole, whole = TwoParties(c, s1, s2)
  PROVE  /\ DOMAIN whole = {1, 2, 3, 4}
         /\ whole[1].kind = "fetter" /\ whole[2].kind = "fetter"
         /\ whole[3].kind = "witness" /\ whole[4].kind = "witness"
         /\ whole[1].bridged = HashesOf(s1) /\ whole[2].bridged = HashesOf(s2)
         /\ whole[3].bridged = BlocksOf(s2) /\ whole[4].bridged = BlocksOf(s1)
         /\ \A i \in DOMAIN whole : "kind" \in DOMAIN whole[i]
  <1>1. whole = << Item("fetter", c, HashesOf(s1)), Item("fetter", c, HashesOf(s2)),
                   Item("witness", c, BlocksOf(s2)), Item("witness", c, BlocksOf(s1)) >>
    BY DEF TwoParties
  <1>2. ASSUME NEW k, NEW b PROVE /\ Item(k, c, b).kind = k
                                  /\ Item(k, c, b).bridged = b
                                  /\ "kind" \in DOMAIN Item(k, c, b)
    BY DEF Item
  <1> QED
    BY <1>1, <1>2

\* Without the blocks it bridges it has the hash that was signed.
LEMMA HashWithoutBridged ==
  ASSUME NEW c, NEW s1, NEW s2
  PROVE  Hash(RemoveBridgeBlocks(TwoParties(c, s1, s2))) = Hash(TwoParties(c, s1, s2))
  <1> DEFINE whole == TwoParties(c, s1, s2)
             bare == RemoveBridgeBlocks(whole)
  <1>1. \A i \in DOMAIN whole : "kind" \in DOMAIN whole[i]
    BY FourItems
  <1> HIDE DEF whole
  <1>2. DOMAIN bare = DOMAIN whole
    BY DEF RemoveBridgeBlocks
  <1>3. \A i \in DOMAIN whole : whole[i].kind = "fetter" => bare[i] = whole[i]
    BY DEF RemoveBridgeBlocks
  <1>4. \A i \in DOMAIN whole : bare[i].kind = whole[i].kind
    BY <1>1 DEF RemoveBridgeBlocks
  <1> HIDE DEF bare
  <1>5. {i \in DOMAIN bare : bare[i].kind = "fetter"} = {i \in DOMAIN whole : whole[i].kind = "fetter"}
    BY <1>2, <1>4
  <1>6. Hash(bare) = Hash(whole)
    BY <1>3, <1>5 DEF Hash
  <1> QED
    BY <1>6 DEF bare, whole

\* When one party bridges at most, the other's list is empty.
LEMMA OneListIsEmpty ==
  ASSUME NEW c, NEW s1 \in Bridged, NEW s2 \in Bridged, OneBridges(TwoParties(c, s1, s2))
  PROVE  s1 = <<>> \/ s2 = <<>>
  <1> DEFINE whole == TwoParties(c, s1, s2)
             bridging == {i \in DOMAIN whole : whole[i].kind = "fetter" /\ whole[i].bridged # <<>>}
  <1> SUFFICES ASSUME s1 # <<>>, s2 # <<>> PROVE FALSE
    OBVIOUS
  <1>1. bridging = {1, 2}
    <2>1. HashesOf(s1) # <<>> /\ HashesOf(s2) # <<>>
      BY HashesAndBlocks
    <2> QED
      BY <2>1, FourItems
  <1>2. Cardinality(bridging) <= 1
    BY DEF OneBridges
  <1>3. Cardinality({1, 2}) = 2
    <2>1. {1, 2} = 1..2
      OBVIOUS
    <2>2. 1 \in Int /\ 2 \in Int
      OBVIOUS
    <2>3. Cardinality(1..2) = IF 1 > 2 THEN 0 ELSE 2 - 1 + 1
      BY <2>2, FS_Interval, Zenon
    <2> QED
      BY <2>1, <2>3
  <1> HIDE DEF bridging
  <1> QED
    BY <1>1, <1>2, <1>3

\* What the inserter finds in it are the hashes of one list and the blocks of
\* one: the same, and every block there is, when one party bridges at most.
LEMMA Nested ==
  ASSUME NEW c, NEW s1 \in Bridged, NEW s2 \in Bridged
  PROVE  \E s, t \in {s1, s2} :
           /\ NestedObject(TwoParties(c, s1, s2), "fetter") = HashesOf(s)
           /\ NestedObject(TwoParties(c, s1, s2), "witness") = BlocksOf(t)
           /\ OneBridges(TwoParties(c, s1, s2)) =>
                s = t /\ (s1 = <<>> \/ s1 = s) /\ (s2 = <<>> \/ s2 = s)
  <1> DEFINE whole == TwoParties(c, s1, s2)
             with(kind) == {i \in DOMAIN whole : whole[i].kind = kind /\ whole[i].bridged # <<>>}
             first == IF s1 # <<>> THEN s1 ELSE s2
             second == IF s2 # <<>> THEN s2 ELSE s1
  <1>1. /\ HashesOf(s1) = <<>> <=> s1 = <<>>
        /\ HashesOf(s2) = <<>> <=> s2 = <<>>
        /\ BlocksOf(s1) = <<>> <=> s1 = <<>>
        /\ BlocksOf(s2) = <<>> <=> s2 = <<>>
    BY HashesAndBlocks
  <1>2. /\ DOMAIN whole = {1, 2, 3, 4}
        /\ whole[1].kind = "fetter" /\ whole[2].kind = "fetter"
        /\ whole[3].kind = "witness" /\ whole[4].kind = "witness"
        /\ whole[1].bridged = HashesOf(s1) /\ whole[2].bridged = HashesOf(s2)
        /\ whole[3].bridged = BlocksOf(s2) /\ whole[4].bridged = BlocksOf(s1)
    BY FourItems
  <1>3. NestedObject(whole, "fetter") = HashesOf(first)
    <2>1. CASE s1 # <<>>
      <3>1. 1 \in with("fetter") /\ with("fetter") \subseteq {1, 2}
        BY <1>1, <1>2, <2>1
      <3>2. Min(with("fetter")) = 1
        BY <3>1 DEF Min
      <3> QED
        BY <1>2, <2>1, <3>1, <3>2 DEF NestedObject
    <2>2. CASE s1 = <<>> /\ s2 # <<>>
      <3>1. with("fetter") = {2}
        BY <1>1, <1>2, <2>2
      <3>2. Min({2}) = 2
        BY DEF Min
      <3> QED
        BY <1>2, <2>2, <3>1, <3>2, Zenon DEF NestedObject
    <2>3. CASE s1 = <<>> /\ s2 = <<>>
      <3>1. with("fetter") = {}
        BY <1>1, <1>2, <2>3
      <3> QED
        BY <1>1, <2>3, <3>1 DEF NestedObject
    <2> QED
      BY <2>1, <2>2, <2>3
  <1>4. NestedObject(whole, "witness") = BlocksOf(second)
    <2>1. CASE s2 # <<>>
      <3>1. 3 \in with("witness") /\ with("witness") \subseteq {3, 4}
        BY <1>1, <1>2, <2>1
      <3>2. Min(with("witness")) = 3
        BY <3>1 DEF Min
      <3> QED
        BY <1>2, <2>1, <3>1, <3>2 DEF NestedObject
    <2>2. CASE s2 = <<>> /\ s1 # <<>>
      <3>1. with("witness") = {4}
        BY <1>1, <1>2, <2>2
      <3>2. Min({4}) = 4
        BY DEF Min
      <3> QED
        BY <1>2, <2>2, <3>1, <3>2 DEF NestedObject
    <2>3. CASE s1 = <<>> /\ s2 = <<>>
      <3>1. with("witness") = {}
        BY <1>1, <1>2, <2>3
      <3> QED
        BY <1>1, <2>3, <3>1 DEF NestedObject
    <2> QED
      BY <2>1, <2>2, <2>3
  <1>5. OneBridges(whole) => first = second
    BY OneListIsEmpty
  <1>6. OneBridges(whole) => (s1 = <<>> \/ s1 = first) /\ (s2 = <<>> \/ s2 = first)
    BY OneListIsEmpty
  <1> HIDE DEF whole
  <1>7. \E s, t \in {s1, s2} : /\ NestedObject(whole, "fetter") = HashesOf(s)
                               /\ NestedObject(whole, "witness") = BlocksOf(t)
                               /\ OneBridges(whole) => s = t /\ (s1 = <<>> \/ s1 = s) /\ (s2 = <<>> \/ s2 = s)
    BY <1>3, <1>4, <1>5, <1>6
  <1> QED
    BY <1>7 DEF whole
-----------------------------------------------------------------------------
(* The repository's map.                                                   *)

\* What a map has after a list of items was put under a list of hashes.
LEMMA PutAllMap ==
  ASSUME NEW map, NEW hashes, NEW items,
         NEW both, both = DOMAIN hashes \cap DOMAIN items,
         NEW after, after = AddOriginBlocks(map, hashes, items)
  PROVE  /\ DOMAIN after = DOMAIN map \cup {hashes[i] : i \in both}
         /\ \A h \in DOMAIN after : (\A i \in both : hashes[i] # h) => after[h] = map[h]
         /\ \A i \in both : i \in Int /\ (\A j \in both : hashes[j] = hashes[i] => j = i) =>
                after[hashes[i]] = items[i]
  <1> DEFINE puts(h) == {i \in both : hashes[i] = h}
  <1>1. after = [h \in DOMAIN map \cup {hashes[i] : i \in both} |->
                   IF puts(h) = {} THEN map[h] ELSE items[Max(puts(h))]]
    BY DEF AddOriginBlocks, PutAll
  <1>2. ASSUME NEW i \in both, i \in Int, \A j \in both : hashes[j] = hashes[i] => j = i
        PROVE  after[hashes[i]] = items[i]
    <2>1. puts(hashes[i]) = {i}
      BY <1>2
    <2>2. Max({i}) = i
      BY <1>2 DEF Max
    <2> QED
      BY <1>1, <2>1, <2>2
  <1>3. DOMAIN after = DOMAIN map \cup {hashes[i] : i \in both}
    BY <1>1
  <1>4. ASSUME NEW h \in DOMAIN after, \A i \in both : hashes[i] # h
        PROVE  after[h] = map[h]
    <2>1. puts(h) = {}
      BY <1>4
    <2> QED
      BY <1>1, <1>3, <2>1
  <1> QED
    BY <1>2, <1>3, <1>4

\* What the map has after the whole block was inserted: its hashes are the block's,
\* a bridged one and those it had, and when one party bridges at most, every block
\* there is has its hash and every bridged one is there.
Extends(after, map, whole) ==
  /\ DOMAIN map \cup {Hash(whole)} \subseteq DOMAIN after
  /\ DOMAIN after \subseteq DOMAIN map \cup {Hash(whole)} \cup OldHashes
  /\ OneBridges(whole) /\ (\A h \in DOMAIN map : Hash(map[h]) = h) =>
       \A h \in DOMAIN after : Hash(after[h]) = h
  /\ OneBridges(whole) =>
       \A i \in DOMAIN whole : whole[i].kind = "witness" =>
         \A j \in DOMAIN whole[i].bridged : Hash(whole[i].bridged[j]) \in DOMAIN after

LEMMA Stores ==
  ASSUME NEW c, NEW s1 \in Bridged, NEW s2 \in Bridged,
         NEW whole, whole = TwoParties(c, s1, s2),
         NEW map, NEW after,
         after = AddOriginBlocks(With(map, Hash(whole), RemoveBridgeBlocks(whole)),
                                 NestedObject(whole, "fetter"), NestedObject(whole, "witness"))
  PROVE  Extends(after, map, whole)
  <1> DEFINE first == With(map, Hash(whole), RemoveBridgeBlocks(whole))
  <1>1. PICK s, t \in {s1, s2} :
          /\ NestedObject(whole, "fetter") = HashesOf(s)
          /\ NestedObject(whole, "witness") = BlocksOf(t)
          /\ OneBridges(whole) => s = t /\ (s1 = <<>> \/ s1 = s) /\ (s2 = <<>> \/ s2 = s)
    BY Nested
  <1> DEFINE both == DOMAIN HashesOf(s) \cap DOMAIN BlocksOf(t)
  <1>2. s \in Bridged /\ t \in Bridged
    OBVIOUS
  <1>3. /\ both = DOMAIN s \cap DOMAIN t
        /\ both \subseteq Int
        /\ \A i \in both : /\ s[i] \in OldBlocks
                           /\ HashesOf(s)[i] = Hash(OldBlock(s[i]))
                           /\ BlocksOf(t)[i] = OldBlock(t[i])
    BY <1>2, HashesAndBlocks, BridgedIsSequence
  <1>4. \A i, j \in both : HashesOf(s)[i] = HashesOf(s)[j] => i = j
    BY <1>2, <1>3, OldBlockHash, BridgedIsSequence
  <1>5. /\ DOMAIN first = DOMAIN map \cup {Hash(whole)}
        /\ first[Hash(whole)] = RemoveBridgeBlocks(whole)
        /\ \A h \in DOMAIN map : h # Hash(whole) => first[h] = map[h]
    BY DEF With
  <1> HIDE DEF first
  <1>6. after = AddOriginBlocks(first, HashesOf(s), BlocksOf(t))
    BY <1>1 DEF first
  <1>7. both = DOMAIN HashesOf(s) \cap DOMAIN BlocksOf(t)
    OBVIOUS
  <1> HIDE DEF both
  <1>8. /\ DOMAIN after = DOMAIN first \cup {HashesOf(s)[i] : i \in both}
        /\ \A h \in DOMAIN after : (\A i \in both : HashesOf(s)[i] # h) => after[h] = first[h]
        /\ \A i \in both : after[HashesOf(s)[i]] = BlocksOf(t)[i]
    BY <1>3, <1>4, <1>6, <1>7, PutAllMap
  <1>9. DOMAIN after \subseteq DOMAIN map \cup {Hash(whole)} \cup OldHashes
    BY <1>3, <1>5, <1>8 DEF OldHashes
  <1>10. ASSUME OneBridges(whole), \A h \in DOMAIN map : Hash(map[h]) = h, NEW h \in DOMAIN after
        PROVE  Hash(after[h]) = h
    <2>1. CASE \E i \in both : HashesOf(s)[i] = h
      BY <1>1, <1>3, <1>8, <1>10, <2>1
    <2>2. CASE \A i \in both : HashesOf(s)[i] # h
      <3>1. after[h] = first[h] /\ h \in DOMAIN first
        BY <1>8, <2>2
      <3>2. Hash(RemoveBridgeBlocks(whole)) = Hash(whole)
        BY HashWithoutBridged
      <3> QED
        BY <1>5, <1>10, <3>1, <3>2
    <2> QED
      BY <2>1, <2>2
  <1>11. ASSUME OneBridges(whole),
                NEW i \in DOMAIN whole, whole[i].kind = "witness", NEW j \in DOMAIN whole[i].bridged
         PROVE  Hash(whole[i].bridged[j]) \in DOMAIN after
    <2>1. whole[i].bridged = BlocksOf(s1) \/ whole[i].bridged = BlocksOf(s2)
      BY <1>11, FourItems
    <2>2. PICK r \in {s1, s2} : whole[i].bridged = BlocksOf(r)
      BY <2>1
    <2>3. /\ DOMAIN BlocksOf(r) = DOMAIN r
          /\ BlocksOf(r)[j] = OldBlock(r[j])
      BY <2>2, HashesAndBlocks
    <2>4. r # <<>>
      BY <2>2, <2>3
    <2>5. r = s /\ t = s
      BY <1>1, <1>11, <2>4
    <2>6. j \in both /\ HashesOf(s)[j] = Hash(OldBlock(r[j]))
      BY <1>3, <2>2, <2>3, <2>5
    <2> QED
      BY <1>8, <2>2, <2>3, <2>6
  <1> QED
    BY <1>5, <1>8, <1>9, <1>10, <1>11 DEF Extends

-----------------------------------------------------------------------------
(* The inductive invariant.                                                *)

\* A call has its block from when it is inserted on, and keeps it.
Written ==
  /\ DOMAIN ledger = Calls
  /\ \A c \in Calls :
       IF phase[c] = "idle" THEN ledger[c] = <<>>
       ELSE \E s1, s2 \in Bridged : ledger[c] = TwoParties(c, s1, s2)

\* Every hash the repository had is an old block's or that of a call's block.
Known ==
  \A h \in DOMAIN blocks \cup removed :
    h \in OldHashes \/ \E c \in Calls : phase[c] # "idle" /\ h = Hash(ledger[c])

\* Whoever heard of a block heard of it after it was stored.
HeardLate ==
  \A k \in Listeners, c \in Calls : <<k, c>> \in heard =>
    phase[c] # "idle" /\ Stored(Hash(ledger[c]))

Typed ==
  /\ phase \in [Calls -> {"idle", "committing", "inserted", "rejected"}]
  /\ listeners \in Seq(Listeners)
  /\ heard \subseteq Listeners \X Calls

IInv == Typed /\ Written /\ Known /\ HeardLate /\ StoredUnderOwnHash /\ BridgedBlocksAreKept

LEMMA InvariantInit == Init => IInv
  <1> SUFFICES ASSUME Init PROVE IInv
    OBVIOUS
  <1> USE DEF Init
  <1>1. Typed
    <2>1. <<>> \in Seq(Listeners)
      BY EmptySeq
    <2> QED
      BY <2>1 DEF Typed
  <1>2. Written
    BY DEF Written
  <1>3. DOMAIN blocks = {}
    OBVIOUS
  <1>4. Known /\ HeardLate
    BY <1>3 DEF Known, HeardLate
  <1>5. StoredUnderOwnHash
    BY <1>3 DEF StoredUnderOwnHash
  <1>6. BridgedBlocksAreKept
    BY DEF BridgedBlocksAreKept
  <1> QED
    BY <1>1, <1>2, <1>4, <1>5, <1>6 DEF IInv

\* A commit that fails moves the call on and nothing else.
LEMMA CommitFailsStep ==
  ASSUME IInv, NEW c \in Calls, CommitFails(c)
  PROVE  IInv'
  <1>1. /\ phase[c] = "committing"
        /\ phase' = [phase EXCEPT ![c] = "rejected"]
        /\ UNCHANGED <<ledger, blocks, removed, listeners, heard>>
    BY DEF CommitFails
  <1>2. /\ phase \in [Calls -> {"idle", "committing", "inserted", "rejected"}]
        /\ phase'[c] = "rejected"
        /\ \A d \in Calls : d # c => phase'[d] = phase[d]
    BY <1>1 DEF IInv, Typed
  <1>3. Typed'
    BY <1>1 DEF IInv, Typed
  <1>4. Written'
    BY <1>1, <1>2 DEF IInv, Written
  <1>5. Known' /\ HeardLate'
    BY <1>1, <1>2 DEF IInv, Known, HeardLate, Stored
  <1>6. StoredUnderOwnHash'
    BY <1>1 DEF IInv, StoredUnderOwnHash
  <1>7. BridgedBlocksAreKept'
    BY <1>1, <1>2 DEF IInv, BridgedBlocksAreKept, Stored
  <1> QED
    BY <1>3, <1>4, <1>5, <1>6, <1>7 DEF IInv

\* An idle call's block is empty, so OneBridges held of it before.
LEMMA EmptyBridges == OneBridges(<<>>)
  <1>1. {i \in DOMAIN <<>> : <<>>[i].kind = "fetter" /\ <<>>[i].bridged # <<>>} = {}
    OBVIOUS
  <1> QED
    BY <1>1, FS_EmptySet DEF OneBridges

\* A block comes in: it was empty before, and its hash is not stored yet.
LEMMA InsertStep ==
  ASSUME IInv, NEW c \in Calls, Insert(c)
  PROVE  IInv'
  <1>1. /\ phase[c] = "idle"
        /\ phase' = [phase EXCEPT ![c] = "committing"]
        /\ UNCHANGED <<blocks, removed, listeners, heard>>
    BY DEF Insert
  <1>2. PICK s1, s2 \in Bridged : ledger' = [ledger EXCEPT ![c] = TwoParties(c, s1, s2)]
    BY DEF Insert
  <1>3. /\ phase \in [Calls -> {"idle", "committing", "inserted", "rejected"}]
        /\ phase'[c] = "committing"
        /\ \A d \in Calls : d # c => phase'[d] = phase[d]
    BY <1>1 DEF IInv, Typed
  <1>4. /\ DOMAIN ledger' = Calls
        /\ ledger[c] = <<>> /\ ledger'[c] = TwoParties(c, s1, s2)
        /\ \A d \in Calls : d # c => ledger'[d] = ledger[d]
    BY <1>1, <1>2 DEF IInv, Written
  <1>5. Typed'
    BY <1>1 DEF IInv, Typed
  <1>6. Written'
    BY <1>3, <1>4 DEF IInv, Written
  <1>7. Known'
    BY <1>1, <1>3, <1>4 DEF IInv, Known
  <1>8. HeardLate'
    BY <1>1, <1>3, <1>4 DEF IInv, HeardLate, Stored
  <1>9. StoredUnderOwnHash'
    <2>1. (\A d \in Calls : OneBridges(ledger'[d])) => \A d \in Calls : OneBridges(ledger[d])
      BY <1>4, EmptyBridges
    <2> QED
      BY <1>1, <2>1 DEF IInv, StoredUnderOwnHash
  <1>10. BridgedBlocksAreKept'
    BY <1>1, <1>3, <1>4 DEF IInv, BridgedBlocksAreKept, Stored
  <1> QED
    BY <1>5, <1>6, <1>7, <1>8, <1>9, <1>10 DEF IInv

\* The repository grows, so that nothing stored is lost, and whoever hears of the
\* block hears of a hash that is there.
LEMMA InsertedStep ==
  ASSUME IInv, NEW c \in Calls, Inserted(c)
  PROVE  IInv'
  <1>1. /\ phase[c] = "committing"
        /\ UNCHANGED <<ledger, removed, listeners>>
    BY DEF Inserted
  <1>2. PICK called \in 0..Len(listeners), outcome \in {"inserted", "rejected"} :
          /\ heard' = heard \cup {<<listeners[i], c>> : i \in 1..called}
          /\ phase' = [phase EXCEPT ![c] = outcome]
    BY DEF Inserted
  <1>3. PICK s1, s2 \in Bridged : ledger[c] = TwoParties(c, s1, s2)
    BY <1>1 DEF IInv, Written
  <1>4. /\ phase \in [Calls -> {"idle", "committing", "inserted", "rejected"}]
        /\ phase'[c] \in {"inserted", "rejected"}
        /\ \A d \in Calls : d # c => phase'[d] = phase[d]
        /\ \A d \in Calls : phase[d] # "idle" => phase'[d] # "idle"
    BY <1>1, <1>2 DEF IInv, Typed
  <1>5. blocks' = AddOriginBlocks(With(blocks, Hash(ledger[c]), RemoveBridgeBlocks(ledger[c])),
                    NestedObject(ledger[c], "fetter"), NestedObject(ledger[c], "witness"))
    BY DEF Inserted
  <1>6. /\ DOMAIN blocks \cup {Hash(ledger[c])} \subseteq DOMAIN blocks'
        /\ DOMAIN blocks' \subseteq DOMAIN blocks \cup {Hash(ledger[c])} \cup OldHashes
        /\ OneBridges(ledger[c]) /\ (\A h \in DOMAIN blocks : Hash(blocks[h]) = h) =>
             \A h \in DOMAIN blocks' : Hash(blocks'[h]) = h
        /\ OneBridges(ledger[c]) =>
             \A i \in DOMAIN ledger[c] : ledger[c][i].kind = "witness" =>
               \A j \in DOMAIN ledger[c][i].bridged :
                 Hash(ledger[c][i].bridged[j]) \in DOMAIN blocks'
    <2>1. Extends(blocks', blocks, ledger[c])
      BY <1>3, <1>5, Stores, Zenon
    <2> QED
      BY <2>1 DEF Extends
  <1>7. \A h : Stored(h) => Stored(h)'
    BY <1>1, <1>6 DEF Stored
  <1>8. Typed'
    <2>1. \A i \in 1..called : listeners[i] \in Listeners
      BY DEF IInv, Typed
    <2>2. heard' \subseteq Listeners \X Calls
      BY <1>2, <2>1 DEF IInv, Typed
    <2> QED
      BY <1>1, <1>2, <2>2 DEF IInv, Typed
  <1>9. Written'
    BY <1>1, <1>4 DEF IInv, Written
  <1>10. Known'
    BY <1>1, <1>4, <1>6 DEF IInv, Known
  <1>11. HeardLate'
    <2> SUFFICES ASSUME NEW k \in Listeners, NEW d \in Calls, <<k, d>> \in heard'
                 PROVE  phase'[d] # "idle" /\ Stored(Hash(ledger[d]))'
      BY <1>1 DEF HeardLate
    <2>1. CASE <<k, d>> \in heard
      BY <1>1, <1>4, <1>7, <2>1 DEF IInv, HeardLate
    <2>2. CASE <<k, d>> \notin heard
      <3>1. d = c
        BY <1>2, <2>2
      <3> QED
        BY <1>1, <1>4, <1>6, <3>1 DEF Stored
    <2> QED
      BY <2>1, <2>2
  <1>12. StoredUnderOwnHash'
    BY <1>1, <1>6 DEF IInv, StoredUnderOwnHash
  <1>13. BridgedBlocksAreKept'
    <2> SUFFICES ASSUME NEW d \in Calls, phase'[d] = "inserted", OneBridges(ledger[d]),
                        NEW i \in DOMAIN ledger[d], ledger[d][i].kind = "witness",
                        NEW j \in DOMAIN ledger[d][i].bridged
                 PROVE  Stored(Hash(ledger[d][i].bridged[j]))'
      BY <1>1 DEF BridgedBlocksAreKept
    <2>1. CASE d = c
      BY <1>1, <1>6, <2>1 DEF Stored
    <2>2. CASE d # c
      <3>1. Stored(Hash(ledger[d][i].bridged[j]))
        BY <1>4, <2>2 DEF IInv, BridgedBlocksAreKept
      <3> QED
        BY <1>1, <1>7, <3>1
    <2> QED
      BY <2>1, <2>2
  <1> QED
    BY <1>8, <1>9, <1>10, <1>11, <1>12, <1>13 DEF IInv

\* Listeners come and go.
LEMMA ListenersStep ==
  ASSUME IInv, NEW k \in Listeners, AddBlockListener(k) \/ RemoveBlockListener(k)
  PROVE  IInv'
  <1>1. UNCHANGED <<phase, ledger, blocks, removed, heard>>
    BY DEF AddBlockListener, RemoveBlockListener
  <1>2. listeners' \in Seq(Listeners)
    <2>1. listeners \in Seq(Listeners)
      BY DEF IInv, Typed
    <2>2. CASE AddBlockListener(k)
      BY <2>1, <2>2, AppendProperties DEF AddBlockListener
    <2>3. CASE RemoveBlockListener(k)
      <3>1. PICK i \in DOMAIN listeners : listeners' = RemoveAt(listeners, i)
        BY <2>3 DEF RemoveBlockListener
      <3>2. i \in 1..Len(listeners) /\ Len(listeners) \in Nat
        BY <2>1, LenProperties
      <3>3. /\ SubSeq(listeners, 1, i - 1) \in Seq(Listeners)
            /\ SubSeq(listeners, i + 1, Len(listeners)) \in Seq(Listeners)
        BY <2>1, <3>2, SubSeqProperties
      <3> QED
        BY <3>1, <3>3, ConcatProperties DEF RemoveAt
    <2> QED
      BY <2>2, <2>3
  <1>3. Typed'
    BY <1>1, <1>2 DEF IInv, Typed
  <1>4. Written' /\ Known' /\ HeardLate'
    BY <1>1 DEF IInv, Written, Known, HeardLate, Stored
  <1>5. StoredUnderOwnHash' /\ BridgedBlocksAreKept'
    BY <1>1 DEF IInv, StoredUnderOwnHash, BridgedBlocksAreKept, Stored
  <1> QED
    BY <1>3, <1>4, <1>5 DEF IInv

\* A removed hash stays among those the repository had.
LEMMA RemoveOriginBlockStep ==
  ASSUME IInv, NEW h \in DOMAIN blocks, RemoveOriginBlock(h)
  PROVE  IInv'
  <1>1. UNCHANGED <<phase, ledger, listeners, heard>>
    BY DEF RemoveOriginBlock
  <1>2. /\ DOMAIN blocks' = DOMAIN blocks \ {h}
        /\ removed' = removed \cup {h}
        /\ \A g \in DOMAIN blocks' : blocks'[g] = blocks[g]
    BY DEF RemoveOriginBlock
  <1>3. \A g : Stored(g) => Stored(g)'
    BY <1>2 DEF Stored
  <1>4. Typed' /\ Written'
    BY <1>1 DEF IInv, Typed, Written
  <1>5. Known'
    BY <1>1, <1>2 DEF IInv, Known
  <1>6. HeardLate'
    BY <1>1, <1>3 DEF IInv, HeardLate
  <1>7. StoredUnderOwnHash'
    BY <1>1, <1>2 DEF IInv, StoredUnderOwnHash
  <1>8. BridgedBlocksAreKept'
    BY <1>1, <1>3 DEF IInv, BridgedBlocksAreKept
  <1> QED
    BY <1>4, <1>5, <1>6, <1>7, <1>8 DEF IInv

\* No step breaks it.
LEMMA InvariantStep == IInv /\ [Next]_vars => IInv'
  <1> SUFFICES ASSUME IInv, [Next]_vars PROVE IInv'
    OBVIOUS
  <1>1. ASSUME NEW c \in Calls, Insert(c) \/ CommitFails(c) \/ Inserted(c) PROVE IInv'
    BY <1>1, InsertStep, CommitFailsStep, InsertedStep
  <1>2. ASSUME NEW k \in Listeners, AddBlockListener(k) \/ RemoveBlockListener(k) PROVE IInv'
    BY <1>2, ListenersStep
  <1>3. ASSUME NEW h \in DOMAIN blocks, RemoveOriginBlock(h) PROVE IInv'
    BY <1>3, RemoveOriginBlockStep
  <1>4. CASE UNCHANGED vars
    <2> USE <1>4 DEF vars
    <2>1. Typed' /\ Written'
      BY DEF IInv, Typed, Written
    <2>2. Known' /\ HeardLate'
      BY DEF IInv, Known, HeardLate, Stored
    <2>3. StoredUnderOwnHash' /\ BridgedBlocksAreKept'
      BY DEF IInv, StoredUnderOwnHash, BridgedBlocksAreKept, Stored
    <2> QED
      BY <2>1, <2>2, <2>3 DEF IInv
  <1> QED
    BY <1>1, <1>2, <1>3, <1>4 DEF Next

-----------------------------------------------------------------------------
(* The theorems.                                                           *)

\* The conjunction holds in every state.
THEOREM StoreInvariant == Spec => []IInv
  BY InvariantInit, InvariantStep, PTL DEF Spec

\* The variables keep their types: the repository never has a hash that is
\* neither of a block this node took part in nor of one a party bridged.
THEOREM StoreTypeOK == Spec => []TypeOK
  <1>1. IInv => TypeOK
    BY DEF IInv, Typed, Known, TypeOK, Hashes, OldHashes
  <1> QED
    BY <1>1, StoreInvariant, PTL

\* A listener hears only of blocks that were stored before.
THEOREM StoreHeardIsStored == Spec => []HeardIsStored
  <1>1. IInv => HeardIsStored
    BY DEF IInv, HeardLate, HeardIsStored
  <1> QED
    BY <1>1, StoreInvariant, PTL

\* Unless both parties of some block bridge, the repository has every block under
\* the hash its signers signed.
THEOREM StoreUnderOwnHash == Spec => []StoredUnderOwnHash
  <1>1. IInv => StoredUnderOwnHash
    BY DEF IInv
  <1> QED
    BY <1>1, StoreInvariant, PTL

\* Every block bridged in an inserted block of which one party bridges is in the
\* repository until it is removed.
THEOREM StoreKeepsBridged == Spec => []BridgedBlocksAreKept
  <1>1. IInv => BridgedBlocksAreKept
    BY DEF IInv
  <1> QED
    BY <1>1, StoreInvariant, PTL
=============================================================================
