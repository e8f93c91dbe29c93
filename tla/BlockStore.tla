------------------------------ MODULE BlockStore ------------------------------
(***************************************************************************)
(* What XyoBoundWitnessInserter does with the blocks themselves: the new   *)
(* block goes to XyoMemoryBlockRepository without the blocks it bridges,   *)
(* these go there under the hashes the fetters announced, and the block    *)
(* listeners are told.  The state and its commit are OriginNode's; here a  *)
(* commit succeeds or fails.                                               *)
(*                                                                         *)
(* A party bridges old blocks by putting their hashes in its fetter and,   *)
(* in the same order, the blocks in its witness.                           *)
(***************************************************************************)
EXTENDS Integers, Sequences, FiniteSets, SequencesExt

CONSTANTS Calls,        \* the bound witnesses this node takes part in
          OldBlocks,    \* blocks the parties may bridge
          Listeners,    \* keys of block listeners
          MaxBridged    \* bound on the blocks one party bridges

ASSUME BridgeAssumption == MaxBridged \in Nat

VARIABLES
  phase,      \* "idle", "committing", "inserted" or "rejected", for each call
  ledger,     \* the block of each call
  blocks,     \* blockMapping of the repository
  removed,    \* hashes removeOriginBlock was called with
  listeners,  \* blockListeners in the order they were added
  heard       \* the <<listener, call>> pairs called

vars == <<phase, ledger, blocks, removed, listeners, heard>>

Item(kind, of, bridged) == [kind |-> kind, of |-> of, bridged |-> bridged]

\* The hash covers the signing data, the fetters, which come first.
Hash(items) == [i \in {j \in DOMAIN items : items[j].kind = "fetter"} |-> items[i]]

OldBlock(b) == <<Item("fetter", b, <<>>), Item("witness", b, <<>>)>>
HashesOf(s) == [i \in DOMAIN s |-> Hash(OldBlock(s[i]))]
BlocksOf(s) == [i \in DOMAIN s |-> OldBlock(s[i])]

\* A block of two parties, the second's witness first.
TwoParties(c, s1, s2) ==
  << Item("fetter", c, HashesOf(s1)), Item("fetter", c, HashesOf(s2)),
     Item("witness", c, BlocksOf(s2)), Item("witness", c, BlocksOf(s1)) >>

Bridged == {s \in UNION {[1..n -> OldBlocks] : n \in 0..MaxBridged} :
              \A i, j \in DOMAIN s : s[i] = s[j] => i = j}

Init ==
  /\ phase = [c \in Calls |-> "idle"]
  /\ ledger = [c \in Calls |-> <<>>]
  /\ blocks = [h \in {} |-> <<>>]
  /\ removed = {} /\ listeners = <<>> /\ heard = {}

-----------------------------------------------------------------------------
(* Reading the block.                                                      *)

\* getNestedObjectType: the set of the first item that has one.
NestedObject(items, kind) ==
  LET with == {i \in DOMAIN items : items[i].kind = kind /\ items[i].bridged # <<>>}
  IN  IF with = {} THEN <<>> ELSE items[Min(with)].bridged

\* removeBridgeBlocks: witnesses without their blocks, the rest as it is.
RemoveBridgeBlocks(items) ==
  [i \in DOMAIN items |-> IF items[i].kind = "witness"
                          THEN [items[i] EXCEPT !.bridged = <<>>] ELSE items[i]]

-----------------------------------------------------------------------------
(* The repository.                                                         *)

With(map, h, b) == [k \in DOMAIN map \cup {h} |-> IF k = h THEN b ELSE map[k]]

\* The map after items[i] was put under hashes[i] for i = 1, 2, ... until either
\* list ends: the last of equal hashes has its say.
PutAll(map, hashes, items) ==
  LET puts(h) == {i \in DOMAIN hashes \cap DOMAIN items : hashes[i] = h}
  IN  [h \in DOMAIN map \cup {hashes[i] : i \in DOMAIN hashes \cap DOMAIN items} |->
         IF puts(h) = {} THEN map[h] ELSE items[Max(puts(h))]]

\* Mutants: the lists are walked from opposite ends; they are swapped; the last
\* block is left out.
AddReversed(map, hashes, items) == PutAll(map, Reverse(hashes), items)
AddSwapped(map, hashes, items) == PutAll(map, items, hashes)
AddButLast(map, hashes, items) == PutAll(map, SubSeq(hashes, 1, Len(hashes) - 1), items)

\* addOriginBlocks: block by block, until there are no hashes or no blocks left.
AddOriginBlocks(map, hashes, items) == PutAll(map, hashes, items)

RemoveOriginBlock(h) ==
  /\ h \in DOMAIN blocks
  /\ blocks' = [k \in DOMAIN blocks \ {h} |-> blocks[k]]
  /\ removed' = removed \cup {h}
  /\ UNCHANGED <<phase, ledger, listeners, heard>>

-----------------------------------------------------------------------------
(* Inserting.                                                              *)

\* insert up to the commit it awaits.
Insert(c) ==
  /\ phase[c] = "idle"
  /\ phase' = [phase EXCEPT ![c] = "committing"]
  /\ \E s1, s2 \in Bridged : ledger' = [ledger EXCEPT ![c] = TwoParties(c, s1, s2)]
  /\ UNCHANGED <<blocks, removed, listeners, heard>>

\* Mutant: the listeners are called whether or not the commit went through.
CommitFailsAloud(c) ==
  /\ phase[c] = "committing"
  /\ phase' = [phase EXCEPT ![c] = "rejected"]
  /\ heard' = heard \cup {<<listeners[i], c>> : i \in DOMAIN listeners}
  /\ UNCHANGED <<ledger, blocks, removed, listeners>>

CommitFails(c) ==
  /\ phase[c] = "committing"
  /\ phase' = [phase EXCEPT ![c] = "rejected"]
  /\ UNCHANGED <<ledger, blocks, removed, listeners, heard>>

\* The blocks are added and the listeners called in order; one that throws is
\* the last to hear, and makes insert reject.
Inserted(c) ==
  /\ phase[c] = "committing"
  /\ blocks' = AddOriginBlocks(
                 With(blocks, Hash(ledger[c]), RemoveBridgeBlocks(ledger[c])),
                 NestedObject(ledger[c], "fetter"), NestedObject(ledger[c], "witness"))
  /\ \E called \in 0..Len(listeners), outcome \in {"inserted", "rejected"} :
       /\ outcome = "inserted" => called = Len(listeners)
       /\ outcome = "rejected" => called > 0
       /\ heard' = heard \cup {<<listeners[i], c>> : i \in 1..called}
       /\ phase' = [phase EXCEPT ![c] = outcome]
  /\ UNCHANGED <<ledger, removed, listeners>>

AddBlockListener(k) ==
  /\ ~Contains(listeners, k)
  /\ listeners' = Append(listeners, k)
  /\ UNCHANGED <<phase, ledger, blocks, removed, heard>>

RemoveBlockListener(k) ==
  /\ \E i \in DOMAIN listeners :
       /\ listeners[i] = k
       /\ listeners' = RemoveAt(listeners, i)
  /\ UNCHANGED <<phase, ledger, blocks, removed, heard>>

Next ==
  \/ \E c \in Calls : Insert(c) \/ CommitFails(c) \/ Inserted(c)
  \/ \E k \in Listeners : AddBlockListener(k) \/ RemoveBlockListener(k)
  \/ \E h \in DOMAIN blocks : RemoveOriginBlock(h)

Spec == Init /\ [][Next]_vars

-----------------------------------------------------------------------------
(* Properties.                                                             *)

Hashes == {Hash(ledger[c]) : c \in Calls} \cup {Hash(OldBlock(b)) : b \in OldBlocks}
Stored(h) == h \in DOMAIN blocks \/ h \in removed

TypeOK ==
  /\ phase \in [Calls -> {"idle", "committing", "inserted", "rejected"}]
  /\ DOMAIN blocks \cup removed \subseteq Hashes
  /\ listeners \in Seq(Listeners)
  /\ heard \subseteq Listeners \X Calls

\* At most one party of a block bridges.
OneBridges(items) == Cardinality({i \in DOMAIN items :
                                   items[i].kind = "fetter" /\ items[i].bridged # <<>>}) <= 1

\* Unless both parties of some block bridge, whoever asks the repository for a
\* hash gets the block that has it: the lists of hashes and blocks stay in step,
\* and a block without the blocks it bridged has the hash its signers signed.
StoredUnderOwnHash ==
  (\A c \in Calls : OneBridges(ledger[c])) => \A h \in DOMAIN blocks : Hash(blocks[h]) = h

\* The repository has every block bridged in an inserted block of which one party
\* bridges, until it is removed.
BridgedBlocksAreKept ==
  \A c \in Calls : phase[c] = "inserted" /\ OneBridges(ledger[c]) =>
    \A i \in DOMAIN ledger[c] : ledger[c][i].kind = "witness" =>
      \A j \in DOMAIN ledger[c][i].bridged : Stored(Hash(ledger[c][i].bridged[j]))

\* A listener hears only of blocks that were stored, whether or not insert then
\* rejects.
HeardIsStored == \A k \in Listeners, c \in Calls : <<k, c>> \in heard => Stored(Hash(ledger[c]))
=============================================================================
