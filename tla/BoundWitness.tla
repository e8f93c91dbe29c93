---------------------------- MODULE BoundWitness ----------------------------
(***************************************************************************)
(* The bound witness ledger: the pure part of XyoBoundWitness and          *)
(* XyoZigZagBoundWitness.                                                  *)
(*                                                                         *)
(* A ledger is the sequence of items of the BW structure.  A fetter holds  *)
(* a party's public keys (its heuristics are abstracted away); a witness   *)
(* holds one signature per signer.  A signature is represented by the key  *)
(* it was made with and, for the whole witness, by the items it covers.    *)
(* The code numbers parties from 0, the module from 1.                     *)
(*                                                                         *)
(* Here and in the modules above, a definition under "Mutant:" is a        *)
(* plausible mistake in the one after it.  No specification uses it; with  *)
(* it in the other's place some property has to fail.                      *)
(***************************************************************************)
EXTENDS Integers, Sequences, FiniteSets

CONSTANTS Party, \* the parties of the block
          Key    \* the keys signers hold

Fetters   == [kind : {"fetter"}, of : Party, keys : Seq(Key)]
Witnesses == [kind : {"witness"}, of : Party, sigs : Seq(Key),
              signed : Seq(Fetters)]
Items     == Fetters \cup Witnesses

-----------------------------------------------------------------------------
(* Reading a ledger.                                                       *)

\* Where getId(kind) finds its items, how many there are, and the n-th one.
Positions(l, kind) == {i \in DOMAIN l : l[i].kind = kind}
Count(l, kind) == Cardinality(Positions(l, kind))
Nth(l, kind, n) ==
  l[CHOOSE i \in Positions(l, kind) :
      Cardinality({j \in Positions(l, kind) : j <= i}) = n]

IsCompleted(l) ==
  /\ Count(l, "witness") # 0
  /\ Count(l, "witness") = Count(l, "fetter")

\* The size of all the fetters, counted in items.
WitnessFetterBoundary(l) == Count(l, "fetter")

\* Mutant: the whole value is signed.
SigningDataOfLedger(l) == l

\* The first bytes of the value, as many as all the fetters take.
SigningData(l) == SubSeq(l, 1, WitnessFetterBoundary(l))

\* 0 stands for undefined as well: the callers ask whether there are any.
NumberOfParties(l) ==
  IF Count(l, "fetter") = Count(l, "witness") THEN Count(l, "witness") ELSE 0

PublicKeys(l) == [i \in 1 .. Count(l, "fetter") |-> Nth(l, "fetter", i).keys]
Signatures(l) == [i \in 1 .. Count(l, "witness") |-> Nth(l, "witness", i).sigs]

\* Mutant: witnesses taken in the order of the fetters.
WitnessInOrder(l, i) == l[NumberOfParties(l) + i]

\* Both are asked with i \in 1 .. NumberOfParties(l) only.
FetterOfParty(l, i) == l[i]
WitnessOfParty(l, i) == l[2 * NumberOfParties(l) - i + 1]

-----------------------------------------------------------------------------
(* Building a ledger.                                                      *)

FetterFrom(p, signers) == [kind |-> "fetter", of |-> p, keys |-> signers]

\* addToLedger throws on a completed ledger; addTransfer adds item by item.
AcceptsTransfer(l, t) ==
  \A k \in 0 .. Len(t) - 1 : ~IsCompleted(l \o SubSeq(t, 1, k))

\* Mutant: only the first signer signs.
SignWithFirst(l, p, signers) ==
  Append(l, [kind |-> "witness", of |-> p,
             sigs |-> IF signers = <<>> THEN <<>> ELSE <<Head(signers)>>,
             signed |-> SigningData(l)])

SignBoundWitness(l, p, signers) ==
  Append(l, [kind |-> "witness", of |-> p, sigs |-> signers,
             signed |-> SigningData(l)])

\* Mutant: x starts one fetter early.
PassOnRepeated(l, n) ==
  Append([i \in 1 .. Count(l, "fetter") - n |-> Nth(l, "fetter", n + i)],
         Nth(l, "witness", Count(l, "witness")))

\* What the signer passes on: the fetters the other side lacks, then the
\* newest witness.  n is the number of witnesses of the transfer received.
PassOn(l, n) ==
  Append([i \in 1 .. Count(l, "fetter") - (n + 1) |-> Nth(l, "fetter", n + 1 + i)],
         Nth(l, "witness", Count(l, "witness")))

\* incomingData of party p.  An absent transfer is the empty one.  "ok" is
\* FALSE when the call throws.
IncomingData(l, sentFetter, t, endpoint, p, signers) ==
  LET added    == l \o t
      fettered == IF sentFetter THEN added
                  ELSE Append(added, FetterFrom(p, signers))
      open     == Count(fettered, "fetter") # Count(fettered, "witness")
      signs    == open /\ (endpoint \/ Count(t, "witness") # 0)
      signed   == SignBoundWitness(fettered, p, signers)
  IN  [ok     |-> AcceptsTransfer(l, t) /\ (sentFetter \/ ~IsCompleted(added)),
       ledger |-> IF signs THEN signed ELSE fettered,
       out    |-> IF signs THEN PassOn(signed, Count(t, "witness"))
                  ELSE IF open THEN fettered ELSE <<>>]
=============================================================================
