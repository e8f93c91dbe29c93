------------------------------ MODULE Validator ------------------------------
(***************************************************************************)
(* XyoBoundWitnessValidator, and what its answer is worth for the ledgers  *)
(* a session produces.                                                     *)
(*                                                                         *)
(* A verifier is found by the algorithm of a signature, here by its key.   *)
(* It is asynchronous and not awaited: its promise is never false, so no   *)
(* signature is refused for being wrong.                                   *)
(***************************************************************************)
EXTENDS ZigZagSession

LOCAL S == INSTANCE FiniteSetsExt

CONSTANT Verified \* the keys for whose algorithm there is a verifier

ASSUME VerifiedAssumption == Verified \subseteq Key

\* Mutant: a key without a signature is passed over.
VerdictOfSignatures(keys, signatures, allowUnknownSignatures) ==
  IF \E i \in DOMAIN keys \cap DOMAIN signatures :
       \E j \in DOMAIN keys[i] \cap DOMAIN signatures[i] :
         signatures[i][j] \in Verified /\ ~allowUnknownSignatures
  THEN "invalid" ELSE "valid"

\* The answer for all pairs of key and signature in the order they are looked
\* at: that of the first that is not valid.  A signature that is not there throws.
FirstVerdict(keys, signatures, allowUnknownSignatures) ==
  LET There(i, j)   == i \in DOMAIN signatures /\ j \in DOMAIN signatures[i]
      Refused(i, j) == There(i, j) => signatures[i][j] \in Verified /\ ~allowUnknownSignatures
      refusedIn(i)  == {j \in DOMAIN keys[i] : Refused(i, j)}
      parties       == {i \in DOMAIN keys : refusedIn(i) # {}}
      first         == S!Min(parties)
  IN  IF parties = {} THEN "valid"
      ELSE IF There(first, S!Min(refusedIn(first))) THEN "invalid" ELSE "throws"

\* validate
Validate(l, allowUnknownSignatures) ==
  IF Len(PublicKeys(l)) # Len(Signatures(l)) THEN "invalid"
  ELSE FirstVerdict(PublicKeys(l), Signatures(l), allowUnknownSignatures)

\* Every party announced as many keys as every party signed with.
AsManyKeysAsSignatures(l) ==
  \A i \in DOMAIN PublicKeys(l), j \in DOMAIN Signatures(l) :
    Len(PublicKeys(l)[i]) = Len(Signatures(l)[j])

\* No party announced a key: none had a signer.  Then validate has nothing to look
\* at, and a block nobody signed is valid.
NoKeysAnnounced(l) == \A i \in DOMAIN PublicKeys(l) : PublicKeys(l)[i] = <<>>

\* Party q signed the fetters of all parties, with a signature at least.
HasSigned(l, q) ==
  \E i \in Positions(l, "witness") :
    /\ l[i].of = q /\ l[i].sigs # <<>>
    /\ \A r \in Party : \E j \in DOMAIN l[i].signed : l[i].signed[j].of = r

\* Whatever stage a ledger that has items was left at, and although validate pairs
\* the keys of either party with the signatures of the other: only a completed
\* block is valid, and in it both parties signed unless neither announced a key,
\* in which case nothing need be signed at all.  A completed block with as many
\* keys as signatures is valid; to allow no unknown signatures lets none more pass.
OnlyAgreementsAreValid ==
  \A p \in Party :
    LET l       == ledger[p]
        verdict == Validate(l, TRUE)
    IN  l # <<>> =>
          /\ verdict = "valid" =>
               /\ IsCompleted(l)
               /\ NoKeysAnnounced(l) \/ \A q \in Party : HasSigned(l, q)
          /\ IsCompleted(l) /\ AsManyKeysAsSignatures(l) => verdict = "valid"
          /\ Validate(l, FALSE) = "valid" => verdict = "valid"
=============================================================================
