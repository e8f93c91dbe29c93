---------------------------- MODULE ValidatorProofs ----------------------------
(***************************************************************************)
(* What the validator's answer is worth, for every key, every choice of    *)
(* verifiers and every ledger of a session.                                *)
(***************************************************************************)
EXTENDS Validator, ZigZagSessionProofs

-----------------------------------------------------------------------------
(* The validator alone, for any ledger.                                    *)

\* The block is valid when no signature is refused.
LEMMA ValidMeans ==
  ASSUME NEW keys, NEW signatures, NEW allow \in BOOLEAN
  PROVE  FirstVerdict(keys, signatures, allow) = "valid" <=>
           \A i \in DOMAIN keys : \A j \in DOMAIN keys[i] :
             /\ i \in DOMAIN signatures /\ j \in DOMAIN signatures[i]
             /\ signatures[i][j] \in Verified => allow
  <1> DEFINE There(i, j) == i \in DOMAIN signatures /\ j \in DOMAIN signatures[i]
             Refused(i, j) == There(i, j) => signatures[i][j] \in Verified /\ ~allow
             parties == {i \in DOMAIN keys : {j \in DOMAIN keys[i] : Refused(i, j)} # {}}
  <1>1. FirstVerdict(keys, signatures, allow) = "valid" <=> parties = {}
    BY DEF FirstVerdict
  <1>2. parties = {} <=> \A i \in DOMAIN keys : \A j \in DOMAIN keys[i] : ~Refused(i, j)
    OBVIOUS
  <1> QED
    BY <1>1, <1>2

\* To allow no unknown signatures never lets more pass.
LEMMA StricterIsStricter ==
  ASSUME NEW l, Validate(l, FALSE) = "valid"
  PROVE  Validate(l, TRUE) = "valid"
  BY ValidMeans, "valid" # "invalid" DEF Validate

\* A valid block has as many witnesses as fetters.
LEMMA ValidIsBalanced ==
  ASSUME NEW l, Count(l, "fetter") \in Nat, Count(l, "witness") \in Nat,
         Validate(l, TRUE) = "valid"
  PROVE  Count(l, "fetter") = Count(l, "witness")
  <1>1. Len(PublicKeys(l)) = Len(Signatures(l))
    BY "valid" # "invalid" DEF Validate
  <1>2. Len(PublicKeys(l)) = Count(l, "fetter") /\ Len(Signatures(l)) = Count(l, "witness")
    BY LenProperties DEF PublicKeys, Signatures
  <1> QED
    BY <1>1, <1>2

-----------------------------------------------------------------------------
(* The completed block of a session.                                       *)

\* The two items of a kind there are two of.
LEMMA NthOfTwo ==
  ASSUME NEW l, NEW kind, NEW x \in Int, NEW y \in Int, x < y, Positions(l, kind) = {x, y}
  PROVE  Nth(l, kind, 1) = l[x] /\ Nth(l, kind, 2) = l[y]
  <1> DEFINE UpTo(i) == {j \in {x, y} : j <= i}
  <1>1. UpTo(x) = {x} /\ UpTo(y) = {x, y}
    OBVIOUS
  <1>2. Cardinality({x}) = 1
    BY FS_Singleton
  <1>3. Cardinality({x, y}) = 2
    <2>1. {x, y} = {x} \cup {y} /\ y \notin {x}
      OBVIOUS
    <2>2. IsFiniteSet({x})
      BY FS_Singleton
    <2>3. Cardinality({x} \cup {y}) = Cardinality({x}) + 1
      BY <2>1, <2>2, FS_AddElement
    <2> QED
      BY <1>2, <2>1, <2>3
  <1> HIDE DEF UpTo
  <1>4. /\ (CHOOSE i \in {x, y} : Cardinality(UpTo(i)) = 1) = x
        /\ (CHOOSE i \in {x, y} : Cardinality(UpTo(i)) = 2) = y
    BY <1>1, <1>2, <1>3
  <1> QED
    BY <1>4 DEF Nth, UpTo

\* Its lists of keys and of signatures.
LEMMA AgreedLists ==
  ASSUME NEW a \in Fetters, NEW b \in Fetters, NEW k \in Seq(Key)
  PROVE  LET l == Agreed(a, b, k)
         IN  /\ PublicKeys(l) = <<a.keys, b.keys>>
             /\ Signatures(l) = <<b.keys, k>>
  <1> DEFINE w == SecondWitness(a, b)
             v == FirstWitness(a, b, k)
  <1> SUFFICES ASSUME NEW l, l = <<a, b, w, v>>
               PROVE  PublicKeys(l) = <<a.keys, b.keys>> /\ Signatures(l) = <<b.keys, k>>
    BY DEF Agreed
  <1>1. /\ w \in Witnesses /\ v \in Witnesses /\ w.sigs = b.keys /\ v.sigs = k
    BY StageTypes DEF SecondWitness, FirstWitness, WitnessFrom
  <1> HIDE DEF w, v
  <1>2. a.kind = "fetter" /\ b.kind = "fetter" /\ w.kind = "witness" /\ v.kind = "witness"
    BY <1>1 DEF Fetters, Witnesses
  <1>3. Positions(l, "fetter") = {1, 2} /\ Positions(l, "witness") = {3, 4}
    BY <1>2 DEF Positions
  <1>4. Count(l, "fetter") = 2 /\ Count(l, "witness") = 2
    BY <1>1, StageCounts
  <1>5. l[1] = a /\ l[2] = b /\ l[3] = w /\ l[4] = v
    OBVIOUS
  <1>6. Nth(l, "fetter", 1) = a /\ Nth(l, "fetter", 2) = b
    BY <1>3, <1>5, NthOfTwo, SMTT(30)
  <1>7. Nth(l, "witness", 1) = w /\ Nth(l, "witness", 2) = v
    BY <1>3, <1>5, NthOfTwo, SMTT(30)
  <1>8. PublicKeys(l) = <<a.keys, b.keys>>
    BY <1>4, <1>6 DEF PublicKeys
  <1>9. Signatures(l) = <<b.keys, k>>
    BY <1>1, <1>4, <1>7 DEF Signatures
  <1> QED
    BY <1>8, <1>9

\* With as many keys as signatures it is valid.
LEMMA AgreedIsValid ==
  ASSUME NEW a \in Fetters, NEW b \in Fetters, NEW k \in Seq(Key),
         AsManyKeysAsSignatures(Agreed(a, b, k))
  PROVE  Validate(Agreed(a, b, k), TRUE) = "valid"
  <1> DEFINE l == Agreed(a, b, k)
  <1>1. PublicKeys(l) = <<a.keys, b.keys>> /\ Signatures(l) = <<b.keys, k>>
    BY AgreedLists
  <1>2. a.keys \in Seq(Key) /\ b.keys \in Seq(Key)
    BY DEF Fetters
  <1>3. Len(a.keys) = Len(b.keys) /\ Len(b.keys) = Len(k)
    <2>1. \A i \in DOMAIN <<a.keys, b.keys>>, j \in DOMAIN <<b.keys, k>> :
            Len(<<a.keys, b.keys>>[i]) = Len(<<b.keys, k>>[j])
      BY <1>1 DEF AsManyKeysAsSignatures
    <2> QED
      BY <2>1, 1 \in DOMAIN <<a.keys, b.keys>>, 2 \in DOMAIN <<a.keys, b.keys>>,
         1 \in DOMAIN <<b.keys, k>>, 2 \in DOMAIN <<b.keys, k>>
  <1> HIDE DEF l
  <1>4. DOMAIN a.keys = DOMAIN b.keys /\ DOMAIN b.keys = DOMAIN k
    BY <1>2, <1>3
  <1>5. FirstVerdict(<<a.keys, b.keys>>, <<b.keys, k>>, TRUE) = "valid"
    <2>1. \A i \in DOMAIN <<a.keys, b.keys>> : \A j \in DOMAIN <<a.keys, b.keys>>[i] :
            i \in DOMAIN <<b.keys, k>> /\ j \in DOMAIN <<b.keys, k>>[i]
      BY <1>4
    <2> QED
      BY <2>1, ValidMeans
  <1>6. Validate(l, TRUE) = "valid"
    BY <1>1, <1>5 DEF Validate
  <1> QED
    BY <1>6 DEF l

\* Being valid, it was signed by both parties unless neither announced a key.
LEMMA ValidIsSigned ==
  ASSUME NEW a \in Fetters, NEW b \in Fetters, NEW k \in Seq(Key),
         Validate(Agreed(a, b, k), TRUE) = "valid"
  PROVE  (a.keys = <<>> /\ b.keys = <<>>) \/ (b.keys # <<>> /\ k # <<>>)
  <1> DEFINE l == Agreed(a, b, k)
  <1>1. PublicKeys(l) = <<a.keys, b.keys>> /\ Signatures(l) = <<b.keys, k>>
    BY AgreedLists
  <1>2. a.keys \in Seq(Key) /\ b.keys \in Seq(Key)
    BY DEF Fetters
  <1>3. Validate(l, TRUE) = "valid"
    OBVIOUS
  <1> HIDE DEF l
  <1>4. FirstVerdict(<<a.keys, b.keys>>, <<b.keys, k>>, TRUE) = "valid"
    BY <1>1, <1>3, "valid" # "invalid" DEF Validate
  <1>5. \A keys, signatures : FirstVerdict(keys, signatures, TRUE) = "valid" =>
          \A i \in DOMAIN keys : \A j \in DOMAIN keys[i] : j \in DOMAIN signatures[i]
    BY ValidMeans
  <1>6. /\ \A j \in DOMAIN a.keys : j \in DOMAIN b.keys
        /\ \A j \in DOMAIN b.keys : j \in DOMAIN k
    <2>1. \A i \in DOMAIN <<a.keys, b.keys>> : \A j \in DOMAIN <<a.keys, b.keys>>[i] :
            j \in DOMAIN <<b.keys, k>>[i]
      BY <1>4, <1>5
    <2> QED
      BY <2>1, 1 \in DOMAIN <<a.keys, b.keys>>, 2 \in DOMAIN <<a.keys, b.keys>>
  <1>7. \A s \in Seq(Key) : s # <<>> <=> 1 \in DOMAIN s
    <2> TAKE s \in Seq(Key)
    <2>1. DOMAIN s = 1 .. Len(s) /\ Len(s) \in Nat /\ (s = <<>> <=> Len(s) = 0)
      BY EmptySeq, LenProperties
    <2> QED
      BY <2>1
  <1>8. /\ a.keys # <<>> <=> 1 \in DOMAIN a.keys
        /\ b.keys # <<>> <=> 1 \in DOMAIN b.keys
        /\ k # <<>> <=> 1 \in DOMAIN k
    BY <1>2, <1>7
  <1>9. (1 \in DOMAIN a.keys => 1 \in DOMAIN b.keys) /\ (1 \in DOMAIN b.keys => 1 \in DOMAIN k)
    BY <1>6
  <1> QED
    BY <1>8, <1>9

-----------------------------------------------------------------------------
(* The property.                                                           *)

LEMMA InvValidator == IInv => OnlyAgreementsAreValid
  <1> SUFFICES ASSUME IInv, NEW p \in Party, ledger[p] # <<>>
               PROVE  /\ Validate(ledger[p], TRUE) = "valid" =>
                           /\ IsCompleted(ledger[p])
                           /\ NoKeysAnnounced(ledger[p])
                                \/ \A q \in Party : HasSigned(ledger[p], q)
                      /\ IsCompleted(ledger[p]) /\ AsManyKeysAsSignatures(ledger[p]) =>
                           Validate(ledger[p], TRUE) = "valid"
                      /\ Validate(ledger[p], FALSE) = "valid" => Validate(ledger[p], TRUE) = "valid"
    BY DEF OnlyAgreementsAreValid
  <1>1. PICK a \in Fetters, b \in Fetters, k \in Seq(Key) :
          /\ a.of = Server /\ b.of = Client
          /\ ledger[p] \in Forms(a, b, k)
    BY LedgerForms
  <1>2. ledger[p] \in {<<a>>, Answered(a, b), Agreed(a, b, k)}
    BY <1>1 DEF Forms
  <1>3. ASSUME Validate(ledger[p], TRUE) = "valid" PROVE ledger[p] = Agreed(a, b, k)
    <2>1. SecondWitness(a, b) \in Witnesses
      BY StageTypes
    <2>2. /\ Count(<<a>>, "fetter") = 1 /\ Count(<<a>>, "witness") = 0
          /\ Count(Answered(a, b), "fetter") = 2 /\ Count(Answered(a, b), "witness") = 1
      BY <2>1, StageCounts DEF Answered
    <2>3. /\ Count(ledger[p], "fetter") \in Nat /\ Count(ledger[p], "witness") \in Nat
          /\ Count(ledger[p], "fetter") = Count(ledger[p], "witness")
               => ledger[p] = Agreed(a, b, k)
      <3>1. CASE ledger[p] = Agreed(a, b, k)
        BY <3>1, PositionsFinite, StageTypes
      <3>2. CASE ledger[p] \in {<<a>>, Answered(a, b)}
        BY <2>2, <3>2
      <3> QED
        BY <1>2, <3>1, <3>2
    <2> QED
      BY <1>3, <2>3, ValidIsBalanced
  <1>4. ASSUME ledger[p] = Agreed(a, b, k), b.keys # <<>>, k # <<>>, NEW q \in Party
        PROVE  HasSigned(ledger[p], q)
    <2>1. /\ Positions(Agreed(a, b, k), "witness") = {3, 4}
          /\ Agreed(a, b, k)[3] = SecondWitness(a, b)
          /\ Agreed(a, b, k)[4] = FirstWitness(a, b, k)
      BY FormsWitnesses
    <2>2. /\ SecondWitness(a, b).of = Client /\ SecondWitness(a, b).signed = <<a, b>>
          /\ FirstWitness(a, b, k).of = Server /\ FirstWitness(a, b, k).signed = <<a, b>>
          /\ SecondWitness(a, b).sigs = b.keys /\ FirstWitness(a, b, k).sigs = k
      BY <1>1 DEF SecondWitness, FirstWitness, WitnessFrom
    <2>3. \A r \in Party : \E j \in DOMAIN <<a, b>> : <<a, b>>[j].of = r
      BY <1>1, PartyFacts, 1 \in DOMAIN <<a, b>>, 2 \in DOMAIN <<a, b>>
    <2>4. CASE q = Client
      <3>1. /\ 3 \in Positions(ledger[p], "witness") /\ ledger[p][3].of = q
            /\ ledger[p][3].sigs # <<>> /\ ledger[p][3].signed = <<a, b>>
        BY <1>4, <2>1, <2>2, <2>4
      <3> QED
        BY <2>3, <3>1 DEF HasSigned
    <2>5. CASE q = Server
      <3>1. /\ 4 \in Positions(ledger[p], "witness") /\ ledger[p][4].of = q
            /\ ledger[p][4].sigs # <<>> /\ ledger[p][4].signed = <<a, b>>
        BY <1>4, <2>1, <2>2, <2>5
      <3> QED
        BY <2>3, <3>1 DEF HasSigned
    <2> QED
      BY <2>4, <2>5, PartyFacts
  <1>5. IsCompleted(ledger[p]) => ledger[p] = Agreed(a, b, k)
    BY <1>2, StagesCompleted
  <1>6. IsCompleted(ledger[p]) /\ AsManyKeysAsSignatures(ledger[p]) =>
          Validate(ledger[p], TRUE) = "valid"
    BY <1>5, AgreedIsValid
  <1>7. Validate(ledger[p], FALSE) = "valid" => Validate(ledger[p], TRUE) = "valid"
    BY StricterIsStricter
  <1>8. ASSUME Validate(ledger[p], TRUE) = "valid"
        PROVE  /\ IsCompleted(ledger[p])
               /\ NoKeysAnnounced(ledger[p]) \/ \A q \in Party : HasSigned(ledger[p], q)
    <2>1. ledger[p] = Agreed(a, b, k)
      BY <1>3, <1>8
    <2>2. IsCompleted(ledger[p])
      BY <2>1, StagesCompleted
    <2>3. (a.keys = <<>> /\ b.keys = <<>>) \/ (b.keys # <<>> /\ k # <<>>)
      BY <1>8, <2>1, ValidIsSigned
    <2>4. CASE a.keys = <<>> /\ b.keys = <<>>
      <3>1. PublicKeys(ledger[p]) = <<a.keys, b.keys>>
        BY <2>1, AgreedLists
      <3> QED
        BY <2>2, <2>4, <3>1 DEF NoKeysAnnounced
    <2>5. CASE b.keys # <<>> /\ k # <<>>
      BY <1>4, <2>1, <2>2, <2>5
    <2> QED
      BY <2>3, <2>4, <2>5
  <1> QED
    BY <1>6, <1>7, <1>8

\* Whatever stage a session left a ledger at, the validator passes a completed block
\* only, and only one both parties signed unless neither announced a key; with as
\* many keys as signatures it passes a completed block, and to allow no unknown
\* signatures lets none more through.
THEOREM ValidatorPassesAgreements == Spec => []OnlyAgreementsAreValid
  BY InvValidator, SessionInvariant, PTL
=============================================================================
