-------------------------- MODULE BoundWitnessLemmas --------------------------
(***************************************************************************)
(* What the operators of BoundWitness make of any ledger, and of the five  *)
(* ledgers a session of two parties goes through.                          *)
(***************************************************************************)
EXTENDS BoundWitness, FiniteSetTheorems, SequenceTheorems, TLAPS

-----------------------------------------------------------------------------
(* Any ledger.                                                             *)

LEMMA PositionsFinite ==
  ASSUME NEW X, NEW l \in Seq(X), NEW kind
  PROVE  IsFiniteSet(Positions(l, kind)) /\ Count(l, kind) \in Nat
  <1>1. IsFiniteSet(1 .. Len(l))
    BY FS_Interval
  <1>2. Positions(l, kind) \subseteq 1 .. Len(l)
    BY DEF Positions
  <1>3. IsFiniteSet(Positions(l, kind))
    BY <1>1, <1>2, FS_Subset
  <1> QED
    BY <1>3, FS_CardinalityType DEF Count

LEMMA CountEmpty ==
  ASSUME NEW kind
  PROVE  Count(<<>>, kind) = 0
  <1>1. Positions(<<>>, kind) = {}
    BY DEF Positions
  <1> QED
    BY <1>1, FS_EmptySet DEF Count

\* An item counts among those of its kind and no others.
LEMMA CountAppend ==
  ASSUME NEW X, NEW l \in Seq(X), NEW x \in X, NEW kind
  PROVE  Count(Append(l, x), kind) = Count(l, kind) + (IF x.kind = kind THEN 1 ELSE 0)
  <1> DEFINE longer == Append(l, x)
             n == Len(l) + 1
  <1>1. /\ longer \in Seq(X) /\ Len(longer) = n /\ longer[n] = x
        /\ \A i \in 1 .. Len(l) : longer[i] = l[i]
    BY AppendProperties
  <1>2. DOMAIN longer = 1 .. n /\ DOMAIN l = 1 .. Len(l) /\ Len(l) \in Nat
    BY <1>1
  <1>3. CASE x.kind = kind
    <2>1. Positions(longer, kind) = Positions(l, kind) \cup {n} /\ n \notin Positions(l, kind)
      BY <1>1, <1>2, <1>3 DEF Positions
    <2> QED
      BY <1>3, <2>1, PositionsFinite, FS_AddElement DEF Count
  <1>4. CASE x.kind # kind
    <2>1. Positions(longer, kind) = Positions(l, kind)
      BY <1>1, <1>2, <1>4 DEF Positions
    <2> QED
      BY <1>4, <2>1, PositionsFinite DEF Count
  <1> QED
    BY <1>3, <1>4

\* The n-th item of a kind, where n is their number, is the last.
LEMMA NthLast ==
  ASSUME NEW X, NEW l \in Seq(X), NEW kind, NEW last \in Positions(l, kind),
         \A i \in Positions(l, kind) : i <= last
  PROVE  Nth(l, kind, Count(l, kind)) = l[last]
  <1> DEFINE UpTo(i) == {j \in Positions(l, kind) : j <= i}
             Is(i) == Cardinality(UpTo(i)) = Count(l, kind)
  <1>1. Is(last)
    <2>1. UpTo(last) = Positions(l, kind)
      OBVIOUS
    <2> QED
      BY <2>1 DEF Count
  <1>2. ASSUME NEW i \in Positions(l, kind), Is(i) PROVE i = last
    <2>1. UpTo(i) = Positions(l, kind)
      <3>1. UpTo(i) \in SUBSET Positions(l, kind)
        OBVIOUS
      <3> QED
        BY <1>2, <3>1, PositionsFinite, FS_Subset DEF Count
    <2>2. last <= i
      BY <2>1
    <2>3. i \in Int /\ last \in Int
      BY DEF Positions
    <2> QED
      BY <2>2, <2>3
  <1>3. (CHOOSE i \in Positions(l, kind) : Is(i)) = last
    BY <1>1, <1>2
  <1> QED
    BY <1>3 DEF Nth

-----------------------------------------------------------------------------
(* Ledgers of up to four items.                                            *)

One(x, kind) == IF x.kind = kind THEN 1 ELSE 0

LEMMA AppendIs ==
  ASSUME NEW X, NEW l \in Seq(X), NEW x \in X, NEW m \in Seq(X),
         Len(m) = Len(l) + 1, m[Len(l) + 1] = x, \A i \in 1 .. Len(l) : m[i] = l[i]
  PROVE  Append(l, x) = m
  <1>1. Append(l, x) \in Seq(X) /\ Len(Append(l, x)) = Len(m)
    BY AppendProperties
  <1>2. ASSUME NEW i \in 1 .. Len(m) PROVE Append(l, x)[i] = m[i]
    BY AppendProperties
  <1> QED
    BY <1>1, <1>2, SeqEqual

LEMMA AppendToNone ==
  ASSUME NEW a
  PROVE  Append(<<>>, a) = <<a>>
  <1>1. /\ <<>> \in Seq({a}) /\ <<a>> \in Seq({a})
        /\ Len(<<a>>) = Len(<<>>) + 1 /\ <<a>>[Len(<<>>) + 1] = a
    OBVIOUS
  <1>2. \A i \in 1 .. Len(<<>>) : <<a>>[i] = <<>>[i]
    OBVIOUS
  <1> QED
    BY <1>1, <1>2, AppendIs

LEMMA AppendToOne ==
  ASSUME NEW a, NEW b
  PROVE  Append(<<a>>, b) = <<a, b>>
  <1>1. /\ <<a>> \in Seq({a, b}) /\ <<a, b>> \in Seq({a, b})
        /\ Len(<<a, b>>) = Len(<<a>>) + 1 /\ <<a, b>>[Len(<<a>>) + 1] = b
    OBVIOUS
  <1>2. \A i \in 1 .. Len(<<a>>) : <<a, b>>[i] = <<a>>[i]
    OBVIOUS
  <1> QED
    BY <1>1, <1>2, AppendIs

LEMMA AppendToTwo ==
  ASSUME NEW a, NEW b, NEW c
  PROVE  Append(<<a, b>>, c) = <<a, b, c>>
  <1>1. /\ <<a, b>> \in Seq({a, b, c}) /\ <<a, b, c>> \in Seq({a, b, c})
        /\ Len(<<a, b, c>>) = Len(<<a, b>>) + 1 /\ <<a, b, c>>[Len(<<a, b>>) + 1] = c
    OBVIOUS
  <1>2. \A i \in 1 .. Len(<<a, b>>) : <<a, b, c>>[i] = <<a, b>>[i]
    OBVIOUS
  <1> QED
    BY <1>1, <1>2, AppendIs

LEMMA AppendToThree ==
  ASSUME NEW a, NEW b, NEW c, NEW d
  PROVE  Append(<<a, b, c>>, d) = <<a, b, c, d>>
  <1>1. /\ <<a, b, c>> \in Seq({a, b, c, d}) /\ <<a, b, c, d>> \in Seq({a, b, c, d})
        /\ Len(<<a, b, c, d>>) = Len(<<a, b, c>>) + 1 /\ <<a, b, c, d>>[Len(<<a, b, c>>) + 1] = d
    OBVIOUS
  <1>2. \A i \in 1 .. Len(<<a, b, c>>) : <<a, b, c, d>>[i] = <<a, b, c>>[i]
    OBVIOUS
  <1> QED
    BY <1>1, <1>2, AppendIs

LEMMA CountOfOne ==
  ASSUME NEW a, NEW kind
  PROVE  Count(<<a>>, kind) = One(a, kind)
  <1>1. <<>> \in Seq({a}) /\ a \in {a}
    OBVIOUS
  <1>2. Count(Append(<<>>, a), kind) = Count(<<>>, kind) + One(a, kind)
    BY <1>1, CountAppend DEF One
  <1>3. Append(<<>>, a) = <<a>>
    BY AppendToNone
  <1> QED
    BY <1>2, <1>3, CountEmpty DEF One

LEMMA CountOfTwo ==
  ASSUME NEW a, NEW b, NEW kind
  PROVE  Count(<<a, b>>, kind) = One(a, kind) + One(b, kind)
  <1>1. <<a>> \in Seq({a, b}) /\ b \in {a, b}
    OBVIOUS
  <1>2. Count(Append(<<a>>, b), kind) = Count(<<a>>, kind) + One(b, kind)
    BY <1>1, CountAppend DEF One
  <1>3. Append(<<a>>, b) = <<a, b>>
    BY AppendToOne
  <1> QED
    BY <1>2, <1>3, CountOfOne

LEMMA CountOfThree ==
  ASSUME NEW a, NEW b, NEW c, NEW kind
  PROVE  Count(<<a, b, c>>, kind) = One(a, kind) + One(b, kind) + One(c, kind)
  <1>1. <<a, b>> \in Seq({a, b, c}) /\ c \in {a, b, c}
    OBVIOUS
  <1>2. Count(Append(<<a, b>>, c), kind) = Count(<<a, b>>, kind) + One(c, kind)
    BY <1>1, CountAppend DEF One
  <1>3. Append(<<a, b>>, c) = <<a, b, c>>
    BY AppendToTwo
  <1> QED
    BY <1>2, <1>3, CountOfTwo

LEMMA CountOfFour ==
  ASSUME NEW a, NEW b, NEW c, NEW d, NEW kind
  PROVE  Count(<<a, b, c, d>>, kind) =
            One(a, kind) + One(b, kind) + One(c, kind) + One(d, kind)
  <1>1. <<a, b, c>> \in Seq({a, b, c, d}) /\ d \in {a, b, c, d}
    OBVIOUS
  <1>2. Count(Append(<<a, b, c>>, d), kind) = Count(<<a, b, c>>, kind) + One(d, kind)
    BY <1>1, CountAppend DEF One
  <1>3. Append(<<a, b, c>>, d) = <<a, b, c, d>>
    BY AppendToThree
  <1>4. Count(<<a, b, c>>, kind) = One(a, kind) + One(b, kind) + One(c, kind)
    BY CountOfThree
  <1> QED
    BY <1>2, <1>3, <1>4

\* Sequences of the same length and elements are the same.
LEMMA SameSequence ==
  ASSUME NEW S, NEW s \in Seq(S), NEW t \in Seq(S), Len(s) = Len(t),
         \A i \in 1 .. Len(t) : s[i] = t[i]
  PROVE  s = t
  BY SeqEqual

LEMMA ConcatNoneOne ==
  ASSUME NEW a
  PROVE  <<>> \o <<a>> = <<a>>
  <1>1. <<>> \o <<a>> \in Seq({a}) /\ <<a>> \in Seq({a}) /\ Len(<<>> \o <<a>>) = Len(<<a>>)
    OBVIOUS
  <1>2. \A i \in 1 .. Len(<<a>>) : (<<>> \o <<a>>)[i] = <<a>>[i]
    OBVIOUS
  <1> QED
    BY <1>1, <1>2, SameSequence

LEMMA ConcatOneOne ==
  ASSUME NEW a, NEW b
  PROVE  <<a>> \o <<b>> = <<a, b>>
  <1>1. <<a>> \o <<b>> \in Seq({a, b}) /\ <<a, b>> \in Seq({a, b}) /\ Len(<<a>> \o <<b>>) = Len(<<a, b>>)
    OBVIOUS
  <1>2. \A i \in 1 .. Len(<<a, b>>) : (<<a>> \o <<b>>)[i] = <<a, b>>[i]
    OBVIOUS
  <1> QED
    BY <1>1, <1>2, SameSequence

LEMMA ConcatOneTwo ==
  ASSUME NEW a, NEW b, NEW c
  PROVE  <<a>> \o <<b, c>> = <<a, b, c>>
  <1>1. <<a>> \o <<b, c>> \in Seq({a, b, c}) /\ <<a, b, c>> \in Seq({a, b, c}) /\ Len(<<a>> \o <<b, c>>) = Len(<<a, b, c>>)
    OBVIOUS
  <1>2. \A i \in 1 .. Len(<<a, b, c>>) : (<<a>> \o <<b, c>>)[i] = <<a, b, c>>[i]
    OBVIOUS
  <1> QED
    BY <1>1, <1>2, SameSequence

LEMMA ConcatThreeOne ==
  ASSUME NEW a, NEW b, NEW c, NEW d
  PROVE  <<a, b, c>> \o <<d>> = <<a, b, c, d>>
  <1>1. <<a, b, c>> \o <<d>> \in Seq({a, b, c, d}) /\ <<a, b, c, d>> \in Seq({a, b, c, d}) /\ Len(<<a, b, c>> \o <<d>>) = Len(<<a, b, c, d>>)
    OBVIOUS
  <1>2. \A i \in 1 .. Len(<<a, b, c, d>>) : (<<a, b, c>> \o <<d>>)[i] = <<a, b, c, d>>[i]
    OBVIOUS
  <1> QED
    BY <1>1, <1>2, SameSequence

LEMMA ConcatEmpty ==
  ASSUME NEW S, NEW s \in Seq(S)
  PROVE  s \o <<>> = s
  <1>1. s \o <<>> \in Seq(S) /\ Len(s \o <<>>) = Len(s)
    OBVIOUS
  <1>2. \A i \in 1 .. Len(s) : (s \o <<>>)[i] = s[i]
    OBVIOUS
  <1> QED
    BY <1>1, <1>2, SameSequence

LEMMA PrefixEmpty ==
  ASSUME NEW S, NEW s \in Seq(S)
  PROVE  SubSeq(s, 1, 0) = <<>>
  <1>1. SubSeq(s, 1, 0) \in Seq(S) /\ <<>> \in Seq(S) /\ Len(SubSeq(s, 1, 0)) = Len(<<>>)
    OBVIOUS
  <1>2. \A i \in 1 .. Len(<<>>) : SubSeq(s, 1, 0)[i] = <<>>[i]
    OBVIOUS
  <1> QED
    BY <1>1, <1>2, SameSequence

LEMMA PrefixOneOfTwo ==
  ASSUME NEW a, NEW b
  PROVE  SubSeq(<<a, b>>, 1, 1) = <<a>>
  <1>1. SubSeq(<<a, b>>, 1, 1) \in Seq({a, b}) /\ <<a>> \in Seq({a, b}) /\ Len(SubSeq(<<a, b>>, 1, 1)) = Len(<<a>>)
    OBVIOUS
  <1>2. \A i \in 1 .. Len(<<a>>) : (SubSeq(<<a, b>>, 1, 1))[i] = <<a>>[i]
    OBVIOUS
  <1> QED
    BY <1>1, <1>2, SameSequence

LEMMA PrefixTwoOfTwo ==
  ASSUME NEW a, NEW b
  PROVE  SubSeq(<<a, b>>, 1, 2) = <<a, b>>
  <1>1. SubSeq(<<a, b>>, 1, 2) \in Seq({a, b}) /\ <<a, b>> \in Seq({a, b}) /\ Len(SubSeq(<<a, b>>, 1, 2)) = Len(<<a, b>>)
    OBVIOUS
  <1>2. \A i \in 1 .. Len(<<a, b>>) : (SubSeq(<<a, b>>, 1, 2))[i] = <<a, b>>[i]
    OBVIOUS
  <1> QED
    BY <1>1, <1>2, SameSequence

LEMMA PrefixTwoOfThree ==
  ASSUME NEW a, NEW b, NEW c
  PROVE  SubSeq(<<a, b, c>>, 1, 2) = <<a, b>>
  <1>1. SubSeq(<<a, b, c>>, 1, 2) \in Seq({a, b, c}) /\ <<a, b>> \in Seq({a, b, c}) /\ Len(SubSeq(<<a, b, c>>, 1, 2)) = Len(<<a, b>>)
    OBVIOUS
  <1>2. \A i \in 1 .. Len(<<a, b>>) : (SubSeq(<<a, b, c>>, 1, 2))[i] = <<a, b>>[i]
    OBVIOUS
  <1> QED
    BY <1>1, <1>2, SameSequence

LEMMA PrefixTwoOfFour ==
  ASSUME NEW a, NEW b, NEW c, NEW d
  PROVE  SubSeq(<<a, b, c, d>>, 1, 2) = <<a, b>>
  <1>1. SubSeq(<<a, b, c, d>>, 1, 2) \in Seq({a, b, c, d}) /\ <<a, b>> \in Seq({a, b, c, d}) /\ Len(SubSeq(<<a, b, c, d>>, 1, 2)) = Len(<<a, b>>)
    OBVIOUS
  <1>2. \A i \in 1 .. Len(<<a, b>>) : (SubSeq(<<a, b, c, d>>, 1, 2))[i] = <<a, b>>[i]
    OBVIOUS
  <1> QED
    BY <1>1, <1>2, SameSequence

-----------------------------------------------------------------------------
(* The ledgers of a session of two parties, in the order they come about:  *)
(* empty, one fetter, both fetters and the second party's witness, and     *)
(* both witnesses.                                                         *)

WitnessFrom(p, sigs, signed) ==
  [kind |-> "witness", of |-> p, sigs |-> sigs, signed |-> signed]

\* The second party signs with the keys of its fetter, the first with what
\* keys it holds by then.
SecondWitness(a, b)   == WitnessFrom(b.of, b.keys, <<a, b>>)
FirstWitness(a, b, k) == WitnessFrom(a.of, k, <<a, b>>)
Answered(a, b)        == <<a, b, SecondWitness(a, b)>>
Agreed(a, b, k)       == <<a, b, SecondWitness(a, b), FirstWitness(a, b, k)>>

LEMMA StageTypes ==
  ASSUME NEW a \in Fetters, NEW b \in Fetters, NEW k \in Seq(Key)
  PROVE  /\ SecondWitness(a, b) \in Witnesses /\ FirstWitness(a, b, k) \in Witnesses
         /\ <<>> \in Seq(Items) /\ <<a>> \in Seq(Items) /\ <<a, b>> \in Seq(Items)
         /\ <<b, SecondWitness(a, b)>> \in Seq(Items)
         /\ <<SecondWitness(a, b)>> \in Seq(Items)
         /\ <<FirstWitness(a, b, k)>> \in Seq(Items)
         /\ Answered(a, b) \in Seq(Items) /\ Agreed(a, b, k) \in Seq(Items)
  <1>1. SecondWitness(a, b) \in Witnesses
    BY DEF SecondWitness, WitnessFrom, Fetters, Witnesses
  <1>2. FirstWitness(a, b, k) \in Witnesses
    BY DEF FirstWitness, WitnessFrom, Fetters, Witnesses
  <1> DEFINE w == SecondWitness(a, b)
             v == FirstWitness(a, b, k)
  <1>3. w \in Items /\ v \in Items /\ a \in Items /\ b \in Items
    BY <1>1, <1>2 DEF Items
  <1> HIDE DEF w, v
  <1>4. /\ <<>> \in Seq(Items) /\ <<a>> \in Seq(Items) /\ <<a, b>> \in Seq(Items)
        /\ <<b, w>> \in Seq(Items) /\ <<w>> \in Seq(Items) /\ <<v>> \in Seq(Items)
        /\ <<a, b, w>> \in Seq(Items) /\ <<a, b, w, v>> \in Seq(Items)
    BY <1>3
  <1> QED
    BY <1>1, <1>2, <1>4 DEF w, v, Answered, Agreed

LEMMA StageCounts ==
  ASSUME NEW a \in Fetters, NEW b \in Fetters, NEW w \in Witnesses, NEW v \in Witnesses
  PROVE  /\ Count(<<>>, "fetter") = 0 /\ Count(<<>>, "witness") = 0
         /\ Count(<<a>>, "fetter") = 1 /\ Count(<<a>>, "witness") = 0
         /\ Count(<<w>>, "fetter") = 0 /\ Count(<<w>>, "witness") = 1
         /\ Count(<<b, w>>, "fetter") = 1 /\ Count(<<b, w>>, "witness") = 1
         /\ Count(<<a, b>>, "fetter") = 2 /\ Count(<<a, b>>, "witness") = 0
         /\ Count(<<a, b, w>>, "fetter") = 2 /\ Count(<<a, b, w>>, "witness") = 1
         /\ Count(<<a, b, w, v>>, "fetter") = 2 /\ Count(<<a, b, w, v>>, "witness") = 2
  <1>1. /\ One(a, "fetter") = 1 /\ One(b, "fetter") = 1
        /\ One(w, "fetter") = 0 /\ One(v, "fetter") = 0
        /\ One(a, "witness") = 0 /\ One(b, "witness") = 0
        /\ One(w, "witness") = 1 /\ One(v, "witness") = 1
    BY DEF One, Fetters, Witnesses
  <1>2. Count(<<a>>, "fetter") = 1 /\ Count(<<a>>, "witness") = 0
    <2>1. Count(<<a>>, "fetter") = One(a, "fetter")
      BY CountOfOne
    <2>2. Count(<<a>>, "witness") = One(a, "witness")
      BY CountOfOne
    <2> QED
      BY <1>1, <2>1, <2>2
  <1>3. Count(<<w>>, "fetter") = 0 /\ Count(<<w>>, "witness") = 1
    <2>1. Count(<<w>>, "fetter") = One(w, "fetter")
      BY CountOfOne
    <2>2. Count(<<w>>, "witness") = One(w, "witness")
      BY CountOfOne
    <2> QED
      BY <1>1, <2>1, <2>2
  <1>4. Count(<<b, w>>, "fetter") = 1 /\ Count(<<b, w>>, "witness") = 1
    <2>1. Count(<<b, w>>, "fetter") = One(b, "fetter") + One(w, "fetter")
      BY CountOfTwo
    <2>2. Count(<<b, w>>, "witness") = One(b, "witness") + One(w, "witness")
      BY CountOfTwo
    <2> QED
      BY <1>1, <2>1, <2>2
  <1>5. Count(<<a, b>>, "fetter") = 2 /\ Count(<<a, b>>, "witness") = 0
    <2>1. Count(<<a, b>>, "fetter") = One(a, "fetter") + One(b, "fetter")
      BY CountOfTwo
    <2>2. Count(<<a, b>>, "witness") = One(a, "witness") + One(b, "witness")
      BY CountOfTwo
    <2> QED
      BY <1>1, <2>1, <2>2
  <1>6. Count(<<a, b, w>>, "fetter") = 2 /\ Count(<<a, b, w>>, "witness") = 1
    <2>1. Count(<<a, b, w>>, "fetter") = One(a, "fetter") + One(b, "fetter") + One(w, "fetter")
      BY CountOfThree
    <2>2. Count(<<a, b, w>>, "witness") = One(a, "witness") + One(b, "witness") + One(w, "witness")
      BY CountOfThree
    <2> QED
      BY <1>1, <2>1, <2>2
  <1>7. Count(<<a, b, w, v>>, "fetter") = 2 /\ Count(<<a, b, w, v>>, "witness") = 2
    <2>1. Count(<<a, b, w, v>>, "fetter") = One(a, "fetter") + One(b, "fetter") + One(w, "fetter") + One(v, "fetter")
      BY CountOfFour
    <2>2. Count(<<a, b, w, v>>, "witness") = One(a, "witness") + One(b, "witness") + One(w, "witness") + One(v, "witness")
      BY CountOfFour
    <2> QED
      BY <1>1, <2>1, <2>2
  <1> QED
    BY <1>2, <1>3, <1>4, <1>5, <1>6, <1>7, CountEmpty

\* Only the last ledger is completed.
LEMMA StagesCompleted ==
  ASSUME NEW a \in Fetters, NEW b \in Fetters, NEW k \in Seq(Key)
  PROVE  /\ ~IsCompleted(<<>>) /\ ~IsCompleted(<<a>>) /\ ~IsCompleted(<<a, b>>)
         /\ ~IsCompleted(Answered(a, b)) /\ IsCompleted(Agreed(a, b, k))
  <1> DEFINE w == SecondWitness(a, b)
             v == FirstWitness(a, b, k)
  <1>1. w \in Witnesses /\ v \in Witnesses
    BY StageTypes
  <1> HIDE DEF w, v
  <1>2. /\ ~IsCompleted(<<>>) /\ ~IsCompleted(<<a>>) /\ ~IsCompleted(<<a, b>>)
        /\ ~IsCompleted(<<a, b, w>>) /\ IsCompleted(<<a, b, w, v>>)
    <2>1. /\ Count(<<>>, "witness") = 0 /\ Count(<<a>>, "witness") = 0
          /\ Count(<<a, b>>, "witness") = 0
          /\ Count(<<a, b, w>>, "fetter") = 2 /\ Count(<<a, b, w>>, "witness") = 1
          /\ Count(<<a, b, w, v>>, "fetter") = 2 /\ Count(<<a, b, w, v>>, "witness") = 2
      BY <1>1, StageCounts
    <2> QED
      BY <2>1 DEF IsCompleted
  <1> QED
    BY <1>2 DEF w, v, Answered, Agreed

\* The items PassOn takes: the newest witness, and the fetter before it.
LEMMA LastOfThree ==
  ASSUME NEW a \in Fetters, NEW b \in Fetters, NEW w \in Witnesses
  PROVE  Nth(<<a, b, w>>, "fetter", 2) = b /\ Nth(<<a, b, w>>, "witness", 1) = w
  <1>1. <<a, b, w>> \in Seq(Items)
    BY DEF Items
  <1>2. a.kind = "fetter" /\ b.kind = "fetter" /\ w.kind = "witness"
    BY DEF Fetters, Witnesses
  <1>3. /\ 2 \in Positions(<<a, b, w>>, "fetter")
        /\ \A i \in Positions(<<a, b, w>>, "fetter") : i <= 2
    BY <1>2 DEF Positions
  <1>4. /\ 3 \in Positions(<<a, b, w>>, "witness")
        /\ \A i \in Positions(<<a, b, w>>, "witness") : i <= 3
    BY <1>2 DEF Positions
  <1>5. Count(<<a, b, w>>, "fetter") = 2 /\ Count(<<a, b, w>>, "witness") = 1
    BY StageCounts
  <1>6. Nth(<<a, b, w>>, "fetter", 2) = <<a, b, w>>[2]
    BY <1>1, <1>3, <1>5, NthLast
  <1>7. Nth(<<a, b, w>>, "witness", 1) = <<a, b, w>>[3]
    BY <1>1, <1>4, <1>5, NthLast
  <1> QED
    BY <1>6, <1>7

LEMMA LastOfFour ==
  ASSUME NEW a \in Fetters, NEW b \in Fetters, NEW w \in Witnesses, NEW v \in Witnesses
  PROVE  Nth(<<a, b, w, v>>, "witness", 2) = v
  <1>1. <<a, b, w, v>> \in Seq(Items)
    BY DEF Items
  <1>2. a.kind = "fetter" /\ b.kind = "fetter" /\ w.kind = "witness" /\ v.kind = "witness"
    BY DEF Fetters, Witnesses
  <1>3. /\ 4 \in Positions(<<a, b, w, v>>, "witness")
        /\ \A i \in Positions(<<a, b, w, v>>, "witness") : i <= 4
    BY <1>2 DEF Positions
  <1>4. Count(<<a, b, w, v>>, "witness") = 2
    BY StageCounts
  <1>5. Nth(<<a, b, w, v>>, "witness", 2) = <<a, b, w, v>>[4]
    BY <1>1, <1>3, <1>4, NthLast
  <1> QED
    BY <1>5

\* A signature covers both fetters, in whatever ledger they stand first.
LEMMA StagesSigned ==
  ASSUME NEW a \in Fetters, NEW b \in Fetters, NEW w \in Witnesses
  PROVE  /\ SigningData(<<a, b>>) = <<a, b>>
         /\ SigningData(<<a, b, w>>) = <<a, b>>
  <1>1. Count(<<a, b>>, "fetter") = 2 /\ Count(<<a, b, w>>, "fetter") = 2
    BY StageCounts
  <1> QED
    BY <1>1, PrefixTwoOfTwo, PrefixTwoOfThree DEF SigningData, WitnessFetterBoundary

-----------------------------------------------------------------------------
(* incomingData, as a session calls it.                                    *)

\* The server's first turn: nothing received, nothing signed, its fetter sent.
LEMMA IncomingNothing ==
  ASSUME NEW p \in Party, NEW k \in Seq(Key)
  PROVE  LET a == FetterFrom(p, k)
             r == IncomingData(<<>>, FALSE, <<>>, FALSE, p, k)
         IN  a \in Fetters /\ r.ok /\ r.ledger = <<a>> /\ r.out = <<a>>
  <1> DEFINE a == FetterFrom(p, k)
  <1>1. a \in Fetters
    BY DEF FetterFrom, Fetters
  <1>2. <<>> \o <<>> = <<>> /\ Append(<<>>, a) = <<a>>
    BY ConcatEmpty, AppendToNone
  <1>3. /\ Count(<<>>, "fetter") = 0 /\ Count(<<>>, "witness") = 0
        /\ Count(<<a>>, "fetter") = 1 /\ Count(<<a>>, "witness") = 0
    <2> \A v : Count(<<>>, v) = 0
      BY CountEmpty
    <2>1. One(a, "fetter") = 1 /\ One(a, "witness") = 0
      BY <1>1 DEF One, Fetters
    <2>2. /\ Count(<<a>>, "fetter") = One(a, "fetter")
          /\ Count(<<a>>, "witness") = One(a, "witness")
      BY CountOfOne
    <2> QED
      BY <2>1, <2>2
  <1>4. ~IsCompleted(<<>>) /\ AcceptsTransfer(<<>>, <<>>)
    BY <1>3 DEF IsCompleted, AcceptsTransfer
  <1> HIDE DEF a
  <1> DEFINE r == IncomingData(<<>>, FALSE, <<>>, FALSE, p, k)
  <1>5. r.ok
    BY <1>2, <1>4 DEF IncomingData
  <1>6. r.ledger = <<a>>
    BY <1>2, <1>3 DEF IncomingData, a
  <1>7. r.out = <<a>>
    BY <1>2, <1>3 DEF IncomingData, a
  <1> QED
    BY <1>1, <1>5, <1>6, <1>7 DEF a

\* The client's first turn: it receives the server's fetter, adds its own,
\* signs, and passes on both of its items.
LEMMA IncomingOffer ==
  ASSUME NEW a \in Fetters, NEW p \in Party, NEW k \in Seq(Key)
  PROVE  LET b == FetterFrom(p, k)
             r == IncomingData(<<>>, FALSE, <<a>>, TRUE, p, k)
         IN  /\ b \in Fetters /\ r.ok
             /\ r.ledger = Answered(a, b)
             /\ r.out = <<b, SecondWitness(a, b)>>
  <1> DEFINE b == FetterFrom(p, k)
             w == SecondWitness(a, b)
  <1>1. b \in Fetters /\ b.of = p /\ b.keys = k
    BY DEF FetterFrom, Fetters
  <1>2. w \in Witnesses
    BY <1>1, StageTypes
  <1>3. w = [kind |-> "witness", of |-> p, sigs |-> k, signed |-> <<a, b>>]
    BY <1>1 DEF SecondWitness, WitnessFrom
  <1> HIDE DEF w
  <1>4. /\ <<>> \o <<a>> = <<a>> /\ Append(<<a>>, b) = <<a, b>>
        /\ Append(<<a, b>>, w) = <<a, b, w>>
    BY ConcatNoneOne, AppendToOne, AppendToTwo
  <1>5. /\ Count(<<a>>, "witness") = 0
        /\ Count(<<a, b>>, "fetter") = 2 /\ Count(<<a, b>>, "witness") = 0
        /\ Count(<<a, b, w>>, "fetter") = 2 /\ Count(<<a, b, w>>, "witness") = 1
    BY <1>1, <1>2, StageCounts
  <1>6. AcceptsTransfer(<<>>, <<a>>) /\ ~IsCompleted(<<a>>)
    <2>1. ~IsCompleted(<<>>) /\ ~IsCompleted(<<a>>)
      BY <1>5, CountEmpty DEF IsCompleted
    <2>2. <<>> \o SubSeq(<<a>>, 1, 0) = <<>>
      BY PrefixEmpty, ConcatEmpty
    <2>3. 0 .. Len(<<a>>) - 1 = {0}
      OBVIOUS
    <2> QED
      BY <2>1, <2>2, <2>3 DEF AcceptsTransfer
  <1>7. SignBoundWitness(<<a, b>>, p, k) = <<a, b, w>>
    <2>1. SigningData(<<a, b>>) = <<a, b>>
      BY <1>1, <1>2, StagesSigned
    <2> QED
      BY <2>1, <1>3, <1>4 DEF SignBoundWitness
  <1>8. PassOn(<<a, b, w>>, 0) = <<b, w>>
    <2>1. Nth(<<a, b, w>>, "fetter", 2) = b /\ Nth(<<a, b, w>>, "witness", 1) = w
      BY <1>1, <1>2, LastOfThree
    <2>2. [i \in 1 .. 2 - (0 + 1) |-> Nth(<<a, b, w>>, "fetter", 0 + 1 + i)] = <<b>>
      BY <2>1
    <2>3. Append(<<b>>, w) = <<b, w>>
      BY AppendToOne
    <2> QED
      BY <2>1, <2>2, <2>3, <1>5 DEF PassOn
  <1> DEFINE r == IncomingData(<<>>, FALSE, <<a>>, TRUE, p, k)
  <1>9. r.ok /\ r.ledger = <<a, b, w>> /\ r.out = <<b, w>>
    <2>1. r.ok
      BY <1>4, <1>6 DEF IncomingData
    <2> DEFINE l == <<>>
               t == <<a>>
               f == <<a, b>>
               g == <<a, b, w>>
    <2>2. /\ Append(l \o t, FetterFrom(p, k)) = f
          /\ Count(f, "fetter") # Count(f, "witness")
          /\ SignBoundWitness(f, p, k) = g
      BY <1>4, <1>5, <1>7
    <2>3. r = IncomingData(l, FALSE, t, TRUE, p, k)
      OBVIOUS
    <2> HIDE DEF r, l, t, f, g
    <2>4. r.ledger = g /\ r.out = PassOn(g, Count(t, "witness"))
      BY <2>2, <2>3 DEF IncomingData
    <2> QED
      BY <2>1, <2>4, <1>5, <1>8 DEF t, g
  <1> HIDE DEF r
  <1> QED
    BY <1>1, <1>9 DEF Answered, w, r

\* The server's second turn: it receives the client's fetter and witness and
\* countersigns with what keys it holds by now.
LEMMA IncomingAnswer ==
  ASSUME NEW a \in Fetters, NEW b \in Fetters, NEW k \in Seq(Key)
  PROVE  LET r == IncomingData(<<a>>, TRUE, <<b, SecondWitness(a, b)>>, FALSE, a.of, k)
         IN  /\ r.ok
             /\ r.ledger = Agreed(a, b, k)
             /\ r.out = <<FirstWitness(a, b, k)>>
  <1> DEFINE w == SecondWitness(a, b)
             v == FirstWitness(a, b, k)
  <1>1. w \in Witnesses /\ v \in Witnesses
    BY StageTypes
  <1>2. v = [kind |-> "witness", of |-> a.of, sigs |-> k, signed |-> <<a, b>>]
    BY DEF FirstWitness, WitnessFrom
  <1> HIDE DEF w, v
  <1>3. /\ <<a>> \o <<b, w>> = <<a, b, w>> /\ Append(<<a, b, w>>, v) = <<a, b, w, v>>
    BY ConcatOneTwo, AppendToThree
  <1>4. /\ Count(<<a>>, "witness") = 0 /\ Count(<<a, b>>, "witness") = 0
        /\ Count(<<b, w>>, "witness") = 1
        /\ Count(<<a, b, w>>, "fetter") = 2 /\ Count(<<a, b, w>>, "witness") = 1
        /\ Count(<<a, b, w, v>>, "fetter") = 2 /\ Count(<<a, b, w, v>>, "witness") = 2
    BY <1>1, StageCounts
  <1>5. AcceptsTransfer(<<a>>, <<b, w>>)
    <2>1. ~IsCompleted(<<a>>) /\ ~IsCompleted(<<a, b>>)
      BY <1>4 DEF IsCompleted
    <2>2. <<a>> \o SubSeq(<<b, w>>, 1, 0) = <<a>>
      <3>1. <<b, w>> \in Seq({b, w}) /\ <<a>> \in Seq({a})
        OBVIOUS
      <3>2. SubSeq(<<b, w>>, 1, 0) = <<>>
        BY <3>1, PrefixEmpty
      <3>3. <<a>> \o <<>> = <<a>>
        BY <3>1, ConcatEmpty
      <3> QED
        BY <3>2, <3>3
    <2>3. <<a>> \o SubSeq(<<b, w>>, 1, 1) = <<a, b>>
      BY PrefixOneOfTwo, ConcatOneOne
    <2>4. 0 .. Len(<<b, w>>) - 1 = {0, 1}
      OBVIOUS
    <2> QED
      BY <2>1, <2>2, <2>3, <2>4 DEF AcceptsTransfer
  <1>6. SignBoundWitness(<<a, b, w>>, a.of, k) = <<a, b, w, v>>
    <2>1. SigningData(<<a, b, w>>) = <<a, b>>
      BY <1>1, StagesSigned
    <2> QED
      BY <2>1, <1>2, <1>3 DEF SignBoundWitness
  <1>7. PassOn(<<a, b, w, v>>, 1) = <<v>>
    <2>1. Nth(<<a, b, w, v>>, "witness", 2) = v
      BY <1>1, LastOfFour
    <2>2. [i \in 1 .. 2 - (1 + 1) |-> Nth(<<a, b, w, v>>, "fetter", 1 + 1 + i)] = <<>>
      OBVIOUS
    <2>3. Append(<<>>, v) = <<v>>
      BY AppendToNone
    <2> QED
      BY <2>1, <2>2, <2>3, <1>4 DEF PassOn
  <1> DEFINE r == IncomingData(<<a>>, TRUE, <<b, w>>, FALSE, a.of, k)
  <1>8. r.ok /\ r.ledger = <<a, b, w, v>> /\ r.out = <<v>>
    <2>1. r.ok
      BY <1>5 DEF IncomingData
    <2> DEFINE l == <<a>>
               t == <<b, w>>
               f == <<a, b, w>>
               g == <<a, b, w, v>>
    <2>2. /\ l \o t = f
          /\ Count(f, "fetter") # Count(f, "witness") /\ Count(t, "witness") # 0
          /\ SignBoundWitness(f, a.of, k) = g
      BY <1>3, <1>4, <1>6
    <2>3. r = IncomingData(l, TRUE, t, FALSE, a.of, k)
      OBVIOUS
    <2> HIDE DEF r, l, t, f, g
    <2>4. r.ledger = g /\ r.out = PassOn(g, Count(t, "witness"))
      BY <2>2, <2>3 DEF IncomingData
    <2> QED
      BY <2>1, <2>4, <1>4, <1>7 DEF t, g
  <1> HIDE DEF r
  <1> QED
    BY <1>8 DEF Agreed, w, v, r

\* The client's second turn: it receives the server's witness and is done.
LEMMA IncomingCountersignature ==
  ASSUME NEW a \in Fetters, NEW b \in Fetters, NEW k \in Seq(Key), NEW s \in Seq(Key)
  PROVE  LET r == IncomingData(Answered(a, b), TRUE, <<FirstWitness(a, b, k)>>,
                               FALSE, b.of, s)
         IN  r.ok /\ r.ledger = Agreed(a, b, k)
  <1> DEFINE w == SecondWitness(a, b)
             v == FirstWitness(a, b, k)
  <1>1. w \in Witnesses /\ v \in Witnesses
    BY StageTypes
  <1> HIDE DEF w, v
  <1>2. <<a, b, w>> \o <<v>> = <<a, b, w, v>>
    BY ConcatThreeOne
  <1>3. /\ Count(<<a, b, w>>, "fetter") = 2 /\ Count(<<a, b, w>>, "witness") = 1
        /\ Count(<<a, b, w, v>>, "fetter") = 2 /\ Count(<<a, b, w, v>>, "witness") = 2
    BY <1>1, StageCounts
  <1>4. AcceptsTransfer(<<a, b, w>>, <<v>>)
    <2>1. ~IsCompleted(<<a, b, w>>)
      BY <1>3 DEF IsCompleted
    <2>2. <<a, b, w>> \o SubSeq(<<v>>, 1, 0) = <<a, b, w>>
      <3>1. <<v>> \in Seq({v}) /\ <<a, b, w>> \in Seq({a, b, w})
        OBVIOUS
      <3>2. SubSeq(<<v>>, 1, 0) = <<>>
        BY <3>1, PrefixEmpty
      <3>3. <<a, b, w>> \o <<>> = <<a, b, w>>
        BY <3>1, ConcatEmpty
      <3> QED
        BY <3>2, <3>3
    <2>3. 0 .. Len(<<v>>) - 1 = {0}
      OBVIOUS
    <2> QED
      BY <2>1, <2>2, <2>3 DEF AcceptsTransfer
  <1> DEFINE r == IncomingData(<<a, b, w>>, TRUE, <<v>>, FALSE, b.of, s)
  <1>5. r.ok /\ r.ledger = <<a, b, w, v>>
    <2>1. r.ok
      BY <1>4 DEF IncomingData
    <2>2. r.ledger = <<a, b, w, v>>
      BY <1>2, <1>3 DEF IncomingData
    <2> QED
      BY <2>1, <2>2
  <1> HIDE DEF r
  <1> QED
    BY <1>5 DEF Answered, Agreed, w, v, r

=============================================================================
