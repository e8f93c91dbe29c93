---------------------------- MODULE ReadableBlocks ----------------------------
(***************************************************************************)
(* The blocks of ObjectModel as the resolvers of Heuristics show them.     *)
(***************************************************************************)
EXTENDS ObjectModel, Heuristics

\* The object a fetter with these parts resolves to.
ObjectReadAs(origin, h, object) ==
  LET Latest(name) == SelectLastInSeq(h, LAMBDA x : x[1] = name)
      Has(name, there) == name \in DOMAIN object <=> there
  IN  /\ Has("rssi", Latest("rssi") # 0) /\ Has("99", Latest("other") # 0)
      /\ Has("index", origin.index # <<>>) /\ Has("previousHash", origin.previous # <<>>)
      /\ Latest("rssi") # 0 => object["rssi"].number = h[Latest("rssi")][2]
      /\ origin.index # <<>> => object["index"].number = origin.index[1]
      /\ origin.previous # <<>> =>
           object["previousHash"].text = GetAll(Hash(origin.previous[1]))

BlockReadAs(parts, block) ==
  /\ Len(block) = Len(parts)
  /\ \A i \in DOMAIN parts :
       parts[i].kind = "fetter" =>
         ObjectReadAs(parts[i].origin, parts[i].heuristics, block[i].object)

\* A block reads for people as it was made: every party in its place, and among
\* its items the latest reading under the reading's name, with its sign, and
\* the index, the previous hash and what has no resolver under names of their own.
ReadableAsWritten == BlockReadAs(added, Resolve(ledger).value.array)
=============================================================================
