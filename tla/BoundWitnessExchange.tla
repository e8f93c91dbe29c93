------------------------ MODULE BoundWitnessExchange ------------------------
(***************************************************************************)
(* What a bound witness between two parties promises, without messages,    *)
(* ledgers or connections: a contract signed in a fixed order.             *)
(*                                                                         *)
(* The first party makes an offer.  The second answers with its own offer  *)
(* and its signature over the pair, in one step.  The first may then       *)
(* countersign.  A party that holds the result knows that both signed the  *)
(* same pair.  Either may give up at any time, and a signature once given  *)
(* stays given: the second party may be left with nothing after the first  *)
(* has countersigned.                                                      *)
(***************************************************************************)
CONSTANTS First, Second, \* the parties, in the order their offers appear
          Offers,        \* what a party can offer
          None           \* no offer, nothing signed

Parties == {First, Second}

VARIABLES offer,  \* each party's offer, once made
          signed, \* the pair of offers each party signed
          held    \* "nothing", "block" or, once it gave up, "undefined"

vars == <<offer, signed, held>>

Init ==
  /\ offer = [p \in Parties |-> None]
  /\ signed = [p \in Parties |-> None]
  /\ held = [p \in Parties |-> "nothing"]

Offer ==
  /\ offer[First] = None /\ held[First] = "nothing"
  /\ \E o \in Offers : offer' = [offer EXCEPT ![First] = o]
  /\ UNCHANGED <<signed, held>>

\* The second party's offer and signature are one step: it never reveals one
\* without the other.
AnswerAndSign ==
  /\ offer[First] # None /\ offer[Second] = None /\ held[Second] = "nothing"
  /\ \E o \in Offers :
       /\ offer' = [offer EXCEPT ![Second] = o]
       /\ signed' = [signed EXCEPT ![Second] = <<offer[First], o>>]
  /\ UNCHANGED held

Countersign ==
  /\ signed[Second] # None /\ signed[First] = None /\ held[First] = "nothing"
  /\ signed' = [signed EXCEPT ![First] = signed[Second]]
  /\ UNCHANGED <<offer, held>>

Obtain(p) ==
  /\ held[p] = "nothing"
  /\ \A q \in Parties : signed[q] = <<offer[First], offer[Second]>>
  /\ held' = [held EXCEPT ![p] = "block"]
  /\ UNCHANGED <<offer, signed>>

GiveUp(p) ==
  /\ held[p] = "nothing"
  /\ held' = [held EXCEPT ![p] = "undefined"]
  /\ UNCHANGED <<offer, signed>>

Next ==
  \/ Offer
  \/ AnswerAndSign
  \/ Countersign
  \/ \E p \in Parties : Obtain(p) \/ GiveUp(p)

\* A party that made its offer is not left hanging.
Fairness ==
  \A p \in Parties : WF_vars(offer[p] # None /\ (Obtain(p) \/ GiveUp(p)))

Spec == Init /\ [][Next]_vars /\ Fairness
=============================================================================
