------------------------- MODULE TcpConnectionProofs -------------------------
(***************************************************************************)
(* The safety of TcpConnection, for any timers, sizes and number of waits. *)
(*                                                                         *)
(* What user stands for decides the rest: who reads, how many bytes are    *)
(* still to come, which timer runs and for how long it has.  The inductive *)
(* invariant says that in five parts.                                      *)
(***************************************************************************)
EXTENDS TcpConnection, SequenceTheorems, TLAPS

\* Whoever reads is the one the connection belongs to, and on an open socket
\* that one does read.  The idle timer is listened to while the socket is open.
Listening ==
  /\ Reads("server") => user = "server"
  /\ Reads("pipe") => user = "waiting"
  /\ socket = "open" =>
       /\ user = "server" => Reads("server")
       /\ user = "waiting" => Reads("pipe")
       /\ <<"server", "timeout">> \in listeners
  /\ user \in {"refused", "failed"} => socket # "open"
  /\ pipes = (IF user \in {"server", "refused"} THEN 0 ELSE 1)

\* Exactly the last wait may be under way, and its timer runs.
Waiting ==
  /\ resumed \subseteq 1..waits
  /\ \A w \in 1..MaxWaits : w < waits => w \in resumed
  /\ UnderWay <=> user = "waiting"
  /\ \A w \in 1..MaxWaits : waitTimers[w] # Off => w <= waits

\* A reader has the bytes that are not on their way any more, and no complete
\* message; nothing is on its way to an application that does not wait.
Bytes ==
  socket = "open" =>
    /\ user = "server" => got["server"] + pending = Header + body /\ pending > 0
    /\ user = "waiting" => got["pipe"] + pending = Header + body /\ pending > 0
    /\ user \in {"app", "sent"} => pending = 0

\* The answers resolved are those sent, but for the one that is awaited.
Hearing ==
  /\ user \in {"server", "refused", "app", "sent"} => said = heard
  /\ user = "waiting" => said = Append(heard, body)
  /\ IsPrefix(heard, said)

\* The timer of what goes on began with it, any other timer is off or later.
Timers ==
  /\ openTimer # Off => user = "server"
  /\ closeTimer # Off => user = "closed"
  /\ socket = "open" =>
       /\ idleTimer # Off
       /\ user = "server" => openTimer # Off /\ openTimer + quiet = OpenLimit
       /\ user = "waiting" =>
            waitTimers[waits] # Off /\ waitTimers[waits] + quiet = WaitLimit
       /\ user # "closed" => idleTimer + quiet >= IdleLimit
       /\ user \in {"app", "sent"} => idleTimer + quiet = IdleLimit

IInv == TypeOK /\ Listening /\ Waiting /\ Bytes /\ Hearing /\ Timers

-----------------------------------------------------------------------------
(* What the steps share.                                                   *)

LEMMA Constants ==
  /\ OpenLimit \in Nat \ {0} /\ WaitLimit \in Nat \ {0} /\ IdleLimit \in Nat \ {0}
  /\ CloseLimit \in Nat \ {0} /\ OpenLimit < IdleLimit /\ WaitLimit < IdleLimit
  /\ Header \in Nat \ {0} /\ MaxBody \in Nat /\ MaxWaits \in Nat
  BY LimitAssumption, SizeAssumption

LEMMA WithoutFacts ==
  ASSUME NEW events, NEW r, NEW e
  PROVE  <<r, e>> \in Without(events) <=> <<r, e>> \in listeners /\ e \notin events
  BY DEF Without

LEMMA PrefixOfItself ==
  ASSUME NEW S, NEW s \in Seq(S)
  PROVE  IsPrefix(s, s)
  BY DEF IsPrefix

LEMMA PrefixAppended ==
  ASSUME NEW S, NEW s \in Seq(S), NEW t \in Seq(S), NEW b \in S, IsPrefix(s, t)
  PROVE  IsPrefix(s, Append(t, b))
  <1>1. Len(s) <= Len(t) /\ SubSeq(s, 1, Len(s)) = SubSeq(t, 1, Len(s))
    BY DEF IsPrefix
  <1>2. SubSeq(Append(t, b), 1, Len(s)) = SubSeq(t, 1, Len(s))
    BY <1>1
  <1> QED
    BY <1>1, <1>2 DEF IsPrefix

\* The end of a connection keeps what is not about open connections.
LEMMA DestroyKeeps ==
  ASSUME TypeOK, Destroy
  PROVE  /\ socket' \in {"destroyed", "closed"} /\ socket' # "open"
         /\ idleTimer' = Off /\ idleTimer' \in TimerUpTo(IdleLimit)
  BY DEF Destroy, TypeOK, TimerUpTo

LEMMA InitInvariant == Init => IInv
  <1> SUFFICES ASSUME Init PROVE IInv
    OBVIOUS
  <1> USE Constants
  <1>1. TypeOK
    <2>1. body \in 0..MaxBody /\ pending \in 0..(Header + MaxBody)
      BY DEF Init
    <2>2. \A l \in Nat : l \in TimerUpTo(l) /\ Off \in TimerUpTo(l)
      BY DEF TimerUpTo
    <2>3. 0 \in 0..(Header + MaxBody) /\ <<>> \in Seq(0..MaxBody) /\ 0 \in 0..MaxWaits
      OBVIOUS
    <2>4. got \in [Readers -> 0..(Header + MaxBody)]
      BY <2>3 DEF Init
    <2>5. /\ openTimer \in TimerUpTo(OpenLimit) /\ idleTimer \in TimerUpTo(IdleLimit)
          /\ closeTimer \in TimerUpTo(CloseLimit)
          /\ waitTimers \in [1..MaxWaits -> TimerUpTo(WaitLimit)]
      BY <2>2 DEF Init
    <2>6. listeners \subseteq Readers \X {"error", "timeout", "data", "close", "end"}
      BY DEF Init, Readers
    <2> QED
      BY <2>1, <2>3, <2>4, <2>5, <2>6 DEF Init, TypeOK, Users
  <1>2. Listening
    BY DEF Init, Listening, Reads
  <1>3. Waiting
    BY DEF Init, Waiting, UnderWay, Off
  <1>4. Bytes
    BY DEF Init, Bytes, Readers
  <1>5. Hearing
    <2>1. <<>> \in Seq(Nat)
      OBVIOUS
    <2> QED
      BY <2>1, PrefixOfItself DEF Init, Hearing
  <1>6. Timers
    BY DEF Init, Timers, Off
  <1> QED
    BY <1>1, <1>2, <1>3, <1>4, <1>5, <1>6 DEF IInv

\* A wait that is told it is over is the last one, and reads no more.
LEMMA RejectFacts ==
  ASSUME TypeOK, Waiting, UnderWay, Reject
  PROVE  /\ user = "waiting" /\ user' = "failed" /\ quiet' = 0
         /\ waits \in 1..MaxWaits
         /\ resumed' \subseteq 1..waits /\ resumed' \subseteq 1..MaxWaits
         /\ waits \in resumed' /\ \A w \in 1..MaxWaits : w < waits => w \in resumed'
         /\ listeners' \subseteq listeners
         /\ \A r : <<r, "data">> \notin listeners'
  <1> USE Constants DEF UnderWay
  <1>1. user = "waiting" /\ user' = "failed" /\ quiet' = 0
    BY DEF Waiting, Reject, Becomes
  <1>2. waits \in 1..MaxWaits
    BY DEF TypeOK
  <1>3. resumed' = resumed \cup {waits} /\ resumed \subseteq 1..waits
    BY DEF Reject, Waiting
  <1>4. resumed' \subseteq 1..waits /\ waits \in resumed'
    BY <1>2, <1>3
  <1>5. resumed' \subseteq 1..MaxWaits
    BY <1>2, <1>4
  <1>6. \A w \in 1..MaxWaits : w < waits => w \in resumed'
    BY <1>3 DEF Waiting
  <1>7. listeners' \subseteq listeners /\ \A r : <<r, "data">> \notin listeners'
    BY DEF Reject, Without, ReadingEvents
  <1> QED
    BY <1>1, <1>2, <1>4, <1>5, <1>6, <1>7

\* Bytes arrive for the one who reads, and never more than its message has.
LEMMA ArriveFacts ==
  ASSUME TypeOK, Listening, Bytes, NEW n, Arrive(n)
  PROVE  /\ socket = "open" /\ user \notin {"app", "sent"}
         /\ n \in Nat \ {0} /\ pending \in Nat /\ n <= pending
         /\ pending' = pending - n /\ pending' \in 0..(Header + MaxBody)
         /\ got' \in [Readers -> 0..(Header + MaxBody)]
         /\ \A r \in Readers : got[r] \in Nat
         /\ \A r \in Readers : Reads(r) => /\ got[r] + pending = Header + body
                                           /\ got'[r] = got[r] + n
  <1> USE Constants DEF Readers
  <1>1. socket = "open" /\ n \in 1..pending /\ pending' = pending - n
    BY DEF Arrive
  <1>2. pending \in 0..(Header + MaxBody) /\ body \in 0..MaxBody
        /\ got \in [Readers -> 0..(Header + MaxBody)]
    BY DEF TypeOK
  <1>3. \A r \in Readers : Reads(r) => got[r] + pending = Header + body
    BY <1>1 DEF Listening, Bytes
  <1>4. got' = [r \in Readers |-> IF Reads(r) THEN got[r] + n ELSE got[r]]
    BY DEF Arrive
  <1>5. \A r \in Readers : got'[r] \in 0..(Header + MaxBody)
    BY <1>1, <1>2, <1>3, <1>4
  <1>6. user \notin {"app", "sent"}
    BY <1>1, <1>2 DEF Bytes
  <1> QED
    BY <1>1, <1>2, <1>3, <1>4, <1>5, <1>6

-----------------------------------------------------------------------------
(* Bytes.                                                                  *)

LEMMA PartStep ==
  ASSUME IInv, NEW n, ArriveInPart(n)
  PROVE  IInv'
  <1> USE Constants DEF IInv, ArriveInPart
  <1>1. /\ socket = "open" /\ user \notin {"app", "sent"}
        /\ n \in Nat \ {0} /\ pending \in Nat /\ n <= pending /\ pending' = pending - n
        /\ pending' \in 0..(Header + MaxBody) /\ got' \in [Readers -> 0..(Header + MaxBody)]
        /\ \A r \in Readers : got[r] \in Nat
        /\ \A r \in Readers : Reads(r) => /\ got[r] + pending = Header + body
                                          /\ got'[r] = got[r] + n
    BY ArriveFacts
  <1>2. TypeOK'
    BY <1>1 DEF TypeOK, TimerUpTo, Arrive
  <1>3. Listening'
    BY DEF Listening, Reads, Arrive
  <1>4. Waiting'
    BY DEF Waiting, UnderWay, Arrive
  <1>5. Bytes'
    <2>1. \A r \in Readers : Reads(r) => got[r] + n < Header + body
      <3>1. \A r \in Readers : Reads(r) => ~(got[r] + n >= Header + body)
        BY DEF CompletesWith, Complete, Readers
      <3> QED
        BY <1>1, <3>1 DEF TypeOK
    <2>2. \A r \in Readers : Reads(r) => got'[r] + pending' = Header + body /\ pending' > 0
      BY <1>1, <2>1 DEF TypeOK
    <2>3. user' = user /\ body' = body
      BY DEF Arrive
    <2>4. (user = "server" => Reads("server")) /\ (user = "waiting" => Reads("pipe"))
      BY <1>1 DEF Listening
    <2> QED
      BY <1>1, <2>2, <2>3, <2>4 DEF Bytes, Readers
  <1>6. Hearing'
    BY DEF Hearing, Arrive
  <1>7. Timers'
    <2>1. idleTimer' = IdleLimit /\ IdleLimit # Off /\ quiet \in Nat
      BY DEF TypeOK, Off
    <2> QED
      BY <1>1, <2>1 DEF Timers, Arrive
  <1> QED
    BY <1>2, <1>3, <1>4, <1>5, <1>6, <1>7

LEMMA HandOverStep ==
  ASSUME IInv, NEW n, HandOver(n)
  PROVE  IInv'
  <1> USE Constants DEF IInv, HandOver, Becomes
  <1>1. /\ user = "server" /\ socket = "open" /\ pending' = 0
        /\ got' \in [Readers -> 0..(Header + MaxBody)] /\ pending' \in 0..(Header + MaxBody)
    <2>1. Reads("server") /\ got["server"] + n >= Header + body
      BY DEF CompletesWith, Complete
    <2>2. /\ n \in Nat /\ pending \in Nat /\ n <= pending /\ pending' = pending - n
          /\ got["server"] \in Nat /\ got["server"] + pending = Header + body
      BY <2>1, ArriveFacts DEF Readers
    <2>3. pending' = 0
      BY <2>1, <2>2 DEF TypeOK
    <2> QED
      BY <2>1, <2>3, ArriveFacts DEF Listening
  <1>2. TypeOK'
    BY <1>1 DEF TypeOK, TimerUpTo, Users, Arrive, Without
  <1>3. Listening'
    BY <1>1 DEF Listening, Reads, Without, ReadingEvents
  <1>4. Waiting'
    BY <1>1 DEF Waiting, UnderWay, Arrive
  <1>5. Bytes'
    BY <1>1 DEF Bytes
  <1>6. Hearing'
    BY <1>1 DEF Hearing, Arrive
  <1>7. Timers'
    BY <1>1 DEF Timers, Off, Arrive
  <1> QED
    BY <1>2, <1>3, <1>4, <1>5, <1>6, <1>7

LEMMA RefuseStep ==
  ASSUME IInv, NEW n, RefusePipe(n)
  PROVE  IInv'
  <1> USE Constants DEF IInv, RefusePipe, Becomes
  <1>1. /\ user = "server" /\ socket' = "destroyed" /\ idleTimer' = Off
        /\ got' \in [Readers -> 0..(Header + MaxBody)] /\ pending' \in 0..(Header + MaxBody)
    BY ArriveFacts DEF CompletesWith, Listening, Destroy
  <1>2. TypeOK'
    BY <1>1 DEF TypeOK, TimerUpTo, Users, Arrive, Without
  <1>3. Listening'
    BY <1>1 DEF Listening, Reads, Without, ReadingEvents
  <1>4. Waiting'
    BY <1>1 DEF Waiting, UnderWay, Arrive
  <1>5. Bytes'
    BY <1>1 DEF Bytes
  <1>6. Hearing'
    BY <1>1 DEF Hearing, Arrive
  <1>7. Timers'
    BY <1>1 DEF Timers, Off, Arrive
  <1> QED
    BY <1>2, <1>3, <1>4, <1>5, <1>6, <1>7

LEMMA ResolveStep ==
  ASSUME IInv, NEW n, Resolve(n)
  PROVE  IInv'
  <1> USE Constants DEF IInv, Resolve, Becomes
  <1>1. /\ user = "waiting" /\ socket = "open" /\ pending' = 0
        /\ got["pipe"] + n - Header = body /\ body \in 0..MaxBody
        /\ got' \in [Readers -> 0..(Header + MaxBody)] /\ pending' \in 0..(Header + MaxBody)
    <2>1. Reads("pipe") /\ got["pipe"] + n >= Header + body
      BY DEF CompletesWith, Complete
    <2>2. /\ n \in Nat /\ pending \in Nat /\ n <= pending /\ pending' = pending - n
          /\ got["pipe"] \in Nat /\ got["pipe"] + pending = Header + body
      BY <2>1, ArriveFacts DEF Readers
    <2>3. pending' = 0 /\ got["pipe"] + n - Header = body /\ body \in 0..MaxBody
      <3>1. body \in 0..MaxBody /\ body \in Nat
        BY DEF TypeOK
      <3> QED
        BY <2>1, <2>2, <3>1
    <2> QED
      BY <2>1, <2>3, ArriveFacts DEF Listening
  <1>2. waits \in 1..MaxWaits /\ resumed' \subseteq 1..waits /\ resumed' \subseteq 1..MaxWaits
        /\ waits \in resumed' /\ waits' = waits
        /\ \A w \in 1..MaxWaits : w < waits => w \in resumed'
    <2>1. UnderWay /\ waits' = waits
      BY <1>1 DEF Waiting, Arrive
    <2>2. waits \in 1..MaxWaits
      BY <2>1 DEF UnderWay, TypeOK
    <2>3. resumed' = resumed \cup {waits} /\ resumed \subseteq 1..waits
      BY DEF Waiting
    <2>4. resumed' \subseteq 1..waits
      BY <2>2, <2>3
    <2>5. resumed' \subseteq 1..MaxWaits
      BY <2>2, <2>4
    <2> QED
      BY <2>1, <2>2, <2>3, <2>4, <2>5 DEF Waiting
  <1>3. TypeOK'
    <2>1. heard' \in Seq(0..MaxBody)
      BY <1>1 DEF TypeOK
    <2> QED
      BY <1>1, <1>2, <2>1 DEF TypeOK, TimerUpTo, Users, Arrive, Without
  <1>4. Listening'
    BY <1>1 DEF Listening, Reads, Without, ReadingEvents
  <1>5. Waiting'
    BY <1>1, <1>2 DEF Waiting, UnderWay, Arrive
  <1>6. Bytes'
    BY <1>1 DEF Bytes
  <1>7. Hearing'
    <2>1. said' = heard' /\ user' = "app"
      BY <1>1 DEF Hearing, Arrive
    <2>2. said \in Seq(0..MaxBody) /\ said' = said
      BY DEF TypeOK, Arrive
    <2> QED
      BY <2>1, <2>2, PrefixOfItself DEF Hearing
  <1>8. Timers'
    BY <1>1 DEF Timers, Off, Arrive
  <1> QED
    BY <1>3, <1>4, <1>5, <1>6, <1>7, <1>8

-----------------------------------------------------------------------------
(* The application.                                                        *)

LEMMA SendAndWaitStep ==
  ASSUME IInv, SendAndWait
  PROVE  IInv'
  <1> USE Constants DEF IInv, SendAndWait, Becomes
  <1>1. PICK b \in 0..MaxBody :
          body' = b /\ pending' = Header + b /\ said' = Append(said, b)
    OBVIOUS
  <1>2. /\ waits \in Nat /\ waits' = waits + 1 /\ waits' \in 1..MaxWaits /\ waits' \notin resumed
        /\ waitTimers'[waits'] = WaitLimit
        /\ \A w \in 1..MaxWaits : w # waits' => waitTimers'[w] = waitTimers[w]
        /\ waitTimers' \in [1..MaxWaits -> TimerUpTo(WaitLimit)]
    <2>1. waits \in 0..MaxWaits /\ waits' = waits + 1 /\ waits < MaxWaits
      BY DEF TypeOK
    <2>2. waits' \in 1..MaxWaits
      BY <2>1
    <2>3. resumed \subseteq 1..waits
      BY DEF Waiting
    <2>4. waits' \notin resumed
      BY <2>1, <2>3
    <2>5. WaitLimit \in TimerUpTo(WaitLimit)
      BY DEF TimerUpTo
    <2>6. waitTimers \in [1..MaxWaits -> TimerUpTo(WaitLimit)]
      BY DEF TypeOK
    <2> QED
      BY <2>1, <2>2, <2>4, <2>5, <2>6
  <1>3. TypeOK'
    <2>1. said' \in Seq(0..MaxBody)
      BY <1>1 DEF TypeOK
    <2>2. got' \in [Readers -> 0..(Header + MaxBody)]
      <3>1. 0 \in 0..(Header + MaxBody)
        OBVIOUS
      <3> QED
        BY <3>1 DEF TypeOK
    <2>3. pending' \in 0..(Header + MaxBody) /\ body' \in 0..MaxBody
      BY <1>1
    <2>4. listeners' \subseteq Readers \X {"error", "timeout", "data", "close", "end"}
      BY DEF TypeOK, Readers
    <2>5. idleTimer' \in TimerUpTo(IdleLimit)
      BY DEF TimerUpTo
    <2> QED
      BY <1>2, <2>1, <2>2, <2>3, <2>4, <2>5, SMTT(30) DEF TypeOK, Users
  <1>4. Listening'
    BY DEF Listening, Reads
  <1>5. Waiting'
    <2>1. resumed' = resumed /\ resumed \subseteq 1..waits /\ resumed \subseteq 1..waits'
      BY <1>2 DEF Waiting
    <2>2. \A w \in 1..MaxWaits : w < waits' => w \in resumed
      <3>1. waits > 0 => waits \in resumed
        BY DEF Waiting, UnderWay
      <3> QED
        BY <1>2, <3>1 DEF Waiting
    <2>3. \A w \in 1..MaxWaits : waitTimers'[w] # Off => w <= waits'
      BY <1>2 DEF Waiting
    <2>4. UnderWay' /\ user' = "waiting"
      BY <1>2, <2>1 DEF UnderWay
    <2> QED
      BY <2>1, <2>2, <2>3, <2>4 DEF Waiting
  <1>6. Bytes'
    <2>1. got'["pipe"] = 0 /\ user' = "waiting"
      BY DEF TypeOK, Readers
    <2> QED
      BY <1>1, <2>1 DEF Bytes
  <1>7. Hearing'
    <2>1. said = heard /\ heard \in Seq(0..MaxBody) /\ heard' = heard
      BY DEF Hearing, TypeOK
    <2>2. IsPrefix(heard, Append(heard, b))
      BY <2>1, PrefixOfItself, PrefixAppended
    <2> QED
      BY <1>1, <2>1, <2>2 DEF Hearing
  <1>8. Timers'
    <2>1. user = "app" /\ user' = "waiting" /\ quiet' = 0 /\ idleTimer' = IdleLimit
      OBVIOUS
    <2>2. IdleLimit # Off /\ WaitLimit # Off
      BY DEF Off
    <2> QED
      BY <1>2, <2>1, <2>2 DEF Timers
  <1> QED
    BY <1>3, <1>4, <1>5, <1>6, <1>7, <1>8

LEMMA SendOnlyStep ==
  ASSUME IInv, SendOnly
  PROVE  IInv'
  <1> USE Constants DEF IInv, SendOnly
  <1>1. TypeOK'
    BY DEF TypeOK, TimerUpTo, Off, Users, Readers, Becomes
  <1>2. Listening'
    BY DEF Listening, Reads, Becomes
  <1>3. Waiting'
    BY DEF Waiting, UnderWay, Off, Becomes
  <1>4. Bytes'
    BY DEF Bytes, Becomes
  <1>5. Hearing'
    BY DEF Hearing, Becomes
  <1>6. Timers'
    BY DEF Timers, Off, Becomes
  <1> QED
    BY <1>1, <1>2, <1>3, <1>4, <1>5, <1>6

LEMMA SendFailsStep ==
  ASSUME IInv, SendFails
  PROVE  IInv'
  <1> USE Constants DEF IInv, SendFails, timers
  <1>1. TypeOK'
    BY DEF TypeOK, TimerUpTo, Off, Users, Readers, Becomes
  <1>2. Listening'
    BY DEF Listening, Reads, Becomes
  <1>3. Waiting'
    BY DEF Waiting, UnderWay, Off, Becomes
  <1>4. Bytes'
    BY DEF Bytes, Becomes
  <1>5. Hearing'
    BY DEF Hearing, Becomes
  <1>6. Timers'
    BY DEF Timers, Off, Becomes
  <1> QED
    BY <1>1, <1>2, <1>3, <1>4, <1>5, <1>6

LEMMA CloseStep ==
  ASSUME IInv, Close
  PROVE  IInv'
  <1> USE Constants DEF IInv, Close, Becomes
  <1>1. TypeOK'
    <2>1. CloseLimit \in TimerUpTo(CloseLimit)
      BY DEF TimerUpTo
    <2> QED
      BY <2>1 DEF TypeOK, Users
  <1>2. Listening'
    BY DEF Listening, Reads
  <1>3. Waiting'
    <2>1. user # "waiting" /\ user' # "waiting"
      OBVIOUS
    <2>2. ~UnderWay
      BY <2>1 DEF Waiting
    <2>3. ~UnderWay'
      BY <2>2 DEF UnderWay
    <2> QED
      BY <2>1, <2>3 DEF Waiting
  <1>4. Bytes'
    BY DEF Bytes
  <1>5. Hearing'
    BY DEF Hearing
  <1>6. Timers'
    <2>1. openTimer = Off
      BY DEF Timers
    <2>2. closeTimer' = CloseLimit /\ user' = "closed"
      OBVIOUS
    <2> QED
      BY <2>1, <2>2 DEF Timers
  <1> QED
    BY <1>1, <1>2, <1>3, <1>4, <1>5, <1>6

-----------------------------------------------------------------------------
(* The connection ends.                                                    *)

LEMMA PeerEndsStep ==
  ASSUME IInv, PeerEnds
  PROVE  IInv'
  <1> USE Constants DEF IInv, PeerEnds
  <1>1. TypeOK'
    BY DEF TypeOK, TimerUpTo, Off, Users, Readers, Cleanup, Destroy, Without, ReadingEvents
  <1>2. Listening'
    BY DEF Listening, Reads, Cleanup, Destroy, Without, ReadingEvents
  <1>3. Waiting'
    BY DEF Waiting, UnderWay, Off, Cleanup, Destroy, Without, ReadingEvents
  <1>4. Bytes'
    BY DEF Bytes, Cleanup, Destroy, Without, ReadingEvents
  <1>5. Hearing'
    BY DEF Hearing, Cleanup, Destroy, Without, ReadingEvents
  <1>6. Timers'
    BY DEF Timers, Off, Cleanup, Destroy, Without, ReadingEvents
  <1> QED
    BY <1>1, <1>2, <1>3, <1>4, <1>5, <1>6

LEMMA PeerResetsStep ==
  ASSUME IInv, PeerResets
  PROVE  IInv'
  <1> USE Constants DEF IInv, PeerResets
  <1>1. socket' # "open" /\ socket' \in {"destroyed", "closed"} /\ idleTimer' \in TimerUpTo(IdleLimit)
    BY DestroyKeeps
  <1>2. CASE UnderWay
    <2>1. Reject /\ waits' = waits
      BY <1>2
    <2>2. /\ user = "waiting" /\ user' = "failed" /\ quiet' = 0
          /\ resumed' \subseteq 1..waits /\ resumed' \subseteq 1..MaxWaits /\ waits \in resumed'
          /\ \A w \in 1..MaxWaits : w < waits => w \in resumed'
          /\ listeners' \subseteq listeners /\ \A r : <<r, "data">> \notin listeners'
      BY <1>2, <2>1, RejectFacts
    <2>3. TypeOK'
      BY <1>1, <2>2 DEF TypeOK, Users
    <2>4. Listening'
      BY <1>1, <2>2 DEF Listening, Reads
    <2>5. Waiting'
      BY <2>2 DEF Waiting, UnderWay
    <2>6. Bytes' /\ Hearing'
      BY <1>1, <2>2 DEF Bytes, Hearing
    <2>7. Timers'
      BY <1>1, <2>2 DEF Timers
    <2> QED
      BY <2>3, <2>4, <2>5, <2>6, <2>7
  <1>3. CASE ~UnderWay
    <2>1. UNCHANGED <<resumed, listeners, user, quiet>>
      BY <1>3
    <2>2. TypeOK'
      BY <1>1, <2>1 DEF TypeOK
    <2>3. Listening'
      BY <1>1, <2>1 DEF Listening, Reads
    <2>4. Waiting'
      BY <2>1 DEF Waiting, UnderWay
    <2>5. Bytes' /\ Hearing'
      BY <1>1, <2>1 DEF Bytes, Hearing
    <2>6. Timers'
      BY <1>1, <2>1 DEF Timers
    <2> QED
      BY <2>2, <2>3, <2>4, <2>5, <2>6
  <1> QED
    BY <1>2, <1>3

LEMMA SocketClosesStep ==
  ASSUME IInv, SocketCloses
  PROVE  IInv'
  <1> USE Constants DEF IInv, SocketCloses, timers
  <1>1. CASE <<"pipe", "close">> \in listeners /\ UnderWay
    <2>1. Reject /\ waits' = waits /\ UnderWay
      BY <1>1
    <2>2. /\ user = "waiting" /\ user' = "failed" /\ quiet' = 0
          /\ resumed' \subseteq 1..waits /\ resumed' \subseteq 1..MaxWaits /\ waits \in resumed'
          /\ \A w \in 1..MaxWaits : w < waits => w \in resumed'
          /\ listeners' \subseteq listeners /\ \A r : <<r, "data">> \notin listeners'
      BY <2>1, RejectFacts
    <2>3. TypeOK'
      BY <2>2 DEF TypeOK, Users
    <2>4. Listening'
      BY <2>2 DEF Listening, Reads
    <2>5. Waiting'
      BY <2>2 DEF Waiting, UnderWay
    <2>6. Bytes' /\ Hearing'
      BY <2>2 DEF Bytes, Hearing
    <2>7. Timers'
      BY <2>2 DEF Timers
    <2> QED
      BY <2>3, <2>4, <2>5, <2>6, <2>7
  <1>2. CASE ~(<<"pipe", "close">> \in listeners /\ UnderWay)
    <2>1. UNCHANGED <<resumed, user, quiet>> /\ listeners' \subseteq listeners
      BY <1>2 DEF Without
    <2>2. TypeOK'
      BY <2>1 DEF TypeOK
    <2>3. Listening'
      BY <2>1 DEF Listening, Reads
    <2>4. Waiting'
      BY <2>1 DEF Waiting, UnderWay
    <2>5. Bytes' /\ Hearing'
      BY <2>1 DEF Bytes, Hearing
    <2>6. Timers'
      BY <2>1 DEF Timers
    <2> QED
      BY <2>2, <2>3, <2>4, <2>5, <2>6
  <1> QED
    BY <1>1, <1>2

-----------------------------------------------------------------------------
(* Timers.                                                                 *)

LEMMA OpenTimeoutStep ==
  ASSUME IInv, OpenTimeout
  PROVE  IInv'
  <1> USE Constants DEF IInv, OpenTimeout
  <1>1. TypeOK'
    BY DEF TypeOK, TimerUpTo, Off, Users, Readers, Cleanup, Destroy, Without, ReadingEvents
  <1>2. Listening'
    BY DEF Listening, Reads, Cleanup, Destroy, Without, ReadingEvents
  <1>3. Waiting'
    BY DEF Waiting, UnderWay, Off, Cleanup, Destroy, Without, ReadingEvents
  <1>4. Bytes'
    BY DEF Bytes, Cleanup, Destroy, Without, ReadingEvents
  <1>5. Hearing'
    BY DEF Hearing, Cleanup, Destroy, Without, ReadingEvents
  <1>6. Timers'
    BY DEF Timers, Off, Cleanup, Destroy, Without, ReadingEvents
  <1> QED
    BY <1>1, <1>2, <1>3, <1>4, <1>5, <1>6

LEMMA IdleTimeoutStep ==
  ASSUME IInv, IdleTimeout
  PROVE  IInv'
  <1> USE Constants DEF IInv, IdleTimeout
  <1>1. TypeOK'
    BY DEF TypeOK, TimerUpTo, Off, Users, Readers, Cleanup, Destroy, Without, ReadingEvents
  <1>2. Listening'
    BY DEF Listening, Reads, Cleanup, Destroy, Without, ReadingEvents
  <1>3. Waiting'
    BY DEF Waiting, UnderWay, Off, Cleanup, Destroy, Without, ReadingEvents
  <1>4. Bytes'
    BY DEF Bytes, Cleanup, Destroy, Without, ReadingEvents
  <1>5. Hearing'
    BY DEF Hearing, Cleanup, Destroy, Without, ReadingEvents
  <1>6. Timers'
    <2>1. CASE socket = "open"
      <3>1. socket' # "open"
        BY <2>1 DEF Listening, Cleanup, Destroy
      <3> QED
        BY <3>1 DEF Timers
    <2>2. CASE socket # "open"
      <3>1. socket' # "open"
        BY <2>2 DEF Cleanup, Destroy
      <3> QED
        BY <3>1 DEF Timers
    <2> QED
      BY <2>1, <2>2
  <1> QED
    BY <1>1, <1>2, <1>3, <1>4, <1>5, <1>6

LEMMA CloseTimeoutStep ==
  ASSUME IInv, CloseTimeout
  PROVE  IInv'
  <1> USE Constants DEF IInv, CloseTimeout
  <1>1. TypeOK'
    BY DEF TypeOK, TimerUpTo, Off, Users, Readers, Destroy
  <1>2. Listening'
    BY DEF Listening, Reads, Destroy
  <1>3. Waiting'
    BY DEF Waiting, UnderWay, Off, Destroy
  <1>4. Bytes'
    BY DEF Bytes, Destroy
  <1>5. Hearing'
    BY DEF Hearing, Destroy
  <1>6. Timers'
    BY DEF Timers, Off, Destroy
  <1> QED
    BY <1>1, <1>2, <1>3, <1>4, <1>5, <1>6

LEMMA WaitTimeoutStep ==
  ASSUME IInv, NEW w \in 1..MaxWaits, WaitTimeout(w)
  PROVE  IInv'
  <1> USE Constants DEF IInv, WaitTimeout
  <1>1. /\ waitTimers' \in [1..MaxWaits -> TimerUpTo(WaitLimit)]
        /\ \A v \in 1..MaxWaits : waitTimers'[v] # Off => waitTimers[v] # Off
        /\ waitTimers'[w] = Off /\ waitTimers[w] # Off
        /\ \A v \in 1..MaxWaits : v # w => waitTimers'[v] = waitTimers[v]
    BY DEF TypeOK, TimerUpTo, Off
  <1>2. CASE w \notin resumed
    <2>1. UnderWay
      BY <1>1, <1>2 DEF Waiting, UnderWay, TypeOK
    <2>2. Reject /\ Destroy /\ waits' = waits
      BY <1>2
    <2>3. socket' # "open" /\ socket' \in {"destroyed", "closed"} /\ idleTimer' \in TimerUpTo(IdleLimit)
      BY <2>2, DestroyKeeps
    <2>4. /\ user = "waiting" /\ user' = "failed" /\ quiet' = 0
          /\ resumed' \subseteq 1..waits /\ resumed' \subseteq 1..MaxWaits /\ waits \in resumed'
          /\ \A v \in 1..MaxWaits : v < waits => v \in resumed'
          /\ listeners' \subseteq listeners /\ \A r : <<r, "data">> \notin listeners'
      BY <2>1, <2>2, RejectFacts
    <2>5. TypeOK'
      BY <1>1, <2>3, <2>4 DEF TypeOK, Users
    <2>6. Listening'
      BY <2>3, <2>4 DEF Listening, Reads
    <2>7. Waiting'
      BY <1>1, <2>2, <2>4 DEF Waiting, UnderWay
    <2>8. Bytes' /\ Hearing'
      BY <2>3, <2>4 DEF Bytes, Hearing
    <2>9. Timers'
      BY <2>3, <2>4 DEF Timers
    <2> QED
      BY <2>5, <2>6, <2>7, <2>8, <2>9
  <1>3. CASE w \in resumed
    <2>1. UNCHANGED <<listeners, resumed, user, quiet, socket, idleTimer, waits>>
      BY <1>3
    <2>2. TypeOK'
      BY <1>1, <2>1 DEF TypeOK
    <2>3. Listening'
      BY <2>1 DEF Listening, Reads
    <2>4. Waiting'
      BY <1>1, <2>1 DEF Waiting, UnderWay
    <2>5. Bytes' /\ Hearing'
      BY <2>1 DEF Bytes, Hearing
    <2>6. Timers'
      <3>1. user = "waiting" => waits \in 1..MaxWaits /\ w # waits
        BY <1>3 DEF Waiting, UnderWay, TypeOK
      <3>2. user = "waiting" => waitTimers'[waits] = waitTimers[waits]
        BY <1>1, <3>1
      <3> QED
        BY <2>1, <3>2 DEF Timers
    <2> QED
      BY <2>2, <2>3, <2>4, <2>5, <2>6
  <1> QED
    BY <1>2, <1>3

LEMMA TickStep ==
  ASSUME IInv, Tick
  PROVE  IInv'
  <1> USE Constants DEF IInv, Tick
  <1>1. TypeOK'
    BY SMTT(30) DEF TypeOK, TimerUpTo, Off, Users, Readers, Down
  <1>2. Listening'
    BY DEF Listening, Reads, Down
  <1>3. Waiting'
    BY DEF Waiting, UnderWay, Off, Down
  <1>4. Bytes'
    BY DEF Bytes, Down
  <1>5. Hearing'
    BY DEF Hearing, Down
  <1>6. Timers'
    <2>1. /\ openTimer # 0 /\ idleTimer # 0 /\ closeTimer # 0 /\ quiet \in Nat
          /\ openTimer \in {Off} \cup 0..OpenLimit /\ idleTimer \in {Off} \cup 0..IdleLimit
          /\ closeTimer \in {Off} \cup 0..CloseLimit
          /\ openTimer' = Down(openTimer) /\ idleTimer' = Down(idleTimer)
          /\ closeTimer' = Down(closeTimer)
      BY DEF TypeOK, TimerUpTo
    <2>2. /\ (openTimer' # Off <=> openTimer # Off) /\ (idleTimer' # Off <=> idleTimer # Off)
          /\ (closeTimer' # Off <=> closeTimer # Off)
          /\ (openTimer # Off => openTimer' = openTimer - 1)
          /\ (idleTimer # Off => idleTimer' = idleTimer - 1)
      BY <2>1 DEF Off, Down
    <2>3. user = "waiting" /\ waitTimers[waits] # Off =>
            waitTimers'[waits] # Off /\ waitTimers'[waits] = waitTimers[waits] - 1
      <3>1. SUFFICES ASSUME user = "waiting", waitTimers[waits] # Off
                     PROVE  waitTimers'[waits] # Off /\ waitTimers'[waits] = waitTimers[waits] - 1
        OBVIOUS
      <3>2. waits \in 1..MaxWaits
        BY <3>1, SMTT(30) DEF Waiting, UnderWay, TypeOK
      <3>3. waitTimers[waits] \in {Off} \cup 0..WaitLimit /\ waitTimers[waits] # 0
        BY <3>2 DEF TypeOK, TimerUpTo
      <3>4. waitTimers'[waits] = Down(waitTimers[waits])
        BY <3>2
      <3> QED
        BY <3>1, <3>3, <3>4 DEF Down, Off
    <2>4. /\ user' = user /\ socket' = socket /\ waits' = waits
          /\ quiet' = (IF socket = "open" THEN quiet + 1 ELSE quiet)
      OBVIOUS
    <2>5. user = "waiting" => waitTimers[waits] \in Int
      BY DEF Waiting, UnderWay, TypeOK, TimerUpTo, Off
    <2>6. openTimer \in Int /\ idleTimer \in Int
      BY <2>1 DEF Off
    <2> HIDE DEF Tick
    <2> QED
      BY <2>1, <2>2, <2>3, <2>4, <2>5, <2>6 DEF Timers
  <1> QED
    BY <1>1, <1>2, <1>3, <1>4, <1>5, <1>6

LEMMA StepInvariant == IInv /\ [Next]_vars => IInv'
  <1> SUFFICES ASSUME IInv, [Next]_vars PROVE IInv'
    OBVIOUS
  <1>1. ASSUME NEW n \in 1..(Header + MaxBody),
               ArriveInPart(n) \/ HandOver(n) \/ RefusePipe(n) \/ Resolve(n)
        PROVE  IInv'
    BY <1>1, PartStep, HandOverStep, RefuseStep, ResolveStep
  <1>2. CASE SendAndWait \/ SendOnly \/ SendFails \/ Close
    BY <1>2, SendAndWaitStep, SendOnlyStep, SendFailsStep, CloseStep
  <1>3. CASE PeerEnds \/ PeerResets
    BY <1>3, PeerEndsStep, PeerResetsStep
  <1>4. CASE Timing
    BY <1>4, TickStep, OpenTimeoutStep, IdleTimeoutStep, CloseTimeoutStep, WaitTimeoutStep,
       SocketClosesStep DEF Timing
  <1>5. CASE UNCHANGED vars
    BY <1>5 DEF IInv, vars, timers, TypeOK, Listening, Reads, Waiting, UnderWay, Bytes,
                Hearing, Timers
  <1> QED
    BY <1>1, <1>2, <1>3, <1>4, <1>5 DEF Next

\* The inductive invariant of a connection.
THEOREM ConnectionInvariant == Spec => []IInv
  BY InitInvariant, StepInvariant, PTL DEF Spec

-----------------------------------------------------------------------------
(* The properties.                                                         *)

\* Every variable of the connection keeps its type.
THEOREM ConnectionTypeOK == Spec => []TypeOK
  <1>1. IInv => TypeOK
    BY DEF IInv
  <1> QED
    BY <1>1, ConnectionInvariant, PTL

\* The server gives a connection to the application at most once.
THEOREM ConnectionOnePipe == Spec => []OnePipe
  <1>1. IInv => OnePipe
    BY DEF IInv, Listening, OnePipe
  <1> QED
    BY <1>1, ConnectionInvariant, PTL

\* However the bytes are cut up, the pipe resolves with the answers as sent.
THEOREM ConnectionAnswersIntact == Spec => []AnswersIntact
  <1>1. IInv => AnswersIntact
    BY DEF IInv, Hearing, AnswersIntact
  <1> QED
    BY <1>1, ConnectionInvariant, PTL

\* Nobody waits on an open connection for a message that is there already.
THEOREM ConnectionNothingHereIsAwaited == Spec => []NothingHereIsAwaited
  <1>1. IInv => NothingHereIsAwaited
    BY DEF IInv, Bytes, NothingHereIsAwaited
  <1> QED
    BY <1>1, ConnectionInvariant, PTL

\* A step that cuts the connection, and what it is entitled by.
LEMMA CutStep ==
  ASSUME IInv, [Next]_vars, socket = "open", socket' # "open"
  PROVE  peerLeft' \/ user' = "refused" \/ user = "closed" \/ quiet = LimitOf(user)
  <1> USE Constants DEF IInv
  <1>1. ASSUME NEW n, ArriveInPart(n) \/ HandOver(n) \/ Resolve(n) PROVE FALSE
    BY <1>1 DEF ArriveInPart, HandOver, Resolve
  <1>2. ASSUME NEW n, RefusePipe(n) PROVE user' = "refused"
    BY <1>2 DEF RefusePipe, Becomes
  <1>3. CASE SendAndWait \/ SendOnly \/ SendFails \/ Close \/ Tick \/ SocketCloses
    BY <1>3 DEF SendAndWait, SendOnly, SendFails, Close, Tick, SocketCloses
  <1>4. CASE PeerEnds \/ PeerResets
    BY <1>4 DEF PeerEnds, PeerResets
  <1>5. CASE OpenTimeout
    <2>1. user = "server" /\ openTimer = 0 /\ openTimer + quiet = OpenLimit
      BY <1>5 DEF OpenTimeout, Timers, Off
    <2> QED
      BY <2>1 DEF LimitOf, TypeOK
  <1>6. CASE IdleTimeout
    <2>1. idleTimer = 0 /\ quiet \in Nat
      BY <1>6 DEF IdleTimeout, TypeOK
    <2>2. CASE user = "server"
      <3>1. openTimer \in Nat /\ openTimer + quiet = OpenLimit /\ idleTimer + quiet >= IdleLimit
        BY <2>2 DEF Timers, TypeOK, TimerUpTo
      <3> QED
        BY <2>1, <3>1
    <2>3. CASE user = "waiting"
      <3>1. waits \in 1..MaxWaits
        BY <2>3 DEF Waiting, UnderWay, TypeOK
      <3>2. waitTimers[waits] \in Nat /\ waitTimers[waits] + quiet = WaitLimit
            /\ idleTimer + quiet >= IdleLimit
        BY <2>3, <3>1 DEF Timers, TypeOK, TimerUpTo
      <3> QED
        BY <2>1, <3>2
    <2>4. CASE user \in {"app", "sent"}
      <3>1. idleTimer + quiet = IdleLimit
        BY <2>4 DEF Timers
      <3> QED
        BY <2>1, <2>4, <3>1 DEF LimitOf
    <2>5. user \in Users /\ user \notin {"refused", "failed"}
      BY DEF TypeOK, Listening
    <2> QED
      BY <2>2, <2>3, <2>4, <2>5 DEF Users
  <1>7. CASE CloseTimeout
    BY <1>7 DEF CloseTimeout, Timers, Off
  <1>8. ASSUME NEW w \in 1..MaxWaits, WaitTimeout(w)
        PROVE  quiet = LimitOf(user)
    <2>1. w \notin resumed /\ waitTimers[w] = 0
      BY <1>8 DEF WaitTimeout
    <2>2. UnderWay /\ w = waits
      BY <2>1 DEF Waiting, UnderWay, TypeOK, Off
    <2>3. user = "waiting" /\ waitTimers[waits] + quiet = WaitLimit
      BY <2>2 DEF Waiting, Timers
    <2> QED
      BY <2>1, <2>2, <2>3 DEF LimitOf, TypeOK
  <1>9. CASE UNCHANGED vars
    BY <1>9 DEF vars
  <1> QED
    BY <1>1, <1>2, <1>3, <1>4, <1>5, <1>6, <1>7, <1>8, <1>9 DEF Next, Timing

\* No timer cuts a connection for something that is over, and none before its
\* whole time: only the peer, the application, or the limit of what goes on.
THEOREM ConnectionCutForAReason == Spec => CutForAReason
  <1>1. IInv /\ [Next]_vars =>
          [socket = "open" /\ socket' # "open" =>
             peerLeft' \/ user' = "refused" \/ user = "closed" \/ quiet = LimitOf(user)]_vars
    BY CutStep
  <1> QED
    BY <1>1, ConnectionInvariant, PTL DEF Spec, CutForAReason
=============================================================================
