---------------------------- MODULE TcpConnection ----------------------------
(***************************************************************************)
(* One connection of XyoServerTcpNetwork, from the socket's arrival to its *)
(* end: the server reads the first message and hands the socket to the     *)
(* application as an XyoTcpPipe, on which the application sends and waits. *)
(* Bytes arrive in pieces of any size; of a byte only its place matters.   *)
(* The peer speaks when it is spoken to: it begins, and then answers each  *)
(* message that awaits an answer.                                          *)
(*                                                                         *)
(* Time passes in ticks and a timer that is due fires before the next one: *)
(* the event loop is never blocked for a tick.                             *)
(***************************************************************************)
EXTENDS Integers, Sequences, SequencesExt

CONSTANTS OpenLimit, WaitLimit, IdleLimit, CloseLimit,  \* the timers, in ticks
          Header,    \* bytes of the size in front of a message
          MaxBody,   \* bound on the bytes of a message
          MaxWaits   \* bound on the answers the application awaits

ASSUME LimitAssumption ==
  /\ {OpenLimit, WaitLimit, IdleLimit, CloseLimit} \subseteq Nat \ {0}
  /\ OpenLimit < IdleLimit /\ WaitLimit < IdleLimit
ASSUME SizeAssumption == Header \in Nat \ {0} /\ MaxBody \in Nat /\ MaxWaits \in Nat

VARIABLES
  socket,     \* "open", "destroyed" with its close event to come, "closed"
  listeners,  \* the <<owner, event>> pairs registered on the socket
  openTimer, idleTimer, closeTimer,  \* ticks left, or Off
  waitTimers, \* the same for the timer of each wait
  user,       \* who has the socket, and what for
  waits,      \* waits begun
  resumed,    \* the waits whose hasResumed is set
  got,        \* bytes each reader has (currentSize)
  body, pending,  \* size of the peer's message, and its bytes yet to arrive
  said, heard,    \* sizes of the answers sent, and of those the pipe resolved with
  pipes,      \* pipes given to the application
  peerLeft,   \* the peer ended or lost the connection
  quiet       \* ticks since user last changed

timers == <<openTimer, idleTimer, closeTimer, waitTimers>>
vars == <<socket, listeners, timers, user, waits, resumed, got, body, pending,
          said, heard, pipes, peerLeft, quiet>>

Off == -1
Readers == {"server", "pipe"}
ReadingEvents == {"data", "close", "end"}
Users == {"server", "refused", "app", "waiting", "failed", "sent", "closed"}

Init ==
  /\ socket = "open"
  /\ listeners = {"server"} \X {"error", "timeout", "data", "close", "end"}
  /\ openTimer = OpenLimit /\ idleTimer = IdleLimit /\ closeTimer = Off
  /\ waitTimers = [w \in 1..MaxWaits |-> Off]
  /\ user = "server" /\ quiet = 0
  /\ waits = 0 /\ resumed = {}
  /\ got = [r \in Readers |-> 0]
  /\ body \in 0..MaxBody /\ pending = Header + body
  /\ said = <<>> /\ heard = <<>> /\ pipes = 0
  /\ peerLeft = FALSE

\* removeAllListeners of these events, whoever registered them.
Without(events) == {l \in listeners : l[2] \notin events}

\* socket.destroy, which also ends the idle timer.
Destroy ==
  /\ socket' = IF socket = "open" THEN "destroyed" ELSE socket
  /\ idleTimer' = Off

Becomes(u) == user' = u /\ quiet' = 0

-----------------------------------------------------------------------------
(* Bytes.                                                                  *)

\* Mutants: the size is taken to be that of the body; it has to be exceeded.
CompleteWithoutHeader(size) == size >= Header /\ size >= body
CompleteBeyond(size) == size > Header + body

\* currentSize >= waitSize, where the size in front of the message counts itself
\* and is known once it is there.
Complete(size) == size >= Header + body

Reads(r) == <<r, "data">> \in listeners
CompletesWith(r, n) == Reads(r) /\ Complete(got[r] + n)

\* n bytes arrive; without a listener the socket, which flows, drops them.
Arrive(n) ==
  /\ socket = "open" /\ n \in 1..pending
  /\ pending' = pending - n
  /\ got' = [r \in Readers |-> IF Reads(r) THEN got[r] + n ELSE got[r]]
  /\ UNCHANGED <<body, said, waits, closeTimer, waitTimers, peerLeft>>

ArriveInPart(n) ==
  /\ Arrive(n)
  /\ ~CompletesWith("server", n) /\ ~CompletesWith("pipe", n)
  /\ idleTimer' = IdleLimit
  /\ UNCHANGED <<socket, listeners, openTimer, user, resumed, heard, pipes, quiet>>

\* Mutants: the handed-over socket keeps the server's reader; it loses the
\* listener of the idle timer with the others.
HandOverReading(n) ==
  /\ Arrive(n) /\ CompletesWith("server", n)
  /\ openTimer' = Off /\ idleTimer' = IdleLimit
  /\ Becomes("app") /\ pipes' = pipes + 1
  /\ listeners' = Without({"close", "end"})
  /\ UNCHANGED <<socket, resumed, heard>>

HandOverWithoutTimeout(n) ==
  /\ Arrive(n) /\ CompletesWith("server", n)
  /\ openTimer' = Off /\ idleTimer' = IdleLimit
  /\ Becomes("app") /\ pipes' = pipes + 1
  /\ listeners' = Without(ReadingEvents \cup {"timeout"})
  /\ UNCHANGED <<socket, resumed, heard>>

\* The first message is complete and onPipeCreated takes the pipe.
HandOver(n) ==
  /\ Arrive(n) /\ CompletesWith("server", n)
  /\ openTimer' = Off /\ idleTimer' = IdleLimit
  /\ Becomes("app") /\ pipes' = pipes + 1
  /\ listeners' = Without(ReadingEvents)
  /\ UNCHANGED <<socket, resumed, heard>>

\* onPipeCreated returns false or is not there.
RefusePipe(n) ==
  /\ Arrive(n) /\ CompletesWith("server", n)
  /\ openTimer' = Off /\ Destroy
  /\ Becomes("refused")
  /\ listeners' = Without(ReadingEvents \cup {"timeout"})
  /\ UNCHANGED <<resumed, heard, pipes>>

\* The answer is complete: waitForMessage resolves.
Resolve(n) ==
  /\ Arrive(n) /\ CompletesWith("pipe", n) /\ waits \notin resumed
  /\ resumed' = resumed \cup {waits}
  /\ listeners' = Without(ReadingEvents)
  /\ heard' = Append(heard, got["pipe"] + n - Header)
  /\ Becomes("app") /\ idleTimer' = IdleLimit
  /\ UNCHANGED <<socket, openTimer, pipes>>

-----------------------------------------------------------------------------
(* The application.                                                        *)

\* Mutant: the reader goes on counting from the message before.
SendAndWaitCounting ==
  /\ user = "app" /\ socket = "open" /\ waits < MaxWaits
  /\ waits' = waits + 1
  /\ waitTimers' = [waitTimers EXCEPT ![waits + 1] = WaitLimit]
  /\ idleTimer' = IdleLimit
  /\ listeners' = listeners \cup {"pipe"} \X {"data", "close", "error"}
  /\ \E b \in 0..MaxBody : body' = b /\ pending' = Header + b /\ said' = Append(said, b)
  /\ Becomes("waiting")
  /\ UNCHANGED <<got, socket, openTimer, closeTimer, resumed, heard, pipes, peerLeft>>

\* send(data, true): the message goes out and the peer begins its answer.
SendAndWait ==
  /\ user = "app" /\ socket = "open" /\ waits < MaxWaits
  /\ waits' = waits + 1
  /\ waitTimers' = [waitTimers EXCEPT ![waits + 1] = WaitLimit]
  /\ idleTimer' = IdleLimit
  /\ listeners' = listeners \cup {"pipe"} \X {"data", "close", "error"}
  /\ got' = [got EXCEPT !["pipe"] = 0]
  /\ \E b \in 0..MaxBody : body' = b /\ pending' = Header + b /\ said' = Append(said, b)
  /\ Becomes("waiting")
  /\ UNCHANGED <<socket, openTimer, closeTimer, resumed, heard, pipes, peerLeft>>

\* send(data, false), the last of a session.
SendOnly ==
  /\ user = "app" /\ socket = "open"
  /\ idleTimer' = IdleLimit
  /\ Becomes("sent")
  /\ UNCHANGED <<socket, listeners, openTimer, closeTimer, waitTimers, waits, resumed,
                 got, body, pending, said, heard, pipes, peerLeft>>

\* A write to a socket that is gone.
SendFails ==
  /\ user = "app" /\ socket # "open"
  /\ Becomes("failed")
  /\ UNCHANGED <<socket, listeners, timers, waits, resumed, got, body, pending,
                 said, heard, pipes, peerLeft>>

\* close: the socket ends, and is destroyed if that takes too long.
Close ==
  /\ user \in {"app", "sent", "failed"}
  /\ closeTimer' = CloseLimit
  /\ Becomes("closed")
  /\ UNCHANGED <<socket, listeners, openTimer, idleTimer, waitTimers, waits, resumed,
                 got, body, pending, said, heard, pipes, peerLeft>>

-----------------------------------------------------------------------------
(* The connection ends.                                                    *)

\* The wait under way is told: onClose or onTimeout of waitForMessage.
Reject ==
  /\ resumed' = resumed \cup {waits}
  /\ listeners' = Without(ReadingEvents)
  /\ Becomes("failed")

\* The server's cleanup.
Cleanup ==
  /\ listeners' = Without(ReadingEvents \cup {"timeout"})
  /\ Destroy

UnderWay == waits > 0 /\ waits \notin resumed

\* The peer's end of stream: the server's end listener cleans up, and without
\* one the socket ends and is destroyed by itself.
PeerEnds ==
  /\ socket = "open"
  /\ peerLeft' = TRUE
  /\ IF <<"server", "end">> \in listeners THEN Cleanup ELSE Destroy /\ UNCHANGED listeners
  /\ UNCHANGED <<openTimer, closeTimer, waitTimers, user, waits, resumed, got, body,
                 pending, said, heard, pipes, quiet>>

\* A socket error: the server's listener destroys, those of the waits reject.
PeerResets ==
  /\ socket = "open"
  /\ peerLeft' = TRUE
  /\ Destroy
  /\ IF UnderWay THEN Reject ELSE UNCHANGED <<resumed, listeners, user, quiet>>
  /\ UNCHANGED <<openTimer, closeTimer, waitTimers, waits, got, body, pending,
                 said, heard, pipes>>

\* The close event of a destroyed socket.
SocketCloses ==
  /\ socket = "destroyed"
  /\ socket' = "closed"
  /\ IF <<"pipe", "close">> \in listeners /\ UnderWay
     THEN Reject
     ELSE /\ listeners' = IF <<"server", "close">> \in listeners
                          THEN Without(ReadingEvents \cup {"timeout"}) ELSE listeners
          /\ UNCHANGED <<resumed, user, quiet>>
  /\ UNCHANGED <<timers, waits, got, body, pending, said, heard, pipes, peerLeft>>

-----------------------------------------------------------------------------
(* Timers.                                                                 *)

OpenTimeout ==
  /\ openTimer = 0
  /\ openTimer' = Off
  /\ Cleanup
  /\ UNCHANGED <<closeTimer, waitTimers, user, waits, resumed, got, body, pending,
                 said, heard, pipes, peerLeft, quiet>>

\* The socket's own timeout event.
IdleTimeout ==
  /\ idleTimer = 0
  /\ IF <<"server", "timeout">> \in listeners THEN Cleanup
     ELSE idleTimer' = Off /\ UNCHANGED <<listeners, socket>>
  /\ UNCHANGED <<openTimer, closeTimer, waitTimers, user, waits, resumed, got, body,
                 pending, said, heard, pipes, peerLeft, quiet>>

CloseTimeout ==
  /\ closeTimer = 0
  /\ closeTimer' = Off
  /\ Destroy
  /\ UNCHANGED <<listeners, openTimer, waitTimers, user, waits, resumed, got, body,
                 pending, said, heard, pipes, peerLeft, quiet>>

\* Mutants: the timer does not ask whether its wait is over; it leaves the
\* promise to a close event nobody listens to any more.
WaitTimeoutAlways(w) ==
  /\ waitTimers[w] = 0
  /\ waitTimers' = [waitTimers EXCEPT ![w] = Off]
  /\ Destroy
  /\ IF w \in resumed THEN UNCHANGED <<listeners, resumed, user, quiet>> ELSE Reject
  /\ UNCHANGED <<openTimer, closeTimer, waits, got, body, pending, said, heard, pipes, peerLeft>>

WaitTimeoutUntold(w) ==
  /\ waitTimers[w] = 0
  /\ waitTimers' = [waitTimers EXCEPT ![w] = Off]
  /\ IF w \in resumed THEN UNCHANGED <<listeners, socket, idleTimer>>
     ELSE Destroy /\ listeners' = Without(ReadingEvents)
  /\ UNCHANGED <<openTimer, closeTimer, user, quiet, resumed, waits, got, body,
                 pending, said, heard, pipes, peerLeft>>

\* The timer of a wait that is over does nothing.
WaitTimeout(w) ==
  /\ waitTimers[w] = 0
  /\ waitTimers' = [waitTimers EXCEPT ![w] = Off]
  /\ IF w \in resumed THEN UNCHANGED <<listeners, resumed, user, quiet, socket, idleTimer>>
     ELSE Destroy /\ Reject
  /\ UNCHANGED <<openTimer, closeTimer, waits, got, body, pending, said, heard, pipes, peerLeft>>

Down(t) == IF t = Off THEN Off ELSE t - 1

\* A tick, when no timer is due and no close event is to come.
Tick ==
  /\ 0 \notin {openTimer, idleTimer, closeTimer} \cup {waitTimers[w] : w \in 1..MaxWaits}
  /\ {openTimer, idleTimer, closeTimer} \cup {waitTimers[w] : w \in 1..MaxWaits} # {Off}
  /\ socket # "destroyed"
  /\ openTimer' = Down(openTimer) /\ idleTimer' = Down(idleTimer)
  /\ closeTimer' = Down(closeTimer)
  /\ waitTimers' = [w \in 1..MaxWaits |-> Down(waitTimers[w])]
  /\ quiet' = IF socket = "open" THEN quiet + 1 ELSE quiet
  /\ UNCHANGED <<socket, listeners, user, waits, resumed, got, body, pending,
                 said, heard, pipes, peerLeft>>

Timing ==
  \/ Tick
  \/ OpenTimeout
  \/ IdleTimeout
  \/ CloseTimeout
  \/ \E w \in 1..MaxWaits : WaitTimeout(w)
  \/ SocketCloses

Next ==
  \/ \E n \in 1..(Header + MaxBody) :
       \/ ArriveInPart(n)
       \/ HandOver(n)
       \/ RefusePipe(n)
       \/ Resolve(n)
  \/ SendAndWait
  \/ SendOnly
  \/ SendFails
  \/ Close
  \/ PeerEnds
  \/ PeerResets
  \/ Timing

\* Time passes and events are delivered; nobody has to speak or to hang up.
Fairness == WF_vars(Timing)

Spec == Init /\ [][Next]_vars /\ Fairness

-----------------------------------------------------------------------------
(* Properties.                                                             *)

TimerUpTo(limit) == {Off} \cup 0..limit

TypeOK ==
  /\ socket \in {"open", "destroyed", "closed"}
  /\ listeners \subseteq Readers \X {"error", "timeout", "data", "close", "end"}
  /\ openTimer \in TimerUpTo(OpenLimit) /\ idleTimer \in TimerUpTo(IdleLimit)
  /\ closeTimer \in TimerUpTo(CloseLimit)
  /\ waitTimers \in [1..MaxWaits -> TimerUpTo(WaitLimit)]
  /\ user \in Users /\ waits \in 0..MaxWaits /\ resumed \subseteq 1..MaxWaits
  /\ got \in [Readers -> 0..(Header + MaxBody)]
  /\ body \in 0..MaxBody /\ pending \in 0..(Header + MaxBody)
  /\ said \in Seq(0..MaxBody) /\ heard \in Seq(0..MaxBody)
  /\ pipes \in Nat /\ peerLeft \in BOOLEAN /\ quiet \in Nat

\* A connection becomes at most one pipe, whatever else arrives on it.
OnePipe == pipes <= 1

\* However the bytes are cut up, the pipe resolves with the answers sent, in
\* their order and in their length.
AnswersIntact == IsPrefix(heard, said)

\* Nobody waits on an open connection for a message that is there already.
NothingHereIsAwaited ==
  socket = "open" /\ user \in {"server", "waiting"} => pending > 0

\* The connection is cut only by the peer, by the application, or by the timer
\* of what is going on, when its whole time is over: never by the timer of an
\* opening or a wait that is past, nor by the idle timer while one is not.
LimitOf(u) == CASE u = "server"  -> OpenLimit
                [] u = "waiting" -> WaitLimit
                [] OTHER         -> IdleLimit

CutForAReason ==
  [][socket = "open" /\ socket' # "open" =>
       peerLeft' \/ user' = "refused" \/ user = "closed" \/ quiet = LimitOf(user)]_vars

\* Every wait ends.
EveryWaitEnds == user = "waiting" ~> user # "waiting"

\* No connection stays for ever: not that of a silent peer, nor one whose pipe
\* the application forgets.
EveryConnectionEnds == <>(socket = "closed")
=============================================================================
