----------------------------- MODULE ApproveCli -----------------------------
(***************************************************************************)
(* approve_cli.py, the companion program a human approves calls with, at   *)
(* its end of one connection to the broker.  Two threads: main reads the   *)
(* keyboard and sends commands, the listener receives and shows lines.     *)
(*                                                                         *)
(* TCP keeps order and nothing else: a recv returns any non-empty prefix   *)
(* of what has come.  All a byte says here is which line it is of, and     *)
(* whether it is that line's newline.                                      *)
(***************************************************************************)
EXTENDS Integers, Sequences, FiniteSets

CONSTANTS
  LineLen,    \* bytes of a line, the newline included
  Chunk,      \* the most bytes a recv returns (4096 in the code)
  MaxLines,   \* bound: lines the broker sends
  MaxTyped    \* bound: lines the human types

ASSUME CliAssumption ==
  LineLen \in Nat \ {0} /\ Chunk \in Nat \ {0} /\ MaxLines \in Nat /\ MaxTyped \in Nat

VARIABLES
  conn,       \* the connection: "none", "up", "closed" by the broker's process
  main,       \* the main thread: "start", "input" or "exited"
  listener,   \* the listener thread: "none", "recv" or "ended"
  emitted,    \* how many lines the broker has sent
  wire,       \* bytes sent to us and not received
  buf,        \* the listener's buf
  shown,      \* the lines printed, without their newlines
  typed,      \* how many lines the human has typed
  commands    \* what the broker can read of us, in order

vars == <<conn, main, listener, emitted, wire, buf, shown, typed, commands>>

-----------------------------------------------------------------------------
Byte(n, e) == [of |-> n, end |-> e]
Body(n) == [j \in 1..(LineLen - 1) |-> Byte(n, FALSE)]
Bytes == [of : 1..MaxLines, end : BOOLEAN]

Init ==
  /\ conn = "none" /\ main = "start" /\ listener = "none"
  /\ emitted = 0 /\ wire = <<>> /\ buf = <<>> /\ shown = <<>>
  /\ typed = 0 /\ commands = <<>>

\* create_connection; without one the program exits.
Connect ==
  /\ main = "start"
  /\ \/ conn' = "up" /\ main' = "input" /\ listener' = "recv"
     \/ main' = "exited" /\ UNCHANGED <<conn, listener>>
  /\ UNCHANGED <<emitted, wire, buf, shown, typed, commands>>

-----------------------------------------------------------------------------
\* ---- _listen ----

Newlines(b) == {i \in DOMAIN b : b[i].end}

\* The places of the newlines, in their order.
Ends(b) ==
  [i \in 1..Cardinality(Newlines(b)) |->
     CHOOSE e \in Newlines(b) : Cardinality({f \in Newlines(b) : f < e}) = i - 1]

\* Where the i-th line begins.
Start(b, i) == IF i = 1 THEN 1 ELSE Ends(b)[i - 1] + 1

Lines(b) == [i \in DOMAIN Ends(b) |-> SubSeq(b, Start(b, i), Ends(b)[i] - 1)]

\* Wrong variants of Split: one line for each recv, and the rest thrown away.
SplitOnce(b) ==
  IF Newlines(b) = {} THEN [lines |-> <<>>, rest |-> b]
  ELSE LET e == Ends(b)[1]
       IN [lines |-> <<SubSeq(b, 1, e - 1)>>, rest |-> SubSeq(b, e + 1, Len(b))]
SplitAndDrop(b) == [lines |-> Lines(b), rest |-> <<>>]

\* `while b"\n" in buf`: the complete lines of b, and what is left.
Split(b) ==
  [lines |-> Lines(b), rest |-> SubSeq(b, Start(b, Cardinality(Newlines(b)) + 1), Len(b))]

Recv ==
  /\ listener = "recv" /\ main = "input" /\ wire # <<>>
  /\ \E n \in 1..Len(wire) :
       /\ n <= Chunk
       /\ LET s == Split(buf \o SubSeq(wire, 1, n)) IN
          shown' = shown \o s.lines /\ buf' = s.rest
       /\ wire' = SubSeq(wire, n + 1, Len(wire))
  /\ UNCHANGED <<conn, main, listener, emitted, typed, commands>>

RecvEnd ==
  /\ listener = "recv" /\ main = "input" /\ wire = <<>> /\ conn = "closed"
  /\ listener' = "ended"
  /\ UNCHANGED <<conn, main, emitted, wire, buf, shown, typed, commands>>

\* create_connection(timeout=5) leaves its timeout on the socket: a recv that
\* gets nothing for so long raises TimeoutError, an OSError.
RecvTimeout ==
  /\ listener = "recv" /\ main = "input" /\ wire = <<>> /\ conn = "up"
  /\ listener' = "ended"
  /\ UNCHANGED <<conn, main, emitted, wire, buf, shown, typed, commands>>

-----------------------------------------------------------------------------
\* ---- main, after the connection ----

\* Wrong variant of Exit: the listener outlives the program.
ExitAlone == main' = "exited" /\ UNCHANGED listener

\* sock.close(); the listener, a daemon thread, ends with the process.
Exit == main' = "exited" /\ listener' = "ended"

\* A line is typed: `approve <id>` and `deny <id>` are sent, anything else is
\* answered with the usage.  To a broker that is gone sendall may raise, which
\* ends the program.
Type ==
  /\ main = "input" /\ typed < MaxTyped
  /\ typed' = typed + 1
  /\ \/ /\ conn = "up" /\ commands' = Append(commands, typed + 1)
        /\ UNCHANGED <<main, listener>>
     \/ UNCHANGED <<main, listener, commands>>
     \/ conn = "closed" /\ Exit /\ UNCHANGED commands
  /\ UNCHANGED <<conn, emitted, wire, buf, shown>>

\* Ctrl-C, Ctrl-D.
Quit ==
  /\ main = "input" /\ Exit
  /\ UNCHANGED <<conn, emitted, wire, buf, shown, typed, commands>>

-----------------------------------------------------------------------------
\* ---- the broker's end ----

BrokerSends ==
  /\ conn = "up" /\ emitted < MaxLines
  /\ emitted' = emitted + 1
  /\ wire' = wire \o Body(emitted + 1) \o <<Byte(emitted + 1, TRUE)>>
  /\ UNCHANGED <<conn, main, listener, buf, shown, typed, commands>>

BrokerGone ==
  /\ conn = "up" /\ conn' = "closed"
  /\ UNCHANGED <<main, listener, emitted, wire, buf, shown, typed, commands>>

Next ==
  \/ Connect \/ Recv \/ RecvEnd \/ RecvTimeout \/ Type \/ Quit
  \/ BrokerSends \/ BrokerGone

Spec == Init /\ [][Next]_vars

(* The listener is a thread of its own: what has come is received.         *)
FairSpec == Spec /\ WF_vars(Recv) /\ WF_vars(RecvEnd)

-----------------------------------------------------------------------------
(* The variables keep their types, and the listener, a daemon thread, runs *)
(* only while main is at the keyboard.                                     *)
TypeOK ==
  /\ conn \in {"none", "up", "closed"}
  /\ main \in {"start", "input", "exited"}
  /\ listener \in {"none", "recv", "ended"}
  /\ listener = "recv" => main = "input"
  /\ emitted \in 0..MaxLines
  /\ wire \in Seq(Bytes) /\ buf \in Seq(Bytes)
  /\ shown \in Seq(Seq(Bytes))
  /\ typed \in 0..MaxTyped /\ commands \in Seq(1..MaxTyped)

(* Whatever pieces the stream comes in, the lines shown are the broker's   *)
(* first lines, whole, in order and each once, and no complete line waits  *)
(* in the buffer for a later one to come.                                  *)
ShownAsSent ==
  /\ shown = [n \in 1..Len(shown) |-> Body(n)]
  /\ Newlines(buf) = {}

(* A line that has been sent is shown, or the listener is over.            *)
SentIsShownOrOver ==
  \A n \in 1..MaxLines : emitted >= n /\ main = "input" ~> Len(shown) >= n \/ listener = "ended"

(* broker.py, "any connected companion-CLI client sees the request appear  *)
(* on screen": a line sent to a program that stays connected is shown.     *)
SentIsShown ==
  \A n \in 1..MaxLines :
    emitted >= n /\ main = "input" ~> Len(shown) >= n \/ conn = "closed" \/ main = "exited"
=============================================================================
