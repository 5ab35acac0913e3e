--------------------------- MODULE ApprovalBroker ---------------------------
(***************************************************************************)
(* provproxy/broker.py (LocalSocketApprovalBroker) and the coroutine of    *)
(* provproxy/enforcement.py that waits on it (resolve_ask_user), with any  *)
(* programs that connect to the broker's socket and answer.                *)
(*                                                                         *)
(* The broker runs on one asyncio event loop: a coroutine keeps the        *)
(* processor until an await really suspends it, so an action below is the  *)
(* code from one suspension to the next.  What suspends here:              *)
(*   - writer.drain(), when the connection's transport is paused (the peer *)
(*     is not reading) or closing;                                         *)
(*   - asyncio.wait_for, until the future is done or the timer fires;      *)
(*   - reader.readline(), until a line or the end of the stream is there.  *)
(* A future's done-callback runs in a later turn of the loop, before the   *)
(* coroutine that waits for the future goes on.                            *)
(*                                                                         *)
(* A call is one resolve_ask_user; a client is one connection.             *)
(***************************************************************************)
EXTENDS Integers, FiniteSets

CONSTANTS
  Calls,      \* the calls that are put to a human
  Clients,    \* the connections accepted over the broker's life
  MaxOpen,    \* how many tasks ask: the relay is one, and asks one at a time
  Ids,        \* the request ids a human may type
  Slow,       \* the clients that may fall so far behind that a write pauses
  TableRoom,  \* how many entries a set takes before the next may rebuild its
              \* table (CPython: 4 of the 8 places, and the fifth moves to a larger one)
  Py312       \* Python >= 3.12: wait_for and Server.wait_closed differ

ASSUME BrokerAssumption ==
  /\ IsFiniteSet(Clients) /\ 0 \notin Clients
  /\ Slow \subseteq Clients
  /\ Calls \cap Clients = {}
  /\ Ids \subseteq Nat
  /\ MaxOpen \in Nat /\ TableRoom \in Nat
  /\ Py312 \in BOOLEAN

VARIABLES
  server,     \* self._server: "new" is None, "closed" is closed and not None
  nextId,     \* self._id_counter: the id the next request gets
  rid,        \* per call: its request id, 0 before it has one
  fut,        \* per call: its future
  pending,    \* self._pending, as the set of calls that have an entry
  call,       \* per call: where its resolve_ask_user is, or what it returned
  clients,    \* self._clients
  handler,    \* per client: where its _handle_client task is
  cast,       \* per task: the _broadcast it is suspended in
  sock,       \* per client: its connection
  full,       \* per client: whether its transport is paused
  sent,       \* history, per client: the lines written to it (of a client that
              \* has left, the RESOLVED lines)
  heard,      \* history: the ids with an APPROVE line read after they were given out
  atRisk      \* history: <<k, c>> where the set of clients was rebuilt while the
              \* PENDING broadcast of k still had c before it

brokerVars == <<server, nextId, rid, fut, pending, call, clients, handler, cast>>
clientVars == <<sock, full, sent, heard, atRisk>>
vars == <<server, nextId, rid, fut, pending, call, clients, handler, cast,
          sock, full, sent, heard, atRisk>>

-----------------------------------------------------------------------------
Tasks == Calls \cup Clients
Verdicts == {"approved", "denied"}
\* To a client: PENDING <id>, RESOLVED <id> approved and RESOLVED <id> denied;
\* from a client: APPROVE <id> and DENY <id>, the lines a Verdicts word names.
Lines == [word : {"PENDING"} \cup Verdicts, id : Nat]
Typed == [word : Verdicts, id : Ids]

FutStates == {"none", "pending", "cancelled"} \cup Verdicts
CallStates == {"idle", "notify", "wait", "allow", "block", "crashed", "cancelled"}
HandlerStates == {"none", "new", "greet", "read", "notify", "done"}

Line(w, i) == [word |-> w, id |-> i]
Answered(k) == fut[k] \in Verdicts
Done(k) == fut[k] \notin {"none", "pending"}
Gone(c) == sock[c] = "gone"

\* A _broadcast: the line, the size of the set when the loop over it began, those
\* of it that the loop is sure to meet, the writers it has visited and will not
\* meet again, the one whose drain() suspends, the dead ones.
Casts == [line : Lines, size : Nat, over : SUBSET Clients, seen : SUBSET Clients,
          at : Clients \cup {0}, dead : SUBSET Clients]
NoCast == [line |-> Line("PENDING", 0), size |-> 0, over |-> {}, seen |-> {},
           at |-> 0, dead |-> {}]

Init ==
  /\ server = "new" /\ nextId = 1
  /\ rid = [k \in Calls |-> 0]
  /\ fut = [k \in Calls |-> "none"]
  /\ pending = {} /\ clients = {}
  /\ call = [k \in Calls |-> "idle"]
  /\ handler = [c \in Clients |-> "none"]
  /\ cast = [t \in Tasks |-> NoCast]
  /\ sock = [c \in Clients |-> "off"]
  /\ full = [c \in Clients |-> FALSE]
  /\ sent = [c \in Clients |-> {}]
  /\ heard = {} /\ atRisk = {}

-----------------------------------------------------------------------------
\* ---- LocalSocketApprovalBroker._broadcast ----

\* What a task does next: a call is in resolve_ask_user, a client's task in
\* _handle_client.
Goes(t, asCall, asHandler) ==
  /\ call' = IF t \in Calls THEN [call EXCEPT ![t] = asCall] ELSE call
  /\ handler' = IF t \in Clients THEN [handler EXCEPT ![t] = asHandler] ELSE handler

\* What is written to a peer that is gone is lost.
Write(line, S) ==
  sent' = [c \in Clients |-> IF c \in S /\ ~Gone(c) THEN sent[c] \cup {line} ELSE sent[c]]

\* The loop runs to its end: S got the line, D (of S) raised ConnectionError,
\* and the dead ones are discarded.
CastEnds(t, b, S, D) ==
  /\ Write(b.line, S)
  /\ clients' = clients \ (b.dead \cup D)
  /\ cast' = [cast EXCEPT ![t] = NoCast]
  /\ Goes(t, "wait", "read")
  /\ UNCHANGED full

\* The loop is suspended in the drain() of c.
CastSuspends(t, b, S, D, c) ==
  /\ full[c] \/ Gone(c) \/ c \in Slow
  /\ Write(b.line, S \cup {c})
  /\ full' = [full EXCEPT ![c] = ~Gone(c)]
  /\ cast' = [cast EXCEPT ![t] = [b EXCEPT !.seen = b.seen \cup S \cup {c},
                                          !.at = c, !.dead = b.dead \cup D]]
  /\ Goes(t, "notify", "notify")
  /\ UNCHANGED clients

\* `for writer in self._clients`, from where b stands to the next suspension.
\* A writer added since the loop began may or may not be met; one that was
\* there and still is will be, unless the set has been rebuilt.
Broadcast(t, b) ==
  LET rest == clients \ b.seen IN
  \E S \in SUBSET {c \in rest : ~full[c]} :
  \E D \in SUBSET {c \in S : Gone(c)} :
    \/ rest \cap b.over \subseteq S /\ CastEnds(t, b, S, D)
    \/ \E c \in rest \ S : CastSuspends(t, b, S, D, c)

FreshCast(line) ==
  [NoCast EXCEPT !.line = line, !.over = clients, !.size = Cardinality(clients)]

\* writer.close(): the peer sees the end once what is buffered has been sent.
Close(c) == sock' = IF full[c] THEN sock ELSE [sock EXCEPT ![c] = "gone"]

\* The next element is asked of a set whose size changed: RuntimeError, which
\* neither request_approval nor _handle_client catches.
BroadcastError(t) ==
  /\ cast' = [cast EXCEPT ![t] = NoCast]
  /\ Goes(t, "crashed", "done")
  /\ clients' = clients \ {t}
  /\ IF t \in Clients THEN Close(t) ELSE UNCHANGED sock
  /\ UNCHANGED <<full, sent>>

SizeUnchanged(b) == Cardinality(clients) = b.size

\* drain() returns (the peer has read) or raises ConnectionError (it is gone).
CastResume(t) ==
  LET b == cast[t] IN
  /\ b.at # 0
  /\ ~full[b.at]
  /\ \/ /\ SizeUnchanged(b)
        /\ \/ Broadcast(t, b)
           \/ Gone(b.at) /\ Broadcast(t, [b EXCEPT !.dead = b.dead \cup {b.at}])
        /\ UNCHANGED sock
     \/ ~SizeUnchanged(b) /\ BroadcastError(t)
  /\ UNCHANGED <<server, nextId, rid, fut, pending, heard, atRisk>>

-----------------------------------------------------------------------------
\* ---- request_approval and resolve_ask_user ----

Start ==
  /\ server = "new" /\ server' = "up"
  /\ UNCHANGED <<nextId, rid, fut, pending, call, clients, handler, cast, clientVars>>

AskUnavailable(k) ==
  /\ server = "new" /\ call[k] = "idle"
  /\ call' = [call EXCEPT ![k] = "block"]
  /\ UNCHANGED <<server, nextId, rid, fut, pending, clients, handler, cast, clientVars>>

\* A task that asked and has not got a Decision: it is busy, or it has ended.
Unreturned == {"notify", "wait", "crashed", "cancelled"}

\* Wrong variant of TakeId: the counter is read and not advanced.
FaultyTakeId(k) == rid' = [rid EXCEPT ![k] = nextId] /\ UNCHANGED nextId

\* next(self._id_counter).
TakeId(k) == rid' = [rid EXCEPT ![k] = nextId] /\ nextId' = nextId + 1

\* stop() leaves _server set, so a stopped broker takes the request too.
Ask(k) ==
  /\ server # "new" /\ call[k] = "idle"
  /\ Cardinality({j \in Calls : call[j] \in Unreturned}) < MaxOpen
  /\ TakeId(k)
  /\ fut' = [fut EXCEPT ![k] = "pending"]
  /\ pending' = pending \cup {k}
  /\ Broadcast(k, FreshCast(Line("PENDING", nextId)))
  /\ UNCHANGED <<server, sock, heard, atRisk>>

\* The relay's task is cancelled while the broadcast is suspended: the
\* exception passes through resolve_ask_user and the entry stays behind.
CancelAsk(k) ==
  /\ call[k] = "notify"
  /\ call' = [call EXCEPT ![k] = "cancelled"]
  /\ cast' = [cast EXCEPT ![k] = NoCast]
  /\ UNCHANGED <<server, nextId, rid, fut, pending, clients, handler, clientVars>>

\* Wrong variants of Expirable: no timer, and one that overrides an answer.
TimerDisarmed(k) == FALSE
TimerIgnoresAnswer(k) == call[k] = "wait" /\ k \in pending

\* wait_for cancels the future: its timer fired, or the task was cancelled.
\* An answer that is already there stays.
Expirable(k) == call[k] = "wait" /\ fut[k] = "pending"

Expire(k) ==
  /\ Expirable(k)
  /\ fut' = [fut EXCEPT ![k] = "cancelled"]
  /\ UNCHANGED <<server, nextId, rid, pending, call, clients, handler, cast, clientVars>>

\* The done-callback, `self._pending.pop(request_id, None)`.
RunCallback(k) ==
  /\ k \in pending /\ Done(k)
  /\ pending' = pending \ {k}
  /\ UNCHANGED <<server, nextId, rid, fut, call, clients, handler, cast, clientVars>>

\* Wrong variant of Outcome: silence is taken for a yes.
AllowUnlessDenied(k) == IF fut[k] = "denied" THEN "block" ELSE "allow"

\* `Decision.ALLOW if approved else Decision.BLOCK`, and BLOCK when there is
\* no answer.
Outcome(k) == IF fut[k] = "approved" THEN "allow" ELSE "block"

\* resolve_ask_user returns.
Resume(k) ==
  /\ call[k] = "wait" /\ Done(k) /\ k \notin pending
  /\ call' = [call EXCEPT ![k] = Outcome(k)]
  /\ UNCHANGED <<server, nextId, rid, fut, pending, clients, handler, cast, clientVars>>

\* From Python 3.12 on a timer that fires after the answer, but before the
\* waiting task has gone on, still raises TimeoutError.
ResumeTimedOut(k) ==
  /\ Py312
  /\ call[k] = "wait" /\ Answered(k) /\ k \notin pending
  /\ call' = [call EXCEPT ![k] = "block"]
  /\ UNCHANGED <<server, nextId, rid, fut, pending, clients, handler, cast, clientVars>>

-----------------------------------------------------------------------------
\* ---- _handle_client and _handle_command ----

\* A companion program connects; the task of its _handle_client is created.
Accept(c) ==
  /\ server = "up" /\ sock[c] = "off"
  /\ sock' = [sock EXCEPT ![c] = "up"]
  /\ handler' = [handler EXCEPT ![c] = "new"]
  /\ UNCHANGED <<server, nextId, rid, fut, pending, call, clients, cast,
                 full, sent, heard, atRisk>>

\* Wrong variant of Replay.
NoReplay == {}

\* The lines that catch a new client up: one per entry of _pending.
Replay == {Line("PENDING", rid[k]) : k \in pending}

\* The clients that have ever been added to the set: one that was discarded keeps
\* its place in the table until the table is rebuilt.
Joined == {c \in Clients : handler[c] \notin {"none", "new"}}

\* The set's table is rebuilt, in another order: a loop over the set goes on where
\* it was, and may meet anyone, again or not at all.
Rebuild ==
  /\ Cardinality(Joined) >= TableRoom
  /\ cast' = [t \in Tasks |-> [cast[t] EXCEPT !.over = {}, !.seen = {}]]
  /\ atRisk' = atRisk \cup
       UNION {{k} \X (cast[k].over \ cast[k].seen) : k \in Calls}

\* _handle_client up to its first suspension: register, replay _pending, drain.
Greet(c) ==
  /\ handler[c] = "new"
  /\ Rebuild \/ UNCHANGED <<cast, atRisk>>
  /\ sent' = IF Gone(c) THEN sent
             ELSE [sent EXCEPT ![c] = @ \cup Replay]
  /\ \/ /\ handler' = [handler EXCEPT ![c] = "read"]
        /\ clients' = clients \cup {c}
        /\ UNCHANGED full
     \/ /\ Gone(c) \/ (c \in Slow /\ pending # {})
        /\ handler' = [handler EXCEPT ![c] = "greet"]
        /\ clients' = clients \cup {c}
        /\ full' = [full EXCEPT ![c] = ~Gone(c)]
     \/ /\ Gone(c)
        /\ handler' = [handler EXCEPT ![c] = "done"]
        /\ UNCHANGED <<clients, full>>
  /\ UNCHANGED <<server, nextId, rid, fut, pending, call, sock, heard>>

GreetResume(c) ==
  /\ handler[c] = "greet" /\ ~full[c]
  /\ \/ /\ handler' = [handler EXCEPT ![c] = "read"]
        /\ UNCHANGED clients
     \/ /\ Gone(c)
        /\ handler' = [handler EXCEPT ![c] = "done"]
        /\ clients' = clients \ {c}
  /\ UNCHANGED <<server, nextId, rid, fut, pending, call, cast, clientVars>>

\* Wrong variant of Match: `future.done()` is not looked at.
MatchSettled(m) == {k \in pending : rid[k] = m.id}

\* The request a typed line answers, if it is still waiting for an answer.
Match(m) == {k \in pending : rid[k] = m.id /\ ~Done(k)}

\* A line arrives: any verdict on any id, whenever it was typed, also from a
\* peer that is gone by now.
Handle(c) ==
  /\ handler[c] = "read"
  /\ \E m \in Typed :
       /\ heard' = heard \cup {i \in {m.id} : m.word = "approved" /\ i < nextId}
       /\ \/ /\ Match(m) = {}
             /\ UNCHANGED <<fut, call, clients, handler, cast, full, sent>>
          \/ \E k \in Match(m) :
               /\ fut' = [fut EXCEPT ![k] = m.word]
               /\ Broadcast(c, FreshCast(Line(m.word, m.id)))
  /\ UNCHANGED <<server, nextId, rid, pending, sock, atRisk>>

\* The end of the stream, or a reset, which drops what was not read yet.
HandlerEnd(c) ==
  /\ handler[c] = "read" /\ Gone(c)
  /\ handler' = [handler EXCEPT ![c] = "done"]
  /\ clients' = clients \ {c}
  /\ UNCHANGED <<server, nextId, rid, fut, pending, call, cast, clientVars>>

-----------------------------------------------------------------------------
\* ---- stop ----

\* Every future that is not done yet is cancelled.
CancelPending ==
  fut' = [k \in Calls |-> IF k \in pending /\ ~Done(k) THEN "cancelled" ELSE fut[k]]

\* Up to Python 3.11 wait_closed returns at once for a closed server; later
\* it waits until the last accepted connection is gone.
Stop ==
  /\ server = "up"
  /\ IF Py312 THEN server' = "closing" /\ UNCHANGED fut
              ELSE server' = "closed" /\ CancelPending
  /\ UNCHANGED <<nextId, rid, pending, call, clients, handler, cast, clientVars>>

FinishStop ==
  /\ server = "closing" /\ \A c \in Clients : sock[c] # "up"
  /\ server' = "closed" /\ CancelPending
  /\ UNCHANGED <<nextId, rid, pending, call, clients, handler, cast, clientVars>>

-----------------------------------------------------------------------------
\* ---- the other end of a connection ----

\* The program reads what has come, and the broker's transport drains.
ClientRead(c) ==
  /\ sock[c] = "up" /\ full[c]
  /\ full' = [full EXCEPT ![c] = FALSE]
  /\ UNCHANGED <<brokerVars, sock, sent, heard, atRisk>>

\* The program ends, or the connection breaks.
Disconnect(c) ==
  /\ sock[c] = "up"
  /\ sock' = [sock EXCEPT ![c] = "gone"]
  /\ full' = [full EXCEPT ![c] = FALSE]
  /\ sent' = [sent EXCEPT ![c] = {l \in @ : l.word # "PENDING"}]
  /\ UNCHANGED <<brokerVars, heard, atRisk>>

-----------------------------------------------------------------------------
CallStep(k) ==
  \/ AskUnavailable(k) \/ Ask(k) \/ CancelAsk(k) \/ Expire(k)
  \/ RunCallback(k) \/ Resume(k) \/ ResumeTimedOut(k)

HandlerStep(c) == Greet(c) \/ GreetResume(c) \/ Handle(c) \/ HandlerEnd(c)

ClientStep(c) == Accept(c) \/ ClientRead(c) \/ Disconnect(c)

Next ==
  \/ Start \/ Stop \/ FinishStop
  \/ \E k \in Calls : CallStep(k)
  \/ \E c \in Clients : HandlerStep(c) \/ ClientStep(c)
  \/ \E t \in Tasks : CastResume(t)

Spec == Init /\ [][Next]_vars

(* The event loop runs what is ready, timers fire, and a program that      *)
(* stays connected reads what it is sent.  Nothing obliges a human to      *)
(* type, a program to connect or leave, or the relay to ask or to stop.    *)
FairSpec ==
  /\ Spec
  /\ \A k \in Calls :
       WF_vars(Expire(k)) /\ WF_vars(RunCallback(k)) /\ WF_vars(Resume(k))
  /\ \A c \in Clients : WF_vars(Greet(c)) /\ WF_vars(GreetResume(c)) /\ WF_vars(HandlerEnd(c))
  /\ \A c \in Clients : WF_vars(ClientRead(c))
  /\ \A t \in Tasks : WF_vars(CastResume(t))

-----------------------------------------------------------------------------
(* The variables keep their types, and no two requests share an id: the    *)
(* id is all that links a typed line to the call it decides.               *)
TypeOK ==
  /\ server \in {"new", "up", "closing", "closed"}
  /\ nextId \in Nat \ {0}
  /\ rid \in [Calls -> Nat]
  /\ \A j, k \in Calls : j # k /\ rid[j] = rid[k] => rid[j] = 0
  /\ fut \in [Calls -> FutStates]
  /\ pending \subseteq Calls
  /\ call \in [Calls -> CallStates]
  /\ clients \subseteq Clients
  /\ handler \in [Clients -> HandlerStates]
  /\ cast \in [Tasks -> Casts]
  /\ sock \in [Clients -> {"off", "up", "gone"}]
  /\ full \in [Clients -> BOOLEAN]
  /\ sent \in [Clients -> SUBSET Lines]
  /\ heard \subseteq Ids
  /\ atRisk \subseteq Calls \X Clients

(* enforcement.py, "it either becomes ALLOW via an explicit approval": a   *)
(* call that resolve_ask_user allows was approved, under its own request   *)
(* id, by a line read from a client after that id was given out.           *)
AllowNeedsApproval ==
  \A k \in Calls : call[k] = "allow" => rid[k] \in heard

\* The question of k is with the client c, if it is still there.
Shown(k, c) == sock[c] = "up" => Line("PENDING", rid[k]) \in sent[c]

(* broker.py, "any connected companion-CLI client sees the request": while *)
(* a call waits for its human, every program that is registered and still  *)
(* connected has been sent its PENDING line.  With more clients than the   *)
(* set takes without being rebuilt this may fail (MissedOnlyByRebuild).    *)
WaitingIsAnnounced ==
  \A k \in Calls, c \in clients : call[k] = "wait" /\ fut[k] = "pending" => Shown(k, c)

(* The broadcast and the replay to late clients leave one gap only between *)
(* them, whatever connects, leaves or stops reading in the meantime: the   *)
(* set was rebuilt while the broadcast of that question still had that     *)
(* client before it.                                                       *)
MissedOnlyByRebuild ==
  \A k \in Calls, c \in clients :
    call[k] = "wait" /\ fut[k] = "pending" /\ <<k, c>> \notin atRisk => Shown(k, c)

(* No two clients are told different outcomes of one request, and nobody   *)
(* is told "denied" of a call that was let through.                        *)
OneVerdict ==
  \A k \in Calls, c, d \in Clients :
    /\ ~ (Line("approved", rid[k]) \in sent[c] /\ Line("denied", rid[k]) \in sent[d])
    /\ Line("denied", rid[k]) \in sent[c] => call[k] # "allow"

(* Until Python 3.12: a client that was told RESOLVED <id> approved was    *)
(* told the truth, the call is not blocked in the end.                     *)
AnnouncedApprovalHolds ==
  \A k \in Calls, c \in Clients :
    Line("approved", rid[k]) \in sent[c] => call[k] # "block"

\* What a call and its future mean to the abstract specification.
StateOf(c) == CASE c \in {"notify", "wait"} -> "open"
                [] c \in {"crashed", "cancelled"} -> "lost"
                [] OTHER -> c
AnswerOf(f) == CASE f = "approved" -> "yes"
                 [] f = "denied" -> "no"
                 [] f = "cancelled" -> "withdrawn"
                 [] OTHER -> "none"
PromiseState == [k \in Calls |-> StateOf(call[k])]
PromiseAnswer == [k \in Calls |-> AnswerOf(fut[k])]

Promise == INSTANCE Approval WITH state <- PromiseState, answer <- PromiseAnswer

(* enforcement.py, whole: the call is let through only on a human's yes,   *)
(* the first answer or withdrawal is final, a question that still stands   *)
(* is never decided, and a decision is never taken back.                   *)
PromiseKept == Promise!Spec

(* enforcement.py, "The pending state is not a third outcome": no call     *)
(* ends by the broadcast's own exception, without a Decision.              *)
NoThirdOutcome == \A k \in Calls : call[k] # "crashed"

(* README, "If nothing responds within approval_timeout_seconds, it blocks *)
(* automatically": every call that is asked comes to an end - the timer,   *)
(* the answers, the broadcasts and the shutdown leave none behind.  It     *)
(* takes programs that read (FairSpec).                                    *)
AskedIsSettled ==
  \A k \in Calls : call[k] \in {"notify", "wait"} ~> call[k] \notin {"notify", "wait"}
=============================================================================
