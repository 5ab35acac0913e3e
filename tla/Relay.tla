------------------------------- MODULE Relay -------------------------------
(***************************************************************************)
(* provproxy/relay.py: the proxy between an MCP host (our stdin and        *)
(* stdout) and the tool server it started as a child process.              *)
(*                                                                         *)
(* A thread of its own (_read_stdin_blocking) decodes our stdin and hands  *)
(* its lines over.  Four activities share one asyncio loop and a few       *)
(* objects:                                                                *)
(*   main    _host_to_child takes the host's lines one at a time, decides  *)
(*           each, and is the only one to write to the child;              *)
(*   reader  _child_to_host takes the child's lines, registers the answers *)
(*           of sensitive reads, and queues every line for the host;       *)
(*   writer  _stdout_writer writes the queued lines to the host;           *)
(*   run     ends the others when main has ended.                          *)
(* An action is the code between two awaits that suspend.  (The queues are *)
(* unbounded, so a put never does.)                                        *)
(*                                                                         *)
(* A frame is known by its position in what the host sent, and that is its *)
(* JSON-RPC id: a host uses an id once.  The content of a sensitive read i *)
(* is the secret i; a call carries at most one, word for word.             *)
(***************************************************************************)
EXTENDS Integers, Sequences, FiniteSets, SequencesExt

CONSTANTS
  Tiers,      \* the values of active_tier, 0 to 4
  Actions,    \* the values of enforcement.on_match
  HostKinds,  \* what the host may send
  ChildKinds, \* what the child may say unasked
  ChildIds,   \* the ids of the child's own requests
  Py312,      \* Python >= 3.12: the broker's stop waits for companion programs
  MaxFrames,  \* bound: frames the host sends
  MaxTalk     \* bound: lines the child says unasked

ASSUME RelayAssumption ==
  /\ Tiers \subseteq 0..4
  /\ Actions \subseteq {"ask_user", "block"}
  /\ HostKinds \subseteq {"read", "send", "post", "bad", "odd", "other", "bytes"}
  /\ ChildKinds \subseteq {"request", "array", "long"}
  /\ ChildIds \subseteq Nat \ {0}
  /\ Py312 \in BOOLEAN
  /\ MaxFrames \in Nat /\ MaxTalk \in Nat

VARIABLES
  tier, onMatch,    \* the policy file, read at the start
  host,             \* the frames the host wrote to our stdin
  eof,              \* the host closed our stdin
  cut,              \* 0, or the first frame that the stdin thread, which has died,
                    \* did not hand over
  taken,            \* how many of them main has taken
  main,             \* where main is, and run's clean-up after it
  approved,         \* history: the frames a human let through
  reads,            \* self._pending_sensitive_reads
  childGot,         \* the frames written to the child's stdin
  child,            \* the child process
  said,             \* the lines the child wrote to its stdout
  heard,            \* how many of them the reader has taken
  reader,           \* the task of _child_to_host
  outQ,             \* out_queue
  writer,           \* the task of _stdout_writer
  toHost,           \* the lines written to our stdout
  exact,            \* the secrets in the session's exact matcher
  approx,           \* the secrets in its approximate matcher
  forgotten         \* history: the secrets the exact matcher has dropped

policyVars == <<tier, onMatch>>
hostVars == <<host, eof, cut>>
childVars == <<child, said>>
matcherVars == <<exact, approx, forgotten>>
readerVars == <<heard, reader>>
writerVars == <<writer, toHost>>
vars == <<tier, onMatch, host, eof, cut, taken, main, approved, reads, childGot, child,
          said, heard, reader, outQ, writer, toHost, exact, approx, forgotten>>

-----------------------------------------------------------------------------
(* Of the host's lines: "read", "send" and "post" are well-formed tools/call *)
(* requests - to a blocked path of the policy, to any other destination that *)
(* is not allowed, and to an allowed one; "bad" has no params or no name,    *)
(* "odd" has params or arguments of the wrong type; "other" is any other     *)
(* line, JSON or not; "bytes" is one that our stdin cannot decode.           *)
ToolCalls == {"read", "send", "post"}
Kinds == ToolCalls \cup {"bad", "odd", "other", "bytes"}
Frame == [kind : Kinds, carries : 0..MaxFrames]

\* Of the lines to the host: a result or an error of the child for request id;
\* what it says unasked, with "array" any JSON that is not an object and
\* "long" a line over the 64 KiB limit of its pipe's StreamReader; our own
\* error responses; and the sentinel.
ChildSays == {"result", "error", "request", "array", "long"}
Refusals == {"blocked", "invalid"}
Line(k, i) == [kind |-> k, id |-> i]
Sentinel == Line("eof", 0)
OutLine == [kind : ChildSays \cup Refusals \cup {"eof"}, id : Nat]

\* The lines written to the host, and those that will be.
Outgoing == toHost \o outQ

Answered == {said[n].id : n \in {m \in DOMAIN said : said[m].kind \in {"result", "error"}}}
ResultIds(q) == {q[n].id : n \in {m \in DOMAIN q : q[m].kind = "result"}}
\* The secrets the host has been given.
Learned == {i \in ResultIds(toHost) : host[i].kind = "read"}

Init ==
  /\ tier \in Tiers /\ onMatch \in Actions
  /\ host = <<>> /\ eof = FALSE /\ cut = 0 /\ taken = 0 /\ main = "loop"
  /\ approved = {} /\ reads = {} /\ childGot = <<>>
  /\ child = "up" /\ said = <<>> /\ heard = 0 /\ reader = "up"
  /\ outQ = <<>> /\ writer = "up" /\ toHost = <<>>
  /\ exact = {} /\ approx = {} /\ forgotten = {}

-----------------------------------------------------------------------------
\* ---- _host_to_child and _handle_tool_call ----

\* UnicodeDecodeError in `for raw_line in sys.stdin`: the thread ends, and with
\* the first undecodable line go the lines decoded in one piece with it.
StdinDies ==
  /\ cut = 0
  /\ \E bad \in taken + 1..Len(host) :
       /\ host[bad].kind = "bytes"
       /\ \A i \in 1..bad - 1 : host[i].kind # "bytes"
       /\ cut' \in taken + 1..bad
  /\ UNCHANGED <<policyVars, host, eof, taken, main, approved, reads, childGot, childVars,
                 readerVars, outQ, writerVars, matcherVars>>

\* Wrong variants of EndLoop: the reader goes on, the queue is dropped, the
\* writer is not told.
EndLoopOnly ==
  /\ main' = "closing" /\ outQ' = Append(outQ, Sentinel)
  /\ UNCHANGED reader
EndLoopAtOnce ==
  /\ main' = "closing" /\ outQ' = <<Sentinel>>
  /\ reader' = IF reader = "up" THEN "done" ELSE reader
EndLoopSilently ==
  /\ main' = "closing" /\ UNCHANGED outQ
  /\ reader' = IF reader = "up" THEN "done" ELSE reader

\* Main is over, by the end of stdin or by an exception, and the first part of
\* run's `finally`: the sentinel is queued and the reader's task cancelled.
EndLoop ==
  /\ main' = "closing" /\ outQ' = Append(outQ, Sentinel)
  /\ reader' = IF reader = "up" THEN "done" ELSE reader

\* Wrong variant of Track.
TrackNothing(i) == reads' = reads

\* is_sensitive_source: the reads' answers are wanted.
Track(i) == reads' = IF host[i].kind = "read" THEN reads \cup {i} ELSE reads

\* Wrong variant of Write: the line that came last, not the one decided on.
WriteLatest(i) == childGot' = Append(childGot, Len(host))
Write(i) == childGot' = Append(childGot, i)

\* _forward_to_child, and the write of a line that is no tool call: the write,
\* and drain(), which suspends while the child does not read.  To a child that
\* is gone the line is lost, and drain() raises once the loop knows.
Forward(i) ==
  \/ /\ child = "up"
     /\ Write(i)
     /\ main' \in {"loop", "drain"}
     /\ UNCHANGED <<outQ, reader>>
  \/ /\ child = "gone"
     /\ UNCHANGED childGot
     /\ \/ main' = "loop" /\ UNCHANGED <<outQ, reader>>
        \/ EndLoop

Refuse(i, why) ==
  /\ outQ' = Append(outQ, Line(why, i))
  /\ main' = "loop"
  /\ UNCHANGED <<reads, childGot, reader>>

\* The next line of stdin_queue, of a kind in K.
Taking(K) ==
  /\ main = "loop" /\ taken < Len(host)
  /\ cut = 0 \/ taken + 1 < cut
  /\ host[taken + 1].kind \in K
  /\ taken' = taken + 1

PassThrough ==
  /\ Taking({"other"})
  /\ Forward(taken + 1)
  /\ UNCHANGED <<policyVars, hostVars, approved, reads, childVars, heard,
                 writerVars, matcherVars>>

InvalidParams ==
  /\ Taking({"bad"})
  /\ Refuse(taken + 1, "invalid")
  /\ UNCHANGED <<policyVars, hostVars, approved, childVars, heard, writerVars, matcherVars>>

\* AttributeError: nothing catches it.
OddParams ==
  /\ Taking({"odd"})
  /\ EndLoop
  /\ UNCHANGED <<policyVars, hostVars, approved, reads, childGot, childVars, heard,
                 writerVars, matcherVars>>

\* Wrong variant of Detect: the approximate tier forgotten.
DetectExactOnly(i, kept) == tier >= 1 /\ host[i].carries \in kept

\* pipeline.evaluate for a payload that holds a secret verbatim, the exact
\* matcher holding `kept`.
Detect(i, kept) ==
  \/ tier >= 1 /\ host[i].carries \in kept
  \/ tier >= 3 /\ host[i].carries \in approx

\* expire_if_stale, evaluate, and what follows from the result.
ToolCall ==
  /\ Taking(ToolCalls)
  /\ \E kept \in {exact, {}} :
       /\ exact' = kept
       /\ forgotten' = forgotten \cup (exact \ kept)
       /\ LET i == taken + 1
              blocked == Detect(i, kept) /\ host[i].kind # "post"
          IN \/ ~blocked /\ Track(i) /\ Forward(i)
             \/ /\ blocked /\ onMatch = "ask_user"
                /\ main' = "asking"
                /\ UNCHANGED <<reads, childGot, outQ, reader>>
             \/ blocked /\ onMatch = "block" /\ Refuse(i, "blocked")
  /\ UNCHANGED <<policyVars, hostVars, approved, childVars, heard, writerVars, approx>>

\* resolve_ask_user is over: ALLOW, BLOCK, or the broadcast's exception.
AskReturns ==
  /\ main = "asking"
  /\ \/ approved' = approved \cup {taken} /\ Track(taken) /\ Forward(taken)
     \/ UNCHANGED approved /\ Refuse(taken, "blocked")
     \/ EndLoop /\ UNCHANGED <<approved, reads, childGot>>
  /\ UNCHANGED <<policyVars, hostVars, taken, childVars, heard, writerVars, matcherVars>>

\* Wrong variant of Drained: nothing wakes main up but the end of the child.
DrainedByError ==
  /\ main = "drain" /\ child = "gone" /\ EndLoop
  /\ UNCHANGED <<policyVars, hostVars, taken, approved, reads, childGot, childVars,
                 heard, writerVars, matcherVars>>

\* drain() returns, or raises because the child is gone.
Drained ==
  /\ main = "drain"
  /\ \/ main' = "loop" /\ UNCHANGED <<outQ, reader>>
     \/ child = "gone" /\ EndLoop
  /\ UNCHANGED <<policyVars, hostVars, taken, approved, reads, childGot, childVars,
                 heard, writerVars, matcherVars>>

\* The None that the thread queues last.
TakeEof ==
  /\ main = "loop" /\ eof /\ taken = Len(host) /\ cut = 0
  /\ EndLoop
  /\ UNCHANGED <<policyVars, hostVars, taken, approved, reads, childGot, childVars,
                 heard, writerVars, matcherVars>>

-----------------------------------------------------------------------------
\* ---- _child_to_host and _maybe_register_sensitive_response ----

\* readline raises on a line over the limit; `parsed.get` on what is no dict,
\* looked at only while a read is tracked.
Kills(l) == l.kind = "long" \/ (l.kind = "array" /\ reads # {})

\* Wrong variants of Register: nothing, and whatever has an id.
RegisterNothing(l) == reads' = reads \ {l.id} /\ UNCHANGED <<exact, approx>>
RegisterAll(l) ==
  /\ reads' = reads \ {l.id}
  /\ exact' = exact \cup {l.id} /\ approx' = approx \cup {l.id}

\* The answer of a tracked read: tracked no more, and a result is registered.
Register(l) ==
  /\ reads' = reads \ {l.id}
  /\ IF l.kind = "result" /\ l.id \in reads
     THEN exact' = exact \cup {l.id} /\ approx' = approx \cup {l.id}
     ELSE UNCHANGED <<exact, approx>>

ReadLine ==
  /\ reader = "up" /\ heard < Len(said)
  /\ heard' = heard + 1
  /\ LET l == said[heard + 1] IN
     IF Kills(l)
     THEN reader' = "dead" /\ UNCHANGED <<outQ, reads, exact, approx>>
     ELSE Register(l) /\ outQ' = Append(outQ, l) /\ UNCHANGED reader
  /\ UNCHANGED <<policyVars, hostVars, taken, main, approved, childGot, childVars,
                 writerVars, forgotten>>

ReadEof ==
  /\ reader = "up" /\ heard = Len(said) /\ child = "gone"
  /\ reader' = "done"
  /\ UNCHANGED <<policyVars, hostVars, taken, main, approved, reads, childGot, childVars,
                 heard, outQ, writerVars, matcherVars>>

-----------------------------------------------------------------------------
\* ---- _stdout_writer, and the rest of run's `finally` ----

WriteLine ==
  /\ writer = "up" /\ outQ # <<>>
  /\ outQ' = Tail(outQ)
  /\ IF Head(outQ) = Sentinel
     THEN writer' = "done" /\ UNCHANGED toHost
     ELSE toHost' = Append(toHost, Head(outQ)) /\ UNCHANGED writer
  /\ UNCHANGED <<policyVars, hostVars, taken, main, approved, reads, childGot, childVars,
                 readerVars, matcherVars>>

\* The host no longer reads: the write raises.  The line it was about stands
\* for ever where nobody reads the queue.
WriteFails ==
  /\ writer = "up" /\ outQ # <<>> /\ Head(outQ) # Sentinel
  /\ writer' = "dead"
  /\ UNCHANGED <<policyVars, hostVars, taken, main, approved, reads, childGot, childVars,
                 readerVars, outQ, toHost, matcherVars>>

\* process.terminate() once the writer is over, obeyed.
Terminate ==
  /\ main = "closing" /\ writer # "up" /\ child = "up"
  /\ child' = "gone"
  /\ UNCHANGED <<policyVars, hostVars, taken, main, approved, reads, childGot, said,
                 readerVars, outQ, writerVars, matcherVars>>

\* `await self.broker.stop()`: from Python 3.12 on it waits for the companion
\* programs that are connected (ApprovalBroker, FinishStop).
StopBroker ==
  /\ main = "closing" /\ writer # "up" /\ child = "gone"
  /\ main' \in {"stopped"} \cup {m \in {"stopping"} : Py312}
  /\ UNCHANGED <<policyVars, hostVars, taken, approved, reads, childGot, childVars,
                 readerVars, outQ, writerVars, matcherVars>>

-----------------------------------------------------------------------------
\* ---- the host and the child ----

\* The last companion program leaves the broker.
CompanionsLeave ==
  /\ main = "stopping" /\ main' = "stopped"
  /\ UNCHANGED <<policyVars, hostVars, taken, approved, reads, childGot, childVars,
                 readerVars, outQ, writerVars, matcherVars>>

HostSends ==
  /\ ~eof /\ Len(host) < MaxFrames
  /\ \E k \in HostKinds, s \in {0} \cup Learned :
       /\ s # 0 => k \in ToolCalls
       /\ host' = Append(host, [kind |-> k, carries |-> s])
  /\ UNCHANGED <<policyVars, eof, cut, taken, main, approved, reads, childGot, childVars,
                 readerVars, outQ, writerVars, matcherVars>>

HostCloses ==
  /\ ~eof /\ eof' = TRUE
  /\ UNCHANGED <<policyVars, host, cut, taken, main, approved, reads, childGot, childVars,
                 readerVars, outQ, writerVars, matcherVars>>

\* An answer, once, to a tool call that has left our pipe.  The answers to
\* other requests are among what the child says unasked.
ChildAnswers ==
  /\ child = "up"
  /\ \E i \in ToSet(childGot) \ Answered :
       /\ host[i].kind \in ToolCalls
       /\ ~(main = "drain" /\ i = taken)
       /\ \E k \in {"result", "error"} : said' = Append(said, Line(k, i))
  /\ UNCHANGED <<policyVars, hostVars, taken, main, approved, reads, childGot, child,
                 readerVars, outQ, writerVars, matcherVars>>

Unasked(l) == l.kind \in {"request", "array", "long"}

ChildTalks ==
  /\ child = "up"
  /\ Len(SelectSeq(said, Unasked)) < MaxTalk
  /\ \E k \in ChildKinds :
     \E i \in (IF k = "request" THEN ChildIds ELSE {0}) : said' = Append(said, Line(k, i))
  /\ UNCHANGED <<policyVars, hostVars, taken, main, approved, reads, childGot, child,
                 readerVars, outQ, writerVars, matcherVars>>

ChildExits ==
  /\ child = "up" /\ child' = "gone"
  /\ UNCHANGED <<policyVars, hostVars, taken, main, approved, reads, childGot, said,
                 readerVars, outQ, writerVars, matcherVars>>

-----------------------------------------------------------------------------
MainStep == PassThrough \/ InvalidParams \/ OddParams \/ ToolCall \/ AskReturns
              \/ Drained \/ TakeEof
ReaderStep == ReadLine \/ ReadEof
Environment == HostSends \/ HostCloses \/ ChildAnswers \/ ChildTalks \/ ChildExits
                 \/ CompanionsLeave

Next == StdinDies \/ MainStep \/ ReaderStep \/ WriteLine \/ WriteFails \/ Terminate
          \/ StopBroker \/ Environment

Spec == Init /\ [][Next]_vars

(* The loop runs what is ready, resolve_ask_user returns (ApprovalBroker), *)
(* a child that is up reads its stdin and obeys SIGTERM, a host that has   *)
(* not gone reads our stdout, and the stdin thread reads on.  Nobody has   *)
(* to send, answer, talk or leave, a companion program neither.            *)
FairSpec ==
  /\ Spec
  /\ WF_vars(MainStep) /\ WF_vars(ReaderStep) /\ WF_vars(WriteLine)
  /\ WF_vars(Terminate) /\ WF_vars(StopBroker) /\ WF_vars(StdinDies)

-----------------------------------------------------------------------------
(* The variables keep their types.                                         *)
TypeOK ==
  /\ tier \in Tiers /\ onMatch \in Actions
  /\ host \in Seq(Frame) /\ eof \in BOOLEAN
  /\ cut \in 0..Len(host)
  /\ taken \in 0..Len(host)
  /\ main \in {"loop", "drain", "asking", "closing", "stopping", "stopped"}
  /\ approved \subseteq 1..taken
  /\ reads \subseteq 1..taken
  /\ childGot \in Seq(1..taken)
  /\ child \in {"up", "gone"}
  /\ said \in Seq(OutLine)
  /\ heard \in 0..Len(said)
  /\ reader \in {"up", "dead", "done"}
  /\ outQ \in Seq(OutLine)
  /\ writer \in {"up", "dead", "done"}
  /\ toHost \in Seq(OutLine)
  /\ exact \subseteq 1..taken /\ approx \subseteq 1..taken /\ forgotten \subseteq 1..taken

(* README, "automatically registered": what is on its way to the host of a *)
(* sensitive read is in the approximate matcher, and in the exact one      *)
(* unless the TTL has taken it from there - at the latest when it is       *)
(* queued, so no call of the host can carry what is not yet looked for.    *)
RegisteredBeforeDelivered ==
  \A i \in ResultIds(toHost) \cup ResultIds(outQ) :
    host[i].kind = "read" => i \in approx /\ i \in exact \cup forgotten

(* A call that carries a secret to a destination that is not allowed       *)
(* reaches the child only after a human approved it.  The policy can give  *)
(* this away: tier V0 looks for nothing, V1 and V2 look for nothing that   *)
(* the TTL has expired.                                                    *)
Guarded(s) == tier >= 3 \/ (tier >= 1 /\ s \notin forgotten)
NoUnapprovedLeak ==
  \A i \in ToSet(childGot) :
    host[i].carries # 0 /\ Guarded(host[i].carries) /\ host[i].kind # "post"
      => i \in approved

(* What the reader took from the child reaches the host whole and in the   *)
(* order it was said, whatever error responses are mixed in, except for a  *)
(* line the reader died of.                                                *)
FromChild(l) == l.kind \in ChildSays
ChildLines(q, n) == {m \in 1..n : FromChild(q[m])}
HandedOn == IF reader = "dead" THEN heard - 1 ELSE heard
LinesInOrder ==
  /\ Cardinality(ChildLines(Outgoing, Len(Outgoing))) = HandedOn
  /\ \A n \in ChildLines(Outgoing, Len(Outgoing)) :
       Outgoing[n] = said[Cardinality(ChildLines(Outgoing, n))]

\* run is over, but for what keeps the broker's stop waiting.
Over == main \in {"stopping", "stopped"}

(* run's `finally` sends every queued line before the relay is gone: no    *)
(* refusal, and no line that was read from the child, is cut off by the    *)
(* shutdown.  (What the reader had not read yet is dropped.)               *)
FlushedAtExit == Over /\ writer # "dead" => outQ = <<>>

\* What became of the frames that main has done with.
Fate(i) ==
  IF i \in ToSet(childGot) THEN "passed"
  ELSE IF \E l \in ToSet(Outgoing) : l.kind \in Refusals /\ l.id = i THEN "refused"
  ELSE "lost"
Fates == [i \in 1..(IF main = "asking" THEN taken - 1 ELSE taken) |-> Fate(i)]

Promise == INSTANCE Mediator WITH frames <- host, fate <- Fates, known <- Learned

(* The relay is a mediator: one frame at a time and in order, each passed  *)
(* on or refused but never both or later changed, and no content of a      *)
(* sensitive read without the read having been passed on.                  *)
PromiseKept == Promise!Spec

(* Every frame the host sends and the stdin thread hands over is dealt     *)
(* with, unless the child is at its end first (the relay's own end comes   *)
(* after that): no call is stuck behind another one's question.            *)
FrameIsSettled ==
  \A i \in 1..MaxFrames :
    i <= Len(host) ~> \/ i \in DOMAIN Fates /\ Fate(i) # "lost"
                      \/ child = "gone"
                      \/ cut # 0 /\ cut <= i

(* Once the host closes our stdin the relay gets done, whatever it was     *)
(* doing: asking, waiting for a full pipe, or with a dead reader or        *)
(* writer.  A stdin thread that has died never sees that end, and the stop *)
(* of the broker may still have to wait.                                   *)
EofStops == eof ~> Over \/ cut # 0

(* README, Auto-registration, "when the matching response comes back, its  *)
(* content is automatically registered": the answer of a forwarded read is *)
(* registered when it is queued for the host.                              *)
AnswersAreRegistered ==
  \A i \in ResultIds(toHost) \cup ResultIds(outQ) : host[i].kind = "read" => i \in approx
=============================================================================
