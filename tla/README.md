# A verification development of ProvProxy

ProvProxy (`provproxy/`) sits between an MCP host and a tool server. It relays
JSON-RPC lines on stdin and stdout, evaluates every `tools/call` against the
content of sensitive reads it has seen, and forwards, refuses, or asks a human
through a second program (`approve_cli.py`). This directory holds TLA+ models
of its components, the TLC runs that check them and the TLAPS proofs: every
safety invariant that a passing run checks, and both refinements, are theorems.

    tlc -workers 2 -config ApprovalBroker_safety.cfg MCApprovalBroker.tla
    tlapm RelayProofs.tla

## The system

| component | state | operations | talks to |
|---|---|---|---|
| relay (`relay.py`) | tracked reads, output queue, three tasks and a stdin thread | take a host line, decide and forward or refuse; take a child line, register, queue; write; shut down | host and child by pipes; session; broker by an awaited call |
| approval broker (`broker.py`) | id counter, `_pending`, `_clients`, server | start, stop, request_approval, one handler task per client | enforcement by a future; clients by TCP lines |
| enforcement (`enforcement.py`) | none of its own | resolve_ask_user: request, wait with a timeout, Decision | called by the relay |
| companion CLI (`approve_cli.py`) | socket, receive buffer | listener thread, keyboard thread | broker |
| session, matchers (`session.py`, `matcher.py`, `approx.py`) | exact snapshot and fragments, last activity; approximate sources | register, expire, scan | called by relay and pipeline |
| cross-call windows (`crosscall.py`) | a deque per (session, destination, source) | record, evict, accumulated coverage | called by the pipeline |
| pipeline, decoder, destination (`pipeline.py`, `decode.py`, `destination.py`) | none | evaluate, expand, allow-list decision | called by the relay |
| frames, policy (`rpc.py`, `config.py`) | none after loading | classify, build responses, read the policy | - |

What is hard here: everything runs as coroutines on one loop, so the order is
free wherever an await can suspend and fixed elsewhere; shared objects
(`_clients`, `_pending`, `_pending_sensitive_reads`, the output queue) are used
on both sides of such awaits; a human, a timer and a shutdown race for each
question; each process, each pipe and the stdin thread may end on its own; and
two processes share one space of JSON-RPC ids. `PROJECT.json` lists the hazards
line by line with the properties that cover them.

What makes each component correct:

- *broker and enforcement*: a call is allowed only by an approval of its own,
  the first answer is final, every waiting question is visible to every
  connected program, every question ends, and every failure ends in BLOCK (the
  code keeps the last three with exceptions, see "Where code and documents
  differ");
- *companion CLI*: lines are shown whole, in order, and as long as it runs;
- *relay*: host frames are settled one by one, in order and once; child lines
  arrive whole and in order; a secret is registered before the host can use it;
  a guarded secret leaves only with an approval; the shutdown ends and flushes;
- *matchers, windows, decoder, destination*: what they compute equals its
  definition at all the limits; eviction and edge-triggering lose no evidence
  they should keep.

## The modules

| module | what it is |
|---|---|
| `Approval` | what `enforcement.py` promises: one answer per question, allow only on a yes, decisions are final |
| `ApprovalBroker` | `broker.py` with `resolve_ask_user`; implements `Approval` (`PromiseKept`) |
| `ApprovalBrokerProofs` | theorems about `ApprovalBroker`, for every value of its constants |
| `ApproveCli` | both threads of `approve_cli.py` over a byte stream cut anywhere |
| `ApproveCliProofs` | theorems about `ApproveCli` |
| `Mediator` | what a host may rely on: fates in order, one for each frame, final |
| `Relay` | the tasks of `relay.py` with the sets of registered secrets; implements `Mediator` (`PromiseKept`) |
| `RelayProofs` | theorems about `Relay` |
| `CrossCall` | one session's matching at tier V4: sources, TTL, windows, and the evaluation of a call |
| `Extremes` | least and greatest elements, and recursive functions: the lemmas that stand for induction |
| `CrossCallTexts` | lemmas about the texts of `CrossCall`: n-grams, coverage, and sequences in order |
| `CrossCallProofs` | theorems about `CrossCall` |
| `Policy` | `config.py`: what a policy file becomes, with its defaults, and the look-ups in it |
| `Destination` | `destination.py`: the paths and domains of a call, and the two decisions about them |
| `Decode` | `decode.py`: the tokens of a payload and what the decoders make of them within the limits |
| `DecodeProofs` | lemmas about `Decode`: what is found in an encoded text, and what is not |
| `Inspection` | the decision over one call after another at V0 to V2, composed of the last three, the exact matcher and the registration |
| `InspectionProofs` | theorems about `Inspection` |
| `MC...` | the instances for TLC |

### ApprovalBroker

An action is the code from one suspension to the next. `call[k]` is where the
`resolve_ask_user` of call k is: `notify` inside `request_approval`'s broadcast,
`wait` in `wait_for`, then `allow` or `block`; `crashed` and `cancelled` are the
two ways it ends without a Decision. `fut` is its future, `pending` the
`_pending` dict, `cast[t]` the frame of a suspended `_broadcast` (the line, the
set as it was when the loop began, whom it has visited and whom it waits for).
`Broadcast` is the loop up to its next suspension: it may meet writers added
meanwhile or not (set iteration), and `BroadcastError` is the RuntimeError of a
set whose size changed. A change that leaves the size as it was (one client
leaves, another joins) goes unnoticed. The iteration is an index into the set's
table: as long as the table stays, everyone in it keeps its place, but adding an
entry may rebuild the table (`Rebuild`), in an order that has nothing to do with
the one before, and whoever was still to come may then stand behind the index.
`cast` therefore loses what it knows of the order. Entries that were discarded
keep their place until then, so what counts is `Joined`, everyone who was ever
added; CPython's table of eight places is rebuilt when the fifth entry comes,
hence 4 for `TableRoom` (tried out on CPython 3.11); `ApprovalBroker_safety`
allows a rebuild already when the second comes, which is more than CPython does.
`atRisk` remembers which question's broadcast a rebuild disturbed and who was
still before it. The number of clients is not bounded.

A done-callback (`RunCallback`) is a turn of the loop of its own, before the
waiter's (`Resume`). `Py312` selects how `wait_for` and `wait_closed` behave:
from 3.12 on a late timer may still turn an answer into a TimeoutError, and
`stop` waits for the clients.

Abstracted: description texts, ports, malformed commands (ignored by the code
without any change of state), a write's bytes. `sent`, `heard` and `atRisk` are
history.

### Relay

A frame is its position in the host's stream, which is also its id. `main`,
`reader`, `writer` are the three tasks; `host`/`taken` and `said`/`heard` are
the two input streams and how far they have been taken. The stdin thread and its
queue keep the order, so they are one with the stream while the thread lives. It
dies of a line that it cannot decode (`StdinDies`, kind "bytes"): the text layer
decodes strictly and in blocks, so lines that came in one piece with the bad one
may go with it. `cut` is the first line that is never queued (0: none), and
neither is the end-of-file sentinel behind it. Whether a "bytes" line is one
depends on the encoding of stdin, so the step may also fail to come before main
takes the line (under C or POSIX locales Python decodes every byte). A sensitive
read i yields the secret i; a call carries at most one, in a form that the
matchers recognise (`Inspection` has the forms), and the host only sends what it
has learned from `toHost`. `exact` and `approx` are the two matchers as sets of
secrets, `expire_if_stale` may empty `exact` at any call (any time may have
passed). `Detect` is the pipeline for such a payload: V1 and V2 find it in the
exact matcher, V3 and V4 also in the approximate one, V0 nowhere. `EndLoop` is
the end of `_host_to_child`, by EOF or an exception, with the first lines of
`run`'s `finally`, which follow without a suspension; the two ends differ only
in `run`'s own exception. `StopBroker` is its last line: the broker's
`wait_closed` waits, from Python 3.12 on, for every companion program that is
connected, and main stays "stopping" until they leave (`CompanionsLeave`), which
nothing forces. `AskReturns` stands for `resolve_ask_user` with its three ends,
as `ApprovalBroker` has them; that it returns at all rests on programs that read
(see Fairness).

`LinesInOrder` counts instead of filtering: `Outgoing` is what the host has and
what is queued for it, and each line of the child in it stands behind as many of
them as the child had said before it.

Abstracted: tools and paths (a kind of frame says where a call goes), payloads
that hold a secret in another form, blank lines (skipped), logging.

### ApproveCli

`Split` is the `while b"\n" in buf` loop: `Ends` are the places of the newlines
in their order, `Lines` what stands between them. `RecvTimeout` is the `OSError`
of the timeout that `create_connection` leaves on the socket.

### CrossCall

A text is a sequence of `Symbols`; a payload is a record of what the matchers
see of a call: its raw text, the extracted values, and what the decoders make of
either. The extraction and the decoding themselves are inputs (`Fields` and
`Encoded` of the MC module are what they do to two shapes of payload), and the
candidates hold no further structure, so that `record`'s second extraction
changes nothing. `Evaluate` is `_evaluate_detection` from `expire_if_stale` to
the relay's decision: `Matches` are the early returns of V1 to V3 (`Alone`: such
a call is not recorded, and the two invariants say nothing of a destination
after it), `Visited` is how far the loop over the sources comes before a report
returns, `Over` compares the three coverages with the threshold as fractions,
which for such small numbers agrees with the code's floats. Windows are evicted
when used, as in the code: `DropWhile` is the loop of `_evict_expired`, which
stops at the first entry that is young enough. `log` and `since` are history;
the properties recompute from the log what a window should know, so they do not
trust the windows.

### Policy, Destination, Decode, Inspection

The first three are operators without state, as the code's modules are
functions. A policy file is a record that lacks what the file leaves out;
`FromDict` fills in the defaults. A call is a tool and the strings among its
arguments; a URL is given by its authority; `Accepts` is what fnmatch says.
`BindingFor` and `CapabilityFor` are sets of at most one element, so that
"unknown server or tool" is the empty set.

A text of `Decode` is the encodings around a part of some content, and a
length: that is all the limits depend on. The formulas for the lengths were
compared with the code's decoders for every encoding of a narrow and a wide
text, up to three deep and cut at every length. They are exact except behind a
torn percent escape, where the model looks no further. A payload is the tokens
into which the strings of the arguments fall; `Candidates` are the places of
those that are taken from it, `Whole` and `BytesIn` what the four decoders accept
and what they make of it.

`Inspection` keeps what decides over a call beyond the call itself: the policy,
the tracked reads (by what they will be answered, where the code has ids) and
the exact matcher. `Handle` is `_handle_tool_call` from `payload_text` to its
end, with the human's answer; `last` is the call in hand and what was decided,
and `Return` ends it. An answer may be registered at any time between. `Size`
is `flatten_json_strings`: what is registered of an MCP answer is its content
with the word "text" in front, which is why a copy of the content is only part
of it.

## The runs

| run | expects | instance | shows |
|---|---|---|---|
| `ApprovalBroker_safety` | pass | 2 calls in turn, 2 clients, one slow; 1.4 M states | the six safety properties and `Approval` |
| `ApprovalBroker_live` | pass | 2 calls at once, 1 slow client, Python >= 3.12 | every question ends; the promise with concurrent askers |
| `ApprovalBroker_crash` | violation | 1 call, 2 clients | a broadcast can end a call without a Decision |
| `ApproveCli_pass` | pass | 3 lines of 3 bytes, pieces of 1 to 4 | lines are shown whole and in order |
| `ApproveCli_idle` | violation | 1 line | after 5 idle seconds nothing is shown |
| `Relay_safety` | pass | 3 tool calls, V1 and V3, ask_user; 3.8 M states | registration precedes delivery, no unapproved leak, order, flush, `Mediator` |
| `Relay_live` | pass | 2 frames of any kind, both actions, Python >= 3.12; 400,000 states | frames that are handed over are settled; EOF gets main to the end of the shutdown, where it may wait for the broker's clients |
| `Relay_request` | violation | 2 frames, server's ids from 1 | the server's own request takes a tracked read's entry |
| `CrossCall_pass` | pass | 3 calls, 2 secrets that overlap, 2 destinations, windows of 2 calls and 1 second; 1.5 M states | crossings are reported, and only by calls that make them |
| `CrossCall_sources` | violation | the same | a report for one secret leaves the windows of later ones behind |
| `Inspection_pass` | pass | 14 policy files, 9 calls, 67 payloads; 340,000 states | registered content within the limits is guarded, refusals are deserved, marked places are never exempt |
| `Inspection_copy` | violation | the same | a whole copy with something attached is not found |

Why the bounds are enough: a leak takes a read, its answer and a second call,
and a third frame is needed to see one wait behind another; two clients are
what an inconsistent announcement or a changed set takes, and the second call
shows what of the first one remains. Only the relay asks, one call at a time
(`MaxOpen = 1`); the live run has two askers because the broker's interface
allows it. One line said unasked is enough to take an entry or to end the
reader. The proofs do not depend on these bounds.

Three calls are two slices that
cross and one more call before, between or after them, which a window of two
cannot hold as well; one slice of the long secret is two symbols, so coverage
by n-grams and by positions differ, and 2/3 is met exactly by the short one.

The policies of `Inspection` vary one thing at a time: tier, action, order of
bindings, missing bindings, overlapping lists, and each limit at two values
that some payload meets exactly and another one misses by one step. The
payloads have every pair of encodings, some triples and a fourfold one, and
long and short tokens in front. Calls and answers repeat without a bound.

The wrong variants in the modules (`FaultyTakeId`, `TrackNothing`, ...) are
plausible mistakes, one for each property, under which the property fails; they
are used nowhere else.

### Fairness

The event loop runs what is ready and its timers fire: weak fairness of each
coroutine's next step. Nothing makes a human type, a program connect or leave,
the relay ask, or the host send. `FairSpec` of the broker adds that a connected
program reads: without that, the broadcast may wait for ever. The relay's
`FairSpec` takes from the broker that `resolve_ask_user` returns, so it rests on
that too, and assumes that a running child reads its stdin and obeys SIGTERM,
that a host that is there reads our stdout, and that the stdin thread reads on,
to a line it may die of. Companion programs need not leave, so what is promised
of the shutdown ends at `StopBroker`, and a dead stdin thread promises nothing
(`EofStops`). Deadlock is not checked where a system may stop.

## What is proved

`ApprovalBrokerProofs`, from `BrokerAssumption` alone, for any number of calls
and clients:

- `TypeCorrect`, `AllowNeedsApprovalHolds`: from `IInv` (`Invariant`). Type
  correctness alone is not inductive for the approval property: `IInv` adds what
  each place of a call says about its future and its id (a call beyond the
  request has an id below the counter; an approved future has a heard id) and
  what a suspended broadcast is about.
- `OneVerdictHolds`, `AnnouncedApproval` (before Python 3.12): from
  `VerdictInv`, every RESOLVED line, written or still to be written by a
  suspended broadcast, agrees with the future of the call with that id. It rests
  on `AnswersStay`: an answered future never changes.
- `MissedOnlyByRebuildHolds`, for any number of clients: from `AnnounceInv`. A
  waiting call has reached every client that is registered, or the replay to
  that client is still to come, or the set was rebuilt while the broadcast of
  that call still had that client before it; `CastReaches` and `CoveredStays`
  follow the broadcast's loop over a set that may change.
- `WaitingIsAnnouncedHolds`: its corollary while no more than `TableRoom`
  clients have joined. `RoomInv` says that nothing is at risk until then.
  Without the condition it is false: with five clients, one of them slow, TLC
  finds a client left out.
- `PromiseIsKept`: `Approval` is implemented: every step of the broker maps to a
  step of the abstract specification or to a stutter (`PromiseStep`).

`RelayProofs`, from `RelayAssumption`, for any number of frames and any tier:

- `TypeCorrect`, `ShutdownFlushes` (what was queued; lines that the reader has
  not read by then are dropped): from `IInv`, which adds to the types what the
  other proofs rest on: the child answers only what has reached it (`SaidInv`),
  a frame is passed on or refused, never both (`OutInv`), what main asks about
  is not decided yet (`MainInv`), and a queue that holds the sentinel ends with
  it, with no reader left to put anything behind it (`EndInv`).
- `OrderIsKept`: inductive with `IInv`. A refusal put between two of the child's
  lines changes no count of them (`LinesAfterAppend` and its companions).
- `OnlyRequestsUntrack`, `OnlyRequestsLeak`: from `TrackInv`. A read that was
  passed on is tracked until its answer is taken; a result on its way to the
  host is registered; what a frame of the host carries is looked for - each
  unless the id is in `TakenIds`, the ids with which the reader took a request
  of the server before it took their answer. Such a request removes the entry of
  the read (`Relay_request` shows it); the theorems say, without any assumption
  about the ids, that there is no other way to lose one.
- `ReadsAreRegistered`, `NothingLeaks`: what this makes of the two invariants
  that `Relay_safety` checks, under the assumption `OwnIds` that this run's
  constants meet: the ids of the server's own requests are none of the host's,
  so `TakenIds` holds no frame's.
- `RelayIsMediator`: every step maps to a step of `Mediator` or a stutter. Its
  invariant `LostInv` says that a frame is lost only when a process has ended,
  and that nothing is passed on after that.

`CrossCallProofs`, from `CrossCallAssumption`, for any texts, payloads,
thresholds and sizes of a window:

- `TypeCorrect`: with `TimesInv` (the log is in the order of time, and no entry is
  younger than the clock).
- `CrossingsAreReported`, `ReportsAreDeserved`: the windows are compared with the
  log, which nothing evicts from. `WindowInv`: the entries of a window are what
  some calls of the log told, in their order, and while nothing is reported to
  that destination it lacks none that its bounds allow it to hold. `BelowInv`:
  as long as that is so, the window is below the threshold. `DeservedInv` keeps
  for each report the calls that reached the threshold with it. The proof needs
  that a window that loses entries by age and by count loses coverage, by each of
  the three measures (`OverSuffix`), and that a set of calls has one order
  (`InOrderIs`); both are lemmas of `CrossCallTexts`.

`ApproveCliProofs`, from `CliAssumption`, for lines of any length:

- `TypeCorrect`, `LinesAreShownAsSent`: from `StreamInv`. What is in the buffer
  and what is still on the wire are together the stream from the first line on
  that is not shown, wherever a piece ends; so a split yields the next lines and
  leaves the start of one.

`InspectionProofs` and `DecodeProofs`, from `InspectionAssumption` (answers are
contents, bindings are a list, tiers are those of the enumeration, limits are
counts) and `PayloadAssumption` (characters have a width, and a text of a payload
has a part of its content, encoded or not). They exclude negative limits, which
`config.py` would accept:

- `TypeCorrect`: only what a call on a marked place is answered with is ever
  tracked or registered. It is inductive as it stands.
- `NeverExempt`: `OneBinding` shows that the first binding of a server decides
  for both functions, `SensitiveIsNotAllowed` that they exclude each other; the
  step is `Handle`'s.
- `NoWider`: `WithNamesMore`, a further argument takes no path or domain away.
- `RefusalsAreDeserved`: `ExpandFrom`, every candidate comes from a text of the
  payload, has as many layers less as it was decoded times, and holds no more of
  the content than the text did, however it was cut in between. A text that
  decodes to eight characters of a content had that many of it.
- `NothingInReachIsMissed`: `ExpandFinds`, a whole text whose lengths keep to the
  limits is decoded to its last layer without a cut. For each encoding,
  `UnwrapExact` says that decoding takes back what encoding did, `UnwrapBelow`
  that a cut text gives no more than the whole one; wide characters and the
  padding of base64 are in these two.

Recursion is proved about without an induction rule: `EncodedLen` and `Expand`
are recursive functions, `Recursion` (of `Extremes`) says that such a function
exists, and a property of its values holds because there is no least level where
it fails (`HasMin`).

Model-checked only: liveness under fairness (`AskedIsSettled`, `FrameIsSettled`,
`EofStops`, `SentIsShownOrOver`), which is out of the proof system's reach, and
the five violations. That the formulas of `Decode` are those of the code's
decoders was compared by running them, and is neither checked nor proved here.

## Where code and documents differ

`PROJECT.json` quotes the documents; each violation run is one of these:

- `_broadcast` can end a call with a RuntimeError (`ApprovalBroker_crash`);
- the companion CLI's listener ends after five idle seconds (`ApproveCli_idle`);
- a request of the server's own can take the entry of a tracked read
  (`Relay_request`);
- a cross-call report for one secret skips the windows of the secrets registered
  later (`CrossCall_sources`);
- the registered text of an MCP answer begins with its type, so a whole copy of
  the content with anything attached is not found at V1 and V2
  (`Inspection_copy`).

Known besides and without a run, first what the models contain:

- when one client leaves and a fifth joins while a broadcast waits, the set
  keeps its size and may be rebuilt, and the broadcast can leave out a connected
  client (`broker.py` line 114, against lines 58-60: "any connected
  companion-CLI client sees the request"); `MissedOnlyByRebuildHolds` says that
  this is the only gap;
- the approval timeout starts only after the broadcast, so a program that does
  not read holds a call without limit (`enforcement.py` line 50, against README
  line 51);
- a line of the host that cannot be decoded ends the stdin thread: that line and
  all later ones are lost, no end of file is seen, and the relay neither serves
  nor stops (`relay.py` line 107, against `rpc.py` lines 3-4 and 74-76:
  everything that is no tool call, "valid JSON" or not, passes through);
- an array line ends the relay's reader while a read is tracked (`relay.py` line
  252, against lines 242-244: a malformed line "should never crash the relay"),
  and so does a line over 64 KiB, tracked or not;
- a call that V1 to V3 report is not recorded in any window (`pipeline.py` lines
  112, 122 and 134, against lines 144-147: "regardless of whether this single
  call alone matches").

Then: `max_candidate_len_bytes` is compared with
bytes and cut in characters, so a text of wide characters may stay over it
(`decode.py` lines 71-73); no decoder lengthens a text, so an expansion limit of
1 or more never applies; `is_sensitive_source` also takes writes, moves and
deletions for reads (its docstring and README line 22); an empty allow-list
allows what is not blocked, although `destination.py` line 22 says that a
destination that matches no allow rule is not allowed; the paths are compared as
they are spelled, `pathcanon.py` is not used; `stop` leaves `_server` set
although a comment says a stopped broker refuses (the relay asks nothing after
its stop); from Python 3.12 on the relay does not end while a companion program
stays connected; a call lost by
`crashed` leaves its `_pending` entry; a client may see PENDING after the
RESOLVED of the same id; a call that crossed the threshold and was refused is
not reported when it is sent again, because its evidence stays in the window;
repeated slices can raise the coverage of the ordered concatenation
(`crosscall.py`, lines 113-116, says so of positions only).

## Not modelled

The evaluation harness, benchmarks and `run_evaluation.py` (offline, sequential),
`pathcanon.py` (used by its test only), the parsing of arguments and of JSON,
logging. Of the text level: what `extract_reconstructable_value` makes of a
payload is an input of `CrossCall`, and so is what the decoders give there; the
approximate matcher is not composed with `Decode`.

## The plan

Done: 1. `Approval`, `ApprovalBroker` and its proofs; 2. `ApproveCli` and its
proofs; 3. `Mediator`, `Relay` and its proofs; 4. `CrossCall` and its proofs;
5. `Policy`, `Destination`, `Decode`, `Inspection` and their proofs.

Next:

6. For the broker, that an entry is left in `_pending` only by a lost call.

A composition of `ApproveCli` with `ApprovalBroker` over one connection is left
out: each already has the other's part as an environment that may do more.
