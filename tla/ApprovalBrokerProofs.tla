------------------------ MODULE ApprovalBrokerProofs ------------------------
(***************************************************************************)
(* Theorems about ApprovalBroker, for any calls, clients, ids, slow        *)
(* clients and number of askers, and whatever the room in a set's table.   *)
(***************************************************************************)
EXTENDS ApprovalBroker, FiniteSetTheorems, TLAPS

-----------------------------------------------------------------------------
\* ---- Typing ----

LEMMA NoCastTyped == NoCast \in Casts
BY DEF NoCast, Casts, Line, Lines

LEMMA FreshCastTyped ==
  ASSUME TypeOK, NEW line \in Lines
  PROVE  FreshCast(line) \in Casts
<1>1. clients \subseteq Clients /\ IsFiniteSet(clients)
  BY BrokerAssumption, FS_Subset DEF TypeOK
<1>2. Cardinality(clients) \in Nat
  BY <1>1, FS_CardinalityType
<1> QED  BY <1>1, <1>2, NoCastTyped DEF FreshCast, Casts

\* A rebuild forgets only where the suspended broadcasts stand.
LEMMA RebuildCast ==
  ASSUME TypeOK, Rebuild, NEW t \in Tasks
  PROVE  /\ cast'[t] \in Casts
         /\ cast'[t].line = cast[t].line /\ cast'[t].at = cast[t].at
         /\ cast'[t].over = {} /\ cast'[t].seen = {}
<1>1. cast[t] \in Casts
  BY DEF TypeOK
<1>2. cast'[t] = [cast[t] EXCEPT !.over = {}, !.seen = {}]
  BY DEF Rebuild
<1> QED  BY <1>1, <1>2 DEF Casts

LEMMA WriteTyped ==
  ASSUME TypeOK, NEW line \in Lines, NEW S, Write(line, S)
  PROVE  sent' \in [Clients -> SUBSET Lines]
BY DEF TypeOK, Write

LEMMA GoesTyped ==
  ASSUME TypeOK, NEW t \in Tasks, NEW a \in CallStates, NEW h \in HandlerStates,
         Goes(t, a, h)
  PROVE  /\ call' \in [Calls -> CallStates]
         /\ handler' \in [Clients -> HandlerStates]
BY DEF TypeOK, Goes

\* One stretch of a _broadcast keeps the types.
LEMMA BroadcastTyped ==
  ASSUME TypeOK, NEW t \in Tasks, NEW b \in Casts, Broadcast(t, b)
  PROVE  /\ clients' \subseteq Clients
         /\ cast' \in [Tasks -> Casts]
         /\ full' \in [Clients -> BOOLEAN]
         /\ sent' \in [Clients -> SUBSET Lines]
         /\ call' \in [Calls -> CallStates]
         /\ handler' \in [Clients -> HandlerStates]
<1>1. PICK S \in SUBSET {c \in clients \ b.seen : ~full[c]} :
        \E D \in SUBSET {c \in S : Gone(c)} :
          CastEnds(t, b, S, D) \/ \E c \in (clients \ b.seen) \ S : CastSuspends(t, b, S, D, c)
  BY DEF Broadcast
<1>2. PICK D \in SUBSET {c \in S : Gone(c)} :
        CastEnds(t, b, S, D) \/ \E c \in (clients \ b.seen) \ S : CastSuspends(t, b, S, D, c)
  BY <1>1
<1>3. b.line \in Lines /\ b.seen \subseteq Clients /\ b.dead \subseteq Clients
  BY DEF Casts
<1>4. /\ "wait" \in CallStates /\ "notify" \in CallStates
      /\ "read" \in HandlerStates /\ "notify" \in HandlerStates
  BY DEF CallStates, HandlerStates
<1>5. CASE CastEnds(t, b, S, D)
  <2>1. sent' \in [Clients -> SUBSET Lines]
    BY <1>3, <1>5, WriteTyped DEF CastEnds
  <2>2. call' \in [Calls -> CallStates] /\ handler' \in [Clients -> HandlerStates]
    BY <1>4, <1>5, GoesTyped DEF CastEnds
  <2>3. cast' \in [Tasks -> Casts]
    BY <1>5, NoCastTyped DEF TypeOK, CastEnds
  <2> QED  BY <1>5, <2>1, <2>2, <2>3 DEF TypeOK, CastEnds
<1>6. ASSUME NEW c \in (clients \ b.seen) \ S, CastSuspends(t, b, S, D, c)
      PROVE  /\ clients' \subseteq Clients
             /\ cast' \in [Tasks -> Casts]
             /\ full' \in [Clients -> BOOLEAN]
             /\ sent' \in [Clients -> SUBSET Lines]
             /\ call' \in [Calls -> CallStates]
             /\ handler' \in [Clients -> HandlerStates]
  <2>1. sent' \in [Clients -> SUBSET Lines]
    BY <1>3, <1>6, WriteTyped DEF CastSuspends
  <2>2. call' \in [Calls -> CallStates] /\ handler' \in [Clients -> HandlerStates]
    BY <1>4, <1>6, GoesTyped DEF CastSuspends
  <2>3. c \in Clients /\ S \subseteq Clients /\ D \subseteq Clients
    BY DEF TypeOK
  <2>4. [b EXCEPT !.seen = b.seen \cup S \cup {c}, !.at = c, !.dead = b.dead \cup D] \in Casts
    BY <1>3, <2>3 DEF Casts
  <2>5. cast' \in [Tasks -> Casts]
    BY <1>6, <2>4 DEF TypeOK, CastSuspends
  <2>6. full' \in [Clients -> BOOLEAN]
    BY <1>6, <2>3 DEF TypeOK, Gone, CastSuspends
  <2> QED  BY <1>6, <2>1, <2>2, <2>5, <2>6 DEF TypeOK, CastSuspends
<1> QED  BY <1>2, <1>5, <1>6

-----------------------------------------------------------------------------
\* ---- The inductive invariant ----

\* The ids given out so far are below the counter, and a call has one exactly
\* when it has a future.
IdInv ==
  \A k \in Calls : rid[k] < nextId /\ (fut[k] = "none" <=> rid[k] = 0)

\* How a call, its future and its entry in _pending go together.
CallInv ==
  \A k \in Calls :
    /\ call[k] = "idle" => fut[k] = "none"
    /\ call[k] \in {"notify", "wait"} => fut[k] # "none"
    /\ fut[k] = "pending" => k \in pending /\ call[k] \in Unreturned
    /\ k \in pending => fut[k] # "none"
    /\ call[k] = "allow" => fut[k] = "approved"
    /\ call[k] = "block" /\ ~Py312 => fut[k] # "approved"

\* An approved future was approved by a line that named its request.
HeardInv == \A k \in Calls : fut[k] = "approved" => rid[k] \in heard

\* A call that is suspended in a broadcast says so.
CastInv == \A k \in Calls : cast[k].at # 0 => call[k] = "notify"

IInv == TypeOK /\ IdInv /\ CallInv /\ HeardInv /\ CastInv

\* One stretch of a _broadcast moves only the call that is in it, if any.
LEMMA BroadcastCall ==
  ASSUME TypeOK, NEW t \in Tasks, NEW b, Broadcast(t, b)
  PROVE  /\ t \in Clients => call' = call
         /\ t \in Calls => \/ call' = [call EXCEPT ![t] = "wait"]
                           \/ call' = [call EXCEPT ![t] = "notify"]
<1>1. CASE t \in Clients
  BY <1>1, BrokerAssumption DEF Broadcast, CastEnds, CastSuspends, Goes, Tasks
<1>2. CASE t \in Calls
  BY <1>2, BrokerAssumption DEF Broadcast, CastEnds, CastSuspends, Goes, Tasks
<1> QED  BY <1>1, <1>2, BrokerAssumption DEF Tasks

LEMMA InitIInv == Init => IInv
<1> SUFFICES ASSUME Init PROVE IInv
  OBVIOUS
<1>1. TypeOK
  <2>1. cast \in [Tasks -> Casts]
    BY NoCastTyped DEF Init
  <2> QED  BY <2>1 DEF Init, TypeOK, FutStates, CallStates, HandlerStates
<1>2. IdInv /\ CallInv /\ HeardInv /\ CastInv
  BY DEF Init, IdInv, CallInv, HeardInv, CastInv, NoCast, Tasks
<1> QED  BY <1>1, <1>2 DEF IInv

\* The typing of what a step of a call or of the broker as a whole changes.
LEMMA TypeStep ==
  ASSUME TypeOK, IdInv, [Next]_vars
  PROVE  TypeOK' /\ (\A k \in Calls : rid'[k] < nextId')
<1> USE DEF IdInv
<1>0. CASE UNCHANGED vars
  BY <1>0 DEF TypeOK, vars
<1>1. CASE Start
  BY <1>1 DEF TypeOK, Start, clientVars
<1>2. CASE Stop
  BY <1>2 DEF TypeOK, Stop, CancelPending, clientVars, FutStates
<1>3. CASE FinishStop
  BY <1>3 DEF TypeOK, FinishStop, CancelPending, clientVars, FutStates
<1>4. ASSUME NEW k \in Calls, CallStep(k)
      PROVE  TypeOK' /\ (\A j \in Calls : rid'[j] < nextId')
  <2>1. CASE AskUnavailable(k)
    BY <2>1 DEF TypeOK, AskUnavailable, clientVars, CallStates
  <2>2. CASE Ask(k)
    <3>1. Line("PENDING", nextId) \in Lines /\ k \in Tasks
      BY DEF TypeOK, Line, Lines, Tasks
    <3>2. PICK b \in Casts : Broadcast(k, b)
      BY <2>2, <3>1, FreshCastTyped DEF Ask
    <3>3. /\ nextId' \in Nat \ {0} /\ rid' \in [Calls -> Nat]
          /\ \A j \in Calls : rid'[j] < nextId'
          /\ \A i, j \in Calls : i # j /\ rid'[i] = rid'[j] => rid'[i] = 0
      BY <2>2 DEF Ask, TakeId, TypeOK
    <3>4. fut' \in [Calls -> FutStates] /\ pending' \subseteq Calls
      BY <2>2 DEF Ask, TypeOK, FutStates
    <3>5. UNCHANGED <<server, sock, heard, atRisk>>
      BY <2>2 DEF Ask
    <3> QED  BY <3>1, <3>2, <3>3, <3>4, <3>5, BroadcastTyped DEF TypeOK
  <2>3. CASE CancelAsk(k)
    <3>1. cast' \in [Tasks -> Casts]
      BY <2>3, NoCastTyped DEF TypeOK, CancelAsk
    <3> QED  BY <2>3, <3>1 DEF TypeOK, CancelAsk, clientVars, CallStates
  <2>4. CASE Expire(k)
    BY <2>4 DEF TypeOK, Expire, clientVars, FutStates
  <2>5. CASE RunCallback(k)
    BY <2>5 DEF TypeOK, RunCallback, clientVars
  <2>6. CASE Resume(k)
    BY <2>6 DEF TypeOK, Resume, Outcome, clientVars, CallStates
  <2>7. CASE ResumeTimedOut(k)
    BY <2>7 DEF TypeOK, ResumeTimedOut, clientVars, CallStates
  <2> QED  BY <1>4, <2>1, <2>2, <2>3, <2>4, <2>5, <2>6, <2>7 DEF CallStep
<1>5. ASSUME NEW c \in Clients, HandlerStep(c)
      PROVE  TypeOK' /\ (\A j \in Calls : rid'[j] < nextId')
  <2>1. CASE Greet(c)
    <3>1. Replay \subseteq Lines
      BY DEF TypeOK, Replay, Line, Lines
    <3>2. sent' \in [Clients -> SUBSET Lines]
      BY <2>1, <3>1 DEF TypeOK, Greet
    <3>3. /\ handler' \in [Clients -> HandlerStates]
          /\ clients' \subseteq Clients
          /\ full' \in [Clients -> BOOLEAN]
      BY <2>1 DEF TypeOK, Greet, HandlerStates, Gone
    <3>4. CASE Rebuild
      <4>1. cast' \in [Tasks -> Casts]
        BY <3>4, RebuildCast DEF Rebuild
      <4>2. \A k \in Calls : cast[k].over \subseteq Clients
        BY DEF TypeOK, Tasks, Casts
      <4>3. ASSUME NEW p \in atRisk'
            PROVE  p \in atRisk \/ \E k \in Calls : p \in {k} \X (cast[k].over \ cast[k].seen)
        BY <3>4, Zenon DEF Rebuild
      <4>4. atRisk' \subseteq Calls \X Clients
        BY <4>2, <4>3 DEF TypeOK
      <4> QED  BY <2>1, <3>2, <3>3, <4>1, <4>4 DEF TypeOK, Greet
    <3>5. CASE UNCHANGED <<cast, atRisk>>
      BY <2>1, <3>2, <3>3, <3>5 DEF TypeOK, Greet
    <3> QED  BY <2>1, <3>4, <3>5 DEF Greet
  <2>2. CASE GreetResume(c)
    BY <2>2 DEF TypeOK, GreetResume, clientVars, HandlerStates
  <2>3. CASE Handle(c)
    <3>1. UNCHANGED <<server, nextId, rid, pending, sock, atRisk>>
      BY <2>3 DEF Handle
    <3>2. PICK m \in Typed :
            /\ heard' = heard \cup {i \in {m.id} : m.word = "approved" /\ i < nextId}
            /\ \/ /\ Match(m) = {}
                  /\ UNCHANGED <<fut, call, clients, handler, cast, full, sent>>
               \/ \E k \in Match(m) :
                    /\ fut' = [fut EXCEPT ![k] = m.word]
                    /\ Broadcast(c, FreshCast(Line(m.word, m.id)))
      BY <2>3 DEF Handle
    <3>3. heard' \subseteq Ids
      BY <3>2 DEF TypeOK, Typed
    <3>4. CASE UNCHANGED <<fut, call, clients, handler, cast, full, sent>>
      BY <3>1, <3>3, <3>4 DEF TypeOK
    <3>5. ASSUME NEW k \in Match(m),
                 fut' = [fut EXCEPT ![k] = m.word],
                 Broadcast(c, FreshCast(Line(m.word, m.id)))
          PROVE  TypeOK'
      <4>1. Line(m.word, m.id) \in Lines
        BY BrokerAssumption DEF Typed, Line, Lines
      <4>2. c \in Tasks
        BY DEF Tasks
      <4>3. PICK b \in Casts : Broadcast(c, b)
        BY <3>5, <4>1, FreshCastTyped
      <4>4. fut' \in [Calls -> FutStates]
        BY <3>5 DEF TypeOK, Typed, FutStates
      <4> QED  BY <3>1, <3>3, <4>2, <4>3, <4>4, BroadcastTyped DEF TypeOK
    <3> QED  BY <3>1, <3>2, <3>4, <3>5
  <2>4. CASE HandlerEnd(c)
    BY <2>4 DEF TypeOK, HandlerEnd, clientVars, HandlerStates
  <2> QED  BY <1>5, <2>1, <2>2, <2>3, <2>4 DEF HandlerStep
<1>6. ASSUME NEW c \in Clients, ClientStep(c)
      PROVE  TypeOK' /\ (\A j \in Calls : rid'[j] < nextId')
  <2>1. CASE Accept(c)
    BY <2>1 DEF TypeOK, Accept, HandlerStates
  <2>2. CASE ClientRead(c)
    BY <2>2 DEF TypeOK, ClientRead, brokerVars
  <2>3. CASE Disconnect(c)
    BY <2>3 DEF TypeOK, Disconnect, brokerVars
  <2> QED  BY <1>6, <2>1, <2>2, <2>3 DEF ClientStep
<1>7. ASSUME NEW t \in Tasks, CastResume(t)
      PROVE  TypeOK' /\ (\A j \in Calls : rid'[j] < nextId')
  <2>1. UNCHANGED <<server, nextId, rid, fut, pending, heard, atRisk>>
    BY <1>7 DEF CastResume
  <2>2. cast[t] \in Casts /\ cast[t].at \in Clients \cup {0}
    BY DEF TypeOK, Casts
  <2>3. CASE Broadcast(t, cast[t]) /\ UNCHANGED sock
    BY <2>1, <2>2, <2>3, BroadcastTyped DEF TypeOK
  <2>4. CASE /\ Gone(cast[t].at) /\ cast[t].at # 0
             /\ Broadcast(t, [cast[t] EXCEPT !.dead = cast[t].dead \cup {cast[t].at}])
             /\ UNCHANGED sock
    <3>1. [cast[t] EXCEPT !.dead = cast[t].dead \cup {cast[t].at}] \in Casts
      BY <2>2, <2>4 DEF Casts
    <3> QED  BY <2>1, <2>4, <3>1, BroadcastTyped DEF TypeOK
  <2>5. CASE BroadcastError(t)
    <3>1. cast' \in [Tasks -> Casts]
      BY <2>5, NoCastTyped DEF TypeOK, BroadcastError
    <3>2. call' \in [Calls -> CallStates] /\ handler' \in [Clients -> HandlerStates]
      BY <2>5, GoesTyped DEF BroadcastError, CallStates, HandlerStates
    <3>3. sock' \in [Clients -> {"off", "up", "gone"}]
      BY <2>5 DEF TypeOK, BroadcastError, Close
    <3> QED  BY <2>1, <2>5, <3>1, <3>2, <3>3 DEF TypeOK, BroadcastError
  <2> QED  BY <1>7, <2>3, <2>4, <2>5 DEF CastResume
<1> QED  BY <1>0, <1>1, <1>2, <1>3, <1>4, <1>5, <1>6, <1>7 DEF Next

\* Where a stretch of a _broadcast leaves every call.
LEMMA BroadcastMoves ==
  ASSUME TypeOK, NEW t \in Tasks, NEW b, Broadcast(t, b), NEW j \in Calls
  PROVE  call'[j] = call[j] \/ (j = t /\ call'[j] \in {"wait", "notify"})
<1>1. CASE t \in Clients
  BY <1>1, BroadcastCall
<1>2. CASE t \in Calls
  BY <1>2, BroadcastCall DEF TypeOK
<1> QED  BY <1>1, <1>2 DEF Tasks

LEMMA CallsStep ==
  ASSUME IInv, [Next]_vars
  PROVE  IdInv' /\ CallInv' /\ HeardInv'
<1> SUFFICES ASSUME NEW j \in Calls
             PROVE  /\ rid'[j] < nextId' /\ (fut'[j] = "none" <=> rid'[j] = 0)
                    /\ call'[j] = "idle" => fut'[j] = "none"
                    /\ call'[j] \in {"notify", "wait"} => fut'[j] # "none"
                    /\ fut'[j] = "pending" => j \in pending' /\ call'[j] \in Unreturned
                    /\ j \in pending' => fut'[j] # "none"
                    /\ call'[j] = "allow" => fut'[j] = "approved"
                    /\ call'[j] = "block" /\ ~Py312 => fut'[j] # "approved"
                    /\ fut'[j] = "approved" => rid'[j] \in heard'
  BY DEF IdInv, CallInv, HeardInv
<1>a. /\ rid[j] < nextId /\ (fut[j] = "none" <=> rid[j] = 0)
      /\ call[j] = "idle" => fut[j] = "none"
      /\ call[j] \in {"notify", "wait"} => fut[j] # "none"
      /\ fut[j] = "pending" => j \in pending /\ call[j] \in Unreturned
      /\ j \in pending => fut[j] # "none"
      /\ call[j] = "allow" => fut[j] = "approved"
      /\ call[j] = "block" /\ ~Py312 => fut[j] # "approved"
      /\ fut[j] = "approved" => rid[j] \in heard
  BY DEF IInv, IdInv, CallInv, HeardInv
<1>b. rid'[j] < nextId'
  BY TypeStep DEF IInv
<1>t. TypeOK
  BY DEF IInv
<1>0. CASE UNCHANGED vars
  BY <1>0, <1>a DEF vars
<1>1. CASE Start
  BY <1>1, <1>a DEF Start, clientVars
<1>2. CASE Stop \/ FinishStop
  BY <1>2, <1>a, <1>t DEF Stop, FinishStop, CancelPending, Done, clientVars, TypeOK
<1>4. ASSUME NEW k \in Calls, CallStep(k)
      PROVE  /\ (fut'[j] = "none" <=> rid'[j] = 0)
             /\ call'[j] = "idle" => fut'[j] = "none"
             /\ call'[j] \in {"notify", "wait"} => fut'[j] # "none"
             /\ fut'[j] = "pending" => j \in pending' /\ call'[j] \in Unreturned
             /\ j \in pending' => fut'[j] # "none"
             /\ call'[j] = "allow" => fut'[j] = "approved"
             /\ call'[j] = "block" /\ ~Py312 => fut'[j] # "approved"
             /\ fut'[j] = "approved" => rid'[j] \in heard'
  <2>1. CASE AskUnavailable(k)
    BY <2>1, <1>a, <1>t DEF AskUnavailable, clientVars, TypeOK
  <2>2. CASE Ask(k)
    <3>1. k \in Tasks
      BY DEF Tasks
    <3>2. call'[j] = call[j] \/ (j = k /\ call'[j] \in {"wait", "notify"})
      BY <2>2, <3>1, <1>t, BroadcastMoves DEF Ask
    <3>3. CASE j = k
      <4>1. rid'[j] = nextId /\ fut'[j] = "pending" /\ j \in pending' /\ nextId # 0
        BY <2>2, <3>3, <1>t DEF Ask, TakeId, TypeOK
      <4>2. call'[j] \in {"wait", "notify"}
        BY <2>2, <3>1, <3>3, <1>t, BroadcastCall DEF Ask, TypeOK
      <4> QED  BY <4>1, <4>2 DEF Unreturned
    <3>4. CASE j # k
      <4>1. rid'[j] = rid[j] /\ fut'[j] = fut[j] /\ (j \in pending' <=> j \in pending) /\ heard' = heard
        BY <2>2, <3>4, <1>t DEF Ask, TakeId, TypeOK
      <4> QED  BY <3>2, <3>4, <4>1, <1>a
    <3> QED  BY <3>3, <3>4
  <2>3. CASE CancelAsk(k)
    BY <2>3, <1>a, <1>t DEF CancelAsk, clientVars, TypeOK, Unreturned
  <2>4. CASE Expire(k)
    BY <2>4, <1>a, <1>t DEF Expire, Expirable, clientVars, TypeOK
  <2>5. CASE RunCallback(k)
    BY <2>5, <1>a, <1>t DEF RunCallback, Done, clientVars, TypeOK
  <2>6. CASE Resume(k)
    BY <2>6, <1>a, <1>t DEF Resume, Outcome, Done, clientVars, TypeOK
  <2>7. CASE ResumeTimedOut(k)
    BY <2>7, <1>a, <1>t DEF ResumeTimedOut, Answered, Verdicts, clientVars, TypeOK
  <2> QED  BY <1>4, <2>1, <2>2, <2>3, <2>4, <2>5, <2>6, <2>7 DEF CallStep
<1>5. ASSUME NEW c \in Clients, HandlerStep(c)
      PROVE  /\ (fut'[j] = "none" <=> rid'[j] = 0)
             /\ call'[j] = call[j]
             /\ (j \in pending' <=> j \in pending)
             /\ \/ fut'[j] = fut[j]
                \/ fut[j] = "pending" /\ fut'[j] \in Verdicts
             /\ fut'[j] = "approved" => rid'[j] \in heard'
  <2>1. CASE Greet(c)
    BY <2>1, <1>a DEF Greet
  <2>2. CASE GreetResume(c)
    BY <2>2, <1>a DEF GreetResume, clientVars
  <2>3. CASE Handle(c)
    <3>1. UNCHANGED <<server, nextId, rid, pending, sock>>
      BY <2>3 DEF Handle
    <3>2. PICK m \in Typed :
            /\ heard' = heard \cup {i \in {m.id} : m.word = "approved" /\ i < nextId}
            /\ \/ /\ Match(m) = {}
                  /\ UNCHANGED <<fut, call, clients, handler, cast, full, sent>>
               \/ \E k \in Match(m) :
                    /\ fut' = [fut EXCEPT ![k] = m.word]
                    /\ Broadcast(c, FreshCast(Line(m.word, m.id)))
      BY <2>3 DEF Handle
    <3>4. CASE UNCHANGED <<fut, call, clients, handler, cast, full, sent>>
      BY <3>1, <3>2, <3>4, <1>a
    <3>5. ASSUME NEW k \in Match(m),
                 fut' = [fut EXCEPT ![k] = m.word],
                 Broadcast(c, FreshCast(Line(m.word, m.id)))
          PROVE  /\ call' = call
                 /\ (fut'[j] = "none" <=> rid'[j] = 0)
                 /\ \/ fut'[j] = fut[j]
                    \/ fut[j] = "pending" /\ fut'[j] \in Verdicts
                 /\ fut'[j] = "approved" => rid'[j] \in heard'
      <4>1. call' = call
        BY <3>5, <1>t, BroadcastCall DEF Tasks
      <4>2. k \in Calls /\ k \in pending /\ rid[k] = m.id /\ fut[k] = "pending"
        BY <1>t DEF Match, Done, TypeOK, IInv, CallInv
      <4>3. m.word \in Verdicts
        BY DEF Typed
      <4>4. CASE j = k
        <5>1. fut'[j] = m.word /\ fut[j] = "pending"
          BY <3>5, <4>2, <4>4, <1>t DEF TypeOK
        <5>2. m.word = "approved" => rid'[j] \in heard'
          BY <3>1, <3>2, <4>2, <4>4, <1>a
        <5> QED  BY <3>1, <4>1, <4>3, <5>1, <5>2, <1>a DEF Verdicts
      <4>5. CASE j # k
        BY <3>1, <3>2, <3>5, <4>1, <4>5, <1>a, <1>t DEF TypeOK
      <4> QED  BY <4>4, <4>5
    <3> QED  BY <3>1, <3>2, <3>4, <3>5
  <2>4. CASE HandlerEnd(c)
    BY <2>4, <1>a DEF HandlerEnd, clientVars
  <2> QED  BY <1>5, <2>1, <2>2, <2>3, <2>4 DEF HandlerStep
<1>6. ASSUME NEW c \in Clients, ClientStep(c)
      PROVE  UNCHANGED <<rid, fut, pending, call, heard>>
  BY <1>6 DEF ClientStep, Accept, ClientRead, Disconnect, brokerVars
<1>7. ASSUME NEW t \in Tasks, CastResume(t)
      PROVE  /\ UNCHANGED <<rid, fut, pending, heard>>
             /\ \/ call'[j] = call[j]
                \/ call[j] = "notify" /\ call'[j] \in {"wait", "notify", "crashed"}
  <2>1. UNCHANGED <<rid, fut, pending, heard>>
    BY <1>7 DEF CastResume
  <2>2. j = t => call[j] = "notify"
    BY <1>7 DEF CastResume, CastInv, IInv
  <2>3. ASSUME NEW b, Broadcast(t, b)
        PROVE  call'[j] = call[j] \/ (j = t /\ call'[j] \in {"wait", "notify"})
    BY <2>3, <1>t, BroadcastMoves
  <2>4. CASE BroadcastError(t)
    BY <2>1, <2>2, <2>4, <1>t DEF BroadcastError, Goes, TypeOK
  <2> QED  BY <1>7, <2>1, <2>2, <2>3, <2>4 DEF CastResume
<1>8. ASSUME NEW c \in Clients, HandlerStep(c)
      PROVE  /\ call'[j] = "idle" => fut'[j] = "none"
             /\ call'[j] \in {"notify", "wait"} => fut'[j] # "none"
             /\ fut'[j] = "pending" => j \in pending' /\ call'[j] \in Unreturned
             /\ j \in pending' => fut'[j] # "none"
             /\ call'[j] = "allow" => fut'[j] = "approved"
             /\ call'[j] = "block" /\ ~Py312 => fut'[j] # "approved"
  BY <1>5, <1>8, <1>a DEF Unreturned, Verdicts
<1>9. ASSUME NEW t \in Tasks, CastResume(t)
      PROVE  /\ (fut'[j] = "none" <=> rid'[j] = 0)
             /\ call'[j] = "idle" => fut'[j] = "none"
             /\ call'[j] \in {"notify", "wait"} => fut'[j] # "none"
             /\ fut'[j] = "pending" => j \in pending' /\ call'[j] \in Unreturned
             /\ j \in pending' => fut'[j] # "none"
             /\ call'[j] = "allow" => fut'[j] = "approved"
             /\ call'[j] = "block" /\ ~Py312 => fut'[j] # "approved"
             /\ fut'[j] = "approved" => rid'[j] \in heard'
  BY <1>7, <1>9, <1>a DEF Unreturned
<1> QED  BY <1>0, <1>1, <1>2, <1>4, <1>5, <1>6, <1>8, <1>9, <1>a, <1>b DEF Next

\* What a stretch of a _broadcast leaves in the table of suspended ones.
LEMMA BroadcastCast ==
  ASSUME TypeOK, NEW t \in Tasks, NEW b \in Casts, Broadcast(t, b), NEW u \in Tasks
  PROVE  /\ u # t => cast'[u] = cast[u]
         /\ u = t => \/ cast'[u] = NoCast
                    \/ /\ cast'[u].line = b.line
                       /\ u \in Calls => call'[u] = "notify"
<1> DEFINE Left == /\ u # t => cast'[u] = cast[u]
                   /\ u = t => \/ cast'[u] = NoCast
                              \/ /\ cast'[u].line = b.line
                                 /\ u \in Calls => call'[u] = "notify"
<1>1. ASSUME NEW S, NEW D, CastEnds(t, b, S, D)
      PROVE  Left
  BY <1>1 DEF CastEnds, TypeOK
<1>2. ASSUME NEW S, NEW D, NEW c, CastSuspends(t, b, S, D, c)
      PROVE  Left
  BY <1>2 DEF CastSuspends, TypeOK, Goes, Casts
<1> QED  BY <1>1, <1>2 DEF Broadcast

LEMMA CastStep ==
  ASSUME IInv, [Next]_vars
  PROVE  CastInv'
<1> SUFFICES ASSUME NEW j \in Calls, cast'[j].at # 0
             PROVE  call'[j] = "notify"
  BY DEF CastInv
<1>t. TypeOK /\ j \in Tasks /\ NoCast.at = 0
  BY DEF IInv, Tasks, NoCast
<1>a. cast[j].at # 0 => call[j] = "notify"
  BY DEF IInv, CastInv
<1>b. ASSUME NEW t \in Tasks, NEW b \in Casts, Broadcast(t, b)
      PROVE  call'[j] = "notify"
  <2>1. CASE j = t
    BY <1>b, <1>t, <2>1, BroadcastCast
  <2>2. CASE j # t
    BY <1>a, <1>b, <1>t, <2>2, BroadcastCast, BroadcastMoves
  <2> QED  BY <2>1, <2>2
<1>0. CASE UNCHANGED <<cast, call>>
  BY <1>0, <1>a
<1>1. CASE Start \/ Stop \/ FinishStop
  BY <1>0, <1>1 DEF Start, Stop, FinishStop
<1>2. ASSUME NEW k \in Calls, CallStep(k)
      PROVE  call'[j] = "notify"
  <2>1. CASE Ask(k)
    <3>1. Line("PENDING", nextId) \in Lines /\ k \in Tasks
      BY <1>t DEF TypeOK, Line, Lines, Tasks
    <3>2. FreshCast(Line("PENDING", nextId)) \in Casts
      BY <1>t, <3>1, FreshCastTyped
    <3> QED  BY <1>b, <2>1, <3>1, <3>2 DEF Ask
  <2>2. CASE CancelAsk(k)
    BY <1>a, <1>t, <2>2 DEF CancelAsk, TypeOK
  <2>3. CASE cast' = cast /\ call[k] # "notify" /\ \E v : call' = [call EXCEPT ![k] = v]
    BY <1>a, <1>t, <2>3 DEF TypeOK
  <2> QED  BY <1>0, <1>2, <2>1, <2>2, <2>3
           DEF CallStep, AskUnavailable, Expire, RunCallback, Resume, ResumeTimedOut
<1>3. ASSUME NEW c \in Clients, HandlerStep(c)
      PROVE  call'[j] = "notify"
  <2>1. CASE Handle(c)
    <3>1. PICK m \in Typed :
            \/ UNCHANGED <<fut, call, clients, handler, cast, full, sent>>
            \/ Broadcast(c, FreshCast(Line(m.word, m.id)))
      BY <2>1 DEF Handle
    <3>2. Line(m.word, m.id) \in Lines
      BY BrokerAssumption DEF Typed, Line, Lines
    <3>3. FreshCast(Line(m.word, m.id)) \in Casts /\ c \in Tasks
      BY <1>t, <3>2, FreshCastTyped DEF Tasks
    <3> QED  BY <1>0, <1>b, <3>1, <3>3
  <2>2. CASE Greet(c)
    <3>1. call' = call /\ (Rebuild \/ cast' = cast)
      BY <2>2 DEF Greet
    <3> QED  BY <1>a, <1>t, <3>1, RebuildCast
  <2> QED  BY <1>0, <1>3, <2>1, <2>2 DEF HandlerStep, GreetResume, HandlerEnd
<1>4. ASSUME NEW c \in Clients, ClientStep(c)
      PROVE  call'[j] = "notify"
  BY <1>0, <1>4 DEF ClientStep, Accept, ClientRead, Disconnect, brokerVars
<1>5. ASSUME NEW t \in Tasks, CastResume(t)
      PROVE  call'[j] = "notify"
  <2>1. cast[t] \in Casts
    BY <1>t DEF TypeOK
  <2>2. cast[t].at \in Clients =>
          [cast[t] EXCEPT !.dead = cast[t].dead \cup {cast[t].at}] \in Casts
    BY <2>1 DEF Casts
  <2>3. cast[t].at \in Clients
    BY <1>5, <2>1 DEF CastResume, Casts
  <2>4. CASE BroadcastError(t)
    BY <1>a, <1>t, <2>4 DEF BroadcastError, Goes, TypeOK
  <2> QED  BY <1>5, <1>b, <2>1, <2>2, <2>3, <2>4 DEF CastResume
<1> QED  BY <1>0, <1>1, <1>2, <1>3, <1>4, <1>5 DEF Next, vars

\* The inductive invariant holds in every reachable state.
THEOREM Invariant == Spec => []IInv
<1>1. Init => IInv
  BY InitIInv
<1>2. IInv /\ [Next]_vars => IInv'
  BY TypeStep, CallsStep, CastStep DEF IInv
<1> QED  BY <1>1, <1>2, PTL DEF Spec

\* Typing and unique request ids, whatever connects, types, leaves or stops.
THEOREM TypeCorrect == Spec => []TypeOK
<1>1. IInv => TypeOK
  BY DEF IInv
<1> QED  BY <1>1, Invariant, PTL

\* enforcement.py: no ALLOW without an APPROVE line for that very request.
THEOREM AllowNeedsApprovalHolds == Spec => []AllowNeedsApproval
<1>1. IInv => AllowNeedsApproval
  BY DEF IInv, CallInv, HeardInv, AllowNeedsApproval
<1> QED  BY <1>1, Invariant, PTL

-----------------------------------------------------------------------------
\* ---- What clients are told ----

\* A RESOLVED line names a request that was given out, and every call with
\* that id has the verdict it says.
Told(l) ==
  l.word \in Verdicts =>
    l.id < nextId /\ \A k \in Calls : rid[k] = l.id => fut[k] = l.word

VerdictInv ==
  /\ \A c \in Clients : \A l \in sent[c] : Told(l)
  /\ \A t \in Tasks : Told(cast[t].line)

LEMMA CounterGrows ==
  ASSUME TypeOK, [Next]_vars
  PROVE  nextId <= nextId'
<1>1. nextId \in Nat
  BY DEF TypeOK
<1>2. ASSUME NEW k \in Calls, CallStep(k)
      PROVE  nextId' \in {nextId, nextId + 1}
  BY <1>2 DEF CallStep, AskUnavailable, Ask, TakeId, CancelAsk, Expire, RunCallback,
     Resume, ResumeTimedOut
<1>3. ASSUME NEW c \in Clients, HandlerStep(c) \/ ClientStep(c)
      PROVE  nextId' = nextId
  BY <1>3 DEF HandlerStep, Greet, GreetResume, Handle, HandlerEnd,
     ClientStep, Accept, ClientRead, Disconnect, brokerVars
<1>4. CASE Start \/ Stop \/ FinishStop
  BY <1>1, <1>4 DEF Start, Stop, FinishStop
<1>5. ASSUME NEW t \in Tasks, CastResume(t)
      PROVE  nextId' = nextId
  BY <1>5 DEF CastResume
<1>6. CASE UNCHANGED vars
  BY <1>1, <1>6 DEF vars
<1> QED  BY <1>1, <1>2, <1>3, <1>4, <1>5, <1>6 DEF Next

\* An id is given out once, and a future that has its answer keeps it.
LEMMA AnswersStay ==
  ASSUME IInv, [Next]_vars, NEW k \in Calls
  PROVE  /\ rid'[k] = rid[k] \/ rid'[k] = nextId
         /\ fut[k] \in Verdicts => fut'[k] = fut[k] /\ rid'[k] = rid[k]
<1>t. /\ TypeOK /\ fut \in [Calls -> FutStates] /\ rid \in [Calls -> Nat] /\ nextId \in Nat
      /\ call[k] = "idle" => fut[k] = "none"
  BY DEF IInv, CallInv, TypeOK
<1>0. CASE UNCHANGED <<nextId, rid, fut>>
  BY <1>0, <1>t
<1>1. CASE Start \/ Stop \/ FinishStop
  BY <1>1, <1>t DEF Start, Stop, FinishStop, CancelPending, Done, Verdicts
<1>2. ASSUME NEW j \in Calls, CallStep(j)
      PROVE  /\ rid'[k] = rid[k] \/ rid'[k] = nextId
             /\ fut[k] \in Verdicts => fut'[k] = fut[k] /\ rid'[k] = rid[k]
  <2>1. CASE Ask(j)
    BY <1>t, <2>1 DEF Ask, TakeId, Verdicts
  <2>2. CASE Expire(j)
    BY <1>t, <2>2 DEF Expire, Expirable, Verdicts
  <2> QED  BY <1>0, <1>2, <2>1, <2>2
           DEF CallStep, AskUnavailable, CancelAsk, RunCallback, Resume, ResumeTimedOut
<1>3. ASSUME NEW c \in Clients, HandlerStep(c)
      PROVE  /\ UNCHANGED <<nextId, rid>>
             /\ fut[k] \in Verdicts => fut'[k] = fut[k]
  BY <1>3, <1>t DEF HandlerStep, Greet, GreetResume, Handle, HandlerEnd, Match, Done, Verdicts
<1>4. ASSUME NEW c \in Clients, ClientStep(c)
      PROVE  UNCHANGED <<nextId, rid, fut>>
  BY <1>4 DEF ClientStep, Accept, ClientRead, Disconnect, brokerVars
<1>5. ASSUME NEW t \in Tasks, CastResume(t)
      PROVE  UNCHANGED <<nextId, rid, fut>>
  BY <1>5 DEF CastResume
<1> QED  BY <1>0, <1>1, <1>2, <1>3, <1>4, <1>5, <1>t DEF Next, vars

LEMMA ToldStays ==
  ASSUME IInv, [Next]_vars, NEW l \in Lines, Told(l)
  PROVE  Told(l)'
<1>1. TypeOK /\ TypeOK'
  BY TypeStep DEF IInv
<1>2. SUFFICES ASSUME l.word \in Verdicts
               PROVE  /\ l.id < nextId'
                      /\ \A k \in Calls : rid'[k] = l.id => fut'[k] = l.word
  BY DEF Told
<1>3. l.id < nextId /\ \A k \in Calls : rid[k] = l.id => fut[k] = l.word
  BY <1>2 DEF Told
<1>4. l.id \in Nat /\ nextId \in Nat /\ nextId' \in Nat
  BY <1>1 DEF Lines, TypeOK
<1>5. l.id < nextId'
  BY <1>1, <1>3, <1>4, CounterGrows
<1>6. ASSUME NEW k \in Calls, rid'[k] = l.id
      PROVE  fut'[k] = l.word
  <2>1. rid[k] = l.id
    BY <1>3, <1>4, <1>6, AnswersStay
  <2> QED  BY <1>2, <1>3, <2>1, AnswersStay
<1> QED  BY <1>5, <1>6

\* The lines a stretch of a _broadcast writes are its own.
LEMMA BroadcastSent ==
  ASSUME TypeOK, NEW t \in Tasks, NEW b, Broadcast(t, b), NEW c \in Clients
  PROVE  sent[c] \subseteq sent'[c] /\ sent'[c] \subseteq sent[c] \cup {b.line}
<1>1. ASSUME NEW S, NEW D, CastEnds(t, b, S, D)
      PROVE  sent[c] \subseteq sent'[c] /\ sent'[c] \subseteq sent[c] \cup {b.line}
  BY <1>1 DEF CastEnds, Write
<1>2. ASSUME NEW S, NEW D, NEW d, CastSuspends(t, b, S, D, d)
      PROVE  sent[c] \subseteq sent'[c] /\ sent'[c] \subseteq sent[c] \cup {b.line}
  BY <1>2 DEF CastSuspends, Write
<1> QED  BY <1>1, <1>2 DEF Broadcast

LEMMA BroadcastTold ==
  ASSUME IInv, VerdictInv, [Next]_vars,
         NEW t \in Tasks, NEW b \in Casts, Broadcast(t, b), Told(b.line)'
  PROVE  VerdictInv'
<1>t. TypeOK /\ TypeOK'
  BY TypeStep DEF IInv
<1>1. ASSUME NEW c \in Clients, NEW l \in sent'[c]
      PROVE  Told(l)'
  <2>1. CASE l \in sent[c]
    <3>1. l \in Lines /\ Told(l)
      BY <1>t, <2>1 DEF VerdictInv, TypeOK
    <3> QED  BY <3>1, ToldStays
  <2> QED  BY <1>1, <1>t, <2>1, BroadcastSent
<1>2. ASSUME NEW u \in Tasks
      PROVE  Told(cast[u].line)'
  <2>1. CASE cast'[u].line = b.line
    BY <2>1 DEF Told
  <2>2. CASE cast'[u] = cast[u]
    <3>1. cast[u].line \in Lines /\ Told(cast[u].line)
      BY <1>t DEF VerdictInv, TypeOK, Casts
    <3> QED  BY <2>2, <3>1, ToldStays DEF Told
  <2>3. CASE cast'[u] = NoCast
    BY <2>3 DEF Told, NoCast, Line, Verdicts
  <2> QED  BY <1>t, <2>1, <2>2, <2>3, BroadcastCast
<1> QED  BY <1>1, <1>2 DEF VerdictInv

LEMMA VerdictStep ==
  ASSUME IInv, VerdictInv, [Next]_vars
  PROVE  VerdictInv'
<1>t. TypeOK /\ TypeOK'
  BY TypeStep DEF IInv
\* Steps that write only PENDING lines, if any, and start no broadcast.
<1>a. ASSUME \A c \in Clients : \A l \in sent'[c] : l \in sent[c] \/ l.word = "PENDING",
             \A u \in Tasks : cast'[u].line = cast[u].line \/ cast'[u] = NoCast
      PROVE  VerdictInv'
  <2>1. ASSUME NEW c \in Clients, NEW l \in sent'[c]
        PROVE  Told(l)'
    <3>1. CASE l \in sent[c]
      <4>1. l \in Lines /\ Told(l)
        BY <1>t, <3>1 DEF VerdictInv, TypeOK
      <4> QED  BY <4>1, ToldStays
    <3> QED  BY <1>a, <2>1, <3>1 DEF Told, Verdicts
  <2>2. ASSUME NEW u \in Tasks
        PROVE  Told(cast[u].line)'
    <3>1. CASE cast'[u].line = cast[u].line
      <4>1. cast[u].line \in Lines /\ Told(cast[u].line)
        BY <1>t DEF VerdictInv, TypeOK, Casts
      <4> QED  BY <3>1, <4>1, ToldStays DEF Told
    <3>2. CASE cast'[u] = NoCast
      BY <3>2 DEF Told, NoCast, Line, Verdicts
    <3> QED  BY <1>a, <3>1, <3>2
  <2> QED  BY <2>1, <2>2 DEF VerdictInv
<1>0. CASE UNCHANGED <<sent, cast>>
  BY <1>0, <1>a
<1>1. CASE Start \/ Stop \/ FinishStop
  BY <1>0, <1>1 DEF Start, Stop, FinishStop, clientVars
<1>2. ASSUME NEW k \in Calls, CallStep(k)
      PROVE  VerdictInv'
  <2>1. CASE Ask(k)
    <3>1. Line("PENDING", nextId) \in Lines /\ k \in Tasks
      BY <1>t DEF TypeOK, Line, Lines, Tasks
    <3>2. FreshCast(Line("PENDING", nextId)) \in Casts
      BY <1>t, <3>1, FreshCastTyped
    <3>3. PICK b \in Casts : b = FreshCast(Line("PENDING", nextId))
      BY <3>2
    <3>4. b.line.word = "PENDING"
      BY <3>3 DEF FreshCast, NoCast, Line
    <3>5. Told(b.line)'
      BY <3>4 DEF Told, Verdicts
    <3> QED  BY <2>1, <3>1, <3>3, <3>5, BroadcastTold DEF Ask
  <2>2. CASE CancelAsk(k)
    BY <1>a, <1>t, <2>2 DEF CancelAsk, clientVars, TypeOK
  <2> QED  BY <1>0, <1>2, <2>1, <2>2
           DEF CallStep, AskUnavailable, Expire, RunCallback, Resume, ResumeTimedOut, clientVars
<1>3. ASSUME NEW c \in Clients, HandlerStep(c)
      PROVE  VerdictInv'
  <2>1. CASE Greet(c)
    <3>1. \A l \in Replay : l.word = "PENDING"
      BY DEF Replay, Line
    <3>2. \A d \in Clients : \A l \in sent'[d] : l \in sent[d] \/ l.word = "PENDING"
      BY <1>t, <2>1, <3>1 DEF Greet, TypeOK
    <3>3. \A u \in Tasks : cast'[u].line = cast[u].line
      BY <1>t, <2>1, RebuildCast DEF Greet
    <3> QED  BY <1>a, <3>2, <3>3
  <2>2. CASE Handle(c)
    <3>1. PICK m \in Typed :
            \/ UNCHANGED <<fut, call, clients, handler, cast, full, sent>>
            \/ \E k \in Match(m) :
                 /\ fut' = [fut EXCEPT ![k] = m.word]
                 /\ Broadcast(c, FreshCast(Line(m.word, m.id)))
      BY <2>2 DEF Handle
    <3>2. ASSUME NEW k \in Match(m),
                 fut' = [fut EXCEPT ![k] = m.word],
                 Broadcast(c, FreshCast(Line(m.word, m.id)))
          PROVE  VerdictInv'
      <4>1. k \in Calls /\ rid[k] = m.id /\ rid[k] # 0 /\ rid[k] < nextId
        BY <1>t DEF Match, Done, TypeOK, IInv, IdInv, CallInv
      <4>2. UNCHANGED <<rid, nextId>>
        BY <2>2 DEF Handle
      <4>3. \A j \in Calls : rid[j] = m.id => fut'[j] = m.word
        BY <1>t, <3>2, <4>1 DEF TypeOK
      <4>4. Line(m.word, m.id) \in Lines
        BY BrokerAssumption DEF Typed, Line, Lines
      <4>5. Told(Line(m.word, m.id))'
        BY <4>1, <4>2, <4>3 DEF Told, Line
      <4>6. PICK b \in Casts : b = FreshCast(Line(m.word, m.id))
        BY <1>t, <4>4, FreshCastTyped
      <4>7. b.line = Line(m.word, m.id)
        BY <4>6 DEF FreshCast, NoCast
      <4>8. Told(b.line)'
        BY <4>5, <4>7
      <4> QED  BY <3>2, <4>6, <4>8, BroadcastTold DEF Tasks
    <3> QED  BY <1>0, <3>1, <3>2
  <2> QED  BY <1>0, <1>3, <2>1, <2>2 DEF HandlerStep, GreetResume, HandlerEnd, clientVars
<1>4. ASSUME NEW c \in Clients, ClientStep(c)
      PROVE  VerdictInv'
  <2>1. CASE Disconnect(c)
    BY <1>a, <1>t, <2>1 DEF Disconnect, brokerVars, TypeOK
  <2> QED  BY <1>0, <1>4, <2>1 DEF ClientStep, Accept, ClientRead, brokerVars
<1>5. ASSUME NEW t \in Tasks, CastResume(t)
      PROVE  VerdictInv'
  <2>1. PICK b \in Casts : b = cast[t]
    BY <1>t DEF TypeOK
  <2>2. b.line \in Lines /\ Told(b.line)
    BY <2>1 DEF VerdictInv, Casts
  <2>3. Told(b.line)'
    BY <2>2, ToldStays
  <2>4. CASE BroadcastError(t)
    BY <1>a, <1>t, <2>4 DEF BroadcastError, TypeOK
  <2>5. CASE Broadcast(t, b)
    BY <2>3, <2>5, BroadcastTold
  <2>6. CASE /\ b.at # 0
             /\ Broadcast(t, [b EXCEPT !.dead = b.dead \cup {b.at}])
    <3>1. PICK d \in Casts : d = [b EXCEPT !.dead = b.dead \cup {b.at}]
      BY <2>6 DEF Casts
    <3>2. d.line = b.line
      BY <3>1 DEF Casts
    <3>3. Told(d.line)'
      BY <2>3, <3>2
    <3> QED  BY <2>6, <3>1, <3>3, BroadcastTold
  <2> QED  BY <1>5, <2>1, <2>4, <2>5, <2>6 DEF CastResume
<1> QED  BY <1>0, <1>1, <1>2, <1>3, <1>4, <1>5 DEF Next, vars

LEMMA VerdictInvariant == Spec => [](IInv /\ VerdictInv)
<1>1. Init => VerdictInv
  BY DEF Init, VerdictInv, Told, NoCast, Line, Verdicts, Tasks
<1>2. IInv /\ VerdictInv /\ [Next]_vars => VerdictInv'
  BY VerdictStep
<1> QED  BY <1>1, <1>2, Invariant, PTL DEF Spec

\* No two clients are told different outcomes of one request, and nobody is
\* told "denied" of a call that was let through.
THEOREM OneVerdictHolds == Spec => []OneVerdict
<1>1. IInv /\ VerdictInv => OneVerdict
  <2> SUFFICES ASSUME IInv, VerdictInv, NEW k \in Calls, NEW c \in Clients, NEW d \in Clients
               PROVE  /\ ~ (Line("approved", rid[k]) \in sent[c]
                             /\ Line("denied", rid[k]) \in sent[d])
                      /\ Line("denied", rid[k]) \in sent[c] => call[k] # "allow"
    BY DEF OneVerdict
  <2>1. Line("approved", rid[k]) \in sent[c] => fut[k] = "approved"
    BY DEF VerdictInv, Told, Line, Verdicts
  <2>2. \A e \in Clients : Line("denied", rid[k]) \in sent[e] => fut[k] = "denied"
    BY DEF VerdictInv, Told, Line, Verdicts
  <2>3. call[k] = "allow" => fut[k] = "approved"
    BY DEF IInv, CallInv
  <2> QED  BY <2>1, <2>2, <2>3
<1> QED  BY <1>1, VerdictInvariant, PTL

\* Until Python 3.12: what a client is told was approved is not blocked.
THEOREM AnnouncedApproval ==
  ASSUME ~Py312
  PROVE  Spec => []AnnouncedApprovalHolds
<1>1. IInv /\ VerdictInv => AnnouncedApprovalHolds
  <2> SUFFICES ASSUME IInv, VerdictInv, NEW k \in Calls, NEW c \in Clients,
                      Line("approved", rid[k]) \in sent[c]
               PROVE  call[k] # "block"
    BY DEF AnnouncedApprovalHolds
  <2>1. fut[k] = "approved"
    BY DEF VerdictInv, Told, Line, Verdicts
  <2> QED  BY <2>1 DEF IInv, CallInv
<1> QED  BY <1>1, VerdictInvariant, PTL

-----------------------------------------------------------------------------
\* ---- The broker implements Approval ----

LEMMA MappingValues ==
  /\ StateOf("idle") = "idle" /\ StateOf("allow") = "allow" /\ StateOf("block") = "block"
  /\ StateOf("notify") = "open" /\ StateOf("wait") = "open"
  /\ StateOf("crashed") = "lost" /\ StateOf("cancelled") = "lost"
  /\ AnswerOf("none") = "none" /\ AnswerOf("pending") = "none"
  /\ AnswerOf("approved") = "yes" /\ AnswerOf("denied") = "no"
  /\ AnswerOf("cancelled") = "withdrawn"
BY DEF StateOf, AnswerOf

\* What a step does to one call, as the abstract specification sees it.
LEMMA CallMaps ==
  ASSUME IInv, NEW k \in Calls, NEW v \in CallStates, call' = [call EXCEPT ![k] = v]
  PROVE  PromiseState' = [PromiseState EXCEPT ![k] = StateOf(v)]
BY DEF IInv, TypeOK, PromiseState

LEMMA FutureMaps ==
  ASSUME IInv, NEW k \in Calls, NEW v \in FutStates, fut' = [fut EXCEPT ![k] = v]
  PROVE  PromiseAnswer' = [PromiseAnswer EXCEPT ![k] = AnswerOf(v)]
BY DEF IInv, TypeOK, PromiseAnswer

\* A broadcast that goes on or ends leaves its call's question open.
LEMMA BroadcastMaps ==
  ASSUME IInv, NEW t \in Tasks, NEW b, Broadcast(t, b)
  PROVE  /\ t \in Clients => PromiseState' = PromiseState
         /\ t \in Calls => PromiseState' = [PromiseState EXCEPT ![t] = "open"]
<1>t. TypeOK /\ "wait" \in CallStates /\ "notify" \in CallStates
  BY DEF IInv, CallStates
<1>1. CASE t \in Clients
  <2>1. call' = call
    BY <1>1, <1>t, BroadcastCall
  <2> QED  BY <1>1, <2>1, BrokerAssumption DEF PromiseState
<1>2. CASE t \in Calls
  BY <1>2, <1>t, BroadcastCall, CallMaps, MappingValues, BrokerAssumption
<1> QED  BY <1>1, <1>2 DEF Tasks

LEMMA PromiseInit == Init => Promise!Init
BY MappingValues DEF Init, Promise!Init, PromiseState, PromiseAnswer

LEMMA PromiseStep ==
  ASSUME IInv, [Next]_vars
  PROVE  [Promise!Next]_(Promise!vars)
<1> USE DEF Promise!vars
<1>t. /\ TypeOK /\ call \in [Calls -> CallStates] /\ fut \in [Calls -> FutStates]
      /\ {"wait", "notify", "allow", "block", "crashed", "cancelled"} \subseteq CallStates
      /\ {"pending", "cancelled"} \cup Verdicts \subseteq FutStates
  BY DEF IInv, TypeOK, CallStates, FutStates
<1>c. UNCHANGED call => UNCHANGED PromiseState
  BY DEF PromiseState
<1>f. UNCHANGED fut => UNCHANGED PromiseAnswer
  BY DEF PromiseAnswer
<1>v. /\ \A k \in Calls : PromiseState[k] = StateOf(call[k])
      /\ \A k \in Calls : PromiseAnswer[k] = AnswerOf(fut[k])
  BY DEF PromiseState, PromiseAnswer
\* The futures in S are cancelled: the abstract Withdraw.
<1>w. ASSUME NEW S \in SUBSET Calls,
             \A k \in S : fut[k] = "pending",
             fut' = [k \in Calls |-> IF k \in S THEN "cancelled" ELSE fut[k]],
             UNCHANGED call
      PROVE  Promise!Withdraw
  <2>1. ASSUME NEW k \in S
        PROVE  PromiseState[k] \in {"open", "lost"} /\ PromiseAnswer[k] = "none"
    <3>1. fut[k] = "pending" /\ call[k] \in {"notify", "wait", "crashed", "cancelled"}
      BY <1>w, <2>1 DEF IInv, CallInv, Unreturned
    <3> QED  BY <1>v, <2>1, <3>1, MappingValues
  <2>2. PromiseAnswer' = [k \in Calls |-> IF k \in S THEN "withdrawn" ELSE PromiseAnswer[k]]
    BY <1>w, MappingValues DEF PromiseAnswer
  <2>3. S \in SUBSET {k \in Calls : PromiseState[k] \in {"open", "lost"}
                                     /\ PromiseAnswer[k] = "none"}
    BY <2>1
  <2> QED  BY <1>w, <1>c, <2>2, <2>3 DEF Promise!Withdraw
<1>0. CASE UNCHANGED <<call, fut>>
  BY <1>0, <1>c, <1>f
<1>1. CASE Start
  BY <1>0, <1>1 DEF Start
<1>2. CASE Stop \/ FinishStop
  <2>1. CASE CancelPending /\ UNCHANGED call
    <3>1. PICK S \in SUBSET Calls : S = {k \in pending : ~Done(k)}
      BY <1>t DEF TypeOK
    <3>2. \A k \in S : fut[k] = "pending"
      BY <3>1, <1>t DEF IInv, CallInv, Done
    <3>3. fut' = [k \in Calls |-> IF k \in S THEN "cancelled" ELSE fut[k]]
      BY <2>1, <3>1 DEF CancelPending
    <3> QED  BY <1>w, <2>1, <3>2, <3>3 DEF Promise!Next
  <2> QED  BY <1>0, <1>2, <2>1 DEF Stop, FinishStop
<1>3. ASSUME NEW k \in Calls, CallStep(k)
      PROVE  [Promise!Next]_(Promise!vars)
  <2>1. CASE AskUnavailable(k)
    <3>1. PromiseState[k] = "idle"
      BY <1>v, <2>1, MappingValues DEF AskUnavailable
    <3>2. PromiseState' = [PromiseState EXCEPT ![k] = "block"] /\ UNCHANGED PromiseAnswer
      BY <1>t, <1>f, <2>1, CallMaps, MappingValues DEF AskUnavailable
    <3> QED  BY <3>1, <3>2 DEF Promise!Next, Promise!Refuse
  <2>2. CASE Ask(k)
    <3>1. PromiseState[k] = "idle"
      BY <1>v, <2>2, MappingValues DEF Ask
    <3>2. PromiseState' = [PromiseState EXCEPT ![k] = "open"]
      BY <2>2, BroadcastMaps DEF Ask, Tasks
    <3>3. fut[k] = "none" /\ fut' = [fut EXCEPT ![k] = "pending"]
      BY <2>2 DEF Ask, IInv, CallInv
    <3>4. PromiseAnswer' = PromiseAnswer
      BY <3>3, <1>t, MappingValues DEF PromiseAnswer
    <3> QED  BY <3>1, <3>2, <3>4 DEF Promise!Next, Promise!Ask
  <2>3. CASE CancelAsk(k)
    <3>1. PromiseState[k] = "open"
      BY <1>v, <2>3, MappingValues DEF CancelAsk
    <3>2. PromiseState' = [PromiseState EXCEPT ![k] = "lost"] /\ UNCHANGED PromiseAnswer
      BY <1>t, <1>f, <2>3, CallMaps, MappingValues DEF CancelAsk
    <3> QED  BY <3>1, <3>2 DEF Promise!Next, Promise!Lose
  <2>4. CASE Expire(k)
    <3>1. fut' = [j \in Calls |-> IF j \in {k} THEN "cancelled" ELSE fut[j]]
      BY <1>t, <2>4 DEF Expire
    <3>2. \A j \in {k} : fut[j] = "pending"
      BY <2>4 DEF Expire, Expirable
    <3> QED  BY <1>w, <2>4, <3>1, <3>2 DEF Expire, Promise!Next
  <2>5. CASE Resume(k) \/ ResumeTimedOut(k)
    <3>1. PromiseState[k] = "open"
      BY <1>v, <2>5, MappingValues DEF Resume, ResumeTimedOut
    <3>2. fut[k] \in Verdicts \cup {"cancelled"}
      BY <1>t, <2>5 DEF Resume, ResumeTimedOut, Done, Answered, TypeOK, FutStates
    <3>3. PromiseAnswer[k] # "none" /\ (fut[k] = "approved" => PromiseAnswer[k] = "yes")
      BY <1>v, <3>2, MappingValues DEF Verdicts
    <3>4. UNCHANGED PromiseAnswer
      BY <1>f, <2>5 DEF Resume, ResumeTimedOut
    <3>5. CASE call' = [call EXCEPT ![k] = "allow"] /\ fut[k] = "approved"
      <4>1. PromiseState' = [PromiseState EXCEPT ![k] = "allow"]
        BY <1>t, <3>5, CallMaps, MappingValues
      <4> QED  BY <3>1, <3>3, <3>4, <3>5, <4>1 DEF Promise!Next, Promise!Allow
    <3>6. CASE call' = [call EXCEPT ![k] = "block"]
      <4>1. PromiseState' = [PromiseState EXCEPT ![k] = "block"]
        BY <1>t, <3>6, CallMaps, MappingValues
      <4> QED  BY <3>1, <3>3, <3>4, <4>1 DEF Promise!Next, Promise!Block
    <3> QED  BY <2>5, <3>5, <3>6 DEF Resume, ResumeTimedOut, Outcome
  <2> QED  BY <1>0, <1>3, <2>1, <2>2, <2>3, <2>4, <2>5 DEF CallStep, RunCallback
<1>4. ASSUME NEW c \in Clients, HandlerStep(c)
      PROVE  [Promise!Next]_(Promise!vars)
  <2>1. ASSUME NEW m \in Typed, NEW k \in Match(m),
               fut' = [fut EXCEPT ![k] = m.word],
               Broadcast(c, FreshCast(Line(m.word, m.id)))
        PROVE  [Promise!Next]_(Promise!vars)
    <3>1. k \in Calls /\ fut[k] = "pending" /\ call[k] \in {"notify", "wait", "crashed", "cancelled"}
      BY <1>t DEF Match, Done, TypeOK, IInv, CallInv, Unreturned
    <3>2. PromiseState[k] \in {"open", "lost"} /\ PromiseAnswer[k] = "none"
      BY <1>v, <3>1, MappingValues
    <3>3. PromiseState' = PromiseState
      BY <2>1, BroadcastMaps DEF Tasks
    <3>4. m.word \in Verdicts
      BY DEF Typed
    <3>5. PromiseAnswer' = [PromiseAnswer EXCEPT ![k] = AnswerOf(m.word)]
      BY <1>t, <2>1, <3>1, <3>4, FutureMaps
    <3>6. AnswerOf(m.word) \in {"yes", "no"}
      BY <3>4, MappingValues DEF Verdicts
    <3> QED  BY <3>1, <3>2, <3>3, <3>5, <3>6 DEF Promise!Next, Promise!Answer
  <2>2. CASE Handle(c)
    BY <1>0, <2>1, <2>2 DEF Handle
  <2> QED  BY <1>0, <1>4, <2>2 DEF HandlerStep, Greet, GreetResume, HandlerEnd
<1>5. ASSUME NEW c \in Clients, ClientStep(c)
      PROVE  UNCHANGED <<call, fut>>
  BY <1>5 DEF ClientStep, Accept, ClientRead, Disconnect, brokerVars
<1>6. ASSUME NEW t \in Tasks, CastResume(t)
      PROVE  [Promise!Next]_(Promise!vars)
  <2>1. UNCHANGED PromiseAnswer
    BY <1>6, <1>f DEF CastResume
  <2>2. t \in Calls => call[t] = "notify" /\ PromiseState[t] = "open"
    BY <1>6, <1>v, MappingValues DEF CastResume, IInv, CastInv
  <2>3. ASSUME NEW b, Broadcast(t, b)
        PROVE  UNCHANGED PromiseState
    BY <2>2, <2>3, BroadcastMaps DEF PromiseState, Tasks
  <2>4. CASE BroadcastError(t)
    <3>1. CASE t \in Calls
      <4>1. call' = [call EXCEPT ![t] = "crashed"]
        BY <2>4, <3>1 DEF BroadcastError, Goes
      <4>2. PromiseState' = [PromiseState EXCEPT ![t] = "lost"]
        BY <1>t, <3>1, <4>1, CallMaps, MappingValues
      <4> QED  BY <2>1, <2>2, <3>1, <4>2 DEF Promise!Next, Promise!Lose
    <3>2. CASE t \notin Calls
      BY <1>c, <2>1, <2>4, <3>2 DEF BroadcastError, Goes
    <3> QED  BY <3>1, <3>2
  <2> QED  BY <1>6, <2>1, <2>3, <2>4 DEF CastResume
<1> QED  BY <1>0, <1>1, <1>2, <1>3, <1>4, <1>5, <1>6 DEF Next, vars

\* The broker, the futures and resolve_ask_user implement Approval: every step
\* is one of its steps or changes nothing it sees.
THEOREM PromiseIsKept == Spec => PromiseKept
<1>1. Init => Promise!Init
  BY PromiseInit
<1>2. IInv /\ [Next]_vars => [Promise!Next]_(Promise!vars)
  BY PromiseStep
<1> QED  BY <1>1, <1>2, Invariant, PTL DEF Spec, PromiseKept, Promise!Spec

-----------------------------------------------------------------------------
\* ---- Every waiting call is announced ----

\* A client that is known in any way has connected.
SockInv ==
  \A c \in Clients :
    c \in clients \/ handler[c] # "none" \/ cast[c].at # 0 => sock[c] # "off"

\* The client c, if it is still there, was sent the line.
Reached(l, c) == sock[c] = "up" => l \in sent[c]

\* ... or a rebuild may have hidden it from the broadcast of k.
Covered(k, l, c) == <<k, c>> \in atRisk \/ Reached(l, c)

\* While a call's broadcast is suspended, the clients not met yet were there
\* when it began; everyone else was met by it, caught up by the replay, or hidden
\* from it by a rebuild.
AnnounceInv ==
  \A k \in Calls : fut[k] = "pending" =>
    /\ call[k] = "wait" => \A c \in clients : Covered(k, Line("PENDING", rid[k]), c)
    /\ call[k] = "notify" =>
         /\ cast[k].line = Line("PENDING", rid[k])
         /\ \A c \in clients : c \notin cast[k].over \/ c \in cast[k].seen
                               => Covered(k, Line("PENDING", rid[k]), c)

\* No question has been at risk before the set could be rebuilt.
RoomInv == atRisk # {} => Cardinality(Joined) > TableRoom

LEMMA SockStep ==
  ASSUME IInv, SockInv, [Next]_vars
  PROVE  SockInv'
<1> SUFFICES ASSUME NEW d \in Clients,
                    d \in clients' \/ handler'[d] # "none" \/ cast'[d].at # 0
             PROVE  sock'[d] # "off"
  BY DEF SockInv
<1>t. TypeOK /\ d \in Tasks /\ NoCast.at = 0
  BY DEF IInv, Tasks, NoCast
<1>a. d \in clients \/ handler[d] # "none" \/ cast[d].at # 0 => sock[d] # "off"
  BY DEF SockInv
<1>s. sock[d] # "off" => sock'[d] # "off"
  <2>1. ASSUME NEW t \in Tasks, CastResume(t)
        PROVE  sock'[d] = sock[d] \/ sock'[d] = "gone"
    BY <2>1, <1>t DEF CastResume, BroadcastError, Close, TypeOK
  <2>2. ASSUME NEW c \in Clients, ClientStep(c)
        PROVE  sock'[d] = sock[d] \/ sock'[d] \in {"up", "gone"}
    BY <2>2, <1>t DEF ClientStep, Accept, ClientRead, Disconnect, TypeOK
  <2>3. ASSUME NEW c \in Clients, HandlerStep(c)
        PROVE  sock' = sock
    BY <2>3 DEF HandlerStep, Greet, GreetResume, Handle, HandlerEnd, clientVars
  <2>4. ASSUME NEW k \in Calls, CallStep(k)
        PROVE  sock' = sock
    BY <2>4 DEF CallStep, AskUnavailable, Ask, CancelAsk, Expire, RunCallback, Resume,
       ResumeTimedOut, clientVars
  <2> QED  BY <2>1, <2>2, <2>3, <2>4 DEF Next, Start, Stop, FinishStop, clientVars, vars
\* A broadcast brings no client in that was not known.
<1>b. ASSUME NEW t \in Tasks, NEW b \in Casts, Broadcast(t, b),
             t = d => sock[d] # "off"
      PROVE  sock[d] # "off"
  <2>1. CASE t = d
    BY <1>b, <2>1
  <2>2. CASE t # d
    <3>1. cast'[d] = cast[d]
      BY <1>b, <1>t, <2>2, BroadcastCast
    <3>2. clients' \subseteq clients
      BY <1>b DEF Broadcast, CastEnds, CastSuspends
    <3>3. \E v, w : Goes(t, v, w)
      BY <1>b DEF Broadcast, CastEnds, CastSuspends
    <3>4. handler'[d] = handler[d]
      BY <1>t, <2>2, <3>3 DEF Goes, TypeOK
    <3> QED  BY <1>a, <3>1, <3>2, <3>4
  <2> QED  BY <2>1, <2>2
<1>0. CASE clients' \subseteq clients /\ UNCHANGED <<handler, cast>>
  BY <1>0, <1>a, <1>s
<1>1. CASE Start \/ Stop \/ FinishStop
  BY <1>0, <1>1 DEF Start, Stop, FinishStop
<1>2. ASSUME NEW k \in Calls, CallStep(k)
      PROVE  sock'[d] # "off"
  <2>1. CASE Ask(k)
    <3>1. Line("PENDING", nextId) \in Lines /\ k \in Tasks /\ k # d
      BY <1>t, BrokerAssumption DEF TypeOK, Line, Lines, Tasks
    <3>2. FreshCast(Line("PENDING", nextId)) \in Casts
      BY <1>t, <3>1, FreshCastTyped
    <3> QED  BY <1>b, <1>s, <2>1, <3>1, <3>2 DEF Ask
  <2>2. CASE CancelAsk(k)
    BY <1>a, <1>s, <1>t, <2>2 DEF CancelAsk, TypeOK
  <2> QED  BY <1>0, <1>2, <2>1, <2>2
           DEF CallStep, AskUnavailable, Expire, RunCallback, Resume, ResumeTimedOut
<1>3. ASSUME NEW c \in Clients, HandlerStep(c)
      PROVE  sock'[d] # "off"
  <2>1. handler[c] # "none" => sock[c] # "off"
    BY DEF SockInv
  <2>2. CASE Handle(c)
    <3>1. PICK m \in Typed :
            \/ UNCHANGED <<fut, call, clients, handler, cast, full, sent>>
            \/ Broadcast(c, FreshCast(Line(m.word, m.id)))
      BY <2>2 DEF Handle
    <3>2. Line(m.word, m.id) \in Lines
      BY BrokerAssumption DEF Typed, Line, Lines
    <3>3. FreshCast(Line(m.word, m.id)) \in Casts /\ c \in Tasks
      BY <1>t, <3>2, FreshCastTyped DEF Tasks
    <3>4. c = d => sock[d] # "off"
      BY <2>1, <2>2 DEF Handle
    <3> QED  BY <1>0, <1>b, <1>s, <3>1, <3>3, <3>4
  <2>3. CASE Greet(c) \/ GreetResume(c) \/ HandlerEnd(c)
    <3>1. /\ cast' = cast \/ Rebuild
          /\ sock[c] # "off" /\ clients' \subseteq clients \cup {c}
      BY <2>1, <2>3 DEF Greet, GreetResume, HandlerEnd
    <3>3. cast'[d].at = cast[d].at
      BY <1>t, <3>1, RebuildCast
    <3>2. d # c => handler'[d] = handler[d]
      BY <1>t, <2>3 DEF Greet, GreetResume, HandlerEnd, TypeOK
    <3> QED  BY <1>a, <1>s, <3>1, <3>2, <3>3
  <2> QED  BY <1>3, <2>2, <2>3 DEF HandlerStep
<1>4. ASSUME NEW c \in Clients, ClientStep(c)
      PROVE  sock'[d] # "off"
  BY <1>0, <1>a, <1>s, <1>t, <1>4 DEF ClientStep, Accept, ClientRead, Disconnect, brokerVars, TypeOK
<1>5. ASSUME NEW t \in Tasks, CastResume(t)
      PROVE  sock'[d] # "off"
  <2>1. PICK b \in Casts : b = cast[t]
    BY <1>t DEF TypeOK
  <2>2. b.at # 0 /\ b.at \in Clients
    BY <1>5, <2>1 DEF CastResume, Casts
  <2>3. [b EXCEPT !.dead = b.dead \cup {b.at}] \in Casts
    BY <2>2 DEF Casts
  <2>4. t = d => sock[d] # "off"
    BY <1>a, <2>1, <2>2
  <2>5. CASE BroadcastError(t)
    <3>1. clients' \subseteq clients /\ cast'[d] \in {NoCast, cast[d]}
      BY <1>t, <2>5 DEF BroadcastError, TypeOK
    <3>2. t # d => handler'[d] = handler[d]
      BY <1>t, <2>5 DEF BroadcastError, Goes, TypeOK
    <3> QED  BY <1>a, <1>s, <1>t, <2>4, <3>1, <3>2
  <2> QED  BY <1>5, <1>b, <1>s, <2>1, <2>3, <2>4, <2>5 DEF CastResume
<1> QED  BY <1>0, <1>1, <1>2, <1>3, <1>4, <1>5 DEF Next, vars

\* Lines are not taken back from a client that is still there.
LEMMA ReachedStays ==
  ASSUME IInv, SockInv, [Next]_vars, NEW c \in clients, NEW l, Reached(l, c)
  PROVE  Reached(l, c)'
<1> SUFFICES ASSUME sock'[c] = "up"
             PROVE  l \in sent'[c]
  BY DEF Reached
<1>t. TypeOK /\ c \in Clients /\ sock[c] # "off"
  BY DEF IInv, SockInv, TypeOK
<1>1. CASE sock[c] = "up" /\ sent[c] \subseteq sent'[c]
  BY <1>1 DEF Reached
<1>2. CASE UNCHANGED <<sock, sent>>
  BY <1>1, <1>2
<1>3. ASSUME NEW t \in Tasks, NEW b, Broadcast(t, b), UNCHANGED sock
      PROVE  l \in sent'[c]
  BY <1>1, <1>3, <1>t, BroadcastSent
<1>4. ASSUME NEW k \in Calls, CallStep(k)
      PROVE  l \in sent'[c]
  <2>1. CASE Ask(k)
    BY <1>3, <2>1 DEF Ask, Tasks
  <2> QED  BY <1>2, <1>4, <2>1 DEF CallStep, AskUnavailable, CancelAsk, Expire, RunCallback,
           Resume, ResumeTimedOut, clientVars
<1>5. ASSUME NEW d \in Clients, HandlerStep(d)
      PROVE  l \in sent'[c]
  <2>1. CASE Handle(d)
    BY <1>2, <1>3, <2>1 DEF Handle, Tasks
  <2>2. CASE Greet(d)
    BY <1>1, <1>t, <2>2 DEF Greet, TypeOK
  <2> QED  BY <1>2, <1>5, <2>1, <2>2 DEF HandlerStep, GreetResume, HandlerEnd, clientVars
<1>6. ASSUME NEW d \in Clients, ClientStep(d)
      PROVE  l \in sent'[c]
  BY <1>1, <1>t, <1>6 DEF ClientStep, Accept, ClientRead, Disconnect, TypeOK
<1>7. ASSUME NEW t \in Tasks, CastResume(t)
      PROVE  l \in sent'[c]
  <2>1. CASE BroadcastError(t)
    BY <1>1, <1>t, <2>1 DEF BroadcastError, Close, TypeOK
  <2> QED  BY <1>3, <1>7, <2>1 DEF CastResume
<1> QED  BY <1>2, <1>4, <1>5, <1>6, <1>7 DEF Next, Start, Stop, FinishStop, clientVars, vars

LEMMA RiskStays == ASSUME [Next]_vars PROVE atRisk \subseteq atRisk'
<1>1. ASSUME NEW k \in Calls, CallStep(k)
      PROVE  atRisk' = atRisk
  BY <1>1 DEF CallStep, AskUnavailable, Ask, CancelAsk, Expire, RunCallback, Resume,
     ResumeTimedOut, clientVars
<1>2. ASSUME NEW c \in Clients, HandlerStep(c)
      PROVE  atRisk \subseteq atRisk'
  BY <1>2 DEF HandlerStep, Greet, Rebuild, GreetResume, Handle, HandlerEnd, clientVars
<1>3. ASSUME NEW c \in Clients, ClientStep(c)
      PROVE  atRisk' = atRisk
  BY <1>3 DEF ClientStep, Accept, ClientRead, Disconnect
<1>4. ASSUME NEW t \in Tasks, CastResume(t)
      PROVE  atRisk' = atRisk
  BY <1>4 DEF CastResume
<1> QED  BY <1>1, <1>2, <1>3, <1>4 DEF Next, Start, Stop, FinishStop, clientVars, vars

LEMMA CoveredStays ==
  ASSUME IInv, SockInv, [Next]_vars, NEW c \in clients, NEW k, NEW l, Covered(k, l, c)
  PROVE  Covered(k, l, c)'
BY ReachedStays, RiskStays DEF Covered

\* One stretch of a call's own broadcast.
LEMMA CastReaches ==
  ASSUME TypeOK, NEW k \in Calls, NEW b \in Casts, Broadcast(k, b), UNCHANGED <<sock, atRisk>>,
         \A c \in clients : c \notin b.over \/ c \in b.seen => Covered(k, b.line, c)
  PROVE  /\ clients' \subseteq clients
         /\ call'[k] = "wait" => \A c \in clients' : Covered(k, b.line, c)'
         /\ call'[k] = "notify" =>
              /\ cast'[k].line = b.line
              /\ \A c \in clients' : c \notin cast'[k].over \/ c \in cast'[k].seen
                                    => Covered(k, b.line, c)'
<1> DEFINE Claim ==
         /\ clients' \subseteq clients
         /\ call'[k] = "wait" => \A c \in clients' : Covered(k, b.line, c)'
         /\ call'[k] = "notify" =>
              /\ cast'[k].line = b.line
              /\ \A c \in clients' : c \notin cast'[k].over \/ c \in cast'[k].seen
                                    => Covered(k, b.line, c)'
<1>k. k \in Tasks
  BY DEF Tasks
<1>m. ASSUME NEW c \in clients, Covered(k, b.line, c)
      PROVE  Covered(k, b.line, c)'
  BY <1>k, <1>m, BroadcastSent DEF Covered, Reached, TypeOK
<1>w. ASSUME NEW S, Write(b.line, S), NEW c \in S, c \in Clients
      PROVE  Covered(k, b.line, c)'
  BY <1>w DEF Covered, Reached, Write, Gone
<1>1. ASSUME NEW S \in SUBSET {c \in clients \ b.seen : ~full[c]},
             NEW D \in SUBSET {c \in S : Gone(c)},
             (clients \ b.seen) \cap b.over \subseteq S, CastEnds(k, b, S, D)
      PROVE  Claim
  <2>1. clients' \subseteq clients /\ clients \subseteq Clients /\ Write(b.line, S)
    BY <1>1 DEF CastEnds, TypeOK
  <2>2. call'[k] = "wait"
    BY <1>1 DEF CastEnds, Goes, TypeOK
  <2>3. ASSUME NEW c \in clients'
        PROVE  Covered(k, b.line, c)'
    <3>1. CASE c \in S
      BY <1>w, <2>1, <2>3, <3>1
    <3>2. CASE c \notin S
      BY <1>1, <1>m, <2>1, <2>3, <3>2
    <3> QED  BY <3>1, <3>2
  <2> QED  BY <2>1, <2>2, <2>3
<1>2. ASSUME NEW S \in SUBSET {c \in clients \ b.seen : ~full[c]},
             NEW D \in SUBSET {c \in S : Gone(c)},
             NEW e \in (clients \ b.seen) \ S, CastSuspends(k, b, S, D, e)
      PROVE  Claim
  <2>1. clients' = clients /\ clients \subseteq Clients /\ Write(b.line, S \cup {e})
    BY <1>2 DEF CastSuspends, TypeOK
  <2>2. call'[k] = "notify"
    BY <1>2 DEF CastSuspends, Goes, TypeOK
  <2>3. /\ cast'[k].line = b.line /\ cast'[k].over = b.over
        /\ cast'[k].seen = b.seen \cup S \cup {e}
    BY <1>2, <1>k DEF CastSuspends, TypeOK, Casts
  <2>4. ASSUME NEW c \in clients', c \notin cast'[k].over \/ c \in cast'[k].seen
        PROVE  Covered(k, b.line, c)'
    <3>1. CASE c \in S \cup {e}
      BY <1>w, <2>1, <2>4, <3>1
    <3>2. CASE c \notin S \cup {e}
      BY <1>m, <2>1, <2>3, <2>4, <3>2
    <3> QED  BY <3>1, <3>2
  <2> QED  BY <2>1, <2>2, <2>3, <2>4
<1> QED  BY <1>1, <1>2 DEF Broadcast

LEMMA AnnounceStep ==
  ASSUME IInv, SockInv, AnnounceInv, [Next]_vars
  PROVE  AnnounceInv'
<1> SUFFICES ASSUME NEW j \in Calls, fut'[j] = "pending"
             PROVE  /\ call'[j] = "wait" =>
                         \A c \in clients' : Covered(j, Line("PENDING", rid[j]), c)'
                    /\ call'[j] = "notify" =>
                         /\ cast'[j].line = Line("PENDING", rid'[j])
                         /\ \A c \in clients' : c \notin cast'[j].over \/ c \in cast'[j].seen
                                               => Covered(j, Line("PENDING", rid[j]), c)'
  BY DEF AnnounceInv
<1>t. TypeOK /\ j \in Tasks /\ clients \subseteq Clients
  BY DEF IInv, Tasks, TypeOK
<1>r. PICK l : l = Line("PENDING", rid'[j])
  OBVIOUS
<1> DEFINE Goal ==
      /\ call'[j] = "wait" => \A c \in clients' : Covered(j, l, c)'
      /\ call'[j] = "notify" =>
           /\ cast'[j].line = l
           /\ \A c \in clients' : c \notin cast'[j].over \/ c \in cast'[j].seen
                                 => Covered(j, l, c)'
<1>g. SUFFICES Goal
  BY <1>r DEF Covered, Reached
\* Steps that leave the call and its broadcast alone; a client they add is
\* sent the line.
<1>a. ASSUME fut[j] = "pending", rid'[j] = rid[j],
             call'[j] \in {"wait", "notify"} => call'[j] = call[j] /\ cast'[j] = cast[j],
             \A c \in clients' : c \in clients \/ Covered(j, l, c)'
      PROVE  Goal
  <2>1. /\ call[j] = "wait" => \A c \in clients : Covered(j, l, c)
        /\ call[j] = "notify" =>
             /\ cast[j].line = l
             /\ \A c \in clients : c \notin cast[j].over \/ c \in cast[j].seen => Covered(j, l, c)
    BY <1>a, <1>r DEF AnnounceInv
  <2> QED  BY <1>a, <2>1, CoveredStays
<1>0. CASE clients' \subseteq clients /\ UNCHANGED <<fut, rid, call, cast>>
  BY <1>0, <1>a
<1>1. CASE Start \/ Stop \/ FinishStop
  BY <1>a, <1>t, <1>1 DEF Start, Stop, FinishStop, CancelPending, TypeOK
<1>b. ASSUME NEW t \in Tasks, t # j, NEW b \in Casts, Broadcast(t, b),
             fut[j] = "pending", rid'[j] = rid[j]
      PROVE  Goal
  <2>1. cast'[j] = cast[j]
    BY <1>b, <1>t, BroadcastCast
  <2>2. call'[j] = call[j]
    BY <1>b, <1>t, BroadcastMoves
  <2>3. clients' \subseteq clients
    BY <1>b DEF Broadcast, CastEnds, CastSuspends
  <2> QED  BY <1>a, <1>b, <2>1, <2>2, <2>3
<1>2. ASSUME NEW k \in Calls, CallStep(k)
      PROVE  Goal
  <2>1. CASE Ask(k)
    <3>1. Line("PENDING", nextId) \in Lines /\ k \in Tasks
      BY <1>t DEF TypeOK, Line, Lines, Tasks
    <3>2. PICK b \in Casts : b = FreshCast(Line("PENDING", nextId))
      BY <1>t, <3>1, FreshCastTyped
    <3>3. Broadcast(k, b) /\ UNCHANGED <<sock, atRisk>>
      BY <2>1, <3>2 DEF Ask
    <3>4. CASE k = j
      <4>1. b.line = l
        BY <1>r, <1>t, <2>1, <3>2, <3>4 DEF Ask, TakeId, TypeOK, FreshCast, NoCast
      <4>2. \A c \in clients : c \in b.over /\ c \notin b.seen
        BY <3>2 DEF FreshCast, NoCast
      <4> QED  BY <1>t, <3>3, <3>4, <4>1, <4>2, CastReaches
    <3>5. CASE k # j
      <4>1. fut[j] = "pending" /\ rid'[j] = rid[j]
        BY <1>t, <2>1, <3>5 DEF Ask, TakeId, TypeOK
      <4> QED  BY <1>b, <3>1, <3>3, <3>5, <4>1
    <3> QED  BY <3>4, <3>5
  <2>2. CASE CancelAsk(k)
    BY <1>a, <1>t, <2>2 DEF CancelAsk, TypeOK
  <2>3. CASE Expire(k)
    BY <1>a, <1>t, <2>3 DEF Expire, TypeOK
  <2>4. CASE Resume(k) \/ ResumeTimedOut(k)
    BY <1>a, <1>t, <2>4 DEF Resume, ResumeTimedOut, Outcome, TypeOK
  <2>5. CASE AskUnavailable(k)
    BY <1>a, <1>t, <2>5 DEF AskUnavailable, TypeOK
  <2> QED  BY <1>0, <1>2, <2>1, <2>2, <2>3, <2>4, <2>5 DEF CallStep, RunCallback
<1>3. ASSUME NEW d \in Clients, HandlerStep(d)
      PROVE  Goal
  <2>1. CASE Greet(d)
    <3>1. fut[j] = "pending" /\ j \in pending /\ UNCHANGED <<rid, call, sock>>
      BY <2>1 DEF Greet, IInv, CallInv
    <3>2. l \in Replay
      BY <1>r, <3>1 DEF Replay
    <3>3. Covered(j, l, d)'
      BY <1>t, <2>1, <3>1, <3>2 DEF Covered, Reached, Greet, Gone, TypeOK
    <3>4. clients' \subseteq clients \cup {d}
      BY <2>1 DEF Greet
    <3>5. CASE cast' = cast
      BY <1>a, <3>1, <3>3, <3>4, <3>5
    <3>6. CASE Rebuild
      <4>1. call[j] = "wait" => \A c \in clients : Covered(j, l, c)'
        BY <1>r, <3>1, CoveredStays DEF AnnounceInv
      <4>2. ASSUME call[j] = "notify", NEW c \in clients
            PROVE  Covered(j, l, c)'
        <5>1. CASE c \in cast[j].over \ cast[j].seen
          <6>1. <<j, c>> \in {j} \X (cast[j].over \ cast[j].seen)
            BY <5>1
          <6>2. <<j, c>> \in atRisk'
            BY <3>6, <6>1 DEF Rebuild
          <6> QED  BY <6>2 DEF Covered
        <5>2. CASE c \notin cast[j].over \/ c \in cast[j].seen
          BY <1>r, <3>1, <4>2, <5>2, CoveredStays DEF AnnounceInv
        <5> QED  BY <5>1, <5>2
      <4>3. call[j] = "notify" => cast'[j].line = l
        BY <1>r, <1>t, <3>1, <3>6, RebuildCast DEF AnnounceInv
      <4> QED  BY <3>1, <3>3, <3>4, <4>1, <4>2, <4>3
    <3> QED  BY <2>1, <3>5, <3>6 DEF Greet
  <2>2. CASE Handle(d)
    <3>1. PICK m \in Typed :
            \/ UNCHANGED <<fut, call, clients, handler, cast, full, sent>>
            \/ \E k \in Match(m) :
                 /\ fut' = [fut EXCEPT ![k] = m.word]
                 /\ Broadcast(d, FreshCast(Line(m.word, m.id)))
      BY <2>2 DEF Handle
    <3>2. rid' = rid
      BY <2>2 DEF Handle
    <3>3. ASSUME NEW k \in Match(m), fut' = [fut EXCEPT ![k] = m.word],
                 Broadcast(d, FreshCast(Line(m.word, m.id)))
          PROVE  Goal
      <4>1. fut[j] = "pending"
        BY <1>t, <3>3 DEF TypeOK, Typed, Verdicts
      <4>2. Line(m.word, m.id) \in Lines /\ d \in Tasks /\ d # j
        BY BrokerAssumption DEF Typed, Line, Lines, Tasks
      <4>3. FreshCast(Line(m.word, m.id)) \in Casts
        BY <1>t, <4>2, FreshCastTyped
      <4> QED  BY <1>b, <3>2, <3>3, <4>1, <4>2, <4>3
    <3> QED  BY <1>0, <3>1, <3>2, <3>3
  <2> QED  BY <1>0, <1>3, <2>1, <2>2 DEF HandlerStep, GreetResume, HandlerEnd
<1>4. ASSUME NEW d \in Clients, ClientStep(d)
      PROVE  clients' \subseteq clients /\ UNCHANGED <<fut, rid, call, cast>>
  BY <1>4 DEF ClientStep, Accept, ClientRead, Disconnect, brokerVars
<1>5. ASSUME NEW t \in Tasks, CastResume(t)
      PROVE  Goal
  <2>1. PICK b \in Casts : b = cast[t]
    BY <1>t DEF TypeOK
  <2>2. fut[j] = "pending" /\ rid'[j] = rid[j] /\ b.at # 0
    BY <1>5, <2>1 DEF CastResume
  <2>3. PICK d : d = [b EXCEPT !.dead = b.dead \cup {b.at}]
    OBVIOUS
  <2>4. d \in Casts /\ d.line = b.line /\ d.over = b.over /\ d.seen = b.seen
    BY <2>2, <2>3 DEF Casts
  <2>5. CASE BroadcastError(t)
    <3>1. call'[j] \in {"wait", "notify"} => call'[j] = call[j] /\ j # t
      BY <1>t, <2>5 DEF BroadcastError, Goes, TypeOK
    <3>2. j # t => cast'[j] = cast[j]
      BY <1>t, <2>5 DEF BroadcastError, TypeOK
    <3>3. clients' \subseteq clients
      BY <2>5 DEF BroadcastError
    <3> QED  BY <1>a, <2>2, <3>1, <3>2, <3>3
  <2>6. CASE t # j /\ (Broadcast(t, b) \/ Broadcast(t, d))
    BY <1>b, <2>2, <2>4, <2>6
  <2>7. CASE t = j /\ UNCHANGED <<sock, atRisk>> /\ (Broadcast(t, b) \/ Broadcast(t, d))
    <3>1. call[j] = "notify"
      BY <2>1, <2>2, <2>7 DEF IInv, CastInv
    <3>2. b.line = l /\ \A c \in clients : c \notin b.over \/ c \in b.seen => Covered(j, b.line, c)
      BY <1>r, <2>1, <2>2, <2>7, <3>1 DEF AnnounceInv
    <3>3. PICK e \in Casts : /\ Broadcast(j, e) /\ e.line = l
                            /\ e.over = b.over /\ e.seen = b.seen
      BY <2>4, <2>7, <3>2
    <3>4. \A c \in clients : c \notin e.over \/ c \in e.seen => Covered(j, e.line, c)
      BY <3>2, <3>3
    <3> QED  BY <1>t, <2>7, <3>3, <3>4, CastReaches
  <2> QED  BY <1>5, <2>1, <2>3, <2>5, <2>6, <2>7 DEF CastResume
<1> QED  BY <1>0, <1>1, <1>2, <1>3, <1>4, <1>5 DEF Next, vars

LEMMA JoinedStays ==
  ASSUME TypeOK, SockInv, [Next]_vars
  PROVE  Joined \subseteq Joined'
<1> SUFFICES ASSUME NEW d \in Clients, handler[d] \notin {"none", "new"}
             PROVE  handler'[d] \notin {"none", "new"}
  BY DEF Joined
<1>t. handler \in [Clients -> HandlerStates]
  BY DEF TypeOK
<1>1. ASSUME NEW t, NEW v, NEW w \in {"read", "notify", "done"}, Goes(t, v, w)
      PROVE  handler'[d] \notin {"none", "new"}
  BY <1>t, <1>1 DEF Goes
<1>2. ASSUME NEW t, NEW b, Broadcast(t, b)
      PROVE  handler'[d] \notin {"none", "new"}
  BY <1>1, <1>2 DEF Broadcast, CastEnds, CastSuspends
<1>3. ASSUME NEW k \in Calls, CallStep(k)
      PROVE  handler'[d] \notin {"none", "new"}
  BY <1>2, <1>3 DEF CallStep, AskUnavailable, Ask, CancelAsk, Expire, RunCallback, Resume,
     ResumeTimedOut
<1>4. ASSUME NEW c \in Clients, HandlerStep(c)
      PROVE  handler'[d] \notin {"none", "new"}
  <2>1. CASE Handle(c)
    BY <1>2, <2>1 DEF Handle
  <2> QED  BY <1>4, <1>t, <2>1 DEF HandlerStep, Greet, GreetResume, HandlerEnd
<1>5. ASSUME NEW c \in Clients, ClientStep(c)
      PROVE  handler'[d] \notin {"none", "new"}
  <2>1. CASE Accept(c)
    BY <1>t, <2>1 DEF Accept, SockInv
  <2> QED  BY <1>5, <2>1 DEF ClientStep, ClientRead, Disconnect, brokerVars
<1>6. ASSUME NEW t \in Tasks, CastResume(t)
      PROVE  handler'[d] \notin {"none", "new"}
  BY <1>1, <1>2, <1>6 DEF CastResume, BroadcastError
<1> QED  BY <1>3, <1>4, <1>5, <1>6 DEF Next, Start, Stop, FinishStop, vars

LEMMA RoomStep ==
  ASSUME IInv, SockInv, RoomInv, [Next]_vars
  PROVE  RoomInv'
<1>t. TypeOK /\ TypeOK'
  BY TypeStep DEF IInv
<1>f. /\ IsFiniteSet(Joined) /\ IsFiniteSet(Joined')
      /\ Cardinality(Joined) \in Nat /\ Cardinality(Joined') \in Nat
      /\ Cardinality(Joined) <= Cardinality(Joined')
  <2>1. IsFiniteSet(Joined) /\ IsFiniteSet(Joined')
    BY BrokerAssumption, FS_Subset DEF Joined
  <2> QED  BY <1>t, <2>1, JoinedStays, FS_CardinalityType, FS_Subset
<1>1. CASE atRisk' = atRisk
  BY <1>1, <1>f, BrokerAssumption DEF RoomInv
<1>2. ASSUME NEW c \in Clients, Greet(c), Rebuild
      PROVE  Cardinality(Joined') > TableRoom
  <2>1. c \notin Joined /\ c \in Joined'
    BY <1>t, <1>2 DEF Greet, Joined, TypeOK
  <2>2. Joined \cup {c} \subseteq Joined'
    BY <1>t, <2>1, JoinedStays
  <2>3. Cardinality(Joined \cup {c}) = Cardinality(Joined) + 1
    BY <1>f, <2>1, FS_AddElement
  <2>4. Cardinality(Joined \cup {c}) <= Cardinality(Joined')
    BY <1>f, <2>2, FS_Subset
  <2>5. Cardinality(Joined) >= TableRoom /\ TableRoom \in Nat
    BY <1>2, BrokerAssumption DEF Rebuild
  <2> QED  BY <1>f, <2>3, <2>4, <2>5
<1>3. ASSUME NEW k \in Calls, CallStep(k)
      PROVE  atRisk' = atRisk
  BY <1>3 DEF CallStep, AskUnavailable, Ask, CancelAsk, Expire, RunCallback, Resume,
     ResumeTimedOut, clientVars
<1>4. ASSUME NEW c \in Clients, HandlerStep(c)
      PROVE  atRisk' = atRisk \/ (Greet(c) /\ Rebuild)
  BY <1>4 DEF HandlerStep, Greet, GreetResume, Handle, HandlerEnd, clientVars
<1>5. ASSUME NEW c \in Clients, ClientStep(c)
      PROVE  atRisk' = atRisk
  BY <1>5 DEF ClientStep, Accept, ClientRead, Disconnect
<1>6. ASSUME NEW t \in Tasks, CastResume(t)
      PROVE  atRisk' = atRisk
  BY <1>6 DEF CastResume
<1>7. atRisk' = atRisk \/ Cardinality(Joined') > TableRoom
  BY <1>2, <1>3, <1>4, <1>5, <1>6 DEF Next, Start, Stop, FinishStop, clientVars, vars
<1> QED  BY <1>1, <1>7 DEF RoomInv

LEMMA AnnounceInvariant == Spec => [](IInv /\ SockInv /\ AnnounceInv /\ RoomInv)
<1>1. Init => SockInv /\ AnnounceInv /\ RoomInv
  BY DEF Init, SockInv, AnnounceInv, RoomInv, NoCast, Tasks
<1>2. IInv /\ SockInv /\ AnnounceInv /\ RoomInv /\ [Next]_vars
        => SockInv' /\ AnnounceInv' /\ RoomInv'
  BY SockStep, AnnounceStep, RoomStep
<1> QED  BY <1>1, <1>2, Invariant, PTL DEF Spec

\* Whatever connects, leaves, answers, stops reading or stops the broker: a client
\* that is registered and still there has been sent the PENDING line of every
\* waiting call, except one the loop of that call's broadcast still had before it
\* when the set was rebuilt.
THEOREM MissedOnlyByRebuildHolds == Spec => []MissedOnlyByRebuild
<1>1. IInv /\ AnnounceInv => MissedOnlyByRebuild
  BY DEF IInv, TypeOK, AnnounceInv, MissedOnlyByRebuild, Covered, Reached, Shown
<1> QED  BY <1>1, AnnounceInvariant, PTL

\* So broker.py's "any connected companion-CLI client sees the request" is kept
\* for as long as no more connections have registered, over the broker's life, than
\* the set takes without moving to another table: four, in CPython.
THEOREM WaitingIsAnnouncedHolds ==
  Spec => [](Cardinality(Joined) <= TableRoom => WaitingIsAnnounced)
<1>1. IInv /\ AnnounceInv /\ RoomInv
        => (Cardinality(Joined) <= TableRoom => WaitingIsAnnounced)
  <2> SUFFICES ASSUME IInv, AnnounceInv, RoomInv, Cardinality(Joined) <= TableRoom
               PROVE  WaitingIsAnnounced
    OBVIOUS
  <2>1. Cardinality(Joined) \in Nat /\ TableRoom \in Nat
    BY BrokerAssumption, FS_Subset, FS_CardinalityType DEF Joined
  <2>2. atRisk = {}
    BY <2>1 DEF RoomInv
  <2> QED  BY <2>2 DEF IInv, TypeOK, AnnounceInv, WaitingIsAnnounced, Covered, Reached, Shown
<1> QED  BY <1>1, AnnounceInvariant, PTL
=============================================================================
