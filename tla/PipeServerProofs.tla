--------------------------- MODULE PipeServerProofs ---------------------------
(***************************************************************************)
(* Proofs about PipeServer: every entry of PrivacyState has a worker that  *)
(* will take it out, nothing outlives stop, and no connection is lost      *)
(* without the loss being recorded, for any number of connections, frames, *)
(* client ids and attempts to wake the accept thread.                      *)
(***************************************************************************)
EXTENDS PipeServer, SequenceTheorems, TLAPS

Privacy == INSTANCE PrivacyStateProofs

-----------------------------------------------------------------------------
(***************************************************************************)
(* Types                                                                   *)
(***************************************************************************)
\* The ends, the bytes and the threads, as functions and records; a worker
\* that is about to apply a frame has one.
ThreadTypes ==
    /\ running \in BOOLEAN
    /\ acceptor \in {"off", "check", "create", "connect", "recheck", "open",
                     "spawn", "done"}
    /\ stopper \in {"idle", "wake", "join", "clear", "stopped"}

PipeTypes ==
    pipe \in [DOMAIN pipe -> [end    : {"listening", "open", "shut"},
                              inbox  : Seq(Frame),
                              parted : BOOLEAN]]

WorkerTypes ==
    /\ worker \in [DOMAIN worker ->
                     [pc      : {"poll", "apply", "fail", "leave", "close",
                                 "hangup", "done"},
                      pending : Seq(Frame)]]
    /\ \A c \in DOMAIN worker : worker[c].pc = "apply" => worker[c].pending # << >>

Types == ThreadTypes /\ PipeTypes /\ WorkerTypes

\* One read takes a beginning of what has arrived and leaves the rest.
LEMMA ReadSplits ==
    ASSUME NEW S, NEW s \in Seq(S), NEW n \in 1..Len(s)
    PROVE  /\ SubSeq(s, 1, n) \in Seq(S) /\ SubSeq(s, 1, n) # << >>
           /\ SubSeq(s, n + 1, Len(s)) \in Seq(S)
<1>1. SubSeq(s, 1, n) \in Seq(S) /\ Len(SubSeq(s, 1, n)) = n
    BY SubSeqProperties
<1>2. SubSeq(s, n + 1, Len(s)) \in Seq(S)
    BY SubSeqProperties
<1> QED  BY <1>1, <1>2

\* Taking one frame off leaves some exactly if there was another.
LEMMA TakingOne ==
    ASSUME NEW S, NEW s \in Seq(S), s # << >>
    PROVE  /\ Head(s) \in S /\ Tail(s) \in Seq(S)
           /\ Len(s) > 1 => Tail(s) # << >>
<1> DEFINE rest == Len(Tail(s))
<1>1. Head(s) \in S /\ Tail(s) \in Seq(S) /\ rest = Len(s) - 1
    BY HeadTailProperties
<1>2. \A t : t = << >> => Len(t) = 0
    OBVIOUS
<1>3. Tail(s) = << >> => rest = 0
    BY <1>2, Zenon
<1>4. Len(s) \in Nat
    OBVIOUS
<1> HIDE DEF rest
<1> QED  BY <1>1, <1>3, <1>4

\* The instances of the pipe are those of the running workers and the one the
\* accept thread has in hand.  A worker belongs to a connection that has been
\* opened before, and gets its place only when the accept thread spawns it.
RunningWorkers == {c \in DOMAIN worker : ~Done(c)}

InHand ==
    CASE acceptor \in {"connect", "recheck", "open"} -> {nextConnection}
      [] acceptor = "spawn" -> {nextConnection - 1}
      [] OTHER -> {}

PipesInOrder ==
    /\ nextConnection \in Nat \ {0}
    /\ acceptor = "spawn" => nextConnection > 1
    /\ DOMAIN worker \subseteq 1..(nextConnection - 1) \ InHand
    /\ DOMAIN pipe = RunningWorkers \cup InHand

LEMMA TypesPreserved == ASSUME Types, PipesInOrder, [Next]_vars PROVE Types'
<1> USE DEF Types, ThreadTypes, PipeTypes, WorkerTypes, state, server, stopping
<1>1. CASE Start \/ Stop \/ JoinAcceptor \/ JoinWorkers \/ AcceptCheck
    BY <1>1 DEF Start, Stop, JoinAcceptor, JoinWorkers, AcceptCheck
<1>2. CASE CreatePipe
    <2>1. [end |-> "listening", inbox |-> << >>, parted |-> FALSE]
            \in [end    : {"listening", "open", "shut"}, inbox  : Seq(Frame),
                 parted : BOOLEAN]
        OBVIOUS
    <2>2. PipeTypes'
        BY <1>2, <2>1 DEF CreatePipe
    <2>3. acceptor' \in {"connect", "check"}
        BY <1>2 DEF CreatePipe
    <2> QED  BY <1>2, <2>2, <2>3 DEF CreatePipe
<1>3. CASE ConnectPipe \/ AcceptRecheck \/ OpenConnection
    BY <1>3 DEF ConnectPipe, AcceptRecheck, OpenConnection, Without
<1>4. CASE SpawnWorker
    <2>1. << >> \in Seq(Frame)
        OBVIOUS
    <2> QED  BY <1>4, <2>1 DEF SpawnWorker
<1>5. CASE WakeAcceptor
    <2>1. CASE Offered
        <3>1. /\ pipe' = [pipe EXCEPT ![nextConnection].end = "shut"]
              /\ stopper' = "join" /\ UNCHANGED <<running, acceptor, worker>>
            BY <1>5, <2>1 DEF WakeAcceptor
        <3>2. PipeTypes'
            BY <3>1
        <3> QED  BY <3>1, <3>2
    <2>2. CASE ~Offered
        BY <1>5, <2>2 DEF WakeAcceptor
    <2> QED  BY <2>1, <2>2
<1>6. CASE ClientConnects
    BY <1>6 DEF ClientConnects, Offered
<1>7. ASSUME NEW c \in Connection, ClientCloses(c) PROVE Types'
    BY <1>7 DEF ClientCloses
<1>8. ASSUME NEW c \in Connection, NEW f \in SentFrames, ClientSends(c, f) PROVE Types'
    <2>1. Append(pipe[c].inbox, f) \in Seq(Frame)
        BY <1>8, FramesAssumption DEF ClientSends
    <2>2. [[pipe[c] EXCEPT !.inbox = Append(@, f)] EXCEPT !.parted = (f.kind = "goodbye")]
            \in [end    : {"listening", "open", "shut"}, inbox  : Seq(Frame),
                 parted : BOOLEAN]
        BY <1>8, <2>1 DEF ClientSends
    <2>3. PipeTypes'
        BY <1>8, <2>2 DEF ClientSends
    <2> QED  BY <1>8, <2>3 DEF ClientSends
<1>9. ASSUME NEW c \in Connection, PollPipe(c) PROVE Types'
    <2>1. CASE Goto(c, "leave") /\ UNCHANGED pipe
        BY <1>9, <2>1 DEF PollPipe, Goto, At
    <2>2. ASSUME NEW n \in 1..Len(pipe[c].inbox),
                 worker' = [worker EXCEPT ![c] =
                    [pc |-> "apply", pending |-> SubSeq(pipe[c].inbox, 1, n)]],
                 pipe' = [pipe EXCEPT ![c].inbox = SubSeq(@, n + 1, Len(@))]
          PROVE  Types'
        <3>1. c \in DOMAIN pipe
            BY <1>9 DEF PollPipe, At, PipesInOrder, RunningWorkers, Done
        <3>2. pipe[c].inbox \in Seq(Frame)
            BY <3>1
        <3>3. /\ SubSeq(pipe[c].inbox, 1, n) \in Seq(Frame) \ {<< >>}
              /\ SubSeq(pipe[c].inbox, n + 1, Len(pipe[c].inbox)) \in Seq(Frame)
            BY <3>2, ReadSplits
        <3>4. [pipe[c] EXCEPT !.inbox = SubSeq(@, n + 1, Len(@))]
                \in [end    : {"listening", "open", "shut"}, inbox  : Seq(Frame),
                     parted : BOOLEAN]
            BY <3>1, <3>3
        <3>5. PipeTypes'
            BY <2>2, <3>4
        <3>6. WorkerTypes'
            BY <1>9, <2>2, <3>3 DEF PollPipe, At
        <3> QED  BY <1>9, <3>5, <3>6 DEF PollPipe
    <2> QED  BY <1>9, <2>1, <2>2 DEF PollPipe
<1>10. ASSUME NEW c \in Connection, ApplyFrame(c) PROVE Types'
    <2>1. /\ worker[c].pending \in Seq(Frame) /\ worker[c].pending # << >>
          /\ c \in DOMAIN worker
        BY <1>10 DEF ApplyFrame, At
    <2>2. /\ Tail(worker[c].pending) \in Seq(Frame)
          /\ Len(worker[c].pending) > 1 => Tail(worker[c].pending) # << >>
        BY <2>1, TakingOne
    <2>3. /\ After(c, Head(worker[c].pending)) \in {"poll", "apply", "fail", "hangup"}
          /\ After(c, Head(worker[c].pending)) = "apply"
               => Len(worker[c].pending) > 1
        BY DEF After
    <2>4. WorkerTypes'
        BY <1>10, <2>1, <2>2, <2>3 DEF ApplyFrame
    <2> QED  BY <1>10, <2>4 DEF ApplyFrame
<1>11. ASSUME NEW c \in Connection, FailProtocol(c) \/ LeaveLoop(c) \/ CloseConnection(c)
       PROVE  Types'
    <2>1. /\ c \in DOMAIN worker
          /\ \E pc \in {"close", "hangup"} : worker' = [worker EXCEPT ![c].pc = pc]
          /\ UNCHANGED <<running, acceptor, stopper, pipe>>
        BY <1>11 DEF FailProtocol, LeaveLoop, CloseConnection, Goto, At
    <2> QED  BY <2>1
<1>12. ASSUME NEW c \in Connection, Hangup(c) PROVE Types'
    <2>1. << >> \in Seq(Frame)
        OBVIOUS
    <2> QED  BY <1>12, <2>1 DEF Hangup, Without, At
<1>13. CASE Elsewhere
    BY <1>13 DEF Elsewhere
<1>14. CASE UNCHANGED vars
    BY <1>14 DEF vars
<1> QED  BY <1>1, <1>2, <1>3, <1>4, <1>5, <1>6, <1>7, <1>8, <1>9, <1>10, <1>11,
            <1>12, <1>13, <1>14 DEF Next, AcceptorStep, WorkerStep, StopperStep

-----------------------------------------------------------------------------
(***************************************************************************)
(* What the server does to PrivacyState                                    *)
(***************************************************************************)
\* The clients touch nothing but the pipe.
LEMMA ClientsTouch ==
    ASSUME NEW c, ClientCloses(c) \/ \E f \in SentFrames : ClientSends(c, f)
    PROVE  UNCHANGED <<state, server, worker, stopping>>
<1>1. CASE ClientCloses(c)
    BY <1>1 DEF ClientCloses
<1>2. ASSUME NEW f \in SentFrames, ClientSends(c, f)
      PROVE  UNCHANGED <<state, server, worker, stopping>>
    BY <1>2 DEF ClientSends
<1> QED  BY <1>1, <1>2

LEMMA SameCount == \A S : State!Cardinality(S) = Privacy!Cardinality(S)
BY DEF State!Cardinality, Privacy!Cardinality

LEMMA SameTypes == State!TypeOK <=> Privacy!TypeOK
BY DEF State!TypeOK, Privacy!TypeOK, State!Live, Privacy!Live, State!Client,
       Privacy!Client, State!Report, Privacy!Report, State!MaxAge,
       Privacy!MaxAge, State!NoSequence, Privacy!NoSequence

\* Every step of the server, the clients and OBS is a call of PrivacyState,
\* or leaves it alone.
LEMMA ServerSteps ==
    ASSUME Types, [Next]_vars
    PROVE  [Privacy!Next]_state
<1> USE DEF state, State!Live, Privacy!Live, State!Lag, Privacy!Lag
<1>1. ASSUME NEW lag \in State!Lag, State!ConnectionOpened(lag)
      PROVE  Privacy!Next
    BY <1>1 DEF State!ConnectionOpened, Privacy!ConnectionOpened, Privacy!Next,
                State!NoSequence, Privacy!NoSequence
<1>2. ASSUME NEW c, c \in State!Live, State!ConnectionFailed(c) PROVE Privacy!Next
    BY <1>2, SameCount DEF Privacy!Next, State!ConnectionFailed, Privacy!ConnectionFailed,
                State!RecordFailures, Privacy!RecordFailures, State!Reported,
                Privacy!Reported, State!Erase, Privacy!Erase
<1>3. ASSUME NEW c, FailConnection(c) PROVE [Privacy!Next]_state
    BY <1>2, <1>3 DEF FailConnection
<1>4. State!SomeTick \/ State!Elapse => Privacy!Next
    BY SameCount DEF Privacy!Next, State!SomeTick, Privacy!SomeTick, State!Tick, Privacy!Tick,
           State!Expired, Privacy!Expired, State!Elapse, Privacy!Elapse,
           State!Older, Privacy!Older, State!MaxAge, Privacy!MaxAge,
           State!RecordFailures, Privacy!RecordFailures, State!Reported,
           Privacy!Reported, State!Erase, Privacy!Erase
<1>5. ASSUME NEW c, NEW frame \in Frame, Accepted(c, frame), Received(c, frame)
      PROVE  Privacy!Next
    <2>1. c \in State!Live
        BY <1>5 DEF Accepted, Frame, State!HelloAccepted, State!StateAccepted,
                    State!GoodbyeAccepted
    <2>2. ASSUME frame.kind = "hello", NEW lag \in State!Lag,
                 State!HelloReceived(c, frame.id, lag)
          PROVE  Privacy!Next
        <3>1. frame.id \in ClientId
            BY <2>2 DEF Frame
        <3>2. Privacy!HelloReceived(c, frame.id, lag)
            BY <2>2 DEF State!HelloReceived, Privacy!HelloReceived,
                        State!HelloAccepted, Privacy!HelloAccepted
        <3> QED  BY <2>1, <3>1, <3>2 DEF Privacy!Next
    <2>3. ASSUME frame.kind = "state", NEW lag \in State!Lag,
                 State!StateReceived(c, frame.seq, frame.report, lag)
          PROVE  Privacy!Next
        <3>1. frame.seq \in 0..MaxSequence /\ frame.report \in {"safe", "sensitive"}
            BY <2>3 DEF Frame
        <3>2. Privacy!StateReceived(c, frame.seq, frame.report, lag)
            BY <2>3 DEF State!StateReceived, Privacy!StateReceived,
                        State!StateAccepted, Privacy!StateAccepted,
                        State!SequenceAccepted, Privacy!SequenceAccepted,
                        State!Repays, Privacy!Repays
        <3> QED  BY <2>1, <3>1, <3>2 DEF Privacy!Next
    <2>4. ASSUME State!GoodbyeReceived(c) PROVE Privacy!Next
        BY <2>1, <2>4 DEF Privacy!Next, State!GoodbyeReceived,
                Privacy!GoodbyeReceived, State!GoodbyeAccepted,
                Privacy!GoodbyeAccepted, State!Erase, Privacy!Erase
    <2> QED  BY <1>5, <2>2, <2>3, <2>4 DEF Received
<1>6. ASSUME NEW c \in Connection, ApplyFrame(c) PROVE [Privacy!Next]_state
    <2>1. Head(worker[c].pending) \in Frame
        BY <1>6, TakingOne DEF ApplyFrame, At, Types, WorkerTypes
    <2> QED  BY <1>5, <1>6, <2>1 DEF ApplyFrame
<1>7. CASE UNCHANGED vars
    BY <1>7 DEF vars
<1>8. CASE Start \/ AcceptorStep
    BY <1>1, <1>8 DEF Start, AcceptorStep, AcceptCheck, CreatePipe, ConnectPipe,
                      AcceptRecheck, OpenConnection, SpawnWorker
<1>9. CASE Stop \/ StopperStep \/ ClientConnects
    BY <1>9 DEF Stop, StopperStep, WakeAcceptor, JoinAcceptor, JoinWorkers,
                ClientConnects
<1>10. ASSUME NEW c \in Connection, WorkerStep(c) PROVE [Privacy!Next]_state
    BY <1>3, <1>6, <1>10 DEF WorkerStep, PollPipe, FailProtocol, LeaveLoop,
                             CloseConnection, Hangup
<1>11. ASSUME NEW c \in Connection,
              ClientCloses(c) \/ \E f \in SentFrames : ClientSends(c, f)
       PROVE  [Privacy!Next]_state
    BY <1>11, ClientsTouch
<1>12. CASE Elsewhere
    BY <1>4, <1>12 DEF Elsewhere
<1> QED  BY <1>7, <1>8, <1>9, <1>10, <1>11, <1>12 DEF Next

\* Which entries the steps of PrivacyState that the server and OBS take can
\* add or take out, and when they hand out a connection id.
LEMMA EntriesMove ==
    /\ \A lag : State!ConnectionOpened(lag) =>
         /\ State!Live' = State!Live \cup {nextConnection}
         /\ nextConnection' = nextConnection + 1
    /\ \A c : FailConnection(c) =>
         State!Live' = State!Live \ {c} /\ UNCHANGED nextConnection
    /\ \A c, frame : Received(c, frame) =>
         /\ UNCHANGED nextConnection
         /\ \/ State!Live' = State!Live
            \/ frame.kind = "goodbye" /\ State!Live' = State!Live \ {c}
    /\ State!SomeTick \/ State!Elapse =>
         State!Live' \subseteq State!Live /\ UNCHANGED nextConnection
BY DEF State!ConnectionOpened, State!Live, FailConnection, State!ConnectionFailed,
       State!Erase, Received, State!HelloReceived, State!StateReceived,
       State!GoodbyeReceived, State!SomeTick, State!Tick, State!Elapse, state

-----------------------------------------------------------------------------
(***************************************************************************)
(* The inductive invariant                                                 *)
(***************************************************************************)
\* stop begins once, waits for the accept thread before it looks at the
\* workers, and every worker that still runs is among those it waits for.
StopInOrder ==
    /\ attempts \in 0..WakeAttempts
    /\ acceptor = "off" => ~running /\ stopper = "idle"
    /\ running => stopper = "idle"
    /\ stopper = "idle" => attempts = 0
    /\ stopper = "wake" => attempts < WakeAttempts
    /\ stopper \in {"clear", "stopped"} => acceptor = "done"
    /\ \A c \in DOMAIN worker : ~Done(c) => c \in held
    /\ stopper = "stopped" => held = {}

NoEntryYet == acceptor = "off" => State!Live = {}

IInv ==
    /\ Types /\ State!TypeOK /\ PipesInOrder /\ StopInOrder
    /\ NoEntryYet /\ EveryEntryIsKept

LEMMA InitIInv == Init => IInv
<1> SUFFICES ASSUME Init PROVE IInv
    OBVIOUS
<1>1. State!TypeOK /\ State!Live = {} /\ nextConnection = 1
    <2>1. Privacy!Init
        BY DEF Init, State!Init, Privacy!Init
    <2>2. Privacy!TypeOK
        BY <2>1, PrivacyAssumption, Privacy!InitTypeOK
    <2> QED  BY <2>1, <2>2, SameTypes DEF State!Live, Privacy!Init
<1>2. DOMAIN pipe = {} /\ DOMAIN worker = {}
    BY DEF Init
<1>3. Types
    <2>1. \A S : << >> \in [{} -> S]
        OBVIOUS
    <2>2. PipeTypes /\ WorkerTypes
        BY <1>2, <2>1 DEF Init, PipeTypes, WorkerTypes
    <2> QED  BY <2>2 DEF Init, Types, ThreadTypes
<1>4. PipesInOrder
    BY <1>1, <1>2 DEF Init, PipesInOrder, InHand, RunningWorkers
<1>5. StopInOrder
    BY <1>2, ServerAssumption DEF Init, StopInOrder
<1> QED  BY <1>1, <1>3, <1>4, <1>5 DEF IInv, NoEntryYet, EveryEntryIsKept

LEMMA EntriesTyped == ASSUME Types, State!TypeOK, [Next]_vars PROVE State!TypeOK'
<1>1. [Privacy!Next]_(Privacy!vars)
    BY ServerSteps DEF state, Privacy!vars
<1>2. Privacy!TypeOK'
    BY <1>1, SameTypes, PrivacyAssumption, Privacy!NextTypeOK
<1>3. State!TypeOK' <=> Privacy!TypeOK'
    BY SameTypes, PTL
<1> QED  BY <1>2, <1>3

\* Where a running worker or the accept thread is, its connection has been
\* opened, and no other connection is meant.
LEMMA PipesPreserved == ASSUME IInv, [Next]_vars PROVE PipesInOrder'
<1> USE DEF IInv, Types, ThreadTypes, PipesInOrder, InHand, RunningWorkers, Done, state, server,
            stopping
<1>1. CASE Start \/ Stop \/ JoinAcceptor \/ JoinWorkers \/ AcceptCheck
    BY <1>1 DEF Start, Stop, JoinAcceptor, JoinWorkers, AcceptCheck
<1>2. CASE CreatePipe
    <2>1. UNCHANGED <<nextConnection, worker>> /\ acceptor = "create"
        BY <1>2 DEF CreatePipe
    <2>2. CASE acceptor' = "connect" /\ DOMAIN pipe' = DOMAIN pipe \cup {nextConnection}
        BY <2>1, <2>2
    <2>3. CASE acceptor' = "check" /\ UNCHANGED pipe
        BY <2>1, <2>3
    <2> QED  BY <1>2, <2>2, <2>3 DEF CreatePipe
<1>3. CASE ConnectPipe
    BY <1>3 DEF ConnectPipe, Without
<1>4. CASE AcceptRecheck
    BY <1>4 DEF AcceptRecheck, Without
<1>5. CASE OpenConnection
    <2>1. nextConnection' = nextConnection + 1
        BY <1>5, EntriesMove DEF OpenConnection
    <2>2. InHand = {nextConnection} /\ InHand' = {nextConnection}
        BY <1>5, <2>1 DEF OpenConnection
    <2>3. UNCHANGED <<worker, pipe>> /\ acceptor' = "spawn"
        BY <1>5 DEF OpenConnection
    <2>4. RunningWorkers' = RunningWorkers
        BY <2>3
    <2> HIDE DEF InHand, RunningWorkers
    <2> QED  BY <2>1, <2>2, <2>3, <2>4
<1>6. CASE SpawnWorker
    <2> DEFINE c == nextConnection - 1
    <2>1. /\ UNCHANGED <<nextConnection, pipe>>
          /\ acceptor = "spawn" /\ acceptor' = "check"
          /\ worker' = [d \in DOMAIN worker \cup {c} |->
                IF d = c THEN [pc |-> "poll", pending |-> << >>] ELSE worker[d]]
        BY <1>6 DEF SpawnWorker
    <2>2. c \in 1..(nextConnection - 1) /\ c \notin DOMAIN worker
        BY <2>1
    <2>3. RunningWorkers' = RunningWorkers \cup {c}
        BY <2>1, <2>2
    <2>4. InHand = {c} /\ InHand' = {}
        BY <2>1
    <2>5. DOMAIN worker' = DOMAIN worker \cup {c}
        BY <2>1
    <2> HIDE DEF InHand, RunningWorkers
    <2> QED  BY <2>1, <2>2, <2>3, <2>4, <2>5
<1>7. CASE WakeAcceptor \/ ClientConnects
    BY <1>7 DEF WakeAcceptor, ClientConnects, Offered
<1>8. ASSUME NEW c \in Connection, NEW f \in SentFrames, ClientSends(c, f)
      PROVE  PipesInOrder'
    BY <1>8 DEF ClientSends
<1>9. ASSUME NEW c \in Connection, ClientCloses(c) PROVE PipesInOrder'
    BY <1>9 DEF ClientCloses
<1>10. ASSUME NEW c \in Connection, PollPipe(c) PROVE PipesInOrder'
    <2>1. /\ UNCHANGED <<nextConnection, acceptor>> /\ DOMAIN pipe' = DOMAIN pipe
          /\ c \in DOMAIN worker /\ ~Done(c)
          /\ DOMAIN worker' = DOMAIN worker /\ ~Done(c)'
          /\ \A d \in DOMAIN worker \ {c} : worker'[d] = worker[d]
        BY <1>10 DEF PollPipe, Goto, At, WorkerTypes
    <2>2. RunningWorkers' = RunningWorkers
        BY <2>1
    <2> QED  BY <2>1, <2>2
<1>11. ASSUME NEW c \in Connection, ApplyFrame(c) PROVE PipesInOrder'
    <2>1. UNCHANGED nextConnection
        BY <1>11, EntriesMove DEF ApplyFrame
    <2>2. After(c, Head(worker[c].pending)) # "done"
        BY DEF After
    <2> QED  BY <1>11, <2>1, <2>2 DEF ApplyFrame, At, WorkerTypes
<1>12. ASSUME NEW c \in Connection, FailProtocol(c) \/ LeaveLoop(c) \/ CloseConnection(c)
       PROVE  PipesInOrder'
    <2>1. UNCHANGED <<nextConnection, acceptor, pipe>>
        BY <1>12, EntriesMove DEF FailProtocol, LeaveLoop, CloseConnection
    <2>2. /\ c \in DOMAIN worker /\ ~Done(c)
          /\ \E pc \in {"close", "hangup"} : worker' = [worker EXCEPT ![c].pc = pc]
        BY <1>12 DEF FailProtocol, LeaveLoop, CloseConnection, Goto, At
    <2> QED  BY <2>1, <2>2 DEF WorkerTypes
<1>13. ASSUME NEW c \in Connection, Hangup(c) PROVE PipesInOrder'
    BY <1>13 DEF Hangup, Without, At, WorkerTypes
<1>14. CASE Elsewhere
    BY <1>14, EntriesMove DEF Elsewhere
<1>15. CASE UNCHANGED vars
    BY <1>15 DEF vars
<1> QED  BY <1>1, <1>2, <1>3, <1>4, <1>5, <1>6, <1>7, <1>8, <1>9, <1>10, <1>11, <1>12,
            <1>13, <1>14, <1>15 DEF Next, AcceptorStep, WorkerStep, StopperStep

LEMMA StopPreserved == ASSUME IInv, [Next]_vars PROVE StopInOrder'
<1> USE ServerAssumption
        DEF IInv, Types, ThreadTypes, StopInOrder, Done, state, server, stopping
<1>1. CASE Start \/ Stop \/ AcceptCheck
    BY <1>1 DEF Start, Stop, AcceptCheck
<1>2. CASE JoinAcceptor \/ JoinWorkers
    BY <1>2 DEF JoinAcceptor, JoinWorkers
<1>3. CASE WakeAcceptor
    BY <1>3 DEF WakeAcceptor
<1>4. CASE CreatePipe \/ ConnectPipe \/ AcceptRecheck \/ OpenConnection
    BY <1>4 DEF CreatePipe, ConnectPipe, AcceptRecheck, OpenConnection
<1>5. CASE SpawnWorker
    BY <1>5 DEF SpawnWorker, StillHeld
<1>6. ASSUME NEW c \in Connection,
             ClientCloses(c) \/ \E f \in SentFrames : ClientSends(c, f)
      PROVE  StopInOrder'
    BY <1>6, ClientsTouch
<1>7. ASSUME NEW c \in Connection, WorkerStep(c) PROVE StopInOrder'
    <2>1. /\ UNCHANGED <<running, acceptor, held, stopper, attempts>>
          /\ DOMAIN worker' = DOMAIN worker
          /\ c \in DOMAIN worker /\ ~Done(c)
          /\ \A d \in DOMAIN worker \ {c} : worker'[d] = worker[d]
        BY <1>7 DEF WorkerStep, PollPipe, ApplyFrame, FailProtocol, LeaveLoop,
                    CloseConnection, Hangup, Goto, At, WorkerTypes
    <2> QED  BY <2>1
<1>8. CASE ClientConnects
    BY <1>8 DEF ClientConnects
<1>9. CASE Elsewhere \/ UNCHANGED vars
    BY <1>9 DEF Elsewhere, vars
<1> QED  BY <1>1, <1>2, <1>3, <1>4, <1>5, <1>6, <1>7, <1>8, <1>9
         DEF Next, AcceptorStep, StopperStep

\* An entry is taken out by its own worker or by the tick; a worker that
\* forgets its connection has taken its entry out before, or the server stops.
LEMMA EntriesPreserved ==
    ASSUME IInv, [Next]_vars PROVE NoEntryYet' /\ EveryEntryIsKept'
<1> USE DEF IInv, Types, ThreadTypes, EveryEntryIsKept, NoEntryYet, state, server,
            stopping
<1> USE DEF State!Live
<1>1. CASE Start
    BY <1>1 DEF Start
<1>2. CASE AcceptCheck \/ CreatePipe \/ ConnectPipe \/ AcceptRecheck
    BY <1>2 DEF AcceptCheck, CreatePipe, ConnectPipe, AcceptRecheck
<1>3. CASE OpenConnection
    <2>1. /\ State!Live' = State!Live \cup {nextConnection}
          /\ nextConnection' = nextConnection + 1
        BY <1>3, EntriesMove DEF OpenConnection
    <2>2. acceptor = "open" /\ acceptor' = "spawn" /\ UNCHANGED <<running, worker>>
        BY <1>3 DEF OpenConnection
    <2> QED  BY <2>1, <2>2 DEF PipesInOrder
<1>4. CASE SpawnWorker
    BY <1>4 DEF SpawnWorker, PipesInOrder
<1>5. CASE Stop \/ StopperStep \/ ClientConnects
    BY <1>5 DEF Stop, StopperStep, WakeAcceptor, JoinAcceptor, JoinWorkers,
                ClientConnects
<1>6. ASSUME NEW c \in Connection,
             ClientCloses(c) \/ \E f \in SentFrames : ClientSends(c, f)
      PROVE  NoEntryYet' /\ EveryEntryIsKept'
    BY <1>6, ClientsTouch
<1>7. ASSUME NEW c \in Connection, WorkerStep(c)
      PROVE  NoEntryYet' /\ EveryEntryIsKept'
    <2> DEFINE Keeps ==
            \/ worker'[c].pc \in {"poll", "apply", "fail", "leave", "close"}
            \/ c \notin State!Live'
            \/ ~running
    <2>1. /\ UNCHANGED <<running, acceptor>>
          /\ DOMAIN worker' = DOMAIN worker /\ c \in DOMAIN worker
          /\ \A d \in DOMAIN worker \ {c} : worker'[d] = worker[d]
        BY <1>7 DEF WorkerStep, PollPipe, ApplyFrame, FailProtocol, LeaveLoop,
                    CloseConnection, Hangup, Goto, At, WorkerTypes
    <2>2. UNCHANGED nextConnection /\ State!Live' \subseteq State!Live
        BY <1>7, EntriesMove DEF WorkerStep, PollPipe, ApplyFrame, FailProtocol,
                    LeaveLoop, CloseConnection, Hangup
    <2>3. PollPipe(c) => Keeps
        BY DEF PollPipe, Goto, At, WorkerTypes
    <2>4. LeaveLoop(c) => Keeps
        BY DEF LeaveLoop, Goto, At, WorkerTypes
    <2>5. FailProtocol(c) \/ CloseConnection(c) => Keeps
        BY EntriesMove DEF FailProtocol, CloseConnection
    <2>6. ASSUME ApplyFrame(c) PROVE Keeps
        <3> DEFINE frame == Head(worker[c].pending)
        <3>1. worker'[c].pc = After(c, frame)
            BY <2>6 DEF ApplyFrame, At, WorkerTypes
        <3>2. CASE After(c, frame) \in {"poll", "apply", "fail"}
            BY <3>1, <3>2
        <3>3. CASE After(c, frame) \notin {"poll", "apply", "fail"}
            <4>1. Accepted(c, frame) /\ frame.kind = "goodbye"
                BY <3>3 DEF After
            <4>2. Received(c, frame)
                BY <2>6, <4>1 DEF ApplyFrame
            <4>3. State!GoodbyeReceived(c)
                BY <4>1, <4>2 DEF Received
            <4> QED  BY <4>3 DEF State!GoodbyeReceived, State!Erase
        <3> QED  BY <3>2, <3>3
    <2>7. Hangup(c) => Keeps
        BY <2>1, <2>2 DEF Hangup, At, PipesInOrder, InHand
    <2> HIDE DEF Keeps
    <2>8. Keeps
        BY <1>7, <2>3, <2>4, <2>5, <2>6, <2>7 DEF WorkerStep
    <2> QED  BY <2>1, <2>2, <2>8 DEF Keeps
<1>8. CASE Elsewhere
    BY <1>8, EntriesMove DEF Elsewhere
<1>9. CASE UNCHANGED vars
    BY <1>9 DEF vars
<1> QED  BY <1>1, <1>2, <1>3, <1>4, <1>5, <1>6, <1>7, <1>8, <1>9
         DEF Next, AcceptorStep

LEMMA InvariantHolds == Spec => []IInv
<1>1. IInv /\ [Next]_vars => IInv'
    BY TypesPreserved, EntriesTyped, PipesPreserved, StopPreserved,
       EntriesPreserved DEF IInv
<1> QED  BY <1>1, InitIInv, PTL DEF Spec

-----------------------------------------------------------------------------
(***************************************************************************)
(* Theorems                                                                *)
(***************************************************************************)
\* The fields and program counters keep their types, and a running worker has
\* its pipe instance.
THEOREM TypeCorrect == Spec => []TypeOK
<1>1. IInv => TypeOK
    BY DEF IInv, Types, ThreadTypes, PipeTypes, WorkerTypes, PipesInOrder,
           StopInOrder, TypeOK, RunningWorkers, Done
<1> QED  BY <1>1, InvariantHolds, PTL

\* No order of refused frames, expiries and broken pipes leaves an entry that
\* no worker will take out (process_connection).
THEOREM EntriesAreKept == Spec => []EveryEntryIsKept
<1>1. IInv => EveryEntryIsKept
    BY DEF IInv
<1> QED  BY <1>1, InvariantHolds, PTL

\* When stop returns the accept thread and every worker have ended and no
\* pipe instance is left, whenever stop came.
THEOREM StopLeavesNothing == Spec => []NothingOutlivesStop
<1>1. IInv => NothingOutlivesStop
    BY DEF IInv, StopInOrder, PipesInOrder, InHand, RunningWorkers,
           NothingOutlivesStop
<1> QED  BY <1>1, InvariantHolds, PTL

\* Between them the threads of the server make calls of PrivacyState only.
THEOREM ServesPrivacyState == Spec => Privacy!Spec
<1>1. Init => Privacy!Init
    BY DEF Init, State!Init, Privacy!Init
<1>2. IInv /\ [Next]_vars => [Privacy!Next]_(Privacy!vars)
    BY ServerSteps DEF IInv, state, Privacy!vars
<1> QED  BY <1>1, <1>2, InvariantHolds, PTL DEF Spec, Privacy!Spec

\* So PrivacyState's promises hold of the output under the server: one
\* connection per identity, one loss per connection, no uncovering without a
\* word, no loss without covering.
THEOREM PromisesCarryOver ==
    Spec => /\ []Privacy!UniqueClient
            /\ []Privacy!LostAtMostOnce
            /\ Privacy!UncoverNeedsWord
            /\ Privacy!LossCovers
<1>1. Privacy!Spec => [](Privacy!UniqueClient /\ Privacy!ReportIsSequenced)
    BY PrivacyAssumption, Privacy!Identity
<1>2. Privacy!Spec => []Privacy!LostAtMostOnce
    BY PrivacyAssumption, Privacy!LostOnce
<1>3. Privacy!Spec => Privacy!UncoverNeedsWord
    BY PrivacyAssumption, Privacy!UncoverOnlyOnWord
<1>4. Privacy!Spec => Privacy!LossCovers
    BY PrivacyAssumption, Privacy!LossAlwaysCovers
<1> QED  BY <1>1, <1>2, <1>3, <1>4, ServesPrivacyState, PTL

\* Connections that are written off while the guard is on cover the output.
LEMMA LossShows ==
    ASSUME State!TypeOK, NEW cs \in SUBSET State!Live, State!RecordFailures(cs),
           State!Erase(cs), UNCHANGED enabled, enabled,
           State!Live \ State!Live' # {}
    PROVE  State!Mode' = "Disconnected"
<1>1. Privacy!RecordFailures(cs) /\ Privacy!Erase(cs)
    BY SameCount DEF State!RecordFailures, Privacy!RecordFailures, State!Reported,
           Privacy!Reported, State!Erase, Privacy!Erase, State!Live, Privacy!Live
<1>2. State!Live = Privacy!Live /\ State!Live' = Privacy!Live'
    BY DEF State!Live, Privacy!Live
<1>3. Privacy!Mode' = "Disconnected"
    BY <1>1, <1>2, PrivacyAssumption, SameTypes, Privacy!LossShows
<1> QED  BY <1>3 DEF State!Mode, Privacy!Mode, State!Live, Privacy!Live,
            State!Pending, Privacy!Pending, State!Sensitive, Privacy!Sensitive

\* The entry of c goes in this step: it was written off, or c said GOODBYE.
LEMMA LossStep ==
    ASSUME IInv, [Next]_vars, NEW c \in State!Live, c \notin State!Live', enabled
    PROVE  \/ State!Mode' = "Disconnected"
           \/ At(c, "apply") /\ Head(worker[c].pending).kind = "goodbye"
<1> USE DEF IInv
<1>1. ASSUME NEW d, FailConnection(d) PROVE State!Mode' = "Disconnected"
    <2>1. d \in State!Live /\ State!ConnectionFailed(d)
        BY <1>1 DEF FailConnection, state, State!Live
    <2> QED  BY <2>1, LossShows DEF State!ConnectionFailed
<1>2. CASE State!SomeTick
    <2>1. PICK lag \in State!Lag : State!Tick(lag)
        BY <1>2 DEF State!SomeTick
    <2>2. State!Expired(lag) \in SUBSET State!Live
        BY DEF State!Expired
    <2> QED  BY <2>1, <2>2, LossShows DEF State!Tick
<1>3. ~State!Elapse
    BY DEF State!Elapse, State!Live
<1>4. ~UNCHANGED state /\ ~UNCHANGED vars
    BY DEF state, vars, State!Live
<1>5. \A lag : ~State!ConnectionOpened(lag)
    BY EntriesMove
<1>6. ASSUME NEW d \in Connection, ApplyFrame(d)
      PROVE  At(c, "apply") /\ Head(worker[c].pending).kind = "goodbye"
    <2>1. Received(d, Head(worker[d].pending)) /\ At(d, "apply")
        BY <1>4, <1>6 DEF ApplyFrame
    <2> QED  BY <2>1, EntriesMove
<1>7. ASSUME NEW d \in Connection, WorkerStep(d)
      PROVE  \/ State!Mode' = "Disconnected"
             \/ At(c, "apply") /\ Head(worker[c].pending).kind = "goodbye"
    BY <1>1, <1>4, <1>6, <1>7 DEF WorkerStep, PollPipe, FailProtocol, LeaveLoop,
                                  CloseConnection, Hangup
<1>8. ~(Start \/ AcceptorStep)
    BY <1>4, <1>5 DEF Start, AcceptorStep, AcceptCheck, CreatePipe, ConnectPipe,
                      AcceptRecheck, OpenConnection, SpawnWorker
<1>9. ~(Stop \/ StopperStep \/ ClientConnects)
    BY <1>4 DEF Stop, StopperStep, WakeAcceptor, JoinAcceptor, JoinWorkers,
                ClientConnects
<1>10. \A d \in Connection : ~ClientCloses(d) /\ \A f \in SentFrames : ~ClientSends(d, f)
    BY <1>4, ClientsTouch
<1>11. CASE Elsewhere
    BY <1>2, <1>3, <1>11 DEF Elsewhere
<1> QED  BY <1>4, <1>7, <1>8, <1>9, <1>10, <1>11 DEF Next

\* A connection that goes without a GOODBYE while the guard is on covers the
\* output in the same step, whichever thread takes it out.
THEOREM EveryLossIsRecorded == Spec => LossIsRecorded
<1> DEFINE Recorded ==
        \A c \in State!Live \ State!Live' :
          running /\ enabled
            => \/ State!Mode' = "Disconnected"
               \/ At(c, "apply") /\ Head(worker[c].pending).kind = "goodbye"
<1>1. IInv /\ [Next]_vars => [Recorded]_vars
    BY LossStep
<1> QED  BY <1>1, InvariantHolds, PTL DEF Spec, LossIsRecorded
=============================================================================
