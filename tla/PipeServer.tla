----------------------------- MODULE PipeServer -----------------------------
(***************************************************************************)
(* NamedPipeServer (named-pipe-server.cpp) around the PrivacyState it      *)
(* feeds: one accept thread, one worker per connection, the OBS tick, and  *)
(* the thread that unloads the plug-in and stops it all.                   *)
(*                                                                         *)
(* The accept thread offers one pipe instance at a time.  Connection ids   *)
(* are handed out in the order of acceptance, so the instance on offer is  *)
(* known by the id it will get, nextConnection.  A frame is "garbage" when *)
(* parse_frame refuses it, or when it outgrows max_frame_size.             *)
(***************************************************************************)
EXTENDS Integers, FiniteSets, Sequences

CONSTANTS
    ClientId, Anonymous, LivenessTimeout, MaxLag, MaxSequence,
    MaxConnections,     \* bound: clients that ever connect
    SentFrames,         \* bound: the frames clients send
    MaxUnread,          \* bound: frames that wait in one pipe
    MaxMoves,           \* bound: connects and frames of all clients together
    WakeAttempts,       \* attempts of wake_accept_thread
    PromptAcceptor      \* a runnable accept thread moves between attempts

ASSUME PrivacyAssumption ==
    /\ Anonymous \notin ClientId
    /\ LivenessTimeout \in Nat /\ MaxLag \in Nat
    /\ MaxSequence \in Nat /\ MaxConnections \in Nat

ASSUME ServerAssumption ==
    /\ MaxMoves \in Nat
    /\ MaxUnread \in Nat
    /\ WakeAttempts \in Nat \ {0}
    /\ PromptAcceptor \in BOOLEAN

VARIABLES
    enabled, clients, disconnected, latched, nextConnection,  \* PrivacyState
    running,        \* running_
    acceptor,       \* where accept_connections is
    pipe,           \* pipe instance -> client's end, bytes on the way
    worker,         \* where process_connection is, and its complete frames
    held,           \* workers_
    stopper,        \* where stop is
    moves,          \* connects and frames so far
    attempts        \* calls of CreateFileW made by wake_accept_thread

state == <<enabled, clients, disconnected, latched, nextConnection>>
server == <<running, acceptor, held>>
stopping == <<stopper, attempts>>
vars == <<state, server, pipe, moves, worker, stopping>>

State == INSTANCE PrivacyState

Frame == [kind : {"hello"}, id : ClientId]
    \cup [kind : {"state"}, seq : 0..MaxSequence, report : {"safe", "sensitive"}]
    \cup [kind : {"goodbye", "garbage"}]

ASSUME FramesAssumption == SentFrames \subseteq Frame

-----------------------------------------------------------------------------
(***************************************************************************)
(* The clients, as far as the server can tell them                         *)
(***************************************************************************)
Offered == nextConnection \in DOMAIN pipe /\ pipe[nextConnection].end = "listening"

\* A connection counts for four frames.
Moves(n) == moves + n <= MaxMoves /\ moves' = moves + n

ClientConnects ==
    /\ Offered
    /\ nextConnection <= MaxConnections
    /\ Moves(4)
    /\ pipe' = [pipe EXCEPT ![nextConnection].end = "open"]
    /\ UNCHANGED <<state, server, worker, stopping>>

\* A client says nothing after its GOODBYE.
ClientSends(c, frame) ==
    /\ c \in DOMAIN pipe /\ pipe[c].end = "open"
    /\ Len(pipe[c].inbox) < MaxUnread
    /\ Moves(1)
    /\ ~pipe[c].parted
    /\ pipe' = [pipe EXCEPT ![c].inbox = Append(@, frame),
                            ![c].parted = (frame.kind = "goodbye")]
    /\ UNCHANGED <<state, server, worker, stopping>>

ClientCloses(c) ==
    /\ c \in DOMAIN pipe /\ pipe[c].end = "open"
    /\ pipe' = [pipe EXCEPT ![c].end = "shut"]
    /\ UNCHANGED <<state, server, worker, stopping, moves>>

Without(c) == [d \in DOMAIN pipe \ {c} |-> pipe[d]]

-----------------------------------------------------------------------------
(***************************************************************************)
(* start and accept_connections                                            *)
(***************************************************************************)
Start ==
    /\ acceptor = "off"
    /\ running' = TRUE
    /\ acceptor' = "check"
    /\ UNCHANGED <<state, held, pipe, worker, stopping, moves>>

\* while (running_)
AcceptCheck ==
    /\ acceptor = "check"
    /\ acceptor' = IF running THEN "create" ELSE "done"
    /\ UNCHANGED <<state, running, held, pipe, worker, stopping, moves>>

\* CreateNamedPipeW; when it fails the thread sleeps and tries again.
CreatePipe ==
    /\ acceptor = "create"
    /\ \/ /\ acceptor' = "connect"
          /\ pipe' = [c \in DOMAIN pipe \cup {nextConnection} |->
                        IF c = nextConnection
                        THEN [end |-> "listening", inbox |-> << >>,
                              parted |-> FALSE]
                        ELSE pipe[c]]
       \/ acceptor' = "check" /\ UNCHANGED pipe
    /\ UNCHANGED <<state, running, held, worker, stopping, moves>>

\* ConnectNamedPipe blocks until a client has come, and fails when the client
\* has already gone again.
ConnectPipe ==
    /\ acceptor = "connect"
    /\ ~Offered
    /\ \/ acceptor' = "recheck" /\ UNCHANGED pipe
       \/ /\ pipe[nextConnection].end = "shut"
          /\ acceptor' = "check"
          /\ pipe' = Without(nextConnection)
    /\ UNCHANGED <<state, running, held, worker, stopping, moves>>

\* if (!running_)
AcceptRecheck ==
    /\ acceptor = "recheck"
    /\ IF running
       THEN acceptor' = "open" /\ UNCHANGED pipe
       ELSE acceptor' = "done" /\ pipe' = Without(nextConnection)
    /\ UNCHANGED <<state, running, held, worker, stopping, moves>>

OpenConnection ==
    /\ acceptor = "open"
    /\ \E lag \in State!Lag : State!ConnectionOpened(lag)
    /\ acceptor' = "spawn"
    /\ UNCHANGED <<running, held, pipe, worker, stopping, moves>>

Done(c) == worker[c].pc = "done"

\* Mistake: the workers that still run are the ones forgotten.
StillHeldWrongly == {c \in held : Done(c)}

\* remove_completed_workers
StillHeld == {c \in held : ~Done(c)}

SpawnWorker ==
    LET c == nextConnection - 1 IN
    /\ acceptor = "spawn"
    /\ held' = StillHeld \cup {c}
    /\ worker' = [d \in DOMAIN worker \cup {c} |->
                    IF d = c THEN [pc |-> "poll", pending |-> << >>] ELSE worker[d]]
    /\ acceptor' = "check"
    /\ UNCHANGED <<state, running, pipe, stopping, moves>>

-----------------------------------------------------------------------------
(***************************************************************************)
(* process_connection                                                      *)
(***************************************************************************)
Goto(c, pc) == worker' = [worker EXCEPT ![c].pc = pc]
At(c, pc) == c \in DOMAIN worker /\ worker[c].pc = pc

\* One read takes some of the frames that have arrived.  The loop ends when
\* the server stops, or when nothing is left and the client has gone.
PollPipe(c) ==
    /\ At(c, "poll")
    /\ \/ /\ running
          /\ \E n \in 1..Len(pipe[c].inbox) :
               /\ worker' = [worker EXCEPT ![c] =
                    [pc |-> "apply", pending |-> SubSeq(pipe[c].inbox, 1, n)]]
               /\ pipe' = [pipe EXCEPT ![c].inbox = SubSeq(@, n + 1, Len(@))]
       \/ /\ ~running \/ (pipe[c].end = "shut" /\ pipe[c].inbox = << >>)
          /\ Goto(c, "leave")
          /\ UNCHANGED pipe
    /\ UNCHANGED <<state, server, stopping, moves>>

\* Does PrivacyState accept the frame?
Accepted(c, frame) ==
    CASE frame.kind = "hello"   -> State!HelloAccepted(c, frame.id)
      [] frame.kind = "state"   -> State!StateAccepted(c, frame.seq)
      [] frame.kind = "goodbye" -> State!GoodbyeAccepted(c)
      [] frame.kind = "garbage" -> FALSE

Received(c, frame) ==
    \/ frame.kind = "hello" /\ \E lag \in State!Lag : State!HelloReceived(c, frame.id, lag)
    \/ /\ frame.kind = "state"
       /\ \E lag \in State!Lag : State!StateReceived(c, frame.seq, frame.report, lag)
    \/ frame.kind = "goodbye" /\ State!GoodbyeReceived(c)

\* Mistake: a frame that is refused is skipped.
AfterSkipping(c, frame) ==
    IF frame.kind = "goodbye" /\ Accepted(c, frame) THEN "hangup"
    ELSE IF Len(worker[c].pending) > 1 THEN "apply" ELSE "poll"

\* Mistake: a frame that is refused is thrown away with those behind it.
AfterThrowingAway(c, frame) ==
    IF frame.kind = "goodbye" /\ Accepted(c, frame) THEN "hangup"
    ELSE IF Accepted(c, frame) /\ Len(worker[c].pending) > 1 THEN "apply" ELSE "poll"

\* FrameResult: an invalid frame fails the connection, GOODBYE ends it.
After(c, frame) ==
    IF ~Accepted(c, frame) THEN "fail"
    ELSE IF frame.kind = "goodbye" THEN "hangup"
    ELSE IF Len(worker[c].pending) > 1 THEN "apply" ELSE "poll"

\* apply_frame on the next complete frame
ApplyFrame(c) ==
    LET frame == Head(worker[c].pending) IN
    /\ At(c, "apply")
    /\ IF Accepted(c, frame) THEN Received(c, frame) ELSE UNCHANGED state
    /\ worker' = [worker EXCEPT ![c] = [pc |-> After(c, frame), pending |-> Tail(@.pending)]]
    /\ UNCHANGED <<server, pipe, stopping, moves>>

\* Mistake: the entry goes and nobody is told.
FailSilently(c) ==
    /\ clients' = [d \in State!Live \ {c} |-> clients[d]]
    /\ UNCHANGED <<enabled, disconnected, latched, nextConnection>>

\* protocol_error, connection_closed: nothing to do when the entry is gone.
FailConnection(c) == IF c \in State!Live THEN State!ConnectionFailed(c)
                                         ELSE UNCHANGED state

\* fail_protocol: a critical section of its own, after the refusal.
FailProtocol(c) ==
    /\ At(c, "fail")
    /\ FailConnection(c)
    /\ Goto(c, "hangup")
    /\ UNCHANGED <<server, pipe, stopping, moves>>

\* Mistake: a broken pipe is treated like a GOODBYE.
LeaveQuietly(c) ==
    /\ At(c, "leave")
    /\ Goto(c, "hangup")
    /\ UNCHANGED <<state, server, pipe, stopping, moves>>

\* if (state_entry_active && running_)
LeaveLoop(c) ==
    /\ At(c, "leave")
    /\ Goto(c, IF running THEN "close" ELSE "hangup")
    /\ UNCHANGED <<state, server, pipe, stopping, moves>>

CloseConnection(c) ==
    /\ At(c, "close")
    /\ FailConnection(c)
    /\ Goto(c, "hangup")
    /\ UNCHANGED <<server, pipe, stopping, moves>>

\* DisconnectNamedPipe drops what was not read; then the worker is finished.
Hangup(c) ==
    /\ At(c, "hangup")
    /\ pipe' = Without(c)
    /\ worker' = [worker EXCEPT ![c] = [pc |-> "done", pending |-> << >>]]
    /\ UNCHANGED <<state, server, stopping, moves>>

-----------------------------------------------------------------------------
(***************************************************************************)
(* stop                                                                    *)
(***************************************************************************)
Stop ==
    /\ running
    /\ running' = FALSE
    /\ stopper' = "wake"
    /\ UNCHANGED <<state, acceptor, held, pipe, worker, attempts, moves>>

\* Mistake: the accept thread is joined without being woken.
WakeNobody ==
    /\ stopper = "wake"
    /\ stopper' = "join"
    /\ UNCHANGED <<state, server, pipe, worker, attempts, moves>>

\* Mistake: one attempt too many.
WakeOnceMore ==
    /\ stopper = "wake"
    /\ ~Offered
    /\ attempts' = attempts + 1
    /\ stopper' = IF attempts > WakeAttempts THEN "join" ELSE "wake"
    /\ UNCHANGED <<state, server, pipe, worker, moves>>

\* wake_accept_thread: a client of our own that comes and goes, if it finds
\* the pipe on offer, else another attempt 20 ms later.
WakeAcceptor ==
    /\ stopper = "wake"
    /\ IF Offered
       THEN /\ pipe' = [pipe EXCEPT ![nextConnection].end = "shut"]
            /\ stopper' = "join"
            /\ UNCHANGED attempts
       ELSE /\ attempts' = attempts + 1
            /\ PromptAcceptor /\ attempts' = WakeAttempts => acceptor # "create"
            /\ stopper' = IF attempts' = WakeAttempts THEN "join" ELSE "wake"
            /\ UNCHANGED pipe
    /\ UNCHANGED <<state, server, worker, moves>>

\* accept_thread_.join()
JoinAcceptor ==
    /\ stopper = "join"
    /\ acceptor = "done"
    /\ stopper' = "clear"
    /\ UNCHANGED <<state, server, pipe, worker, attempts, moves>>

\* workers_.clear() joins every worker it holds.
JoinWorkers ==
    /\ stopper = "clear"
    /\ \A c \in held : Done(c)
    /\ held' = {}
    /\ stopper' = "stopped"
    /\ UNCHANGED <<state, running, acceptor, pipe, worker, attempts, moves>>

-----------------------------------------------------------------------------

Init ==
    /\ State!Init
    /\ running = FALSE
    /\ acceptor = "off"
    /\ pipe = << >>
    /\ worker = << >>
    /\ held = {}
    /\ moves = 0
    /\ stopper = "idle"
    /\ attempts = 0

AcceptorStep == \/ AcceptCheck \/ CreatePipe \/ ConnectPipe
                \/ AcceptRecheck \/ OpenConnection \/ SpawnWorker

WorkerStep(c) == \/ PollPipe(c) \/ ApplyFrame(c) \/ FailProtocol(c)
                 \/ LeaveLoop(c) \/ CloseConnection(c) \/ Hangup(c)

StopperStep == WakeAcceptor \/ JoinAcceptor \/ JoinWorkers

\* The OBS tick and the clock, outside the server.  The guard stays enabled:
\* the server never asks, and PrivacyState is checked with the switch.
Elsewhere ==
    /\ State!SomeTick \/ State!Elapse
    /\ UNCHANGED <<server, pipe, worker, stopping, moves>>

Connection == 1..MaxConnections

Next ==
    \/ Start \/ AcceptorStep
    \/ \E c \in Connection : WorkerStep(c)
    \/ Stop \/ StopperStep
    \/ ClientConnects
    \/ \E c \in Connection : ClientCloses(c) \/ \E f \in SentFrames : ClientSends(c, f)
    \/ Elsewhere

Spec == Init /\ [][Next]_vars

\* Every thread of the server runs.  Clients and the user may do nothing.
FairSpec ==
    /\ Spec
    /\ WF_vars(AcceptorStep)
    /\ WF_vars(StopperStep)
    /\ \A c \in Connection : WF_vars(WorkerStep(c))

-----------------------------------------------------------------------------
(***************************************************************************)
(* Properties                                                              *)
(***************************************************************************)

\* The program counters and frames, and that a running worker has its pipe.
TypeOK ==
    /\ State!TypeOK
    /\ running \in BOOLEAN
    /\ acceptor \in {"off", "check", "create", "connect", "recheck", "open",
                     "spawn", "done"}
    /\ stopper \in {"idle", "wake", "join", "clear", "stopped"}
    /\ attempts \in 0..WakeAttempts
    /\ \A c \in DOMAIN pipe : /\ pipe[c].end \in {"listening", "open", "shut"}
                              /\ pipe[c].inbox \in Seq(Frame)
    /\ \A c \in DOMAIN worker :
          /\ worker[c].pc \in {"poll", "apply", "fail", "leave", "close",
                               "hangup", "done"}
          /\ worker[c].pending \in Seq(Frame)
          /\ ~Done(c) => c \in DOMAIN pipe

\* While the server runs, every entry of PrivacyState has a worker that will
\* still take it out (or is about to get one): a refused frame, an expiry by
\* the tick and a broken pipe in any order leave no entry behind.
EveryEntryIsKept ==
    running =>
        \A c \in State!Live :
            \/ acceptor = "spawn" /\ c = nextConnection - 1
            \/ /\ c \in DOMAIN worker
               /\ worker[c].pc \in {"poll", "apply", "fail", "leave", "close"}

\* A worker that still runs is held, so that stop will wait for it: when stop
\* returns no thread is left that could touch PrivacyState or a pipe.
NothingOutlivesStop ==
    stopper = "stopped" =>
        /\ acceptor = "done"
        /\ \A c \in DOMAIN worker : Done(c)
        /\ DOMAIN pipe = {}

\* A worker that hung up on a connection that had not said GOODBYE has made
\* the loss count; so after the first bad frame, or a close, the output is
\* never safe on account of that connection having gone.
LossIsRecorded ==
    [][ \A c \in State!Live \ State!Live' :
          running /\ enabled
            => \/ State!Mode' = "Disconnected"
               \/ At(c, "apply") /\ Head(worker[c].pending).kind = "goodbye" ]_vars

Says(c, report) ==
    /\ c \in DOMAIN pipe
    /\ \E i \in DOMAIN pipe[c].inbox :
         pipe[c].inbox[i].kind = "state" /\ pipe[c].inbox[i].report = report

\* A SENSITIVE on its way from a live connection reaches the output: the mode
\* does not stay Safe, whatever else is in the pipe before it.
SensitiveArrives ==
    \A c \in Connection :
        c \in State!Live /\ Says(c, "sensitive")
            ~> State!Mode # "Safe" \/ ~running

\* A client that has closed its pipe, with or without GOODBYE, is taken out.
HangupIsNoticed ==
    \A c \in Connection :
        c \in State!Live /\ c \in DOMAIN pipe /\ pipe[c].end = "shut"
            ~> c \notin State!Live \/ ~running

\* stop returns: the accept thread leaves ConnectNamedPipe and every worker
\* its loop (the comments in stop and wake_accept_thread).
StopReturns == stopper = "wake" ~> stopper = "stopped"
=============================================================================
