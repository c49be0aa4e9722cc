----------------------------- MODULE PipeClient -----------------------------
(***************************************************************************)
(* The VS Code side of the pipe: PipeClient of pipeClient.ts and the       *)
(* activate function of extension.ts that feeds it.                        *)
(*                                                                         *)
(* Everything runs on one event loop, so each callback is one step: the    *)
(* socket's "connect" and "close" events, the reconnect and refresh        *)
(* timers, the editor and configuration events, and the disposal of the    *)
(* extension.  What they race with is the socket, whose readyState and     *)
(* events lag behind what OBS does at the other end.  EndToEnd joins these *)
(* actions to the plug-in's.                                               *)
(***************************************************************************)
EXTENDS Naturals, Sequences, SequencesExt

CONSTANTS
    Socket,         \* socket objects; one is taken again after its "close"
    NoSocket,       \* undefined
    MaxEdits,       \* bound: changes of what is visible in VS Code
    MaxStops,       \* bound: times OBS goes down
    MaxSequence     \* bound: no refresh beyond this sequence number

ASSUME SocketAssumption == NoSocket \notin Socket /\ Socket # {}
ASSUME BoundAssumption ==
    MaxEdits \in Nat /\ MaxStops \in Nat /\ MaxSequence \in Nat

VARIABLES
    socket,             \* #socket
    stateRefreshTimer,  \* the sockets whose setInterval is running
    reconnectTimer,     \* #reconnectTimer is running
    sequence,           \* #sequence
    latestStatus,       \* #latestStatus
    disposed,           \* #disposed
    phase,              \* of each socket
    wire,               \* the frames each socket has put on its connection
    visible,            \* what the rules say of the visible editors
    evaluationDue,      \* the event announcing a change is still to come
    obs,                \* OBS listens on the pipe
    edits, stops        \* how often the environment has moved

client == <<socket, stateRefreshTimer, reconnectTimer, sequence, latestStatus,
            disposed>>
editors == <<visible, evaluationDue, edits>>
server == <<obs, stops>>
vars == <<client, phase, wire, editors, server>>

Status == {"safe", "sensitive"}

\* "open" and "broken" have the readyState "open": a socket learns of a
\* hangup later.  "ending" has sent its end, "closing" has its "close" event
\* pending.
Phase == {"unused", "connecting", "open", "broken", "ending", "closing"}
Open(s) == phase[s] \in {"open", "broken"}

Hello == [type |-> "HELLO"]
Goodbye == [type |-> "GOODBYE"]
\* Mistake: the frame goes out without its number.
StateUnnumbered(n, status) == [type |-> "STATE", status |-> status]

State(n, status) == [type |-> "STATE", sequence |-> n, status |-> status]
Frame == {Hello, Goodbye} \cup
         [type : {"STATE"}, sequence : Nat, status : Status]

-----------------------------------------------------------------------------
\* socket.write: what is written to a broken connection is lost.
Written(s, frames) ==
    IF phase[s] = "broken" THEN wire
    ELSE [wire EXCEPT ![s] = @ \o frames]

\* connect: only one socket may be connecting or connected.
Connects ==
    IF disposed \/ socket # NoSocket
    THEN UNCHANGED <<socket, phase, wire>>
    ELSE \E s \in Socket :
           /\ phase[s] = "unused"
           /\ socket' = s
           /\ phase' = [phase EXCEPT ![s] = "connecting"]
           /\ wire' = [wire EXCEPT ![s] = << >>]

Superseded(s) == s # socket \/ disposed

\* The "connect" event: handleConnected.
HandleConnected(s) ==
    /\ phase[s] = "connecting" /\ obs
    /\ IF Superseded(s)
       THEN /\ phase' = [phase EXCEPT ![s] = "closing"]
            /\ UNCHANGED <<sequence, stateRefreshTimer, wire>>
       ELSE /\ phase' = [phase EXCEPT ![s] = "open"]
            /\ sequence' = sequence + 1
            /\ wire' = Written(s, <<Hello, State(sequence + 1, latestStatus)>>)
            /\ stateRefreshTimer' = stateRefreshTimer \cup {s}
    /\ UNCHANGED <<socket, reconnectTimer, latestStatus, disposed, editors,
                   server>>

\* The refresh interval of s fires.
RefreshTimerFires(s) ==
    /\ s \in stateRefreshTimer
    /\ Open(s)
    /\ sequence < MaxSequence
    /\ sequence' = sequence + 1
    /\ wire' = Written(s, <<State(sequence + 1, latestStatus)>>)
    /\ UNCHANGED <<socket, stateRefreshTimer, reconnectTimer, latestStatus,
                   disposed, phase, editors, server>>

\* Mistake: the interval of a closed connection keeps running.
HandleClosedKeepingRefresh(s) ==
    /\ phase[s] = "closing"
    /\ phase' = [phase EXCEPT ![s] = "unused"]
    /\ socket' = IF s = socket THEN NoSocket ELSE socket
    /\ reconnectTimer' = (reconnectTimer \/ (s = socket /\ ~disposed))
    /\ UNCHANGED <<stateRefreshTimer, sequence, latestStatus, disposed, wire,
                   editors, server>>

\* Mistake: a connection that never came up is not tried again.
HandleClosedGivingUp(s) ==
    /\ phase[s] = "closing"
    /\ phase' = [phase EXCEPT ![s] = "unused"]
    /\ IF s = socket
       THEN /\ socket' = NoSocket
            /\ stateRefreshTimer' = stateRefreshTimer \ {s}
            /\ reconnectTimer' = (~disposed /\ s \in stateRefreshTimer)
       ELSE UNCHANGED <<socket, stateRefreshTimer, reconnectTimer>>
    /\ UNCHANGED <<sequence, latestStatus, disposed, wire, editors, server>>

\* The "close" event: handleClosed.  A disposed client's socket is no longer
\* the current one.
HandleClosed(s) ==
    /\ phase[s] = "closing"
    /\ phase' = [phase EXCEPT ![s] = "unused"]
    /\ IF s = socket
       THEN /\ socket' = NoSocket
            /\ stateRefreshTimer' = stateRefreshTimer \ {s}
            /\ reconnectTimer' = ~disposed
       ELSE UNCHANGED <<socket, stateRefreshTimer, reconnectTimer>>
    /\ UNCHANGED <<sequence, latestStatus, disposed, wire, editors, server>>

\* The reconnect timer fires: connect.
ReconnectTimerFires ==
    /\ reconnectTimer
    /\ reconnectTimer' = FALSE
    /\ Connects
    /\ UNCHANGED <<stateRefreshTimer, sequence, latestStatus, disposed, editors,
                   server>>

\* Mistake: a socket that exists is taken for a socket that is open.
PublishUnopened(status) ==
    /\ latestStatus' = status
    /\ IF socket # NoSocket
       THEN /\ sequence' = sequence + 1
            /\ wire' = Written(socket, <<State(sequence + 1, status)>>)
       ELSE UNCHANGED <<sequence, wire>>

\* Mistake: a status nobody can be told is not remembered.
PublishForgetting(status) ==
    IF socket # NoSocket /\ Open(socket)
    THEN /\ latestStatus' = status
         /\ sequence' = sequence + 1
         /\ wire' = Written(socket, <<State(sequence + 1, status)>>)
    ELSE UNCHANGED <<latestStatus, sequence, wire>>

\* publish
Publish(status) ==
    /\ latestStatus' = status
    /\ IF socket # NoSocket /\ Open(socket)
       THEN /\ sequence' = sequence + 1
            /\ wire' = Written(socket, <<State(sequence + 1, status)>>)
       ELSE UNCHANGED <<sequence, wire>>

\* evaluateVisibleEditors, on the event that announces a change.
EvaluateVisibleEditors ==
    /\ evaluationDue
    /\ ~disposed
    /\ evaluationDue' = FALSE
    /\ Publish(visible)
    /\ UNCHANGED <<socket, stateRefreshTimer, reconnectTimer, disposed, phase,
                   visible, edits, server>>

\* Mistake: a connection is dropped without a word.
DisposeSilently ==
    /\ ~disposed
    /\ disposed' = TRUE
    /\ stateRefreshTimer' = {}
    /\ reconnectTimer' = FALSE
    /\ phase' = IF socket = NoSocket THEN phase
                ELSE [phase EXCEPT ![socket] = "closing"]
    /\ socket' = NoSocket
    /\ UNCHANGED <<sequence, latestStatus, wire, editors, server>>

\* dispose
Dispose ==
    /\ ~disposed
    /\ disposed' = TRUE
    /\ stateRefreshTimer' = {}
    /\ reconnectTimer' = FALSE
    /\ IF socket = NoSocket
       THEN UNCHANGED <<phase, wire>>
       ELSE IF Open(socket)
       THEN /\ wire' = Written(socket, <<Goodbye>>)
            /\ phase' = [phase EXCEPT ![socket] =
                           IF @ = "broken" THEN "closing" ELSE "ending"]
       ELSE /\ phase' = [phase EXCEPT ![socket] = "closing"]
            /\ UNCHANGED wire
    /\ socket' = NoSocket
    /\ UNCHANGED <<sequence, latestStatus, editors, server>>

-----------------------------------------------------------------------------
(***************************************************************************)
(* The environment: the socket library, OBS, and the user's editors        *)
(***************************************************************************)
\* An attempt fails while OBS is down, or finds every pipe instance busy.
ConnectionRefused(s) ==
    /\ phase[s] = "connecting"
    /\ phase' = [phase EXCEPT ![s] = "closing"]
    /\ UNCHANGED <<client, wire, editors, server>>

\* OBS goes down with every connection it has.
ObsStops ==
    /\ obs
    /\ stops < MaxStops
    /\ obs' = FALSE
    /\ stops' = stops + 1
    /\ phase' = [s \in Socket |-> IF phase[s] = "open" THEN "broken"
                                  ELSE IF phase[s] = "ending" THEN "closing"
                                  ELSE phase[s]]
    /\ UNCHANGED <<client, wire, editors>>

ObsStarts ==
    /\ ~obs
    /\ obs' = TRUE
    /\ UNCHANGED <<client, phase, wire, editors, stops>>

\* The socket finds out, or has flushed its end.
SocketShuts(s) ==
    /\ phase[s] \in {"broken", "ending"}
    /\ phase' = [phase EXCEPT ![s] = "closing"]
    /\ UNCHANGED <<client, wire, editors, server>>

\* The user shows other files, or edits the rules.
EditorsChange(status) ==
    /\ edits < MaxEdits
    /\ status # visible
    /\ edits' = edits + 1
    /\ visible' = status
    /\ evaluationDue' = TRUE
    /\ UNCHANGED <<client, phase, wire, server>>

-----------------------------------------------------------------------------
\* activate: the first evaluation precedes the first connect.
Init ==
    /\ visible \in Status
    /\ latestStatus = visible
    /\ evaluationDue = FALSE
    /\ socket \in Socket
    /\ phase = [s \in Socket |-> IF s = socket THEN "connecting" ELSE "unused"]
    /\ wire = [s \in Socket |-> << >>]
    /\ stateRefreshTimer = {}
    /\ reconnectTimer = FALSE
    /\ sequence = 0
    /\ disposed = FALSE
    /\ obs \in BOOLEAN
    /\ edits = 0 /\ stops = 0

-----------------------------------------------------------------------------
(***************************************************************************)
(* Properties                                                              *)
(***************************************************************************)
\* The types of the fields.
TypeOK ==
    /\ socket \in Socket \cup {NoSocket}
    /\ stateRefreshTimer \subseteq Socket
    /\ reconnectTimer \in BOOLEAN /\ disposed \in BOOLEAN
    /\ sequence \in Nat
    /\ latestStatus \in Status /\ visible \in Status
    /\ phase \in [Socket -> Phase]
    /\ \A s \in Socket : \A i \in DOMAIN wire[s] : wire[s][i] \in Frame

\* docs/protocol.md: every connection opens with HELLO, closes with GOODBYE
\* if it says goodbye at all, and its STATE sequence numbers increase.  The
\* plug-in drops a client that breaks any of the three, so no order of
\* publishing, refreshing, reconnecting and disposing may.
WellFormedStream ==
    \A s \in Socket : \A i \in DOMAIN wire[s] :
        /\ (wire[s][i] = Hello) <=> (i = 1)
        /\ wire[s][i] = Goodbye => i = Len(wire[s])
        /\ wire[s][i].type = "STATE" =>
             /\ wire[s][i].sequence <= sequence
             /\ \A j \in DOMAIN wire[s] :
                  i < j /\ wire[s][j].type = "STATE"
                    => wire[s][i].sequence < wire[s][j].sequence

\* No interval outlives its connection, no two sockets are wanted at a time,
\* and a client that is not disposed always has a socket to wait for or a
\* reconnect to come, never both.
NeverGivesUp ==
    /\ stateRefreshTimer \subseteq {socket}
    /\ \A s \in Socket : phase[s] \in {"connecting", "open", "broken"} => s = socket
    /\ IF disposed THEN socket = NoSocket /\ ~reconnectTimer
       ELSE (socket # NoSocket) # reconnectTimer

\* A connection whose other end still listens is never left without a
\* GOODBYE: OBS would count a failure and cover the output for good.
LeavesWithGoodbye ==
    [][\A s \in Socket :
         phase[s] = "open" /\ phase'[s] \notin {"open", "broken"}
         => Last(wire'[s]) = Goodbye]_vars
=============================================================================
