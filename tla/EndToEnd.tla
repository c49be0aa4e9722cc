------------------------------ MODULE EndToEnd ------------------------------
(***************************************************************************)
(* One VS Code window and the plug-in, joined by the pipe: the actions of  *)
(* PipeClient on one side, those of PrivacyState on the other, and between *)
(* them a worker for each connection that applies the frames in the order  *)
(* they were written (PipeServer models the workers' inner steps).         *)
(***************************************************************************)
EXTENDS PipeClient, Integers

CONSTANTS
    Window,             \* #clientId
    Anonymous, LivenessTimeout, MaxLag,
    MaxConnections      \* bound: connections between two starts of OBS

ASSUME PrivacyAssumption ==
    /\ Window # Anonymous
    /\ LivenessTimeout \in Nat /\ MaxLag \in Nat /\ MaxConnections \in Nat

VARIABLES
    enabled, clients, disconnected, latched, nextConnection,  \* PrivacyState
    conn,       \* the connection id of each socket, Waiting or Over
    read        \* how many of its frames the worker has applied

state == <<enabled, clients, disconnected, latched, nextConnection>>
plugin == <<state, conn, read>>
allVars == <<vars, plugin>>

Plugin == INSTANCE PrivacyState WITH ClientId <- {Window}

Waiting == 0    \* no worker has taken the connection up yet
Over == -1      \* no worker will read from it any more
Served(s) == conn[s] > 0
Unread(s) == SubSeq(wire[s], read[s] + 1, Len(wire[s]))

-----------------------------------------------------------------------------
(***************************************************************************)
(* The plug-in                                                             *)
(***************************************************************************)
\* The accept thread may be later than the client's "connect" event, even
\* later than its close.
Accept(s) ==
    /\ obs /\ conn[s] = Waiting
    /\ phase[s] \in {"connecting", "open", "ending", "closing"}
    /\ Plugin!ConnectionOpened(0)
    /\ conn' = [conn EXCEPT ![s] = nextConnection]
    /\ UNCHANGED <<vars, read>>

Takes(c, frame) ==
    CASE frame.type = "HELLO" -> Plugin!HelloAccepted(c, Window)
      [] frame.type = "STATE" -> Plugin!StateAccepted(c, frame.sequence)
      [] frame.type = "GOODBYE" -> Plugin!GoodbyeAccepted(c)

Told(c, frame) ==
    \/ frame.type = "HELLO" /\ Plugin!HelloReceived(c, Window, 0)
    \/ /\ frame.type = "STATE"
       /\ Plugin!StateReceived(c, frame.sequence, frame.status, 0)
    \/ frame.type = "GOODBYE" /\ Plugin!GoodbyeReceived(c)

Fail(c) == IF c \in Plugin!Live THEN Plugin!ConnectionFailed(c) ELSE UNCHANGED state

\* The worker ends; what was not read is dropped.
HangUp(s) ==
    /\ conn' = [conn EXCEPT ![s] = Over]
    /\ read' = [read EXCEPT ![s] = 0]
    /\ phase' = [phase EXCEPT ![s] = IF @ = "open" THEN "broken"
                                     ELSE IF @ = "ending" THEN "closing" ELSE @]

ApplyFrame(s) ==
    LET frame == wire[s][read[s] + 1] IN
    /\ Served(s) /\ Unread(s) # << >>
    /\ IF Takes(conn[s], frame)
       THEN /\ Told(conn[s], frame)
            /\ IF frame = Goodbye THEN HangUp(s)
               ELSE read' = [read EXCEPT ![s] = @ + 1] /\ UNCHANGED <<conn, phase>>
       ELSE Fail(conn[s]) /\ HangUp(s)
    /\ UNCHANGED <<client, wire, editors, server>>

\* The pipe is broken and empty: connection_closed.
ConnectionClosed(s) ==
    /\ Served(s) /\ Unread(s) = << >>
    /\ phase[s] \in {"closing", "unused"}
    /\ Fail(conn[s])
    /\ HangUp(s)
    /\ UNCHANGED <<client, wire, editors, server>>

Tick ==
    /\ obs
    /\ Plugin!Expired(0) # {}
    /\ Plugin!Tick(0)
    /\ UNCHANGED <<vars, conn, read>>

\* A window may be silent for any time; the bound leaves it a refresh.
Elapse ==
    /\ obs /\ sequence < MaxSequence
    /\ Plugin!Elapse
    /\ UNCHANGED <<vars, conn, read>>

-----------------------------------------------------------------------------
(***************************************************************************)
(* The steps of both sides                                                 *)
(***************************************************************************)
\* A socket object is used again when its last connection is over.
TriesAgain ==
    /\ ReconnectTimerFires
    /\ IF socket' = socket
       THEN UNCHANGED conn
       ELSE ~Served(socket') /\ conn' = [conn EXCEPT ![socket'] = Waiting]
    /\ UNCHANGED <<state, read>>

Connected(s) == conn[s] # Over /\ HandleConnected(s) /\ UNCHANGED plugin

Refused(s) ==
    /\ ~Served(s) /\ ConnectionRefused(s)
    /\ conn' = [conn EXCEPT ![s] = Over]
    /\ UNCHANGED <<state, read>>

\* The PrivacyState goes with OBS.
ObsGoes ==
    /\ ObsStops
    /\ enabled' = TRUE /\ clients' = << >> /\ disconnected' = 0
    /\ latched' = FALSE /\ nextConnection' = 1
    /\ conn' = [s \in Socket |-> IF phase[s] = "connecting" /\ ~Served(s)
                                 THEN conn[s] ELSE Over]
    /\ read' = [s \in Socket |-> 0]

\* An attempt whose OBS has gone is sure to fail.
WindowStep ==
    \/ TriesAgain
    \/ \E s \in Socket : conn[s] = Over /\ Refused(s)
    \/ /\ \/ \E s \in Socket : \/ HandleClosed(s) \/ SocketShuts(s)
                               \/ RefreshTimerFires(s)
          \/ EvaluateVisibleEditors
       /\ UNCHANGED plugin

PluginStep ==
    \/ \E s \in Socket : Accept(s) \/ ApplyFrame(s) \/ ConnectionClosed(s)
    \/ Tick

Beginning ==
    /\ Init
    /\ Plugin!Init
    /\ conn = [s \in Socket |-> IF s = socket THEN Waiting ELSE Over]
    /\ read = [s \in Socket |-> 0]

Next ==
    \/ WindowStep
    \/ PluginStep
    \/ \E s \in Socket : Connected(s) \/ Refused(s)
    \/ Elapse
    \/ ObsGoes
    \/ /\ Dispose \/ ObsStarts \/ \E status \in Status : EditorsChange(status)
       /\ UNCHANGED plugin

Spec == Beginning /\ [][Next]_allVars

\* Both event loops run what is due, and an OBS that listens takes one of the
\* attempts that keep being made.
FairSpec ==
    /\ Spec
    /\ WF_allVars(WindowStep)
    /\ WF_allVars(PluginStep)
    /\ SF_allVars(\E s \in Socket : Connected(s))

-----------------------------------------------------------------------------
(***************************************************************************)
(* Properties                                                              *)
(***************************************************************************)
\* What a window sends is never what fails it: as long as the plug-in has an
\* entry for the connection, the next frame on it is one it accepts.
NeverRefused ==
    \A s \in Socket :
        conn[s] \in Plugin!Live /\ Unread(s) # << >>
            => Takes(conn[s], Head(Unread(s)))

\* The window has written a newer word, SENSITIVE or GOODBYE.
NewerWordOnItsWay ==
    \E s \in Socket : /\ conn[s] \in Plugin!Live /\ Unread(s) # << >>
                      /\ Last(Unread(s)) \in
                           {Goodbye} \cup [type : {"STATE"}, sequence : Nat,
                                           status : {"sensitive"}]

\* The promise of the whole system: the output is not shown while a sensitive
\* file is visible, but for the time the editor takes to notice it and its
\* word to arrive.
ShownOnlyWhenSafe ==
    Plugin!Mode = "Safe" =>
        visible = "safe" \/ evaluationDue \/ NewerWordOnItsWay

\* pipeClient.ts:63: a window that was told it is connected leaves without a
\* failure, unless it hung.  What the plug-in sees end without a word is a
\* connection whose "connect" event had not come when the client was disposed.
LeavesNoFailure ==
    \A s \in Socket :
        conn[s] \in Plugin!Live /\ Unread(s) = << >> /\ phase[s] \in {"closing", "unused"}
            => disposed /\ wire[s] = << >>

\* README.md:85: when VS Code has gone, the output is covered, and stays so.
ExitCovers == [](disposed => <>[](Plugin!Mode # "Safe"))

\* An OBS that stays up learns what is visible, whatever expired, hung up or
\* was restarted on the way, and takes every failure it recorded back.
ModeBecomesTrue ==
    <>[]obs => <>[](disposed \/ Plugin!Mode =
                      IF visible = "safe" THEN "Safe" ELSE "Sensitive")
=============================================================================
