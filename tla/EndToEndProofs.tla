--------------------------- MODULE EndToEndProofs ---------------------------
(***************************************************************************)
(* Proofs about EndToEnd.  First the window alone: its types, that it      *)
(* always has exactly one way on, and that it leaves an open connection    *)
(* with a word.  Then the window and the plug-in together: what the window *)
(* sends is well formed and never refused, what the plug-in makes of it    *)
(* covers the output, and the window leaves no failure behind.             *)
(***************************************************************************)
EXTENDS EndToEnd, SequenceTheorems, TLAPS

\* NeverGivesUp is inductive once the timers are known to be of sockets; the
\* streams are needed as sequences so that a GOODBYE can be found at the end.
WindowTypes ==
    /\ socket \in Socket \cup {NoSocket}
    /\ stateRefreshTimer \in SUBSET Socket
    /\ reconnectTimer \in BOOLEAN /\ disposed \in BOOLEAN
    /\ sequence \in Nat
    /\ latestStatus \in Status /\ visible \in Status
    /\ phase \in [Socket -> Phase]
    /\ wire \in [Socket -> Seq(Frame)]

WindowInv == WindowTypes /\ NeverGivesUp

\* What a step of the plug-in does to the window: a connection may break.
PluginActs ==
    /\ \/ UNCHANGED phase
       \/ \E s \in Socket :
            phase' = [phase EXCEPT ![s] = IF @ = "open" THEN "broken"
                                          ELSE IF @ = "ending" THEN "closing" ELSE @]
    /\ UNCHANGED <<client, wire, editors, server>>

\* Every step is a step of the window, of its socket, or of the plug-in.
LEMMA StepsOfEndToEnd ==
    ASSUME [Next]_allVars
    PROVE  \/ \E s \in Socket : \/ HandleConnected(s) \/ RefreshTimerFires(s)
                                \/ HandleClosed(s) \/ SocketShuts(s)
                                \/ ConnectionRefused(s)
           \/ ReconnectTimerFires \/ EvaluateVisibleEditors \/ Dispose
           \/ \E status \in Status : EditorsChange(status)
           \/ ObsStops \/ ObsStarts \/ PluginActs
<1>1. ASSUME NEW s \in Socket, Accept(s) \/ ApplyFrame(s) \/ ConnectionClosed(s)
      PROVE  PluginActs
    BY <1>1 DEF Accept, ApplyFrame, ConnectionClosed, HangUp, PluginActs, vars
<1>2. Tick \/ Elapse \/ UNCHANGED allVars => PluginActs
    BY DEF Tick, Elapse, allVars, vars, PluginActs
<1> QED  BY <1>1, <1>2 DEF Next, WindowStep, PluginStep, TriesAgain, Connected,
                           Refused, ObsGoes

LEMMA Words ==
    /\ Hello \in Frame /\ Goodbye \in Frame
    /\ \A n \in Nat, status \in Status : State(n, status) \in Frame
BY DEF Hello, Goodbye, State, Frame

LEMMA WrittenType ==
    ASSUME WindowTypes, NEW s \in Socket, NEW frames \in Seq(Frame)
    PROVE  Written(s, frames) \in [Socket -> Seq(Frame)]
BY DEF WindowTypes, Written

LEMMA TypesPreserved ==
    ASSUME WindowTypes, [Next]_allVars PROVE WindowTypes'
<1> USE DEF WindowTypes, client, editors, server, Phase
<1>1. ASSUME NEW s \in Socket, HandleConnected(s) PROVE WindowTypes'
    <2>1. <<Hello, State(sequence + 1, latestStatus)>> \in Seq(Frame)
        BY Words
    <2>2. Written(s, <<Hello, State(sequence + 1, latestStatus)>>)
            \in [Socket -> Seq(Frame)]
        BY <2>1, WrittenType
    <2>3. wire' \in [Socket -> Seq(Frame)]
        BY <1>1, <2>2 DEF HandleConnected
    <2>4. /\ phase' \in [Socket -> Phase]
          /\ stateRefreshTimer' \in SUBSET Socket
        <3>1. CASE Superseded(s)
            BY <1>1, <3>1 DEF HandleConnected
        <3>2. CASE ~Superseded(s)
            BY <1>1, <3>2 DEF HandleConnected
        <3> QED  BY <3>1, <3>2
    <2>5. sequence' = sequence \/ sequence' = sequence + 1
        BY <1>1 DEF HandleConnected
    <2>6. UNCHANGED <<socket, reconnectTimer, disposed, latestStatus, visible>>
        BY <1>1 DEF HandleConnected
    <2> QED  BY <2>3, <2>4, <2>5, <2>6
<1>2. ASSUME NEW s \in Socket, RefreshTimerFires(s) PROVE WindowTypes'
    <2>1. <<State(sequence + 1, latestStatus)>> \in Seq(Frame)
        BY Words
    <2>2. Written(s, <<State(sequence + 1, latestStatus)>>)
            \in [Socket -> Seq(Frame)]
        BY <2>1, WrittenType
    <2>3. wire' \in [Socket -> Seq(Frame)]
        BY <1>2, <2>2 DEF RefreshTimerFires
    <2>4. sequence' = sequence + 1
        BY <1>2 DEF RefreshTimerFires
    <2>5. UNCHANGED <<socket, stateRefreshTimer, reconnectTimer, disposed,
                      latestStatus, visible, phase>>
        BY <1>2 DEF RefreshTimerFires
    <2> QED  BY <2>3, <2>4, <2>5
<1>3. ASSUME NEW s \in Socket,
             HandleClosed(s) \/ SocketShuts(s) \/ ConnectionRefused(s)
      PROVE  WindowTypes'
    BY <1>3 DEF HandleClosed, SocketShuts, ConnectionRefused
<1>4. CASE ReconnectTimerFires
    <2>1. << >> \in Seq(Frame)
        OBVIOUS
    <2>2. \A s \in Socket : [wire EXCEPT ![s] = << >>] \in [Socket -> Seq(Frame)]
        BY <2>1
    <2> QED  BY <1>4, <2>2 DEF ReconnectTimerFires, Connects
<1>5. CASE EvaluateVisibleEditors
    <2>1. <<State(sequence + 1, visible)>> \in Seq(Frame)
        BY Words
    <2>2. socket # NoSocket => Written(socket, <<State(sequence + 1, visible)>>)
                                 \in [Socket -> Seq(Frame)]
        BY <2>1, WrittenType
    <2> QED  BY <1>5, <2>2 DEF EvaluateVisibleEditors, Publish
<1>6. CASE Dispose
    <2>1. <<Goodbye>> \in Seq(Frame)
        BY Words
    <2>2. socket # NoSocket => Written(socket, <<Goodbye>>) \in [Socket -> Seq(Frame)]
        BY <2>1, WrittenType
    <2> QED  BY <1>6, <2>2 DEF Dispose
<1>7. ASSUME NEW status \in Status, EditorsChange(status) PROVE WindowTypes'
    BY <1>7 DEF EditorsChange
<1>8. CASE ObsStops \/ ObsStarts
    BY <1>8 DEF ObsStops, ObsStarts
<1>9. CASE PluginActs
    BY <1>9 DEF PluginActs
<1> QED  BY <1>1, <1>2, <1>3, <1>4, <1>5, <1>6, <1>7, <1>8, <1>9, StepsOfEndToEnd

LEMMA WayOnPreserved ==
    ASSUME WindowInv, [Next]_allVars PROVE NeverGivesUp'
<1> USE SocketAssumption
        DEF WindowInv, WindowTypes, NeverGivesUp, client, editors, server, Phase
<1>1. ASSUME NEW s \in Socket, HandleConnected(s) PROVE NeverGivesUp'
    BY <1>1 DEF HandleConnected, Superseded
<1>2. ASSUME NEW s \in Socket, RefreshTimerFires(s) PROVE NeverGivesUp'
    BY <1>2 DEF RefreshTimerFires
<1>3. ASSUME NEW s \in Socket, HandleClosed(s) PROVE NeverGivesUp'
    BY <1>3 DEF HandleClosed
<1>4. ASSUME NEW s \in Socket, SocketShuts(s) \/ ConnectionRefused(s)
      PROVE  NeverGivesUp'
    BY <1>4 DEF SocketShuts, ConnectionRefused
<1>5. CASE ReconnectTimerFires
    <2>1. /\ reconnectTimer /\ ~reconnectTimer' /\ Connects
          /\ UNCHANGED <<stateRefreshTimer, disposed>>
        BY <1>5 DEF ReconnectTimerFires
    <2>2. ~disposed /\ socket = NoSocket
        BY <2>1
    <2>3. PICK s \in Socket : /\ socket' = s
                              /\ phase' = [phase EXCEPT ![s] = "connecting"]
        BY <2>1, <2>2 DEF Connects
    <2>4. \A t \in Socket : t # s => phase'[t] = phase[t]
        BY <2>3
    <2> QED  BY <2>1, <2>2, <2>3, <2>4
<1>6. CASE EvaluateVisibleEditors
    BY <1>6 DEF EvaluateVisibleEditors
<1>7. CASE Dispose
    BY <1>7 DEF Dispose, Open
<1>8. ASSUME NEW status \in Status, EditorsChange(status) PROVE NeverGivesUp'
    BY <1>8 DEF EditorsChange
<1>9. CASE ObsStops \/ ObsStarts
    BY <1>9 DEF ObsStops, ObsStarts
<1>10. CASE PluginActs
    BY <1>10 DEF PluginActs
<1> QED  BY <1>1, <1>2, <1>3, <1>4, <1>5, <1>6, <1>7, <1>8, <1>9, <1>10,
            StepsOfEndToEnd

LEMMA WindowInvariant == Spec => []WindowInv
<1>1. Beginning => WindowInv
    <2> SUFFICES ASSUME Beginning PROVE WindowInv
        OBVIOUS
    <2>1. WindowTypes
        <3>1. << >> \in Seq(Frame)
            OBVIOUS
        <3> QED  BY <3>1 DEF Beginning, Init, WindowTypes, Status, Phase
    <2>2. NeverGivesUp
        BY SocketAssumption DEF Beginning, Init, NeverGivesUp
    <2> QED  BY <2>1, <2>2 DEF WindowInv
<1>2. WindowInv /\ [Next]_allVars => WindowInv'
    BY TypesPreserved, WayOnPreserved DEF WindowInv
<1> QED  BY <1>1, <1>2, PTL DEF Spec

\* The fields of PipeClient keep their types.
THEOREM WindowTypeCorrect == Spec => []TypeOK
<1>1. WindowInv => TypeOK
    BY DEF WindowInv, WindowTypes, TypeOK
<1> QED  BY <1>1, WindowInvariant, PTL

\* A client that is not disposed waits for its socket or for its reconnect
\* timer, and no interval or second socket outlives it (pipeClient.ts:39-119).
THEOREM AlwaysOneWayOn == Spec => []NeverGivesUp
<1>1. WindowInv => NeverGivesUp
    BY DEF WindowInv
<1> QED  BY <1>1, WindowInvariant, PTL

\* An open connection whose other end listens is left with GOODBYE as the
\* last frame of its stream (dispose).
THEOREM NeverLeavesSilently == Spec => LeavesWithGoodbye
<1> DEFINE Leaves == \A s \in Socket :
                       phase[s] = "open" /\ phase'[s] \notin {"open", "broken"}
                       => Last(wire'[s]) = Goodbye
<1>1. ASSUME WindowInv, [Next]_allVars PROVE [Leaves]_vars
    <2> SUFFICES ASSUME NEW s \in Socket,
                        phase[s] = "open", phase'[s] \notin {"open", "broken"}
                 PROVE  Last(wire'[s]) = Goodbye
        OBVIOUS
    <2>1. CASE Dispose
        <3>1. socket = s
            BY <1>1 DEF WindowInv, NeverGivesUp
        <3>2. Open(s) /\ Written(s, <<Goodbye>>)[s] = wire[s] \o <<Goodbye>>
            BY <1>1 DEF Open, Written, WindowInv, WindowTypes
        <3>3. wire' = Written(s, <<Goodbye>>)
            BY <2>1, <3>1, <3>2, SocketAssumption DEF Dispose
        <3>4. wire[s] \in Seq(Frame) /\ Goodbye \in Frame
            BY <1>1, Words DEF WindowInv, WindowTypes
        <3>5. Last(wire[s] \o <<Goodbye>>) = Goodbye
            BY <3>4 DEF Last
        <3> QED  BY <3>2, <3>3, <3>5
    <2>2. CASE ~Dispose
        <3>1. phase \in [Socket -> Phase]
            BY <1>1 DEF WindowInv, WindowTypes
        <3>2. ASSUME NEW t \in Socket,
                     \/ HandleConnected(t) \/ RefreshTimerFires(t)
                     \/ HandleClosed(t) \/ SocketShuts(t) \/ ConnectionRefused(t)
              PROVE  phase'[s] = phase[s]
            BY <3>1, <3>2 DEF HandleConnected, RefreshTimerFires, HandleClosed,
                              SocketShuts, ConnectionRefused
        <3>3. ReconnectTimerFires => phase'[s] = phase[s]
            BY <3>1 DEF ReconnectTimerFires, Connects
        <3>4. EvaluateVisibleEditors \/ ObsStarts => phase'[s] = phase[s]
            BY DEF EvaluateVisibleEditors, ObsStarts
        <3>5. ASSUME NEW status \in Status, EditorsChange(status)
              PROVE  phase'[s] = phase[s]
            BY <3>5 DEF EditorsChange
        <3>6. ObsStops \/ PluginActs => phase'[s] \in {"open", "broken"}
            BY <3>1 DEF ObsStops, PluginActs
        <3> QED  BY <1>1, <2>2, <3>2, <3>3, <3>4, <3>5, <3>6, StepsOfEndToEnd
    <2> QED  BY <2>1, <2>2
<1>2. WindowInv /\ [Next]_allVars => [Leaves]_vars
    BY <1>1
<1> QED  BY <1>2, WindowInvariant, PTL DEF Spec, LeavesWithGoodbye

-----------------------------------------------------------------------------
(***************************************************************************)
(* The window and the plug-in together                                     *)
(***************************************************************************)
IsState(f) == f.type = "STATE"

\* An attempt has sent nothing, and a connection that is up has said the
\* window's latest word last.
StreamInv ==
    \A s \in Socket :
        /\ phase[s] = "connecting" => wire[s] = << >>
        /\ phase[s] = "open" =>
             /\ wire[s] # << >> /\ IsState(Last(wire[s]))
             /\ Last(wire[s]).status = latestStatus

\* Until it is disposed, the window knows what is visible, or will look.
EditorInv == ~disposed => evaluationDue \/ latestStatus = visible

\* Only one connection is not over.  The window leaves it first only when it
\* is disposed, and then its last frame, if it sent any, is GOODBYE.  What
\* has been read of it was not GOODBYE.
ConnOf(s) ==
    /\ conn[s] >= Over /\ conn[s] < nextConnection
    /\ ~Served(s) => read[s] = 0
    /\ read[s] <= Len(wire[s])
    /\ \A i \in 1..read[s] : wire[s][i] # Goodbye
    /\ conn[s] # Over =>
         IF disposed
         THEN wire[s] # << >> => Last(wire[s]) = Goodbye
         ELSE phase[s] \in {"connecting", "open"}

ConnInv ==
    /\ conn \in [Socket -> Int] /\ read \in [Socket -> Nat]
    /\ \A s, t \in Socket : conn[s] # Over /\ conn[t] # Over => s = t
    /\ \A s \in Socket : ConnOf(s)

\* PrivacyState!TypeOK, as far as the entries go.
PluginTypes ==
    /\ nextConnection \in Nat \ {0}
    /\ Plugin!Live \subseteq 1..(nextConnection - 1)
    /\ clients \in [Plugin!Live -> Plugin!Client]

\* An entry is what the frames read so far have made of it.
EntryInv ==
    /\ \A c \in Plugin!Live : \E s \in Socket : conn[s] = c
    /\ \A s \in Socket : conn[s] \in Plugin!Live =>
         LET entry == clients[conn[s]]
             frame == wire[s][read[s]] IN
         /\ entry.id = IF read[s] = 0 THEN Anonymous ELSE Window
         /\ read[s] < 2 => entry.seq = Plugin!NoSequence /\ entry.report = "none"
         /\ read[s] > 1 => entry.seq = frame.sequence /\ entry.report = frame.status

JointInv ==
    /\ WindowInv /\ WellFormedStream /\ StreamInv /\ EditorInv
    /\ PluginTypes /\ ConnInv /\ EntryInv

-----------------------------------------------------------------------------
(***************************************************************************)
(* The streams                                                             *)
(***************************************************************************)
LEMMA Kinds ==
    /\ \A f \in Frame : /\ f = Hello <=> f.type = "HELLO"
                        /\ f = Goodbye <=> f.type = "GOODBYE"
                        /\ f.type \in {"HELLO", "STATE", "GOODBYE"}
                        /\ f.type = "STATE" => f.sequence \in Nat /\ f.status \in Status
    /\ \A n, status : /\ State(n, status).type = "STATE"
                      /\ State(n, status).sequence = n
                      /\ State(n, status).status = status
BY DEF Frame, Hello, Goodbye, State

LEMMA Appended ==
    ASSUME NEW w \in Seq(Frame), NEW f \in Frame
    PROVE  /\ w \o <<f>> \in Seq(Frame) /\ w \o <<f>> # << >>
           /\ Len(w \o <<f>>) = Len(w) + 1
           /\ \A i \in 1..Len(w) : (w \o <<f>>)[i] = w[i]
           /\ (w \o <<f>>)[Len(w) + 1] = f
           /\ Last(w \o <<f>>) = f
BY DEF Last

\* What a step does to one stream.  It leaves it alone, or clears it for a
\* new attempt,
Kept(s) ==
    /\ wire'[s] = wire[s]
    /\ phase'[s] = "connecting" => phase[s] = "connecting"
    /\ phase'[s] = "open" => phase[s] = "open" /\ latestStatus' = latestStatus

Cleared(s) ==
    /\ wire'[s] = << >> /\ phase'[s] = "connecting"
    /\ socket = NoSocket /\ socket' = s /\ ~disposed

\* or writes to it: the two frames of a new connection, a STATE, or GOODBYE.
Begun(s) ==
    /\ phase[s] = "connecting" /\ phase'[s] = "open"
    /\ ~disposed
    /\ wire'[s] = <<Hello, State(sequence + 1, latestStatus)>>
    /\ sequence' = sequence + 1 /\ latestStatus' = latestStatus

Continued(s) ==
    /\ phase[s] = "open" /\ phase'[s] = "open"
    /\ ~disposed
    /\ wire'[s] = wire[s] \o <<State(sequence + 1, latestStatus')>>
    /\ sequence' = sequence + 1

Parted(s) ==
    /\ phase[s] = "open" /\ phase'[s] = "ending"
    /\ disposed'
    /\ wire'[s] = wire[s] \o <<Goodbye>>

StreamMoves(s) ==
    /\ sequence' >= sequence
    /\ Kept(s) \/ Cleared(s) \/ Begun(s) \/ Continued(s) \/ Parted(s)

LEMMA StreamSteps ==
    ASSUME WindowInv, StreamInv, [Next]_allVars, NEW s \in Socket
    PROVE  StreamMoves(s)
<1> USE SocketAssumption DEF WindowInv, WindowTypes, client, editors, server,
                             StreamMoves
<1>1. ASSUME NEW t \in Socket, HandleConnected(t) PROVE StreamMoves(s)
    <2>1. CASE Superseded(t)
        BY <1>1, <2>1 DEF HandleConnected, Kept
    <2>2. CASE ~Superseded(t) /\ t # s
        BY <1>1, <2>2 DEF HandleConnected, Kept, Written
    <2>3. CASE ~Superseded(t) /\ t = s
        <3>1. wire[s] = << >> /\ ~disposed
            BY <1>1, <2>3 DEF HandleConnected, StreamInv, Superseded
        <3>2. << >> \o <<Hello, State(sequence + 1, latestStatus)>> =
                <<Hello, State(sequence + 1, latestStatus)>>
            OBVIOUS
        <3> QED  BY <1>1, <2>3, <3>1, <3>2 DEF HandleConnected, Begun, Written
    <2> QED  BY <2>1, <2>2, <2>3
<1>2. ASSUME NEW t \in Socket, RefreshTimerFires(t) PROVE StreamMoves(s)
    <2>1. CASE t # s \/ phase[t] = "broken"
        BY <1>2, <2>1 DEF RefreshTimerFires, Written, Kept
    <2>2. CASE t = s /\ phase[t] # "broken"
        BY <1>2, <2>2 DEF RefreshTimerFires, Written, Continued, Open, NeverGivesUp
    <2> QED  BY <2>1, <2>2
<1>3. ASSUME NEW t \in Socket,
             HandleClosed(t) \/ SocketShuts(t) \/ ConnectionRefused(t)
      PROVE  StreamMoves(s)
    BY <1>3 DEF HandleClosed, SocketShuts, ConnectionRefused, Kept
<1>4. CASE ReconnectTimerFires
    BY <1>4 DEF ReconnectTimerFires, Connects, Kept, Cleared, NeverGivesUp
<1>5. CASE EvaluateVisibleEditors
    <2>1. CASE socket = NoSocket \/ ~Open(socket) \/ phase[socket] = "broken"
                  \/ socket # s
        BY <1>5, <2>1 DEF EvaluateVisibleEditors, Publish, Written, Kept,
                          NeverGivesUp, Open
    <2>2. CASE socket = s /\ Open(s) /\ phase[s] # "broken"
        BY <1>5, <2>2 DEF EvaluateVisibleEditors, Publish, Written, Continued, Open
    <2> QED  BY <2>1, <2>2
<1>6. CASE Dispose
    <2>1. CASE socket = s /\ phase[s] = "open"
        BY <1>6, <2>1 DEF Dispose, Open, Written, Parted
    <2>2. CASE ~(socket = s /\ phase[s] = "open")
        BY <1>6, <2>2 DEF Dispose, Open, Written, Kept
    <2> QED  BY <2>1, <2>2
<1>7. ASSUME NEW status \in Status, EditorsChange(status) PROVE StreamMoves(s)
    BY <1>7 DEF EditorsChange, Kept
<1>8. CASE ObsStops \/ ObsStarts
    BY <1>8 DEF ObsStops, ObsStarts, Kept
<1>9. CASE PluginActs
    BY <1>9 DEF PluginActs, Kept
<1> QED  BY <1>1, <1>2, <1>3, <1>4, <1>5, <1>6, <1>7, <1>8, <1>9, StepsOfEndToEnd

\* The two frames of a new connection.
LEMMA Beginnings ==
    ASSUME NEW n \in Nat, NEW status \in Status
    PROVE  LET w == <<Hello, State(n, status)>> IN
           /\ w # << >> /\ Len(w) = 2 /\ Last(w) = State(n, status)
           /\ w[1] = Hello /\ w[2] = State(n, status)
           /\ w[1].type = "HELLO" /\ w[2].type = "STATE"
BY DEF Last, Hello, State

\* What WellFormedStream says of one stream, when n numbers have been used.
WellFormed(w, n) ==
    \A i \in DOMAIN w :
        /\ (w[i] = Hello) <=> (i = 1)
        /\ w[i] = Goodbye => i = Len(w)
        /\ w[i].type = "STATE" =>
             /\ w[i].sequence <= n
             /\ \A j \in DOMAIN w :
                  i < j /\ w[j].type = "STATE" => w[i].sequence < w[j].sequence

LEMMA StreamByStream ==
    WellFormedStream <=> \A s \in Socket : WellFormed(wire[s], sequence)
BY DEF WellFormedStream, WellFormed

\* A stream that has begun and has not said GOODBYE goes on with GOODBYE or
\* with a STATE of a new number.
LEMMA GoesOn ==
    ASSUME NEW w \in Seq(Frame), w # << >>, NEW n \in Nat, WellFormed(w, n),
           Last(w) # Goodbye, NEW f \in Frame, NEW m \in Nat, m >= n,
           \/ f = Goodbye
           \/ IsState(f) /\ f.sequence = m /\ m > n
    PROVE  WellFormed(w \o <<f>>, m)
<1> DEFINE v == w \o <<f>>
<1>1. /\ v \in Seq(Frame) /\ Len(v) = Len(w) + 1
      /\ \A i \in 1..Len(w) : v[i] = w[i]
      /\ v[Len(w) + 1] = f
    BY Appended
<1>2. /\ DOMAIN w = 1..Len(w) /\ DOMAIN v = 1..(Len(w) + 1)
      /\ Len(w) \in Nat \ {0}
    BY <1>1
<1> HIDE DEF v
<1>3. f # Hello /\ (f.type = "STATE" => f.sequence = m /\ m > n)
    BY Kinds DEF IsState, Goodbye, Hello
<1>4. \A i \in 1..Len(w) : w[i].type = "STATE" => w[i].sequence \in Nat
    BY Kinds
<1>5. \A i \in 1..Len(w) : w[i] # Goodbye
    BY <1>2 DEF WellFormed, Last
<1>6. ASSUME NEW i \in 1..Len(w)
      PROVE  /\ (v[i] = Hello) <=> (i = 1)
             /\ v[i] # Goodbye
             /\ v[i].type = "STATE" =>
                  /\ v[i].sequence <= m
                  /\ \A j \in 1..(Len(w) + 1) :
                       i < j /\ v[j].type = "STATE" => v[i].sequence < v[j].sequence
    <2>1. /\ v[i] = w[i] /\ i \in DOMAIN w
          /\ w[i].type = "STATE" => w[i].sequence \in Nat /\ w[i].sequence <= n
        BY <1>1, <1>2, <1>4 DEF WellFormed
    <2>2. ((w[i] = Hello) <=> (i = 1)) /\ w[i] # Goodbye
        BY <1>5, <2>1 DEF WellFormed
    <2>3. ASSUME w[i].type = "STATE", NEW j \in 1..(Len(w) + 1), i < j,
                 v[j].type = "STATE"
          PROVE  w[i].sequence < v[j].sequence
        <3>1. CASE j \in 1..Len(w)
            BY <1>1, <1>2, <2>1, <2>3, <3>1 DEF WellFormed
        <3>2. CASE j = Len(w) + 1
            BY <1>1, <1>3, <2>1, <2>3, <3>2
        <3> QED  BY <1>2, <3>1, <3>2
    <2> QED  BY <2>1, <2>2, <2>3
<1>7. v[Len(w) + 1].type = "STATE" => v[Len(w) + 1].sequence <= m
    BY <1>1, <1>3
<1>8. WellFormed(v, m)
    BY <1>1, <1>2, <1>3, <1>6, <1>7 DEF WellFormed
<1> QED  BY <1>8 DEF v

LEMMA StreamPreserved ==
    ASSUME WindowInv, WellFormedStream, StreamInv, [Next]_allVars
    PROVE  StreamInv' /\ WellFormedStream'
<1> SUFFICES ASSUME NEW s \in Socket
             PROVE  /\ phase'[s] = "connecting" => wire'[s] = << >>
                    /\ phase'[s] = "open" =>
                         /\ wire'[s] # << >> /\ IsState(Last(wire'[s]))
                         /\ Last(wire'[s]).status = latestStatus'
                    /\ WellFormed(wire'[s], sequence')
    BY DEF StreamInv, WellFormedStream, WellFormed
<1>a. /\ wire[s] \in Seq(Frame) /\ wire'[s] \in Seq(Frame)
      /\ sequence \in Nat /\ sequence' \in Nat
      /\ latestStatus \in Status /\ latestStatus' \in Status
    BY TypesPreserved DEF WindowInv, WindowTypes
<1>b. /\ phase[s] = "connecting" => wire[s] = << >>
      /\ phase[s] = "open" => /\ wire[s] # << >> /\ IsState(Last(wire[s]))
                              /\ Last(wire[s]).status = latestStatus
    BY DEF StreamInv
<1>c. WellFormed(wire[s], sequence)
    BY StreamByStream
<1>d. StreamMoves(s)
    BY StreamSteps
<1>1. CASE Kept(s)
    <2>1. \A i \in DOMAIN wire[s] :
            wire[s][i].type = "STATE" => wire[s][i].sequence \in Nat
        BY <1>a, Kinds
    <2>2. WellFormed(wire[s], sequence')
        BY <1>a, <1>c, <1>d, <2>1 DEF WellFormed, StreamMoves
    <2> QED  BY <1>1, <1>b, <2>2 DEF Kept
<1>2. CASE Cleared(s)
    BY <1>2 DEF Cleared, WellFormed
<1>3. CASE Begun(s)
    BY <1>3, <1>a, Beginnings, Kinds, Words DEF Begun, IsState, WellFormed
<1>4. IsState(Last(wire[s])) => Last(wire[s]) # Goodbye
    BY DEF IsState, Goodbye
<1>5. CASE Continued(s)
    <2> DEFINE f == State(sequence + 1, latestStatus')
    <2>1. /\ f \in Frame /\ IsState(f)
          /\ f.status = latestStatus' /\ f.sequence = sequence + 1
        BY <1>a, Words, Kinds DEF IsState
    <2>2. wire'[s] = wire[s] \o <<f>> /\ sequence' = sequence + 1 /\ phase[s] = "open"
          /\ phase'[s] = "open"
        BY <1>5 DEF Continued
    <2> HIDE DEF f
    <2>3. WellFormed(wire'[s], sequence')
        BY <1>a, <1>b, <1>c, <1>4, <2>1, <2>2, GoesOn
    <2> QED  BY <1>a, <2>1, <2>2, <2>3, Appended
<1>6. CASE Parted(s)
    <2>1. WellFormed(wire[s] \o <<Goodbye>>, sequence')
        BY <1>6, <1>a, <1>b, <1>c, <1>d, <1>4, Words, GoesOn
           DEF Parted, StreamMoves
    <2> QED  BY <1>6, <2>1 DEF Parted
<1> QED  BY <1>d, <1>1, <1>2, <1>3, <1>5, <1>6 DEF StreamMoves

LEMMA EditorPreserved ==
    ASSUME EditorInv, [Next]_allVars PROVE EditorInv'
<1> USE DEF EditorInv, client, editors
<1>1. ASSUME NEW s \in Socket,
             \/ HandleConnected(s) \/ RefreshTimerFires(s) \/ HandleClosed(s)
             \/ SocketShuts(s) \/ ConnectionRefused(s)
      PROVE  EditorInv'
    BY <1>1 DEF HandleConnected, RefreshTimerFires, HandleClosed, SocketShuts,
                ConnectionRefused
<1>2. CASE ReconnectTimerFires \/ EvaluateVisibleEditors \/ Dispose
    BY <1>2 DEF ReconnectTimerFires, EvaluateVisibleEditors, Publish, Dispose
<1>3. ASSUME NEW status \in Status, EditorsChange(status) PROVE EditorInv'
    BY <1>3 DEF EditorsChange
<1>4. CASE ObsStops \/ ObsStarts \/ PluginActs
    BY <1>4 DEF ObsStops, ObsStarts, PluginActs
<1> QED  BY <1>1, <1>2, <1>3, <1>4, StepsOfEndToEnd

-----------------------------------------------------------------------------
(***************************************************************************)
(* The connection and its entry                                            *)
(***************************************************************************)
\* The steps that only the window takes leave phases that matter alone.
WindowActs ==
    /\ UNCHANGED plugin
    /\ \A s \in Socket : phase[s] \in {"connecting", "open"} =>
         IF disposed' /\ ~disposed
         THEN wire'[s] = << >> \/ Parted(s)
         ELSE ~disposed => phase'[s] \in {"connecting", "open"}

LEMMA NeverUndisposed == [Next]_allVars /\ disposed => disposed'
<1> SUFFICES ASSUME [Next]_allVars PROVE disposed => disposed'
    OBVIOUS
<1>1. ASSUME NEW s \in Socket,
             \/ HandleConnected(s) \/ RefreshTimerFires(s) \/ HandleClosed(s)
             \/ SocketShuts(s) \/ ConnectionRefused(s)
      PROVE  UNCHANGED disposed
    BY <1>1 DEF HandleConnected, RefreshTimerFires, HandleClosed, SocketShuts,
                ConnectionRefused, client
<1>2. ReconnectTimerFires \/ EvaluateVisibleEditors => UNCHANGED disposed
    BY DEF ReconnectTimerFires, EvaluateVisibleEditors
<1>3. (\E status \in Status : EditorsChange(status)) => UNCHANGED disposed
    BY DEF EditorsChange, client
<1>4. ObsStops \/ ObsStarts \/ PluginActs => UNCHANGED disposed
    BY DEF ObsStops, ObsStarts, PluginActs, client
<1> QED  BY <1>1, <1>2, <1>3, <1>4, StepsOfEndToEnd DEF Dispose

\* Every step, by what it does to the connections.
LEMMA JointSteps ==
    ASSUME WindowInv, StreamInv, [Next]_allVars
    PROVE  \/ WindowActs
           \/ TriesAgain /\ socket' # socket
           \/ ObsGoes \/ Tick \/ Elapse
           \/ \E s \in Socket : Refused(s) \/ Accept(s) \/ ApplyFrame(s)
                                \/ ConnectionClosed(s)
<1> USE SocketAssumption
        DEF WindowInv, WindowTypes, NeverGivesUp, client, editors, server
<1>1. ASSUME NEW s \in Socket, Connected(s) PROVE WindowActs
    BY <1>1 DEF Connected, HandleConnected, Superseded, WindowActs
<1>2. ASSUME NEW s \in Socket, HandleClosed(s) \/ SocketShuts(s), UNCHANGED plugin
      PROVE  WindowActs
    BY <1>2 DEF HandleClosed, SocketShuts, WindowActs
<1>3. ASSUME NEW s \in Socket, RefreshTimerFires(s), UNCHANGED plugin
      PROVE  WindowActs
    BY <1>3 DEF RefreshTimerFires, WindowActs
<1>4. ASSUME EvaluateVisibleEditors \/ ObsStarts, UNCHANGED plugin PROVE WindowActs
    BY <1>4 DEF EvaluateVisibleEditors, ObsStarts, WindowActs
<1>5. ASSUME NEW status \in Status, EditorsChange(status), UNCHANGED plugin
      PROVE  WindowActs
    BY <1>5 DEF EditorsChange, WindowActs
<1>6. ASSUME Dispose, UNCHANGED plugin PROVE WindowActs
    <2>1. ASSUME NEW s \in Socket, phase[s] \in {"connecting", "open"}
          PROVE  wire'[s] = << >> \/ Parted(s)
        <3>1. socket = s
            BY <2>1
        <3>2. CASE phase[s] = "open"
            BY <1>6, <3>1, <3>2 DEF Dispose, Open, Written, Parted
        <3>3. CASE phase[s] = "connecting"
            BY <1>6, <3>1, <3>3 DEF Dispose, Open, StreamInv
        <3> QED  BY <2>1, <3>2, <3>3
    <2> QED  BY <1>6, <2>1 DEF Dispose, WindowActs
<1>7. ASSUME TriesAgain, socket' = socket PROVE WindowActs
    BY <1>7 DEF TriesAgain, ReconnectTimerFires, Connects, WindowActs, plugin
<1>8. CASE UNCHANGED allVars
    BY <1>8 DEF allVars, vars, WindowActs
<1> QED  BY <1>1, <1>2, <1>3, <1>4, <1>5, <1>6, <1>7, <1>8
         DEF Next, WindowStep, PluginStep

LEMMA Served0 == Over = -1 /\ Waiting = 0
BY DEF Over, Waiting

\* The stream of a connection that is not over only grows.
LEMMA StreamsGrow ==
    ASSUME JointInv, [Next]_allVars, NEW s \in Socket, conn[s] # Over
    PROVE  /\ Len(wire'[s]) >= Len(wire[s])
           /\ \A i \in 1..Len(wire[s]) : wire'[s][i] = wire[s][i]
<1>1. StreamMoves(s)
    BY StreamSteps DEF JointInv
<1>2. wire[s] \in Seq(Frame) /\ latestStatus' \in Status /\ sequence \in Nat
    BY TypesPreserved DEF JointInv, WindowInv, WindowTypes
<1>3. ~Cleared(s)
    BY SocketAssumption DEF Cleared, JointInv, ConnInv, ConnOf, WindowInv, NeverGivesUp
<1>4. CASE Kept(s)
    BY <1>2, <1>4 DEF Kept
<1>5. CASE Begun(s)
    <2>1. wire[s] = << >> /\ Len(wire'[s]) = 2
        BY <1>5 DEF Begun, JointInv, StreamInv
    <2> QED  BY <2>1
<1>6. CASE Continued(s)
    BY <1>2, <1>6, Words, Appended DEF Continued
<1>7. CASE Parted(s)
    BY <1>2, <1>7, Words, Appended DEF Parted
<1> QED  BY <1>1, <1>3, <1>4, <1>5, <1>6, <1>7 DEF StreamMoves

\* The next frame of a stream, and its last.
LEMMA Rest ==
    ASSUME NEW w \in Seq(Frame), NEW n \in 0..Len(w)
    PROVE  LET rest == SubSeq(w, n + 1, Len(w)) IN
           /\ (rest # << >>) <=> (n < Len(w))
           /\ n < Len(w) => /\ Head(rest) = w[n + 1]
                            /\ Last(rest) = Last(w) /\ Last(w) = w[Len(w)]
                            /\ w[n + 1] \in Frame /\ w[Len(w)] \in Frame
<1> DEFINE rest == SubSeq(w, n + 1, Len(w))
<1>1. /\ rest \in Seq(Frame) /\ Len(rest) = Len(w) - n
      /\ \A i \in 1..Len(rest) : rest[i] = w[n + i]
    BY SubSeqProperties
<1> HIDE DEF rest
<1>2. (rest # << >>) <=> (Len(rest) > 0)
    <2>1. (rest = << >>) <=> (Len(rest) = 0)
        BY <1>1, EmptySeq
    <2>2. Len(rest) \in Nat
        BY <1>1
    <2> QED  BY <2>1, <2>2
<1>3. rest # << >> => Head(rest) = rest[1] /\ Last(rest) = rest[Len(rest)]
    BY <1>1 DEF Last
<1>4. Last(w) = w[Len(w)]
    BY DEF Last
<1>5. n < Len(w) => w[n + 1] \in Frame /\ w[Len(w)] \in Frame
    OBVIOUS
<1>6. n < Len(w) => rest[1] = w[n + 1] /\ rest[Len(rest)] = w[Len(w)]
    <2>1. n < Len(w) => 1 \in 1..Len(rest) /\ Len(rest) \in 1..Len(rest)
        BY <1>1
    <2>2. n + Len(rest) = Len(w)
        BY <1>1
    <2> QED  BY <1>1, <2>1, <2>2
<1>7. (rest # << >>) <=> (n < Len(w))
    BY <1>1, <1>2
<1> QED  BY <1>3, <1>4, <1>5, <1>6, <1>7 DEF rest

\* A frame that is not refused is told PrivacyState, and one that is refused
\* costs the connection its entry.
LEMMA EntryOf ==
    ASSUME PluginTypes, NEW c, NEW frame \in Frame
    PROVE  /\ Told(c, frame) =>
                /\ UNCHANGED nextConnection
                /\ c \in Plugin!Live
                /\ IF frame.type = "GOODBYE"
                   THEN clients' = [d \in Plugin!Live \ {c} |-> clients[d]]
                   ELSE clients' = [clients EXCEPT ![c] =
                          IF frame.type = "HELLO"
                          THEN [@ EXCEPT !.id = Window, !.age = 0]
                          ELSE [@ EXCEPT !.seq = frame.sequence,
                                         !.report = frame.status, !.age = 0]]
           /\ Fail(c) => /\ clients' = [d \in Plugin!Live \ {c} |-> clients[d]]
                         /\ UNCHANGED nextConnection
<1>1. ASSUME Told(c, frame), frame.type = "GOODBYE"
      PROVE  /\ UNCHANGED nextConnection /\ c \in Plugin!Live
             /\ clients' = [d \in Plugin!Live \ {c} |-> clients[d]]
    BY <1>1 DEF Told, Plugin!GoodbyeReceived, Plugin!GoodbyeAccepted, Plugin!Erase
<1>2. ASSUME Told(c, frame), frame.type = "HELLO"
      PROVE  /\ UNCHANGED nextConnection /\ c \in Plugin!Live
             /\ clients' = [clients EXCEPT ![c] = [@ EXCEPT !.id = Window, !.age = 0]]
    BY <1>2 DEF Told, Plugin!HelloReceived, Plugin!HelloAccepted, PluginTypes,
                Plugin!Client
<1>3. ASSUME Told(c, frame), frame.type = "STATE"
      PROVE  /\ UNCHANGED nextConnection /\ c \in Plugin!Live
             /\ clients' = [clients EXCEPT ![c] = [@ EXCEPT !.seq = frame.sequence,
                                            !.report = frame.status, !.age = 0]]
    BY <1>3 DEF Told, Plugin!StateReceived, Plugin!StateAccepted, PluginTypes,
                Plugin!Client
<1>4. ASSUME Fail(c)
      PROVE  /\ clients' = [d \in Plugin!Live \ {c} |-> clients[d]]
             /\ UNCHANGED nextConnection
    <2>1. CASE c \in Plugin!Live
        BY <1>4, <2>1 DEF Fail, Plugin!ConnectionFailed, Plugin!Erase
    <2>2. CASE c \notin Plugin!Live
        <3>1. clients = [d \in Plugin!Live |-> clients[d]]
            BY DEF PluginTypes
        <3>2. Plugin!Live \ {c} = Plugin!Live
            BY <2>2
        <3>3. UNCHANGED <<clients, nextConnection>>
            BY <1>4, <2>2 DEF Fail, state
        <3> QED  BY <3>1, <3>2, <3>3
    <2> QED  BY <2>1, <2>2
<1> QED  BY <1>1, <1>2, <1>3, <1>4, Kinds

LEMMA PluginTypesPreserved ==
    ASSUME JointInv, [Next]_allVars PROVE PluginTypes'
<1> USE DEF PluginTypes, state, plugin, Plugin!Live
<1>a. PluginTypes /\ WindowInv /\ ConnInv /\ StreamInv
    BY DEF JointInv
<1>1. CASE WindowActs \/ TriesAgain \/ \E s \in Socket : Refused(s)
    BY <1>a, <1>1 DEF WindowActs, TriesAgain, Refused
<1>2. CASE ObsGoes
    BY <1>2 DEF ObsGoes
<1>3. CASE Tick
    BY <1>a, <1>3 DEF Tick, Plugin!Tick, Plugin!Erase
<1>4. CASE Elapse
    <2>1. \A age \in 0..Plugin!MaxAge : Plugin!Older(age) \in 0..Plugin!MaxAge
        BY PrivacyAssumption DEF Plugin!Older, Plugin!MaxAge
    <2> QED  BY <1>a, <1>4, <2>1 DEF Elapse, Plugin!Elapse, Plugin!Client
<1>b. 0 \in 0..Plugin!MaxAge
    BY PrivacyAssumption DEF Plugin!MaxAge
<1>5. ASSUME NEW s \in Socket, Accept(s) PROVE PluginTypes'
    <2>1. [id |-> Anonymous, seq |-> Plugin!NoSequence, report |-> "none", age |-> 0]
            \in Plugin!Client
        BY <1>b DEF Plugin!Client, Plugin!Report
    <2> QED  BY <1>a, <1>5, <2>1 DEF Accept, Plugin!ConnectionOpened
<1>6. ASSUME NEW s \in Socket, ApplyFrame(s) PROVE PluginTypes'
    <2> DEFINE frame == wire[s][read[s] + 1]
    <2>1. frame \in Frame
        BY <1>a, <1>6, Rest DEF ApplyFrame, Unread, ConnInv, ConnOf, WindowInv, WindowTypes
    <2>2. Told(conn[s], frame) \/ Fail(conn[s])
        BY <1>6 DEF ApplyFrame
    <2>3. frame.type = "STATE" => /\ frame.sequence \in Nat
                                  /\ frame.status \in {"safe", "sensitive"}
        BY <2>1, Kinds DEF Status
    <2> HIDE DEF frame
    <2> DEFINE c == conn[s]
               entry == clients[c]
    <2>4. CASE clients' = [d \in Plugin!Live \ {c} |-> clients[d]]
               /\ UNCHANGED nextConnection
        BY <1>a, <2>4
    <2>5. ASSUME c \in Plugin!Live, UNCHANGED nextConnection,
                 NEW e \in Plugin!Client, clients' = [clients EXCEPT ![c] = e]
          PROVE  PluginTypes'
        BY <1>a, <2>5
    <2>6. c \in Plugin!Live =>
            /\ [entry EXCEPT !.id = Window, !.age = 0] \in Plugin!Client
            /\ frame.type = "STATE" =>
                 [entry EXCEPT !.seq = frame.sequence, !.report = frame.status, !.age = 0]
                   \in Plugin!Client
        BY <1>a, <1>b, <2>3 DEF Plugin!Client, Plugin!Report
    <2> HIDE DEF PluginTypes
    <2> QED  BY <1>a, <2>1, <2>2, <2>4, <2>5, <2>6, EntryOf, Kinds
<1>7. ASSUME NEW s \in Socket, ConnectionClosed(s) PROVE PluginTypes'
    <2>1. /\ clients' = [d \in Plugin!Live \ {conn[s]} |-> clients[d]]
          /\ UNCHANGED nextConnection
        BY <1>a, <1>7, EntryOf, Words DEF ConnectionClosed
    <2> QED  BY <1>a, <2>1
<1> QED  BY <1>a, <1>1, <1>2, <1>3, <1>4, <1>5, <1>6, <1>7, JointSteps

\* A connection that is over, or that a step leaves alone, stays in order.
LEMMA OverInOrder ==
    ASSUME NEW s \in Socket, conn'[s] = Over, read'[s] = 0, wire' \in [Socket -> Seq(Frame)],
           nextConnection' \in Nat \ {0}
    PROVE  ConnOf(s)'
BY Served0 DEF ConnOf, Served

LEMMA UntouchedInOrder ==
    ASSUME NEW s \in Socket, ConnOf(s), nextConnection' \in Nat \ {0},
           conn[s] \in Int, nextConnection \in Nat, nextConnection' >= nextConnection,
           conn'[s] = conn[s], read'[s] = read[s], wire'[s] = wire[s],
           phase'[s] = phase[s] \/ conn[s] = Over, disposed' = disposed
    PROVE  ConnOf(s)'
BY DEF ConnOf, Served

LEMMA ConnPreserved == ASSUME JointInv, [Next]_allVars PROVE ConnInv'
<1>a. /\ WindowInv /\ StreamInv /\ ConnInv /\ PluginTypes
      /\ nextConnection \in Nat \ {0} /\ nextConnection' \in Nat \ {0}
    BY PluginTypesPreserved DEF JointInv, PluginTypes
<1>b. wire \in [Socket -> Seq(Frame)] /\ wire' \in [Socket -> Seq(Frame)]
      /\ phase \in [Socket -> Phase]
    BY TypesPreserved DEF JointInv, WindowInv, WindowTypes
<1>c. /\ conn \in [Socket -> Int] /\ read \in [Socket -> Nat]
      /\ \A s, t \in Socket : conn[s] # Over /\ conn[t] # Over => s = t
      /\ \A s \in Socket : ConnOf(s)
    BY <1>a DEF ConnInv
<1>1. CASE WindowActs
    <2>1. UNCHANGED <<conn, read, nextConnection>>
        BY <1>1 DEF WindowActs, plugin, state
    <2>2. ASSUME NEW s \in Socket PROVE ConnOf(s)'
        <3>1. CASE conn[s] = Over
            BY <1>a, <1>b, <1>c, <2>1, <3>1, Served0, OverInOrder DEF ConnOf, Served
        <3>2. CASE conn[s] # Over
            <4>1. /\ Len(wire'[s]) >= Len(wire[s])
                  /\ \A i \in 1..Len(wire[s]) : wire'[s][i] = wire[s][i]
                BY <3>2, StreamsGrow
            <4>2. ConnOf(s)
                BY <1>c
            <4>3. /\ conn'[s] >= Over /\ conn'[s] < nextConnection'
                  /\ ~Served(s)' => read'[s] = 0
                  /\ read'[s] <= Len(wire'[s])
                  /\ \A i \in 1..read'[s] : wire'[s][i] # Goodbye
                BY <1>b, <1>c, <2>1, <4>1, <4>2 DEF ConnOf, Served
            <4>4. CASE ~disposed'
                <5>1. ~disposed
                    BY <1>a, <4>4, StreamSteps, NeverUndisposed
                <5>2. phase'[s] \in {"connecting", "open"}
                    BY <1>1, <3>2, <4>2, <4>4, <5>1 DEF ConnOf, WindowActs
                <5> QED  BY <4>3, <4>4, <5>2 DEF ConnOf
            <4>5. CASE disposed' /\ disposed
                <5>1. wire'[s] = wire[s] \/ Parted(s)
                    BY <1>a, <4>5, StreamSteps
                       DEF StreamMoves, Kept, Cleared, Begun, Continued
                <5>2. Parted(s) => Last(wire'[s]) = Goodbye
                    BY <1>b, Words, Appended DEF Parted
                <5> QED  BY <3>2, <4>2, <4>3, <4>5, <5>1, <5>2 DEF ConnOf
            <4>6. CASE disposed' /\ ~disposed
                <5>1. wire'[s] = << >> \/ Parted(s)
                    BY <1>1, <3>2, <4>2, <4>6 DEF ConnOf, WindowActs
                <5>2. Parted(s) => Last(wire'[s]) = Goodbye
                    BY <1>b, Words, Appended DEF Parted
                <5> QED  BY <4>3, <4>6, <5>1, <5>2 DEF ConnOf
            <4> QED  BY <4>4, <4>5, <4>6
        <3> QED  BY <3>1, <3>2
    <2> QED  BY <1>c, <2>1, <2>2 DEF ConnInv
<1>2. CASE TriesAgain /\ socket' # socket
    <2>1. PICK s \in Socket :
             /\ phase' = [phase EXCEPT ![s] = "connecting"]
             /\ wire' = [wire EXCEPT ![s] = << >>]
             /\ conn' = [conn EXCEPT ![s] = Waiting]
        BY <1>2 DEF TriesAgain, ReconnectTimerFires, Connects
    <2>2. /\ socket = NoSocket /\ ~disposed /\ ~disposed'
          /\ UNCHANGED <<read, nextConnection>>
        BY <1>2 DEF TriesAgain, ReconnectTimerFires, Connects, state
    <2>3. \A t \in Socket : conn[t] = Over /\ read[t] = 0
        BY <1>a, <1>c, <2>2, SocketAssumption, Served0
           DEF WindowInv, NeverGivesUp, ConnOf, Served
    <2>4. ASSUME NEW t \in Socket, t # s PROVE ConnOf(t)'
        BY <1>a, <1>b, <1>c, <2>1, <2>2, <2>3, <2>4, OverInOrder
    <2>5. ConnOf(s)'
        <3>1. conn'[s] = 0 /\ read'[s] = 0 /\ wire'[s] = << >> /\ phase'[s] = "connecting"
            BY <1>b, <1>c, <2>1, <2>2, <2>3, Served0
        <3> QED  BY <1>a, <2>2, <3>1, Served0 DEF ConnOf, Served
    <2> QED  BY <1>c, <2>1, <2>2, <2>3, <2>4, <2>5, Served0 DEF ConnInv
<1>3. CASE ObsGoes
    <2>1. /\ conn' = [s \in Socket |-> IF phase[s] = "connecting" /\ ~Served(s)
                                       THEN conn[s] ELSE Over]
          /\ read' = [s \in Socket |-> 0] /\ nextConnection' = 1
          /\ wire' = wire /\ disposed' = disposed
          /\ \A s \in Socket : phase[s] = "connecting" => phase'[s] = "connecting"
        BY <1>b, <1>3 DEF ObsGoes, ObsStops, client
    <2>2. ASSUME NEW s \in Socket PROVE ConnOf(s)'
        <3>1. CASE conn'[s] = Over
            BY <1>a, <1>b, <2>1, <3>1, OverInOrder
        <3>2. CASE conn'[s] # Over
            <4>1. /\ conn'[s] = conn[s] /\ ~Served(s) /\ phase'[s] = "connecting"
                  /\ read[s] = 0
                BY <1>c, <2>1, <3>2 DEF ConnOf
            <4> QED  BY <1>b, <1>c, <2>1, <3>2, <4>1, Served0 DEF ConnOf, Served
        <3> QED  BY <3>1, <3>2
    <2>3. conn' \in [Socket -> Int] /\ read' \in [Socket -> Nat]
        BY <1>c, <2>1, Served0
    <2>4. \A s, t \in Socket : conn'[s] # Over /\ conn'[t] # Over => s = t
        BY <1>c, <2>1
    <2> QED  BY <2>2, <2>3, <2>4 DEF ConnInv
<1>4. CASE Tick \/ Elapse
    <2>1. /\ UNCHANGED <<vars, conn, read>>
          /\ UNCHANGED nextConnection
        BY <1>4 DEF Tick, Elapse, Plugin!Tick, Plugin!Elapse
    <2>2. UNCHANGED <<wire, phase, disposed, conn, read, nextConnection>>
        BY <2>1 DEF vars, client
    <2> QED  BY <1>a, <1>c, <2>2, UntouchedInOrder DEF ConnInv
<1>5. ASSUME NEW s \in Socket, Refused(s) PROVE ConnInv'
    <2>1. /\ ~Served(s) /\ read' = read
          /\ conn' = [conn EXCEPT ![s] = Over] /\ phase' = [phase EXCEPT ![s] = "closing"]
          /\ UNCHANGED <<wire, disposed, nextConnection>>
        BY <1>5 DEF Refused, ConnectionRefused, client, state
    <2>2. ConnOf(s)'
        BY <1>a, <1>b, <1>c, <2>1, OverInOrder DEF ConnOf
    <2>3. ASSUME NEW t \in Socket, t # s PROVE ConnOf(t)'
        BY <1>a, <1>b, <1>c, <2>1, <2>3, UntouchedInOrder
    <2> QED  BY <1>c, <2>1, <2>2, <2>3, Served0 DEF ConnInv
<1>6. ASSUME NEW s \in Socket, Accept(s) PROVE ConnInv'
    <2>1. /\ conn[s] = Waiting /\ conn' = [conn EXCEPT ![s] = nextConnection]
          /\ nextConnection' = nextConnection + 1
          /\ UNCHANGED <<wire, phase, disposed, read>>
        BY <1>6 DEF Accept, Plugin!ConnectionOpened, vars, client
    <2>2. conn[s] # Over /\ read[s] = 0
        BY <1>c, <2>1, Served0 DEF ConnOf, Served
    <2>3. ConnOf(s)'
        <3>1. conn'[s] = nextConnection /\ conn'[s] > 0
            BY <1>a, <1>c, <2>1
        <3> QED  BY <1>a, <1>b, <1>c, <2>1, <2>2, <3>1, Served0 DEF ConnOf, Served
    <2>4. ASSUME NEW t \in Socket, t # s PROVE ConnOf(t)'
        BY <1>a, <1>c, <2>1, <2>4, UntouchedInOrder
    <2>5. \A t \in Socket : t # s => conn'[t] = Over
        BY <1>c, <2>1, <2>2
    <2> QED  BY <1>a, <1>c, <2>1, <2>3, <2>4, <2>5 DEF ConnInv
<1>7. ASSUME NEW s \in Socket, HangUp(s), UNCHANGED <<client, wire>>,
             UNCHANGED nextConnection
      PROVE  ConnInv'
    <2>1. /\ conn' = [conn EXCEPT ![s] = Over] /\ read' = [read EXCEPT ![s] = 0]
          /\ \A t \in Socket : t # s => phase'[t] = phase[t]
          /\ UNCHANGED <<wire, disposed, nextConnection>>
        BY <1>b, <1>7 DEF HangUp, client
    <2>2. ConnOf(s)'
        BY <1>a, <1>b, <1>c, <2>1, OverInOrder
    <2>3. ASSUME NEW t \in Socket, t # s PROVE ConnOf(t)'
        BY <1>a, <1>b, <1>c, <2>1, <2>3, UntouchedInOrder
    <2> QED  BY <1>c, <2>1, <2>2, <2>3, Served0 DEF ConnInv
<1>8. ASSUME NEW s \in Socket, ApplyFrame(s) PROVE ConnInv'
    <2> DEFINE frame == wire[s][read[s] + 1]
    <2>1. /\ read[s] < Len(wire[s]) /\ frame \in Frame
        BY <1>b, <1>c, <1>8, Rest DEF ApplyFrame, Unread, ConnOf
    <2>2. Told(conn[s], frame) \/ Fail(conn[s])
        BY <1>8 DEF ApplyFrame
    <2>3. UNCHANGED nextConnection
        BY <1>a, <2>1, <2>2, EntryOf
    <2>4. CASE HangUp(s)
        BY <1>7, <1>8, <2>3, <2>4 DEF ApplyFrame
    <2>5. CASE ~HangUp(s)
        <3>1. /\ frame # Goodbye /\ read' = [read EXCEPT ![s] = @ + 1] /\ Served(s)
              /\ UNCHANGED <<conn, phase, wire, disposed>>
            BY <1>8, <2>5 DEF ApplyFrame, client
        <3>2. ConnOf(s)'
            <4>1. read'[s] = read[s] + 1 /\ read[s] \in Nat /\ Len(wire[s]) \in Nat
                BY <1>b, <1>c, <3>1
            <4>2. \A i \in 1..read'[s] : i \in 1..read[s] \/ i = read[s] + 1
                BY <4>1
            <4>3. \A i \in 1..read'[s] : wire'[s][i] # Goodbye
                BY <1>c, <3>1, <4>2 DEF ConnOf
            <4>4. ConnOf(s)
                BY <1>c
            <4> HIDE DEF frame
            <4> QED  BY <2>1, <2>3, <3>1, <4>1, <4>3, <4>4 DEF ConnOf, Served
        <3>3. ASSUME NEW t \in Socket, t # s PROVE ConnOf(t)'
            BY <1>a, <1>b, <1>c, <2>3, <3>1, <3>3, UntouchedInOrder
        <3> QED  BY <1>c, <3>1, <3>2, <3>3 DEF ConnInv
    <2> QED  BY <2>4, <2>5
<1>9. ASSUME NEW s \in Socket, ConnectionClosed(s) PROVE ConnInv'
    <2>1. UNCHANGED nextConnection
        BY <1>a, <1>9, EntryOf, Words DEF ConnectionClosed
    <2> QED  BY <1>7, <1>9, <2>1 DEF ConnectionClosed
<1> QED  BY <1>a, <1>1, <1>2, <1>3, <1>4, <1>5, <1>6, <1>8, <1>9, JointSteps

\* A connection that has hung up has no entry.
LEMMA HungUp ==
    ASSUME JointInv, NEW s \in Socket,
           conn' = [conn EXCEPT ![s] = Over], read' = [read EXCEPT ![s] = 0],
           UNCHANGED wire, clients' = [d \in Plugin!Live \ {conn[s]} |-> clients[d]]
    PROVE  EntryInv'
<1>1. /\ conn \in [Socket -> Int] /\ read \in [Socket -> Nat]
      /\ Plugin!Live \subseteq Nat \ {0}
    BY DEF JointInv, ConnInv, PluginTypes
<1>2. /\ Plugin!Live' = Plugin!Live \ {conn[s]}
      /\ \A d \in Plugin!Live' : clients'[d] = clients[d]
    BY DEF Plugin!Live
<1>3. /\ conn'[s] \notin Plugin!Live'
      /\ \A t \in Socket \ {s} : conn'[t] = conn[t] /\ read'[t] = read[t]
    BY <1>1, <1>2, Served0
<1>4. ASSUME NEW d \in Plugin!Live' PROVE \E t \in Socket : conn'[t] = d
    BY <1>2, <1>3, <1>4 DEF JointInv, EntryInv
<1>5. ASSUME NEW t \in Socket, conn'[t] \in Plugin!Live'
      PROVE  /\ t # s /\ conn'[t] = conn[t] /\ read'[t] = read[t]
             /\ conn[t] \in Plugin!Live /\ clients'[conn'[t]] = clients[conn[t]]
    BY <1>2, <1>3, <1>5
<1>6. ASSUME NEW t \in Socket, conn'[t] \in Plugin!Live'
      PROVE  LET entry == clients'[conn'[t]]
                 frame == wire'[t][read'[t]] IN
             /\ entry.id = IF read'[t] = 0 THEN Anonymous ELSE Window
             /\ read'[t] < 2 => entry.seq = Plugin!NoSequence /\ entry.report = "none"
             /\ read'[t] > 1 => entry.seq = frame.sequence /\ entry.report = frame.status
    <2>1. LET entry == clients[conn[t]]
              frame == wire[t][read[t]] IN
          /\ entry.id = IF read[t] = 0 THEN Anonymous ELSE Window
          /\ read[t] < 2 => entry.seq = Plugin!NoSequence /\ entry.report = "none"
          /\ read[t] > 1 => entry.seq = frame.sequence /\ entry.report = frame.status
        BY <1>5, <1>6 DEF JointInv, EntryInv
    <2>2. read'[t] = read[t] /\ wire'[t] = wire[t] /\ clients'[conn'[t]] = clients[conn[t]]
        BY <1>5, <1>6
    <2> QED  BY <2>1, <2>2
<1> QED  BY <1>4, <1>6 DEF EntryInv, Plugin!NoSequence

LEMMA EntryPreserved == ASSUME JointInv, [Next]_allVars PROVE EntryInv'
<1>a. /\ WindowInv /\ StreamInv /\ ConnInv /\ PluginTypes /\ EntryInv
      /\ WellFormedStream
    BY DEF JointInv
<1>b. /\ wire \in [Socket -> Seq(Frame)] /\ conn \in [Socket -> Int]
      /\ read \in [Socket -> Nat]
      /\ \A s, t \in Socket : conn[s] # Over /\ conn[t] # Over => s = t
      /\ \A s \in Socket : ConnOf(s)
      /\ Plugin!Live \subseteq Nat \ {0}
      /\ clients \in [Plugin!Live -> Plugin!Client]
    BY <1>a DEF WindowInv, WindowTypes, ConnInv, PluginTypes
<1>c. Plugin!Live = DOMAIN clients /\ Plugin!Live' = DOMAIN clients'
    BY DEF Plugin!Live
<1>d. ASSUME Plugin!Live' = {} PROVE EntryInv'
    BY <1>d DEF EntryInv
<1>1. CASE WindowActs
    <2>1. UNCHANGED <<conn, read, clients>>
        BY <1>1 DEF WindowActs, plugin, state
    <2>2. ASSUME NEW s \in Socket, conn[s] \in Plugin!Live, read[s] > 1
          PROVE  wire'[s][read[s]] = wire[s][read[s]]
        <3>1. conn[s] # Over /\ read[s] \in 1..Len(wire[s])
            BY <1>b, <2>2, Served0 DEF ConnOf
        <3> QED  BY <3>1, StreamsGrow
    <2> QED  BY <1>a, <1>c, <2>1, <2>2 DEF EntryInv, Plugin!NoSequence
<1>2. CASE TriesAgain /\ socket' # socket
    <2>1. socket = NoSocket /\ ~disposed /\ UNCHANGED clients
        BY <1>2 DEF TriesAgain, ReconnectTimerFires, Connects, state
    <2>2. \A t \in Socket : conn[t] = Over
        BY <1>a, <1>b, <2>1, SocketAssumption DEF WindowInv, NeverGivesUp, ConnOf
    <2>3. Plugin!Live = {}
        BY <1>a, <1>b, <2>2, Served0 DEF EntryInv
    <2> QED  BY <1>c, <1>d, <2>1, <2>3
<1>3. CASE ObsGoes
    <2>1. clients' = << >>
        BY <1>3 DEF ObsGoes
    <2> QED  BY <1>c, <1>d, <2>1
<1>4. ASSUME Plugin!Live' \subseteq Plugin!Live, UNCHANGED <<conn, read, wire>>,
             \A d \in Plugin!Live' : /\ clients'[d].id = clients[d].id
                                     /\ clients'[d].seq = clients[d].seq
                                     /\ clients'[d].report = clients[d].report
      PROVE  EntryInv'
    BY <1>a, <1>4 DEF EntryInv, Plugin!NoSequence
<1>5. CASE Tick
    <2>1. UNCHANGED <<conn, read, wire>>
        BY <1>5 DEF Tick, vars
    <2>2. clients' = [d \in Plugin!Live \ Plugin!Expired(0) |-> clients[d]]
        BY <1>5 DEF Tick, Plugin!Tick, Plugin!Erase
    <2> QED  BY <1>c, <1>4, <2>1, <2>2
<1>6. CASE Elapse
    <2>1. UNCHANGED <<conn, read, wire>>
        BY <1>6 DEF Elapse, vars
    <2>2. clients' = [d \in Plugin!Live |->
                        [clients[d] EXCEPT !.age = Plugin!Older(@)]]
        BY <1>6 DEF Elapse, Plugin!Elapse
    <2>3. \A d \in Plugin!Live : /\ clients'[d].id = clients[d].id
                                 /\ clients'[d].seq = clients[d].seq
                                 /\ clients'[d].report = clients[d].report
        BY <1>b, <2>2 DEF Plugin!Client
    <2> QED  BY <1>c, <1>4, <2>1, <2>2, <2>3
<1>7. ASSUME NEW s \in Socket, Refused(s) PROVE EntryInv'
    <2>1. /\ ~Served(s) /\ read' = read
          /\ conn' = [conn EXCEPT ![s] = Over]
          /\ UNCHANGED <<wire, clients>>
        BY <1>7 DEF Refused, ConnectionRefused, state
    <2>2. read[s] = 0 /\ conn[s] \notin Plugin!Live
        BY <1>b, <2>1 DEF ConnOf, Served
    <2>3. read' = [read EXCEPT ![s] = 0]
        BY <1>b, <2>1, <2>2
    <2>4. clients' = [d \in Plugin!Live \ {conn[s]} |-> clients[d]]
        BY <1>b, <2>1, <2>2
    <2> QED  BY <2>1, <2>3, <2>4, HungUp
<1>8. ASSUME NEW s \in Socket, Accept(s) PROVE EntryInv'
    <2>1. /\ conn[s] = Waiting /\ conn' = [conn EXCEPT ![s] = nextConnection]
          /\ clients' = [c \in Plugin!Live \cup {nextConnection} |->
                     IF c = nextConnection
                     THEN [id |-> Anonymous, seq |-> Plugin!NoSequence,
                           report |-> "none", age |-> 0]
                     ELSE clients[c]]
          /\ UNCHANGED <<wire, read>>
        BY <1>8 DEF Accept, Plugin!ConnectionOpened, vars
    <2>2. conn[s] # Over /\ read[s] = 0
        BY <1>b, <2>1, Served0 DEF ConnOf, Served
    <2>3. Plugin!Live = {}
        <3>1. ASSUME NEW d \in Plugin!Live PROVE FALSE
            <4>1. PICK t \in Socket : conn[t] = d
                BY <1>a DEF EntryInv
            <4>2. t = s
                BY <1>b, <2>2, <4>1, Served0
            <4> QED  BY <1>b, <2>1, <4>1, <4>2, Served0
        <3> QED  BY <3>1
    <2>4. /\ Plugin!Live' = {nextConnection} /\ conn'[s] = nextConnection
          /\ \A t \in Socket : t # s => conn'[t] = Over
          /\ clients'[nextConnection] =
               [id |-> Anonymous, seq |-> Plugin!NoSequence, report |-> "none", age |-> 0]
        BY <1>b, <1>c, <2>1, <2>2, <2>3
    <2>5. nextConnection # Over
        BY <1>a, Served0 DEF PluginTypes
    <2>6. \A t \in Socket : conn'[t] \in Plugin!Live' => t = s
        BY <2>4, <2>5
    <2>7. ~(read'[s] > 1) /\ read'[s] = 0
        BY <2>1, <2>2
    <2> QED  BY <2>4, <2>6, <2>7 DEF EntryInv, Plugin!NoSequence
<1>9. ASSUME NEW s \in Socket, ApplyFrame(s) PROVE EntryInv'
    <2> DEFINE frame == wire[s][read[s] + 1]
               c == conn[s]
    <2>1. /\ read[s] < Len(wire[s]) /\ frame \in Frame
          /\ read[s] + 1 \in DOMAIN wire[s]
        BY <1>b, <1>9, Rest DEF ApplyFrame, Unread, ConnOf
    <2>2. UNCHANGED wire
        BY <1>9 DEF ApplyFrame
    <2>3. CASE Fail(c) /\ HangUp(s)
        BY <1>a, <2>1, <2>2, <2>3, EntryOf, HungUp DEF HangUp
    <2>4. CASE Told(c, frame) /\ frame = Goodbye /\ HangUp(s)
        <3>1. clients' = [d \in Plugin!Live \ {conn[s]} |-> clients[d]]
            BY <1>a, <2>1, <2>4, EntryOf, Kinds
        <3> QED  BY <2>2, <2>4, <3>1, HungUp DEF HangUp
    <2>5. CASE /\ Told(c, frame) /\ frame # Goodbye
               /\ read' = [read EXCEPT ![s] = @ + 1] /\ UNCHANGED <<conn, phase>>
        <3>1. /\ c \in Plugin!Live
              /\ clients' = [clients EXCEPT ![c] =
                               IF frame.type = "HELLO"
                               THEN [@ EXCEPT !.id = Window, !.age = 0]
                               ELSE [@ EXCEPT !.seq = frame.sequence,
                                              !.report = frame.status, !.age = 0]]
            <4>1. PluginTypes /\ frame \in Frame /\ Told(c, frame) /\ frame # Goodbye
                BY <1>a, <2>1, <2>5
            <4> HIDE DEF frame, c
            <4>2. frame.type # "GOODBYE"
                BY <4>1, Kinds
            <4> QED  BY <4>1, <4>2, EntryOf
        <3>2. /\ (frame = Hello) <=> (read[s] + 1 = 1)
              /\ (frame.type = "HELLO") <=> (read[s] = 0)
              /\ read[s] \in Nat /\ read'[s] = read[s] + 1
            <4>1. (frame = Hello) <=> (read[s] + 1 = 1)
                BY <1>a, <2>1 DEF WellFormedStream
            <4>2. read[s] \in Nat /\ read'[s] = read[s] + 1
                BY <1>b, <2>5
            <4>3. (frame.type = "HELLO") <=> (frame = Hello)
                BY <2>1, Kinds
            <4> QED  BY <4>1, <4>2, <4>3
        <3>3. clients[c] \in Plugin!Client
            BY <1>b, <3>1
        <3>4. LET entry == clients[c] IN
              /\ entry.id = IF read[s] = 0 THEN Anonymous ELSE Window
              /\ read[s] < 2 => entry.seq = Plugin!NoSequence /\ entry.report = "none"
            BY <1>a, <3>1 DEF EntryInv
        <3>5. LET entry == clients'[c] IN
              /\ entry.id = Window
              /\ read[s] = 0 => entry.seq = Plugin!NoSequence /\ entry.report = "none"
              /\ read[s] > 0 => entry.seq = frame.sequence /\ entry.report = frame.status
            <4>1. CASE frame.type = "HELLO"
                <5>1. clients'[c] = [clients[c] EXCEPT !.id = Window, !.age = 0]
                    BY <1>b, <3>1, <4>1
                <5> HIDE DEF frame, c
                <5>2. /\ clients'[c].id = Window /\ clients'[c].seq = clients[c].seq
                      /\ clients'[c].report = clients[c].report
                    BY <3>3, <5>1 DEF Plugin!Client
                <5> QED  BY <3>2, <3>4, <4>1, <5>2
            <4>2. CASE frame.type # "HELLO"
                <5>1. clients'[c] = [clients[c] EXCEPT !.seq = frame.sequence,
                                              !.report = frame.status, !.age = 0]
                    BY <1>b, <3>1, <4>2
                <5> HIDE DEF frame, c
                <5>2. /\ clients'[c].id = clients[c].id /\ clients'[c].seq = frame.sequence
                      /\ clients'[c].report = frame.status
                    BY <3>3, <5>1 DEF Plugin!Client
                <5> QED  BY <3>2, <3>4, <4>2, <5>2
            <4> QED  BY <4>1, <4>2
        <3>6. Plugin!Live' = Plugin!Live /\ c # Over
            BY <1>b, <1>c, <3>1, Served0
        <3>7. \A t \in Socket : conn'[t] \in Plugin!Live' => t = s
            BY <1>b, <2>5, <3>6, Served0
        <3>8. \A d \in Plugin!Live' : \E t \in Socket : conn'[t] = d
            BY <1>a, <2>5, <3>6 DEF EntryInv
        <3>9. wire'[s][read'[s]] = frame
            BY <2>2, <3>2
        <3>10. /\ conn'[s] = c /\ read'[s] # 0
               /\ (read'[s] < 2) <=> (read[s] = 0)
               /\ (read'[s] > 1) <=> (read[s] > 0)
            BY <2>5, <3>2
        <3> HIDE DEF frame, c
        <3> QED  BY <3>5, <3>7, <3>8, <3>9, <3>10 DEF EntryInv, Plugin!NoSequence
    <2> QED  BY <1>9, <2>3, <2>4, <2>5 DEF ApplyFrame
<1>10. ASSUME NEW s \in Socket, ConnectionClosed(s) PROVE EntryInv'
    <2>1. clients' = [d \in Plugin!Live \ {conn[s]} |-> clients[d]]
        BY <1>a, <1>10, EntryOf, Words DEF ConnectionClosed
    <2> QED  BY <1>10, <2>1, HungUp DEF ConnectionClosed, HangUp
<1> QED  BY <1>a, <1>1, <1>2, <1>3, <1>5, <1>6, <1>7, <1>8, <1>9, <1>10, JointSteps

LEMMA JointInvariant == Spec => []JointInv
<1>1. Beginning => JointInv
    <2> SUFFICES ASSUME Beginning PROVE JointInv
        OBVIOUS
    <2>a. \A s \in Socket : wire[s] = << >> /\ read[s] = 0
        BY DEF Beginning, Init
    <2>b. /\ socket \in Socket
          /\ conn = [s \in Socket |-> IF s = socket THEN Waiting ELSE Over]
          /\ phase = [s \in Socket |-> IF s = socket THEN "connecting" ELSE "unused"]
          /\ ~disposed /\ latestStatus = visible
        BY DEF Beginning, Init
    <2>c. Plugin!Live = {} /\ nextConnection = 1 /\ clients = [c \in {} |-> Anonymous]
        BY DEF Beginning, Plugin!Init, Plugin!Live
    <2>1. WindowInv
        <3>1. << >> \in Seq(Frame)
            OBVIOUS
        <3>2. WindowTypes
            BY <3>1 DEF Beginning, Init, WindowTypes, Status, Phase
        <3>3. NeverGivesUp
            BY SocketAssumption DEF Beginning, Init, NeverGivesUp
        <3> QED  BY <3>2, <3>3 DEF WindowInv
    <2>2. WellFormedStream /\ StreamInv
        BY <2>a, <2>b DEF WellFormedStream, StreamInv
    <2>3. EditorInv
        BY <2>b DEF EditorInv
    <2>4. PluginTypes
        BY <2>c DEF PluginTypes
    <2>5. ConnInv
        <3>1. /\ conn \in [Socket -> Int] /\ read \in [Socket -> Nat]
              /\ \A s, t \in Socket : conn[s] # Over /\ conn[t] # Over => s = t
            BY <2>b, Served0 DEF Beginning
        <3>2. ASSUME NEW s \in Socket PROVE ConnOf(s)
            BY <2>a, <2>b, <2>c, Served0 DEF ConnOf, Served
        <3> QED  BY <3>1, <3>2 DEF ConnInv
    <2>6. EntryInv
        BY <2>a, <2>b, <2>c, Served0 DEF EntryInv
    <2> QED  BY <2>1, <2>2, <2>3, <2>4, <2>5, <2>6 DEF JointInv
<1>2. ASSUME JointInv, [Next]_allVars PROVE JointInv'
    <2>1. WindowInv'
        BY <1>2, TypesPreserved, WayOnPreserved DEF JointInv, WindowInv
    <2>2. StreamInv' /\ WellFormedStream'
        BY <1>2, StreamPreserved DEF JointInv
    <2>3. EditorInv' /\ PluginTypes'
        BY <1>2, EditorPreserved, PluginTypesPreserved DEF JointInv
    <2>4. ConnInv' /\ EntryInv'
        BY <1>2, ConnPreserved, EntryPreserved
    <2> QED  BY <2>1, <2>2, <2>3, <2>4 DEF JointInv
<1>3. JointInv /\ [Next]_allVars => JointInv'
    BY <1>2
<1> QED  BY <1>1, <1>3, PTL DEF Spec

-----------------------------------------------------------------------------
\* What the properties need of a connection whose entry is live: it is the
\* only one, and what has been read of its stream.
LEMMA LiveConnection ==
    ASSUME JointInv, NEW s \in Socket, conn[s] \in Plugin!Live
    PROVE  /\ Plugin!Live = {conn[s]} /\ clients[conn[s]] \in Plugin!Client
           /\ ConnOf(s) /\ conn[s] # Over
           /\ wire[s] \in Seq(Frame) /\ read[s] \in 0..Len(wire[s])
           /\ read[s] > 1 => IsState(wire[s][read[s]])
<1>1. /\ conn[s] \in Int /\ read[s] \in Nat /\ ConnOf(s) /\ conn[s] # Over
      /\ \A t \in Socket : conn[t] # Over => t = s
      /\ wire[s] \in Seq(Frame) /\ Plugin!Live \subseteq Nat \ {0}
      /\ clients[conn[s]] \in Plugin!Client
    BY Served0 DEF JointInv, ConnInv, PluginTypes, WindowInv, WindowTypes
<1>2. ASSUME NEW d \in Plugin!Live PROVE d = conn[s]
    <2>1. PICK t \in Socket : conn[t] = d
        BY DEF JointInv, EntryInv
    <2> QED  BY <1>1, <2>1, Served0
<1>3. read[s] \in 0..Len(wire[s])
    BY <1>1 DEF ConnOf
<1>4. ASSUME read[s] > 1 PROVE IsState(wire[s][read[s]])
    <2>1. read[s] \in DOMAIN wire[s] /\ wire[s][read[s]] \in Frame
        BY <1>1, <1>3, <1>4
    <2>2. wire[s][read[s]] # Hello /\ wire[s][read[s]] # Goodbye
        BY <1>1, <1>4, <2>1 DEF JointInv, WellFormedStream, ConnOf
    <2> QED  BY <2>1, <2>2, Kinds DEF IsState
<1> QED  BY <1>1, <1>2, <1>3, <1>4

\* docs/protocol.md: in every order of publishing, refreshing, reconnecting and
\* disposing, a stream is HELLO first, GOODBYE only at its end, and its STATE
\* numbers increase.
THEOREM StreamsAreWellFormed == Spec => []WellFormedStream
<1>1. JointInv => WellFormedStream
    BY DEF JointInv
<1> QED  BY <1>1, JointInvariant, PTL

\* The plug-in accepts every frame of a window it has an entry for: its first
\* is a HELLO of an id no live entry has, and every STATE has a number above
\* the one in the entry.
THEOREM FramesAreAccepted == Spec => []NeverRefused
<1>1. ASSUME JointInv PROVE NeverRefused
    <2> SUFFICES ASSUME NEW s \in Socket, conn[s] \in Plugin!Live, Unread(s) # << >>
                 PROVE  Takes(conn[s], Head(Unread(s)))
        BY DEF NeverRefused
    <2> DEFINE frame == wire[s][read[s] + 1]
    <2>1. /\ Plugin!Live = {conn[s]} /\ wire[s] \in Seq(Frame)
          /\ read[s] \in 0..Len(wire[s])
          /\ read[s] > 1 => IsState(wire[s][read[s]])
        BY <1>1, LiveConnection
    <2>2. read[s] < Len(wire[s]) /\ Head(Unread(s)) = frame /\ frame \in Frame
        BY <2>1, Rest DEF Unread
    <2>3. /\ read[s] + 1 \in DOMAIN wire[s]
          /\ read[s] > 1 => read[s] \in DOMAIN wire[s]
        BY <2>1, <2>2
    <2>4. /\ clients[conn[s]].id = IF read[s] = 0 THEN Anonymous ELSE Window
          /\ read[s] < 2 => clients[conn[s]].seq = -1
          /\ read[s] > 1 => clients[conn[s]].seq = wire[s][read[s]].sequence
        BY <1>1 DEF JointInv, EntryInv, Plugin!NoSequence
    <2>5. (frame = Hello) <=> (read[s] = 0)
        <3>1. (frame = Hello) <=> (read[s] + 1 = 1)
            BY <1>1, <2>3 DEF JointInv, WellFormedStream
        <3> QED  BY <2>1, <3>1
    <2>6. frame.type = "STATE" =>
            /\ frame.sequence \in Nat
            /\ read[s] > 1 => wire[s][read[s]].sequence < frame.sequence
        <3>1. read[s] > 1 => read[s] < read[s] + 1
            BY <2>1
        <3>2. frame.type = "STATE" /\ read[s] > 1
                => wire[s][read[s]].sequence < frame.sequence
            BY <1>1, <2>1, <2>3, <3>1 DEF JointInv, WellFormedStream, IsState
        <3> QED  BY <2>2, <3>2, Kinds
    <2>7. read[s] \in Nat
        BY <2>1
    <2> HIDE DEF frame
    <2>8. CASE frame.type = "HELLO"
        <3>1. read[s] = 0
            BY <2>2, <2>5, <2>8, Kinds
        <3> QED  BY <2>1, <2>2, <2>4, <2>8, <3>1, PrivacyAssumption
                 DEF Takes, Plugin!HelloAccepted
    <2>9. CASE frame.type = "STATE"
        <3>1. read[s] # 0
            BY <2>2, <2>5, <2>9, Kinds
        <3>2. frame.sequence > clients[conn[s]].seq
            BY <2>4, <2>6, <2>7, <2>9
        <3>3. clients[conn[s]].id # Anonymous
            BY <2>4, <3>1, PrivacyAssumption
        <3> QED  BY <2>2, <2>9, <3>2, <3>3
                 DEF Takes, Plugin!StateAccepted, Plugin!SequenceAccepted
    <2>10. CASE frame.type = "GOODBYE"
        <3>1. read[s] # 0
            BY <2>2, <2>5, <2>10, Kinds
        <3> QED  BY <2>2, <2>4, <2>10, <3>1, PrivacyAssumption
                 DEF Takes, Plugin!GoodbyeAccepted
    <2> QED  BY <2>2, <2>8, <2>9, <2>10, Kinds
<1>2. JointInv => NeverRefused
    BY <1>1
<1> QED  BY <1>2, JointInvariant, PTL

\* The output is shown only while what is visible is safe, the editor has yet
\* to look, or the word that covers the output is on its way.
THEOREM OutputShownOnlyWhenSafe == Spec => []ShownOnlyWhenSafe
<1>1. ASSUME JointInv PROVE ShownOnlyWhenSafe
    <2> SUFFICES ASSUME Plugin!Mode = "Safe", visible # "safe", ~evaluationDue
                 PROVE  NewerWordOnItsWay
        BY DEF ShownOnlyWhenSafe
    <2>1. Plugin!Live # {} /\ Plugin!Pending = {} /\ Plugin!Sensitive = {}
        BY DEF Plugin!Mode
    <2>2. PICK s \in Socket : conn[s] \in Plugin!Live
        BY <1>1, <2>1 DEF JointInv, EntryInv
    <2>3. clients[conn[s]].report \notin {"none", "sensitive"}
        BY <2>1, <2>2 DEF Plugin!Pending, Plugin!Sensitive
    <2>4. /\ ConnOf(s) /\ conn[s] # Over /\ wire[s] \in Seq(Frame)
          /\ read[s] \in 0..Len(wire[s])
        BY <1>1, <2>2, LiveConnection
    <2>5. read[s] > 1 /\ wire[s][read[s]].status \notin {"none", "sensitive"}
        BY <1>1, <2>2, <2>3, <2>4 DEF JointInv, EntryInv
    <2>6. wire[s] # << >> /\ wire[s][read[s]] # Goodbye /\ Last(wire[s]) = wire[s][Len(wire[s])]
        BY <2>4, <2>5 DEF ConnOf, Last
    <2>7. ASSUME read[s] # Len(wire[s])
          PROVE  Unread(s) # << >> /\ Last(Unread(s)) = Last(wire[s])
                 /\ Last(wire[s]) \in Frame
        <3>1. read[s] < Len(wire[s])
            BY <2>4, <2>7
        <3> QED  BY <2>4, <3>1, Rest DEF Unread
    <2>8. CASE disposed
        <3>1. Last(wire[s]) = Goodbye
            BY <2>4, <2>6, <2>8 DEF ConnOf
        <3>2. read[s] # Len(wire[s])
            BY <2>6, <3>1
        <3> QED  BY <2>2, <2>7, <3>1, <3>2 DEF NewerWordOnItsWay
    <2>9. CASE ~disposed
        <3>1. latestStatus = visible /\ visible = "sensitive"
            BY <1>1, <2>9 DEF JointInv, EditorInv, WindowInv, WindowTypes, Status
        <3>2. phase[s] = "open"
            BY <1>1, <2>4, <2>6, <2>9 DEF ConnOf, JointInv, StreamInv
        <3>3. IsState(Last(wire[s])) /\ Last(wire[s]).status = "sensitive"
            BY <1>1, <3>1, <3>2 DEF JointInv, StreamInv
        <3>4. read[s] # Len(wire[s])
            BY <2>5, <2>6, <3>3
        <3>5. Last(wire[s]) \in [type : {"STATE"}, sequence : Nat, status : {"sensitive"}]
            BY <2>7, <3>3, <3>4 DEF Frame, Hello, Goodbye, IsState
        <3> QED  BY <2>2, <2>7, <3>4, <3>5 DEF NewerWordOnItsWay
    <2> QED  BY <2>8, <2>9
<1>2. JointInv => ShownOnlyWhenSafe
    BY <1>1
<1> QED  BY <1>2, JointInvariant, PTL

\* A connection the window ends has told the plug-in GOODBYE before the plug-in
\* can see it end, unless it never got as far as HELLO.
THEOREM WindowLeavesNoFailure == Spec => []LeavesNoFailure
<1>1. ASSUME JointInv PROVE LeavesNoFailure
    <2> SUFFICES ASSUME NEW s \in Socket, conn[s] \in Plugin!Live, Unread(s) = << >>,
                        phase[s] \in {"closing", "unused"}
                 PROVE  disposed /\ wire[s] = << >>
        BY DEF LeavesNoFailure
    <2>1. /\ ConnOf(s) /\ conn[s] # Over /\ wire[s] \in Seq(Frame)
          /\ read[s] \in 0..Len(wire[s])
        BY <1>1, LiveConnection
    <2>2. disposed
        BY <2>1 DEF ConnOf
    <2>3. read[s] = Len(wire[s])
        <3>1. ~(read[s] < Len(wire[s]))
            BY <2>1, Rest DEF Unread
        <3> QED  BY <2>1, <3>1
    <2>4. ASSUME wire[s] # << >> PROVE FALSE
        <3>1. Last(wire[s]) = Goodbye /\ Last(wire[s]) = wire[s][Len(wire[s])]
            BY <2>1, <2>2, <2>4 DEF ConnOf, Last
        <3>2. Len(wire[s]) \in 1..read[s]
            BY <2>1, <2>3, <2>4, EmptySeq
        <3> QED  BY <2>1, <2>3, <3>1, <3>2 DEF ConnOf
    <2> QED  BY <2>2, <2>4
<1>2. JointInv => LeavesNoFailure
    BY <1>1
<1> QED  BY <1>2, JointInvariant, PTL
=============================================================================
