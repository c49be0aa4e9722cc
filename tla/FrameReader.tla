---------------------------- MODULE FrameReader ----------------------------
(***************************************************************************)
(* The read loop of NamedPipeServer::process_connection: the bytes of one  *)
(* connection arrive in pieces of any length and are put together to       *)
(* lines, each of which is parsed and applied to the connection's entry in *)
(* PrivacyState.                                                           *)
(*                                                                         *)
(* The entry is the part of PrivacyState::Client that decides whether a    *)
(* frame is accepted (PrivacyState.tla models the rest of it).             *)
(***************************************************************************)
EXTENDS FrameParser

CONSTANTS
    Streams,        \* what a client may send: its lines and a tail
    BufferSize,     \* pipe_buffer_size
    Claimed         \* the identities of other live connections

ASSUME StreamAssumption == Streams \subseteq [lines : Seq(Line), tail : Nat]
ASSUME BufferAssumption == BufferSize \in Nat \ {0}

VARIABLES
    lines, tail,    \* the stream of this connection
    unread,         \* bytes of it that have not been read
    pending,        \* bytes in pending
    taken,          \* lines that have left it again
    entry,          \* the connection's entry, or NoEntry
    worker,         \* where process_connection is
    running         \* running_

stream == <<lines, tail>>
vars == <<stream, unread, pending, taken, entry, worker, running>>

NoEntry == [id |-> << >>, seq |-> -2]
Unidentified == [id |-> << >>, seq |-> -1]

\* "goodbye" and "failed" set graceful and end the loop.
Outcome == {"goodbye", "failed", "closed", "left"}

\* Mistake: a second HELLO renames the connection.
AcceptsRenaming(frame) ==
    /\ entry # NoEntry
    /\ CASE frame.kind = "hello" -> frame.id \notin Claimed
         [] frame.kind = "state" -> entry.id # << >> /\ frame.seq > entry.seq
         [] OTHER -> entry.id # << >>

\* apply_frame does not return Invalid.
Accepts(frame) ==
    /\ entry # NoEntry
    /\ CASE frame.kind = "hello" -> entry.id = << >> /\ frame.id \notin Claimed
         [] frame.kind = "state" -> entry.id # << >> /\ frame.seq > entry.seq
         [] OTHER -> entry.id # << >>

Applied(frame) ==
    CASE frame.kind = "hello" -> [entry EXCEPT !.id = frame.id]
      [] frame.kind = "state" -> [entry EXCEPT !.seq = frame.seq]
      [] OTHER -> NoEntry

\* Mistake: a line is taken before its newline has come.
LineBufferedEarly == taken < Len(lines) /\ pending >= lines[taken + 1].size

\* pending.find('\n'): the next line is complete.
LineBuffered == taken < Len(lines) /\ pending > lines[taken + 1].size

\* fail_protocol
FailProtocol ==
    /\ worker' = "failed"
    /\ entry' = NoEntry

\* PeekNamedPipe and ReadFile.
Read(n) ==
    /\ worker = "poll" /\ running
    /\ n <= unread
    /\ unread' = unread - n
    /\ pending' = pending + n
    /\ worker' = "frames"
    /\ UNCHANGED <<stream, taken, entry, running>>

\* Either of them fails, or running_ has become false.
LeaveLoop ==
    /\ worker = "poll"
    /\ worker' = "leave"
    /\ UNCHANGED <<stream, unread, pending, taken, entry, running>>

\* One round of the inner loop.
TakeLine ==
    /\ worker = "frames" /\ LineBuffered
    /\ LET frame == ParseFrame(lines[taken + 1]) IN
       IF frame = NoFrame \/ ~Accepts(frame)
       THEN FailProtocol /\ UNCHANGED <<pending, taken>>
       ELSE /\ entry' = Applied(frame)
            /\ taken' = taken + 1
            /\ pending' = pending - (lines[taken + 1].size + 1)
            /\ worker' = IF frame.kind = "goodbye" THEN "goodbye" ELSE "frames"
    /\ UNCHANGED <<stream, unread, running>>

\* Mistake: a partial frame that follows a complete one is not measured.
OversizedFirst == taken = 0 /\ pending > MaxFrameSize

\* Mistake: a partial frame of the largest legal size is too large.
OversizedAtLimit == pending >= MaxFrameSize

Oversized == pending > MaxFrameSize

\* Behind the inner loop.
CheckPartialFrame ==
    /\ worker = "frames" /\ ~LineBuffered
    /\ IF Oversized THEN FailProtocol ELSE worker' = "poll" /\ UNCHANGED entry
    /\ UNCHANGED <<stream, unread, pending, taken, running>>

\* Behind the outer loop: connection_closed if the server still runs.
CloseConnection ==
    /\ worker = "leave"
    /\ IF running THEN worker' = "closed" /\ entry' = NoEntry
                  ELSE worker' = "left" /\ UNCHANGED entry
    /\ UNCHANGED <<stream, unread, pending, taken, running>>

\* PrivacyState::tick gives the client up; stop.
Expire ==
    /\ entry # NoEntry
    /\ entry' = NoEntry
    /\ UNCHANGED <<stream, unread, pending, taken, worker, running>>

Stop ==
    /\ running
    /\ running' = FALSE
    /\ UNCHANGED <<stream, unread, pending, taken, entry, worker>>

-----------------------------------------------------------------------------
\* Where each of some lines ends: behind its newline.
Ends(ls) == Accumulated(1, [i \in 1..Len(ls) |-> ls[i].size + 1])

Bytes(s) == Ends(s.lines)[Len(s.lines)] + s.tail

Init ==
    /\ \E s \in Streams :
         /\ lines = s.lines /\ tail = s.tail
         /\ unread = Bytes(s)
    /\ pending = 0
    /\ taken = 0
    /\ entry = Unidentified
    /\ worker = "poll"
    /\ running = TRUE

Reads == \E n \in 1..BufferSize : Read(n)

Next ==
    \/ Reads \/ LeaveLoop \/ TakeLine \/ CheckPartialFrame \/ CloseConnection
    \/ Expire \/ Stop

Spec == Init /\ [][Next]_vars

WorkerStep ==
    \/ Reads \/ TakeLine \/ CheckPartialFrame \/ CloseConnection
    \/ ~running /\ LeaveLoop

\* The worker's thread is scheduled and the bytes arrive.
FairSpec == Spec /\ WF_vars(WorkerStep)

-----------------------------------------------------------------------------
(***************************************************************************)
(* Properties                                                              *)
(***************************************************************************)
TypeOK ==
    /\ unread \in Nat /\ pending \in Nat /\ taken \in 0..Len(lines)
    /\ entry \in {NoEntry} \cup [id : Word, seq : Nat \cup {-1}]
    /\ worker \in {"poll", "frames", "leave"} \cup Outcome
    /\ running \in BOOLEAN

\* protocol.hpp:11: no client can grow the buffer for ever; between two reads
\* it holds at most one frame that may still become legal.
BufferIsBounded ==
    /\ pending <= MaxFrameSize + BufferSize
    /\ worker = "poll" => pending <= MaxFrameSize

\* However the bytes are cut up, the connection is read line by line: no frame
\* is lost, applied twice or refused because of where a read ended.
Abstract == INSTANCE LineReader WITH
    standing <- entry # NoEntry,
    outcome  <- IF worker \in Outcome THEN worker ELSE "reading"

ReadsLineByLine == Abstract!Spec
=============================================================================
