---------------------------- MODULE PrivacyState ----------------------------
(***************************************************************************)
(* The object behind obs-plugin/src/privacy-state.cpp: it aggregates every *)
(* connected VS Code window into one protection mode.  Every public method *)
(* holds mutex_ from its first to its last line, so each is one action.    *)
(*                                                                         *)
(* The callers are the pipe workers (one per connection), the accept       *)
(* thread, the OBS tick and the settings dialog; nothing in this class     *)
(* orders them, so any call may come next.  A call that returns false      *)
(* changes nothing: it is a stuttering step.                               *)
(*                                                                         *)
(* Time: a client's "age" is the time since its last_update.  The callers  *)
(* read the clock before they take the mutex, so a timestamp may already   *)
(* be "lag" old when it is used.                                           *)
(***************************************************************************)
EXTENDS Integers, FiniteSets

CONSTANTS
    ClientId,           \* the UUIDs a HELLO can carry
    Anonymous,          \* a connection whose HELLO has not been accepted
    LivenessTimeout,    \* liveness_timeout_, in steps of the clock
    MaxLag,             \* bound: the oldest timestamp a caller may bring
    MaxConnections,     \* bound: connections accepted in one run
    MaxSequence         \* bound: the largest sequence number sent

ASSUME ClientIdAssumption == Anonymous \notin ClientId
ASSUME BoundAssumption ==
    /\ LivenessTimeout \in Nat
    /\ MaxLag \in Nat
    /\ MaxConnections \in Nat
    /\ MaxSequence \in Nat

VARIABLES
    enabled,            \* enabled_
    clients,            \* clients_: live connection -> what it has told us
    disconnected,       \* disconnected_clients_
    latched,            \* untrusted_failure_latched_
    nextConnection      \* next_connection_id_

vars == <<enabled, clients, disconnected, latched, nextConnection>>

NoSequence == -1
MaxAge == LivenessTimeout + MaxLag + 1
Lag == 0..MaxLag
Report == {"none", "safe", "sensitive"}     \* std::optional<bool> sensitive

Client == [ id     : ClientId \cup {Anonymous},
            seq    : Nat \cup {NoSequence},
            report : Report,
            age    : 0..MaxAge ]

Live == DOMAIN clients
Pending == {c \in Live : clients[c].report = "none"}
Sensitive == {c \in Live : clients[c].report = "sensitive"}

\* mode_locked: any uncertainty about a client wins over a safe report.
Mode ==
    IF ~enabled THEN "Disabled"
    ELSE IF latched \/ disconnected > 0 THEN "Disconnected"
    ELSE IF Live = {} \/ Pending # {} THEN "AwaitingConnection"
    ELSE IF Sensitive # {} THEN "Sensitive"
    ELSE "Safe"

-----------------------------------------------------------------------------

Init ==
    /\ enabled = TRUE
    /\ clients = [c \in {} |-> Anonymous]
    /\ disconnected = 0
    /\ latched = FALSE
    /\ nextConnection = 1

\* Mistake: enabling trusts what clients said while the guard was off.
ForgetNothing(client) == client

\* A client that has to speak again before it is trusted.
Forget(client) == [client EXCEPT !.report = "none"]

\* set_enabled: disabling keeps all the bookkeeping, enabling starts afresh.
SetEnabled(value) ==
    /\ enabled # value
    /\ enabled' = value
    /\ IF value
       THEN /\ disconnected' = 0
            /\ latched' = FALSE
            /\ clients' = [c \in Live |-> Forget(clients[c])]
       ELSE UNCHANGED <<disconnected, latched, clients>>
    /\ UNCHANGED nextConnection

\* connection_opened
ConnectionOpened(lag) ==
    /\ nextConnection <= MaxConnections
    /\ clients' = [c \in Live \cup {nextConnection} |->
                     IF c = nextConnection
                     THEN [id |-> Anonymous, seq |-> NoSequence,
                           report |-> "none", age |-> lag]
                     ELSE clients[c]]
    /\ nextConnection' = nextConnection + 1
    /\ UNCHANGED <<enabled, disconnected, latched>>

\* Mistake: the search for a live client with the same identity is left out.
HelloAcceptedTwice(c, id) == c \in Live /\ clients[c].id = Anonymous

\* hello_received returns true: a first HELLO whose identity nobody live has.
HelloAccepted(c, id) ==
    /\ c \in Live
    /\ clients[c].id = Anonymous
    /\ \A d \in Live : clients[d].id # id

HelloReceived(c, id, lag) ==
    /\ HelloAccepted(c, id)
    /\ clients' = [clients EXCEPT ![c].id = id, ![c].age = lag]
    /\ UNCHANGED <<enabled, disconnected, latched, nextConnection>>

\* accept_sequence
SequenceAccepted(client, seq) == seq > client.seq

\* state_received returns true.
StateAccepted(c, seq) ==
    /\ c \in Live
    /\ clients[c].id # Anonymous
    /\ SequenceAccepted(clients[c], seq)

\* Mistake: the count of lost clients is decremented below zero.
RepaysBelowZero(c) == clients[c].report = "none"

\* Mistake: every periodic STATE pays, not only a client's first one.
RepaysEveryTime(c) == disconnected > 0

\* initial_state && disconnected_clients_ > 0
Repays(c) == clients[c].report = "none" /\ disconnected > 0

\* state_received: any STATE opens the latch, and a client's first one pays
\* for one lost client.
StateReceived(c, seq, report, lag) ==
    /\ StateAccepted(c, seq)
    /\ clients' = [clients EXCEPT ![c].seq = seq, ![c].report = report,
                                  ![c].age = lag]
    /\ latched' = FALSE
    /\ disconnected' = IF Repays(c) THEN disconnected - 1 ELSE disconnected
    /\ UNCHANGED <<enabled, nextConnection>>

\* Mistake: the entry of a failed connection is kept.
EraseNothing(cs) == UNCHANGED clients

\* clients_.erase
Erase(cs) == clients' = [c \in Live \ cs |-> clients[c]]

\* goodbye_received
GoodbyeAccepted(c) == c \in Live /\ clients[c].id # Anonymous

GoodbyeReceived(c) ==
    /\ GoodbyeAccepted(c)
    /\ Erase({c})
    /\ UNCHANGED <<enabled, disconnected, latched, nextConnection>>

\* record_connection_failure for every client of cs: one that has reported
\* is counted, one that has not latches the failure.
Reported(cs) == {c \in cs : clients[c].report # "none"}

\* Mistake: a window that has spoken is dropped without being counted.
RecordUnreportedFailures(cs) ==
    /\ latched' = (latched \/ Reported(cs) # cs)
    /\ UNCHANGED disconnected

\* Mistake: a failure before the first STATE leaves no trace.
RecordReportedFailures(cs) ==
    /\ disconnected' = disconnected + Cardinality(Reported(cs))
    /\ UNCHANGED latched

RecordFailures(cs) ==
    /\ disconnected' = disconnected + Cardinality(Reported(cs))
    /\ latched' = (latched \/ Reported(cs) # cs)

\* protocol_error and connection_closed have the same body.
ConnectionFailed(c) ==
    /\ c \in Live
    /\ RecordFailures({c})
    /\ Erase({c})
    /\ UNCHANGED <<enabled, nextConnection>>

\* Mistake: only clients that have reported can expire.
ExpiredReported(lag) ==
    {c \in Live : /\ clients[c].report # "none"
                  /\ clients[c].age - lag > LivenessTimeout}

\* tick: whoever has been silent for longer than the timeout has failed.
Expired(lag) == {c \in Live : clients[c].age - lag > LivenessTimeout}

Tick(lag) ==
    /\ RecordFailures(Expired(lag))
    /\ Erase(Expired(lag))
    /\ UNCHANGED <<enabled, nextConnection>>

\* The steady clock advances.
Older(age) == IF age = MaxAge THEN age ELSE age + 1

Elapse ==
    /\ clients' = [c \in Live |-> [clients[c] EXCEPT !.age = Older(@)]]
    /\ UNCHANGED <<enabled, disconnected, latched, nextConnection>>

-----------------------------------------------------------------------------

SomeTick == \E lag \in Lag : Tick(lag)

Next ==
    \/ \E value \in BOOLEAN : SetEnabled(value)
    \/ \E lag \in Lag : ConnectionOpened(lag)
    \/ \E c \in Live, id \in ClientId, lag \in Lag : HelloReceived(c, id, lag)
    \/ \E c \in Live, seq \in 0..MaxSequence,
          report \in {"safe", "sensitive"}, lag \in Lag :
             StateReceived(c, seq, report, lag)
    \/ \E c \in Live : GoodbyeReceived(c)
    \/ \E c \in Live : ConnectionFailed(c)
    \/ SomeTick
    \/ Elapse

Spec == Init /\ [][Next]_vars

\* OBS calls the tick once per frame and time passes.  Nothing obliges a
\* client to connect, speak or leave, nor a user to touch the settings.
Fairness == WF_vars(SomeTick) /\ WF_vars(Elapse)

FairSpec == Spec /\ Fairness

-----------------------------------------------------------------------------

\* Seen from outside, the class is the ledger of TrustLedger.
Ledger == INSTANCE TrustLedger WITH
    Connection <- 1..MaxConnections,
    on         <- enabled,
    trust      <- [c \in Live |-> clients[c].report],
    debt       <- disconnected,
    tainted    <- latched

-----------------------------------------------------------------------------
(***************************************************************************)
(* Properties                                                              *)
(***************************************************************************)

\* The types of the fields, and that a client reports only after its HELLO.
TypeOK ==
    /\ enabled \in BOOLEAN
    /\ latched \in BOOLEAN
    /\ disconnected \in Nat
    /\ nextConnection \in Nat \ {0}
    /\ Live \subseteq 1..(nextConnection - 1)
    /\ clients \in [Live -> Client]

\* No two live connections speak for the same VS Code window, whatever order
\* reconnects, expiries and duplicate HELLOs come in (hello_received).
UniqueClient ==
    \A c, d \in Live :
        clients[c].id = clients[d].id /\ clients[c].id # Anonymous => c = d

\* A report can come only from a connection that has identified itself and
\* sent a numbered STATE; a forgotten report keeps its sequence number, so
\* the STATE that preceded a re-enable cannot be replayed after it.
ReportIsSequenced ==
    \A c \in Live : /\ clients[c].report # "none" => clients[c].seq # NoSequence
                    /\ clients[c].seq # NoSequence => clients[c].id # Anonymous

\* One connection is counted as lost at most once, although the tick, the
\* protocol error and the close all race to record its failure.
LostAtMostOnce == disconnected + Cardinality(Live) < nextConnection

\* c sends an accepted STATE in this step.
Speaks(c) == c \in Live' /\ clients'[c].seq # clients[c].seq

\* Somebody is dropped in this step: the pipe broke, a frame was refused, or
\* the tick found a silence.  What tells a drop from a GOODBYE is the call that
\* is made, never the trace it leaves.
Drops ==
    /\ Live' # Live
    /\ SomeTick \/ \E c \in Live : ConnectionFailed(c)

\* The output becomes visible again only because some window said SAFE just
\* now, or because a window said GOODBYE; never because the guard was turned
\* on, because a client was dropped, or because time passed.
UncoverNeedsWord ==
    [][ Mode # "Safe" /\ Mode' = "Safe" =>
          /\ enabled
          /\ ~Drops
          /\ \/ \E c \in Live : Speaks(c) /\ clients'[c].report = "safe"
             \/ \E c \in Live : GoodbyeReceived(c) ]_vars

\* Dropping connections while the guard is on always ends in Disconnected,
\* however many are dropped at once and however much or little each has said
\* (protocol_error, connection_closed, tick); and the mode stays Disconnected
\* until some window speaks or the guard is turned off.
LossCovers ==
    [][ /\ enabled /\ Drops => Mode' = "Disconnected"
        /\ Mode = "Disconnected" /\ Mode' # "Disconnected"
             => ~enabled' \/ \E c \in Live : Speaks(c) ]_vars

\* Every connection is heard from again and again, or it is dropped: a window
\* that hangs without closing its pipe cannot stay trusted (tick).
SilentClientDropped ==
    \A c \in 1..MaxConnections :
        []<>(c \notin Live \/ clients[c].age <= MaxLag)

\* Every call of the class is one entry of the ledger or changes nothing that
\* the output depends on: no interleaving of workers, tick and dialog makes
\* the class trust a window the ledger would not.
KeepsLedger == Ledger!Spec

\* docs/protocol.md:34-36 and the comment in state_received: the STATE of a
\* connection that was already established does not clear a failure.
ExistingClientCannotUnlatch ==
    [][ \A c \in Live :
          Speaks(c) /\ clients[c].report # "none" /\ latched => latched' ]_vars

\* The same promise for the counted failures: a client whose STATE has been
\* accepted before (it has a sequence number) is an existing client.
ExistingClientCannotRepay ==
    [][ \A c \in Live :
          Speaks(c) /\ clients[c].seq # NoSequence
            => disconnected' = disconnected ]_vars
=============================================================================
