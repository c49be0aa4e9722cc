------------------------- MODULE PrivacyStateProofs -------------------------
(***************************************************************************)
(* What PrivacyState guarantees for any number of connections, clients,    *)
(* sequence numbers and any timeout.                                       *)
(***************************************************************************)
EXTENDS PrivacyState, FiniteSetTheorems, TLAPS

USE DEF Live

(***************************************************************************)
(* Lemmas                                                                  *)
(***************************************************************************)

\* Only finitely many connections are live, so a count of them is a number.
LEMMA LiveIsFinite ==
    ASSUME TypeOK
    PROVE  /\ IsFiniteSet(Live)
           /\ \A cs \in SUBSET Live : IsFiniteSet(cs) /\ Cardinality(cs) \in Nat
<1>1. nextConnection - 1 \in Int
    BY DEF TypeOK
<1>2. IsFiniteSet(1..(nextConnection - 1))
    BY <1>1, FS_Interval
<1>3. IsFiniteSet(Live)
    BY <1>2, FS_Subset DEF TypeOK
<1>4. ASSUME NEW cs \in SUBSET Live
      PROVE  IsFiniteSet(cs) /\ Cardinality(cs) \in Nat
    BY <1>3, FS_Subset, FS_CardinalityType
<1>5. QED BY <1>3, <1>4

\* Recording failures keeps the types: the count grows by a number.
LEMMA RecordKeepsTypes ==
    ASSUME TypeOK, NEW cs \in SUBSET Live, RecordFailures(cs)
    PROVE  disconnected' \in Nat /\ latched' \in BOOLEAN
<1>1. Cardinality(Reported(cs)) \in Nat
    BY LiveIsFinite DEF Reported
<1>2. QED BY <1>1 DEF RecordFailures, TypeOK

\* Erasing connections keeps the entries of the others.
LEMMA EraseKeepsTypes ==
    ASSUME TypeOK, NEW cs \in SUBSET Live, Erase(cs), UNCHANGED nextConnection
    PROVE  /\ Live' \subseteq 1..(nextConnection' - 1)
           /\ clients' \in [Live' -> Client]
BY DEF TypeOK, Erase

(***************************************************************************)
(* Type correctness                                                        *)
(***************************************************************************)

\* The constructor starts with fields of the right types.
LEMMA InitTypeOK == Init => TypeOK
<1> SUFFICES ASSUME Init
             PROVE  TypeOK
    OBVIOUS
<1>1. Live = {}
    BY DEF Init
<1>2. clients \in [Live -> Client]
    BY <1>1 DEF Init
<1>3. enabled \in BOOLEAN /\ latched \in BOOLEAN
    BY DEF Init
<1>4. disconnected \in Nat /\ nextConnection \in Nat \ {0}
    BY DEF Init
<1>5. Live \subseteq 1..(nextConnection - 1)
    BY <1>1
<1>6. QED BY <1>2, <1>3, <1>4, <1>5 DEF TypeOK

\* One step per call of the class.
LEMMA NextTypeOK == TypeOK /\ [Next]_vars => TypeOK'
<1> SUFFICES ASSUME TypeOK, [Next]_vars
             PROVE  TypeOK'
    OBVIOUS
<1> USE DEF TypeOK
<1>1. ASSUME NEW value \in BOOLEAN, SetEnabled(value)
      PROVE  TypeOK'
  <2>1. enabled' \in BOOLEAN /\ latched' \in BOOLEAN
      BY <1>1 DEF SetEnabled
  <2>2. disconnected' \in Nat /\ nextConnection' = nextConnection
      BY <1>1 DEF SetEnabled
  <2>3. Live' = Live /\ clients' \in [Live -> Client]
    <3>1. \A client \in Client : Forget(client) \in Client
        BY DEF Forget, Client, Report
    <3>2. QED BY <1>1, <3>1 DEF SetEnabled
  <2>4. QED BY <2>1, <2>2, <2>3
<1>2. ASSUME NEW lag \in Lag, ConnectionOpened(lag)
      PROVE  TypeOK'
  <2>1. lag \in 0..MaxAge
      BY BoundAssumption DEF Lag, MaxAge
  <2>2. [id |-> Anonymous, seq |-> NoSequence, report |-> "none", age |-> lag]
            \in Client
      BY <2>1 DEF Client, Report
  <2>3. clients' \in [Live' -> Client]
      BY <1>2, <2>2 DEF ConnectionOpened
  <2>4. Live' \subseteq 1..(nextConnection' - 1)
      BY <1>2 DEF ConnectionOpened
  <2>5. QED BY <1>2, <2>3, <2>4 DEF ConnectionOpened
<1>3. ASSUME NEW c \in Live, NEW id \in ClientId, NEW lag \in Lag,
             HelloReceived(c, id, lag)
      PROVE  TypeOK'
  <2>1. lag \in 0..MaxAge
      BY BoundAssumption DEF Lag, MaxAge
  <2>2. QED BY <1>3, <2>1 DEF HelloReceived, Client
<1>4. ASSUME NEW c \in Live, NEW seq \in 0..MaxSequence,
             NEW report \in {"safe", "sensitive"}, NEW lag \in Lag,
             StateReceived(c, seq, report, lag)
      PROVE  TypeOK'
  <2>1. lag \in 0..MaxAge /\ seq \in Nat /\ report \in Report
      BY BoundAssumption DEF Lag, MaxAge, Report
  <2>2. clients' \in [Live' -> Client] /\ Live' = Live
      BY <1>4, <2>1 DEF StateReceived, Client
  <2>3. disconnected' \in Nat
      BY <1>4 DEF StateReceived, Repays
  <2>4. QED BY <1>4, <2>2, <2>3 DEF StateReceived
<1>5. ASSUME NEW c \in Live, GoodbyeReceived(c)
      PROVE  TypeOK'
    BY <1>5, EraseKeepsTypes DEF GoodbyeReceived
<1>6. ASSUME NEW c \in Live, ConnectionFailed(c)
      PROVE  TypeOK'
    BY <1>6, EraseKeepsTypes, RecordKeepsTypes DEF ConnectionFailed
<1>7. ASSUME NEW lag \in Lag, Tick(lag)
      PROVE  TypeOK'
  <2>1. Expired(lag) \in SUBSET Live
      BY DEF Expired
  <2>2. QED BY <1>7, <2>1, EraseKeepsTypes, RecordKeepsTypes DEF Tick
<1>8. CASE Elapse
  <2>1. \A age \in 0..MaxAge : Older(age) \in 0..MaxAge
      BY BoundAssumption DEF Older, MaxAge
  <2>2. QED BY <1>8, <2>1 DEF Elapse, Client
<1>9. CASE UNCHANGED vars
    BY <1>9 DEF vars
<1>10. QED
    BY <1>1, <1>2, <1>3, <1>4, <1>5, <1>6, <1>7, <1>8, <1>9 DEF Next, SomeTick

\* Every field keeps its type: the count of lost clients, an unsigned number
\* in the code, never goes below zero.
THEOREM TypeCorrect == Spec => []TypeOK
BY InitTypeOK, NextTypeOK, PTL DEF Spec

(***************************************************************************)
(* Identities and reports                                                  *)
(***************************************************************************)

\* Erasing entries can not break what holds of every entry, or of every two.
LEMMA EraseKeepsIdentity ==
    ASSUME NEW cs \in SUBSET Live, Erase(cs)
    PROVE  /\ UniqueClient => UniqueClient'
           /\ ReportIsSequenced => ReportIsSequenced'
BY DEF Erase, UniqueClient, ReportIsSequenced

\* No call lets a second connection take an identity, or a report come early.
LEMMA NextIdentity ==
    TypeOK /\ UniqueClient /\ ReportIsSequenced /\ [Next]_vars
        => UniqueClient' /\ ReportIsSequenced'
<1> SUFFICES ASSUME TypeOK, UniqueClient, ReportIsSequenced, [Next]_vars
             PROVE  UniqueClient' /\ ReportIsSequenced'
    OBVIOUS
<1> USE DEF UniqueClient, ReportIsSequenced
<1>a. clients \in [Live -> Client] /\ nextConnection \notin Live
    BY DEF TypeOK
<1>1. ASSUME NEW value \in BOOLEAN, SetEnabled(value)
      PROVE  UniqueClient' /\ ReportIsSequenced'
  <2>1. CASE clients' = [c \in Live |-> Forget(clients[c])]
      BY <1>a, <2>1 DEF Forget, Client
  <2>2. CASE clients' = clients
      BY <2>2
  <2>3. QED BY <1>1, <2>1, <2>2 DEF SetEnabled
<1>2. ASSUME NEW lag \in Lag, ConnectionOpened(lag)
      PROVE  UniqueClient' /\ ReportIsSequenced'
    BY <1>2, <1>a DEF ConnectionOpened
<1>3. ASSUME NEW c \in Live, NEW id \in ClientId, NEW lag \in Lag,
             HelloReceived(c, id, lag)
      PROVE  UniqueClient' /\ ReportIsSequenced'
    BY <1>3, <1>a, ClientIdAssumption DEF HelloReceived, HelloAccepted, Client
<1>4. ASSUME NEW c \in Live, NEW seq \in 0..MaxSequence,
             NEW report \in {"safe", "sensitive"}, NEW lag \in Lag,
             StateReceived(c, seq, report, lag)
      PROVE  UniqueClient' /\ ReportIsSequenced'
    BY <1>4, <1>a DEF StateReceived, StateAccepted, NoSequence, Client
<1>5. ASSUME NEW c \in Live, GoodbyeReceived(c)
      PROVE  UniqueClient' /\ ReportIsSequenced'
    BY <1>5, EraseKeepsIdentity DEF GoodbyeReceived
<1>6. ASSUME NEW c \in Live, ConnectionFailed(c)
      PROVE  UniqueClient' /\ ReportIsSequenced'
    BY <1>6, EraseKeepsIdentity DEF ConnectionFailed
<1>7. ASSUME NEW lag \in Lag, Tick(lag)
      PROVE  UniqueClient' /\ ReportIsSequenced'
    BY <1>7, EraseKeepsIdentity DEF Tick, Expired
<1>8. CASE Elapse
    BY <1>8, <1>a DEF Elapse, Client
<1>9. CASE UNCHANGED vars
    BY <1>9 DEF vars
<1>10. QED
    BY <1>1, <1>2, <1>3, <1>4, <1>5, <1>6, <1>7, <1>8, <1>9 DEF Next, SomeTick

\* No two live connections speak for the same window, and a report comes only
\* from a connection that has identified itself and numbered its STATE.
THEOREM Identity == Spec => [](UniqueClient /\ ReportIsSequenced)
<1>1. Init => UniqueClient /\ ReportIsSequenced
    BY DEF Init, UniqueClient, ReportIsSequenced
<1>2. QED BY <1>1, TypeCorrect, NextIdentity, PTL DEF Spec

(***************************************************************************)
(* Each connection is lost at most once                                    *)
(***************************************************************************)

\* What leaves the live connections covers what joins the lost ones.
LEMMA LossIsCovered ==
    ASSUME TypeOK, LostAtMostOnce, NEW cs \in SUBSET Live,
           RecordFailures(cs), Erase(cs), UNCHANGED nextConnection
    PROVE  LostAtMostOnce'
<1>1. /\ IsFiniteSet(Live) /\ IsFiniteSet(cs)
      /\ Cardinality(Live) \in Nat /\ Cardinality(cs) \in Nat
    BY LiveIsFinite
<1>2. /\ Cardinality(Reported(cs)) \in Nat
      /\ Cardinality(Reported(cs)) <= Cardinality(cs)
    BY <1>1, LiveIsFinite, FS_Subset DEF Reported
<1>3. Live \cap cs = cs /\ Live' = Live \ cs
    BY DEF Erase
<1>4. Cardinality(Live') = Cardinality(Live) - Cardinality(cs)
    BY <1>1, <1>3, FS_Difference
<1>5. QED BY <1>1, <1>2, <1>4 DEF LostAtMostOnce, RecordFailures, TypeOK

\* No call counts a loss that no connection has left behind.
LEMMA NextLost == TypeOK /\ LostAtMostOnce /\ [Next]_vars => LostAtMostOnce'
<1> SUFFICES ASSUME TypeOK, LostAtMostOnce, [Next]_vars
             PROVE  LostAtMostOnce'
    OBVIOUS
<1>a. /\ IsFiniteSet(Live) /\ Cardinality(Live) \in Nat
      /\ disconnected \in Nat /\ nextConnection \in Nat
      /\ nextConnection \notin Live
    BY LiveIsFinite DEF TypeOK
<1>1. ASSUME NEW value \in BOOLEAN, SetEnabled(value)
      PROVE  LostAtMostOnce'
  <2>1. Live' = Live /\ nextConnection' = nextConnection
      BY <1>1 DEF SetEnabled
  <2>2. disconnected' = 0 \/ disconnected' = disconnected
      BY <1>1 DEF SetEnabled
  <2>3. QED BY <1>a, <2>1, <2>2 DEF LostAtMostOnce
<1>2. ASSUME NEW lag \in Lag, ConnectionOpened(lag)
      PROVE  LostAtMostOnce'
  <2>1. Live' = Live \cup {nextConnection}
      BY <1>2 DEF ConnectionOpened
  <2>2. Cardinality(Live') = Cardinality(Live) + 1
      BY <1>a, <2>1, FS_AddElement
  <2>3. QED BY <1>2, <1>a, <2>2 DEF ConnectionOpened, LostAtMostOnce
<1>3. ASSUME NEW c \in Live, NEW id \in ClientId, NEW lag \in Lag,
             HelloReceived(c, id, lag)
      PROVE  LostAtMostOnce'
    BY <1>3 DEF HelloReceived, LostAtMostOnce, TypeOK
<1>4. ASSUME NEW c \in Live, NEW seq \in 0..MaxSequence,
             NEW report \in {"safe", "sensitive"}, NEW lag \in Lag,
             StateReceived(c, seq, report, lag)
      PROVE  LostAtMostOnce'
  <2>1. Live' = Live /\ nextConnection' = nextConnection
      BY <1>4 DEF StateReceived, TypeOK
  <2>2. disconnected' \in Nat /\ disconnected' <= disconnected
      BY <1>4, <1>a DEF StateReceived, Repays
  <2>3. QED BY <1>a, <2>1, <2>2 DEF LostAtMostOnce
<1>5. ASSUME NEW c \in Live, GoodbyeReceived(c)
      PROVE  LostAtMostOnce'
  <2>1. Live' = Live \ {c}
      BY <1>5 DEF GoodbyeReceived, Erase
  <2>2. Cardinality(Live') = Cardinality(Live) - 1
      BY <1>a, <2>1, FS_RemoveElement
  <2>3. QED BY <1>5, <1>a, <2>2 DEF GoodbyeReceived, LostAtMostOnce
<1>6. ASSUME NEW c \in Live, ConnectionFailed(c)
      PROVE  LostAtMostOnce'
    BY <1>6, LossIsCovered DEF ConnectionFailed
<1>7. ASSUME NEW lag \in Lag, Tick(lag)
      PROVE  LostAtMostOnce'
  <2>1. Expired(lag) \in SUBSET Live
      BY DEF Expired
  <2>2. QED BY <1>7, <2>1, LossIsCovered DEF Tick
<1>8. CASE Elapse
    BY <1>8 DEF Elapse, LostAtMostOnce
<1>9. CASE UNCHANGED vars
    BY <1>9 DEF vars, LostAtMostOnce
<1>10. QED
    BY <1>1, <1>2, <1>3, <1>4, <1>5, <1>6, <1>7, <1>8, <1>9 DEF Next, SomeTick

\* However the tick, a protocol error and a closed pipe race for the same
\* connection, its failure is counted at most once.
THEOREM LostOnce == Spec => []LostAtMostOnce
<1>1. Init => LostAtMostOnce
    BY FS_EmptySet DEF Init, LostAtMostOnce
<1>2. QED BY <1>1, TypeCorrect, NextLost, PTL DEF Spec

(***************************************************************************)
(* When the output becomes safe                                            *)
(***************************************************************************)

\* What mode() has seen when it says Safe.
LEMMA SafeMeans ==
    Mode = "Safe" <=> /\ enabled /\ ~latched /\ ~(disconnected > 0)
                      /\ Live # {} /\ Pending = {} /\ Sensitive = {}
BY DEF Mode

\* The mode depends on who is live and what they report.
LEMMA SameReportsSameSafety ==
    ASSUME Live' = Live, \A c \in Live : clients'[c].report = clients[c].report,
           UNCHANGED <<enabled, disconnected, latched>>, Mode' = "Safe"
    PROVE  Mode = "Safe"
<1>1. Pending' = Pending /\ Sensitive' = Sensitive
    BY DEF Pending, Sensitive
<1>2. QED BY <1>1 DEF Mode

\* A step that loses somebody ends in Disconnected, if the guard is on.
LEMMA LossDisconnects ==
    ASSUME TypeOK, NEW cs \in SUBSET Live, cs # {}, RecordFailures(cs)
    PROVE  latched' \/ disconnected' > 0
<1>1. CASE Reported(cs) = cs
  <2>1. IsFiniteSet(Reported(cs)) /\ Cardinality(Reported(cs)) \in Nat
      BY LiveIsFinite DEF Reported
  <2>2. Cardinality(Reported(cs)) # 0
      BY <1>1, <2>1, FS_EmptySet
  <2>3. QED BY <2>1, <2>2 DEF RecordFailures, TypeOK
<1>2. CASE Reported(cs) # cs
    BY <1>2 DEF RecordFailures
<1>3. QED BY <1>1, <1>2

\* Losing connections never makes the output safe.
LEMMA LossNeverUncovers ==
    ASSUME TypeOK, NEW cs \in SUBSET Live, RecordFailures(cs), Erase(cs),
           UNCHANGED enabled, Mode' = "Safe"
    PROVE  Mode = "Safe"
<1>1. CASE cs = {}
  <2>1. Reported(cs) = {} /\ Cardinality(Reported(cs)) = 0
      BY <1>1, FS_EmptySet DEF Reported
  <2>2. disconnected' = disconnected
      BY <2>1 DEF RecordFailures, TypeOK
  <2>3. latched' = latched
      BY <1>1, <2>1 DEF RecordFailures, TypeOK
  <2>4. Live' = Live /\ \A c \in Live : clients'[c].report = clients[c].report
      BY <1>1 DEF Erase
  <2>5. QED BY <2>2, <2>3, <2>4, SameReportsSameSafety
<1>2. CASE cs # {}
  <2>1. latched' \/ disconnected' > 0
      BY <1>2, LossDisconnects
  <2>2. Mode' # "Safe"
      BY <2>1 DEF Mode
  <2>3. QED BY <2>2
<1>3. QED BY <1>1, <1>2

\* The calls that end in Safe are an accepted SAFE and a GOODBYE.
LEMMA UncoverStep ==
    ASSUME TypeOK, Next, Mode # "Safe", Mode' = "Safe"
    PROVE  /\ enabled
           /\ ~Drops
           /\ \/ \E c \in Live : Speaks(c) /\ clients'[c].report = "safe"
              \/ \E c \in Live : GoodbyeReceived(c)
<1> DEFINE Word == \/ \E c \in Live : Speaks(c) /\ clients'[c].report = "safe"
                   \/ \E c \in Live : GoodbyeReceived(c)
<1>a. /\ clients \in [Live -> Client]
      /\ nextConnection \notin Live
    BY DEF TypeOK
<1>b. /\ enabled' /\ Live' # {} /\ Pending' = {} /\ Sensitive' = {}
    BY DEF Mode
<1>1. ASSUME NEW value \in BOOLEAN, SetEnabled(value)
      PROVE  FALSE
  <2>1. clients' = [c \in Live |-> Forget(clients[c])]
      BY <1>1, <1>b DEF SetEnabled
  <2>2. \A c \in Live : Forget(clients[c]).report = "none"
      BY <1>a DEF Forget, Client
  <2>3. QED BY <1>b, <2>1, <2>2 DEF Pending
<1>2. ASSUME NEW lag \in Lag, ConnectionOpened(lag)
      PROVE  FALSE
    BY <1>2, <1>b DEF ConnectionOpened, Pending
<1>3. ASSUME NEW c \in Live, NEW id \in ClientId, NEW lag \in Lag,
             HelloReceived(c, id, lag)
      PROVE  FALSE
  <2>1. Live' = Live /\ \A d \in Live : clients'[d].report = clients[d].report
      BY <1>3, <1>a DEF HelloReceived, Client
  <2>2. QED BY <1>3, <2>1, SameReportsSameSafety DEF HelloReceived
<1>4. ASSUME NEW c \in Live, NEW seq \in 0..MaxSequence,
             NEW report \in {"safe", "sensitive"}, NEW lag \in Lag,
             StateReceived(c, seq, report, lag)
      PROVE  enabled /\ Word
  <2>1. /\ c \in Live' /\ clients'[c].seq = seq /\ clients'[c].report = report
        /\ enabled' = enabled
      BY <1>4, <1>a DEF StateReceived, Client
  <2>2. seq # clients[c].seq
      BY <1>4, <1>a DEF StateReceived, StateAccepted, SequenceAccepted, Client,
                        NoSequence
  <2>3. report = "safe"
      BY <1>b, <2>1 DEF Sensitive
  <2>4. QED BY <1>b, <2>1, <2>2, <2>3 DEF Speaks
<1>5. ASSUME NEW c \in Live, GoodbyeReceived(c)
      PROVE  enabled /\ Word
    BY <1>5, <1>b DEF GoodbyeReceived
<1>6. ASSUME NEW c \in Live, ConnectionFailed(c)
      PROVE  FALSE
    BY <1>6, LossNeverUncovers DEF ConnectionFailed
<1>7. ASSUME NEW lag \in Lag, Tick(lag)
      PROVE  FALSE
  <2>1. Expired(lag) \in SUBSET Live
      BY DEF Expired
  <2>2. QED BY <1>7, <2>1, LossNeverUncovers DEF Tick
<1>8. CASE Elapse
  <2>1. Live' = Live /\ \A d \in Live : clients'[d].report = clients[d].report
      BY <1>8, <1>a DEF Elapse, Client
  <2>2. QED BY <1>8, <2>1, SameReportsSameSafety DEF Elapse
<1>9. ~Drops
    BY <1>6, <1>7 DEF Drops, SomeTick
<1>10. QED
    BY <1>1, <1>2, <1>3, <1>4, <1>5, <1>6, <1>7, <1>8, <1>9 DEF Next, SomeTick

\* The output becomes visible only on some window's word: a SAFE it has just
\* sent, or its GOODBYE.
THEOREM UncoverOnlyOnWord == Spec => UncoverNeedsWord
<1>1. TypeOK /\ [Next]_vars =>
        [ Mode # "Safe" /\ Mode' = "Safe" =>
            /\ enabled
            /\ ~Drops
            /\ \/ \E c \in Live : Speaks(c) /\ clients'[c].report = "safe"
               \/ \E c \in Live : GoodbyeReceived(c) ]_vars
    BY UncoverStep
<1>2. QED BY <1>1, TypeCorrect, PTL DEF Spec, UncoverNeedsWord

\* A loss that is recorded shows at once.
LEMMA LossShows ==
    ASSUME TypeOK, NEW cs \in SUBSET Live, RecordFailures(cs), Erase(cs),
           UNCHANGED enabled, enabled, Live \ Live' # {}
    PROVE  Mode' = "Disconnected"
<1>1. cs # {}
    BY DEF Erase
<1>2. latched' \/ disconnected' > 0
    BY <1>1, LossDisconnects
<1>3. QED BY <1>2 DEF Mode

\* Every call that drops somebody covers.
LEMMA DropsShow ==
    ASSUME TypeOK, enabled, Drops
    PROVE  Mode' = "Disconnected"
<1>a. Live \ Live' # {}
    BY DEF Drops, SomeTick, Tick, ConnectionFailed, Erase
<1>1. ASSUME NEW c \in Live, ConnectionFailed(c)
      PROVE  Mode' = "Disconnected"
    BY <1>1, <1>a, LossShows DEF ConnectionFailed
<1>2. ASSUME NEW lag \in Lag, Tick(lag)
      PROVE  Mode' = "Disconnected"
  <2>1. Expired(lag) \in SUBSET Live
      BY DEF Expired
  <2>2. QED BY <1>2, <1>a, <2>1, LossShows DEF Tick
<1>3. QED BY <1>1, <1>2 DEF Drops, SomeTick

\* While nobody speaks and the guard is not touched, no failure is forgotten.
LEMMA FailuresStay ==
    ASSUME TypeOK, [Next]_vars, enabled, enabled'
    PROVE  \/ \E c \in Live : Speaks(c)
           \/ /\ latched => latched'
              /\ disconnected > 0 => disconnected' > 0
<1>a. clients \in [Live -> Client] /\ disconnected \in Nat
    BY DEF TypeOK
<1>1. ASSUME NEW value \in BOOLEAN, SetEnabled(value)
      PROVE  FALSE
    BY <1>1 DEF SetEnabled, TypeOK
<1>2. ASSUME NEW c \in Live, NEW seq \in 0..MaxSequence,
             NEW report \in {"safe", "sensitive"}, NEW lag \in Lag,
             StateReceived(c, seq, report, lag)
      PROVE  Speaks(c)
  <2>1. c \in Live' /\ clients'[c].seq = seq
      BY <1>2, <1>a DEF StateReceived, Client
  <2>2. seq # clients[c].seq
      BY <1>2, <1>a DEF StateReceived, StateAccepted, SequenceAccepted, Client,
                        NoSequence
  <2>3. QED BY <2>1, <2>2 DEF Speaks
<1>3. ASSUME NEW cs \in SUBSET Live, RecordFailures(cs)
      PROVE  (latched => latched') /\ (disconnected > 0 => disconnected' > 0)
  <2>1. Cardinality(Reported(cs)) \in Nat
      BY LiveIsFinite DEF Reported
  <2>2. disconnected > 0 => disconnected' > 0
      BY <1>3, <1>a, <2>1 DEF RecordFailures
  <2>3. latched => latched'
      BY <1>3, Zenon DEF RecordFailures
  <2>4. QED BY <2>2, <2>3
<1>4. ASSUME NEW c \in Live, ConnectionFailed(c)
      PROVE  (latched => latched') /\ (disconnected > 0 => disconnected' > 0)
    BY <1>3, <1>4 DEF ConnectionFailed
<1>5. ASSUME NEW lag \in Lag, Tick(lag)
      PROVE  (latched => latched') /\ (disconnected > 0 => disconnected' > 0)
    BY <1>3, <1>5 DEF Tick, Expired
<1>6. ASSUME \/ \E lag \in Lag : ConnectionOpened(lag)
             \/ \E c \in Live, id \in ClientId, lag \in Lag :
                    HelloReceived(c, id, lag)
             \/ \E c \in Live : GoodbyeReceived(c)
             \/ Elapse
             \/ UNCHANGED vars
      PROVE  UNCHANGED <<latched, disconnected>>
    BY <1>6 DEF ConnectionOpened, HelloReceived, GoodbyeReceived, Elapse, vars
<1>7. QED BY <1>1, <1>2, <1>4, <1>5, <1>6 DEF Next, SomeTick

\* A connection that is dropped while the guard is on leaves the mode
\* Disconnected, however many are dropped in the same tick, and only a word or
\* the switch ends it.
THEOREM LossAlwaysCovers == Spec => LossCovers
<1>1. ASSUME TypeOK, [Next]_vars, Mode = "Disconnected", Mode' # "Disconnected"
      PROVE  ~enabled' \/ \E c \in Live : Speaks(c)
  <2>1. enabled /\ (latched \/ disconnected > 0)
      BY <1>1 DEF Mode
  <2>2. enabled' => ~latched' /\ ~(disconnected' > 0)
      BY <1>1 DEF Mode
  <2>3. QED BY <1>1, <2>1, <2>2, FailuresStay
<1>2. TypeOK /\ [Next]_vars =>
        [ /\ enabled /\ Drops => Mode' = "Disconnected"
          /\ Mode = "Disconnected" /\ Mode' # "Disconnected"
               => ~enabled' \/ \E c \in Live : Speaks(c) ]_vars
    BY <1>1, DropsShow
<1>3. QED BY <1>2, TypeCorrect, PTL DEF Spec, LossCovers

(***************************************************************************)
(* What it takes to repay a loss                                           *)
(***************************************************************************)

\* The guard, once off, stays off.
NeverReenabled == [][~enabled => ~enabled']_vars

\* Who has ever said a STATE is remembered to have said it.
SpokenIsReported ==
    \A c \in Live : clients[c].seq # NoSequence => clients[c].report # "none"

\* A report is forgotten only when the guard is turned on.
LEMMA ReportsStay ==
    ASSUME TypeOK, SpokenIsReported, [Next]_vars, ~enabled => ~enabled'
    PROVE  SpokenIsReported'
<1> USE DEF SpokenIsReported
<1>a. clients \in [Live -> Client] /\ nextConnection \notin Live
    BY DEF TypeOK
<1>1. ASSUME NEW value \in BOOLEAN, SetEnabled(value)
      PROVE  SpokenIsReported'
    BY <1>1 DEF SetEnabled, TypeOK
<1>2. ASSUME NEW lag \in Lag, ConnectionOpened(lag)
      PROVE  SpokenIsReported'
    BY <1>2, <1>a DEF ConnectionOpened
<1>3. ASSUME NEW c \in Live, NEW id \in ClientId, NEW lag \in Lag,
             HelloReceived(c, id, lag)
      PROVE  SpokenIsReported'
    BY <1>3, <1>a DEF HelloReceived, Client
<1>4. ASSUME NEW c \in Live, NEW seq \in 0..MaxSequence,
             NEW report \in {"safe", "sensitive"}, NEW lag \in Lag,
             StateReceived(c, seq, report, lag)
      PROVE  SpokenIsReported'
    BY <1>4, <1>a DEF StateReceived, Client
<1>5. ASSUME NEW cs \in SUBSET Live, Erase(cs)
      PROVE  SpokenIsReported'
    BY <1>5 DEF Erase
<1>6. ASSUME NEW c \in Live, GoodbyeReceived(c) \/ ConnectionFailed(c)
      PROVE  SpokenIsReported'
    BY <1>5, <1>6 DEF GoodbyeReceived, ConnectionFailed
<1>7. ASSUME NEW lag \in Lag, Tick(lag)
      PROVE  SpokenIsReported'
    BY <1>5, <1>7 DEF Tick, Expired
<1>8. CASE Elapse
    BY <1>8, <1>a DEF Elapse, Client
<1>9. CASE UNCHANGED vars
    BY <1>9 DEF vars
<1>10. QED
    BY <1>1, <1>2, <1>3, <1>4, <1>6, <1>7, <1>8, <1>9 DEF Next, SomeTick

\* Of all calls, only a STATE speaks, and it pays only before a report.
LEMMA RepaidByNewcomers ==
    ASSUME TypeOK, SpokenIsReported, [Next]_vars,
           NEW c \in Live, Speaks(c), clients[c].seq # NoSequence
    PROVE  disconnected' = disconnected
<1>a. clients \in [Live -> Client]
    BY DEF TypeOK
<1>b. c \in Live' /\ clients'[c].seq # clients[c].seq
    BY DEF Speaks
<1>1. ASSUME NEW value \in BOOLEAN, SetEnabled(value)
      PROVE  FALSE
    BY <1>1, <1>a, <1>b DEF SetEnabled, Forget, Client
<1>2. ASSUME NEW lag \in Lag, ConnectionOpened(lag)
      PROVE  disconnected' = disconnected
    BY <1>2 DEF ConnectionOpened
<1>3. ASSUME NEW d \in Live, NEW id \in ClientId, NEW lag \in Lag,
             HelloReceived(d, id, lag)
      PROVE  disconnected' = disconnected
    BY <1>3 DEF HelloReceived
<1>4. ASSUME NEW d \in Live, NEW seq \in 0..MaxSequence,
             NEW report \in {"safe", "sensitive"}, NEW lag \in Lag,
             StateReceived(d, seq, report, lag)
      PROVE  disconnected' = disconnected
  <2>1. d = c
      BY <1>4, <1>a, <1>b DEF StateReceived, Client
  <2>2. ~Repays(d)
      BY <2>1 DEF Repays, SpokenIsReported
  <2>3. QED BY <1>4, <2>2 DEF StateReceived
<1>5. ASSUME NEW cs \in SUBSET Live, Erase(cs)
      PROVE  FALSE
    BY <1>5, <1>b DEF Erase
<1>6. ASSUME NEW d \in Live, GoodbyeReceived(d) \/ ConnectionFailed(d)
      PROVE  FALSE
    BY <1>5, <1>6 DEF GoodbyeReceived, ConnectionFailed
<1>7. ASSUME NEW lag \in Lag, Tick(lag)
      PROVE  FALSE
    BY <1>5, <1>7 DEF Tick, Expired
<1>8. CASE Elapse
    BY <1>8 DEF Elapse
<1>9. CASE UNCHANGED vars
    BY <1>9 DEF vars
<1>10. QED
    BY <1>1, <1>2, <1>3, <1>4, <1>6, <1>7, <1>8, <1>9 DEF Next, SomeTick

\* The comment in state_received (privacy-state.cpp:73) is true of a guard that
\* is never turned on again: without a set_enabled(true) no existing client
\* makes up for a lost one.
THEOREM OnlyReenablingRepays ==
    Spec /\ NeverReenabled => ExistingClientCannotRepay
<1>1. Init => SpokenIsReported
    BY DEF Init, SpokenIsReported
<1>2. TypeOK /\ SpokenIsReported /\ [Next]_vars /\ [~enabled => ~enabled']_vars
        => SpokenIsReported'
    BY ReportsStay DEF vars
<1>3. TypeOK /\ SpokenIsReported /\ [Next]_vars =>
        [ \A c \in Live : Speaks(c) /\ clients[c].seq # NoSequence
            => disconnected' = disconnected ]_vars
    BY RepaidByNewcomers
<1>4. QED
    BY <1>1, <1>2, <1>3, TypeCorrect, PTL
       DEF Spec, NeverReenabled, ExistingClientCannotRepay

(***************************************************************************)
(* PrivacyState implements TrustLedger                                     *)
(***************************************************************************)

Trust == [c \in Live |-> clients[c].report]

\* Both modules count with the same operator.
LEMMA SameCardinality == \A S : Ledger!Cardinality(S) = Cardinality(S)
BY DEF Cardinality, Ledger!Cardinality

\* The ledger writes off the same connections.
LEMMA LossIsLose ==
    ASSUME TypeOK, NEW cs \in SUBSET Live, RecordFailures(cs), Erase(cs),
           UNCHANGED enabled
    PROVE  Ledger!Lose(cs)
<1>1. Ledger!Unheard(cs) = cs \ Reported(cs) /\ Ledger!Open = Live
    BY DEF Ledger!Unheard, Ledger!Open, Reported
<1>2. cs \ Ledger!Unheard(cs) = Reported(cs)
    BY <1>1 DEF Reported
<1>3. Ledger!Unheard(cs) # {} <=> Reported(cs) # cs
    BY <1>1 DEF Reported
<1>4. Trust' = Ledger!Without(cs)
    BY <1>1 DEF Trust, Erase, Ledger!Without
<1>5. disconnected' = disconnected + Ledger!Cardinality(cs \ Ledger!Unheard(cs))
    BY <1>2, SameCardinality DEF RecordFailures
<1>6. latched' = (latched \/ Ledger!Unheard(cs) # {})
    BY <1>3, Zenon DEF RecordFailures
<1>7. QED BY <1>4, <1>5, <1>6, Zenon DEF Ledger!Lose, Trust

\* Every call is an entry of the ledger, or changes none of its columns.
LEMMA LedgerStep == TypeOK /\ [Next]_vars => [Ledger!Next]_(Ledger!vars)
<1> SUFFICES ASSUME TypeOK, [Next]_vars
             PROVE  Ledger!Next \/ UNCHANGED Ledger!vars
    OBVIOUS
<1>a. /\ clients \in [Live -> Client] /\ nextConnection \notin Live
      /\ nextConnection \in Nat \ {0} /\ enabled \in BOOLEAN
    BY DEF TypeOK
<1>b. Ledger!Open = Live
    BY DEF Ledger!Open
<1>1. ASSUME NEW value \in BOOLEAN, SetEnabled(value)
      PROVE  Ledger!Next
  <2>1. CASE value
    <3>1. \A c \in Live : Forget(clients[c]).report = "none"
        BY <1>a DEF Forget, Client
    <3>2. Trust' = [c \in Live |-> "none"]
        BY <1>1, <2>1, <3>1 DEF SetEnabled, Trust
    <3>3. ~enabled /\ enabled' = TRUE /\ disconnected' = 0 /\ latched' = FALSE
        BY <1>1, <2>1, <1>a DEF SetEnabled
    <3>4. Ledger!TurnOn
        BY <1>b, <3>2, <3>3 DEF Ledger!TurnOn, Trust
    <3>5. QED BY <3>4 DEF Ledger!Next
  <2>2. CASE ~value
    <3>1. enabled /\ enabled' = FALSE
        BY <1>1, <2>2, <1>a DEF SetEnabled
    <3>2. UNCHANGED <<disconnected, latched, clients>>
        BY <1>1, <2>2 DEF SetEnabled
    <3>3. Ledger!TurnOff
        BY <3>1, <3>2 DEF Ledger!TurnOff
    <3>4. QED BY <3>3 DEF Ledger!Next
  <2>3. QED BY <2>1, <2>2
<1>2. ASSUME NEW lag \in Lag, ConnectionOpened(lag)
      PROVE  Ledger!Next
  <2>1. nextConnection \in 1..MaxConnections
      BY <1>2, <1>a, BoundAssumption DEF ConnectionOpened
  <2>2. PICK c \in 1..MaxConnections : c = nextConnection
      BY <2>1
  <2>3. Ledger!Arrive(c)
      BY <1>2, <1>a, <1>b, <2>2 DEF ConnectionOpened, Ledger!Arrive
  <2>4. QED BY <2>3 DEF Ledger!Next
<1>3. ASSUME NEW c \in Live, NEW id \in ClientId, NEW lag \in Lag,
             HelloReceived(c, id, lag)
      PROVE  UNCHANGED Ledger!vars
  <2>1. Trust' = Trust
      BY <1>3, <1>a DEF HelloReceived, Client, Trust
  <2>2. QED BY <1>3, <2>1 DEF HelloReceived, Ledger!vars, Trust
<1>4. ASSUME NEW c \in Live, NEW seq \in 0..MaxSequence,
             NEW report \in {"safe", "sensitive"}, NEW lag \in Lag,
             StateReceived(c, seq, report, lag)
      PROVE  Ledger!Next
  <2>1. Trust' = [Trust EXCEPT ![c] = report]
      BY <1>4, <1>a DEF StateReceived, Client, Trust
  <2>2. Trust[c] = clients[c].report
      BY DEF Trust
  <2>3. Ledger!GiveWord(c, report)
      BY <1>4, <1>b, <2>1, <2>2 DEF StateReceived, Repays, Ledger!GiveWord, Trust
  <2>4. QED BY <1>b, <2>3 DEF Ledger!Next
<1>5. ASSUME NEW c \in Live, GoodbyeReceived(c)
      PROVE  Ledger!Next
  <2>1. Trust' = Ledger!Without({c})
      BY <1>5, <1>b DEF GoodbyeReceived, Erase, Ledger!Without, Trust
  <2>2. Ledger!TakeLeave(c)
      BY <1>5, <1>b, <2>1 DEF GoodbyeReceived, Ledger!TakeLeave, Trust
  <2>3. QED BY <1>b, <2>2 DEF Ledger!Next
<1>6. ASSUME NEW c \in Live, ConnectionFailed(c)
      PROVE  Ledger!Next
  <2>1. Ledger!Lose({c})
      BY <1>6, LossIsLose DEF ConnectionFailed
  <2>2. QED BY <1>b, <2>1 DEF Ledger!Next
<1>7. ASSUME NEW lag \in Lag, Tick(lag)
      PROVE  Ledger!Next
  <2>1. PICK cs \in SUBSET Live : cs = Expired(lag)
      BY DEF Expired
  <2>2. RecordFailures(cs) /\ Erase(cs) /\ UNCHANGED enabled
      BY <1>7, <2>1 DEF Tick, RecordFailures, Reported, Erase
  <2>3. Ledger!Lose(cs)
      BY <2>2, LossIsLose
  <2>4. QED BY <1>b, <2>3 DEF Ledger!Next
<1>8. ASSUME Elapse
      PROVE  UNCHANGED Ledger!vars
  <2>1. Trust' = Trust
      BY <1>8, <1>a DEF Elapse, Client, Trust
  <2>2. QED BY <1>8, <2>1 DEF Elapse, Ledger!vars, Trust
<1>9. CASE UNCHANGED vars
    BY <1>9 DEF vars, Ledger!vars
<1>10. QED
    BY <1>1, <1>2, <1>3, <1>4, <1>5, <1>6, <1>7, <1>8, <1>9 DEF Next, SomeTick

\* Seen from outside, the class is a trust ledger, whatever the number of
\* windows and the order of their calls.
THEOREM ImplementsLedger == Spec => KeepsLedger
<1>1. Init => Ledger!Init
    BY DEF Init, Ledger!Init
<1>2. QED BY <1>1, LedgerStep, TypeCorrect, PTL DEF Spec, KeepsLedger, Ledger!Spec
=============================================================================
