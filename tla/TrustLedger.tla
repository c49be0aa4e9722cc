----------------------------- MODULE TrustLedger -----------------------------
(***************************************************************************)
(* What PrivacyState promises, without handshakes, identities, sequence    *)
(* numbers or clocks: a ledger of whom the output trusts.                  *)
(*                                                                         *)
(* A live connection is pending until it gives its word, and then safe or  *)
(* sensitive.  One that goes without taking leave is a loss: a debt when   *)
(* its word had been given, a taint on the whole ledger when it had not.   *)
(* A first word pays one debt; any word lifts the taint.                   *)
(***************************************************************************)
EXTENDS Integers, FiniteSets

CONSTANT Connection     \* every connection there may ever be

VARIABLES
    on,         \* the guard is enabled
    trust,      \* live connection -> "none", "safe" or "sensitive"
    debt,       \* lost connections not yet made up for
    tainted     \* a connection was lost before its first word

vars == <<on, trust, debt, tainted>>

Open == DOMAIN trust
Unheard(cs) == {c \in cs : trust[c] = "none"}

Verdict ==
    IF ~on THEN "Disabled"
    ELSE IF tainted \/ debt > 0 THEN "Disconnected"
    ELSE IF Open = {} \/ Unheard(Open) # {} THEN "AwaitingConnection"
    ELSE IF \E c \in Open : trust[c] = "sensitive" THEN "Sensitive"
    ELSE "Safe"

Init ==
    /\ on = TRUE
    /\ trust = [c \in {} |-> "none"]
    /\ debt = 0
    /\ tainted = FALSE

Arrive(c) ==
    /\ c \notin Open
    /\ trust' = [d \in Open \cup {c} |-> IF d = c THEN "none" ELSE trust[d]]
    /\ UNCHANGED <<on, debt, tainted>>

GiveWord(c, word) ==
    /\ c \in Open
    /\ trust' = [trust EXCEPT ![c] = word]
    /\ debt' = IF trust[c] = "none" /\ debt > 0 THEN debt - 1 ELSE debt
    /\ tainted' = FALSE
    /\ UNCHANGED on

Without(cs) == [c \in Open \ cs |-> trust[c]]

TakeLeave(c) ==
    /\ c \in Open
    /\ trust' = Without({c})
    /\ UNCHANGED <<on, debt, tainted>>

Lose(cs) ==
    /\ trust' = Without(cs)
    /\ debt' = debt + Cardinality(cs \ Unheard(cs))
    /\ tainted' = (tainted \/ Unheard(cs) # {})
    /\ UNCHANGED on

TurnOff ==
    /\ on
    /\ on' = FALSE
    /\ UNCHANGED <<trust, debt, tainted>>

TurnOn ==
    /\ ~on
    /\ on' = TRUE
    /\ trust' = [c \in Open |-> "none"]
    /\ debt' = 0
    /\ tainted' = FALSE

Next ==
    \/ \E c \in Connection : Arrive(c)
    \/ \E c \in Open, word \in {"safe", "sensitive"} : GiveWord(c, word)
    \/ \E c \in Open : TakeLeave(c)
    \/ \E cs \in SUBSET Open : Lose(cs)
    \/ TurnOff
    \/ TurnOn

Spec == Init /\ [][Next]_vars
=============================================================================
