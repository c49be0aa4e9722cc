----------------------------- MODULE LineReader -----------------------------
(***************************************************************************)
(* What docs/protocol.md promises of one connection: its lines are taken   *)
(* one by one, in order and none left out, for as long as each of them is  *)
(* a frame of the grammar that may follow the ones before it.  How the     *)
(* bytes arrive makes no difference.                                       *)
(***************************************************************************)
EXTENDS FrameParser

CONSTANT Claimed    \* the identities of other live connections

VARIABLES
    lines,      \* the lines the client ever sends on the connection
    tail,       \* the bytes it sends behind the last of them
    taken,      \* how many lines have been taken
    standing,   \* the plug-in still has an entry for the connection
    outcome     \* "reading", or how it ended

vars == <<lines, tail, taken, standing, outcome>>

Kind(i) == lines[i].words[2]
IsState(i) == Kind(i) = <<"STATE">>
NumberIn(i) == NumberOf(lines[i].words[3])

\* Line i may follow the lines before it: HELLO first and only there, and
\* growing sequence numbers (docs/protocol.md:26, 41).
MayFollow(i) ==
    /\ (Kind(i) = <<"HELLO">>) <=> (i = 1)
    /\ i = 1 => lines[i].words[3] \notin Claimed
    /\ IsState(i) => \A j \in 1..(i - 1) : IsState(j) => NumberIn(j) < NumberIn(i)

Acceptable(i) ==
    i \in DOMAIN lines /\ standing /\ Legal(lines[i]) /\ MayFollow(i)

Init ==
    /\ taken = 0
    /\ standing = TRUE
    /\ outcome = "reading"

Take ==
    /\ outcome = "reading"
    /\ Acceptable(taken + 1)
    /\ taken' = taken + 1
    /\ outcome' = IF Kind(taken + 1) = <<"GOODBYE">> THEN "goodbye" ELSE "reading"
    /\ standing' = (outcome' = "reading")
    /\ UNCHANGED <<lines, tail>>

\* The client has broken the protocol: with the line that is next, or with
\* more bytes than a line may have.
Refuse ==
    /\ outcome = "reading"
    /\ IF taken < Len(lines) THEN ~Acceptable(taken + 1)
                             ELSE tail > MaxFrameSize
    /\ outcome' = "failed"
    /\ standing' = FALSE
    /\ UNCHANGED <<lines, tail, taken>>

\* The plug-in gives the client up, the client goes, or the server stops.
Drop ==
    /\ standing' = FALSE
    /\ UNCHANGED <<lines, tail, taken, outcome>>

Leave ==
    /\ outcome = "reading"
    /\ \/ outcome' = "closed" /\ standing' = FALSE
       \/ outcome' = "left" /\ UNCHANGED standing
    /\ UNCHANGED <<lines, tail, taken>>

Next == Take \/ Refuse \/ Drop \/ Leave

\* Everything the client sends is judged, unless it is cut short.
Spec ==
    /\ Init
    /\ [][Next]_vars
    /\ WF_vars(Take \/ Refuse)
=============================================================================
