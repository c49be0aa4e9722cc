---------------------------- MODULE FrameParser ----------------------------
(***************************************************************************)
(* parse_frame (protocol.cpp): what the plug-in takes for a PG/1 frame.    *)
(*                                                                         *)
(* A line is given by its words, which is what lies between its single     *)
(* spaces (nothing lies between two adjacent ones), and by its size in     *)
(* bytes.  A word is a sequence of symbols: the keywords are one symbol    *)
(* each, every other character is its own.                                 *)
(***************************************************************************)
EXTENDS Integers, Sequences, SequencesExt

CONSTANTS
    MaxFrameSize,   \* max_frame_size
    SequenceLimit   \* 2^64: the first number that is out of range

ASSUME LimitAssumption == MaxFrameSize \in Nat /\ SequenceLimit \in Nat \ {0}

Word == Seq(STRING)
Line == [words : Seq(Word) \ {<< >>}, size : Nat]

Digit == <<"0", "1", "2", "3", "4", "5", "6", "7", "8", "9">>
IsDigit(c) == \E d \in 1..10 : Digit[d] = c
IsHexadecimal(c) ==
    IsDigit(c) \/ c \in {"a", "b", "c", "d", "e", "f", "A", "B", "C", "D", "E", "F"}

Separators == {9, 14, 19, 24}
IsUuid(word) ==
    /\ Len(word) = 36
    /\ \A i \in 1..36 : IF i \in Separators THEN word[i] = "-"
                                            ELSE IsHexadecimal(word[i])

DigitValue(c) == (CHOOSE d \in 1..10 : Digit[d] = c) - 1

\* Horner's scheme: what every prefix of a list of terms comes to.
Accumulated(base, terms) ==
    LET value[i \in 0..Len(terms)] ==
          IF i = 0 THEN 0 ELSE base * value[i - 1] + terms[i]
    IN  value

NumberOf(word) ==
    Accumulated(10, [i \in 1..Len(word) |-> DigitValue(word[i])])[Len(word)]

\* Mistake: a number that does not fit is taken modulo 2^64.
ParsesAsWrapped(word) == word # << >> /\ \A i \in DOMAIN word : IsDigit(word[i])

\* parse_sequence has a value: from_chars reads to the end and in range.
ParsesAsSequence(word) ==
    /\ word # << >>
    /\ \A i \in DOMAIN word : IsDigit(word[i])
    /\ NumberOf(word) < SequenceLimit

\* Mistake: adjacent separators count as one.
SplitLoosely(words) == SelectSeq(words, LAMBDA word : word # << >>)

\* split_tokens: an empty token spoils the line, but one at its end is not
\* seen.
SplitTokens(words) ==
    LET seen == IF Last(words) = << >> THEN Front(words) ELSE words
    IN  IF \E i \in DOMAIN seen : seen[i] = << >> THEN << >> ELSE seen

\* Mistake: the limit is the first size that is refused.
RefusedAtLimit(line) ==
    \/ line.size = 0 \/ line.size >= MaxFrameSize
    \/ Head(line.words) = << >>
    \/ Last(line.words) = << >>
    \/ Last(Last(line.words)) = "\r"

\* What parse_frame refuses before it looks at the tokens.
Refused(line) ==
    \/ line.size = 0 \/ line.size > MaxFrameSize
    \/ Head(line.words) = << >>
    \/ Last(line.words) = << >>
    \/ Last(Last(line.words)) = "\r"

NoFrame == [kind |-> "none"]

ParseFrame(line) ==
    LET tokens == SplitTokens(line.words)
        Shape(kind, n) == Len(tokens) = n /\ tokens[2] = <<kind>>
    IN  IF Refused(line) \/ Len(tokens) < 2 \/ tokens[1] # <<"PG/1">>
        THEN NoFrame
        ELSE CASE Shape("HELLO", 3) /\ IsUuid(tokens[3]) ->
                    [kind |-> "hello", id |-> tokens[3]]
               [] /\ Shape("STATE", 4)
                  /\ ParsesAsSequence(tokens[3])
                  /\ tokens[4] \in {<<"SAFE">>, <<"SENSITIVE">>} ->
                    [kind |-> "state", seq |-> NumberOf(tokens[3]),
                     sensitive |-> tokens[4] = <<"SENSITIVE">>]
               [] Shape("GOODBYE", 2) -> [kind |-> "goodbye"]
               [] OTHER -> NoFrame

-----------------------------------------------------------------------------
(***************************************************************************)
(* The grammar of docs/protocol.md:12-22                                   *)
(***************************************************************************)
\* The canonical 8-4-4-4-12 shape.
Uuid(word) ==
    /\ Len(word) = 36
    /\ {i \in 1..36 : word[i] = "-"} = Separators
    /\ \A i \in 1..36 : word[i] = "-" \/ IsHexadecimal(word[i])

\* Unsigned decimal digits, and below 2^64.
Number(word) ==
    /\ Len(word) > 0
    /\ \A i \in 1..Len(word) : word[i] \in {Digit[d] : d \in 1..10}
    /\ NumberOf(word) < SequenceLimit

GrammaticalHello(words) ==
    /\ Len(words) = 3 /\ Uuid(words[3])
    /\ words = << <<"PG/1">>, <<"HELLO">>, words[3] >>

GrammaticalState(words) ==
    Len(words) = 4 /\ \E status \in {"SAFE", "SENSITIVE"} :
        /\ words = << <<"PG/1">>, <<"STATE">>, words[3], <<status>> >>
        /\ Number(words[3])

GrammaticalGoodbye(words) == words = << <<"PG/1">>, <<"GOODBYE">> >>

Legal(line) ==
    /\ line.size \in 1..MaxFrameSize
    /\ \/ GrammaticalHello(line.words)
       \/ GrammaticalState(line.words)
       \/ GrammaticalGoodbye(line.words)
=============================================================================
