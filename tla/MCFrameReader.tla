--------------------------- MODULE MCFrameReader ---------------------------
(* Streams for FrameReader: every short conversation of legal frames, and   *)
(* every way of being malformed before and behind legal frames.             *)
EXTENDS FrameReader

IdOf(c) == [i \in 1..36 |-> IF i \in Separators THEN "-" ELSE c]
Id == IdOf("a")
Rival == IdOf("B")

Sized(size, words) == [words |-> words, size |-> size]
Hello(id) == Sized(1, << <<"PG/1">>, <<"HELLO">>, id >>)
StateLine(size, number, status) ==
    Sized(size, << <<"PG/1">>, <<"STATE">>, number, <<status>> >>)
Safe(number) == StateLine(1, number, "SAFE")
Goodbye == Sized(1, << <<"PG/1">>, <<"GOODBYE">> >>)

\* 2 is the largest legal size here, and 100 the first number out of range.
LegalLines ==
    { Hello(Id), Hello(Rival), Goodbye, Safe(<<"1">>), Safe(<<"9", "9">>),
      StateLine(2, <<"0", "0", "2">>, "SENSITIVE") }

Without(word, i) == [word EXCEPT ![i] = "x"]

BadNumbers == { <<"x">>, <<"-", "1">>, <<"1", "x">>, <<"1", "0", "0">>,
                <<"4", "2", "9", "4">>, << >> }

BadIds == { Without(Id, 8), Without(Id, 9), Tail(Id), Append(Id, "a"), << >>,
            [Id EXCEPT ![9] = "a", ![10] = "-"], Append(Tail(Id), "\r") }

Malformed ==
    {Hello(id) : id \in BadIds} \cup {Safe(n) : n \in BadNumbers} \cup
    { Sized(0, << << >> >>), Sized(1, << << >>, << >> >>),
      StateLine(3, <<"0", "1">>, "SAFE"),
      StateLine(1, <<"1">>, "safe"), StateLine(1, <<"1">>, "SAFER"),
      Sized(1, << <<"PG/1">>, <<"STATE">>, <<"1">>, <<"SAFE">>, <<"1">> >>),
      Sized(1, << <<"PG/1">>, <<"HELLO">>, Id, Id >>),
      Sized(1, << <<"PG/1">> >>), Sized(1, << <<"PG/2">>, <<"GOODBYE">> >>),
      Sized(1, << <<"PG/1">>, <<"HEARTBEAT">>, <<"3">> >>),
      Sized(1, << <<"PG/1">>, << >>, <<"GOODBYE">> >>),
      Sized(1, << << >>, <<"PG/1">>, <<"GOODBYE">> >>),
      Sized(1, << <<"PG/1">>, <<"GOODBYE">>, << >> >>),
      Sized(1, << <<"PG/1">>, <<"GOODBYE", "\r">> >>),
      Sized(1, << <<"PG/1">>, <<"GOODBYE">>, <<"\r">> >>),
      Sized(1, << <<"PG/1">>, <<"STATE">>, <<"1">> >>) }

LineSequences ==
    UNION {[1..n -> LegalLines] : n \in 0..3} \cup
    {<<bad>> : bad \in Malformed} \cup
    {<<Hello(Id), bad, Safe(<<"2">>)>> : bad \in Malformed} \cup
    {<<Hello(Id), Safe(<<"1">>), bad>> : bad \in Malformed}

Conversations == [lines : LineSequences, tail : 0..3]
Others == {Rival}
=============================================================================
