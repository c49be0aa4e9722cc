---------------------------- MODULE FrameProofs ----------------------------
(***************************************************************************)
(* Proofs about FrameParser and FrameReader: parse_frame takes exactly the *)
(* lines of the documented grammar, no client can make the buffer of its   *)
(* connection grow, and whatever way a stream is cut into reads, it is     *)
(* judged line by line, as LineReader says.                                *)
(***************************************************************************)
EXTENDS FrameReader, WellFoundedInduction, TLAPS

LEMMA UuidShape ==
    ASSUME NEW word \in Word
    PROVE  IsUuid(word) <=> Uuid(word)
<1>1. ~IsHexadecimal("-")
    BY DEF IsHexadecimal, IsDigit, Digit
<1>2. ASSUME Len(word) = 36, IsUuid(word) PROVE Uuid(word)
    <2>1. \A i \in 1..36 : word[i] = "-" <=> i \in Separators
        BY <1>1, <1>2 DEF IsUuid
    <2>2. {i \in 1..36 : word[i] = "-"} = Separators
        BY <2>1 DEF Separators
    <2> QED  BY <1>2, <2>1, <2>2 DEF IsUuid, Uuid
<1>3. ASSUME Len(word) = 36, Uuid(word) PROVE IsUuid(word)
    <2>1. \A i \in 1..36 : word[i] = "-" <=> i \in Separators
        BY <1>3 DEF Uuid
    <2> QED  BY <1>1, <1>3, <2>1 DEF IsUuid, Uuid
<1> QED  BY <1>2, <1>3 DEF IsUuid, Uuid

\* A sequence of a known length is the tuple of its elements.
LEMMA PairOf ==
    ASSUME NEW S, NEW s \in Seq(S), Len(s) = 2  PROVE s = <<s[1], s[2]>>
OBVIOUS

LEMMA TripleOf ==
    ASSUME NEW S, NEW s \in Seq(S), Len(s) = 3  PROVE s = <<s[1], s[2], s[3]>>
OBVIOUS

LEMMA QuadrupleOf ==
    ASSUME NEW S, NEW s \in Seq(S), Len(s) = 4
    PROVE  s = <<s[1], s[2], s[3], s[4]>>
OBVIOUS

Tokens(line) == SplitTokens(line.words)

\* Behind the tests at the start of parse_frame, the tokens are the words of
\* the line, none of them empty, or there are none.
LEMMA TokensAreWords ==
    ASSUME NEW line \in Line, ~Refused(line), Tokens(line) # << >>
    PROVE  /\ Tokens(line) = line.words
           /\ line.words \in Seq(Word)
           /\ line.size \in 1..MaxFrameSize
BY LimitAssumption DEF Tokens, SplitTokens, Refused, Line

\* parse_frame refuses nothing of the grammar before it looks at the tokens.
LEMMA GrammarIsNotRefused ==
    ASSUME NEW line \in Line, Legal(line)
    PROVE  ~Refused(line) /\ Tokens(line) = line.words
<1> DEFINE words == line.words
<1>1. words \in Seq(Word) /\ Len(words) \in 2..4 /\ words[1] = <<"PG/1">>
    <2>1. words \in Seq(Word)
        BY DEF Line
    <2>2. CASE GrammaticalHello(words)
        BY <2>1, <2>2 DEF GrammaticalHello
    <2>3. CASE GrammaticalState(words)
        BY <2>1, <2>3 DEF GrammaticalState
    <2>4. CASE GrammaticalGoodbye(words)
        BY <2>1, <2>4 DEF GrammaticalGoodbye
    <2> QED  BY <2>1, <2>2, <2>3, <2>4 DEF Legal
<1>2. Last(words) = words[Len(words)] /\ Head(words) = words[1]
    BY <1>1 DEF Last
<1>3. \A i \in DOMAIN words : words[i] # << >>
    <2>1. CASE GrammaticalHello(words)
        <3>1. Len(words) = 3 /\ Len(words[3]) = 36
            BY <2>1 DEF GrammaticalHello, Uuid
        <3>2. words[1] = <<"PG/1">> /\ words[2] = <<"HELLO">>
            BY <2>1 DEF GrammaticalHello
        <3>3. words[3] # << >>
            <4>1. Len(words[3]) # 0
                BY <3>1
            <4>2. Len(<< >>) = 0
                OBVIOUS
            <4> QED  BY <4>1, <4>2, Zenon
        <3> QED  BY <1>1, <3>1, <3>2, <3>3
    <2>2. CASE GrammaticalState(words)
        BY <2>2 DEF GrammaticalState, Number
    <2>3. CASE GrammaticalGoodbye(words)
        BY <2>3 DEF GrammaticalGoodbye
    <2> QED  BY <2>1, <2>2, <2>3 DEF Legal
<1>4. Last(Last(words)) # "\r"
    <2>1. CASE GrammaticalHello(words)
        <3>1. Len(words) = 3 /\ words[3] \in Word /\ Len(words[3]) = 36
            BY <2>1, <1>1 DEF GrammaticalHello, Uuid
        <3>2. words[3][36] = "-" \/ IsHexadecimal(words[3][36])
            BY <2>1 DEF GrammaticalHello, Uuid
        <3>3. ~IsHexadecimal("\r")
            BY DEF IsHexadecimal, IsDigit, Digit
        <3> QED  BY <3>1, <3>2, <3>3, <1>2 DEF Last
    <2>2. CASE GrammaticalState(words)
        BY <2>2, <1>2 DEF GrammaticalState, Last
    <2>3. CASE GrammaticalGoodbye(words)
        BY <2>3, <1>2 DEF GrammaticalGoodbye, Last
    <2> QED  BY <2>1, <2>2, <2>3 DEF Legal
<1>5. line.size # 0 /\ ~(line.size > MaxFrameSize)
    BY LimitAssumption DEF Legal, Line
<1>6. ~Refused(line)
    BY <1>1, <1>2, <1>3, <1>4, <1>5 DEF Refused
<1>7. Tokens(line) = words
    BY <1>1, <1>2, <1>3 DEF Tokens, SplitTokens
<1> QED  BY <1>6, <1>7

\* from_chars succeeds on the numbers of the grammar.
LEMMA SequenceIsNumber ==
    ASSUME NEW word \in Word PROVE ParsesAsSequence(word) <=> Number(word)
<1>1. /\ DOMAIN word = 1..Len(word)
      /\ Len(word) > 0 <=> word # << >>
    BY DEF Word
<1> QED  BY <1>1 DEF ParsesAsSequence, Number, IsDigit

\* parse_frame (protocol.cpp:66-100) takes a line exactly if it is one of the
\* three frames of docs/protocol.md:12-22, whatever the limits are.
THEOREM ParserAcceptsTheGrammar ==
    ASSUME NEW line \in Line
    PROVE  ParseFrame(line) # NoFrame <=> Legal(line)
<1> DEFINE words == line.words
           tokens == SplitTokens(words)
<1>1. ASSUME ParseFrame(line) # NoFrame PROVE Legal(line)
    <2>1. ~Refused(line) /\ Len(tokens) >= 2 /\ tokens[1] = <<"PG/1">>
        BY <1>1 DEF ParseFrame, NoFrame
    <2>2. tokens = words /\ words \in Seq(Word) /\ line.size \in 1..MaxFrameSize
        BY <2>1, TokensAreWords DEF Tokens
    <2>3. CASE Len(words) = 3 /\ words[2] = <<"HELLO">> /\ IsUuid(words[3])
        <3>1. words = << <<"PG/1">>, <<"HELLO">>, words[3] >>
            BY <2>1, <2>2, <2>3, TripleOf
        <3>2. Uuid(words[3])
            BY <2>2, <2>3, UuidShape
        <3> QED  BY <2>2, <2>3, <3>1, <3>2 DEF Legal, GrammaticalHello
    <2>4. CASE /\ Len(words) = 4 /\ words[2] = <<"STATE">>
               /\ ParsesAsSequence(words[3])
               /\ words[4] \in {<<"SAFE">>, <<"SENSITIVE">>}
        <3>1. words = << <<"PG/1">>, <<"STATE">>, words[3], words[4] >>
            BY <2>1, <2>2, <2>4, QuadrupleOf
        <3>2. Number(words[3])
            BY <2>2, <2>4, SequenceIsNumber
        <3> QED  BY <2>2, <2>4, <3>1, <3>2 DEF Legal, GrammaticalState
    <2>5. CASE Len(words) = 2 /\ words[2] = <<"GOODBYE">>
        <3>1. words = << <<"PG/1">>, <<"GOODBYE">> >>
            BY <2>1, <2>2, <2>5, PairOf
        <3> QED  BY <2>2, <3>1 DEF Legal, GrammaticalGoodbye
    <2> QED  BY <1>1, <2>1, <2>2, <2>3, <2>4, <2>5 DEF ParseFrame, NoFrame
<1>2. ASSUME Legal(line) PROVE ParseFrame(line) # NoFrame
    <2>1. ~Refused(line) /\ tokens = words /\ words \in Seq(Word)
        BY <1>2, GrammarIsNotRefused DEF Tokens, Line
    <2>2. CASE GrammaticalHello(words)
        <3>1. IsUuid(words[3]) /\ Len(words) = 3
            BY <2>1, <2>2, UuidShape DEF GrammaticalHello
        <3> QED  BY <2>1, <2>2, <3>1 DEF GrammaticalHello, ParseFrame, NoFrame
    <2>3. CASE GrammaticalState(words)
        <3>1. ParsesAsSequence(words[3])
            BY <2>1, <2>3, SequenceIsNumber DEF GrammaticalState
        <3> QED  BY <2>1, <2>3, <3>1 DEF GrammaticalState, ParseFrame, NoFrame
    <2>4. CASE GrammaticalGoodbye(words)
        BY <2>1, <2>4 DEF GrammaticalGoodbye, ParseFrame, NoFrame
    <2> QED  BY <1>2, <2>2, <2>3, <2>4 DEF Legal
<1> QED  BY <1>1, <1>2

-----------------------------------------------------------------------------
(***************************************************************************)
(* The buffer                                                              *)
(***************************************************************************)
\* A read adds at most BufferSize bytes to a partial frame that has passed
\* the check; the inner loop only takes bytes away.
BufferInv ==
    /\ lines \in Seq(Line)
    /\ pending \in Nat /\ taken \in 0..Len(lines)
    /\ BufferIsBounded

THEOREM BufferInvariant == Spec => []BufferInv
<1> USE LimitAssumption, BufferAssumption
<1>1. Init => BufferInv
    BY StreamAssumption DEF Init, BufferInv, BufferIsBounded
<1>2. BufferInv /\ [Next]_vars => BufferInv'
    <2> SUFFICES ASSUME BufferInv, [Next]_vars PROVE BufferInv'
        OBVIOUS
    <2> USE DEF BufferInv, BufferIsBounded, stream
    <2>1. ASSUME NEW n \in 1..BufferSize, Read(n) PROVE BufferInv'
        BY <2>1 DEF Read
    <2>2. CASE LeaveLoop
        BY <2>2 DEF LeaveLoop
    <2>3. CASE TakeLine
        <3>1. lines[taken + 1].size \in Nat
            <4>1. taken + 1 \in 1..Len(lines)
                BY <2>3 DEF TakeLine, LineBuffered
            <4>2. lines[taken + 1] \in Line
                BY <4>1
            <4> QED  BY <4>2 DEF Line
        <3> QED  BY <2>3, <3>1 DEF TakeLine, LineBuffered, FailProtocol
    <2>4. CASE CheckPartialFrame
        BY <2>4 DEF CheckPartialFrame, Oversized, FailProtocol
    <2>5. CASE CloseConnection
        BY <2>5 DEF CloseConnection
    <2>6. CASE Expire \/ Stop
        BY <2>6 DEF Expire, Stop
    <2>7. CASE UNCHANGED vars
        BY <2>7 DEF vars
    <2> QED  BY <2>1, <2>2, <2>3, <2>4, <2>5, <2>6, <2>7 DEF Next, Reads
<1> QED  BY <1>1, <1>2, PTL DEF Spec

\* Whatever a client sends and however it is cut up, process_connection never
\* holds more than one legal frame and one read of it.
THEOREM BufferStaysBounded == Spec => []BufferIsBounded
BY BufferInvariant, PTL DEF BufferInv

-----------------------------------------------------------------------------
(***************************************************************************)
(* What the numbers come to.  The library's theorems of induction take a   *)
(* predicate as a parameter, which no installed prover can instantiate;    *)
(* that a set of numbers has a least one (WFMin) takes none, and serves as *)
(* well.                                                                   *)
(***************************************************************************)
\* A set of numbers that is not empty has a least one.
LEMMA LeastNumber ==
    ASSUME NEW T \in SUBSET Nat, T # {}
    PROVE  \E least \in T : \A n \in T : least <= n
<1> DEFINE R == OpToRel(<, Nat)
<1>1. IsWellFoundedOn(R, Nat)
    BY NatLessThanWellFounded, Zenon
<1>2. \A m, n \in Nat : m < n => <<m, n>> \in R
    BY DEF OpToRel
<1> HIDE DEF R
<1>3. PICK least \in T : \A n \in T : ~(<<n, least>> \in R)
    BY <1>1, WFMin
<1>4. \A n \in T : ~(n < least)
    BY <1>2, <1>3
<1> QED  BY <1>4

LEMMA Products == \A a, b \in Nat : a * b \in Nat
OBVIOUS

Horner(value, base, terms) ==
    \A i \in 1..Len(terms) : value[i] = base * value[i - 1] + terms[i]

\* Horner's scheme is well defined: there is a function with its equations,
\* and every such function has natural values.
LEMMA AccumulatedValues ==
    ASSUME NEW base \in Nat, NEW n \in Nat, NEW terms, Len(terms) = n,
           \A i \in 1..n : terms[i] \in Nat,
           NEW value, value = Accumulated(base, terms)
    PROVE  /\ \A i \in 0..n : value[i] \in Nat
           /\ value[0] = 0 /\ Horner(value, base, terms)
<1> DEFINE Upto(f, k) == f = [i \in 0..k |-> IF i = 0 THEN 0
                                            ELSE base * f[i - 1] + terms[i]]
\* Any solution, up to any k, has natural values.
<1>1. ASSUME NEW k \in 0..n, NEW f, Upto(f, k)
      PROVE  /\ \A i \in 0..k : f[i] \in Nat
             /\ f[0] = 0 /\ \A i \in 1..k : f[i] = base * f[i - 1] + terms[i]
    <2>1. /\ \A i \in 0..k : f[i] = IF i = 0 THEN 0 ELSE base * f[i - 1] + terms[i]
        BY <1>1
    <2> DEFINE Wrong == {i \in 0..k : f[i] \notin Nat}
    <2>2. Wrong = {}
        <3> SUFFICES ASSUME Wrong # {} PROVE FALSE
            OBVIOUS
        <3>1. PICK least \in Wrong : \A i \in Wrong : least <= i
            <4>1. Wrong \in SUBSET Nat
                OBVIOUS
            <4> HIDE DEF Wrong
            <4> QED  BY <4>1, LeastNumber
        <3>2. least # 0
            BY <2>1
        <3>3. least - 1 \in 0..k /\ f[least - 1] \in Nat /\ terms[least] \in Nat
            <4>1. least - 1 \in 0..k /\ ~(least <= least - 1)
                BY <3>2
            <4>2. least - 1 \notin Wrong
                BY <3>1, <4>1
            <4> QED  BY <3>2, <4>1, <4>2
        <3>4. f[least] = base * f[least - 1] + terms[least]
            BY <2>1, <3>2
        <3>5. base * f[least - 1] \in Nat
            BY <3>3, Products
        <3>6. f[least] \in Nat
            BY <3>3, <3>4, <3>5
        <3> QED  BY <3>6
    <2>3. \A i \in 0..k : f[i] \in Nat
        BY <2>2
    <2>4. f[0] = 0
        BY <2>1
    <2>5. ASSUME NEW i \in 1..k PROVE f[i] = base * f[i - 1] + terms[i]
        <3>1. i \in 0..k /\ i # 0
            OBVIOUS
        <3> QED  BY <2>1, <3>1
    <2> HIDE DEF Wrong, Upto
    <2> QED  BY <2>3, <2>4, <2>5
\* And there is one.
<1>2. \E f : Upto(f, n)
    <2> DEFINE Without == {k \in 0..n : \A f : ~Upto(f, k)}
    <2>1. Without = {}
        <3> SUFFICES ASSUME Without # {} PROVE FALSE
            OBVIOUS
        <3>1. PICK least \in Without : \A k \in Without : least <= k
            <4>1. Without \in SUBSET Nat
                OBVIOUS
            <4> HIDE DEF Without
            <4> QED  BY <4>1, LeastNumber
        <3>2. least # 0
            <4>1. Upto([i \in 0..0 |-> 0], 0)
                OBVIOUS
            <4> QED  BY <4>1
        <3>3. least - 1 \in 0..n /\ least - 1 \notin Without
            <4>1. least - 1 \in 0..n /\ ~(least <= least - 1)
                BY <3>2
            <4> QED  BY <3>1, <4>1
        <3>4. PICK f : Upto(f, least - 1)
            BY <3>3
        <3>5. \A i \in 0..(least - 1) :
                f[i] = IF i = 0 THEN 0 ELSE base * f[i - 1] + terms[i]
            BY <3>4
        <3> DEFINE g == [i \in 0..least |->
                            IF i = least THEN base * f[least - 1] + terms[least]
                                         ELSE f[i]]
        <3>6. \A i \in 0..least : g[i] = IF i = 0 THEN 0
                                         ELSE base * g[i - 1] + terms[i]
            BY <3>2, <3>5
        <3>7. Upto(g, least)
            BY <3>6
        <3> HIDE DEF g
        <3> QED  BY <3>7
    <2>2. n \in 0..n
        OBVIOUS
    <2> HIDE DEF Upto
    <2> QED  BY <2>1, <2>2
<1>3. Accumulated(base, terms) = CHOOSE f : Upto(f, n)
    BY DEF Accumulated
<1>4. Upto(Accumulated(base, terms), n)
    BY <1>2, <1>3
<1>5. n \in 0..n /\ Upto(value, n)
    BY <1>4
<1> HIDE DEF Upto
<1> QED  BY <1>1, <1>5 DEF Horner

Digits == {Digit[d] : d \in 1..10}

LEMMA DigitsHaveValues ==
    /\ \A c \in Digits : DigitValue(c) \in Nat
    /\ "0" \in Digits /\ DigitValue("0") = 0
<1>1. ASSUME NEW c \in Digits PROVE DigitValue(c) \in Nat
    <2>1. \E d \in 1..10 : Digit[d] = c
        BY DEF Digits
    <2> DEFINE place == CHOOSE d \in 1..10 : Digit[d] = c
    <2>2. place \in 1..10
        BY <2>1
    <2>3. DigitValue(c) = place - 1
        BY DEF DigitValue
    <2> HIDE DEF place
    <2> QED  BY <2>2, <2>3
<1>2. "0" \in Digits
    <2>1. Digit[1] = "0"
        BY DEF Digit
    <2> QED  BY <2>1 DEF Digits
<1>3. DigitValue("0") = 0
    <2>1. \A d \in 1..10 : Digit[d] = "0" <=> d = 1
        BY DEF Digit
    <2> QED  BY <2>1 DEF DigitValue
<1> QED  BY <1>1, <1>2, <1>3

\* The value of every prefix of a word of digits.
Values(word) == Accumulated(10, [i \in 1..Len(word) |-> DigitValue(word[i])])

LEMMA ValuesOfDigits ==
    ASSUME NEW word \in Seq(Digits),
           NEW terms, terms = [i \in 1..Len(word) |-> DigitValue(word[i])]
    PROVE  /\ Len(word) \in Nat /\ Len(terms) = Len(word)
           /\ \A i \in 0..Len(word) : Values(word)[i] \in Nat
           /\ Values(word)[0] = 0 /\ Horner(Values(word), 10, terms)
           /\ NumberOf(word) = Values(word)[Len(word)]
<1>a. PICK base \in Nat : base = 10
    OBVIOUS
<1>1. /\ Len(word) \in Nat /\ Len(terms) = Len(word)
      /\ \A i \in 1..Len(word) : terms[i] \in Nat
    <2>1. \A i \in 1..Len(word) : word[i] \in Digits
        OBVIOUS
    <2> QED  BY <2>1, DigitsHaveValues
<1>2. Values(word) = Accumulated(base, terms)
    BY <1>a DEF Values
<1>3. NumberOf(word) = Values(word)[Len(word)]
    BY DEF NumberOf, Values
<1>4. /\ \A i \in 0..Len(word) : Values(word)[i] \in Nat
      /\ Values(word)[0] = 0 /\ Horner(Values(word), base, terms)
    BY <1>1, <1>2, AccumulatedValues
<1> QED  BY <1>a, <1>1, <1>3, <1>4

-----------------------------------------------------------------------------
(***************************************************************************)
(* Line by line                                                            *)
(***************************************************************************)
\* The abstract specification reads frames the way the parser does.
LEMMA SameNumbers == \A word : Abstract!NumberOf(word) = NumberOf(word)
BY DEF NumberOf, Abstract!NumberOf, Accumulated, Abstract!Accumulated,
       DigitValue, Abstract!DigitValue, Digit, Abstract!Digit

LEMMA SameGrammar == \A line : Abstract!Legal(line) <=> Legal(line)
<1>1. \A word : Abstract!Number(word) <=> Number(word)
    BY SameNumbers DEF Number, Abstract!Number, Digit, Abstract!Digit
<1>2. \A word : Abstract!Uuid(word) <=> Uuid(word)
    BY DEF Uuid, Abstract!Uuid, IsHexadecimal, Abstract!IsHexadecimal, IsDigit,
           Abstract!IsDigit, Digit, Abstract!Digit, Separators, Abstract!Separators
<1> QED  BY <1>1, <1>2
         DEF Legal, Abstract!Legal, GrammaticalHello, Abstract!GrammaticalHello,
             GrammaticalState, Abstract!GrammaticalState, GrammaticalGoodbye,
             Abstract!GrammaticalGoodbye

FrameTypes ==
    /\ lines \in Seq(Line) /\ tail \in Nat
    /\ unread \in Nat /\ pending \in Nat /\ taken \in 0..Len(lines)
    /\ entry \in {NoEntry} \cup [id : Word, seq : Nat \cup {-1}]
    /\ worker \in {"poll", "frames", "leave"} \cup Outcome
    /\ running \in BOOLEAN

\* What has been read is what has been taken and what is pending.
Counted == Ends(lines)[taken] + pending + unread = Ends(lines)[Len(lines)] + tail

\* The entry sums up the lines that have been taken.
Judged ==
    entry # NoEntry =>
        /\ entry.id = << >> <=> taken = 0
        /\ \A j \in 1..taken : Abstract!IsState(j) =>
              Abstract!NumberIn(j) \in Nat /\ Abstract!NumberIn(j) <= entry.seq
        /\ \/ entry.seq = -1
           \/ \E j \in 1..taken : /\ Abstract!IsState(j)
                                  /\ Abstract!NumberIn(j) = entry.seq

ReadInv == FrameTypes /\ Counted /\ Judged

\* from_chars gives a number.
LEMMA NumbersAreNatural ==
    ASSUME NEW word \in Word, Number(word) PROVE NumberOf(word) \in Nat
<1>1. word \in Seq(Digits)
    BY DEF Word, Number, Digits
<1>2. Len(word) \in 0..Len(word)
    BY <1>1
<1> QED  BY <1>1, <1>2, ValuesOfDigits

\* Every line ends behind its newline.
LEMMA LineEnds ==
    ASSUME NEW ls \in Seq(Line)
    PROVE  /\ Ends(ls)[0] = 0
           /\ \A i \in 0..Len(ls) : Ends(ls)[i] \in Nat
           /\ \A i \in 1..Len(ls) : Ends(ls)[i] = Ends(ls)[i - 1] + ls[i].size + 1
<1>a. PICK base \in Nat : base = 1
    OBVIOUS
<1> DEFINE terms == [i \in 1..Len(ls) |-> ls[i].size + 1]
           value == Accumulated(base, terms)
           n == Len(ls)
<1>1. \A i \in 1..n : ls[i].size \in Nat
    <2>1. \A i \in 1..n : ls[i] \in Line
        OBVIOUS
    <2> QED  BY <2>1 DEF Line
<1>2. /\ n \in Nat /\ Len(terms) = n
      /\ \A i \in 1..n : terms[i] = ls[i].size + 1 /\ terms[i] \in Nat
    BY <1>1
<1> HIDE DEF terms, n
<1>3. /\ \A i \in 0..n : value[i] \in Nat
      /\ value[0] = 0 /\ Horner(value, base, terms)
    BY <1>2, AccumulatedValues
<1>4. value = Ends(ls)
    BY <1>a DEF Ends, terms
<1> HIDE DEF value
<1>5. ASSUME NEW i \in 1..n PROVE value[i] = value[i - 1] + ls[i].size + 1
    <2> DEFINE before == value[i - 1]
               size == ls[i].size
    <2>1. before \in Nat /\ size \in Nat
        BY <1>1, <1>2, <1>3
    <2>2. value[i] = base * before + (size + 1)
        BY <1>2, <1>3 DEF Horner
    <2> HIDE DEF before, size
    <2>3. value[i] = before + size + 1
        BY <1>a, <2>1, <2>2
    <2> QED  BY <2>3 DEF before, size
<1> QED  BY <1>3, <1>4, <1>5 DEF n

\* What the frame of a line is.
LEMMA FrameOfLine ==
    ASSUME NEW line \in Line, ParseFrame(line) # NoFrame
    PROVE  LET frame == ParseFrame(line)
               words == line.words
           IN
           /\ Legal(line)
           /\ \/ /\ words[2] = <<"HELLO">> /\ frame.kind = "hello"
                 /\ frame.id = words[3] /\ words[3] \in Word /\ words[3] # << >>
              \/ /\ words[2] = <<"STATE">> /\ frame.kind = "state"
                 /\ frame.seq = NumberOf(words[3]) /\ NumberOf(words[3]) \in Nat
              \/ words[2] = <<"GOODBYE">> /\ frame.kind = "goodbye"
<1> DEFINE words == line.words
           frame == ParseFrame(line)
<1>1. Legal(line)
    BY ParserAcceptsTheGrammar
<1>2. ~Refused(line) /\ SplitTokens(words) = words /\ words \in Seq(Word)
    BY <1>1, GrammarIsNotRefused DEF Tokens, Line
<1>3. CASE GrammaticalHello(words)
    <2>1. /\ Len(words) = 3 /\ words[1] = <<"PG/1">> /\ words[2] = <<"HELLO">>
          /\ Uuid(words[3]) /\ words[3] \in Word
        BY <1>2, <1>3 DEF GrammaticalHello
    <2>2. IsUuid(words[3])
        BY <2>1, UuidShape
    <2>3. frame = [kind |-> "hello", id |-> words[3]]
        BY <1>2, <2>1, <2>2 DEF ParseFrame
    <2>4. words[3] # << >>
        <3>1. Len(words[3]) # Len(<< >>)
            BY <2>1 DEF Uuid
        <3> QED  BY <3>1, Zenon
    <2> QED  BY <1>1, <2>1, <2>3, <2>4
<1>4. CASE GrammaticalState(words)
    <2>1. /\ Len(words) = 4 /\ words[1] = <<"PG/1">> /\ words[2] = <<"STATE">>
          /\ words[4] \in {<<"SAFE">>, <<"SENSITIVE">>}
          /\ Number(words[3]) /\ words[3] \in Word
        BY <1>2, <1>4 DEF GrammaticalState
    <2>2. ParsesAsSequence(words[3])
        BY <2>1, SequenceIsNumber
    <2>3. frame = [kind |-> "state", seq |-> NumberOf(words[3]),
                   sensitive |-> words[4] = <<"SENSITIVE">>]
        BY <1>2, <2>1, <2>2 DEF ParseFrame
    <2> QED  BY <1>1, <2>1, <2>3, NumbersAreNatural
<1>5. CASE GrammaticalGoodbye(words)
    <2>1. Len(words) = 2 /\ words[1] = <<"PG/1">> /\ words[2] = <<"GOODBYE">>
        BY <1>5 DEF GrammaticalGoodbye
    <2>2. frame = [kind |-> "goodbye"]
        BY <1>2, <2>1 DEF ParseFrame
    <2> QED  BY <1>1, <2>1, <2>2
<1> QED  BY <1>1, <1>3, <1>4, <1>5 DEF Legal

LEMMA EntryTypes ==
    /\ NoEntry \notin [id : Word, seq : Nat \cup {-1}]
    /\ Unidentified \in [id : Word, seq : Nat \cup {-1}]
BY DEF NoEntry, Unidentified, Word

\* The line that is next, when it is complete.
LEMMA NextLine ==
    ASSUME ReadInv, LineBuffered
    PROVE  /\ taken + 1 \in 1..Len(lines) /\ lines[taken + 1] \in Line
           /\ lines[taken + 1].size \in Nat /\ pending > lines[taken + 1].size
           /\ Ends(lines)[taken + 1] = Ends(lines)[taken] + lines[taken + 1].size + 1
           /\ Ends(lines)[taken] \in Nat /\ Ends(lines)[taken + 1] \in Nat
<1>1. taken + 1 \in 1..Len(lines) /\ (taken + 1) - 1 = taken
    BY DEF ReadInv, FrameTypes, LineBuffered
<1>2. lines[taken + 1] \in Line
    BY <1>1 DEF ReadInv, FrameTypes
<1>3. lines \in Seq(Line) /\ taken \in 0..Len(lines) /\ taken + 1 \in 0..Len(lines)
    BY <1>1 DEF ReadInv, FrameTypes
<1> QED  BY <1>1, <1>2, <1>3, LineEnds DEF Line, LineBuffered

\* The entry accepts a frame exactly if its line may follow those before it.
LEMMA AcceptsWhatMayFollow ==
    ASSUME ReadInv, LineBuffered, entry # NoEntry,
           NEW i, i = taken + 1,
           NEW words, words = lines[i].words,
           NEW frame, frame = ParseFrame(lines[i]), frame # NoFrame
    PROVE  /\ Accepts(frame) <=> Abstract!MayFollow(i)
           /\ (frame.kind = "goodbye") <=> (Abstract!Kind(i) = <<"GOODBYE">>)
<1> DEFINE Hello == words[2] = <<"HELLO">>
           State == words[2] = <<"STATE">>
           Goodbye == words[2] = <<"GOODBYE">>
           number == NumberOf(words[3])
           Higher == \A j \in 1..taken : Abstract!IsState(j) =>
                        Abstract!NumberIn(j) < number
<1>a. \/ /\ Hello /\ frame.kind = "hello"
         /\ frame.id = words[3] /\ words[3] \in Word /\ words[3] # << >>
      \/ /\ State /\ frame.kind = "state" /\ frame.seq = number /\ number \in Nat
      \/ Goodbye /\ frame.kind = "goodbye"
    BY NextLine, FrameOfLine
<1>b. /\ (Hello => ~State /\ ~Goodbye)
      /\ (State => ~Goodbye)
    <2>1. /\ <<"HELLO">>[1] = "HELLO" /\ <<"STATE">>[1] = "STATE"
          /\ <<"GOODBYE">>[1] = "GOODBYE"
        OBVIOUS
    <2>2. /\ <<"HELLO">> # <<"STATE">> /\ <<"HELLO">> # <<"GOODBYE">>
          /\ <<"STATE">> # <<"GOODBYE">>
        BY <2>1
    <2> QED  BY <2>2
<1>c. /\ taken \in Nat
      /\ ((entry.id = << >>) <=> (taken = 0))
      /\ ((i = 1) <=> (taken = 0))
      /\ i - 1 = taken
    BY DEF ReadInv, FrameTypes, Judged
<1>d. State /\ number \in Nat => (number > entry.seq <=> Higher)
    <2> HAVE State /\ number \in Nat
    <2>1. /\ \A j \in 1..taken : Abstract!IsState(j) =>
                 Abstract!NumberIn(j) \in Nat /\ Abstract!NumberIn(j) <= entry.seq
          /\ \/ entry.seq = -1
             \/ \E j \in 1..taken : /\ Abstract!IsState(j)
                                    /\ Abstract!NumberIn(j) = entry.seq
          /\ entry.seq \in Nat \cup {-1}
        BY DEF ReadInv, FrameTypes, Judged
    <2> HIDE DEF number
    <2> QED  BY <2>1
<1>e. Abstract!MayFollow(i) <=>
        /\ (Hello <=> (taken = 0))
        /\ (taken = 0 => words[3] \notin Claimed)
        /\ (State => Higher)
    BY <1>c, SameNumbers
       DEF Abstract!MayFollow, Abstract!Kind, Abstract!IsState, Abstract!NumberIn
<1>f. Abstract!Kind(i) = words[2]
    BY DEF Abstract!Kind
<1> HIDE DEF Hello, State, Goodbye, Higher, number
<1> DEFINE Same == Accepts(frame) <=> Abstract!MayFollow(i)
<1>1. ASSUME Hello PROVE Same
    BY <1>1, <1>a, <1>b, <1>c, <1>e DEF Accepts
<1>2. ASSUME State PROVE Same
    BY <1>2, <1>a, <1>b, <1>c, <1>d, <1>e DEF Accepts
<1>3. ASSUME Goodbye PROVE Same
    BY <1>3, <1>a, <1>b, <1>c, <1>e DEF Accepts
<1>4. (frame.kind = "goodbye") <=> Goodbye
    BY <1>a, <1>b
<1> QED  BY <1>1, <1>2, <1>3, <1>4, <1>a, <1>f DEF Goodbye

LEMMA ReadInvInit == Init => ReadInv
<1> SUFFICES ASSUME Init PROVE ReadInv
    OBVIOUS
<1>1. PICK s \in Streams :
        lines = s.lines /\ tail = s.tail /\ unread = Bytes(s)
    BY DEF Init
<1>2. lines \in Seq(Line) /\ tail \in Nat
    BY <1>1, StreamAssumption
<1>3. Ends(lines)[0] = 0 /\ Ends(lines)[Len(lines)] \in Nat
    BY <1>2, LineEnds
<1>4. unread = Ends(lines)[Len(lines)] + tail /\ unread \in Nat
    BY <1>1, <1>2, <1>3 DEF Bytes
<1>5. FrameTypes
    BY <1>2, <1>4, EntryTypes DEF Init, FrameTypes
<1>6. Counted
    BY <1>2, <1>3, <1>4 DEF Init, Counted
<1>7. Judged
    BY DEF Init, Judged, Unidentified
<1> QED  BY <1>5, <1>6, <1>7 DEF ReadInv

\* What is said of a line stays true while the stream is the same.
LEMMA SameLines ==
    ASSUME UNCHANGED lines
    PROVE  /\ \A j : Abstract!IsState(j)' <=> Abstract!IsState(j)
           /\ \A j : Abstract!NumberIn(j)' = Abstract!NumberIn(j)
BY DEF Abstract!IsState, Abstract!Kind, Abstract!NumberIn, Abstract!NumberOf,
       Abstract!Accumulated, Abstract!DigitValue, Abstract!Digit

\* A frame that is accepted is counted and judged.
LEMMA TakingALine ==
    ASSUME ReadInv, worker = "frames", LineBuffered,
           NEW i, i = taken + 1,
           NEW frame, frame = ParseFrame(lines[i]),
           frame # NoFrame, Accepts(frame), TakeLine
    PROVE  /\ ReadInv'
           /\ taken' = i /\ UNCHANGED <<lines, tail>>
           /\ \/ frame.kind = "goodbye" /\ entry' = NoEntry /\ worker' = "goodbye"
              \/ /\ frame.kind # "goodbye" /\ entry' # NoEntry
                 /\ worker' = "frames"
<1> DEFINE words == lines[i].words
           size == lines[i].size
<1>1. /\ i \in 1..Len(lines) /\ lines[i] \in Line
      /\ size \in Nat /\ pending > size
      /\ Ends(lines)[i] = Ends(lines)[taken] + size + 1
      /\ Ends(lines)[taken] \in Nat /\ Ends(lines)[i] \in Nat
    BY NextLine
<1>2. /\ entry # NoEntry
      /\ entry' = Applied(frame) /\ taken' = i
      /\ pending' = pending - (size + 1)
      /\ worker' = IF frame.kind = "goodbye" THEN "goodbye" ELSE "frames"
      /\ UNCHANGED <<lines, tail, unread, running>>
    BY DEF TakeLine, FailProtocol, stream, Accepts
<1>3. \/ /\ words[2] = <<"HELLO">> /\ frame.kind = "hello"
         /\ frame.id = words[3] /\ words[3] \in Word /\ words[3] # << >>
      \/ /\ words[2] = <<"STATE">> /\ frame.kind = "state"
         /\ frame.seq = NumberOf(words[3]) /\ NumberOf(words[3]) \in Nat
      \/ words[2] = <<"GOODBYE">> /\ frame.kind = "goodbye"
    BY <1>1, FrameOfLine
<1>4. /\ lines \in Seq(Line) /\ tail \in Nat /\ unread \in Nat /\ pending \in Nat
      /\ taken \in Nat /\ taken = i - 1 /\ running \in BOOLEAN
      /\ entry \in [id : Word, seq : Nat \cup {-1}]
    BY <1>2 DEF ReadInv, FrameTypes
<1>5. /\ frame.kind = "hello" =>
            /\ entry' = [id |-> words[3], seq |-> entry.seq]
            /\ entry.id = << >>
      /\ frame.kind = "state" =>
            /\ entry' = [id |-> entry.id, seq |-> frame.seq]
            /\ frame.seq > entry.seq /\ entry.id # << >>
      /\ frame.kind = "goodbye" => entry' = NoEntry
    BY <1>2, <1>3, <1>4 DEF Applied, Accepts
<1>6. /\ frame.kind # "goodbye" => entry' \in [id : Word, seq : Nat \cup {-1}]
      /\ entry' \in {NoEntry} \cup [id : Word, seq : Nat \cup {-1}]
    <2> HIDE DEF words
    <2>1. entry.id \in Word /\ entry.seq \in Nat \cup {-1}
        BY <1>4
    <2>2. CASE frame.kind = "hello"
        BY <1>3, <1>5, <2>1, <2>2
    <2>3. CASE frame.kind = "state"
        BY <1>3, <1>5, <2>1, <2>3
    <2>4. CASE frame.kind = "goodbye"
        BY <1>5, <2>4
    <2> QED  BY <1>3, <2>2, <2>3, <2>4
<1>7. FrameTypes'
    <2>1. pending' \in Nat
        <3> HIDE DEF size
        <3> QED  BY <1>1, <1>2, <1>4
    <2>2. taken' \in 0..Len(lines')
        BY <1>1, <1>2, <1>4
    <2> QED  BY <1>2, <1>4, <1>6, <2>1, <2>2 DEF FrameTypes, Outcome
<1>8. Counted'
    <2>0. Ends(lines)[taken] + pending + unread = Ends(lines)[Len(lines)] + tail
        BY DEF ReadInv, Counted
    <2>1. Ends(lines)[Len(lines)] \in Nat
        <3>1. Len(lines) \in 0..Len(lines)
            BY <1>4
        <3> QED  BY <1>4, <3>1, LineEnds
    <2> HIDE DEF size
    <2>2. PICK before, after \in Nat :
            before = Ends(lines)[taken] /\ after = Ends(lines)[i]
        BY <1>1
    <2>3. size \in Nat /\ pending \in Nat /\ after = before + size + 1
        BY <1>1, <1>4, <2>2
    <2>4. PICK rest : rest = pending - (size + 1) /\ rest = pending'
        BY <1>2
    <2>5. after + rest = before + pending
        BY <2>3, <2>4
    <2>6. Ends(lines)[i] + pending' + unread = Ends(lines)[Len(lines)] + tail
        BY <2>0, <2>2, <2>4, <2>5
    <2> QED  BY <1>2, <2>6 DEF Counted
<1>9. Judged'
    <2>1. /\ ((entry.id = << >>) <=> (taken = 0))
          /\ \A j \in 1..taken : Abstract!IsState(j) =>
                Abstract!NumberIn(j) \in Nat /\ Abstract!NumberIn(j) <= entry.seq
          /\ \/ entry.seq = -1
             \/ \E j \in 1..taken : /\ Abstract!IsState(j)
                                    /\ Abstract!NumberIn(j) = entry.seq
        BY <1>2 DEF ReadInv, Judged
    <2>2. /\ Abstract!IsState(i) <=> words[2] = <<"STATE">>
          /\ Abstract!NumberIn(i) = NumberOf(words[3])
        BY SameNumbers DEF Abstract!IsState, Abstract!Kind, Abstract!NumberIn
    <2>3. /\ \A j : Abstract!IsState(j)' <=> Abstract!IsState(j)
          /\ \A j : Abstract!NumberIn(j)' = Abstract!NumberIn(j)
        BY <1>2, SameLines
    <2>4. <<"HELLO">> # <<"STATE">>
        <3>1. <<"HELLO">>[1] = "HELLO" /\ <<"STATE">>[1] = "STATE"
            OBVIOUS
        <3> QED  BY <3>1
    <2> HIDE DEF words
    <2>5. CASE frame.kind = "hello"
        BY <1>2, <1>3, <1>4, <1>5, <2>1, <2>2, <2>3, <2>4, <2>5 DEF Judged
    <2>6. CASE frame.kind = "state"
        <3>1. entry'.seq = frame.seq /\ entry'.id # << >> /\ taken' # 0
            BY <1>2, <1>4, <1>5, <2>6
        <3>2. /\ Abstract!IsState(i) /\ Abstract!NumberIn(i) = frame.seq
              /\ frame.seq \in Nat /\ frame.seq > entry.seq
            BY <1>3, <1>5, <2>2, <2>6
        <3>3. ASSUME NEW j \in 1..i, Abstract!IsState(j)
              PROVE  Abstract!NumberIn(j) \in Nat /\ Abstract!NumberIn(j) <= frame.seq
            BY <1>4, <2>1, <3>2, <3>3
        <3> QED  BY <1>1, <1>2, <2>3, <3>1, <3>2, <3>3 DEF Judged
    <2>7. CASE frame.kind = "goodbye"
        BY <1>5, <2>7 DEF Judged
    <2> QED  BY <1>3, <2>5, <2>6, <2>7
<1>10. \/ frame.kind = "goodbye" /\ entry' = NoEntry /\ worker' = "goodbye"
       \/ frame.kind # "goodbye" /\ entry' # NoEntry /\ worker' = "frames"
    BY <1>2, <1>3, <1>5, <1>6, EntryTypes
<1> QED  BY <1>2, <1>7, <1>8, <1>9, <1>10 DEF ReadInv

LEMMA ReadInvStep ==
    ASSUME ReadInv, [Next]_vars PROVE ReadInv'
<1>1. ASSUME UNCHANGED <<lines, taken>>, Counted', FrameTypes',
             UNCHANGED entry \/ entry' = NoEntry
      PROVE  ReadInv'
    <2>1. Judged'
        BY <1>1, SameLines DEF ReadInv, Judged
    <2> QED  BY <1>1, <2>1 DEF ReadInv
<1>2. Ends(lines)[taken] \in Nat
    BY LineEnds DEF ReadInv, FrameTypes
<1>3. ASSUME NEW n \in 1..BufferSize, Read(n) PROVE ReadInv'
    <2>1. UNCHANGED <<lines, tail, taken, entry, running>>
        BY <1>3 DEF Read, stream
    <2>2. FrameTypes'
        BY <1>3, <2>1, BufferAssumption DEF ReadInv, FrameTypes, Read
    <2>3. Counted'
        <3>1. unread' = unread - n /\ pending' = pending + n
            BY <1>3 DEF Read
        <3>2. n \in Nat /\ pending \in Nat /\ unread \in Nat
            BY BufferAssumption DEF ReadInv, FrameTypes
        <3> DEFINE before == Ends(lines)[taken]
        <3>a. before \in Nat
            BY <1>2
        <3> HIDE DEF before
        <3>3. before + pending' + unread' = before + pending + unread
            BY <3>a, <3>1, <3>2
        <3> QED  BY <2>1, <3>3 DEF ReadInv, Counted, before
    <2> QED  BY <1>1, <2>1, <2>2, <2>3
<1>4. ASSUME UNCHANGED <<lines, tail, unread, pending, taken>>,
             UNCHANGED entry \/ entry' = NoEntry,
             worker' \in {"poll", "frames", "leave"} \cup Outcome,
             running' \in BOOLEAN
      PROVE  ReadInv'
    <2>1. FrameTypes'
        BY <1>4 DEF ReadInv, FrameTypes
    <2>2. Counted'
        BY <1>4 DEF ReadInv, Counted
    <2> QED  BY <1>1, <1>4, <2>1, <2>2
<1>5. worker \in {"poll", "frames", "leave"} \cup Outcome /\ running \in BOOLEAN
    BY DEF ReadInv, FrameTypes
<1>6. CASE LeaveLoop
    BY <1>4, <1>5, <1>6 DEF LeaveLoop, stream
<1>7. CASE TakeLine
    <2> DEFINE frame == ParseFrame(lines[taken + 1])
    <2>1. CASE frame = NoFrame \/ ~Accepts(frame)
        BY <1>4, <1>5, <1>7, <2>1 DEF TakeLine, FailProtocol, Outcome, stream
    <2>2. CASE frame # NoFrame /\ Accepts(frame)
        <3>1. worker = "frames" /\ LineBuffered
            BY <1>7 DEF TakeLine
        <3> QED  BY <1>7, <2>2, <3>1, TakingALine
    <2> QED  BY <2>1, <2>2
<1>8. CASE CheckPartialFrame
    BY <1>4, <1>5, <1>8 DEF CheckPartialFrame, FailProtocol, Outcome, stream
<1>9. CASE CloseConnection
    BY <1>4, <1>5, <1>9 DEF CloseConnection, Outcome, stream
<1>10. CASE Expire
    BY <1>4, <1>5, <1>10 DEF Expire, stream
<1>11. CASE Stop
    BY <1>4, <1>5, <1>11 DEF Stop, stream
<1>12. CASE UNCHANGED vars
    BY <1>4, <1>5, <1>12 DEF vars, stream
<1> QED  BY <1>3, <1>6, <1>7, <1>8, <1>9, <1>10, <1>11, <1>12 DEF Next, Reads

THEOREM ReadInvariant == Spec => []ReadInv
BY ReadInvInit, ReadInvStep, PTL DEF Spec

\* The worker never takes a line that does not come, and what its connection
\* has in PrivacyState is a client or nothing.
THEOREM ReaderTypeCorrect == Spec => []TypeOK
<1>1. ReadInv => TypeOK
    BY DEF ReadInv, FrameTypes, TypeOK
<1> QED  BY <1>1, ReadInvariant, PTL

-----------------------------------------------------------------------------
(***************************************************************************)
(* The reader implements LineReader                                        *)
(***************************************************************************)
\* Whether there is a next line that the protocol allows.
LEMMA AcceptableLine ==
    ASSUME ReadInv, LineBuffered,
           NEW i, i = taken + 1, NEW frame, frame = ParseFrame(lines[i])
    PROVE  /\ Abstract!Acceptable(i) <=> (frame # NoFrame /\ Accepts(frame))
           /\ frame # NoFrame /\ Accepts(frame) =>
                ((frame.kind = "goodbye") <=> (Abstract!Kind(i) = <<"GOODBYE">>))
<1>1. i \in DOMAIN lines /\ lines[i] \in Line
    BY NextLine DEF ReadInv, FrameTypes
<1>2. Abstract!Legal(lines[i]) <=> frame # NoFrame
    BY <1>1, SameGrammar, ParserAcceptsTheGrammar
<1>3. Accepts(frame) => entry # NoEntry
    BY DEF Accepts
<1>4. ASSUME entry # NoEntry, frame # NoFrame
      PROVE  /\ Accepts(frame) <=> Abstract!MayFollow(i)
             /\ (frame.kind = "goodbye") <=> (Abstract!Kind(i) = <<"GOODBYE">>)
    BY <1>4, AcceptsWhatMayFollow
<1> QED  BY <1>1, <1>2, <1>3, <1>4 DEF Abstract!Acceptable

LEMMA ReadsStep ==
    ASSUME ReadInv, [Next]_vars
    PROVE  [Abstract!Next]_(Abstract!vars)
<1> DEFINE standing == entry # NoEntry
           outcome == IF worker \in Outcome THEN worker ELSE "reading"
<1>a. "poll" \notin Outcome /\ "frames" \notin Outcome /\ "leave" \notin Outcome
    BY DEF Outcome
<1>1. ASSUME UNCHANGED <<lines, tail, taken>>, standing' = standing,
             outcome' = outcome
      PROVE  UNCHANGED Abstract!vars
    BY <1>1 DEF Abstract!vars
<1>2. CASE Reads
    BY <1>1, <1>2, <1>a DEF Reads, Read, stream
<1>3. CASE LeaveLoop
    BY <1>1, <1>3, <1>a DEF LeaveLoop, stream
<1>4. CASE TakeLine
    <2>a. PICK i : i = taken + 1
        OBVIOUS
    <2>b. PICK frame : frame = ParseFrame(lines[i])
        OBVIOUS
    <2>c. worker = "frames" /\ LineBuffered /\ outcome = "reading"
        BY <1>4, <1>a DEF TakeLine
    <2>d. /\ Abstract!Acceptable(i) <=> (frame # NoFrame /\ Accepts(frame))
          /\ frame # NoFrame /\ Accepts(frame) =>
                ((frame.kind = "goodbye") <=> (Abstract!Kind(i) = <<"GOODBYE">>))
        BY <2>a, <2>b, <2>c, AcceptableLine
    <2>1. CASE frame # NoFrame /\ Accepts(frame)
        <3>1. /\ taken' = i /\ UNCHANGED <<lines, tail>>
              /\ \/ frame.kind = "goodbye" /\ ~standing' /\ outcome' = "goodbye"
                 \/ frame.kind # "goodbye" /\ standing' /\ outcome' = "reading"
            <4>1. "goodbye" \in Outcome
                BY DEF Outcome
            <4> QED  BY <1>4, <1>a, <2>a, <2>b, <2>c, <2>1, <4>1, TakingALine
        <3>2. Abstract!Take
            BY <2>a, <2>c, <2>d, <2>1, <3>1 DEF Abstract!Take
        <3> QED  BY <3>2 DEF Abstract!Next
    <2>2. CASE frame = NoFrame \/ ~Accepts(frame)
        <3>1. /\ UNCHANGED <<lines, tail, taken>>
              /\ outcome' = "failed" /\ standing' = FALSE
            BY <1>4, <2>a, <2>b, <2>2 DEF TakeLine, FailProtocol, Outcome, stream
        <3>2. taken < Len(lines) /\ ~Abstract!Acceptable(taken + 1)
            BY <2>a, <2>c, <2>d, <2>2 DEF LineBuffered
        <3>3. Abstract!Refuse
            BY <2>c, <3>1, <3>2 DEF Abstract!Refuse
        <3> QED  BY <3>3 DEF Abstract!Next
    <2> QED  BY <2>1, <2>2
<1>5. CASE CheckPartialFrame
    <2>1. worker = "frames" /\ ~LineBuffered /\ outcome = "reading"
        BY <1>5, <1>a DEF CheckPartialFrame
    <2>2. CASE ~Oversized
        BY <1>1, <1>5, <1>a, <2>1, <2>2 DEF CheckPartialFrame, stream
    <2>3. CASE Oversized
        <3>1. /\ UNCHANGED <<lines, tail, taken>>
              /\ outcome' = "failed" /\ standing' = FALSE
            BY <1>5, <2>3 DEF CheckPartialFrame, FailProtocol, Outcome, stream
        <3>2. /\ lines \in Seq(Line) /\ tail \in Nat /\ unread \in Nat
              /\ pending \in Nat /\ taken \in 0..Len(lines)
            BY DEF ReadInv, FrameTypes
        <3>3. ASSUME taken < Len(lines) PROVE ~Abstract!Acceptable(taken + 1)
            <4>1. taken + 1 \in 1..Len(lines)
                BY <3>2, <3>3
            <4>2. lines[taken + 1] \in Line
                BY <3>2, <4>1
            <4>3. ~(lines[taken + 1].size <= MaxFrameSize)
                BY <2>1, <2>3, <3>2, <3>3, <4>2, LimitAssumption
                   DEF LineBuffered, Oversized, Line
            <4>4. ~Legal(lines[taken + 1])
                BY <4>3, LimitAssumption DEF Legal
            <4> QED  BY <4>4, SameGrammar DEF Abstract!Acceptable
        <3>4. ASSUME ~(taken < Len(lines)) PROVE tail > MaxFrameSize
            <4>1. taken = Len(lines)
                BY <3>2, <3>4
            <4>2. Ends(lines)[taken] \in Nat
                BY <3>2, LineEnds
            <4>3. Ends(lines)[taken] + pending + unread = Ends(lines)[taken] + tail
                BY <4>1 DEF ReadInv, Counted
            <4>4. pending + unread = tail
                BY <3>2, <4>2, <4>3
            <4> QED  BY <2>3, <3>2, <4>4, LimitAssumption DEF Oversized
        <3>5. Abstract!Refuse
            BY <2>1, <3>1, <3>3, <3>4 DEF Abstract!Refuse
        <3> QED  BY <3>5 DEF Abstract!Next
    <2> QED  BY <2>2, <2>3
<1>6. CASE CloseConnection
    <2>1. /\ UNCHANGED <<lines, tail, taken>> /\ outcome = "reading"
          /\ \/ outcome' = "closed" /\ standing' = FALSE
             \/ outcome' = "left" /\ UNCHANGED standing
        BY <1>6, <1>a DEF CloseConnection, Outcome, stream
    <2>2. Abstract!Leave
        BY <2>1 DEF Abstract!Leave
    <2> QED  BY <2>2 DEF Abstract!Next
<1>7. CASE Expire
    <2>1. UNCHANGED <<lines, tail, taken>> /\ outcome' = outcome /\ standing' = FALSE
        BY <1>7 DEF Expire, stream
    <2>2. Abstract!Drop
        BY <2>1 DEF Abstract!Drop
    <2> QED  BY <2>2 DEF Abstract!Next
<1>8. CASE Stop
    BY <1>1, <1>8 DEF Stop, stream
<1>9. CASE UNCHANGED vars
    BY <1>1, <1>9 DEF vars, stream
<1> QED  BY <1>2, <1>3, <1>4, <1>5, <1>6, <1>7, <1>8, <1>9 DEF Next

\* Wherever the reads cut the bytes, whatever the client sends and whatever the
\* limits are, the connection is read as LineReader says: line by line, each
\* judged by the grammar and by the lines before it.  (That every line is judged
\* in the end is the fair half of ReadsLineByLine, which TLC checks.)
THEOREM ReadsLineByLineSafely ==
    Spec => Abstract!Init /\ [][Abstract!Next]_(Abstract!vars)
<1>1. Init => Abstract!Init
    <2>1. Unidentified # NoEntry /\ "poll" \notin Outcome
        BY EntryTypes DEF Outcome
    <2> QED  BY <2>1 DEF Init, Abstract!Init
<1> QED  BY <1>1, ReadInvariant, ReadsStep, PTL DEF Spec
=============================================================================
