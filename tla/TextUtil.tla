-------------------------------- MODULE TextUtil --------------------------------
(*************************************************************************)
(* The text helpers the configuration, the logs and the updater rest on: *)
(* Tokenize, StringTo and ToString for integers, the conversion          *)
(* between bytes and hexadecimal text, and ToTimeString.                 *)
(*                                                                       *)
(* A text is a sequence of characters. The bases are constants, so that  *)
(* small ones can stand for ten, sixteen, and the 60 seconds of a minute.*)
(*************************************************************************)
EXTENDS Integers, Sequences, SequencesExt

CONSTANTS
    TextSamples,        \* texts
    Separator,
    Digits,             \* the digits of numbers, that of zero first
    TypeSize,           \* the integer type has the values 0 .. TypeSize - 1
    HexBase,            \* 16
    ByteSamples,        \* sequences of bytes
    Radix,              \* <<1000, 1000, 60, 60, 24>>: how many of a unit are the next one
    DurationSamples

ASSUME TextAssumption ==
    /\ TypeSize \in Nat \ {0} /\ HexBase \in Nat \ {0, 1} /\ Len(Digits) > 1
    /\ ByteSamples \subseteq Seq(0 .. HexBase * HexBase - 1)
    /\ Radix \in Seq(Nat \ {0}) /\ DurationSamples \subseteq Nat

VARIABLES text, bytes, duration
textVars == <<text, bytes, duration>>

TextInit == text \in TextSamples /\ bytes \in ByteSamples /\ duration \in DurationSamples
TextTypeOK == text \in TextSamples /\ bytes \in ByteSamples /\ duration \in DurationSamples

-------------------------------------------------------------------------------
\* The first separator from a position on, or one past the end.
Find(str, start) == CHOOSE end \in start .. Len(str) + 1 :
                        /\ end <= Len(str) => str[end] = Separator
                        /\ \A i \in start .. end - 1 : str[i] # Separator

\* The token that ends before the next separator, and those after it.
Tokenize(str, keepEmpty) ==
    LET From[start \in 1 .. Len(str) + 2] ==
            LET end == Find(str, start)
                token == IF keepEmpty \/ start < end THEN <<SubSeq(str, start, end - 1)>> ELSE <<>>
            IN  IF end > Len(str) THEN token ELSE token \o From[end + 1]
    IN  From[1]

-------------------------------------------------------------------------------
NoNumber == -1
DigitOf(c) == (CHOOSE i \in DOMAIN Digits : Digits[i] = c) - 1

\* Variant of FromString: a number that is too large wraps around.
FromStringWraps(str) ==
    LET Next(n, c) == Len(Digits) * n + DigitOf(c)
    IN  IF str # <<>> /\ ToSet(str) \subseteq ToSet(Digits)
        THEN FoldLeft(Next, 0, str) % TypeSize ELSE NoNumber

\* std::from_chars for an unsigned type: digits only, to the end, and within the type.
FromString(str) ==
    LET Next(n, c) == Len(Digits) * n + DigitOf(c)
        n == FoldLeft(Next, 0, str)
    IN  IF str # <<>> /\ ToSet(str) \subseteq ToSet(Digits) /\ n < TypeSize THEN n ELSE NoNumber

NumberToString(val) ==
    LET Of[n \in 0 .. val] ==
            (IF n < Len(Digits) THEN <<>> ELSE Of[n \div Len(Digits)])
            \o <<Digits[(n % Len(Digits)) + 1]>>
    IN  Of[val]

-------------------------------------------------------------------------------
\* Two digits for each byte, that is "%02X"; reverse begins with the last byte.
ByteArrayToHexStr(array, reverse) ==
    LET Hex(byte) == <<byte \div HexBase, byte % HexBase>>
    IN  FlattenSeq([i \in DOMAIN array |->
                       Hex(array[IF reverse THEN Len(array) + 1 - i ELSE i])])

\* Pairs of digits, from the front or, in reverse, from the end.
HexStrToByteArray(str, reverse) ==
    LET n == Len(str) \div 2
        At(i) == IF reverse THEN Len(str) + 1 - 2 * i ELSE 2 * i - 1
    IN  [i \in 1 .. n |-> HexBase * str[At(i)] + str[At(i) + 1]]

-------------------------------------------------------------------------------
\* How many of the smallest unit the k-th unit from the smallest is.
Unit[k \in 1 .. Len(Radix) + 1] == IF k = 1 THEN 1 ELSE Unit[k - 1] * Radix[k - 1]

PartOf(time, k) == IF k > Len(Radix) THEN time \div Unit[k] ELSE (time \div Unit[k]) % Radix[k]

\* The units that are shown, the largest first: those that are not zero, at most outCount.
ToTimeString(time, outCount) ==
    LET units == [i \in 1 .. Len(Radix) + 1 |-> Len(Radix) + 2 - i]
        shown == SelectSeq(units, LAMBDA k : PartOf(time, k) # 0)
    IN  SubSeq(shown, 1, IF outCount < Len(shown) THEN outCount ELSE Len(shown))

-------------------------------------------------------------------------------
\* Tokenize with empty tokens loses nothing: joined with the separator, which is in none of
\* them, the tokens are the text. Without empty tokens it leaves out exactly those.
TokensJoin ==
    LET tokens == Tokenize(text, TRUE)
        Join(s, t) == s \o <<Separator>> \o t
    IN  /\ FoldLeft(Join, Head(tokens), Tail(tokens)) = text
        /\ \A i \in DOMAIN tokens : ~Contains(tokens[i], Separator)
        /\ Tokenize(text, FALSE) = SelectSeq(tokens, LAMBDA t : t # <<>>)

\* StringTo reads back what ToString has written, for every value of the type, and what it
\* reads it reads without loss: but for leading zeros the number has no other text.
NumbersReadBack ==
    /\ \A n \in 0 .. TypeSize - 1 : FromString(NumberToString(n)) = n
    /\ FromString(text) # NoNumber => IsSuffix(NumberToString(FromString(text)), text)

\* The two conversions are inverse to one another, in both orders of the bytes.
HexRoundTrip == \A reverse \in BOOLEAN :
                    HexStrToByteArray(ByteArrayToHexStr(bytes, reverse), reverse) = bytes

\* A time is shown up to less than one of the last unit that is shown, and exactly if all
\* units may be: zero units in between take no place among the outCount.
TimeToTheLastUnit ==
    \A outCount \in 1 .. Len(Radix) + 1 :
        LET shown == ToTimeString(duration, outCount)
            Add(n, k) == n + PartOf(duration, k) * Unit[k]
            sum == FoldLeft(Add, 0, shown)
        IN  IF Len(shown) < outCount THEN sum = duration
            ELSE sum <= duration /\ duration - sum < Unit[Last(shown)]
===============================================================================
