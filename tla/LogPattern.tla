------------------------------ MODULE LogPattern ------------------------------
(*************************************************************************)
(* LogChannel::ParsePattern, with the positions of its iterator, and the *)
(* part of Format that pads or crops the source of a message.            *)
(*                                                                       *)
(* A pattern is a sequence of characters. The text that Format puts in   *)
(* for the other keys is left out.                                       *)
(*************************************************************************)
EXTENDS Naturals, Sequences, SequencesExt

CONSTANTS
    Characters,         \* that occur in a pattern, but for 'x', the key of a property
    DigitValue,         \* the characters that are digits, and their value
    Patterns,
    Sources             \* of messages: sequences of characters

ASSUME PatternAssumption ==
    /\ "x" \notin Characters /\ DOMAIN DigitValue \subseteq Characters
    /\ Patterns \subseteq Seq(Characters)

VARIABLES
    pattern,            \* _pattern
    it,                 \* where the iterator stands; Len(pattern) + 1 is the end
    endPrepend,         \* endAct.prepend
    patternActions,     \* _patternActions
    parsing             \* "yes", "done", or "threw"

patternVars == <<pattern, it, endPrepend, patternActions, parsing>>

NoKey == "none"
PatternTypeOK == /\ pattern \in Patterns /\ it \in 1 .. Len(pattern) + 1
                 /\ endPrepend \in Seq(Characters)
                 /\ \A i \in DOMAIN patternActions :
                        patternActions[i].key \in Characters \cup {"x", NoKey}
                 /\ parsing \in {"yes", "done", "threw"}

PatternInit == /\ pattern \in Patterns
               /\ it = 1 /\ endPrepend = <<>> /\ patternActions = <<>>
               /\ parsing = IF pattern = <<>> THEN "threw" ELSE "yes"

-------------------------------------------------------------------------------
AtPercent == parsing = "yes" /\ it <= Len(pattern) /\ pattern[it] = "%"

Literal == /\ parsing = "yes" /\ it <= Len(pattern) /\ pattern[it] # "%"
           /\ endPrepend' = Append(endPrepend, pattern[it])
           /\ it' = it + 1
           /\ UNCHANGED <<pattern, patternActions, parsing>>

\* A '%' at the end is dropped.
LastPercent == /\ AtPercent /\ it = Len(pattern)
               /\ it' = it + 1
               /\ UNCHANGED <<pattern, endPrepend, patternActions, parsing>>

\* The position of the ']' that closes a bracket opened before from, or the end.
Close(from) == CHOOSE i \in from .. Len(pattern) + 1 :
                   /\ i <= Len(pattern) => pattern[i] = "]"
                   /\ \A j \in from .. i - 1 : pattern[j] # "]"

Emplace(key, property, digits, next) ==
    /\ patternActions' = Append(patternActions, [key |-> key, property |-> property,
                                                 digits |-> digits, prepend |-> endPrepend])
    /\ endPrepend' = <<>>
    /\ it' = next
    /\ UNCHANGED <<pattern, parsing>>

\* Past a bracket that was closed at position i, or not at all.
After(i) == IF i > Len(pattern) THEN i ELSE i + 1

HasLength == it + 2 <= Len(pattern) /\ pattern[it + 2] = "["

\* %[property]
Property == /\ AtPercent /\ it < Len(pattern) /\ pattern[it + 1] = "["
            /\ LET close == Close(it + 2)
               IN  Emplace("x", SubSeq(pattern, it + 2, close - 1), <<>>, After(close))

\* %k
Key == /\ AtPercent /\ it < Len(pattern) /\ pattern[it + 1] # "[" /\ ~HasLength
       /\ Emplace(pattern[it + 1], <<>>, <<>>, it + 2)

\* %k[length]; a length that is not a number throws.
KeyWithLength ==
    /\ AtPercent /\ it < Len(pattern) /\ pattern[it + 1] # "[" /\ HasLength
    /\ LET close == Close(it + 3)
           number == SubSeq(pattern, it + 3, close - 1)
       IN  IF number # <<>> /\ \A i \in DOMAIN number : number[i] \in DOMAIN DigitValue
           THEN Emplace(pattern[it + 1], <<>>, number, After(close))
           ELSE parsing' = "threw" /\ UNCHANGED <<pattern, it, endPrepend, patternActions>>

\* The end of the pattern; one without any action throws.
EndOfPattern ==
    /\ parsing = "yes" /\ it > Len(pattern)
    /\ patternActions' = IF endPrepend = <<>> THEN patternActions
                         ELSE Append(patternActions, [key |-> NoKey, property |-> <<>>,
                                                      digits |-> <<>>, prepend |-> endPrepend])
    /\ parsing' = IF patternActions' = <<>> THEN "threw" ELSE "done"
    /\ UNCHANGED <<pattern, it, endPrepend>>

PatternNext == Literal \/ LastPercent \/ Property \/ Key \/ KeyWithLength \/ EndOfPattern

-------------------------------------------------------------------------------
Length(action) == LET Digit(n, d) == 10 * n + DigitValue[d]
                  IN  FoldLeft(Digit, 0, action.digits)

Spaces(n) == [i \in 1 .. n |-> " "]

\* The source of a message for the key 'v': a shorter one is padded, of a longer one the
\* end is taken.
FormatSource(source, length) ==
    IF length > Len(source) THEN source \o Spaces(length - Len(source))
    ELSE IF length # 0 THEN SubSeq(source, Len(source) - length + 1, Len(source))
    ELSE source

Unparse(action) ==
    action.prepend \o
    (IF action.key = NoKey THEN <<>>
     ELSE IF action.key = "x" THEN <<"%", "[">> \o action.property \o <<"]">>
     ELSE <<"%", action.key>> \o
          IF action.digits = <<>> THEN <<>> ELSE <<"[">> \o action.digits \o <<"]">>)

\* Nothing of a pattern is lost, and nothing appears twice or in another order: written
\* out again, the actions ParsePattern has made are the pattern, but for a last '%' that
\* stands alone, and a last bracket that was not closed.
LosesNothing ==
    parsing = "done" =>
        LET Write(text, action) == text \o Unparse(action)
        IN  FoldLeft(Write, <<>>, patternActions) \in
                {pattern, Append(pattern, "]")}
                \cup IF Last(pattern) = "%" THEN {Front(pattern)} ELSE {}

\* "the message source (%s) but text length is padded/cropped to 'width'", as
\* DiscordBot.conf.dist has it, for every width a pattern can give but 0.
PaddedOrCropped ==
    \A i \in DOMAIN patternActions : \A source \in Sources :
        LET length == Length(patternActions[i])
        IN  /\ patternActions[i].key = "v" /\ length # 0
            => Len(FormatSource(source, length)) = length
===============================================================================
