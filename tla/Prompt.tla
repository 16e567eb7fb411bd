------------------------------- MODULE Prompt -------------------------------
(***************************************************************************)
(* The dialogue of add_modify_product(): one add_modify_criteria() per     *)
(* field, each of them a get_string(), then the choice of the unit, then   *)
(* the conversion of the answers to numbers.  One step per key.            *)
(*                                                                         *)
(* Text is a sequence of characters; a character is what the program tells *)
(* apart: a digit, the point, the comma, anything else.  A number is the   *)
(* pair of its digits before and after the point, without the zeros that   *)
(* do not count, so that no value is rounded by the model.                 *)
(***************************************************************************)
EXTENDS Naturals, Sequences, SequencesExt

CONSTANTS
    Fields,     \* the fields asked for: [max |-> length, as |-> conversion]
    Offers,     \* what the stored product offers for each field
    Keys,       \* the keys the user presses
    Units       \* nr_of_selling_options

Digits == {"0", "1", "2", "3", "4", "5", "6", "7", "8", "9"}

\* How a field of the product is made of its answer: the text itself, its
\* first character (the tax), stol, stod, or stod into an int (the discount).
Conversions == {"text", "char", "stol", "stod", "int"}
Control == {"ENTER", "ESC", "BACKSPACE", "UP", "DOWN"}

FieldsAssumption ==
    /\ Fields \in Seq([max : Nat \ {0}, as : Conversions])
    /\ Len(Fields) > 0
    /\ \A offer \in Offers : Len(offer) = Len(Fields)
    /\ Units \in Nat \ {0}
    /\ Control \subseteq Keys

VARIABLES
    offers,     \* the product read before the first question
    modify,     \* whether its values are offered
    at,         \* the field asked for; one past the last for the unit
    phase,      \* what the next key is for
    text,       \* s of get_string, or the answer being shown
    retrying,   \* inside the recursive call that follows a comma
    answers,    \* the answers given so far
    selection,  \* the unit shown
    stored      \* the values handed to update_stock

vars == <<offers, modify, at, phase, text, retrying, answers, selection, stored>>

Phases == {"first", "typing", "cut", "comma", "unit", "stored", "cancelled", "died"}

-----------------------------------------------------------------------------
(* Numbers.                                                                *)

IsDigit(c) == c \in Digits

\* The conversion, taking the point for just another character to leave out.
remove_non_nr_NoPoint(s) ==
    LET kept == SelectSeq(s, IsDigit)
    IN  IF kept = <<>> THEN <<"0">> ELSE kept

\* The digits and points of an answer; "0" when there are none.
remove_non_nr(s) ==
    LET kept == SelectSeq(s, LAMBDA c : IsDigit(c) \/ c = ".")
    IN  IF kept = <<>> THEN <<"0">> ELSE kept

\* Position of the first character of s that satisfies the test, or past it.
FirstSuch(s, Test(_)) ==
    LET at_ == {i \in DOMAIN s : Test(s[i])}
    IN  IF at_ = {} THEN Len(s) + 1 ELSE CHOOSE i \in at_ : \A j \in at_ : i <= j

LeadingDigits(s) == SubSeq(s, 1, FirstSuch(s, LAMBDA c : ~IsDigit(c)) - 1)

WithoutLeadingZeros(s) == SubSeq(s, FirstSuch(s, LAMBDA c : c # "0"), Len(s))

Number(whole, fraction) ==
    [whole |-> WithoutLeadingZeros(whole),
     fraction |-> Reverse(WithoutLeadingZeros(Reverse(fraction)))]

\* strtod on digits and points: it stops at the second point.
stod(s) ==
    LET whole == LeadingDigits(s)
        rest  == SubSeq(s, Len(whole) + 2, Len(s))
    IN  Number(whole, LeadingDigits(rest))

\* strtol on digits and points: it stops at the first point.
stol(s) == Number(LeadingDigits(s), <<>>)

\* The answers that remove_non_nr is not called for.
Raw == {"text", "char"}

\* What makes stol and stod throw invalid_argument.
Converts(as, s) ==
    CASE as \in Raw -> TRUE
      [] as = "stol" -> IsDigit(s[1])
      [] as \in {"stod", "int"} -> IsDigit(s[1]) \/ (Len(s) > 1 /\ IsDigit(s[2]))

\* The value that a field's answer becomes.
Converted(as, s) ==
    CASE as = "text" -> s
      [] as = "stol" -> stol(remove_non_nr(s))
      [] as = "stod" -> stod(remove_non_nr(s))
      [] as = "char" -> SubSeq(s, 1, 1)
      [] as = "int" -> [stod(remove_non_nr(s)) EXCEPT !.fraction = <<>>]

-----------------------------------------------------------------------------
(* get_string.                                                             *)

\* isprint(static_cast<char>(key)) and the character that push_back keeps:
\* the code of KEY_DC ends in that of a letter.
Printable(key) == key \notin Control
Typed(key) == IF key = "DC" THEN "J" ELSE key

\* What is offered for the field: nothing for a new product.
Placeholder(i) == IF modify THEN offers[i] ELSE <<>>

\* The call of get_string for field i.
Ask(i) ==
    /\ at' = i
    /\ phase' = IF i > Len(Fields) THEN "unit"
                ELSE IF Placeholder(i) = <<>> THEN "typing" ELSE "first"
    /\ text' = IF i > Len(Fields) THEN <<>> ELSE Placeholder(i)

Init ==
    /\ offers \in Offers
    /\ modify \in BOOLEAN
    /\ at = 1
    /\ phase = IF Placeholder(1) = <<>> THEN "typing" ELSE "first"
    /\ text = Placeholder(1)
    /\ retrying = FALSE
    /\ answers = <<>>
    /\ selection \in 0 .. Units - 1
    /\ stored = <<>>

Dialogue == <<offers, modify, selection, stored>>

\* The answer has no comma: the next field is asked for.
Accept(s) ==
    /\ answers' = Append(answers, IF s = <<>> THEN <<"1">> ELSE s)
    /\ retrying' = FALSE
    /\ Ask(at + 1)

\* A check that the second call of add_modify_criteria does not make.
CheckCommas_Once(s) ==
    IF Contains(s, ",") /\ ~retrying
    THEN /\ phase' = "comma"
         /\ text' = s
         /\ UNCHANGED <<at, retrying, answers>>
    ELSE Accept(s)

\* The rest of add_modify_criteria once the answer has its length.
CheckCommas(s) ==
    IF Contains(s, ",")
    THEN /\ phase' = "comma"
         /\ text' = s
         /\ UNCHANGED <<at, retrying, answers>>
    ELSE Accept(s)

\* The answer of get_string is cut to the field; a key acknowledges that.
Submit(s) ==
    LET max == Fields[at].max
    IN  IF Len(s) > max
        THEN /\ phase' = "cut"
             /\ text' = SubSeq(s, 1, max)
             /\ UNCHANGED <<at, retrying, answers>>
        ELSE CheckCommas(s)

\* The first key while a value is offered: Enter takes it, any other key,
\* Escape too, clears it.
FirstKey(key) ==
    /\ phase = "first"
    /\ IF key = "ENTER"
       THEN Submit(text)
       ELSE /\ phase' = "typing"
            /\ text' = IF Printable(key) THEN <<Typed(key)>> ELSE <<>>
            /\ UNCHANGED <<at, retrying, answers>>
    /\ UNCHANGED Dialogue

\* The keys of the loop; a printable one counts while there is room.
EditKey(key) ==
    /\ phase = "typing"
    /\ key \notin {"ENTER", "ESC"}
    /\ text' = CASE key = "BACKSPACE" /\ text # <<>> -> Front(text)
                 [] Printable(key) /\ Len(text) < Fields[at].max -> Append(text, Typed(key))
                 [] OTHER -> text
    /\ UNCHANGED <<at, phase, retrying, answers>>
    /\ UNCHANGED Dialogue

EnterKey(key) ==
    /\ phase = "typing"
    /\ key = "ENTER"
    /\ Submit(text)
    /\ UNCHANGED Dialogue

\* Escape: nullopt.  add_modify_product returns, but the call that retries
\* after a comma takes value() of it.
EscapeKey(key) ==
    /\ phase = "typing"
    /\ key = "ESC"
    /\ phase' = IF retrying THEN "died" ELSE "cancelled"
    /\ UNCHANGED <<at, text, retrying, answers>>
    /\ UNCHANGED Dialogue

-----------------------------------------------------------------------------
(* add_modify_criteria after get_string, and the unit.                     *)

\* Any key after the shortened answer was shown.
CutSeen(key) ==
    /\ phase = "cut"
    /\ CheckCommas(text)
    /\ UNCHANGED Dialogue

\* Any key after the message about commas: the field is asked for again.
CommaSeen(key) ==
    /\ phase = "comma"
    /\ Ask(at)
    /\ retrying' = TRUE
    /\ UNCHANGED answers
    /\ UNCHANGED Dialogue

UnitKey(key) ==
    /\ phase = "unit"
    /\ key # "ENTER"
    /\ selection' = CASE key = "UP" -> IF selection > 0 THEN selection - 1 ELSE Units - 1
                      [] key = "DOWN" -> IF selection < Units - 1 THEN selection + 1 ELSE 0
                      [] OTHER -> selection
    /\ phase' = IF key = "ESC" THEN "cancelled" ELSE phase
    /\ UNCHANGED <<offers, modify, at, text, retrying, answers, stored>>

\* Enter on the unit: the conversions, in order, then update_stock.
Store(key) ==
    /\ phase = "unit"
    /\ key = "ENTER"
    /\ IF \A i \in DOMAIN Fields :
             LET as == Fields[i].as
             IN  Converts(as, IF as \in Raw THEN answers[i] ELSE remove_non_nr(answers[i]))
       THEN /\ phase' = "stored"
            /\ stored' = [i \in DOMAIN Fields |-> Converted(Fields[i].as, answers[i])]
       ELSE /\ phase' = "died"
            /\ UNCHANGED stored
    /\ UNCHANGED <<offers, modify, at, text, retrying, answers, selection>>

\* main() may call the dialogue again; a dead process stays dead.
Ended == phase \in {"stored", "cancelled", "died"} /\ UNCHANGED vars

Press(key) ==
    \/ FirstKey(key)
    \/ EditKey(key)
    \/ EnterKey(key)
    \/ EscapeKey(key)
    \/ CutSeen(key)
    \/ CommaSeen(key)
    \/ UnitKey(key)
    \/ Store(key)

Next == (\E key \in Keys : Press(key)) \/ Ended

Spec == Init /\ [][Next]_vars

-----------------------------------------------------------------------------
(* Properties.                                                             *)

\* Whatever way an answer takes through the dialogue (typed, offered and
\* cut, retried after a comma), what add_modify_product keeps of it has at
\* least one character, fits the column, and has no comma.
AnswersFit ==
    \A i \in DOMAIN answers :
        /\ Len(answers[i]) \in 1 .. Fields[i].max
        /\ ~Contains(answers[i], ",")

Least(a, b) == IF a <= b THEN a ELSE b

\* The digits of an offered number that count, as many characters of it.
Significant(s) ==
    Len(s) - IF Contains(s, ".")
             THEN FirstSuch(Reverse(s), LAMBDA c : c # "0") - 1
             ELSE 0

\* Accepting an offered number leaves it as it is when its significant
\* characters fit the field: 999.990000 is cut to 999.99 and 100 % of
\* discount, in a field of two, is not covered by the promise.
UnchangedKept ==
    phase = "stored" =>
        \A i \in DOMAIN Fields :
            /\ modify
            /\ Fields[i].as \notin Raw
            /\ answers[i] = SubSeq(offers[i], 1, Least(Fields[i].max, Len(offers[i])))
            /\ Significant(offers[i]) <= Fields[i].max
            => stored[i] = stod(offers[i])

\* An answer with a comma is refused with "Try again!": however the user
\* goes on from there, the dialogue goes on or is left, and the program
\* stays alive.
RetryKeepsRunning == [][retrying => phase' # "died"]_vars
=============================================================================
