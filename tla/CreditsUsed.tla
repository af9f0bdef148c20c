----------------------------- MODULE CreditsUsed -----------------------------
(***************************************************************************)
(* What a Cloud answer says it cost: the scanner that reads creditsUsed    *)
(* out of a JSON text as it streams by, without parsing it                 *)
(* (CreditsUsedScanner in credits/credit-routing.service.ts), next to one  *)
(* who writes the text and knows where in the document he is.              *)
(*                                                                         *)
(* The text is written token by token, any JSON value of any shape: a      *)
(* string counts as one token, the other characters one by one.            *)
(***************************************************************************)
EXTENDS Integers, Sequences

CONSTANTS MaxSafe,      \* MAX_SAFE_CREDITS_USED
          Numerals,     \* the digits the answers use
          MaxDepth,     \* bound: how deep an answer is nested
          MaxNumber     \* bound: the numbers in it

ASSUME MaxSafeAssumption == MaxSafe \in Nat /\ MaxSafe >= 9
ASSUME NumeralsAssumption == Numerals \subseteq 0..9
ASSUME NumberAssumption == MaxNumber \in Nat

VARIABLES stack,        \* the containers that are open, outermost first
          at,           \* what the writer has just written or has to write
          number,       \* the value being ended, if it is a natural number
          reported,     \* history: what the document says that was used
          scan          \* the fields of CreditsUsedScanner

textVars == <<stack, at, number, reported>>

Strings == {"metadata", "creditsUsed", "other"}   \* "other": also any with an escape
Numeral(n) == <<"0", "1", "2", "3", "4", "5", "6", "7", "8", "9">>[n + 1]
Digit(t) == \E n \in 0..9 : t = Numeral(n)
Value(t) == CHOOSE n \in 0..9 : t = Numeral(n)
Whitespace == " "
Delimiters == {",", "]", "}"}

-----------------------------------------------------------------------------
\* The scanner.

None == -1
Start == [state |-> "outside", pendingKey |-> "", value |-> 0, overflow |-> FALSE,
          found |-> None, objectDepth |-> 0, arrayDepth |-> 0, metadata |-> <<>>]

Depths(s) == <<s.objectDepth, s.arrayDepth>>
Down(n) == IF n > 0 THEN n - 1 ELSE 0

\* Mutant: the end of the metadata object is not noticed.
UpdateContainerDepthStays(s, t) ==
    CASE t = "{" -> [s EXCEPT !.objectDepth = @ + 1]
      [] t = "[" -> [s EXCEPT !.arrayDepth = @ + 1]
      [] t = "}" -> [s EXCEPT !.objectDepth = Down(@)]
      [] t = "]" -> [s EXCEPT !.arrayDepth = Down(@)]
      [] OTHER   -> s

UpdateContainerDepth(s, t) ==
    CASE t = "{" -> [s EXCEPT !.objectDepth = @ + 1]
      [] t = "[" -> [s EXCEPT !.arrayDepth = @ + 1]
      [] t = "}" -> [s EXCEPT !.objectDepth = Down(@),
                              !.metadata = IF @ # <<>> /\ @[1] = s.objectDepth THEN <<>> ELSE @]
      [] t = "]" -> [s EXCEPT !.arrayDepth = Down(@)]
      [] OTHER   -> s

Outside(s, t) ==
    IF t \in Strings THEN [s EXCEPT !.state = "after-key", !.pendingKey = t]
    ELSE UpdateContainerDepth([s EXCEPT !.state = "outside", !.pendingKey = ""], t)

AfterColon(s, t) ==
    LET inside == Outside(s, t) IN
    CASE t \in {"{", "["} ->
            IF t = "{" /\ s.pendingKey = "metadata" /\ Depths(s) = <<1, 0>>
            THEN [inside EXCEPT !.metadata = Depths(inside)]
            ELSE inside
      [] Digit(t) /\ s.pendingKey = "creditsUsed" /\ s.metadata = Depths(s) ->
            [s EXCEPT !.state = "digits", !.value = Value(t), !.overflow = FALSE,
                      !.pendingKey = ""]
      [] OTHER -> inside

EmitValue(s, t) ==
    LET after == Outside(s, t)
    IN IF s.overflow THEN after ELSE [after EXCEPT !.found = s.value]

Digits(s, t) ==
    CASE Digit(t) ->
            IF s.value > (MaxSafe - Value(t)) \div 10 THEN [s EXCEPT !.overflow = TRUE]
            ELSE IF s.overflow THEN s ELSE [s EXCEPT !.value = 10 * @ + Value(t)]
      [] t = Whitespace  -> [s EXCEPT !.state = "after-digits"]
      [] t \in Delimiters -> EmitValue(s, t)
      [] OTHER           -> Outside(s, t)

ProcessToken(s, t) ==
    IF s.found # None \/ (t = Whitespace /\ s.state \notin {"outside", "digits"}) THEN s
    ELSE CASE s.state = "outside"   -> Outside(s, t)
           [] s.state = "after-key" ->
                 IF t = ":" THEN [s EXCEPT !.state = "after-colon"] ELSE Outside(s, t)
           [] s.state = "after-colon" -> AfterColon(s, t)
           [] s.state = "digits"      -> Digits(s, t)
           [] s.state = "after-digits" ->
                 IF t \in Delimiters THEN EmitValue(s, t) ELSE Outside(s, t)

\* push(), of extractCreditsUsed() and of observeCreditsUsedStream(): the scanner
\* keeps its state from one chunk to the next.
Push(t) == scan' = ProcessToken(scan, t)

-----------------------------------------------------------------------------
\* The writer.

Containers == {"{", "["}
Frame == [kind : Containers, key : Strings \cup {""}]   \* key: the last one written

Top == stack[Len(stack)]
Rest == SubSeq(stack, 1, Len(stack) - 1)
Closing == IF Top.kind = "{" THEN "}" ELSE "]"

BeginsValue == at \in {"value", "element"}
ValueEnds == at \in {"number", "scalar", "after"}

\* The number stands for creditsUsed, directly in the metadata of the outermost object.
Meant ==
    /\ Len(stack) = 2
    /\ stack[1] = [kind |-> "{", key |-> "metadata"]
    /\ stack[2] = [kind |-> "{", key |-> "creditsUsed"]

\* What is used is said once the field has ended, by the first that is a safe integer.
EndValue ==
    /\ number' = None
    /\ reported' = IF reported = None /\ Meant /\ number \in 0..MaxSafe
                   THEN number ELSE reported

ScanInit ==
    /\ stack = <<>>
    /\ at = "value"
    /\ number = None
    /\ reported = None
    /\ scan = Start

Space ==
    /\ at' = IF ValueEnds THEN "after" ELSE at
    /\ UNCHANGED <<stack, number, reported>>
    /\ Push(Whitespace)

Open(kind) ==
    /\ BeginsValue /\ Len(stack) < MaxDepth
    /\ stack' = Append(stack, [kind |-> kind, key |-> ""])
    /\ at' = IF kind = "{" THEN "field" ELSE "element"
    /\ UNCHANGED <<number, reported>>
    /\ Push(kind)

Close ==
    /\ stack # <<>> /\ (ValueEnds \/ at = IF Top.kind = "{" THEN "field" ELSE "element")
    /\ stack' = Rest
    /\ at' = "after"
    /\ EndValue
    /\ Push(Closing)

Comma ==
    /\ stack # <<>> /\ ValueEnds
    /\ at' = IF Top.kind = "{" THEN "key" ELSE "value"
    /\ UNCHANGED stack
    /\ EndValue
    /\ Push(",")

Key(k) ==
    /\ at \in {"field", "key"}
    /\ stack' = [stack EXCEPT ![Len(stack)].key = k]
    /\ at' = "colon"
    /\ UNCHANGED <<number, reported>>
    /\ Push(k)

Colon ==
    /\ at = "colon"
    /\ at' = "value"
    /\ UNCHANGED <<stack, number, reported>>
    /\ Push(":")

String(t) ==
    /\ BeginsValue
    /\ at' = "after"
    /\ UNCHANGED <<stack, number, reported>>
    /\ Push(t)

FirstDigit(n) ==
    /\ BeginsValue
    /\ at' = "number"
    /\ number' = n
    /\ UNCHANGED <<stack, reported>>
    /\ Push(Numeral(n))

NextDigit(n) ==
    /\ at = "number" /\ number # 0 /\ 10 * number + n <= MaxNumber
    /\ number' = 10 * number + n
    /\ UNCHANGED <<stack, at, reported>>
    /\ Push(Numeral(n))

\* A sign, a point, an exponent, or a letter of true, false and null: with it the
\* value is no natural number, whatever digits follow.
OtherCharacter ==
    /\ BeginsValue \/ at \in {"number", "scalar"}
    /\ at' = "scalar"
    /\ number' = None
    /\ UNCHANGED <<stack, reported>>
    /\ Push("x")

OtherDigit(n) ==
    /\ at = "scalar"
    /\ UNCHANGED textVars
    /\ Push(Numeral(n))

ScanNext ==
    \/ Space \/ Close \/ Comma \/ Colon \/ OtherCharacter
    \/ \E kind \in Containers : Open(kind)
    \/ \E t \in Strings : Key(t) \/ String(t)
    \/ \E n \in Numerals : FirstDigit(n) \/ NextDigit(n) \/ OtherDigit(n)

ScanSpec == ScanInit /\ [][ScanNext]_<<textVars, scan>>

-----------------------------------------------------------------------------
\* Properties.

\* At any point of any answer the scanner has found exactly the credits that Cloud
\* reports for the request itself: not a number of the same name in the scraped data,
\* in a string, in an array or in a nested object, nor one that is no safe integer.
SettlesReportedUse == scan.found = reported
=============================================================================
