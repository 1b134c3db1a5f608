------------------------------ MODULE Duration ------------------------------
(***************************************************************************)
(* The duration texts of a manifest (checkpoint_cadence and                *)
(* witness_grace_period): what the parser accepts, what it makes of it,    *)
(* and where its arithmetic ends.  A text is a sequence of symbols: single *)
(* letters, and runs of digits, of which only the value and the number of  *)
(* digits count.  The states are texts at most MaxEdits symbols away from  *)
(* a well-formed one.                                                      *)
(***************************************************************************)
EXTENDS Integers, Sequences, SequencesExt

CONSTANTS
    MaxWord,            \* u64::MAX, scaled
    FractionDigits,     \* nine in the code
    SecondsPerMinute, SecondsPerHour, SecondsPerDay,    \* each a multiple of the one before
    Numbers,            \* the runs of digits that occur
    Letters,            \* the letters that occur
    MaxEdits            \* bound: edits of a well-formed text

ASSUME DurationAssumption ==
    /\ {MaxWord, FractionDigits, MaxEdits} \subseteq Nat
    /\ {SecondsPerMinute, SecondsPerHour, SecondsPerDay} \subseteq Nat \ {0}
    /\ SecondsPerHour % SecondsPerMinute = 0 /\ SecondsPerDay % SecondsPerHour = 0
    /\ Numbers \subseteq [letter : {"digits"}, value : Nat, digits : Nat]

Letter(l) == [letter |-> l, value |-> 0, digits |-> 0]
Number(v, width) == [letter |-> "digits", value |-> v, digits |-> width]
Symbols == {Letter(l) : l \in Letters} \cup Numbers
IsNumber(s) == s.letter = "digits"
IsRun(t) == Len(t) = 1 /\ IsNumber(t[1])

-----------------------------------------------------------------------------
(* The parser.                                                             *)

PowerOfTen[k \in Nat] == IF k = 0 THEN 1 ELSE 10 * PowerOfTen[k - 1]
NanosPerSecond == PowerOfTen[FractionDigits]
Fits(n) == n <= MaxWord

Occurs(t, l) == \E j \in DOMAIN t : t[j].letter = l
Find(t, l) == CHOOSE j \in DOMAIN t :
                     t[j].letter = l /\ \A i \in 1 .. j - 1 : t[i].letter # l
Before(t, l) == SubSeq(t, 1, Find(t, l) - 1)
After(t, l) == SubSeq(t, Find(t, l) + 1, Len(t))

(* str::parse::<u64>: one run of digits that fits the word.  Rust lets a   *)
(* plus sign precede it.                                                   *)
ParsesAsWord(t) ==
    LET digits == IF t # <<>> /\ t[1].letter = "+" THEN Tail(t) ELSE t
    IN  IsRun(digits) /\ Fits(digits[1].value)

(* take_component: nothing is taken if the unit does not occur, and what   *)
(* stands before it must be digits.                                        *)
TakeComponent(t, unit) ==
    IF ~Occurs(t, unit) THEN [ok |-> TRUE, n |-> 0, rest |-> t]
    ELSE IF IsRun(Before(t, unit)) /\ ParsesAsWord(Before(t, unit))
    THEN [ok |-> TRUE, n |-> t[1].value, rest |-> After(t, unit)]
    ELSE [ok |-> FALSE, n |-> 0, rest |-> t]

(* The seconds: a whole number and at most FractionDigits digits after the *)
(* point, read as if zeros followed.                                       *)
(* Mutant: the fraction is read as nanoseconds whatever its length.        *)
UnpaddedFraction(t) == After(t, ".")[1].value
Fraction(t) ==
    LET f == After(t, ".") IN f[1].value * PowerOfTen[FractionDigits - f[1].digits]
TakeSeconds(t) ==
    LET s == SubSeq(t, 1, Len(t) - 1)
        whole == IF Occurs(s, ".") THEN Before(s, ".") ELSE s
    IN  IF t = <<>> THEN [verdict |-> "ok", n |-> 0, nanos |-> 0]
        ELSE IF t[Len(t)].letter # "S" \/ (Occurs(s, ".") /\ ~IsRun(After(s, ".")))
        THEN [verdict |-> "BadDuration", n |-> 0, nanos |-> 0]
        ELSE IF Occurs(s, ".") /\ After(s, ".")[1].digits > FractionDigits
        THEN [verdict |-> "DurationFractionTooLong", n |-> 0, nanos |-> 0]
        ELSE IF ~ParsesAsWord(whole) THEN [verdict |-> "BadDuration", n |-> 0, nanos |-> 0]
        ELSE [ verdict |-> "ok", n |-> whole[Len(whole)].value,
               nanos |-> IF Occurs(s, ".") THEN Fraction(s) ELSE 0 ]

(* parse_iso8601_duration_nanos.  Every intermediate sum is checked, and   *)
(* none is larger than the last.                                           *)
Error(e) == [verdict |-> e, nanos |-> 0]
Parse(t) ==
    LET rest == Tail(t)
        timed == Occurs(rest, "T")
        date == IF timed THEN Before(rest, "T") ELSE rest
        time == IF timed THEN After(rest, "T") ELSE <<>>
        d == TakeComponent(date, "D")
        h == TakeComponent(time, "H")
        m == TakeComponent(h.rest, "M")
        s == TakeSeconds(m.rest)
        coarse == d.n * SecondsPerDay + h.n * SecondsPerHour + m.n * SecondsPerMinute
        total == (coarse + s.n) * NanosPerSecond + s.nanos
    IN  IF t = <<>> \/ t[1].letter # "P" \/ Len(t) = 1 THEN Error("BadDuration")
        ELSE IF Occurs(rest, "Y") \/ Occurs(date, "M") THEN Error("ProhibitedDurationComponent")
        ELSE IF \/ ~d.ok \/ d.rest # <<>>
                \/ timed /\ time = <<>>
                \/ ~h.ok \/ ~m.ok \/ ~Fits(coarse) THEN Error("BadDuration")
        ELSE IF s.verdict # "ok" THEN Error(s.verdict)
        ELSE IF ~Fits(total) THEN Error("BadDuration")
        ELSE [verdict |-> "ok", nanos |-> total]

(* parse_checkpoint_cadence_nanos.                                         *)
ParseCadence(t) ==
    IF Parse(t) = [verdict |-> "ok", nanos |-> 0] THEN Error("NonPositiveCadence") ELSE Parse(t)

-----------------------------------------------------------------------------
(* The texts.                                                              *)

VARIABLES text, edits

vars == <<text, edits>>

Optional(unit) == {<<>>} \cup {<<n, Letter(unit)>> : n \in Numbers}
Seconds ==
    Optional("S") \cup {<<n, Letter("."), f, Letter("S")>> : n, f \in Numbers}
Render(d, h, m, s) ==
    <<Letter("P")>> \o d \o (IF h \o m \o s = <<>> THEN <<>> ELSE <<Letter("T")>> \o h \o m \o s)

Init ==
    /\ \E d \in Optional("D"), h \in Optional("H"), m \in Optional("M"), s \in Seconds :
           text = Render(d, h, m, s)
    /\ edits = 0

(* Two runs of digits side by side would be one.                           *)
Spelled(t) == \A j \in 1 .. Len(t) - 1 : ~(IsNumber(t[j]) /\ IsNumber(t[j + 1]))
Edit(t) == /\ edits < MaxEdits /\ edits' = edits + 1
           /\ Spelled(t) /\ text' = t
InsertSymbol == \E j \in 1 .. Len(text) + 1, s \in Symbols : Edit(InsertAt(text, j, s))
ChangeSymbol == \E j \in DOMAIN text, s \in Symbols : Edit([text EXCEPT ![j] = s])
RemoveSymbol == \E j \in DOMAIN text : Edit(RemoveAt(text, j))
Next == InsertSymbol \/ ChangeSymbol \/ RemoveSymbol

Spec == Init /\ [][Next]_vars

-----------------------------------------------------------------------------
(* Properties.                                                             *)

(* The grammar P[n]DT[n]H[n]M[n]S, by its shape and without the parser.    *)
IsComponent(t, unit) == t = <<>> \/ (Len(t) = 2 /\ IsNumber(t[1]) /\ t[2] = Letter(unit))
IsSeconds(t) ==
    \/ IsComponent(t, "S")
    \/ /\ Len(t) = 4 /\ IsNumber(t[1]) /\ t[2] = Letter(".")
       /\ IsNumber(t[3]) /\ t[3].digits <= FractionDigits /\ t[4] = Letter("S")
IsTime(t) ==
    \E i \in 0 .. Len(t) : \E j \in i .. Len(t) :
        /\ IsComponent(SubSeq(t, 1, i), "H")
        /\ IsComponent(SubSeq(t, i + 1, j), "M")
        /\ IsSeconds(SubSeq(t, j + 1, Len(t)))
WellFormed(t) ==
    /\ Len(t) > 1 /\ t[1] = Letter("P")
    /\ \/ IsComponent(Tail(t), "D")
       \/ \E j \in 2 .. Len(t) - 1 :
              /\ t[j] = Letter("T")
              /\ IsComponent(SubSeq(t, 2, j - 1), "D")
              /\ IsTime(SubSeq(t, j + 1, Len(t)))

(* What a well-formed text amounts to: each number by the letter after it, *)
(* or after the point as the fraction it is.                               *)
Unit(l) ==
    CASE l = "D" -> SecondsPerDay [] l = "H" -> SecondsPerHour
      [] l = "M" -> SecondsPerMinute [] OTHER -> 1
Amount(t, j) ==
    IF t[j - 1] = Letter(".") THEN (t[j].value * NanosPerSecond) \div PowerOfTen[t[j].digits]
    ELSE t[j].value * Unit(t[j + 1].letter) * NanosPerSecond
Nanos(t) ==
    LET Sum[j \in 0 .. Len(t)] ==
            IF j = 0 THEN 0 ELSE Sum[j - 1] + (IF IsNumber(t[j]) THEN Amount(t, j) ELSE 0)
    IN  Sum[Len(t)]

(* Exactly the well-formed texts whose total fits the word are accepted,   *)
(* with that total and none rounded; a cadence must be more than nothing.  *)
AcceptsTheGrammar ==
    LET accepted == WellFormed(text) /\ Fits(Nanos(text))
    IN  /\ accepted <=> Parse(text).verdict = "ok"
        /\ accepted => Parse(text).nanos = Nanos(text)
        /\ ParseCadence(text).verdict = "ok" <=> accepted /\ Nanos(text) > 0

(* "BadDuration if value is otherwise not a well-formed duration of the    *)
(* grammar" (src/duration.rs): what is accepted is well-formed.            *)
AcceptedIsWellFormed == Parse(text).verdict = "ok" => WellFormed(text)
=============================================================================
