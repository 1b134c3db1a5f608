--------------------------- MODULE CheckpointTime ---------------------------
(***************************************************************************)
(* checkpoint_time as text.  A member's time is stored, compared and made  *)
(* part of its slot as the text that was posted (the primary key of the    *)
(* checkpoints table and its order), while cadence and the signed blob go  *)
(* by the instant the text parses to.  The other modules have one number   *)
(* for both; this one says why they may.                                   *)
(*                                                                         *)
(* The calendar is the `time` library's, with months and years of a few    *)
(* days.  What the library makes of a field out of its range is not in     *)
(* this repository: it may refuse the text or carry the excess over.       *)
(***************************************************************************)
EXTENDS Duration, FiniteSetsExt

CONSTANTS
    EpochYear,          \* 1970
    LastYear,           \* the last year an instant of the word falls in
    LastInstant,        \* u64::MAX nanoseconds after the epoch, scaled
    YearStart,          \* the day a year begins on, counted from the epoch
    MonthStart,         \* the days of the year its months begin on, and their number in the end
    Landmarks           \* the instants that times are built from and compared with

Years == EpochYear - 1 .. LastYear + 1
Months(year) == 1 .. Len(MonthStart[year]) - 1
NanosPerDay == SecondsPerDay * NanosPerSecond

(* One year follows the other, and in it one month the other.              *)
ASSUME CalendarAssumption ==
    /\ EpochYear \in Nat \ {0} /\ LastYear \in Nat /\ EpochYear <= LastYear
    /\ LastInstant \in Nat /\ Landmarks \subseteq 0 .. LastInstant
    /\ YearStart \in [Years -> Int] /\ YearStart[EpochYear] = 0
    /\ LastInstant < YearStart[LastYear + 1] * NanosPerDay
    /\ MonthStart \in [Years -> Seq(Nat)]
    /\ \A year \in Years :
        /\ Months(year) # {} /\ MonthStart[year][1] = 0
        /\ \A m \in Months(year) : MonthStart[year][m] < MonthStart[year][m + 1]
        /\ year + 1 \in Years =>
            YearStart[year + 1] = YearStart[year] + MonthStart[year][Len(MonthStart[year])]

-----------------------------------------------------------------------------
(* The calendar.                                                           *)
DaysBeforeMonth(year, month) ==
    IF month = 0 THEN 0 ELSE MonthStart[year][Min({month, Len(MonthStart[year])})]

(* The instant of the fields <<year, month, day, hour, minute, second,     *)
(* subsecond>>; an excess is carried over.                                 *)
Instant(f) ==
    LET days == YearStart[f[1]] + DaysBeforeMonth(f[1], f[2]) + f[3] - 1
        seconds == f[4] * SecondsPerHour + f[5] * SecondsPerMinute + f[6]
    IN  days * NanosPerDay + seconds * NanosPerSecond + f[7]

InCalendar(f) ==
    /\ f[1] \in Years
    /\ f[2] \in Months(f[1])
    /\ f[3] \in 1 .. MonthStart[f[1]][f[2] + 1] - MonthStart[f[1]][f[2]]
    /\ f[4] < SecondsPerDay \div SecondsPerHour
    /\ f[5] < SecondsPerHour \div SecondsPerMinute
    /\ f[6] < SecondsPerMinute

(* The fields of an instant.                                               *)
Fields(n) ==
    LET days == n \div NanosPerDay
        seconds == (n % NanosPerDay) \div NanosPerSecond
        year == Max({y \in EpochYear .. LastYear : YearStart[y] <= days})
        day == days - YearStart[year]
        month == Max({m \in Months(year) : MonthStart[year][m] <= day})
    IN  << year, month, day - MonthStart[year][month] + 1,
           seconds \div SecondsPerHour,
           (seconds % SecondsPerHour) \div SecondsPerMinute,
           seconds % SecondsPerMinute,
           n % NanosPerSecond >>

-----------------------------------------------------------------------------
(* Rendering and parsing.                                                  *)

(* CHECKPOINT_TIME_FORMAT: YYYY-MM-DDTHH:MM:SS.fffffffffZ                  *)
Widths == <<4, 2, 2, 2, 2, 2, FractionDigits>>
Literals == <<"-", "-", "T", ":", ":", ".", "Z">>

(* Every field of the calendar fits its width.                             *)
ASSUME WidthAssumption ==
    /\ LastYear < PowerOfTen[4]
    /\ {SecondsPerDay \div SecondsPerHour, SecondsPerHour \div SecondsPerMinute,
        SecondsPerMinute} \subseteq 1 .. PowerOfTen[2]
    /\ \A year \in Years : \A m \in Months(year) :
        m < PowerOfTen[2] /\ MonthStart[year][m + 1] - MonthStart[year][m] < PowerOfTen[2]

Spell(fields) ==
    [j \in 1 .. 2 * Len(Widths) |->
        IF j % 2 = 0 THEN Letter(Literals[j \div 2])
        ELSE Number(fields[(j + 1) \div 2], Widths[(j + 1) \div 2])]

RenderTime(n) == Spell(Fields(n))

(* has_profile_time_shape: thirty characters, the literals in their places *)
(* and a digit everywhere else.                                            *)
HasProfileTimeShape(t) ==
    /\ Len(t) = 2 * Len(Widths)
    /\ \A k \in DOMAIN Widths :
        /\ IsNumber(t[2 * k - 1]) /\ t[2 * k - 1].digits = Widths[k]
        /\ t[2 * k] = Letter(Literals[k])

(* PrimitiveDateTime::parse, for a text of that shape: as instants, none   *)
(* or one.                                                                 *)
ReadFields(t) == [k \in DOMAIN Widths |-> t[2 * k - 1].value]
LibraryParse(f, carries) ==
    IF InCalendar(f) \/ (carries /\ f[1] \in Years)
    THEN {Instant(f)} ELSE {}

(* parse_checkpoint_time: the instant of the text, or none                 *)
(* (BadCheckpointTime).                                                    *)
(* Mutants: what the library read is not rendered again; a time is read    *)
(* whatever the width of its fields, a short fraction as if zeros followed.*)
WithoutRoundTrip(t, carries) ==
    IF ~HasProfileTimeShape(t) THEN {}
    ELSE {n \in LibraryParse(ReadFields(t), carries) : n \in 0 .. LastInstant}
AnyWidth(t, carries) ==
    IF \/ Len(t) # 2 * Len(Widths)
       \/ \E k \in DOMAIN Widths : ~IsNumber(t[2 * k - 1]) \/ t[2 * k] # Letter(Literals[k])
       \/ t[13].digits > FractionDigits
    THEN {}
    ELSE LET fields == [ReadFields(t) EXCEPT ![7] = @ * PowerOfTen[FractionDigits - t[13].digits]]
         IN  {n \in LibraryParse(fields, carries) : n \in 0 .. LastInstant}
ParseCheckpointTime(t, carries) ==
    IF ~HasProfileTimeShape(t) THEN {}
    ELSE {n \in LibraryParse(ReadFields(t), carries) : n \in 0 .. LastInstant /\ RenderTime(n) = t}

-----------------------------------------------------------------------------
(* The texts: times, and what one edit makes of them.                      *)
TimeInit == (\E n \in Landmarks : text = RenderTime(n)) /\ edits = 0

(* A field takes another value, in its range or out of it.                 *)
ChangeField ==
    \E j \in DOMAIN text, value \in (0 .. SecondsPerMinute) \cup (EpochYear - 1 .. LastYear + 1) :
        /\ IsNumber(text[j]) /\ value < PowerOfTen[text[j].digits]
        /\ Edit([text EXCEPT ![j].value = value])

TextInit == Init \/ TimeInit
TextNext == Next \/ (Len(text) = 2 * Len(Widths) /\ ChangeField)
TextSpec == TextInit /\ [][TextNext]_vars

-----------------------------------------------------------------------------
(* Properties.                                                             *)

Rendered == [n \in 0 .. LastInstant |-> RenderTime(n)]
Renderings == {Rendered[n] : n \in 0 .. LastInstant}

(* A text is accepted exactly if it is the rendering of an instant the     *)
(* word can hold, and as that instant: there is one text for a time and    *)
(* one time for a text, whatever the library does with a field out of its  *)
(* range (parse_checkpoint_time, render_checkpoint_time).                  *)
AcceptsTheRendering ==
    \A carries \in BOOLEAN : \E parsed \in {ParseCheckpointTime(text, carries)} :
        /\ parsed # {} <=> text \in Renderings
        /\ \A n \in parsed : Rendered[n] = text

(* Characters of a text in the order SQLite and Rust compare them in.      *)
Code(l) ==
    CASE l = "-" -> 45 [] l = "." -> 46 [] l = ":" -> 58 [] l = "T" -> 84 [] l = "Z" -> 90
      [] OTHER -> 0
Spelling(s) ==
    IF IsNumber(s) THEN [i \in 1 .. s.digits |-> 48 + ((s.value \div PowerOfTen[s.digits - i]) % 10)]
    ELSE <<Code(s.letter)>>
Characters(t) ==
    LET Of[j \in 0 .. Len(t)] == IF j = 0 THEN <<>> ELSE Of[j - 1] \o Spelling(t[j])
    IN  Of[Len(t)]
Precedes(a, b) ==
    \/ IsStrictPrefix(a, b)
    \/ \E i \in DOMAIN a \cap DOMAIN b :
        a[i] < b[i] /\ \A j \in 1 .. i - 1 : a[j] = b[j]

(* The order of the texts is the order of the instants, and one slot is    *)
(* one instant: ORDER BY checkpoint_time and max_by over texts never       *)
(* disagree with the instants the cadence is judged by (all_checkpoints,   *)
(* get_checkpoint, compute_gap_free_frontier).                             *)
LandmarkTexts == [n \in Landmarks |-> Characters(RenderTime(n))]
OrderedAsText ==
    \A time \in ParseCheckpointTime(text, FALSE) : \E characters \in {Characters(text)} :
        \A n \in Landmarks :
            /\ Precedes(characters, LandmarkTexts[n]) <=> time < n
            /\ characters = LandmarkTexts[n] <=> time = n
=============================================================================
