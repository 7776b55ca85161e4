------------------------------ MODULE Strftime ------------------------------
(***************************************************************************)
(* strftime and asctime (src/src/c/time): a tm as text.  strftime asks for *)
(* the time zone the first time a format has a conversion.                 *)
(***************************************************************************)
EXTENDS Calendar, Text, SequencesExt

VARIABLES
    first,      \* strftime has not asked for the zone yet
    written     \* the last result: what was asked, the return, the text

strftimeVars == <<calendarVars, first, written>>

days_l == <<"Sunday", "Monday", "Tuesday", "Wednesday", "Thursday", "Friday", "Saturday">>
months_l == <<"January", "February", "March", "April", "May", "June", "July",
              "August", "September", "October", "November", "December">>
Day3(wday) == SubSeq(days_l[wday + 1], 1, 3)
Month3(mon) == SubSeq(months_l[mon + 1], 1, 3)

Within(low, item, hi) == IF item < low THEN low ELSE IF item > hi THEN hi ELSE item

(* Buffer: s so far of room.  A character may take the last place, where   *)
(* the terminator should go; a string leaves it.                           *)
append_char(r, c) == IF Len(r.s) < r.room THEN [r EXCEPT !.s = @ \o c]
                     ELSE [r EXCEPT !.ok = FALSE]
append_str(r, t) == IF r.room - Len(r.s) > Len(t) THEN [r EXCEPT !.s = @ \o t]
                    ELSE [r EXCEPT !.ok = FALSE]

format_num(value, width) ==
    LET d == DigitsOf(IF value < 0 THEN -value ELSE value, 10)
        zeros == SubSeq("0000", 1, IF width > Len(d) THEN width - Len(d) ELSE 0)
    IN  (IF value < 0 THEN "-" ELSE "") \o zeros \o d

-----------------------------------------------------------------------------
weeknumber(tm, firstweekday) ==
    LET wday == IF firstweekday = 0 THEN tm.wday
                ELSE IF tm.wday = 0 THEN 6 ELSE tm.wday - 1
    IN  IF tm.yday + 7 - wday < 0 THEN 0 ELSE (tm.yday + 7 - wday) \div 7

RECURSIVE iso8601wknum(_)
iso8601wknum(tm) ==
    LET jan1 == (tm.wday - (tm.yday % 7) + 7) % 7
        n == weeknumber(tm, 1)
        dec31 == [tm EXCEPT !.year = @ - 1, !.mon = 11, !.mday = 31,
                            !.wday = IF jan1 = 0 THEN 6 ELSE jan1 - 1,
                            !.yday = YearLength(tm.year - 1 + 1900) - 1]
        next == tm.mon = 11 /\ \/ tm.wday = 1 /\ tm.mday \in 29..31
                               \/ tm.wday = 2 /\ tm.mday >= 30
                               \/ tm.wday = 3 /\ tm.mday = 31
    IN  IF next THEN 1
        ELSE IF jan1 \in 2..4 THEN n + 1
        ELSE IF jan1 \in {5, 6, 0} /\ n = 0 THEN iso8601wknum(dec31)
        ELSE n

iso8601year(tm) == LET w == iso8601wknum(tm)
                   IN  tm.year + 1900 + IF tm.mon = 11 /\ w = 1 THEN 1
                                        ELSE IF tm.mon = 0 /\ w >= 52 THEN -1 ELSE 0

-----------------------------------------------------------------------------
(* The pieces of a conversion: characters and strings, in order. *)
Char1(c) == [char |-> TRUE, text |-> c]
Str(t) == [char |-> FALSE, text |-> t]
Num(value, width) == Str(format_num(value, width))
Append1(r, x) == IF ~r.ok THEN r
                 ELSE IF x.char THEN append_char(r, x.text) ELSE append_str(r, x.text)

Hour12(h) == IF h = 0 THEN 12 ELSE IF h > 12 THEN h - 12 ELSE h

Items(tm, c) ==
    LET mon == Within(0, tm.mon, 11)
        wday == Within(0, tm.wday, 6)
        mday == Within(1, tm.mday, 31)
        hour == Within(0, tm.hour, 23)
        min == Num(Within(0, tm.min, 59), 2)
        sec == Num(Within(0, tm.sec, 60), 2)
        year == tm.year + 1900
        short == Num(Rem(tm.year, 100), 2)
        clock == <<Num(hour, 2), Char1(":"), min, Char1(":"), sec>>
        date == <<Num(mon + 1, 2), Char1("/"), Num(mday, 2), Char1("/"), short>>
        blank == IF tm.mday < 10 THEN <<Char1(" ")>> ELSE <<>>
        half == Str(IF tm.hour < 12 THEN "AM" ELSE "PM")
        off == Quot(tm.gmtoff, Minute)
        away == IF off < 0 THEN -off ELSE off
    IN  CASE c = "%" -> <<Char1("%")>>
          [] c = "a" -> <<Str(Day3(wday))>>
          [] c = "A" -> <<Str(days_l[wday + 1])>>
          [] c \in {"b", "h"} -> <<Str(Month3(mon))>>
          [] c = "B" -> <<Str(months_l[mon + 1])>>
          [] c = "c" -> <<Str(Day3(wday)), Char1(" "), Str(Month3(mon)), Char1(" ")>> \o blank
                          \o <<Num(tm.mday, 1), Char1(" ")>> \o clock \o <<Char1(" "), Num(year, 4)>>
          [] c = "C" -> <<Num(Quot(year, 100), 2)>>
          [] c = "d" -> <<Num(mday, 2)>>
          [] c \in {"D", "x"} -> date
          [] c = "e" -> blank \o <<Num(mday, 1)>>
          [] c = "F" -> <<Num(year, 4), Char1("-"), Num(mon + 1, 2), Char1("-"), Num(mday, 2)>>
          [] c = "G" -> <<Num(iso8601year(tm), 4)>>
          [] c = "g" -> <<Num(Rem(iso8601year(tm), 100), 2)>>
          [] c = "H" -> <<Num(hour, 2)>>
          [] c = "I" -> <<Num(Hour12(hour), 2)>>
          [] c = "j" -> <<Num(tm.yday + 1, 3)>>
          [] c = "m" -> <<Num(mon + 1, 2)>>
          [] c = "M" -> <<min>>
          [] c = "n" -> <<Char1("\n")>>
          [] c = "p" -> <<half>>
          [] c = "r" -> <<Num(Hour12(hour), 2), Char1(":"), min, Char1(":"), sec, Char1(" "), half>>
          [] c = "R" -> <<Num(hour, 2), Char1(":"), min>>
          [] c = "S" -> <<sec>>
          [] c = "t" -> <<Char1("\t")>>
          [] c \in {"T", "X"} -> clock
          [] c = "u" -> <<Num(IF tm.wday = 0 THEN 7 ELSE tm.wday, 1)>>
          [] c = "U" -> <<Num(weeknumber(tm, 0), 2)>>
          [] c = "V" -> <<Num(iso8601wknum(tm), 2)>>
          [] c = "w" -> <<Num(wday, 1)>>
          [] c = "W" -> <<Num(weeknumber(tm, 1), 2)>>
          [] c = "y" -> <<short>>
          [] c = "Y" -> <<Num(year, 4)>>
          [] c = "z" -> IF tm.isdst < 0 THEN <<>>
                        ELSE <<Char1(IF off < 0 THEN "-" ELSE "+"),
                               Num(away \div (Hour \div Minute), 2),
                               Num(away % (Hour \div Minute), 2)>>
          [] OTHER -> <<Str("%" \o c)>>

(* %Z copies the name that tm points to; when its zone is no longer loaded *)
(* the memory behind it is free, and Freed stands for what is found there. *)
Freed == "?"
ZoneLive(z, tm) == tm.zone = "UTC" \/ (z.db # NoZone /\ tm.zone[1] = z.gen)
ZoneText(z, tm) == IF tm.zone = "UTC" THEN "UTC"
                   ELSE IF ZoneLive(z, tm) THEN tm.zone[2] ELSE Freed

(* %s asks mktime, which leaves its answer in localtime's static too.      *)
(* (In a damaged zone it is any of mktime's answers: one is taken.)        *)
ShowEpoch(r, z, t) == append_str([r EXCEPT !.tz = z, !.shown = localtime(z, t)],
                                 format_num(t, 0))
EpochIn(r, z, tm, memory) ==
    ShowEpoch(r, Loaded(z, memory), CHOOSE t \in mktime(z, tm) : TRUE)
Epoch(r, tm, memory) == EpochIn(r, Loaded(r.tz, memory), tm, memory)

ConversionAt(p, i) == CHOOSE j \in i + 1..Len(p) + 1 :
                         /\ At(p, j) \notin {"E", "O"}
                         /\ \A k \in i + 1..j - 1 : At(p, k) \in {"E", "O"}

(* From place i of the format on; at is where it stopped. *)
RECURSIVE Formatted(_, _, _, _, _)
Conversion(r, tm, p, j, memory) ==
    LET c == At(p, j)
        done == CASE c = "s" -> Epoch(r, tm, memory)
                  [] c = "Z" -> append_str(r, ZoneText(r.tz, tm))
                  [] c \notin {"s", "Z"} -> FoldLeft(Append1, r, Items(tm, c))
    IN  IF c = NUL THEN [r EXCEPT !.s = @ \o "%", !.at = j]
        ELSE Formatted(done, tm, p, j + 1, memory)
Formatted(r, tm, p, i, memory) ==
    CASE ~r.ok \/ At(p, i) = NUL \/ Len(r.s) >= r.room - 1 -> [r EXCEPT !.at = i]
      [] r.ok /\ Len(r.s) < r.room - 1 /\ At(p, i) \notin {NUL, "%"} ->
            Formatted([r EXCEPT !.s = @ \o At(p, i)], tm, p, i + 1, memory)
      [] OTHER -> Conversion(r, tm, p, ConversionAt(p, i), memory)

StrftimeInit(name) == CalendarInit(name) /\ first = TRUE /\ written = [ret |-> -1]

\* Bug: what did not fit of the format is forgotten.
AtOut_part(r, p) ==
    LET fits == r.ok /\ Len(r.s) < r.room
    IN  [ret |-> IF fits THEN Len(r.s) ELSE 0, s |-> r.s, tz |-> r.tz,
         shown |-> r.shown, first |-> FALSE]

(* A format without conversions is copied, and asks for no zone. *)
AtOut(r, p) ==
    LET fits == r.ok /\ Len(r.s) < r.room /\ At(p, r.at) = NUL
    IN  [ret |-> IF fits THEN Len(r.s) ELSE 0, s |-> r.s, tz |-> r.tz,
         shown |-> r.shown, first |-> FALSE]
strftime(maxsize, p, tm, memory) ==
    LET bare == "%" \notin CharsOf(p)
        r == [s |-> "", room |-> maxsize, ok |-> TRUE, at |-> 1, shown |-> shown,
              tz |-> IF first THEN tzset(tz, ZoneFiles[env], memory) ELSE tz]
        Untouched(ret, s) == [ret |-> ret, s |-> s, tz |-> tz, shown |-> shown, first |-> first]
    IN  CASE maxsize = 0 -> Untouched(0, "")
          [] maxsize > 0 /\ bare -> Untouched(IF Len(p) + 1 > maxsize THEN 0 ELSE Len(p), p)
          [] OTHER -> AtOut(Formatted(r, tm, p, 1, memory), p)

Strftime(maxsize, p, tm, memory) ==
    /\ \E x \in {strftime(maxsize, p, tm, memory)} :
          /\ tz' = x.tz /\ shown' = x.shown /\ first' = x.first
          /\ written' = [ret |-> x.ret, s |-> x.s, room |-> maxsize, format |-> p, tm |-> tm]
    /\ call' = NoCall
    /\ UNCHANGED env

-----------------------------------------------------------------------------
(* asctime: 24 characters and a line end, the year in four digits. *)
format_2d(value) == At(Digits, (value \div 10) + 1) \o At(Digits, (value % 10) + 1)
asctime(tm) ==
    LET year == tm.year + 1900
    IN  Day3(tm.wday) \o " " \o Month3(tm.mon) \o " "
          \o (IF tm.mday < 10 THEN " " \o At(Digits, tm.mday + 1) ELSE format_2d(tm.mday))
          \o " " \o format_2d(tm.hour) \o ":" \o format_2d(tm.min) \o ":"
          \o format_2d(tm.sec) \o " " \o format_2d(year \div 100) \o format_2d(year % 100)
          \o "\n"
ctime(z, time) == asctime(localtime(z, time))

-----------------------------------------------------------------------------
(* The weeks of a year, counted: the weeks of %U begin on Sundays, those   *)
(* of %W on Mondays, and a week of %V belongs to the year of its Thursday. *)
WeeksBegun(tm, wday) ==
    Cardinality({d \in 0..tm.yday : (tm.wday - (tm.yday - d) - wday) % 7 = 0})

IsoWeek(tm) ==
    LET year == tm.year + 1900
        thursday == tm.yday - ((tm.wday + 6) % 7) + 3
        before == thursday < 0
        after == thursday >= YearLength(year)
    IN  [year |-> IF before THEN year - 1 ELSE IF after THEN year + 1 ELSE year,
         week |-> 1 + (IF before THEN thursday + YearLength(year - 1)
                       ELSE IF after THEN thursday - YearLength(year) ELSE thursday) \div 7]

(* The week numbers of strftime.c are those of the calendar, for a date    *)
(* that gmtime gives.                                                      *)
RightWeeks(tm) ==
    /\ weeknumber(tm, 0) = WeeksBegun(tm, 0)
    /\ weeknumber(tm, 1) = WeeksBegun(tm, 1)
    /\ [year |-> iso8601year(tm), week |-> iso8601wknum(tm)] = IsoWeek(tm)

(* strftime returns the length of the whole text when it fits with its     *)
(* terminator, and 0 otherwise, never a part: the checks of append_char    *)
(* and append_str and the one at out differ.                               *)
Whole(w) == LET r0 == [s |-> "", room |-> 1000, ok |-> TRUE, at |-> 1, shown |-> shown, tz |-> tz]
            IN  Formatted(r0, w.tm, w.format, 1, 5).s
IsWhole(w, text) == /\ w.ret = IF Len(text) < w.room THEN Len(text) ELSE 0
                    /\ w.ret > 0 => w.s = text
FitsOrNothing == written.ret # -1 => IsWhole(written, Whole(written))
=============================================================================
