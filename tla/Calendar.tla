------------------------------ MODULE Calendar ------------------------------
(***************************************************************************)
(* Calendar time and time zones (src/src/c/time): seconds turned into      *)
(* fields and back, and the zone that is loaded from a file.  Zones says   *)
(* what a zone gives for an instant.                                       *)
(***************************************************************************)
EXTENDS Zones, FiniteSets

CONSTANTS
    Minute, Hour, Day,      \* in seconds: 60, 3600, 86400
    ZoneFiles               \* what TZ may name, see ZoneFile

ASSUME CalendarAssumption == /\ Minute \in Nat \ {0}
                             /\ Hour \in {n * Minute : n \in 1..Hour}
                             /\ Day \in {n * Hour : n \in 1..Day}

EPOCH_YEAR == 1970

(* C's division rounds towards 0. *)
Quot(n, d) == IF n < 0 THEN -((-n) \div d) ELSE n \div d
Rem(n, d) == n - d * Quot(n, d)

is_leap(year) == year % 4 = 0 /\ (year % 100 # 0 \/ year % 400 = 0)
YearLength(year) == IF is_leap(year) THEN 366 ELSE 365
days_per_month == <<31, 28, 31, 30, 31, 30, 31, 31, 30, 31, 30, 31>>
days_before_month == <<0, 31, 59, 90, 120, 151, 181, 212, 243, 273, 304, 334, 365>>
MonthLength(mon, year) ==
    days_per_month[mon + 1] + IF mon = 1 /\ is_leap(year) THEN 1 ELSE 0

-----------------------------------------------------------------------------
(* A turn of the loop for the year, and of the one for the month: yday, or *)
(* mday, is what is left of the days.                                      *)
YearTurn == [x \in [year : Int, yday : Int] |->
    IF x.yday < 0 THEN [year |-> x.year - 1, yday |-> x.yday + YearLength(x.year - 1)]
    ELSE IF x.yday < YearLength(x.year) THEN x
    ELSE [year |-> x.year + 1, yday |-> x.yday - YearLength(x.year)]]
MonthTurn(year, x) ==
    IF x.mon = 12 \/ x.mday < MonthLength(x.mon, year) THEN x
    ELSE [mon |-> x.mon + 1, mday |-> x.mday - MonthLength(x.mon, year)]

(* The year in which a day lies, and its day there: no year is shorter     *)
(* than 365 days, and one turn more comes back before 1970.                *)
InYear(days) ==
    LET turns == (IF days < 0 THEN -days ELSE days) \div 365 + 1
        after[k \in 0..turns] == IF k = 0 THEN [year |-> EPOCH_YEAR, yday |-> days]
                                 ELSE YearTurn[after[k - 1]]
    IN  after[turns]
InMonth(days, year) ==
    LET after[k \in 0..12] == IF k = 0 THEN [mon |-> 0, mday |-> days]
                              ELSE MonthTurn(year, after[k - 1])
    IN  after[12]

(* Whole days and what is left, down even before 1970. *)
SecondOf(time) == IF Rem(time, Day) < 0 THEN Rem(time, Day) + Day ELSE Rem(time, Day)
DayOf(time) == IF Rem(time, Day) < 0 THEN Quot(time, Day) - 1 ELSE Quot(time, Day)

Tm(secs, days, y, m, z) ==
    LET wday == Rem(4 + days, 7)
    IN  [sec |-> (secs % Hour) % Minute, min |-> (secs % Hour) \div Minute,
         hour |-> secs \div Hour, mday |-> m.mday + 1, mon |-> m.mon,
         year |-> y.year - 1900, wday |-> IF wday < 0 THEN wday + 7 ELSE wday,
         yday |-> y.yday, isdst |-> z.isdst, gmtoff |-> z.gmtoff, zone |-> z.zone]
TmOf(secs, days, y, z) == Tm(secs, days, y, InMonth(y.yday, y.year), z)
BrokenDown(time, z) ==
    TmOf(SecondOf(time), DayOf(time), InYear(DayOf(time)), z)

gmtime(time) == BrokenDown(time, UTC)

-----------------------------------------------------------------------------
(***************************************************************************)
(* A file holds a zone for old readers and, from version 2 on, another     *)
(* behind it; cut is how many of its parts can be read, and badat the      *)
(* header whose magic is wrong, if any.                                    *)
(***************************************************************************)
ZoneFile(version, legacy, zone, cut, badat) ==
    [version |-> version, legacy |-> legacy, zone |-> zone, cut |-> cut, badat |-> badat]
NoFile == ZoneFile(0, NoZone, NoZone, 0, 0)

(***************************************************************************)
(* tz_load reads part by part; memory is how many blocks malloc has left.  *)
(* malloc(0) is NULL: a zone that never changes is refused.  Whatever      *)
(* fails behind it, error frees the blocks and closes the descriptor.      *)
(***************************************************************************)
Loading(blocks) == [db |-> NoZone, blocks |-> blocks, fds |-> 1]
Close(x) == [x EXCEPT !.fds = @ - 1]
tz_destroy(x) == [x EXCEPT !.db = NoZone, !.blocks = 0]

tz_load(file, memory) ==
    LET headers == IF file.version >= 2 THEN 2 ELSE 1
        zone == IF headers = 2 THEN file.zone ELSE file.legacy
        read == file.cut >= headers + 4
        headed == file.cut >= headers /\ file.badat \notin 1..headers
        wanted == IF zone.trans = <<>> THEN 3 ELSE 5
        held == IF ~headed THEN 1 ELSE IF memory < wanted THEN memory ELSE wanted
    IN  IF file.version = 0 THEN [Loading(0) EXCEPT !.fds = 0]
        ELSE IF memory = 0 THEN Close(Loading(0))
        ELSE IF headed /\ held = 5 /\ read THEN Close([Loading(held) EXCEPT !.db = zone])
        ELSE tz_destroy(Close(Loading(held)))

-----------------------------------------------------------------------------
VARIABLES
    env,        \* the file that TZ, or the default path, names
    tz,         \* the zone loaded, its memory, and tzname, timezone, daylight
    shown,      \* localtime's static result
    call        \* the last conversion: what was asked, and the answer

calendarVars == <<env, tz, shown, call>>

NoTm == [zone |-> "none"]
NoCall == [op |-> "none"]

(* Which types there are, in order, with isdst as given. *)
OfKind(db, dst) == SelectSeq(db.types, LAMBDA t : (t.isdst # 0) = dst)

(* The tzset of a loaded library.  A name that the zone does not give      *)
(* stays as it was.                                                        *)
Named(z, x) ==
    LET std == OfKind(x.db, FALSE)
        dst == OfKind(x.db, TRUE)
        loaded == [z EXCEPT !.db = x.db, !.blocks = x.blocks, !.fds = @ + x.fds]
    IN  IF x.db = NoZone
        THEN [loaded EXCEPT !.std = "GMT", !.dst = "GMT", !.timezone = 0, !.daylight = 0]
        ELSE [loaded EXCEPT !.gen = @ + 1,
                            !.std = IF std = <<>> THEN @ ELSE std[1].abbr,
                            !.timezone = IF std = <<>> THEN @ ELSE -std[1].gmtoff,
                            !.dst = IF dst = <<>> THEN @ ELSE dst[1].abbr,
                            !.daylight = IF dst = <<>> THEN 0 ELSE 1]
tzset(z, file, memory) == Named(z, tz_load(file, memory + z.blocks))

Loaded(z, memory) == IF z.db = NoZone THEN tzset(z, ZoneFiles[env], memory) ELSE z

InZone(time, t) == BrokenDown(time + t.gmtoff, t)
localtime(z, time) == InZone(time, Looked(z, time))

(* The seconds of a tm read as UTC, its fields as far off as they may be. *)
Leaps(y) == Quot(y - 1, 4) - Quot(y - 1, 100) + Quot(y - 1, 400)
DaysBefore(year, mon) ==
    (year - EPOCH_YEAR) * 365 + Leaps(year) - Leaps(EPOCH_YEAR) + days_before_month[mon + 1]
        + IF mon > 1 /\ is_leap(year) THEN 1 ELSE 0
SecondsOf(tm) ==
    LET year == tm.year + 1900 + Quot(tm.mon, 12)
        first == IF tm.mon < 0 THEN DaysBefore(year - 1, Rem(tm.mon, 12) + 12)
                 ELSE DaysBefore(year, Rem(tm.mon, 12))
    IN  (first + tm.mday - 1) * Day + tm.hour * Hour + tm.min * Minute + tm.sec

mktime(z, tm) == InstantsOf(z, SecondsOf(tm))

-----------------------------------------------------------------------------
CalendarInit(name) ==
    /\ env = name
    /\ tz = [db |-> NoZone, blocks |-> 0, fds |-> 0, gen |-> 0, std |-> "GMT",
             dst |-> "GMT", timezone |-> 0, daylight |-> 0]
    /\ shown = NoTm
    /\ call = NoCall

Setenv(name) == env' = name /\ UNCHANGED <<tz, shown, call>>

Tzset(memory) == /\ tz' = tzset(tz, ZoneFiles[env], memory)
                 /\ call' = NoCall
                 /\ UNCHANGED <<env, shown>>

Localtime(time, memory) ==
    /\ tz' = Loaded(tz, memory)
    /\ shown' = localtime(tz', time)
    /\ call' = [op |-> "localtime", time |-> time, tm |-> shown']
    /\ UNCHANGED env

(* The tm given is normalised, by localtime, which shows it too.  (Without *)
(* a zone mktime asks tzset, and localtime asks it again.)                 *)
Mktime(tm, memory) ==
    /\ tz' = Loaded(Loaded(tz, memory), memory)
    /\ \E t \in mktime(Loaded(tz, memory), tm) :
          /\ shown' = localtime(tz', t)
          /\ call' = [op |-> "mktime", given |-> tm, time |-> t, tm |-> shown']
    /\ UNCHANGED env

(***************************************************************************)
(* What mktime may be given: any fields that name a year from 2 on.  (The  *)
(* leap years until year 0 and before it are counted by a division that    *)
(* rounds towards 0, and mktime is a day off.)                             *)
(***************************************************************************)
YearNamed(tm) == tm.year + 1900 + (tm.mon \div 12)
Fields == {tm \in [sec : Int, min : Int, hour : Int, mday : Int, mon : Int, year : Int] :
              YearNamed(tm) >= 2}

CalendarNext == \/ \E name \in DOMAIN ZoneFiles : Setenv(name)
                \/ \E memory \in Nat : Tzset(memory)
                \/ \E time \in Int, memory \in Nat : Localtime(time, memory)
                \/ \E tm \in Fields, memory \in Nat : Mktime(tm, memory)

CalendarSpec == /\ \E name \in DOMAIN ZoneFiles : CalendarInit(name)
                /\ [][CalendarNext]_calendarVars
-----------------------------------------------------------------------------
(* What a date is.  A year begins 365 days after the one before, or 366:   *)
(* the leap years between it and 1970 are counted.                         *)
FirstDay(year) ==
    LET leaps(from, to) == Cardinality({y \in from..to : is_leap(y)})
    IN  (year - EPOCH_YEAR) * 365 + leaps(EPOCH_YEAR, year - 1) - leaps(year, EPOCH_YEAR - 1)
FirstOfMonth(mon, year) ==
    LET before[m \in 0..mon] == IF m = 0 THEN 0 ELSE before[m - 1] + MonthLength(m - 1, year)
    IN  before[mon]
CivilDays(year, mon, mday) == FirstDay(year) + FirstOfMonth(mon, year) + mday - 1

(* The seconds a tm stands for, whatever its fields: Feb 31 is in March. *)
Reads(tm) == CivilDays(YearNamed(tm), tm.mon % 12, tm.mday) * Day
                + tm.hour * Hour + tm.min * Minute + tm.sec

IsDate(tm) ==
    LET year == tm.year + 1900
    IN  /\ tm.sec \in 0..Minute - 1 /\ tm.min \in 0..(Hour \div Minute) - 1
        /\ tm.hour \in 0..(Day \div Hour) - 1
        /\ tm.mon \in 0..11 /\ tm.mday \in 1..MonthLength(tm.mon, year)
        /\ tm.wday = (4 + CivilDays(year, tm.mon, tm.mday)) % 7
        /\ tm.yday = CivilDays(year, tm.mon, tm.mday) - CivilDays(year, 0, 1)

(* Loading a zone, whatever fails in it, ends with no descriptor open and  *)
(* with the memory of the one zone that is current: parser.c, tzset.c.     *)
ZoneIsHeld ==
    /\ tz.fds = 0
    /\ tz.blocks = IF tz.db = NoZone THEN 0 ELSE 5
    /\ tz.db # NoZone => /\ Len(tz.db.trans) > 0
                         /\ (tz.daylight = 0) <=> (OfKind(tz.db, TRUE) = <<>>)

(* Local time is the date in force at the instant, and the library shows   *)
(* the type that governs it, UTC where a damaged zone names none:          *)
(* localtime.c, gmtime.c, tz_lookup; and no load of a zone, failed or not,  *)
(* leaves a descriptor or a block behind.                                  *)
ShowsTheTime ==
    /\ ZoneIsHeld
    /\ call.op # "none" =>
        LET t == InForce(tz.db, call.time)
        IN  /\ IsDate(call.tm)
            /\ Reads(call.tm) = call.time + t.gmtoff
            /\ call.tm.gmtoff = t.gmtoff /\ call.tm.isdst = t.isdst

(* mktime gives an instant at which the clock shows what the tm says,      *)
(* whenever there is one: around a change some local times come twice and  *)
(* some never.  mktime.c, with fields beyond their range.  (In a zone that  *)
(* names a type it has not mktime.c:72 reads an offset that was not set.)   *)
MktimeInverts ==
    call.op = "mktime" /\ (tz.db # NoZone => NamesItsTypes(tz.db)) =>
        LET local == Reads(call.given)
            Shows(t) == Clock(tz.db, t) = local
        IN  (\E t \in local - Day..local + Day : Shows(t)) => Shows(call.time)

(* The two together, at every change and in every zone. *)
LocalTimeHolds == ShowsTheTime /\ MktimeInverts
=============================================================================
