-------------------------------- MODULE Zones --------------------------------
(***************************************************************************)
(* The offset of local time: the search of a zone for an instant           *)
(* (src/src/c/time/parser.c), and the way back from local time (mktime.c). *)
(***************************************************************************)
EXTENDS Integers, Sequences, FiniteSetsExt

CONSTANTS
    NoZone,         \* the zone of a library that has loaded none
    Unset           \* what an offset that nobody set may be read as

(***************************************************************************)
(* A zone: the instants at which it changes, which type it changes to, and *)
(* the types.                                                              *)
(***************************************************************************)
Zone(trans, idxs, types) == [trans |-> trans, idxs |-> idxs, types |-> types]

\* Bug: an instant at which the zone changes has the type before.
SearchTurn_strict(trans, time, x) ==
    LET mid == x.low + (x.high - x.low) \div 2
    IN  IF x.low > x.high THEN x
        ELSE IF trans[mid + 1] < time THEN [low |-> mid + 1, high |-> x.high, idx |-> mid]
        ELSE [low |-> x.low, high |-> mid - 1, idx |-> x.idx]

(* A turn of the search in low..high (from 0) for the last transition that *)
(* is not after time.  In the code, where -1 is no index, a turn that comes *)
(* to mid = 0 and looks below leaves the loop; here high = -1 ends it.      *)
SearchTurn(trans, time, x) ==
    LET mid == x.low + (x.high - x.low) \div 2
    IN  IF x.low > x.high THEN x
        ELSE IF trans[mid + 1] <= time THEN [low |-> mid + 1, high |-> x.high, idx |-> mid]
        ELSE [low |-> x.low, high |-> mid - 1, idx |-> x.idx]

(* Every turn makes low..high smaller: as many as there are entries are     *)
(* enough.                                                                 *)
Search(trans, time) ==
    LET n == Len(trans)
        after[k \in 0..n] == IF k = 0 THEN [low |-> 0, high |-> n - 1, idx |-> -1]
                             ELSE SearchTurn(trans, time, after[k - 1])
    IN  after[n].idx

\* Bug: before the first change the first type is in force, whatever it is.
TypeFrom_first(db, idx) == IF idx = -1 THEN db.types[1] ELSE db.types[db.idxs[idx + 1] + 1]

(* Before the first, the first type that is not daylight saving time. *)
TypeFrom(db, idx) ==
    LET standard == {i \in DOMAIN db.types : db.types[i].isdst = 0}
    IN  CASE idx # -1 -> db.types[db.idxs[idx + 1] + 1]
          [] idx = -1 /\ standard = {} -> db.types[1]
          [] OTHER -> db.types[CHOOSE i \in standard : \A j \in standard : i <= j]
LastChange(db, time) == IF Len(db.trans) = 0 \/ time < db.trans[1] THEN -1
                        ELSE Search(db.trans, time)

(* tz_lookup returns 0 when the change names a type that the zone has not;  *)
(* otherwise it stores a type.                                             *)
Found(db, time) ==
    LET idx == LastChange(db, time)
    IN  idx # -1 => db.idxs[idx + 1] + 1 \in DOMAIN db.types
tz_lookup(db, time) == TypeFrom(db, LastChange(db, time))

-----------------------------------------------------------------------------
Zoned(gmtoff, isdst, zone) == [gmtoff |-> gmtoff, isdst |-> isdst, zone |-> zone]

UTC == Zoned(0, 0, "UTC")

(* tm_zone points into the abbreviations of the zone it was found in. *)
OfType(z, t) == Zoned(t.gmtoff, t.isdst, <<z.gen, t.abbr>>)
Looked(z, time) == IF z.db # NoZone /\ Found(z.db, time)
                   THEN OfType(z, tz_lookup(z.db, time)) ELSE UTC

\* Bug: the offset is looked up once.
InstantsOf_once(z, local) == {local - Looked(z, local).gmtoff}

(* The offset is looked up twice: at the local time as if it were UTC, and *)
(* at the instant which that offset gives.  The first lookup begins with 0, *)
(* but what the second leaves when it fails was never set.                 *)
SecondOffsets(z, time) == IF z.db # NoZone /\ ~Found(z.db, time) THEN Unset
                          ELSE {Looked(z, time).gmtoff}
InstantsOf(z, local) ==
    {local - gmtoff : gmtoff \in SecondOffsets(z, local - Looked(z, local).gmtoff)}
-----------------------------------------------------------------------------
(* The type in force: that of the last change not after time, or UTC when   *)
(* the zone is damaged and has no such type.                               *)
Utc == [gmtoff |-> 0, isdst |-> 0, abbr |-> "UTC"]
TypeOfChange(db, i) == IF db.idxs[i] + 1 \in DOMAIN db.types THEN db.types[db.idxs[i] + 1]
                                                            ELSE Utc
NamesItsTypes(db) == \A i \in DOMAIN db.idxs : db.idxs[i] + 1 \in DOMAIN db.types

InForce(db, time) ==
    LET past == {i \in DOMAIN db.trans : db.trans[i] <= time}
        standard == {i \in DOMAIN db.types : db.types[i].isdst = 0}
    IN  IF db = NoZone THEN Utc
        ELSE IF past # {} THEN TypeOfChange(db, Max(past))
        ELSE db.types[IF standard = {} THEN 1 ELSE Min(standard)]

(* What a clock set to the zone shows at time. *)
Clock(db, time) == time + InForce(db, time).gmtoff
=============================================================================
