------------------------------ MODULE CivilTime ------------------------------
(***************************************************************************)
(* now_iso of the session and memory stores: UNIX seconds to the date and  *)
(* time in UTC.  The text is the six numbers with fixed widths (the year's *)
(* up to 9999), so SQLite orders texts as the numbers are ordered          *)
(* lexicographically.                                                      *)
(***************************************************************************)
EXTENDS Integers, Sequences

(* epoch_to_ymd_hms: days are counted from 1 March of year 0, so that a leap day ends a year. *)
Ymd(day) ==
  LET days == day + 719468
      era == days \div 146097
      doe == days - era * 146097
      yoe == (doe - doe \div 1460 + doe \div 36524 - doe \div 146096) \div 365
      doy == doe - (365 * yoe + yoe \div 4 - yoe \div 100)
      mp == (5 * doy + 2) \div 153
      d == doy - (153 * mp + 2) \div 5 + 1
      m == IF mp < 10 THEN mp + 3 ELSE mp - 9
  IN  <<yoe + era * 400 + (IF m <= 2 THEN 1 ELSE 0), m, d>>

Hms(secs) ==
  LET t == secs % 86400 IN <<t \div 3600, (t % 3600) \div 60, t % 60>>

StampOf(secs) == Ymd(secs \div 86400) \o Hms(secs)

(* The order of the texts. *)
Earlier(s, t) ==
  \E i \in DOMAIN s : s[i] < t[i] /\ \A j \in 1..(i - 1) : s[j] = t[j]

-----------------------------------------------------------------------------
(* The calendar, to compare with. *)

IsLeap(y) == (y % 4 = 0 /\ y % 100 # 0) \/ y % 400 = 0

MonthLength(y, m) ==
  CASE m = 2 -> IF IsLeap(y) THEN 29 ELSE 28
    [] m \in {4, 6, 9, 11} -> 30
    [] OTHER -> 31

DayAfter(date) ==
  LET y == date[1]  m == date[2]  d == date[3] IN
  CASE d < MonthLength(y, m) -> <<y, m, d + 1>>
    [] d = MonthLength(y, m) /\ m < 12 -> <<y, m + 1, 1>>
    [] OTHER -> <<y + 1, 1, 1>>
=============================================================================
