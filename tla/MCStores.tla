------------------------------- MODULE MCStores -------------------------------
(* Model-checking instance of Stores. *)
EXTENDS Stores

SessionIdsDef == {<<"a">>, <<"a", "b">>, <<"c">>}
ExistingDef == {<<"a", "b">>, <<"c">>}
AskedIdsDef == {<<"a">>}
(* 31 December 2023 23:59:59 and the second after. *)
InstantsDef == <<1704067199, 1704067200>>
(* A caller that gives the day before. *)
GivenDef == {1703980800}
ScopesDef == {Scope("session", "user"), Scope("user", "")}

(* The conversion follows the calendar for the four hundred years after which
   it repeats, from 1 January 1970. *)
ASSUME CalendarFollowed ==
  /\ StampOf(0) = <<1970, 1, 1, 0, 0, 0>>
  /\ \A day \in 1..146097 : Ymd(day) = DayAfter(Ymd(day - 1))
=============================================================================
