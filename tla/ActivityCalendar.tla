--------------------------- MODULE ActivityCalendar ---------------------------
(***************************************************************************)
(* CosemActivityCalendarObject (IC 20): seasons name weeks and weeks name  *)
(* days.  The three tables of the passive calendar are attributes of their *)
(* own, set one at a time by clients and by the application; each SET is   *)
(* checked against the other two tables as they are.  The active calendar  *)
(* is built by the same rules in the constructor and never changes, as     *)
(* activate_passive_calendar is left to a backend.                         *)
(*                                                                         *)
(* Start dates are numbers: the code compares their twelve bytes, which is *)
(* a total order.                                                          *)
(***************************************************************************)
EXTENDS Naturals, Sequences

CONSTANTS SeasonNames, Starts, WeekNames, DayIdentifiers,
          MaxRows   \* bound: rows of a table that is sent

ASSUME CalendarAssumption == Starts \subseteq Nat /\ MaxRows \in Nat

SeasonProfile == [name : SeasonNames, start : Starts, weekName : WeekNames]
\* The days of a week are a set: only which ids occur is checked.
WeekProfile   == [name : WeekNames, dayIds : SUBSET DayIdentifiers \ {{}}]
\* A day is valid when its own schedule is.
DayProfile    == [dayId : DayIdentifiers, valid : BOOLEAN]

Rows(S) == UNION {[1..n -> S] : n \in 0..MaxRows}

VARIABLES seasonProfile, weekProfileTable, dayProfileTable

calendarVars == <<seasonProfile, weekProfileTable, dayProfileTable>>

-----------------------------------------------------------------------------
IsValidSeasonProfile(value) ==
  /\ \A i, j \in DOMAIN value : i # j => value[i].name # value[j].name
  /\ \A i \in DOMAIN value : i > 1 => value[i - 1].start < value[i].start

IsValidWeekProfileTable(value) ==
  \A i, j \in DOMAIN value : i # j => value[i].name # value[j].name

IsValidDayProfileTable(value) ==
  \A i \in DOMAIN value :
    /\ value[i].valid
    /\ \A j \in DOMAIN value : i # j => value[i].dayId # value[j].dayId

WeekProfileTableSatisfies(weeks, dayTable) ==
  \A i \in DOMAIN weeks : \A id \in weeks[i].dayIds :
    \E d \in DOMAIN dayTable : dayTable[d].dayId = id

SeasonProfileSatisfies(seasons, weeks) ==
  \A i \in DOMAIN seasons : \E j \in DOMAIN weeks : seasons[i].weekName = weeks[j].name

-----------------------------------------------------------------------------
\* The constructor drops what is not valid, days first, so that what it drops
\* takes with it what refers to it.
CalendarInit ==
  \E seasons \in Rows(SeasonProfile), weeks \in Rows(WeekProfile), dayTable \in Rows(DayProfile) :
    /\ dayProfileTable = IF IsValidDayProfileTable(dayTable) THEN dayTable ELSE <<>>
    /\ weekProfileTable =
         IF IsValidWeekProfileTable(weeks) /\ WeekProfileTableSatisfies(weeks, dayProfileTable)
         THEN weeks ELSE <<>>
    /\ seasonProfile =
         IF IsValidSeasonProfile(seasons) /\ SeasonProfileSatisfies(seasons, weekProfileTable)
         THEN seasons ELSE <<>>

SetSeasonProfilePassive(value) ==
  /\ IsValidSeasonProfile(value)
  /\ SeasonProfileSatisfies(value, weekProfileTable)
  /\ seasonProfile' = value
  /\ UNCHANGED <<weekProfileTable, dayProfileTable>>

\* Mutant: the seasons that name the old weeks are forgotten.
SetWeekProfileTablePassive_Seasons(value) ==
  /\ IsValidWeekProfileTable(value)
  /\ WeekProfileTableSatisfies(value, dayProfileTable)
  /\ weekProfileTable' = value
  /\ UNCHANGED <<seasonProfile, dayProfileTable>>

SetWeekProfileTablePassive(value) ==
  /\ IsValidWeekProfileTable(value)
  /\ WeekProfileTableSatisfies(value, dayProfileTable)
  /\ SeasonProfileSatisfies(seasonProfile, value)
  /\ weekProfileTable' = value
  /\ UNCHANGED <<seasonProfile, dayProfileTable>>

SetDayProfileTablePassive(value) ==
  /\ IsValidDayProfileTable(value)
  /\ WeekProfileTableSatisfies(weekProfileTable, value)
  /\ dayProfileTable' = value
  /\ UNCHANGED <<seasonProfile, weekProfileTable>>

CalendarNext ==
  \/ \E value \in Rows(SeasonProfile) : SetSeasonProfilePassive(value)
  \/ \E value \in Rows(WeekProfile) : SetWeekProfileTablePassive(value)
  \/ \E value \in Rows(DayProfile) : SetDayProfileTablePassive(value)

CalendarSpec == CalendarInit /\ [][CalendarNext]_calendarVars

-----------------------------------------------------------------------------
\* Each season, followed through its week to a day, ends at exactly one day that
\* has a valid schedule, and at any instant at most one season has just begun:
\* the calendar can be carried out whatever order its tables were written in.
CalendarResolves ==
  /\ \A i \in DOMAIN seasonProfile :
       \E j \in DOMAIN weekProfileTable :
         /\ weekProfileTable[j].name = seasonProfile[i].weekName
         /\ \A k \in DOMAIN weekProfileTable :
              weekProfileTable[k].name = seasonProfile[i].weekName => k = j
         /\ \A id \in weekProfileTable[j].dayIds :
              \E d \in DOMAIN dayProfileTable :
                /\ dayProfileTable[d].dayId = id /\ dayProfileTable[d].valid
                /\ \A e \in DOMAIN dayProfileTable : dayProfileTable[e].dayId = id => e = d
  /\ \A i, j \in DOMAIN seasonProfile : seasonProfile[i].start = seasonProfile[j].start => i = j

=============================================================================
