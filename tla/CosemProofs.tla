----------------------------- MODULE CosemProofs -----------------------------
(***************************************************************************)
(* The COSEM objects for every value of the constants.  The tables that    *)
(* depend on each other (Schedule, SpecialDays, RegisterMonitor,           *)
(* SingleActionSchedule, ActivityCalendar): every set of keys, names and   *)
(* values, arrays of every length.  The Security Setup object and the      *)
(* stores behind it: every set of keys, policies and certificates,         *)
(* counters of every width.  CosemObject: every table of interface         *)
(* classes, whatever its functions check, grant and change.                *)
(***************************************************************************)
EXTENDS Schedule, SpecialDays, RegisterMonitor, SingleActionSchedule, ActivityCalendar,
        SecuritySetup, CertificateStore, CosemObject, CosemLibrary, NumberLemmas, TLAPS

-----------------------------------------------------------------------------
(***************************************************************************)
(* Schedule                                                                *)
(***************************************************************************)

\* A valid array becomes a set in which an index names one entry.
LEMMA ValidArrayIsKeyed ==
  ASSUME NEW array \in Arrays, ScheduleEntriesIndicesUnique(array)
  PROVE  /\ Range(array) \subseteq ScheduleTableEntry
         /\ \A e, f \in Range(array) : e.index = f.index => e = f
  <1>1. PICK n \in 0..MaxEntries : array \in [1..n -> ScheduleTableEntry]
    BY DEF Arrays
  <1> QED
    BY <1>1 DEF Range, ScheduleEntriesIndicesUnique

\* Switching leaves the indices alone.
LEMMA ApplyEnableKeepsKeys ==
  ASSUME NEW set, set \subseteq ScheduleTableEntry, NEW range, NEW on \in BOOLEAN,
         \A e, f \in set : e.index = f.index => e = f
  PROVE  /\ ApplyEnable(set, range, on) \subseteq ScheduleTableEntry
         /\ \A e, f \in ApplyEnable(set, range, on) : e.index = f.index => e = f
  <1> DEFINE Switched(e) == [e EXCEPT !.enable = IF InRange(e.index, range) THEN on ELSE @]
  <1>1. \A e \in ScheduleTableEntry :
          Switched(e) \in ScheduleTableEntry /\ Switched(e).index = e.index
    BY DEF ScheduleTableEntry
  <1>2. ApplyEnable(set, range, on) = {Switched(e) : e \in set}
    BY DEF ApplyEnable
  <1> HIDE DEF Switched
  <1> QED
    BY <1>1, <1>2

\* ScheduleIndexIsKey, on every schedule: no order of SETs and method calls gives
\* two entries one index.
THEOREM ScheduleKeyTheorem == ScheduleSpec => []ScheduleIndexIsKey
  <1>1. ScheduleInit => ScheduleIndexIsKey
    BY ValidArrayIsKeyed DEF ScheduleInit, ScheduleIndexIsKey
  <1>2. ScheduleIndexIsKey /\ [ScheduleNext]_scheduleVars => ScheduleIndexIsKey'
    <2> SUFFICES ASSUME ScheduleIndexIsKey, [ScheduleNext]_scheduleVars
                 PROVE  ScheduleIndexIsKey'
      OBVIOUS
    <2>1. ASSUME NEW array \in Arrays, SetEntries(array) PROVE ScheduleIndexIsKey'
      BY <2>1, ValidArrayIsKeyed DEF SetEntries, ScheduleIndexIsKey
    <2>2. ASSUME NEW a \in Ranges, NEW b \in Ranges, EnableDisable(a, b)
          PROVE  ScheduleIndexIsKey'
      <3> DEFINE disabled == ApplyEnable(entries, a, FALSE)
      <3>1. /\ disabled \subseteq ScheduleTableEntry
            /\ \A e, f \in disabled : e.index = f.index => e = f
        BY ApplyEnableKeepsKeys DEF ScheduleIndexIsKey
      <3>2. entries' = ApplyEnable(disabled, b, TRUE)
        BY <2>2 DEF EnableDisable
      <3> HIDE DEF disabled
      <3> QED
        BY <3>1, <3>2, ApplyEnableKeepsKeys DEF ScheduleIndexIsKey
    <2>3. ASSUME NEW entry \in ScheduleTableEntry, InsertEntry(entry) PROVE ScheduleIndexIsKey'
      BY <2>3 DEF InsertEntry, ScheduleIndexIsKey
    <2>4. ASSUME NEW range \in Ranges, DeleteEntries(range) PROVE ScheduleIndexIsKey'
      BY <2>4 DEF DeleteEntries, ScheduleIndexIsKey
    <2>5. CASE UNCHANGED scheduleVars
      BY <2>5 DEF scheduleVars, ScheduleIndexIsKey
    <2> QED
      BY <2>1, <2>2, <2>3, <2>4, <2>5 DEF ScheduleNext
  <1> QED
    BY <1>1, <1>2, PTL DEF ScheduleSpec

\* ScheduleSwitchedAsAsked, on every schedule and every pair of ranges: what
\* enable_disable leaves enabled is what the two ranges say, in their order.
THEOREM ScheduleSwitchTheorem == ScheduleSpec => []ScheduleSwitchedAsAsked
  <1> USE ScheduleAssumption
  <1>1. ScheduleInit => ScheduleSwitchedAsAsked
    BY DEF ScheduleInit, ScheduleSwitchedAsAsked
  <1>2. ScheduleIndexIsKey /\ ScheduleSwitchedAsAsked /\ [ScheduleNext]_scheduleVars
          => ScheduleSwitchedAsAsked'
    <2> SUFFICES ASSUME ScheduleIndexIsKey, ScheduleSwitchedAsAsked, [ScheduleNext]_scheduleVars
                 PROVE  ScheduleSwitchedAsAsked'
      OBVIOUS
    <2>1. ASSUME NEW array \in Arrays, SetEntries(array) PROVE ScheduleSwitchedAsAsked'
      BY <2>1 DEF SetEntries, ScheduleSwitchedAsAsked
    <2>2. ASSUME NEW a \in Ranges, NEW b \in Ranges, EnableDisable(a, b)
          PROVE  ScheduleSwitchedAsAsked'
      <3> DEFINE before == {e.index : e \in {x \in entries : x.enable}}
                 Off(x) == [x EXCEPT !.enable = IF InRange(x.index, a) THEN FALSE ELSE @]
                 On(x) == [x EXCEPT !.enable = IF InRange(x.index, b) THEN TRUE ELSE @]
                 within(i, range) == i <= IndexCap /\ i \in range[1]..range[2]
      <3>1. entries' = {On(y) : y \in {Off(x) : x \in entries}}
        BY <2>2 DEF EnableDisable, ApplyEnable
      <3>2. command'.a = a /\ command'.b = b /\ command'.before = before
        BY <2>2 DEF EnableDisable
      <3>3. ASSUME NEW i \in ScheduleIndices, NEW range \in Ranges
            PROVE  InRange(i, range) <=> within(i, range)
        <4>1. i \in Nat /\ range[1] \in Nat /\ range[2] \in Nat /\ IndexCap \in Nat
          BY DEF Ranges
        <4> QED
          BY <4>1 DEF InRange
      <3>4. \A x \in entries : x.index \in before <=> x.enable
        BY DEF ScheduleIndexIsKey, ScheduleTableEntry
      <3>5. ASSUME NEW x \in entries
            PROVE  /\ On(Off(x)).index = x.index /\ x.index \in ScheduleIndices
                   /\ On(Off(x)).enable <=> \/ InRange(x.index, b)
                                            \/ x.enable /\ ~InRange(x.index, a)
        BY DEF ScheduleIndexIsKey, ScheduleTableEntry
      <3>6. ASSUME NEW e \in entries'
            PROVE  e.enable <=> \/ within(e.index, b)
                                \/ e.index \in before /\ ~within(e.index, a)
        <4>1. PICK x \in entries : e = On(Off(x))
          BY <3>1, <3>6
        <4> HIDE DEF On, Off, before, within
        <4> QED
          BY <4>1, <3>3, <3>4, <3>5
      <3> HIDE DEF before
      <3> QED
        BY <3>2, <3>6 DEF ScheduleSwitchedAsAsked
    <2>3. ASSUME NEW entry \in ScheduleTableEntry, InsertEntry(entry)
          PROVE  ScheduleSwitchedAsAsked'
      BY <2>3 DEF InsertEntry, ScheduleSwitchedAsAsked
    <2>4. ASSUME NEW range \in Ranges, DeleteEntries(range) PROVE ScheduleSwitchedAsAsked'
      BY <2>4 DEF DeleteEntries, ScheduleSwitchedAsAsked
    <2>5. CASE UNCHANGED scheduleVars
      BY <2>5 DEF scheduleVars, ScheduleSwitchedAsAsked
    <2> QED
      BY <2>1, <2>2, <2>3, <2>4, <2>5 DEF ScheduleNext
  <1> QED
    BY <1>1, <1>2, ScheduleKeyTheorem, PTL DEF ScheduleSpec

-----------------------------------------------------------------------------
(***************************************************************************)
(* Special days                                                            *)
(***************************************************************************)

\* SpecialDaysKeys, on every table: an insertion that meets two old entries
\* leaves both keys unique, and nothing else can break them.
THEOREM SpecialDaysTheorem == SpecialDaysSpec => []SpecialDaysKeys
  <1>1. ASSUME NEW array \in DayArrays, DaysAreValid(array)
        PROVE  /\ Range(array) \subseteq SpecialDayEntry
               /\ \A e, f \in Range(array) : SameKey(e, f) => e = f
    <2>1. PICK n \in 0..MaxDays : array \in [1..n -> SpecialDayEntry]
      BY DEF DayArrays
    <2> QED
      BY <1>1, <2>1 DEF Range, DaysAreValid
  <1>2. SpecialDaysInit => SpecialDaysKeys
    BY <1>1 DEF SpecialDaysInit, SpecialDaysKeys
  <1>3. SpecialDaysKeys /\ [SpecialDaysNext]_specialDaysVars => SpecialDaysKeys'
    <2> SUFFICES ASSUME SpecialDaysKeys, [SpecialDaysNext]_specialDaysVars
                 PROVE  SpecialDaysKeys'
      OBVIOUS
    <2>1. ASSUME NEW array \in DayArrays, SetDays(array) PROVE SpecialDaysKeys'
      BY <2>1, <1>1 DEF SetDays, SpecialDaysKeys
    <2>2. ASSUME NEW entry \in SpecialDayEntry, InsertDay(entry) PROVE SpecialDaysKeys'
      BY <2>2 DEF InsertDay, SpecialDaysKeys, SameKey
    <2>3. ASSUME NEW index \in DayIndices, DeleteDay(index) PROVE SpecialDaysKeys'
      BY <2>3 DEF DeleteDay, SpecialDaysKeys
    <2>4. CASE UNCHANGED specialDaysVars
      BY <2>4 DEF specialDaysVars, SpecialDaysKeys
    <2> QED
      BY <2>1, <2>2, <2>3, <2>4 DEF SpecialDaysNext
  <1> QED
    BY <1>2, <1>3, PTL DEF SpecialDaysSpec

-----------------------------------------------------------------------------
(***************************************************************************)
(* Register monitor                                                        *)
(***************************************************************************)

\* Both arrays are sequences of their elements.
MonitorTypes ==
  /\ thresholds \in Seq(Thresholds \cup {EmptyThreshold})
  /\ actions \in Seq(Actions)

\* A bounded array is a sequence.
LEMMA BoundedIsSequence == ASSUME NEW n, NEW S, NEW list \in UpTo(n, S) PROVE list \in Seq(S)
  BY DEF UpTo

\* No call makes a monitor with a threshold that has no actions, or changes the
\* number of thresholds: SetThresholds and SetActions refuse other lengths.
LEMMA MonitorStep ==
  MonitorTypes /\ EveryThresholdHasActions /\ [MonitorNext]_monitorVars
    => /\ (MonitorTypes /\ EveryThresholdHasActions)'
       /\ Len(thresholds') = Len(thresholds)
  <1> SUFFICES ASSUME MonitorTypes, EveryThresholdHasActions, [MonitorNext]_monitorVars
               PROVE  /\ (MonitorTypes /\ EveryThresholdHasActions)'
                      /\ Len(thresholds') = Len(thresholds)
    OBVIOUS
  <1>1. ASSUME NEW list \in UpTo(MaxThresholds, Thresholds \cup {EmptyThreshold}),
               SetThresholds(list)
        PROVE  /\ (MonitorTypes /\ EveryThresholdHasActions)'
               /\ Len(thresholds') = Len(thresholds)
    BY <1>1, BoundedIsSequence
    DEF SetThresholds, MonitorTypes, EveryThresholdHasActions, IsValidThresholds,
        ThresholdsMatchActions
  <1>2. ASSUME NEW list \in UpTo(MaxThresholds, Actions), SetActions(list)
        PROVE  /\ (MonitorTypes /\ EveryThresholdHasActions)'
               /\ Len(thresholds') = Len(thresholds)
    BY <1>2, BoundedIsSequence
    DEF SetActions, MonitorTypes, EveryThresholdHasActions, ThresholdsMatchActions
  <1>3. CASE UNCHANGED monitorVars
    BY <1>3 DEF monitorVars, MonitorTypes, EveryThresholdHasActions
  <1> QED
    BY <1>1, <1>2, <1>3 DEF MonitorNext

\* The constructor makes as many actions as thresholds.
LEMMA MonitorInitially == MonitorInit => MonitorTypes /\ EveryThresholdHasActions
  BY BoundedIsSequence
  DEF MonitorInit, MonitorTypes, EveryThresholdHasActions, IsValidThresholds,
      ThresholdsMatchActions

\* EveryThresholdHasActions and ThresholdCountIsFixed, for every two arrays the
\* constructor may be given.
THEOREM RegisterMonitorTheorem ==
  MonitorSpec => []EveryThresholdHasActions /\ ThresholdCountIsFixed
  <1>1. MonitorSpec => [](MonitorTypes /\ EveryThresholdHasActions)
    BY MonitorInitially, MonitorStep, PTL DEF MonitorSpec
  <1>2. MonitorTypes /\ EveryThresholdHasActions /\ [MonitorNext]_monitorVars
          => [Len(thresholds') = Len(thresholds)]_monitorVars
    BY MonitorStep
  <1> QED
    BY <1>1, <1>2, PTL DEF MonitorSpec, ThresholdCountIsFixed

-----------------------------------------------------------------------------
(***************************************************************************)
(* Single action schedule                                                  *)
(***************************************************************************)

\* ExecutionTimeFitsType, for every set of times, provided that the fallback of
\* the constructor is a legal one: it is, since its hundredths are unspecified.
THEOREM ExecutionTheorem ==
  ASSUME Times \cap OddTimes = {}
  PROVE  ExecutionSpec => []ExecutionTimeFitsType
  <1>1. IsValidExecutionTime(1, FallbackTime)
    <2>1. (CHOOSE t \in Times : TRUE) \in Times
      BY ExecutionAssumption
    <2> QED
      BY <2>1 DEF IsValidExecutionTime, FallbackTime, RequiresSingleEntry, RequiresUniformTime,
                  ForbidsWildcardsInDate
  <1>2. ExecutionInit => ExecutionTimeFitsType
    BY <1>1 DEF ExecutionInit, ExecutionTimeFitsType, Types
  <1>3. ExecutionTimeFitsType /\ [ExecutionNext]_executionVars => ExecutionTimeFitsType'
    <2> SUFFICES ASSUME ExecutionTimeFitsType, [ExecutionNext]_executionVars
                 PROVE  ExecutionTimeFitsType'
      OBVIOUS
    <2>1. ASSUME NEW t \in Types, SetType(t) PROVE ExecutionTimeFitsType'
      BY <2>1 DEF SetType, ExecutionTimeFitsType
    <2>2. ASSUME NEW list \in ExecutionTimes, SetExecutionTime(list)
          PROVE  ExecutionTimeFitsType'
      BY <2>2 DEF SetExecutionTime, ExecutionTimeFitsType
    <2>3. CASE UNCHANGED executionVars
      BY <2>3 DEF executionVars, ExecutionTimeFitsType
    <2> QED
      BY <2>1, <2>2, <2>3 DEF ExecutionNext
  <1> QED
    BY <1>2, <1>3, PTL DEF ExecutionSpec

-----------------------------------------------------------------------------
(***************************************************************************)
(* Activity calendar                                                       *)
(***************************************************************************)

\* The code compares neighbours only; that orders any two seasons.
LEMMA NeighboursOrderAll ==
  ASSUME NEW list, NEW n \in Nat, list \in [1..n -> SeasonProfile], IsValidSeasonProfile(list),
         NEW i \in 1..n, NEW j \in 1..n, i < j
  PROVE  list[i].start < list[j].start
  <1> USE CalendarAssumption
  <1> DEFINE start(k) == list[k].start
             T == {d \in Nat : \E k \in 1..n : d > 0 /\ k + d \in 1..n /\ ~(start(k) < start(k + d))}
  <1>1. \A k \in 1..n : start(k) \in Nat
    BY DEF SeasonProfile
  <1>2. \A k \in 1..n : k > 1 => start(k - 1) < start(k)
    BY DEF IsValidSeasonProfile
  <1> HIDE DEF start
  <1>3. T = {}
    <2> SUFFICES ASSUME T # {} PROVE FALSE
      OBVIOUS
    <2>1. PICK d \in T : \A e \in T : d <= e
      BY LeastNumber
    <2>2. PICK k \in 1..n : d \in Nat /\ d > 0 /\ k + d \in 1..n /\ ~(start(k) < start(k + d))
      BY <2>1
    <2>3. start(k + d - 1) < start(k + d)
      BY <1>2, <2>2
    <2>4. CASE d = 1
      BY <2>2, <2>3, <2>4
    <2>5. CASE d > 1
      <3>1. d - 1 \in Nat /\ d - 1 > 0 /\ k + (d - 1) \in 1..n
        BY <2>2, <2>5
      <3>2. start(k) < start(k + (d - 1))
        <4>1. d - 1 \notin T
          <5>1. ~(d <= d - 1)
            BY <2>2
          <5> HIDE DEF T
          <5> QED
            BY <2>1, <5>1
        <4> QED
          BY <3>1, <4>1
      <3>3. start(k) \in Nat /\ start(k + d - 1) \in Nat /\ start(k + d) \in Nat /\ k + (d - 1) = k + d - 1
        BY <1>1, <2>2, <3>1
      <3> QED
        BY <2>2, <2>3, <3>2, <3>3
    <2> QED
      BY <2>2, <2>4, <2>5
  <1>4. j - i \in Nat /\ j - i > 0 /\ i + (j - i) = j
    OBVIOUS
  <1>5. start(i) < start(j)
    BY <1>3, <1>4
  <1> QED
    BY <1>5 DEF start

\* Each table is legal by itself and against the table it names.
CalendarLegal ==
  /\ \E n \in Nat : seasonProfile \in [1..n -> SeasonProfile]
  /\ IsValidSeasonProfile(seasonProfile)
  /\ IsValidWeekProfileTable(weekProfileTable)
  /\ IsValidDayProfileTable(dayProfileTable)
  /\ WeekProfileTableSatisfies(weekProfileTable, dayProfileTable)
  /\ SeasonProfileSatisfies(seasonProfile, weekProfileTable)

\* In a calendar of legal tables a season leads to one valid day for every weekday.
LEMMA LegalResolves == CalendarLegal => CalendarResolves
  <1> SUFFICES ASSUME CalendarLegal PROVE CalendarResolves
    OBVIOUS
  <1>1. PICK n \in Nat : seasonProfile \in [1..n -> SeasonProfile]
    BY DEF CalendarLegal
  <1>2. ASSUME NEW i \in DOMAIN seasonProfile
        PROVE  \E j \in DOMAIN weekProfileTable :
                 /\ weekProfileTable[j].name = seasonProfile[i].weekName
                 /\ \A k \in DOMAIN weekProfileTable :
                      weekProfileTable[k].name = seasonProfile[i].weekName => k = j
                 /\ \A id \in weekProfileTable[j].dayIds :
                      \E d \in DOMAIN dayProfileTable :
                        /\ dayProfileTable[d].dayId = id /\ dayProfileTable[d].valid
                        /\ \A e \in DOMAIN dayProfileTable : dayProfileTable[e].dayId = id => e = d
    <2>1. PICK j \in DOMAIN weekProfileTable : weekProfileTable[j].name = seasonProfile[i].weekName
      BY <1>2 DEF CalendarLegal, SeasonProfileSatisfies
    <2>2. \A k \in DOMAIN weekProfileTable :
            weekProfileTable[k].name = seasonProfile[i].weekName => k = j
      BY <2>1 DEF CalendarLegal, IsValidWeekProfileTable
    <2>3. ASSUME NEW id \in weekProfileTable[j].dayIds
          PROVE  \E d \in DOMAIN dayProfileTable :
                   /\ dayProfileTable[d].dayId = id /\ dayProfileTable[d].valid
                   /\ \A e \in DOMAIN dayProfileTable : dayProfileTable[e].dayId = id => e = d
      <3>1. PICK d \in DOMAIN dayProfileTable : dayProfileTable[d].dayId = id
        BY <2>1, <2>3 DEF CalendarLegal, WeekProfileTableSatisfies
      <3> QED
        BY <3>1 DEF CalendarLegal, IsValidDayProfileTable
    <2> QED
      BY <2>1, <2>2, <2>3
  <1>3. ASSUME NEW i \in DOMAIN seasonProfile, NEW j \in DOMAIN seasonProfile, i # j
        PROVE  seasonProfile[i].start # seasonProfile[j].start
    <2>1. i \in 1..n /\ j \in 1..n
      BY <1>1
    <2>2. /\ i < j => seasonProfile[i].start < seasonProfile[j].start
          /\ j < i => seasonProfile[j].start < seasonProfile[i].start
      BY <1>1, <2>1, NeighboursOrderAll DEF CalendarLegal
    <2>3. seasonProfile[i].start \in Nat /\ seasonProfile[j].start \in Nat
      BY <1>1, <2>1, CalendarAssumption DEF SeasonProfile
    <2> QED
      BY <1>3, <2>1, <2>2, <2>3
  <1> QED
    BY <1>2, <1>3 DEF CalendarResolves

\* CalendarResolves, for every set of names, dates and days and for tables of
\* every length, in whatever order the tables are written.
THEOREM CalendarTheorem == CalendarSpec => []CalendarResolves
  <1> USE CalendarAssumption
  <1>1. \A list \in Rows(SeasonProfile) : \E n \in Nat : list \in [1..n -> SeasonProfile]
    BY DEF Rows
  <1>2. CalendarInit => CalendarLegal
    <2> SUFFICES ASSUME CalendarInit PROVE CalendarLegal
      OBVIOUS
    <2>1. /\ IsValidSeasonProfile(<<>>) /\ IsValidWeekProfileTable(<<>>) /\ IsValidDayProfileTable(<<>>)
          /\ \A table : WeekProfileTableSatisfies(<<>>, table) /\ SeasonProfileSatisfies(<<>>, table)
          /\ <<>> \in [1..0 -> SeasonProfile]
      BY DEF IsValidSeasonProfile, IsValidWeekProfileTable, IsValidDayProfileTable,
             WeekProfileTableSatisfies, SeasonProfileSatisfies
    <2>2. PICK seasons \in Rows(SeasonProfile), weeks \in Rows(WeekProfile), dayTable \in Rows(DayProfile) :
            /\ dayProfileTable = IF IsValidDayProfileTable(dayTable) THEN dayTable ELSE <<>>
            /\ weekProfileTable =
                 IF IsValidWeekProfileTable(weeks) /\ WeekProfileTableSatisfies(weeks, dayProfileTable)
                 THEN weeks ELSE <<>>
            /\ seasonProfile =
                 IF IsValidSeasonProfile(seasons) /\ SeasonProfileSatisfies(seasons, weekProfileTable)
                 THEN seasons ELSE <<>>
      BY DEF CalendarInit
    <2> QED
      BY <1>1, <2>1, <2>2 DEF CalendarLegal
  <1>3. CalendarLegal /\ [CalendarNext]_calendarVars => CalendarLegal'
    <2> SUFFICES ASSUME CalendarLegal, [CalendarNext]_calendarVars PROVE CalendarLegal'
      OBVIOUS
    <2>1. ASSUME NEW list \in Rows(SeasonProfile), SetSeasonProfilePassive(list)
          PROVE  CalendarLegal'
      BY <1>1, <2>1 DEF SetSeasonProfilePassive, CalendarLegal
    <2>2. ASSUME NEW list \in Rows(WeekProfile), SetWeekProfileTablePassive(list)
          PROVE  CalendarLegal'
      BY <2>2 DEF SetWeekProfileTablePassive, CalendarLegal
    <2>3. ASSUME NEW list \in Rows(DayProfile), SetDayProfileTablePassive(list)
          PROVE  CalendarLegal'
      BY <2>3 DEF SetDayProfileTablePassive, CalendarLegal
    <2>4. CASE UNCHANGED calendarVars
      BY <2>4 DEF calendarVars, CalendarLegal
    <2> QED
      BY <2>1, <2>2, <2>3, <2>4 DEF CalendarNext
  <1> QED
    BY <1>2, <1>3, LegalResolves, PTL DEF CalendarSpec
-----------------------------------------------------------------------------
(***************************************************************************)
(* Security setup                                                          *)
(***************************************************************************)
USE DEF Counters

\* A list of keys that unwraps leaves a key, or none, in every role.
LEMMA InstalledType ==
  ASSUME NEW n \in Nat, NEW list \in [1..n -> TransferEntries],
         Unwraps(list), keys \in [KeyRoles -> Keys \cup {NoKey}]
  PROVE  Installed(list) \in [KeyRoles -> Keys \cup {NoKey}]
  <1> SUFFICES ASSUME NEW r \in KeyRoles
               PROVE  Installed(list)[r] \in Keys \cup {NoKey}
    BY DEF Installed
  <1> DEFINE mine == {i \in DOMAIN list : RoleOf[list[i].id] = r}
             latest == CHOOSE i \in mine : \A j \in mine : j <= i
  <1>1. Installed(list)[r] = IF mine = {} THEN keys[r] ELSE list[latest].key
    BY DEF Installed
  <1>2. CASE mine = {}
    BY <1>1, <1>2
  <1>3. CASE mine # {}
    <2>1. \E i \in mine : \A j \in mine : j <= i
      BY <1>3, GreatestNumber
    <2>2. latest \in 1..n
      BY <2>1
    <2>3. list[latest].key \in Keys
      BY <2>2 DEF TransferEntries
    <2> QED
      BY <1>1, <1>3, <2>3
  <1> QED
    BY <1>2, <1>3

\* An empty list installs nothing.
LEMMA InstalledNothing ==
  ASSUME keys \in [KeyRoles -> Keys \cup {NoKey}]
  PROVE  Installed(<<>>) = keys
  BY DEF Installed

\* The data of global_key_transfer are a list of keys.
LEMMA TransferIsList == ASSUME NEW list \in Transfers
                        PROVE  \E n \in Nat : list \in [1..n -> TransferEntries]
  BY SecuritySetupAssumption DEF Transfers

\* The constructor establishes the types.
LEMMA SecurityInitType == SecurityInit => SecurityTypeOK
  BY SecuritySetupAssumption, MaxCounterAssumption
  DEF SecurityInit, SecurityTypeOK, Store, NewStore

\* No call of the Security Setup object breaks the types.
LEMMA SecurityStepType == SecurityTypeOK /\ [SecurityNext]_securityVars => SecurityTypeOK'
  <1> USE SecuritySetupAssumption, MaxCounterAssumption
  <1> SUFFICES ASSUME SecurityTypeOK, [SecurityNext]_securityVars PROVE SecurityTypeOK'
    OBVIOUS
  <1>1. ASSUME NEW requested \in SUBSET PolicyBits, SecurityActivate(requested)
        PROVE  SecurityTypeOK'
    BY <1>1 DEF SecurityActivate, SecurityTypeOK
  <1>2. ASSUME NEW list \in Transfers, GlobalKeyTransfer(list) PROVE SecurityTypeOK'
    <2>1. keys' \in [KeyRoles -> Keys \cup {NoKey}]
      BY <1>2, TransferIsList, InstalledType DEF GlobalKeyTransfer, SecurityTypeOK
    <2>2. store' \in Store
      BY <1>2 DEF GlobalKeyTransfer, SecurityTypeOK, ResetAfterKeyRotation, NewStore, Store
    <2> QED
      BY <1>2, <2>1, <2>2 DEF GlobalKeyTransfer, SecurityTypeOK
  <1>3. CASE Protect
    <2>1. Encryption \in Keys
      BY <1>3 DEF Protect, SecurityTypeOK, Encryption, KeyRoles
    <2>2. store' \in Store
      BY <1>3 DEF Protect, SecurityTypeOK, IsExhausted, TakeLocal, Store
    <2>3. sealed' \subseteq Keys \X Counters
      BY <1>3, <2>1 DEF Protect, SecurityTypeOK, Store
    <2> QED
      BY <1>3, <2>2, <2>3 DEF Protect, SecurityTypeOK
  <1>4. ASSUME NEW counter \in Counters, Unprotect(counter) PROVE SecurityTypeOK'
    <2>1. Encryption \in Keys
      BY <1>4 DEF Unprotect, SecurityTypeOK, Encryption, KeyRoles
    <2>2. store' \in Store
      BY <1>4 DEF Unprotect, SecurityTypeOK, StoreRemote, Store
    <2>3. opened' \subseteq Keys \X Counters
      BY <1>4, <2>1 DEF Unprotect, SecurityTypeOK
    <2> QED
      BY <1>4, <2>2, <2>3 DEF Unprotect, SecurityTypeOK
  <1>5. CASE UNCHANGED securityVars
    BY <1>5 DEF securityVars, SecurityTypeOK
  <1> QED
    BY <1>1, <1>2, <1>3, <1>4, <1>5 DEF SecurityNext

\* SecurityTypeOK: the counters stay within their width, also at its end, and
\* every role holds a key or none.
THEOREM SecurityTypeTheorem == SecuritySpec => []SecurityTypeOK
  BY SecurityInitType, SecurityStepType, PTL DEF SecuritySpec

\* PolicyNeverWeakens, for every set of policy bits.
THEOREM PolicyTheorem == SecuritySpec => PolicyNeverWeakens
  <1>1. [SecurityNext]_securityVars => [securityPolicy \subseteq securityPolicy']_securityVars
    BY DEF SecurityNext, SecurityActivate, StrengthensOrKeepsPolicy, GlobalKeyTransfer, Protect,
           Unprotect, securityVars
  <1> QED
    BY <1>1, PTL DEF SecuritySpec, PolicyNeverWeakens

\* The inductive strengthening: the counters that were used under the present key
\* lie behind those the store has reached.
CountersBehind ==
  \A counter \in Counters :
    /\ <<Encryption, counter>> \in sealed => counter < store.nextLocal
    /\ <<Encryption, counter>> \in opened => counter <= store.highestRemote

\* With a new encryption key in every transfer the counters may start over: what
\* is behind them belongs to other keys.
LEMMA CountersBehindStep ==
  ASSUME FreshKeys
  PROVE  SecurityTypeOK /\ CountersBehind /\ [SecurityNext]_securityVars => CountersBehind'
  <1> USE SecuritySetupAssumption, MaxCounterAssumption
  <1> SUFFICES ASSUME SecurityTypeOK, CountersBehind, [SecurityNext]_securityVars
               PROVE  CountersBehind'
    OBVIOUS
  <1>1. ASSUME NEW requested \in SUBSET PolicyBits, SecurityActivate(requested)
        PROVE  CountersBehind'
    BY <1>1 DEF SecurityActivate, CountersBehind, Encryption
  <1>2. ASSUME NEW list \in Transfers, GlobalKeyTransfer(list) PROVE CountersBehind'
    <2>1. CASE list = <<>>
      <3>1. keys' = keys /\ store' = store /\ sealed' = sealed /\ opened' = opened
        BY <1>2, <2>1, InstalledNothing DEF GlobalKeyTransfer, SecurityTypeOK
      <3> QED
        BY <3>1 DEF CountersBehind, Encryption
    <2>2. CASE list # <<>>
      <3>1. Installed(list)["unicast"] \notin Used
        BY <1>2, <2>2 DEF Transfers, GlobalKeyTransfer
      <3>2. Encryption' = Installed(list)["unicast"] /\ sealed' = sealed /\ opened' = opened
        BY <1>2 DEF GlobalKeyTransfer, Encryption
      <3>3. \A p \in sealed \cup opened : p[1] # Encryption'
        BY <3>1, <3>2 DEF Used
      <3> QED
        BY <3>2, <3>3 DEF CountersBehind
    <2> QED
      BY <2>1, <2>2
  <1>3. CASE Protect
    <2>1. Encryption' = Encryption /\ opened' = opened
      BY <1>3 DEF Protect, Encryption
    <2>2. /\ store.nextLocal \in Nat
          /\ store'.nextLocal = store.nextLocal + 1 /\ store'.highestRemote = store.highestRemote
      BY <1>3 DEF Protect, TakeLocal, SecurityTypeOK, Store
    <2>3. sealed' = sealed \cup {<<Encryption, store.nextLocal>>}
      BY <1>3 DEF Protect
    <2> QED
      BY <2>1, <2>2, <2>3 DEF CountersBehind
  <1>4. ASSUME NEW counter \in Counters, Unprotect(counter) PROVE CountersBehind'
    <2>1. Encryption' = Encryption /\ sealed' = sealed
      BY <1>4 DEF Unprotect, Encryption
    <2>2. /\ store.highestRemote \in Nat /\ counter > store.highestRemote
          /\ store'.nextLocal = store.nextLocal /\ store'.highestRemote = counter
      BY <1>4 DEF Unprotect, AcceptsRemote, StoreRemote, SecurityTypeOK, Store
    <2>3. opened' = opened \cup {<<Encryption, counter>>}
      BY <1>4 DEF Unprotect
    <2> QED
      BY <2>1, <2>2, <2>3 DEF CountersBehind
  <1>5. CASE UNCHANGED securityVars
    BY <1>5 DEF securityVars, CountersBehind, Encryption
  <1> QED
    BY <1>1, <1>2, <1>3, <1>4, <1>5 DEF SecurityNext

\* NonceIsFresh and NoReplayAccepted, for every number of rotations, provided that
\* whoever transfers keys brings a new encryption key each time.  The object does
\* not see to that, and without it the first of the two is lost.
THEOREM NonceTheorem ==
  ASSUME FreshKeys
  PROVE  SecuritySpec => [](NonceIsFresh /\ NoReplayAccepted)
  <1>1. SecurityInit => CountersBehind
    BY DEF SecurityInit, CountersBehind
  <1>2. SecurityTypeOK /\ CountersBehind => NonceIsFresh /\ NoReplayAccepted
    <2> SUFFICES ASSUME SecurityTypeOK, CountersBehind PROVE NonceIsFresh /\ NoReplayAccepted
      OBVIOUS
    <2>1. store.nextLocal \in Counters /\ store.highestRemote \in Counters
      BY DEF SecurityTypeOK, Store
    <2>2. NonceIsFresh
      BY <2>1, MaxCounterAssumption DEF CountersBehind, NonceIsFresh
    <2>3. NoReplayAccepted
      BY <2>1, MaxCounterAssumption DEF CountersBehind, NoReplayAccepted, AcceptsRemote
    <2> QED
      BY <2>2, <2>3
  <1> QED
    BY <1>1, <1>2, CountersBehindStep, SecurityTypeTheorem, PTL DEF SecuritySpec

\* What was accepted once is refused ever after, across rotations too.
COROLLARY ReplayTheorem ==
  ASSUME FreshKeys
  PROVE  SecuritySpec => []NoReplayAccepted
  BY NonceTheorem, PTL

-----------------------------------------------------------------------------
(***************************************************************************)
(* Certificate store                                                       *)
(***************************************************************************)

\* The store is an array of entries.
CertificatesType == \E n \in Nat : certificates \in [1..n -> CertificateInfoEntry]

\* The loop over the store stops at an entry of those it looks for.
LEMMA FirstIsOne ==
  ASSUME CertificatesType, NEW indices, indices \subseteq DOMAIN certificates, indices # {}
  PROVE  First(indices) \in indices
  <1>1. indices \subseteq Nat
    BY DEF CertificatesType
  <1>2. \E i \in indices : \A j \in indices : i <= j
    BY <1>1, LeastNumber
  <1> QED
    BY <1>2 DEF First

\* Erasing an entry keeps the others, and with them the owners apart.
LEMMA WithoutKeeps ==
  ASSUME CertificatesType, OneCertificatePerOwner, NEW i \in DOMAIN certificates,
         certificates' = Without(i)
  PROVE  CertificatesType' /\ OneCertificatePerOwner'
  <1>1. PICK n \in Nat : certificates \in [1..n -> CertificateInfoEntry]
    BY DEF CertificatesType
  <1>2. Len(certificates) = n /\ i \in 1..n /\ n - 1 \in Nat
    BY <1>1
  <1> DEFINE kept(j) == IF j < i THEN j ELSE j + 1
  <1>3. \A j \in 1..(n - 1) : kept(j) \in 1..n
    BY <1>2
  <1>4. \A j, k \in 1..(n - 1) : kept(j) = kept(k) => j = k
    BY <1>2
  <1>5. certificates' = [j \in 1..(n - 1) |-> certificates[kept(j)]]
    BY <1>2 DEF Without
  <1> HIDE DEF kept
  <1>6. certificates' \in [1..(n - 1) -> CertificateInfoEntry]
    BY <1>1, <1>3, <1>5
  <1>7. OneCertificatePerOwner'
    BY <1>1, <1>3, <1>4, <1>5 DEF OneCertificatePerOwner
  <1> QED
    BY <1>2, <1>6, <1>7 DEF CertificatesType

\* An import keeps owners apart, and a client's displaces at most an entry that
\* belongs to nobody.
LEMMA ImportKeeps ==
  ASSUME CertificatesType, OneCertificatePerOwner,
         NEW entry \in CertificateInfoEntry, Import(entry)
  PROVE  /\ CertificatesType' /\ OneCertificatePerOwner'
         /\ \A i \in DOMAIN certificates :
              certificates[i].owner # entry.owner => certificates'[i] = certificates[i]
  <1>1. PICK n \in Nat : certificates \in [1..n -> CertificateInfoEntry]
    BY DEF CertificatesType
  <1>2. CASE OfOwner(entry.owner) # {}
    <2> DEFINE f == First(OfOwner(entry.owner))
    <2>1. f \in 1..n /\ certificates[f].owner = entry.owner
      <3>1. OfOwner(entry.owner) \subseteq DOMAIN certificates
        BY DEF OfOwner
      <3>2. f \in OfOwner(entry.owner)
        BY <1>2, <3>1, FirstIsOne
      <3> QED
        BY <1>1, <3>2 DEF OfOwner
    <2>2. certificates' = [certificates EXCEPT ![f] = entry]
      BY <1>2 DEF Import
    <2> HIDE DEF f
    <2>3. certificates' \in [1..n -> CertificateInfoEntry]
      BY <1>1, <2>1, <2>2
    <2>4. OneCertificatePerOwner'
      BY <1>1, <2>1, <2>2, <2>3 DEF OneCertificatePerOwner
    <2> QED
      BY <1>1, <2>1, <2>2, <2>3, <2>4 DEF CertificatesType
  <1>3. CASE OfOwner(entry.owner) = {}
    <2>1. certificates' = Append(certificates, entry) /\ certificates \in Seq(CertificateInfoEntry)
      BY <1>1, <1>3 DEF Import
    <2>2. /\ certificates' \in [1..(n + 1) -> CertificateInfoEntry]
          /\ \A i \in 1..n : certificates'[i] = certificates[i]
          /\ certificates'[n + 1] = entry
      <3>1. Len(certificates) = n
        BY <1>1
      <3>2. /\ certificates' \in Seq(CertificateInfoEntry) /\ Len(certificates') = n + 1
            /\ \A i \in 1..n : certificates'[i] = certificates[i]
            /\ certificates'[n + 1] = entry
        BY <2>1, <3>1
      <3>3. certificates' \in [1..Len(certificates') -> CertificateInfoEntry]
        BY <3>2
      <3> QED
        BY <3>2, <3>3
    <2>3. OneCertificatePerOwner'
      BY <1>1, <1>3, <2>2 DEF OneCertificatePerOwner, OfOwner
    <2> QED
      BY <1>1, <2>2, <2>3 DEF CertificatesType
  <1> QED
    BY <1>2, <1>3

\* OneCertificatePerOwner and ClientImportsAreApart, for stores of every size.
THEOREM CertificateTheorem ==
  CertificateSpec => []OneCertificatePerOwner /\ ClientImportsAreApart
  <1> USE CertificateAssumption
  <1> DEFINE Inv == CertificatesType /\ OneCertificatePerOwner
             Apart == imported' =>
                        \A i \in DOMAIN certificates :
                          certificates[i].owner # Nobody => certificates'[i] = certificates[i]
  <1>1. CertificateInit => Inv
    <2> SUFFICES ASSUME CertificateInit PROVE Inv
      OBVIOUS
    <2>1. certificates \in [1..0 -> CertificateInfoEntry]
      BY DEF CertificateInit
    <2> QED
      BY <2>1 DEF CertificatesType, OneCertificatePerOwner
  <1>2. Inv /\ [CertificateNext]_certificateVars => Inv' /\ [Apart]_certificateVars
    <2> SUFFICES ASSUME Inv, [CertificateNext]_certificateVars
                 PROVE  Inv' /\ [Apart]_certificateVars
      OBVIOUS
    <2>1. ASSUME NEW raw \in Certificates, ImportByClient(raw) PROVE Inv' /\ Apart
      <3> DEFINE entry == [owner |-> Nobody, serial |-> NoSerial, raw |-> raw]
      <3>1. entry \in CertificateInfoEntry /\ entry.owner = Nobody
        BY DEF CertificateInfoEntry
      <3>2. Import(entry)
        BY <2>1 DEF ImportByClient
      <3> HIDE DEF entry
      <3> QED
        BY <3>1, <3>2, ImportKeeps
    <2>2. ASSUME NEW entry \in CertificateInfoEntry, ImportByApplication(entry)
          PROVE  Inv' /\ Apart
      BY <2>2, ImportKeeps DEF ImportByApplication
    <2>3. ASSUME NEW owner \in Owners \cup {Nobody}, RemoveByEntity(owner)
          PROVE  Inv' /\ Apart
      <3>1. First(OfOwner(owner)) \in DOMAIN certificates
        BY <2>3, FirstIsOne DEF RemoveByEntity, OfOwner
      <3> QED
        BY <2>3, <3>1, WithoutKeeps DEF RemoveByEntity
    <2>4. ASSUME NEW serial \in Serials \cup {NoSerial}, RemoveBySerial(serial)
          PROVE  Inv' /\ Apart
      <3>1. First(OfSerial(serial)) \in DOMAIN certificates
        BY <2>4, FirstIsOne DEF RemoveBySerial, OfSerial
      <3> QED
        BY <2>4, <3>1, WithoutKeeps DEF RemoveBySerial
    <2>5. CASE UNCHANGED certificateVars
      BY <2>5 DEF certificateVars, CertificatesType, OneCertificatePerOwner
    <2> QED
      BY <2>1, <2>2, <2>3, <2>4, <2>5 DEF CertificateNext
  <1> HIDE DEF Inv, Apart
  <1>3. Inv => OneCertificatePerOwner
    BY DEF Inv
  <1> QED
    BY <1>1, <1>2, <1>3, PTL DEF CertificateSpec, ClientImportsAreApart, Apart

\* A client's import leaves the certificates of identified owners where they are.
COROLLARY ClientImportTheorem == CertificateSpec => ClientImportsAreApart
  BY CertificateTheorem
-----------------------------------------------------------------------------
(***************************************************************************)
(* An object of any class, behind the adapter                              *)
(***************************************************************************)
USE DEF Valid, Payloads, Values, Raw, NonEmpty, Typed, Ranged, Denied, None

\* A check accepts payloads only, and the value in the place of a refused argument
\* is a value.
LEMMA AcceptsPayloads ==
  /\ \A check \in Checks : Accepts[check] \subseteq Payloads
  /\ \A check : Fallback(check) \in Values
  BY DEF Accepts, Checks, Fallback

\* Every answer has a status and a response that the adapter knows.
LEMMA AnswerType ==
  ASSUME NEW service \in {"Get", "Set", "Action"}, NEW path \in Paths, NEW status \in Statuses
  PROVE  Answer(service, path, status)
           \in [service : {"None", "Get", "Set", "Action"}, path : Paths,
                status : Statuses, response : Responses]
  <1>1. ResultCode(status) \in Responses
    BY DEF ResultCode, Responses
  <1>2. Respond(service, status) \in Responses
    BY <1>1 DEF Respond, Responses
  <1> QED
    BY <1>2 DEF Answer

\* Success is said of nothing but Ok.
LEMMA SuccessIsOk ==
  ASSUME NEW service, NEW status \in Statuses
  PROVE  Respond(service, status) = "Success" <=> status = "Ok"
  BY DEF Respond, ResultCode, Statuses, IsDataAccessResultStatus, IsActionResultStatus

\* A refusal of the registry is a status of the library.
LEMMA RefusalType ==
  ASSUME NEW path, NEW allowed \in BOOLEAN
  PROVE  Refusal(path, allowed) \in Statuses
  BY DEF Refusal, Statuses

\* A read ends with a status of the library.
LEMMA ReadStatus == ASSUME NEW id PROVE ReadAttribute(id) \in Statuses
  BY DEF ReadAttribute, Statuses

\* A write ends with a status of the library.
LEMMA WriteStatus == ASSUME NEW id, NEW payload PROVE WriteAttribute(id, payload) \in Statuses
  BY DEF WriteAttribute, Statuses

\* The tables answer with known statuses, whatever the class.
LEMMA InvokeStatus ==
  ASSUME ObjectTypeOK, NEW id, NEW payload
  PROVE  InvokeMethod(id, payload) \subseteq Statuses
  <1>1. id \in DOMAIN Own.methods
          => Own.methods[id].earlier \in {"MethodNotFound", "UnsupportedFeature"}
    BY ClassesAssumption DEF ObjectTypeOK, Own
  <1> QED
    BY <1>1 DEF InvokeMethod, Statuses

\* A method leaves a value behind.
LEMMA InvokedType == ASSUME value \in Values, NEW id PROVE Invoked(id) \subseteq Values
  BY DEF Invoked

-----------------------------------------------------------------------------
\* What a request does: it answers, and it changes the attribute only if the
\* status is Ok.
Carried(service) ==
  \E path \in Paths, status \in Statuses :
    /\ last' = Answer(service, path, status)
    /\ status # "Ok" => value' = value

\* HandleGet answers and changes nothing.
LEMMA GetStep ==
  ASSUME NEW path \in Paths, NEW id, HandleGet(path, id)
  PROVE  Carried("Get") /\ value' = value /\ UNCHANGED <<object, attribute, context>>
  <1> DEFINE refusal == Refusal(path, IsReadAllowed(AttributeAccess(id), context.authenticated))
             status == IF refusal = "Ok" THEN ReadAttribute(id) ELSE refusal
  <1>1. last' = Answer("Get", path, status) /\ UNCHANGED <<object, attribute, value, context>>
    BY DEF HandleGet
  <1>2. refusal \in Statuses
    BY RefusalType DEF IsReadAllowed
  <1>3. status \in Statuses
    BY <1>2, ReadStatus
  <1> HIDE DEF status
  <1> QED
    BY <1>1, <1>3 DEF Carried

\* HandleSet answers, and changes the attribute only if the status is Ok.
LEMMA SetStep ==
  ASSUME ObjectTypeOK, NEW path \in Paths, NEW id, NEW payload \in Payloads,
         HandleSet(path, id, payload)
  PROVE  /\ Carried("Set") /\ value' \in Values /\ UNCHANGED <<object, attribute, context>>
         /\ value' # value =>
              /\ last'.path = "adapter" => context.associated
              /\ attribute.access \in {"WriteOnly", "ReadAndWrite"} \/ context.authenticated
  <1> DEFINE allowed == IsWriteAllowed(AttributeAccess(id), context.authenticated)
             refusal == Refusal(path, allowed)
             status == IF refusal = "Ok" THEN WriteAttribute(id, payload) ELSE refusal
  <1>1. /\ last' = Answer("Set", path, status)
        /\ value' = IF status = "Ok" /\ id = attribute.id THEN payload ELSE value
        /\ UNCHANGED <<object, attribute, context>>
    BY DEF HandleSet
  <1>2. refusal \in Statuses
    BY RefusalType DEF IsWriteAllowed
  <1>3. status \in Statuses
    BY <1>2, WriteStatus
  <1>4. last'.path = path
    BY <1>1 DEF Answer
  <1>5. refusal = "Ok" => (path = "adapter" => context.associated) /\ allowed
    BY DEF Refusal
  <1>6. allowed /\ id = attribute.id
          => attribute.access \in {"WriteOnly", "ReadAndWrite"} \/ context.authenticated
    BY DEF IsWriteAllowed, AttributeAccess
  <1>7. status = "Ok" => refusal = "Ok"
    OBVIOUS
  <1>8. value \in Values
    BY DEF ObjectTypeOK
  <1> HIDE DEF status, refusal, allowed
  <1>9. Carried("Set")
    BY <1>1, <1>3 DEF Carried
  <1> QED
    BY <1>1, <1>4, <1>5, <1>6, <1>7, <1>8, <1>9

\* HandleAction answers, and changes the attribute only if the status is Ok.
LEMMA ActionStep ==
  ASSUME ObjectTypeOK, NEW path \in Paths, NEW id, NEW payload \in Payloads,
         HandleAction(path, id, payload)
  PROVE  Carried("Action") /\ value' \in Values /\ UNCHANGED <<object, attribute, context>>
  <1> DEFINE refusal == Refusal(path, CanInvokeMethod(id))
  <1>1. PICK status \in IF refusal = "Ok" THEN InvokeMethod(id, payload) ELSE {refusal} :
          /\ last' = Answer("Action", path, status)
          /\ value' \in IF status = "Ok" THEN Invoked(id) ELSE {value}
    BY DEF HandleAction
  <1>2. refusal \in Statuses
    BY DEF Refusal, Statuses
  <1>3. status \in Statuses
    BY <1>1, <1>2, InvokeStatus
  <1>4. value \in Values /\ Invoked(id) \subseteq Values
    BY InvokedType DEF ObjectTypeOK
  <1>5. UNCHANGED <<object, attribute, context>>
    BY DEF HandleAction
  <1> HIDE DEF refusal
  <1> QED
    BY <1>1, <1>3, <1>4, <1>5 DEF Carried

-----------------------------------------------------------------------------
\* A constructed object has the types.
LEMMA ObjectInitType == ObjectInit => ObjectTypeOK
  <1> SUFFICES ASSUME ObjectInit PROVE ObjectTypeOK
    OBVIOUS
  <1>1. PICK name \in DOMAIN Classes : \E version \in 0..(Classes[name].maxVersion + 1) :
          object = [class |-> name, version |-> NormalizeVersion(version, Classes[name].maxVersion)]
    BY DEF ObjectInit
  <1>2. object.class \in DOMAIN Classes /\ object.version \in 0..Own.maxVersion
    BY <1>1, ClassesAssumption DEF NormalizeVersion, Own
  <1>3. attribute.id \in DOMAIN Own.new /\ attribute.access \in AccessModes
    BY DEF ObjectInit
  <1>4. value \in Values
    <2>1. PICK argument \in Arguments(Own.new[attribute.id].check) :
            value = Constructed(Own.new[attribute.id].check, argument)
      BY DEF ObjectInit
    <2>2. argument \in Values
      BY DEF Arguments
    <2> QED
      BY <2>1, <2>2, AcceptsPayloads DEF Constructed
  <1>5. /\ context \in [associated : BOOLEAN, authenticated : BOOLEAN]
        /\ last \in [service : {"None", "Get", "Set", "Action"}, path : Paths,
                     status : Statuses, response : Responses]
    BY DEF ObjectInit, NoAssociation, Quiet, Paths, Statuses, Responses
  <1> QED
    BY <1>2, <1>3, <1>4, <1>5 DEF ObjectTypeOK

\* No request breaks the types of the object.
LEMMA ObjectStepType == ObjectTypeOK /\ [ObjectNext]_objectVars => ObjectTypeOK'
  <1> SUFFICES ASSUME ObjectTypeOK, [ObjectNext]_objectVars PROVE ObjectTypeOK'
    OBVIOUS
  <1> DEFINE LastType == [service : {"None", "Get", "Set", "Action"}, path : Paths,
                          status : Statuses, response : Responses]
  <1>1. Quiet \in LastType
    BY DEF Quiet, Paths, Statuses, Responses
  <1>2. \A service \in {"Get", "Set", "Action"} : Carried(service) => last' \in LastType
    BY AnswerType DEF Carried
  <1> HIDE DEF LastType
  <1>3. ASSUME UNCHANGED <<object, attribute>>, value' \in Values, last' \in LastType,
               context' \in [associated : BOOLEAN, authenticated : BOOLEAN]
        PROVE  ObjectTypeOK'
    BY <1>3 DEF ObjectTypeOK, Own, LastType
  <1>4. /\ value \in Values /\ last \in LastType
        /\ context \in [associated : BOOLEAN, authenticated : BOOLEAN]
    BY DEF ObjectTypeOK, LastType
  <1>5. ASSUME NEW path \in Paths, NEW id \in AttributeIds, HandleGet(path, id)
        PROVE  ObjectTypeOK'
    BY <1>2, <1>3, <1>4, <1>5, GetStep
  <1>6. ASSUME NEW path \in Paths, NEW id \in AttributeIds, NEW payload \in Payloads,
               HandleSet(path, id, payload)
        PROVE  ObjectTypeOK'
    BY <1>2, <1>3, <1>4, <1>6, SetStep
  <1>7. ASSUME NEW path \in Paths, NEW id \in MethodIds, NEW payload \in Payloads,
               HandleAction(path, id, payload)
        PROVE  ObjectTypeOK'
    BY <1>2, <1>3, <1>4, <1>7, ActionStep
  <1>8. ASSUME NEW payload \in Payloads, SetByApplication(payload) PROVE ObjectTypeOK'
    BY <1>1, <1>3, <1>4, <1>8 DEF SetByApplication
  <1>9. ASSUME NEW authenticated \in BOOLEAN, SetAssociationContext(authenticated)
        PROVE  ObjectTypeOK'
    BY <1>1, <1>3, <1>4, <1>9 DEF SetAssociationContext
  <1>10. CASE ClearAssociationContext
    BY <1>1, <1>3, <1>4, <1>10 DEF ClearAssociationContext, NoAssociation
  <1>11. CASE UNCHANGED objectVars
    BY <1>3, <1>4, <1>11 DEF objectVars
  <1> QED
    BY <1>5, <1>6, <1>7, <1>8, <1>9, <1>10, <1>11 DEF ObjectNext

\* ObjectTypeOK, for every table of classes.
THEOREM ObjectTypeTheorem == ObjectSpec => []ObjectTypeOK
  BY ObjectInitType, ObjectStepType, PTL DEF ObjectSpec

\* AnswersAreTrue, for every table of classes: the chain from the object through
\* the registry, the dispatcher and the adapter to the result code says success
\* exactly of what was carried out, and nothing else changes an attribute.
THEOREM AnswersTheorem == ObjectSpec => AnswersAreTrue
  <1> DEFINE True == last'.service # "None" =>
                       /\ last'.response # "Success" => value' = value
                       /\ last'.response = "Success" => last'.status = "Ok"
  <1>1. \A service \in {"Get", "Set", "Action"} : Carried(service) => True
    <2> SUFFICES ASSUME NEW service \in {"Get", "Set", "Action"}, Carried(service) PROVE True
      OBVIOUS
    <2>1. PICK path \in Paths, status \in Statuses :
            last' = Answer(service, path, status) /\ (status # "Ok" => value' = value)
      BY DEF Carried
    <2>2. last'.status = status /\ last'.response = Respond(service, status)
      BY <2>1 DEF Answer
    <2> QED
      BY <2>1, <2>2, SuccessIsOk
  <1>2. ObjectTypeOK /\ [ObjectNext]_objectVars => [True]_objectVars
    <2> SUFFICES ASSUME ObjectTypeOK, ObjectNext PROVE True
      OBVIOUS
    <2>1. ASSUME last' = Quiet PROVE True
      BY <2>1 DEF Quiet
    <2> HIDE DEF True
    <2> QED
      BY <1>1, <2>1, GetStep, SetStep, ActionStep
      DEF ObjectNext, SetByApplication, SetAssociationContext, ClearAssociationContext
  <1> QED
    BY <1>2, ObjectTypeTheorem, PTL DEF ObjectSpec, AnswersAreTrue

\* OnlyAsGranted, for every table of classes.
THEOREM GrantTheorem == ObjectSpec => OnlyAsGranted
  <1> DEFINE AsGranted == last'.service = "Set" /\ value' # value =>
                            /\ last'.path = "adapter" => context.associated
                            /\ attribute.access \in {"WriteOnly", "ReadAndWrite"}
                                 \/ context.authenticated
  <1>1. ObjectTypeOK /\ [ObjectNext]_objectVars => [AsGranted]_objectVars
    <2> SUFFICES ASSUME ObjectTypeOK, ObjectNext PROVE AsGranted
      OBVIOUS
    <2>1. ASSUME last' = Quiet PROVE AsGranted
      BY <2>1 DEF Quiet
    <2>2. ASSUME Carried("Action") PROVE AsGranted
      BY <2>2 DEF Carried, Answer
    <2>3. ASSUME NEW path \in Paths, NEW id, HandleGet(path, id) PROVE AsGranted
      BY <2>3, GetStep
    <2>4. ASSUME NEW path \in Paths, NEW id, NEW payload \in Payloads, HandleSet(path, id, payload)
          PROVE  AsGranted
      BY <2>4, SetStep
    <2> HIDE DEF AsGranted
    <2> QED
      BY <2>1, <2>2, <2>3, <2>4, ActionStep
      DEF ObjectNext, SetByApplication, SetAssociationContext, ClearAssociationContext
  <1> QED
    BY <1>1, ObjectTypeTheorem, PTL DEF ObjectSpec, OnlyAsGranted

-----------------------------------------------------------------------------
(***************************************************************************)
(* The tables of a class, held against each other                          *)
(***************************************************************************)

\* Whether a table has an id at a version.
Defines(table, id, version) == id \in DOMAIN table /\ table[id].since <= version

\* What the constructor publishes at a version is read at that version, and some
\* value is accepted for what may be writable.
RightsAgree(c) ==
  \A version \in 0..c.maxVersion, id \in DOMAIN c.new :
    /\ Defines(c.new, id, version) <=> Defines(c.reads, id, version)
    /\ Defines(c.new, id, version) /\ c.new[id].access # "ReadOnly"
         => Defines(c.writes, id, version) /\ Accepts[c.writes[id].check] \cap Valid # {}

\* If one of the three functions that store an attribute checks its validity, then
\* those that replace it in an object do.
ChecksAgree(c) ==
  \A version \in 0..c.maxVersion, id \in DOMAIN c.new :
    \/ c.new[id].check = Ranged
    \/ Defines(c.writes, id, version) /\ c.writes[id].check = Ranged
    \/ c.sets[id] = Ranged
    => /\ Defines(c.writes, id, version) => c.writes[id].check \in {Ranged, Denied, None}
       /\ c.sets[id] \in {Ranged, Denied, None}

TablesAgree(c) == RightsAgree(c) /\ ChecksAgree(c)

\* An object keeps its class and its attribute, whose access is the one that the
\* constructor grants.
AccessAsConstructed == Own.new[attribute.id].access \in {"Chosen", attribute.access}

\* No request and no setter touches the class or the access.
LEMMA AccessStays ==
  ObjectSpec => []AccessAsConstructed
  <1>1. ObjectInit => AccessAsConstructed
    BY DEF ObjectInit, AccessAsConstructed, Own
  <1>2. ObjectNext => UNCHANGED <<object, attribute>>
    BY DEF ObjectNext, HandleGet, HandleSet, HandleAction, SetByApplication,
           SetAssociationContext, ClearAssociationContext
  <1>3. AccessAsConstructed /\ [ObjectNext]_objectVars => AccessAsConstructed'
    BY <1>2 DEF AccessAsConstructed, Own, objectVars
  <1> QED
    BY <1>1, <1>3, PTL DEF ObjectSpec

\* RightsAreServed, for every set of classes whose tables agree: it takes the
\* tables and the access the object was constructed with, and no history of
\* requests can break it.
THEOREM RightsTheorem ==
  (\A name \in DOMAIN Classes : RightsAgree(Classes[name]))
    => (ObjectSpec => []RightsAreServed)
  <1> SUFFICES ASSUME \A name \in DOMAIN Classes : RightsAgree(Classes[name])
               PROVE  ObjectSpec => []RightsAreServed
    OBVIOUS
  <1>1. ASSUME ObjectTypeOK, AccessAsConstructed PROVE RightsAreServed
    <2>1. /\ RightsAgree(Own)
          /\ object.version \in 0..Own.maxVersion
          /\ attribute.id \in DOMAIN Own.new
      BY <1>1 DEF ObjectTypeOK, Own
    <2>2. Has(Own.new, attribute.id) <=> ReadAttribute(attribute.id) = "Ok"
      BY <2>1 DEF RightsAgree, Defines, Has, ReadAttribute
    <2>3. ASSUME IsAccessWritable(AttributeAccess(attribute.id))
          PROVE  \E payload \in Valid : WriteAttribute(attribute.id, payload) = "Ok"
      <3>1. Has(Own.new, attribute.id) /\ attribute.access # "ReadOnly"
        BY <2>3 DEF IsAccessWritable, AttributeAccess
      <3>2. Own.new[attribute.id].access # "ReadOnly"
        BY <1>1, <3>1 DEF AccessAsConstructed
      <3>3. /\ Has(Own.writes, attribute.id)
            /\ Accepts[Own.writes[attribute.id].check] \cap Valid # {}
        BY <2>1, <3>1, <3>2 DEF RightsAgree, Defines, Has
      <3>4. Own.writes[attribute.id].check # Denied
        BY <3>3 DEF Accepts
      <3> QED
        BY <2>3, <3>3, <3>4 DEF WriteAttribute
    <2>4. ASSUME NEW id \in MethodIds, NEW payload \in Payloads, CanInvokeMethod(id)
          PROVE  "MethodNotFound" \notin InvokeMethod(id, payload)
      <3>1. id \in DOMAIN Own.methods /\ Own.methods[id].since <= object.version
        BY <2>4 DEF CanInvokeMethod, Has
      <3>2. Own.methods[id].since \in Nat /\ object.version \in Nat /\ Own.maxVersion \in Nat
        BY <2>1, <3>1, ClassesAssumption, <1>1 DEF ObjectTypeOK, Own
      <3> QED
        BY <3>1, <3>2 DEF InvokeMethod
    <2> QED
      BY <2>2, <2>3, <2>4 DEF RightsAreServed
  <1> QED
    BY <1>1, ObjectTypeTheorem, AccessStays, PTL

\* StaysValid, for every set of classes whose tables agree: the weakest of the
\* functions that store an attribute decides, and none is weaker than the one
\* that checks.
THEOREM ValidityTheorem ==
  (\A name \in DOMAIN Classes : ChecksAgree(Classes[name]))
    => (ObjectSpec => StaysValid)
  <1> SUFFICES ASSUME \A name \in DOMAIN Classes : ChecksAgree(Classes[name])
               PROVE  ObjectSpec => StaysValid
    OBVIOUS
  <1> DEFINE Kept == Validated /\ value # "invalid" => value' # "invalid"
  <1>1. ObjectTypeOK /\ [ObjectNext]_objectVars => [Kept]_objectVars
    <2> SUFFICES ASSUME ObjectTypeOK, ObjectNext, Validated, value # "invalid"
                 PROVE  value' # "invalid"
      OBVIOUS
    <2>1. /\ ChecksAgree(Own)
          /\ object.version \in 0..Own.maxVersion
          /\ attribute.id \in DOMAIN Own.new
      BY DEF ObjectTypeOK, Own
    <2>2. /\ Has(Own.writes, attribute.id) => Own.writes[attribute.id].check \in {Ranged, Denied, None}
          /\ Own.sets[attribute.id] \in {Ranged, Denied, None}
      BY <2>1 DEF ChecksAgree, Defines, Has, Validated
    <2>3. \A check \in {Ranged, Denied, None} : "invalid" \notin Accepts[check]
      BY DEF Accepts
    <2>4. ASSUME NEW path, NEW id, HandleGet(path, id) PROVE value' # "invalid"
      BY <2>4 DEF HandleGet
    <2>5. ASSUME NEW path, NEW id, NEW payload, HandleSet(path, id, payload) PROVE value' # "invalid"
      <3>1. CASE value' = value
        BY <3>1
      <3>2. CASE value' = payload /\ id = attribute.id /\ WriteAttribute(id, payload) = "Ok"
        <4>1. Has(Own.writes, attribute.id) /\ payload \in Accepts[Own.writes[attribute.id].check]
          BY <3>2 DEF WriteAttribute
        <4> QED
          BY <2>2, <2>3, <3>2, <4>1
      <3>3. DEFINE refusal == Refusal(path, IsWriteAllowed(AttributeAccess(id), context.authenticated))
                   status  == IF refusal = "Ok" THEN WriteAttribute(id, payload) ELSE refusal
      <3>4. value' = IF status = "Ok" /\ id = attribute.id THEN payload ELSE value
        BY <2>5 DEF HandleSet
      <3> QED
        BY <3>1, <3>2, <3>4
    <2>6. ASSUME NEW path, NEW id, NEW payload, HandleAction(path, id, payload) PROVE value' # "invalid"
      <3>1. value' \in Invoked(id) \/ value' = value
        BY <2>6 DEF HandleAction
      <3>2. "invalid" \notin Invoked(id)
        BY DEF Invoked
      <3> QED
        BY <3>1, <3>2
    <2>7. ASSUME NEW payload, SetByApplication(payload) PROVE value' # "invalid"
      BY <2>2, <2>3, <2>7 DEF SetByApplication
    <2>8. ASSUME SetAssociationContext(TRUE) \/ SetAssociationContext(FALSE) \/ ClearAssociationContext
          PROVE  value' # "invalid"
      BY <2>8 DEF SetAssociationContext, ClearAssociationContext
    <2> QED
      BY <2>4, <2>5, <2>6, <2>7, <2>8 DEF ObjectNext
  <1> QED
    BY <1>1, ObjectTypeTheorem, PTL DEF ObjectSpec, StaysValid

-----------------------------------------------------------------------------
(***************************************************************************)
(* The classes of the library                                              *)
(***************************************************************************)
\* Every row of a table that repeats an entry is that entry.
LEMMA RepeatIsConstant == \A n \in Nat : \A entry : \A id \in 1..n : Repeat(n, entry)[id] = entry
  BY DEF Repeat

USE DEF Accepts, ReadOnly, Chosen, ReadWrite, Read, Reads, To, Since, Repeat, Absent,
        LogicalName, Class, Defines, RightsAgree, ChecksAgree, TablesAgree

\* The classes that hold measured values.
LEMMA RegistersAgree == \A name \in 1..7 : TablesAgree(AllClasses[name])
  <1>1. TablesAgree(CosemDataObject)
    BY DEF CosemDataObject, DataNew, DataReads, DataWrites, DataSets
  <1>2. TablesAgree(CosemRegisterObject)
    BY DEF CosemRegisterObject, RegisterNew, RegisterReads, RegisterWrites, RegisterSets
  <1>3. TablesAgree(CosemExtendedRegisterObject)
    BY DEF CosemExtendedRegisterObject, ExtendedRegisterNew, ExtendedRegisterReads,
           ExtendedRegisterWrites, ExtendedRegisterSets
  <1>4. TablesAgree(CosemDemandRegisterObject)
    BY DEF CosemDemandRegisterObject, DemandRegisterNew, DemandRegisterReads,
           DemandRegisterWrites, DemandRegisterSets
  <1>5. TablesAgree(CosemRegisterActivationObject)
    BY DEF CosemRegisterActivationObject, RegisterActivationNew, RegisterActivationReads,
           RegisterActivationWrites, RegisterActivationSets
  <1>6. TablesAgree(CosemRegisterMonitorObject)
    BY DEF CosemRegisterMonitorObject, RegisterMonitorNew, RegisterMonitorReads,
           RegisterMonitorWrites, RegisterMonitorSets
  <1>7. TablesAgree(CosemRegisterTableObject)
    BY DEF CosemRegisterTableObject, RegisterTableNew, RegisterTableReads,
           RegisterTableWrites, RegisterTableSets
  <1> HIDE DEF TablesAgree
  <1> QED
    BY <1>1, <1>2, <1>3, <1>4, <1>5, <1>6, <1>7 DEF AllClasses

\* The classes that act on a schedule or on command.
LEMMA ControlAgree == \A name \in 8..18 : TablesAgree(AllClasses[name])
  <1>1. TablesAgree(CosemScriptTableObject)
    BY DEF CosemScriptTableObject, ScriptTableNew, ScriptTableReads, ScriptTableWrites,
           ScriptTableSets
  <1>2. TablesAgree(CosemActivityCalendarObject)
    BY DEF CosemActivityCalendarObject, ActivityCalendarNew, ActivityCalendarReads,
           ActivityCalendarWrites, ActivityCalendarSets
  <1>3. TablesAgree(CosemImageTransferObject)
    BY DEF CosemImageTransferObject, ImageTransferNew, ImageTransferReads,
           ImageTransferWrites, ImageTransferSets
  <1>4. TablesAgree(CosemPushSetupObject)
    BY DEF CosemPushSetupObject, PushSetupNew, PushSetupReads, PushSetupWrites,
           PushSetupSets
  <1>5. TablesAgree(CosemDisconnectControlObject)
    BY DEF CosemDisconnectControlObject, DisconnectControlNew, DisconnectControlReads,
           DisconnectControlWrites, DisconnectControlSets
  <1>6. TablesAgree(CosemLimiterObject)
    BY DEF CosemLimiterObject, LimiterNew, LimiterReads, LimiterWrites, LimiterSets
  <1>7. TablesAgree(CosemScheduleObject)
    BY DEF CosemScheduleObject, ScheduleNew, ScheduleReads, ScheduleWrites, ScheduleSets
  <1>8. TablesAgree(CosemSpecialDaysTableObject)
    BY DEF CosemSpecialDaysTableObject, SpecialDaysTableNew, SpecialDaysTableReads,
           SpecialDaysTableWrites, SpecialDaysTableSets
  <1>9. TablesAgree(CosemSingleActionScheduleObject)
    BY DEF CosemSingleActionScheduleObject, SingleActionScheduleNew,
           SingleActionScheduleReads, SingleActionScheduleWrites, SingleActionScheduleSets
  <1>10. TablesAgree(CosemArbitratorObject)
    BY DEF CosemArbitratorObject, ArbitratorNew, ArbitratorReads, ArbitratorWrites
  <1>11. TablesAgree(CosemClockObject)
    BY DEF CosemClockObject, ClockNew, ClockReads, ClockWrites, ClockSets
  <1> HIDE DEF TablesAgree
  <1> QED
    BY <1>1, <1>2, <1>3, <1>4, <1>5, <1>6, <1>7, <1>8, <1>9, <1>10, <1>11 DEF AllClasses

\* The classes that collect and hand out data.
LEMMA StorageAgree == \A name \in 19..24 : TablesAgree(AllClasses[name])
  <1>1. TablesAgree(CosemUtilityTablesObject)
    BY DEF CosemUtilityTablesObject, UtilityTablesNew, UtilityTablesReads,
           UtilityTablesWrites
  <1>2. TablesAgree(CosemSensorManagerObject)
    BY DEF CosemSensorManagerObject, SensorManagerNew, SensorManagerReads,
           SensorManagerWrites
  <1>3. TablesAgree(CosemStatusMappingObject)
    BY DEF CosemStatusMappingObject, StatusMappingNew, StatusMappingReads,
           StatusMappingWrites
  <1>4. TablesAgree(CosemParameterMonitorObject)
    BY DEF CosemParameterMonitorObject, ParameterMonitorNew, ParameterMonitorReads,
           ParameterMonitorWrites
  <1>5. TablesAgree(CosemCompactDataObject)
    BY DEF CosemCompactDataObject, CompactDataNew, CompactDataReads, CompactDataWrites
  <1>6. TablesAgree(CosemProfileGenericObject)
    BY DEF CosemProfileGenericObject, ProfileGenericNew, ProfileGenericReads,
           ProfileGenericWrites
  <1> HIDE DEF TablesAgree
  <1> QED
    BY <1>1, <1>2, <1>3, <1>4, <1>5, <1>6 DEF AllClasses

\* The classes that set up networks.
LEMMA NetworkAgree == \A name \in 25..43 : TablesAgree(AllClasses[name])
  <1>1. TablesAgree(CosemIecHdlcSetupObject)
    BY DEF CosemIecHdlcSetupObject, IecHdlcSetupNew, IecHdlcSetupReads, IecHdlcSetupWrites,
           IecHdlcSetupSets
  <1>2. TablesAgree(CosemTcpUdpSetupObject)
    BY DEF CosemTcpUdpSetupObject, TcpUdpSetupNew, TcpUdpSetupReads, TcpUdpSetupWrites
  <1>3. TablesAgree(CosemModemConfigurationObject)
    BY DEF CosemModemConfigurationObject, ModemConfigurationNew, ModemConfigurationReads,
           ModemConfigurationWrites
  <1>4. TablesAgree(CosemAutoConnectObject)
    BY DEF CosemAutoConnectObject, AutoConnectNew, AutoConnectReads, AutoConnectWrites
  <1>5. TablesAgree(CosemGprsModemSetupObject)
    BY DEF CosemGprsModemSetupObject, GprsModemSetupNew, GprsModemSetupReads,
           GprsModemSetupWrites
  <1>6. TablesAgree(CosemAutoAnswerObject)
    BY DEF CosemAutoAnswerObject, AutoAnswerNew, AutoAnswerReads, AutoAnswerWrites,
           AutoAnswerSets
  <1>7. TablesAgree(CosemIpv4SetupObject)
    BY DEF CosemIpv4SetupObject, Ipv4SetupNew, Ipv4SetupReads, Ipv4SetupWrites
  <1>8. TablesAgree(CosemMacAddressSetupObject)
    BY DEF CosemMacAddressSetupObject, MacAddressSetupNew, MacAddressSetupReads,
           MacAddressSetupWrites
  <1>9. TablesAgree(CosemPppSetupObject)
    BY DEF CosemPppSetupObject, PppSetupNew, PppSetupReads, PppSetupWrites
  <1>10. TablesAgree(CosemSmtpSetupObject)
    BY DEF CosemSmtpSetupObject, SmtpSetupNew, SmtpSetupReads, SmtpSetupWrites
  <1>11. TablesAgree(CosemGsmDiagnosticObject)
    BY DEF CosemGsmDiagnosticObject, GsmDiagnosticNew, GsmDiagnosticReads,
           GsmDiagnosticWrites
  <1>12. TablesAgree(CosemIecTwistedPairSetupObject)
    BY DEF CosemIecTwistedPairSetupObject, IecTwistedPairSetupNew,
           IecTwistedPairSetupReads, IecTwistedPairSetupWrites
  <1>13. TablesAgree(CosemMBusSlavePortSetupObject)
    BY DEF CosemMBusSlavePortSetupObject, MBusSlavePortSetupNew, MBusSlavePortSetupReads,
           MBusSlavePortSetupWrites
  <1>14. TablesAgree(CosemIpv6SetupObject)
    BY DEF CosemIpv6SetupObject, Ipv6SetupNew, Ipv6SetupReads, Ipv6SetupWrites
  <1>15. TablesAgree(CosemIecLocalPortSetupObject)
    BY DEF CosemIecLocalPortSetupObject, IecLocalPortSetupNew, IecLocalPortSetupReads,
           IecLocalPortSetupWrites
  <1>16. TablesAgree(CosemMBusClientObject)
    BY DEF CosemMBusClientObject, MBusClientNew, MBusClientReads, MBusClientWrites
  <1>17. TablesAgree(CosemWirelessModeQChannelObject)
    BY DEF CosemWirelessModeQChannelObject, WirelessModeQChannelNew,
           WirelessModeQChannelReads, WirelessModeQChannelWrites
  <1>18. TablesAgree(CosemMBusMasterPortSetupObject)
    BY DEF CosemMBusMasterPortSetupObject, MBusMasterPortSetupNew,
           MBusMasterPortSetupReads, MBusMasterPortSetupWrites
  <1>19. TablesAgree(CosemMBusDiagnosticObject)
    BY DEF CosemMBusDiagnosticObject, MBusDiagnosticNew, MBusDiagnosticReads,
           MBusDiagnosticWrites
  <1> HIDE DEF TablesAgree
  <1> QED
    BY <1>1, <1>2, <1>3, <1>4, <1>5, <1>6, <1>7, <1>8, <1>9, <1>10, <1>11, <1>12, <1>13,
       <1>14, <1>15, <1>16, <1>17, <1>18, <1>19 DEF AllClasses

\* The classes that set up power line carriers.
LEMMA PlcAgree == \A name \in 44..59 : TablesAgree(AllClasses[name])
  <1>1. TablesAgree(CosemPrimePlcLlcSscsSetupObject)
    BY DEF CosemPrimePlcLlcSscsSetupObject, PrimePlcLlcSscsSetupNew,
           PrimePlcLlcSscsSetupReads, PrimePlcLlcSscsSetupWrites
  <1>2. TablesAgree(CosemPrimePlcPhyLayerCountersObject)
    BY DEF CosemPrimePlcPhyLayerCountersObject, PrimePlcPhyLayerCountersNew,
           PrimePlcPhyLayerCountersReads, PrimePlcPhyLayerCountersWrites
  <1>3. TablesAgree(CosemPrimePlcMacSetupObject)
    BY DEF CosemPrimePlcMacSetupObject, PrimePlcMacSetupNew, PrimePlcMacSetupReads,
           PrimePlcMacSetupWrites
  <1>4. TablesAgree(CosemPrimePlcMacFunctionalParametersObject)
    BY DEF CosemPrimePlcMacFunctionalParametersObject, PrimePlcMacFunctionalParametersNew,
           PrimePlcMacFunctionalParametersReads, PrimePlcMacFunctionalParametersWrites
  <1>5. TablesAgree(CosemPrimePlcMacCountersObject)
    BY DEF CosemPrimePlcMacCountersObject, PrimePlcMacCountersNew,
           PrimePlcMacCountersReads, PrimePlcMacCountersWrites
  <1>6. TablesAgree(CosemPrimePlcMacNetworkAdminDataObject)
    BY DEF CosemPrimePlcMacNetworkAdminDataObject, PrimePlcMacNetworkAdminDataNew,
           PrimePlcMacNetworkAdminDataReads, PrimePlcMacNetworkAdminDataWrites
  <1>7. TablesAgree(CosemPrimePlcApplicationIdentificationObject)
    BY DEF CosemPrimePlcApplicationIdentificationObject,
           PrimePlcApplicationIdentificationNew, PrimePlcApplicationIdentificationReads,
           PrimePlcApplicationIdentificationWrites
  <1>8. TablesAgree(CosemSFskPlcPhyMacSetupObject)
    BY DEF CosemSFskPlcPhyMacSetupObject, SFskPlcPhyMacSetupNew, SFskPlcPhyMacSetupReads,
           SFskPlcPhyMacSetupWrites
  <1>9. TablesAgree(CosemSFskActiveInitiatorObject)
    BY DEF CosemSFskActiveInitiatorObject, SFskActiveInitiatorNew,
           SFskActiveInitiatorReads, SFskActiveInitiatorWrites
  <1>10. TablesAgree(CosemSFskMacSyncTimeoutsObject)
    BY DEF CosemSFskMacSyncTimeoutsObject, SFskMacSyncTimeoutsNew,
           SFskMacSyncTimeoutsReads, SFskMacSyncTimeoutsWrites
  <1>11. TablesAgree(CosemSFskMacCountersObject)
    BY DEF CosemSFskMacCountersObject, SFskMacCountersNew, SFskMacCountersReads,
           SFskMacCountersWrites
  <1>12. TablesAgree(CosemIec61334432LlcSetupObject)
    BY DEF CosemIec61334432LlcSetupObject, Iec61334432LlcSetupNew,
           Iec61334432LlcSetupReads, Iec61334432LlcSetupWrites
  <1>13. TablesAgree(CosemSFskReportingSystemListObject)
    BY DEF CosemSFskReportingSystemListObject, SFskReportingSystemListNew,
           SFskReportingSystemListReads, SFskReportingSystemListWrites
  <1>14. TablesAgree(CosemIso8802LlcType1SetupObject)
    BY DEF CosemIso8802LlcType1SetupObject, Iso8802LlcType1SetupNew,
           Iso8802LlcType1SetupReads, Iso8802LlcType1SetupWrites
  <1>15. TablesAgree(CosemIso8802LlcType2SetupObject)
    BY DEF CosemIso8802LlcType2SetupObject, Iso8802LlcType2SetupNew,
           Iso8802LlcType2SetupReads, Iso8802LlcType2SetupWrites
  <1>16. TablesAgree(CosemIso8802LlcType3SetupObject)
    BY DEF CosemIso8802LlcType3SetupObject, Iso8802LlcType3SetupNew,
           Iso8802LlcType3SetupReads, Iso8802LlcType3SetupWrites
  <1> HIDE DEF TablesAgree
  <1> QED
    BY <1>1, <1>2, <1>3, <1>4, <1>5, <1>6, <1>7, <1>8, <1>9, <1>10, <1>11, <1>12, <1>13,
       <1>14, <1>15, <1>16 DEF AllClasses

\* The classes that describe and protect the device.
LEMMA ManagementAgree == \A name \in 60..65 : TablesAgree(AllClasses[name])
  <1>1. TablesAgree(CosemAssociationSnObject)
    BY DEF CosemAssociationSnObject, AssociationSnNew, AssociationSnReads,
           AssociationSnWrites
  <1>2. TablesAgree(CosemDataProtectionObject)
    BY DEF CosemDataProtectionObject, DataProtectionNew, DataProtectionReads,
           DataProtectionWrites
  <1>3. TablesAgree(CosemSapAssignmentObject)
    BY DEF CosemSapAssignmentObject, SapAssignmentNew, SapAssignmentReads,
           SapAssignmentWrites, SapAssignmentSets
  <1>4. TablesAgree(CosemSecuritySetupObject)
    BY DEF CosemSecuritySetupObject, SecuritySetupNew, SecuritySetupReads,
           SecuritySetupWrites
  <1>5. ASSUME NEW hasReference \in BOOLEAN PROVE TablesAgree(CosemAssociationLnObject(hasReference))
    <2> DEFINE c      == CosemAssociationLnObject(hasReference)
               new    == AssociationLnNew(hasReference)
               reads  == AssociationLnReads(hasReference)
               writes == AssociationLnWrites
               sets   == Repeat(11, None)
    <2>1. /\ c.maxVersion = 3 /\ c.new = new /\ c.reads = reads
          /\ c.writes = writes /\ c.sets = sets
      BY DEF CosemAssociationLnObject
    <2>2. /\ DOMAIN new = 1..11
          /\ \A id \in 1..11 : new[id].access = "ReadOnly" /\ new[id].check = Typed
      BY DEF AssociationLnNew
    <2>3. \A version \in 0..3, id \in 1..11 : Defines(new, id, version) <=> Defines(reads, id, version)
      BY DEF AssociationLnNew, AssociationLnReads
    <2>4. \A id \in 1..11 : writes[id].check = Denied /\ sets[id] = None
      <3>1. \A id \in 1..255 : writes[id].check = Denied
        BY RepeatIsConstant DEF AssociationLnWrites
      <3>2. \A id \in 1..11 : sets[id] = None
        BY RepeatIsConstant
      <3>3. \A id \in 1..11 : id \in 1..255
        OBVIOUS
      <3> HIDE DEF writes, sets
      <3> QED
        BY <3>1, <3>2, <3>3
    <2>5. Typed # Ranged /\ Denied # Ranged /\ None # Ranged
      BY DEF Typed, Ranged, Denied, None
    <2> HIDE DEF c, new, reads, writes, sets, Defines
    <2>6. RightsAgree(c)
      BY <2>1, <2>2, <2>3 DEF RightsAgree
    <2>7. ChecksAgree(c)
      BY <2>1, <2>2, <2>4, <2>5 DEF ChecksAgree
    <2> QED
      BY <2>6, <2>7 DEF TablesAgree, c
  <1>6. TablesAgree(AssociationLnWithout) /\ TablesAgree(AssociationLnWith)
    BY <1>5 DEF AssociationLnWithout, AssociationLnWith
  <1> HIDE DEF TablesAgree
  <1> QED
    BY <1>1, <1>2, <1>3, <1>4, <1>6 DEF AllClasses

\* Whatever class of the library an object has, its tables agree.
LEMMA LibraryAgrees == \A name \in DOMAIN AllClasses : TablesAgree(AllClasses[name])
  <1> HIDE DEF TablesAgree
  <1>1. \A name \in DOMAIN AllClasses : name \in 1..65
    BY DEF AllClasses
  <1> QED
    BY RegistersAgree, ControlAgree, StorageAgree, NetworkAgree, PlcAgree, ManagementAgree, <1>1

\* RightsAreServed and StaysValid of the classes of the library: every version,
\* every attribute, every access a caller of a constructor may choose.
THEOREM LibraryTheorem ==
  Classes = AllClasses => (ObjectSpec => []RightsAreServed /\ StaysValid)
  <1>1. ASSUME Classes = AllClasses PROVE \A name \in DOMAIN Classes : RightsAgree(Classes[name])
    BY <1>1, LibraryAgrees DEF TablesAgree
  <1>2. ASSUME Classes = AllClasses PROVE \A name \in DOMAIN Classes : ChecksAgree(Classes[name])
    BY <1>2, LibraryAgrees DEF TablesAgree
  <1> QED
    BY <1>1, <1>2, RightsTheorem, ValidityTheorem

=============================================================================
