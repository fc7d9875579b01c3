---------------------------- MODULE CosemControl ----------------------------
(***************************************************************************)
(* The interface classes that act on a schedule or on command: scripts,    *)
(* calendars, clocks, limits, the load switch, firmware images and push.   *)
(***************************************************************************)
EXTENDS CosemClass

\* scripts
ScriptTableNew == <<LogicalName, Chosen(Ranged)>>
ScriptTableReads == Reads(2)
ScriptTableWrites == <<To(Denied), To(Ranged)>>
ScriptTableSets == <<None, Ranged>>
ScriptTableMethods == <<Unsupported>>
CosemScriptTableObject ==
  Class(9, 0, ScriptTableNew, ScriptTableReads, ScriptTableWrites,
        ScriptTableSets, ScriptTableMethods)

\* active name, seasons, weeks, days; the same passive; activate_time.
\* Which seasons and weeks are valid depends on the others: see ActivityCalendar.
ActivityCalendarNew ==
  <<LogicalName, ReadOnly(Raw)>> \o Repeat(3, ReadOnly(Ranged))
    \o <<Chosen(Raw)>> \o Repeat(3, Chosen(Ranged)) \o <<Chosen(Typed)>>
ActivityCalendarReads == Reads(10)
ActivityCalendarWrites ==
  Repeat(5, To(Denied)) \o <<To(Raw)>> \o Repeat(3, To(Ranged)) \o <<To(Typed)>>
ActivityCalendarSets == Repeat(5, None) \o <<Raw>> \o Repeat(3, Ranged) \o <<Typed>>
ActivityCalendarMethods == <<Unsupported>>
CosemActivityCalendarObject ==
  Class(20, 0, ActivityCalendarNew, ActivityCalendarReads, ActivityCalendarWrites,
        ActivityCalendarSets, ActivityCalendarMethods)

\* block size, transferred blocks, first missing block, enabled, status, images
ImageTransferNew ==
  <<LogicalName>> \o Repeat(3, ReadOnly(Raw)) \o <<Chosen(Raw), ReadOnly(Raw), ReadOnly(Raw)>>
ImageTransferReads == Reads(7)
ImageTransferWrites == Repeat(4, To(Denied)) \o <<To(Raw), To(Denied), To(Denied)>>
ImageTransferSets == <<None>> \o Repeat(6, Raw)
ImageTransferMethods == Repeat(4, Unsupported)
CosemImageTransferObject ==
  Class(18, 0, ImageTransferNew, ImageTransferReads, ImageTransferWrites,
        ImageTransferSets, ImageTransferMethods)

\* attributes 8 to 10 came with version 1, 11 to 13 and reset with version 2
PushSetupNew ==
  <<LogicalName>> \o Repeat(6, Chosen(Raw)) \o Repeat(3, Since(1, Chosen(Raw)))
    \o Repeat(2, Since(2, Chosen(Raw))) \o <<Since(2, ReadOnly(Raw))>>
PushSetupReads == Reads(7) \o Repeat(3, Since(1, Read)) \o Repeat(3, Since(2, Read))
PushSetupWrites ==
  <<To(Denied)>> \o Repeat(6, To(Raw)) \o Repeat(3, Since(1, To(Raw)))
    \o Repeat(2, Since(2, To(Raw))) \o <<Since(2, To(Denied))>>
PushSetupSets == Repeat(12, None) \o <<Raw>>
PushSetupMethods == <<Unsupported, Since(2, Clears(13))>>
CosemPushSetupObject ==
  Class(40, 2, PushSetupNew, PushSetupReads, PushSetupWrites,
        PushSetupSets, PushSetupMethods)

\* output_state, control_state, control_mode
DisconnectControlNew == <<LogicalName, ReadOnly(Typed), ReadOnly(Typed), Chosen(Typed)>>
DisconnectControlReads == Reads(4)
DisconnectControlWrites == Repeat(3, To(Denied)) \o <<To(Ranged)>>
DisconnectControlSets == <<None, Typed, Typed, None>>
DisconnectControlMethods == Repeat(2, Updates({2, 3}, Raw))
CosemDisconnectControlObject ==
  Class(70, 0, DisconnectControlNew, DisconnectControlReads, DisconnectControlWrites,
        DisconnectControlSets, DisconnectControlMethods)

\* the application reports thresholds and actions
LimiterNew == <<LogicalName, ReadOnly(Raw)>> \o Repeat(9, Chosen(Raw))
LimiterReads == Reads(11)
LimiterWrites == <<To(Denied), To(Denied)>> \o Repeat(9, To(Raw))
LimiterSets == [i \in 1..11 |-> IF i \in {3, 10} THEN Raw ELSE None]
LimiterMethods == <<>>
CosemLimiterObject ==
  Class(71, 0, LimiterNew, LimiterReads, LimiterWrites,
        LimiterSets, LimiterMethods)

\* entries; see Schedule
ScheduleNew == <<LogicalName, Chosen(Ranged)>>
ScheduleReads == Reads(2)
ScheduleWrites == <<To(Denied), To(Ranged)>>
ScheduleSets == <<None, Ranged>>
ScheduleMethods == Repeat(3, Updates({2}, Ranged))
CosemScheduleObject ==
  Class(10, 0, ScheduleNew, ScheduleReads, ScheduleWrites,
        ScheduleSets, ScheduleMethods)

\* entries; see SpecialDays
SpecialDaysTableNew == <<LogicalName, Chosen(Ranged)>>
SpecialDaysTableReads == Reads(2)
SpecialDaysTableWrites == <<To(Denied), To(Ranged)>>
SpecialDaysTableSets == <<None, Ranged>>
SpecialDaysTableMethods == Repeat(2, Updates({2}, Typed))
CosemSpecialDaysTableObject ==
  Class(11, 0, SpecialDaysTableNew, SpecialDaysTableReads, SpecialDaysTableWrites,
        SpecialDaysTableSets, SpecialDaysTableMethods)

\* executed_script, type, execution_time; see SingleActionSchedule
SingleActionScheduleNew == <<LogicalName, Chosen(Typed), Chosen(Ranged), Chosen(Ranged)>>
SingleActionScheduleReads == Reads(4)
SingleActionScheduleWrites == <<To(Denied), To(Typed), To(Ranged), To(Ranged)>>
SingleActionScheduleSets == <<None, Typed, Ranged, Ranged>>
SingleActionScheduleMethods == <<>>
CosemSingleActionScheduleObject ==
  Class(22, 0, SingleActionScheduleNew, SingleActionScheduleReads, SingleActionScheduleWrites,
        SingleActionScheduleSets, SingleActionScheduleMethods)

\* actions, permissions, weightings, most recent requests, last outcome
ArbitratorNew == <<LogicalName>> \o Repeat(5, Chosen(Raw))
ArbitratorReads == Reads(6)
ArbitratorWrites == <<To(Denied)>> \o Repeat(5, To(Raw))
ArbitratorMethods == Repeat(2, Unsupported)
CosemArbitratorObject ==
  Class(68, 0, ArbitratorNew, ArbitratorReads, ArbitratorWrites,
        Repeat(6, None), ArbitratorMethods)

\* time, time_zone, status, daylight savings, clock_base; the only class whose
\* attributes are writable whatever the caller of the constructor chooses
ClockNew ==
  <<LogicalName, ReadWrite(Typed), ReadWrite(Typed), ReadOnly(Typed)>>
    \o Repeat(5, ReadWrite(Typed))
ClockReads == Reads(9)
ClockWrites ==
  <<To(Denied), To(Typed), To(Typed), To(Denied)>> \o Repeat(4, To(Typed)) \o <<To(Ranged)>>
ClockSets == [i \in 1..9 |-> IF i \in {2, 4} THEN Typed ELSE None]
ClockMethods == Repeat(6, Granted(Unsupported))
CosemClockObject ==
  Class(8, 0, ClockNew, ClockReads, ClockWrites,
        ClockSets, ClockMethods)

=============================================================================
