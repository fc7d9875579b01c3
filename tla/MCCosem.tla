------------------------------- MODULE MCCosem -------------------------------
(***************************************************************************)
(* The objects of a logical device on small instances: one attribute of an *)
(* object of any class, or one of the objects whose parts depend on each   *)
(* other, or the stores behind a Security Setup object.  They share no     *)
(* state, so one of them at a time is enough.                              *)
(***************************************************************************)
EXTENDS CosemObject, CosemLibrary, Schedule, SpecialDays, ActivityCalendar,
        SingleActionSchedule, RegisterMonitor, SecuritySetup, CertificateStore

\* TLC evaluates the body of the definition a constant is replaced by at every
\* use: this one is a name, and the tables of the library are evaluated once.
McClasses == AllClasses

VARIABLE active   \* the object that is looked at

CONSTANT Kinds    \* the objects to look at

Init ==
  /\ active \in Kinds
  /\ IF active = "attribute" THEN ObjectInit
     ELSE /\ object = [class |-> 1, version |-> 0]
          /\ attribute = [id |-> 1, access |-> "ReadOnly"]
          /\ value = "valid" /\ context = NoAssociation /\ last = Quiet
  /\ IF active = "schedule" THEN ScheduleInit ELSE entries = {} /\ command = NoCommand
  /\ IF active = "days" THEN SpecialDaysInit ELSE days = {} /\ newest = {}
  /\ IF active = "calendar" THEN CalendarInit
     ELSE seasonProfile = <<>> /\ weekProfileTable = <<>> /\ dayProfileTable = <<>>
  /\ IF active = "execution" THEN ExecutionInit ELSE type = 1 /\ executionTime = FallbackTime
  /\ IF active = "monitor" THEN MonitorInit ELSE thresholds = <<>> /\ actions = <<>>
  /\ IF active = "security" THEN SecurityInit
     ELSE /\ securityPolicy = {} /\ keys = [r \in KeyRoles |-> NoKey] /\ store = NewStore(1)
          /\ hasResetPolicy = FALSE /\ sealed = {} /\ opened = {}
  /\ CertificateInit

Next ==
  /\ IF active = "attribute" THEN ObjectNext ELSE UNCHANGED objectVars
  /\ IF active = "schedule" THEN ScheduleNext ELSE UNCHANGED scheduleVars
  /\ IF active = "days" THEN SpecialDaysNext ELSE UNCHANGED specialDaysVars
  /\ IF active = "calendar" THEN CalendarNext ELSE UNCHANGED calendarVars
  /\ IF active = "execution" THEN ExecutionNext ELSE UNCHANGED executionVars
  /\ IF active = "monitor" THEN MonitorNext ELSE UNCHANGED monitorVars
  /\ IF active = "security" THEN SecurityNext ELSE UNCHANGED securityVars
  /\ IF active = "certificates" THEN CertificateNext ELSE UNCHANGED certificateVars
  /\ UNCHANGED active

=============================================================================
