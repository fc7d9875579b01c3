--------------------------- MODULE CosemRegisters ---------------------------
(***************************************************************************)
(* The interface classes that hold measured values: what their             *)
(* constructor grants and keeps (New), what ReadAttribute answers (Reads), *)
(* what WriteAttribute stores (Writes), what the application may set       *)
(* (Sets) and what InvokeMethod does (Methods).                            *)
(***************************************************************************)
EXTENDS CosemClass

DataNew     == <<LogicalName, Chosen(Raw)>>
DataReads   == Reads(2)
DataWrites  == <<To(Denied), To(Raw)>>
DataSets    == <<None, Raw>>
DataMethods == <<>>
CosemDataObject == Class(1, 0, DataNew, DataReads, DataWrites, DataSets, DataMethods)

\* value, scaler_unit
RegisterNew     == <<LogicalName, Chosen(NonEmpty), ReadOnly(Typed)>>
RegisterReads   == Reads(3)
RegisterWrites  == <<To(Denied), To(NonEmpty), To(Denied)>>
RegisterSets    == <<None, NonEmpty, Typed>>
RegisterMethods == <<Unsupported>>
CosemRegisterObject ==
  Class(3, 0, RegisterNew, RegisterReads, RegisterWrites, RegisterSets, RegisterMethods)

\* value, scaler_unit, status, capture_time
ExtendedRegisterNew ==
  <<LogicalName, Chosen(NonEmpty), ReadOnly(Typed), ReadOnly(Raw), ReadOnly(Typed)>>
ExtendedRegisterReads   == Reads(5)
ExtendedRegisterWrites  == <<To(Denied), To(NonEmpty), To(Denied), To(Denied), To(Denied)>>
ExtendedRegisterSets    == <<None, NonEmpty, Typed, Raw, Typed>>
ExtendedRegisterMethods == <<Unsupported>>
CosemExtendedRegisterObject ==
  Class(4, 0, ExtendedRegisterNew, ExtendedRegisterReads, ExtendedRegisterWrites,
        ExtendedRegisterSets, ExtendedRegisterMethods)

\* current and last average value, scaler_unit, status, capture_time,
\* start_time_current, period, number_of_periods; all kept by the application
DemandRegisterNew ==
  <<LogicalName, ReadOnly(NonEmpty), ReadOnly(NonEmpty), ReadOnly(Typed), ReadOnly(Raw)>>
    \o Repeat(4, ReadOnly(Typed))
DemandRegisterReads   == Reads(9)
DemandRegisterWrites  == Repeat(9, To(Denied))
DemandRegisterSets    == <<None, NonEmpty, NonEmpty, Typed, Raw>> \o Repeat(4, Typed)
DemandRegisterMethods == <<Unsupported, Unsupported>>
CosemDemandRegisterObject ==
  Class(5, 0, DemandRegisterNew, DemandRegisterReads, DemandRegisterWrites,
        DemandRegisterSets, DemandRegisterMethods)

\* register_assignment, mask_list, active_mask
RegisterActivationNew ==
  <<LogicalName, ReadOnly(Typed), ReadOnly(Typed), ReadOnly(Raw)>>
RegisterActivationReads   == Reads(4)
RegisterActivationWrites  == Repeat(4, To(Denied))
RegisterActivationSets    == <<None, Typed, Typed, Raw>>
RegisterActivationMethods == Repeat(3, Unsupported)
CosemRegisterActivationObject ==
  Class(6, 0, RegisterActivationNew, RegisterActivationReads, RegisterActivationWrites,
        RegisterActivationSets, RegisterActivationMethods)

\* thresholds, monitored_value, actions.  Thresholds are valid only when they are
\* as many as the actions, and the other way round.
RegisterMonitorNew ==
  <<LogicalName, Chosen(Ranged), ReadOnly(Ranged), ReadOnly(Ranged)>>
RegisterMonitorReads   == Reads(4)
RegisterMonitorWrites  == <<To(Denied), To(Ranged), To(Denied), To(Denied)>>
RegisterMonitorSets    == <<None, Ranged, Ranged, Ranged>>
RegisterMonitorMethods == <<>>
CosemRegisterMonitorObject ==
  Class(21, 0, RegisterMonitorNew, RegisterMonitorReads, RegisterMonitorWrites,
        RegisterMonitorSets, RegisterMonitorMethods)

\* table_cell_values, table_cell_definition, scaler_unit
RegisterTableNew     == <<LogicalName, ReadOnly(Raw), Chosen(Raw), Chosen(Typed)>>
RegisterTableReads   == Reads(4)
RegisterTableWrites  == <<To(Denied), To(Denied), To(Raw), To(Typed)>>
RegisterTableSets    == <<None, Raw, None, None>>
RegisterTableMethods == <<Unsupported, Unsupported>>
CosemRegisterTableObject ==
  Class(61, 0, RegisterTableNew, RegisterTableReads, RegisterTableWrites,
        RegisterTableSets, RegisterTableMethods)

=============================================================================
