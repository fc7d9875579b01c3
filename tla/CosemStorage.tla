---------------------------- MODULE CosemStorage ----------------------------
(***************************************************************************)
(* The interface classes that collect, monitor and hand out data of other  *)
(* objects.                                                                *)
(***************************************************************************)
EXTENDS CosemClass

\* table_ID, length, buffer
UtilityTablesNew == <<LogicalName>> \o Repeat(3, Chosen(Typed))
UtilityTablesReads == Reads(4)
UtilityTablesWrites == <<To(Denied)>> \o Repeat(3, To(Typed))
UtilityTablesMethods == <<>>
CosemUtilityTablesObject ==
  Class(26, 0, UtilityTablesNew, UtilityTablesReads, UtilityTablesWrites,
        Repeat(4, None), UtilityTablesMethods)

\* sensor data, raw and processed values, thresholds and actions
SensorManagerNew == <<LogicalName>> \o Repeat(14, Chosen(Raw))
SensorManagerReads == Reads(15)
SensorManagerWrites == <<To(Denied)>> \o Repeat(14, To(Raw))
SensorManagerMethods == <<Unsupported>>
CosemSensorManagerObject ==
  Class(67, 0, SensorManagerNew, SensorManagerReads, SensorManagerWrites,
        Repeat(15, None), SensorManagerMethods)

\* status_word, mapping_table
StatusMappingNew == <<LogicalName>> \o Repeat(2, Chosen(Raw))
StatusMappingReads == Reads(3)
StatusMappingWrites == <<To(Denied)>> \o Repeat(2, To(Raw))
StatusMappingMethods == <<>>
CosemStatusMappingObject ==
  Class(63, 0, StatusMappingNew, StatusMappingReads, StatusMappingWrites,
        Repeat(3, None), StatusMappingMethods)

\* changed_parameter, capture_time, parameter_list; with version 1 name, hash
\* algorithm, digest and values, and the methods that edit the list
ParameterMonitorNew ==
  <<LogicalName, Chosen(Raw), Chosen(Typed), Chosen(Typed)>>
    \o [i \in 1..4 |-> Since(1, Chosen(IF i = 2 THEN Ranged ELSE Raw))]
ParameterMonitorReads == Reads(4) \o Repeat(4, Since(1, Read))
ParameterMonitorWrites ==
  <<To(Denied), To(Raw), To(Typed), To(Typed)>>
    \o [i \in 1..4 |-> Since(1, To(IF i = 2 THEN Ranged ELSE Raw))]
ParameterMonitorMethods ==
  Repeat(2, [Since(1, Updates({4}, Typed)) EXCEPT !.earlier = "UnsupportedFeature"])
CosemParameterMonitorObject ==
  Class(65, 1, ParameterMonitorNew, ParameterMonitorReads, ParameterMonitorWrites,
        Repeat(8, None), ParameterMonitorMethods)

\* buffer, capture_objects, template_id, template_description, capture_method
CompactDataNew ==
  <<LogicalName, Chosen(Raw), Chosen(Raw), Chosen(Typed), Chosen(Raw), Chosen(Ranged)>>
CompactDataReads == Reads(6)
CompactDataWrites == <<To(Denied), To(Raw), To(Raw), To(Typed), To(Raw), To(Ranged)>>
CompactDataMethods == <<Clears(2), Unsupported>>
CosemCompactDataObject ==
  Class(62, 1, CompactDataNew, CompactDataReads, CompactDataWrites,
        Repeat(6, None), CompactDataMethods)

\* buffer, capture_objects and period, sort method and object, entries in use and
\* profile_entries: kept by the application, cleared by reset
ProfileGenericNew == <<LogicalName>> \o Repeat(7, ReadOnly(Typed))
ProfileGenericReads == Reads(8)
ProfileGenericWrites == Repeat(8, To(Denied))
ProfileGenericMethods == <<Granted(Clears(2))>> \o Repeat(3, Granted(Unsupported))
CosemProfileGenericObject ==
  Class(7, 1, ProfileGenericNew, ProfileGenericReads, ProfileGenericWrites,
        Repeat(8, None), ProfileGenericMethods)

=============================================================================
