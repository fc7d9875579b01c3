------------------------------ MODULE CosemPlc ------------------------------
(***************************************************************************)
(* The interface classes of power line carriers (PRIME, S-FSK) and of the  *)
(* LLC sublayers above them.                                               *)
(***************************************************************************)
EXTENDS CosemClass

PrimePlcLlcSscsSetupNew == <<LogicalName>> \o Repeat(2, Chosen(Raw))
PrimePlcLlcSscsSetupReads == Reads(3)
PrimePlcLlcSscsSetupWrites == <<To(Denied)>> \o Repeat(2, To(Raw))
PrimePlcLlcSscsSetupMethods == <<Unsupported>>
CosemPrimePlcLlcSscsSetupObject ==
  Class(80, 0, PrimePlcLlcSscsSetupNew, PrimePlcLlcSscsSetupReads, PrimePlcLlcSscsSetupWrites,
        Repeat(3, None), PrimePlcLlcSscsSetupMethods)

PrimePlcPhyLayerCountersNew == <<LogicalName>> \o Repeat(4, Chosen(Raw))
PrimePlcPhyLayerCountersReads == Reads(5)
PrimePlcPhyLayerCountersWrites == <<To(Denied)>> \o Repeat(4, To(Raw))
PrimePlcPhyLayerCountersMethods == <<Unsupported>>
CosemPrimePlcPhyLayerCountersObject ==
  Class(81, 0, PrimePlcPhyLayerCountersNew, PrimePlcPhyLayerCountersReads, PrimePlcPhyLayerCountersWrites,
        Repeat(5, None), PrimePlcPhyLayerCountersMethods)

PrimePlcMacSetupNew == <<LogicalName>> \o Repeat(13, Chosen(Raw))
PrimePlcMacSetupReads == Reads(14)
PrimePlcMacSetupWrites == <<To(Denied)>> \o Repeat(13, To(Raw))
PrimePlcMacSetupMethods == <<>>
CosemPrimePlcMacSetupObject ==
  Class(82, 0, PrimePlcMacSetupNew, PrimePlcMacSetupReads, PrimePlcMacSetupWrites,
        Repeat(14, None), PrimePlcMacSetupMethods)

PrimePlcMacFunctionalParametersNew == <<LogicalName>> \o Repeat(13, Chosen(Raw))
PrimePlcMacFunctionalParametersReads == Reads(14)
PrimePlcMacFunctionalParametersWrites == <<To(Denied)>> \o Repeat(13, To(Raw))
PrimePlcMacFunctionalParametersMethods == <<>>
CosemPrimePlcMacFunctionalParametersObject ==
  Class(83, 0, PrimePlcMacFunctionalParametersNew, PrimePlcMacFunctionalParametersReads, PrimePlcMacFunctionalParametersWrites,
        Repeat(14, None), PrimePlcMacFunctionalParametersMethods)

PrimePlcMacCountersNew == <<LogicalName>> \o Repeat(6, Chosen(Raw))
PrimePlcMacCountersReads == Reads(7)
PrimePlcMacCountersWrites == <<To(Denied)>> \o Repeat(6, To(Raw))
PrimePlcMacCountersMethods == <<Unsupported>>
CosemPrimePlcMacCountersObject ==
  Class(84, 0, PrimePlcMacCountersNew, PrimePlcMacCountersReads, PrimePlcMacCountersWrites,
        Repeat(7, None), PrimePlcMacCountersMethods)

PrimePlcMacNetworkAdminDataNew == <<LogicalName>> \o Repeat(5, Chosen(Raw))
PrimePlcMacNetworkAdminDataReads == Reads(6)
PrimePlcMacNetworkAdminDataWrites == <<To(Denied)>> \o Repeat(5, To(Raw))
PrimePlcMacNetworkAdminDataMethods == <<Unsupported>>
CosemPrimePlcMacNetworkAdminDataObject ==
  Class(85, 0, PrimePlcMacNetworkAdminDataNew, PrimePlcMacNetworkAdminDataReads, PrimePlcMacNetworkAdminDataWrites,
        Repeat(6, None), PrimePlcMacNetworkAdminDataMethods)

\* firmware_version, vendor_id, product_id
PrimePlcApplicationIdentificationNew == <<LogicalName>> \o Repeat(3, Chosen(Typed))
PrimePlcApplicationIdentificationReads == Reads(4)
PrimePlcApplicationIdentificationWrites == <<To(Denied)>> \o Repeat(3, To(Typed))
PrimePlcApplicationIdentificationMethods == <<>>
CosemPrimePlcApplicationIdentificationObject ==
  Class(86, 0, PrimePlcApplicationIdentificationNew, PrimePlcApplicationIdentificationReads, PrimePlcApplicationIdentificationWrites,
        Repeat(4, None), PrimePlcApplicationIdentificationMethods)

SFskPlcPhyMacSetupNew == <<LogicalName>> \o Repeat(14, Chosen(Raw))
SFskPlcPhyMacSetupReads == Reads(15)
SFskPlcPhyMacSetupWrites == <<To(Denied)>> \o Repeat(14, To(Raw))
SFskPlcPhyMacSetupMethods == <<Unsupported>>
CosemSFskPlcPhyMacSetupObject ==
  Class(50, 1, SFskPlcPhyMacSetupNew, SFskPlcPhyMacSetupReads, SFskPlcPhyMacSetupWrites,
        Repeat(15, None), SFskPlcPhyMacSetupMethods)

SFskActiveInitiatorNew == <<LogicalName>> \o Repeat(1, Chosen(Raw))
SFskActiveInitiatorReads == Reads(2)
SFskActiveInitiatorWrites == <<To(Denied)>> \o Repeat(1, To(Raw))
SFskActiveInitiatorMethods == <<Unsupported>>
CosemSFskActiveInitiatorObject ==
  Class(51, 0, SFskActiveInitiatorNew, SFskActiveInitiatorReads, SFskActiveInitiatorWrites,
        Repeat(2, None), SFskActiveInitiatorMethods)

SFskMacSyncTimeoutsNew == <<LogicalName>> \o Repeat(4, Chosen(Typed))
SFskMacSyncTimeoutsReads == Reads(5)
SFskMacSyncTimeoutsWrites == <<To(Denied)>> \o Repeat(4, To(Typed))
SFskMacSyncTimeoutsMethods == <<>>
CosemSFskMacSyncTimeoutsObject ==
  Class(52, 0, SFskMacSyncTimeoutsNew, SFskMacSyncTimeoutsReads, SFskMacSyncTimeoutsWrites,
        Repeat(5, None), SFskMacSyncTimeoutsMethods)

SFskMacCountersNew == <<LogicalName>> \o Repeat(7, Chosen(Raw))
SFskMacCountersReads == Reads(8)
SFskMacCountersWrites == <<To(Denied)>> \o Repeat(7, To(Raw))
SFskMacCountersMethods == <<Unsupported>>
CosemSFskMacCountersObject ==
  Class(53, 0, SFskMacCountersNew, SFskMacCountersReads, SFskMacCountersWrites,
        Repeat(8, None), SFskMacCountersMethods)

Iec61334432LlcSetupNew == <<LogicalName>> \o Repeat(2, Chosen(Raw))
Iec61334432LlcSetupReads == Reads(3)
Iec61334432LlcSetupWrites == <<To(Denied)>> \o Repeat(2, To(Raw))
Iec61334432LlcSetupMethods == <<>>
CosemIec61334432LlcSetupObject ==
  Class(55, 1, Iec61334432LlcSetupNew, Iec61334432LlcSetupReads, Iec61334432LlcSetupWrites,
        Repeat(3, None), Iec61334432LlcSetupMethods)

SFskReportingSystemListNew == <<LogicalName>> \o Repeat(1, Chosen(Raw))
SFskReportingSystemListReads == Reads(2)
SFskReportingSystemListWrites == <<To(Denied)>> \o Repeat(1, To(Raw))
SFskReportingSystemListMethods == <<>>
CosemSFskReportingSystemListObject ==
  Class(56, 0, SFskReportingSystemListNew, SFskReportingSystemListReads, SFskReportingSystemListWrites,
        Repeat(2, None), SFskReportingSystemListMethods)

Iso8802LlcType1SetupNew == <<LogicalName>> \o Repeat(1, Chosen(Typed))
Iso8802LlcType1SetupReads == Reads(2)
Iso8802LlcType1SetupWrites == <<To(Denied)>> \o Repeat(1, To(Typed))
Iso8802LlcType1SetupMethods == <<>>
CosemIso8802LlcType1SetupObject ==
  Class(57, 0, Iso8802LlcType1SetupNew, Iso8802LlcType1SetupReads, Iso8802LlcType1SetupWrites,
        Repeat(2, None), Iso8802LlcType1SetupMethods)

\* the two window sizes are forced into 1..127
Iso8802LlcType2SetupNew ==
  <<LogicalName>> \o Repeat(2, Chosen(Ranged)) \o Repeat(6, Chosen(Typed))
Iso8802LlcType2SetupReads == Reads(9)
Iso8802LlcType2SetupWrites ==
  <<To(Denied)>> \o Repeat(2, To(Ranged)) \o Repeat(6, To(Typed))
Iso8802LlcType2SetupMethods == <<>>
CosemIso8802LlcType2SetupObject ==
  Class(58, 0, Iso8802LlcType2SetupNew, Iso8802LlcType2SetupReads, Iso8802LlcType2SetupWrites,
        Repeat(9, None), Iso8802LlcType2SetupMethods)

Iso8802LlcType3SetupNew == <<LogicalName>> \o Repeat(5, Chosen(Typed))
Iso8802LlcType3SetupReads == Reads(6)
Iso8802LlcType3SetupWrites == <<To(Denied)>> \o Repeat(5, To(Typed))
Iso8802LlcType3SetupMethods == <<>>
CosemIso8802LlcType3SetupObject ==
  Class(59, 0, Iso8802LlcType3SetupNew, Iso8802LlcType3SetupReads, Iso8802LlcType3SetupWrites,
        Repeat(6, None), Iso8802LlcType3SetupMethods)

=============================================================================
