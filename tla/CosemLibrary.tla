---------------------------- MODULE CosemLibrary ----------------------------
(***************************************************************************)
(* The interface classes of dlms-cosem, all of them.  Association LN is    *)
(* there twice: with a reference to a Security Setup object and without.   *)
(***************************************************************************)
EXTENDS CosemRegisters, CosemControl, CosemStorage, CosemNetwork, CosemPlc, CosemManagement

AssociationLnWithout == CosemAssociationLnObject(FALSE)
AssociationLnWith    == CosemAssociationLnObject(TRUE)

AllClasses ==
  <<CosemDataObject, CosemRegisterObject, CosemExtendedRegisterObject,
   CosemDemandRegisterObject, CosemRegisterActivationObject, CosemRegisterMonitorObject,
   CosemRegisterTableObject,
   CosemScriptTableObject, CosemActivityCalendarObject, CosemImageTransferObject,
   CosemPushSetupObject, CosemDisconnectControlObject, CosemLimiterObject,
   CosemScheduleObject, CosemSpecialDaysTableObject, CosemSingleActionScheduleObject,
   CosemArbitratorObject, CosemClockObject, CosemUtilityTablesObject,
   CosemSensorManagerObject, CosemStatusMappingObject, CosemParameterMonitorObject,
   CosemCompactDataObject, CosemProfileGenericObject, CosemIecHdlcSetupObject,
   CosemTcpUdpSetupObject, CosemModemConfigurationObject, CosemAutoConnectObject,
   CosemGprsModemSetupObject, CosemAutoAnswerObject, CosemIpv4SetupObject,
   CosemMacAddressSetupObject, CosemPppSetupObject, CosemSmtpSetupObject,
   CosemGsmDiagnosticObject, CosemIecTwistedPairSetupObject, CosemMBusSlavePortSetupObject,
   CosemIpv6SetupObject, CosemIecLocalPortSetupObject, CosemMBusClientObject,
   CosemWirelessModeQChannelObject, CosemMBusMasterPortSetupObject,
   CosemMBusDiagnosticObject, CosemPrimePlcLlcSscsSetupObject,
   CosemPrimePlcPhyLayerCountersObject, CosemPrimePlcMacSetupObject,
   CosemPrimePlcMacFunctionalParametersObject, CosemPrimePlcMacCountersObject,
   CosemPrimePlcMacNetworkAdminDataObject, CosemPrimePlcApplicationIdentificationObject,
   CosemSFskPlcPhyMacSetupObject, CosemSFskActiveInitiatorObject,
   CosemSFskMacSyncTimeoutsObject, CosemSFskMacCountersObject,
   CosemIec61334432LlcSetupObject, CosemSFskReportingSystemListObject,
   CosemIso8802LlcType1SetupObject, CosemIso8802LlcType2SetupObject,
   CosemIso8802LlcType3SetupObject, CosemAssociationSnObject, CosemDataProtectionObject,
   CosemSapAssignmentObject, CosemSecuritySetupObject, AssociationLnWithout,
   AssociationLnWith>>

=============================================================================
