---------------------------- MODULE CosemNetwork ----------------------------
(***************************************************************************)
(* The interface classes that set up and report on the communication       *)
(* channels of a meter: modems, serial ports, IP, M-Bus.                   *)
(***************************************************************************)
EXTENDS CosemClass

\* speed, windows, sizes and timeouts are forced into their range; comm_speed and
\* device_address
IecHdlcSetupNew ==
  <<LogicalName>> \o Repeat(6, Chosen(Ranged)) \o <<Chosen(Typed), ReadOnly(Ranged)>>
IecHdlcSetupReads == Reads(9)
IecHdlcSetupWrites == <<To(Denied)>> \o Repeat(6, To(Ranged)) \o <<To(Typed), To(Denied)>>
IecHdlcSetupSets == Repeat(8, None) \o <<Ranged>>
IecHdlcSetupMethods == <<>>
CosemIecHdlcSetupObject ==
  Class(23, 1, IecHdlcSetupNew, IecHdlcSetupReads, IecHdlcSetupWrites,
        IecHdlcSetupSets, IecHdlcSetupMethods)

\* port, IP reference, MSS, simultaneous connections, inactivity timeout
TcpUdpSetupNew ==
  <<LogicalName, Chosen(Typed), Chosen(Typed), Chosen(Ranged), Chosen(Ranged), Chosen(Typed)>>
TcpUdpSetupReads == Reads(6)
\* Mutant: a SET is decoded but not checked.
TcpUdpSetupWrites_Typed == <<To(Denied)>> \o Repeat(5, To(Typed))

TcpUdpSetupWrites == <<To(Denied), To(Typed), To(Typed), To(Ranged), To(Ranged), To(Typed)>>
TcpUdpSetupMethods == <<>>
CosemTcpUdpSetupObject ==
  Class(41, 0, TcpUdpSetupNew, TcpUdpSetupReads, TcpUdpSetupWrites,
        Repeat(6, None), TcpUdpSetupMethods)

ModemConfigurationNew == <<LogicalName>> \o Repeat(3, Chosen(Raw))
ModemConfigurationReads == Reads(4)
ModemConfigurationWrites == <<To(Denied)>> \o Repeat(3, To(Raw))
ModemConfigurationMethods == <<>>
CosemModemConfigurationObject ==
  Class(27, 1, ModemConfigurationNew, ModemConfigurationReads, ModemConfigurationWrites,
        Repeat(4, None), ModemConfigurationMethods)

\* mode, repetitions, repetition_delay, calling_window, destination_list
AutoConnectNew == <<LogicalName>> \o Repeat(5, Chosen(Typed))
AutoConnectReads == Reads(6)
AutoConnectWrites == <<To(Denied)>> \o Repeat(5, To(Typed))
AutoConnectMethods == <<Since(2, Unsupported)>>
CosemAutoConnectObject ==
  Class(29, 2, AutoConnectNew, AutoConnectReads, AutoConnectWrites,
        Repeat(6, None), AutoConnectMethods)

\* APN, PIN code, quality of service
GprsModemSetupNew == <<LogicalName>> \o Repeat(3, Chosen(Typed))
GprsModemSetupReads == Reads(4)
GprsModemSetupWrites == <<To(Denied)>> \o Repeat(3, To(Typed))
GprsModemSetupMethods == <<>>
CosemGprsModemSetupObject ==
  Class(45, 0, GprsModemSetupNew, GprsModemSetupReads, GprsModemSetupWrites,
        Repeat(4, None), GprsModemSetupMethods)

\* mode, listening_window, status, number of calls and of rings, allowed callers
AutoAnswerNew ==
  <<LogicalName, Chosen(Typed), Chosen(Typed), ReadOnly(Typed)>> \o Repeat(3, Chosen(Typed))
AutoAnswerReads == Reads(7)
AutoAnswerWrites == <<To(Denied), To(Typed), To(Typed), To(Denied)>> \o Repeat(3, To(Typed))
AutoAnswerSets == [i \in 1..7 |-> IF i = 4 THEN Typed ELSE None]
AutoAnswerMethods == <<>>
CosemAutoAnswerObject ==
  Class(28, 0, AutoAnswerNew, AutoAnswerReads, AutoAnswerWrites,
        AutoAnswerSets, AutoAnswerMethods)

Ipv4SetupNew == <<LogicalName>> \o Repeat(9, Chosen(Raw))
Ipv4SetupReads == Reads(10)
Ipv4SetupWrites == <<To(Denied)>> \o Repeat(9, To(Raw))
Ipv4SetupMethods == Repeat(3, Unsupported)
CosemIpv4SetupObject ==
  Class(42, 0, Ipv4SetupNew, Ipv4SetupReads, Ipv4SetupWrites,
        Repeat(10, None), Ipv4SetupMethods)

MacAddressSetupNew == <<LogicalName>> \o Repeat(1, Chosen(Typed))
MacAddressSetupReads == Reads(2)
MacAddressSetupWrites == <<To(Denied)>> \o Repeat(1, To(Typed))
MacAddressSetupMethods == <<>>
CosemMacAddressSetupObject ==
  Class(43, 0, MacAddressSetupNew, MacAddressSetupReads, MacAddressSetupWrites,
        Repeat(2, None), MacAddressSetupMethods)

PppSetupNew == <<LogicalName>> \o Repeat(4, Chosen(Raw))
PppSetupReads == Reads(5)
PppSetupWrites == <<To(Denied)>> \o Repeat(4, To(Raw))
PppSetupMethods == <<>>
CosemPppSetupObject ==
  Class(44, 0, PppSetupNew, PppSetupReads, PppSetupWrites,
        Repeat(5, None), PppSetupMethods)

SmtpSetupNew == <<LogicalName>> \o Repeat(5, Chosen(Typed))
SmtpSetupReads == Reads(6)
SmtpSetupWrites == <<To(Denied)>> \o Repeat(5, To(Typed))
SmtpSetupMethods == <<>>
CosemSmtpSetupObject ==
  Class(46, 0, SmtpSetupNew, SmtpSetupReads, SmtpSetupWrites,
        Repeat(6, None), SmtpSetupMethods)

GsmDiagnosticNew == <<LogicalName>> \o Repeat(7, Chosen(Raw))
GsmDiagnosticReads == Reads(8)
GsmDiagnosticWrites == <<To(Denied)>> \o Repeat(7, To(Raw))
GsmDiagnosticMethods == <<>>
CosemGsmDiagnosticObject ==
  Class(47, 0, GsmDiagnosticNew, GsmDiagnosticReads, GsmDiagnosticWrites,
        Repeat(8, None), GsmDiagnosticMethods)

\* fatal_error is reported, not set
IecTwistedPairSetupNew == <<LogicalName>> \o Repeat(3, Chosen(Raw)) \o <<ReadOnly(Raw)>>
IecTwistedPairSetupReads == Reads(5)
IecTwistedPairSetupWrites == <<To(Denied)>> \o Repeat(3, To(Raw)) \o <<To(Denied)>>
IecTwistedPairSetupMethods == <<>>
CosemIecTwistedPairSetupObject ==
  Class(24, 0, IecTwistedPairSetupNew, IecTwistedPairSetupReads, IecTwistedPairSetupWrites,
        Repeat(5, None), IecTwistedPairSetupMethods)

\* default_baud, avail_baud, addr_state, bus_address
MBusSlavePortSetupNew == <<LogicalName>> \o Repeat(3, Chosen(Ranged)) \o <<Chosen(Typed)>>
MBusSlavePortSetupReads == Reads(5)
MBusSlavePortSetupWrites == <<To(Denied)>> \o Repeat(3, To(Ranged)) \o <<To(Typed)>>
MBusSlavePortSetupMethods == <<>>
CosemMBusSlavePortSetupObject ==
  Class(25, 0, MBusSlavePortSetupNew, MBusSlavePortSetupReads, MBusSlavePortSetupWrites,
        Repeat(5, None), MBusSlavePortSetupMethods)

Ipv6SetupNew == <<LogicalName>> \o Repeat(9, Chosen(Raw))
Ipv6SetupReads == Reads(10)
Ipv6SetupWrites == <<To(Denied)>> \o Repeat(9, To(Raw))
Ipv6SetupMethods == Repeat(2, Unsupported)
CosemIpv6SetupObject ==
  Class(48, 0, Ipv6SetupNew, Ipv6SetupReads, Ipv6SetupWrites,
        Repeat(10, None), Ipv6SetupMethods)

IecLocalPortSetupNew == <<LogicalName>> \o Repeat(8, Chosen(Raw))
IecLocalPortSetupReads == Reads(9)
IecLocalPortSetupWrites == <<To(Denied)>> \o Repeat(8, To(Raw))
IecLocalPortSetupMethods == <<>>
CosemIecLocalPortSetupObject ==
  Class(19, 1, IecLocalPortSetupNew, IecLocalPortSetupReads, IecLocalPortSetupWrites,
        Repeat(9, None), IecLocalPortSetupMethods)

\* configuration and encryption_key_status came with version 1
MBusClientNew ==
  <<LogicalName>> \o Repeat(11, Chosen(Raw)) \o Repeat(2, Since(1, Chosen(Raw)))
MBusClientReads == Reads(12) \o Repeat(2, Since(1, Read))
MBusClientWrites == <<To(Denied)>> \o Repeat(11, To(Raw)) \o Repeat(2, Since(1, To(Raw)))
MBusClientMethods == Repeat(8, Unsupported)
CosemMBusClientObject ==
  Class(72, 1, MBusClientNew, MBusClientReads, MBusClientWrites,
        Repeat(14, None), MBusClientMethods)

\* addr_state, device_address, address_mask
WirelessModeQChannelNew == <<LogicalName, Chosen(Ranged), Chosen(Typed), Chosen(Typed)>>
WirelessModeQChannelReads == Reads(4)
WirelessModeQChannelWrites == <<To(Denied), To(Ranged), To(Typed), To(Typed)>>
WirelessModeQChannelMethods == <<>>
CosemWirelessModeQChannelObject ==
  Class(73, 1, WirelessModeQChannelNew, WirelessModeQChannelReads, WirelessModeQChannelWrites,
        Repeat(4, None), WirelessModeQChannelMethods)

\* comm_speed
MBusMasterPortSetupNew == <<LogicalName, Chosen(Ranged)>>
MBusMasterPortSetupReads == Reads(2)
MBusMasterPortSetupWrites == <<To(Denied), To(Ranged)>>
MBusMasterPortSetupMethods == <<>>
CosemMBusMasterPortSetupObject ==
  Class(74, 0, MBusMasterPortSetupNew, MBusMasterPortSetupReads, MBusMasterPortSetupWrites,
        Repeat(2, None), MBusMasterPortSetupMethods)

MBusDiagnosticNew == <<LogicalName>> \o Repeat(8, Chosen(Raw))
MBusDiagnosticReads == Reads(9)
MBusDiagnosticWrites == <<To(Denied)>> \o Repeat(8, To(Raw))
MBusDiagnosticMethods == <<Unsupported>>
CosemMBusDiagnosticObject ==
  Class(77, 0, MBusDiagnosticNew, MBusDiagnosticReads, MBusDiagnosticWrites,
        Repeat(9, None), MBusDiagnosticMethods)

=============================================================================
