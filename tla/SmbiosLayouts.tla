--------------------------- MODULE SmbiosLayouts ---------------------------
(***************************************************************************)
(* The structures of src/python/smbios.py, one definition for each class:  *)
(* which fields it unpacks, of what width, and under which test of the     *)
(* length.  A body starts at byte 4, after type, length and handle.  Names *)
(* of fields and the texts they are printed as are left out.  A structure  *)
(* s is a record                                                           *)
(*   type, length    its header                                            *)
(*   from24          the table is of version 2.4 or later                  *)
(*   count, each     the counts inside it (handles, elements, descriptors) *)
(*   extended        its 32-bit start address is all ones                  *)
(***************************************************************************)
EXTENDS Layout

(* The number of extension bytes is taken from the version of SMBIOS, not
   from the length: from 2.4 on there are two of them and four more fields. *)
BIOSInformation(s) ==
    <<Always(<<1, 1, 2, 1, 1, 8>>)>> \o
    IF s.from24 THEN <<Always(<<1, 1>>), Always(<<1, 1, 1, 1>>)>>
    ELSE <<Always(Times(s.length - \h12, 1))>>

SystemInformation == <<Always(<<1, 1, 1, 1>>), Over(8, <<16, 1>>),
    Over(\h19, <<1, 1>>)>>

(* The last byte counts the handles that follow it. *)
BaseboardInformation(s) ==
    <<Always(<<1, 1, 1, 1>>), Over(8, <<1>>), Over(9, <<1>>),
      Over(\hA, <<1>>), Over(\hB, <<2>>), Over(\hD, <<1>>),
      Over(\hE, <<1>> \o Times(s.count, 2))>>

(* The contained elements, count of them and each bytes long; an element is
   unpacked whole and then three bytes are read from it. *)
ContainedElement(s) == IF s.each >= 3 THEN <<s.each>> ELSE <<s.each, Raise>>

SystemEnclosure(s) ==
    LET present == s.length > \h11
        count == IF present THEN s.count ELSE 0
        each == IF present THEN s.each ELSE 0
    IN  <<Always(<<1, 1, 1, 1, 1>>), Over(9, <<1, 1, 1, 1>>), Over(\hD, <<4>>),
          Over(\h11, <<1, 1, 1, 1>>)>> \o
        [i \in 1..count |-> Always(ContainedElement(s))] \o
        <<Over(\h15 + count * each, <<1>>)>>

ProcessorInformation == <<Always(<<1, 1, 1, 1, 8, 1, 1, 2, 2, 2, 1, 1>>),
    Over(\h1A, <<2, 2, 2>>), Over(\h20, <<1, 1, 1>>), Over(\h24, <<1, 1, 1, 2>>),
    Over(\h28, <<2>>), Over(\h2A, <<2, 2, 2>>)>>

(* The last format is no format of struct: unpacking it always raises. *)
MemoryControllerInformation == <<
    Always(<<1, 1, 1, 1, 1, 2, 2, 1, 1, Raise>>)>>

MemoryModuleInformation == <<Always(<<1, 1, 1, 2, 1, 1, 1>>)>>

(* Two fields are guarded by 10h, the second of them lies at 11h. *)
CacheInformation == <<Always(<<1, 2, 2, 2, 2, 2>>), Over(\hF, <<1>>),
    Over(\h10, <<1>>), Over(\h10, <<1>>), Over(\h12, <<1>>)>>

PortConnectorInfo == <<Always(<<1, 1, 1, 1, 1>>)>>

SystemSlots == <<Always(<<1, 1, 1, 1, 1, 2, 1>>), Over(\hC, <<1>>),
    Over(\hD, <<2, 1, 1>>)>>

OnBoardDevicesInformation == <<Always(<<1, 1>>)>>

OEMStrings == <<Always(<<1>>)>>

SystemConfigOptions == <<Always(<<1>>)>>

BIOSLanguageInformation == <<Always(<<1>>), Over(5, <<1>>),
    Over(6, <<15, 1>>)>>

GroupAssociations == <<Always(<<1, 1, 2>>)>>

EventLogDescriptor == <<1, 1>>

(* The descriptors are counted by a field that structures of up to 16h bytes
   do not have: its use then raises AttributeError.  A length that the two
   counts do not add up to is reported, and the descriptors read all the same. *)
SystemEventLog(s) ==
    <<Always(<<2, 2, 2, 1, 1, 4, 4>>), Over(\h14, <<1>>), Over(\h15, <<1>>),
      Over(\h16, <<1>>)>> \o
    IF s.length > \h16 THEN [i \in 1..s.count |-> Always(EventLogDescriptor)]
    ELSE <<Always(<<Raise>>)>>

LogLengthWrong(s) == s.length # \h17 + s.count * s.each

\* Fault: the last guard is the end of its field and not the beginning.
ShortArray == <<Over(4, <<1>>), Over(5, <<1>>), Over(6, <<1>>), Over(7, <<4>>),
    Over(\hB, <<2>>), Over(\hD, <<2>>), Over(\h17, <<8>>)>>

PhysicalMemoryArray == <<Over(4, <<1>>), Over(5, <<1>>), Over(6, <<1>>),
    Over(7, <<4>>), Over(\hB, <<2>>), Over(\hD, <<2>>), Over(\hF, <<8>>)>>

MemoryDevice == <<Over(4, <<2>>), Over(6, <<2>>), Over(8, <<2>>),
    Over(\hA, <<2>>), Over(\hC, <<2>>), Over(\hE, <<1>>), Over(\hF, <<1>>),
    Over(\h10, <<1>>), Over(\h11, <<1>>), Over(\h12, <<1>>),
    Over(\h13, <<2>>), Over(\h15, <<2>>), Over(\h17, <<1>>),
    Over(\h18, <<1>>), Over(\h19, <<1>>), Over(\h1A, <<1>>),
    Over(\h1B, <<1>>), Over(\h1C, <<4>>), Over(\h20, <<2>>),
    Over(\h22, <<2>>), Over(\h24, <<2>>), Over(\h26, <<2>>)>>

MemoryErrorInfo32Bit == <<Over(4, <<1>>), Over(5, <<1>>), Over(6, <<1>>),
    Over(7, <<4>>), Over(\hB, <<4>>), Over(\hF, <<4>>), Over(\h13, <<4>>)>>

(* The 64-bit addresses are there when the 32-bit one is all ones. *)
MemoryArrayMappedAddress(s) ==
    <<Over(4, <<4>>), Over(8, <<4>>), Over(\hC, <<2>>), Over(\hE, <<1>>)>> \o
    IF s.extended THEN <<Over(\hF, <<8>>), Over(\h17, <<8>>)>>
    ELSE <<Over(\hF, <<16>>)>>

MemoryDeviceMappedAddress(s) ==
    <<Over(4, <<4>>), Over(8, <<4>>), Over(\hC, <<2>>), Over(\hE, <<2>>),
      Over(\h10, <<1>>), Over(\h11, <<1>>), Over(\h12, <<1>>)>> \o
    IF s.extended THEN <<Over(\h13, <<8>>), Over(\h1B, <<8>>)>>
    ELSE <<Over(\h13, <<16>>)>>

BuiltInPointingDevice == <<Over(4, <<1>>), Over(5, <<1>>), Over(6, <<1>>)>>

PortableBattery == <<Over(4, <<1>>), Over(5, <<1>>), Over(6, <<1>>),
    Over(7, <<1>>), Over(8, <<1>>), Over(9, <<1>>), Over(\hA, <<2>>),
    Over(\hC, <<2>>), Over(\hE, <<1>>), Over(\hF, <<1>>), Over(\h10, <<2>>),
    Over(\h12, <<2>>), Over(\h14, <<1>>), Over(\h15, <<1>>),
    Over(\h16, <<4>>)>>

(* The reset limit is guarded by 5, it lies at 7. *)
SystemReset == <<Over(4, <<1>>), Over(5, <<2>>), Over(5, <<2>>),
    Over(9, <<2>>), Over(\hB, <<2>>)>>

HardwareSecurity == <<Over(4, <<1>>)>>

SystemPowerControls == <<Over(4, <<1, 1, 1, 1, 1>>)>>

VoltageProbe == <<Over(4, <<1>>), Over(5, <<1>>), Over(6, <<2>>),
    Over(8, <<2>>), Over(\hA, <<2>>), Over(\hC, <<2>>), Over(\hE, <<2>>),
    Over(\h10, <<4>>), Over(\h14, <<2>>)>>

CoolingDevice == <<Over(4, <<2>>), Over(6, <<1>>), Over(7, <<1>>),
    Over(8, <<4>>), Over(\hC, <<2>>), Over(\hE, <<1>>)>>

TemperatureProbe == <<Over(4, <<1>>), Over(5, <<1>>), Over(6, <<2>>),
    Over(8, <<2>>), Over(\hA, <<2>>), Over(\hC, <<2>>), Over(\hE, <<2>>),
    Over(\h10, <<4>>), Over(\h14, <<2>>)>>

ElectricalCurrentProbe == <<Over(4, <<1>>), Over(5, <<1>>), Over(6, <<2>>),
    Over(8, <<2>>), Over(\hA, <<2>>), Over(\hC, <<2>>), Over(\hE, <<2>>),
    Over(\h10, <<4>>), Over(\h14, <<2>>)>>

OutOfBandRemoteAccess == <<Over(4, <<1>>), Over(5, <<1>>)>>

(* Six reserved bytes are skipped together with the reading of the status. *)
SystemBootInformation == <<Over(\hA, <<6, 1>>)>>

(* The guards are those of the 32-bit structure, the addresses are wider. *)
MemoryErrorInfo64Bit == <<Over(4, <<1>>), Over(5, <<1>>), Over(6, <<1>>),
    Over(7, <<4>>), Over(\hB, <<8>>), Over(\hF, <<8>>), Over(\h13, <<8>>)>>

ManagementDevice == <<Over(4, <<1>>), Over(5, <<1>>), Over(6, <<4>>),
    Over(\hA, <<1>>)>>

ManagementDeviceComponent == <<Over(4, <<1>>), Over(5, <<2>>), Over(7, <<2>>),
    Over(9, <<2>>)>>

ManagementDeviceThresholdData == <<Over(4, <<2>>), Over(6, <<2>>),
    Over(8, <<2>>), Over(\hA, <<2>>), Over(\hC, <<2>>), Over(\hE, <<2>>)>>

(* The guards leave two bytes for fields of one. *)
MemoryChannel == <<Over(4, <<1>>), Over(6, <<1>>), Over(8, <<1>>),
    Over(\hA, <<1>>), Over(\hC, <<2>>)>>

IPMIDeviceInformation == <<Always(<<1, 1, 1, 1, 8, 1, 1>>)>>

SystemPowerSupply == <<Over(4, <<1>>), Over(5, <<1>>), Over(6, <<1>>),
    Over(7, <<1>>), Over(8, <<1>>), Over(9, <<1>>), Over(\hA, <<1>>),
    Over(\hB, <<1>>), Over(\hC, <<2>>), Over(\hE, <<2>>), Over(\h10, <<2>>),
    Over(\h12, <<2>>), Over(\h14, <<2>>)>>

AdditionalInformation == <<Over(4, <<1>>), Over(5, <<1, 2, 1, 1, Rest>>)>>

OnboardDevicesExtendedInformation == <<Over(4, <<1>>), Over(5, <<1>>),
    Over(6, <<1>>), Over(7, <<2>>), Over(9, <<1>>), Over(\hA, <<1>>)>>

ManagementControllerHostInterface == <<Over(4, <<1>>), Over(5, <<Rest>>)>>

(* _smbios_structures: the class whose number is the type, or the catch-all
   for numbers that no class has, which like 31, 126 and 127 reads the header only. *)
Body(s) ==
    CASE s.type = 0 -> BIOSInformation(s)
      [] s.type = 1 -> SystemInformation
      [] s.type = 2 -> BaseboardInformation(s)
      [] s.type = 3 -> SystemEnclosure(s)
      [] s.type = 4 -> ProcessorInformation
      [] s.type = 5 -> MemoryControllerInformation
      [] s.type = 6 -> MemoryModuleInformation
      [] s.type = 7 -> CacheInformation
      [] s.type = 8 -> PortConnectorInfo
      [] s.type = 9 -> SystemSlots
      [] s.type = 10 -> OnBoardDevicesInformation
      [] s.type = 11 -> OEMStrings
      [] s.type = 12 -> SystemConfigOptions
      [] s.type = 13 -> BIOSLanguageInformation
      [] s.type = 14 -> GroupAssociations
      [] s.type = 15 -> SystemEventLog(s)
      [] s.type = 16 -> PhysicalMemoryArray
      [] s.type = 17 -> MemoryDevice
      [] s.type = 18 -> MemoryErrorInfo32Bit
      [] s.type = 19 -> MemoryArrayMappedAddress(s)
      [] s.type = 20 -> MemoryDeviceMappedAddress(s)
      [] s.type = 21 -> BuiltInPointingDevice
      [] s.type = 22 -> PortableBattery
      [] s.type = 23 -> SystemReset
      [] s.type = 24 -> HardwareSecurity
      [] s.type = 25 -> SystemPowerControls
      [] s.type = 26 -> VoltageProbe
      [] s.type = 27 -> CoolingDevice
      [] s.type = 28 -> TemperatureProbe
      [] s.type = 29 -> ElectricalCurrentProbe
      [] s.type = 30 -> OutOfBandRemoteAccess
      [] s.type = 32 -> SystemBootInformation
      [] s.type = 33 -> MemoryErrorInfo64Bit
      [] s.type = 34 -> ManagementDevice
      [] s.type = 35 -> ManagementDeviceComponent
      [] s.type = 36 -> ManagementDeviceThresholdData
      [] s.type = 37 -> MemoryChannel
      [] s.type = 38 -> IPMIDeviceInformation
      [] s.type = 39 -> SystemPowerSupply
      [] s.type = 40 -> AdditionalInformation
      [] s.type = 41 -> OnboardDevicesExtendedInformation
      [] s.type = 42 -> ManagementControllerHostInterface
      [] OTHER -> <<>>
=============================================================================
