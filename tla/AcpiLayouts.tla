---------------------------- MODULE AcpiLayouts ----------------------------
(***************************************************************************)
(* The sizes of the ctypes structures of src/python/acpi.py, one           *)
(* definition for each class or factory, from the widths of its fields in  *)
(* their order; a structure of which a class copies the fields stands for  *)
(* them.  Names of fields and the texts they are printed as are left out.  *)
(* Structures are packed, but for those whose "_pack_" is missing or       *)
(* written "_pack".                                                        *)
(***************************************************************************)
EXTENDS Layout

(* bits.cdata.GUID *)
GUID == Aligned(<<<<16, 1>>>>)

small_resource == Packed(<<1>>)

large_resource == Packed(<<1>>)

IRQDescriptor2 == Packed(<<small_resource, 2>>)

irq_information == Flags(1, <<1, 2, 1, 2>>)

IRQDescriptor3 == Packed(<<IRQDescriptor2, irq_information>>)

DMADescriptor == Packed(<<small_resource, 1, 1>>)

StartDependentFunctionsDescriptor0 == Packed(<<small_resource>>)

priority == Flags(1, <<2, 2>>)

StartDependentFunctionsDescriptor1 == Packed(<<small_resource, priority>>)

EndDependentFunctionsDescriptor == Aligned(<<<<small_resource, 1>>>>)

ioport_information == Flags(1, <<1>>)

IOPortDescriptor == Packed(<<small_resource, ioport_information, 2, 2, 1, 1>>)

FixedIOPortDescriptor == Packed(<<small_resource, 2, 1>>)

FixedDMADescriptor == Packed(<<small_resource, 2, 2, 1>>)

VendorDefinedSmallDescriptor_factory(num_vendor_bytes) ==
    Packed(<<small_resource, num_vendor_bytes>>)

EndTagDescriptor == Packed(<<small_resource, 1>>)

memory_range_information == Flags(1, <<1>>)

Memory24BitRangeDescriptor ==
    Packed(<<large_resource, 2, memory_range_information, 2, 2, 2, 2>>)

VendorDefinedLargeDescriptor_factory(num_vendor_bytes) ==
    Packed(<<large_resource, 2, 1, GUID, num_vendor_bytes>>)

Memory32BitRangeDescriptor ==
    Packed(<<large_resource, 2, memory_range_information, 2, 2, 2, 2>>)

FixedMemory32BitRangeDescriptor ==
    Packed(<<large_resource, 2, memory_range_information, 4, 4>>)

resource_flags == Flags(1, <<1, 1, 1, 1, 1>>)

DwordAddressSpaceDescriptor ==
    Packed(<<large_resource, 2, 1, resource_flags, 1, 4, 4, 4, 4, 4>>)

WordAddressSpaceDescriptor ==
    Packed(<<large_resource, 2, 1, resource_flags, 1, 2, 2, 2, 2, 2>>)

interrupt_vector_info == Flags(1, <<1, 1, 1, 2, 3>>)

ExtendedInterruptDescriptor_factory(num_interrupts) ==
    Packed(<<large_resource, 2, interrupt_vector_info, 1, 4 *
        num_interrupts>>)

QwordAddressSpaceDescriptor ==
    Packed(<<large_resource, 2, 1, resource_flags, 1, 8, 8, 8, 8, 8>>)

ExtendedAddressSpaceDescriptor ==
    Packed(<<large_resource, 2, 1, resource_flags, 1, 1, 1, 8, 8, 8, 8, 8,
        8>>)

RSDP_v1 == Packed(<<8, 1, 6, 1, 4>>)

RSDP_v2 == Packed(<<RSDP_v1, 4, 8, 1, 3>>)

TableHeader == Packed(<<4, 4, 1, 1, 6, 8, 4, 4, 4>>)

rsdt_factory(num_tables) == Packed(<<TableHeader, 4 * num_tables>>)

xsdt_factory(num_tables) == Packed(<<TableHeader, 8 * num_tables>>)

DMARSubtable == Packed(<<2, 2>>)

DMARDeviceScopePath == Packed(<<1, 1>>)

DMARDeviceScope_factory(num_dev_scope_path) ==
    Packed(<<1, 1, 2, 1, 1, DMARDeviceScopePath * num_dev_scope_path>>)

drhd_flags == Flags(1, <<1>>)

DMARSubtableDRHD_factory(scopes) ==
    Packed(<<DMARSubtable, drhd_flags, 1, 2, 8, scopes>>)

DMARSubtableRMRR_factory(scopes) ==
    Packed(<<DMARSubtable, 2, 2, 8, 8, scopes>>)

atsr_flags == Flags(1, <<1>>)

DMARSubtableATSR_factory(scopes) ==
    Aligned(<<<<2, 2>>, <<2, 2>>, <<atsr_flags, 1>>, <<1, 1>>, <<2, 2>>,
        <<scopes, 1>>>>)

(* The 64-bit field is aligned as the build aligns one: to 4 or to 8 bytes. *)
DMARSubtableRHSA(align) ==
    Aligned(<<<<2, 2>>, <<2, 2>>, <<4, 4>>, <<8, align>>, <<4, 4>>>>)

DMARSubTableANDD_factory(obj_name_len) ==
    Aligned(<<<<2, 2>>, <<2, 2>>, <<3, 1>>, <<1, 1>>, <<obj_name_len,
        1>>>>)

DMARSubtableUnknown_factory(data_len) ==
    Aligned(<<<<2, 2>>, <<2, 2>>, <<data_len, 1>>>>)

dmar_factory(subtables) ==
    Aligned(<<<<TableHeader, 1>>, <<1, 1>>, <<1, 1>>, <<10, 1>>,
        <<subtables, 1>>>>)

GenericRegisterDescriptor == Packed(<<large_resource, 2, 1, 1, 1, 1, 8>>)

GAS == Packed(<<1, 1, 1, 1, 8>>)

facp_flags_v1 == Flags(4, <<1, 1, 1, 1, 1, 1, 1, 1, 1, 1>>)

FACP_v1 ==
    Packed(<<TableHeader, 4, 4, 1, 1, 2, 4, 1, 1, 1, 1, 4, 4, 4, 4, 4, 4,
        4, 4, 1, 1, 1, 1, 1, 1, 1, 1, 2, 2, 2, 2, 1, 1, 1, 1, 1, 3,
        facp_flags_v1>>)

facp_flags_v3 ==
    Flags(4, <<1, 1, 1, 1, 1, 1, 1, 1, 1, 1, 1, 1, 1, 1, 1, 1, 1, 1, 1,
        1>>)

facp_iapc_arch_v3 == Flags(2, <<1, 1, 1, 1>>)

FACP_v3 ==
    Packed(<<TableHeader, 4, 4, 1, 1, 2, 4, 1, 1, 1, 1, 4, 4, 4, 4, 4, 4,
        4, 4, 1, 1, 1, 1, 1, 1, 1, 1, 2, 2, 2, 2, 1, 1, 1, 1, 1,
        facp_iapc_arch_v3, 1, facp_flags_v3, GAS, 1, 3, 8, 8, GAS, GAS,
        GAS, GAS, GAS, GAS, GAS, GAS>>)

facp_iapc_arch_v4 == Flags(2, <<1, 1, 1, 1, 1>>)

FACP_v4 ==
    Packed(<<TableHeader, 4, 4, 1, 1, 2, 4, 1, 1, 1, 1, 4, 4, 4, 4, 4, 4,
        4, 4, 1, 1, 1, 1, 1, 1, 1, 1, 2, 2, 2, 2, 1, 1, 1, 1, 1,
        facp_iapc_arch_v4, 1, facp_flags_v3, GAS, 1, 3, 8, 8, GAS, GAS,
        GAS, GAS, GAS, GAS, GAS, GAS>>)

facp_flags_v5 ==
    Flags(4, <<1, 1, 1, 1, 1, 1, 1, 1, 1, 1, 1, 1, 1, 1, 1, 1, 1, 1, 1, 1,
        1, 1>>)

facp_iapc_arch_v5 == Flags(2, <<1, 1, 1, 1, 1, 1>>)

FACP_v5 ==
    Packed(<<TableHeader, 4, 4, 1, 1, 2, 4, 1, 1, 1, 1, 4, 4, 4, 4, 4, 4,
        4, 4, 1, 1, 1, 1, 1, 1, 1, 1, 2, 2, 2, 2, 1, 1, 1, 1, 1,
        facp_iapc_arch_v5, 1, facp_flags_v5, GAS, 1, 3, 8, 8, GAS, GAS,
        GAS, GAS, GAS, GAS, GAS, GAS, GAS, GAS>>)

facs_global_lock == Flags(4, <<1, 1>>)

facs_flags == Flags(4, <<1>>)

facs_flags_v2 == Flags(4, <<1, 1>>)

facs_ospm_flags == Flags(4, <<1>>)

FACS_v0 == Packed(<<4, 4, 4, 4, facs_global_lock, facs_flags, 40>>)

FACS_v1 == Packed(<<4, 4, 4, 4, facs_global_lock, facs_flags, 8, 1, 31>>)

FACS_v2 ==
    Packed(<<4, 4, 4, 4, facs_global_lock, facs_flags_v2, 8, 1, 3,
        facs_ospm_flags, 24>>)

MCFGResource == Packed(<<8, 2, 1, 1, 4>>)

mcfg_factory(num_resources) ==
    Packed(<<TableHeader, 8, MCFGResource * num_resources>>)

trigger_error_header == Packed(<<4, 4, 4, 4>>)

injection_instruction_entry_flags == Flags(1, <<1>>)

InjectionInstructionEntry ==
    Packed(<<1, 1, injection_instruction_entry_flags, 1, GAS, 8, 8>>)

trigger_error_action_factory(num_entries) ==
    Packed(<<trigger_error_header, InjectionInstructionEntry *
        num_entries>>)

einj_factory(num_entries) ==
    Packed(<<TableHeader, 4, 1, 3, 4, InjectionInstructionEntry *
        num_entries>>)

BERT_v1 == Packed(<<TableHeader, 4, 8>>)

APICSubtable == Packed(<<1, 1>>)

local_apic_flags == Flags(4, <<1>>)

APICSubtableLocalApic == Packed(<<APICSubtable, 1, 1, local_apic_flags>>)

APICSubtableIOApic == Packed(<<APICSubtable, 1, 1, 4, 4>>)

APICSubtable_int_flags == Flags(2, <<2, 2>>)

APICSubtableNmiIntSrc == Packed(<<APICSubtable, APICSubtable_int_flags, 4>>)

APICSubtableLocalApicNmi ==
    Packed(<<APICSubtable, 1, APICSubtable_int_flags, 1>>)

APICSubtableIntSrcOverride ==
    Packed(<<APICSubtable, 1, 1, 4, APICSubtable_int_flags>>)

APICSubtableLocalx2Apic == Packed(<<APICSubtable, 2, 4, local_apic_flags, 4>>)

APICSubtableLocalx2ApicNmi ==
    Packed(<<APICSubtable, APICSubtable_int_flags, 4, 1, 3>>)

APICSubtableLocalGIC_flags == Flags(4, <<1, 1>>)

APICSubtableLocalGIC ==
    Packed(<<APICSubtable, 2, 4, 4, APICSubtableLocalGIC_flags, 4, 4, 8,
        8>>)

APICSubtableLocalGICDistributor == Packed(<<APICSubtable, 2, 4, 8, 4, 4>>)

APICSubtableUnknown_factory(data_len) == Packed(<<APICSubtable, data_len>>)

APIC_table_flags == Flags(4, <<1>>)

apic_factory(subtables) ==
    Packed(<<TableHeader, 4, APIC_table_flags, subtables>>)

ASFSubtable == Packed(<<1, 1, 2>>)

ASF_info_flags == Flags(1, <<1>>)

fixed_smbus_address == Packed(<<1>>)

ASF_info_record == Packed(<<ASFSubtable, 1, 1, 2, 4, ASF_info_flags, 3>>)

ASF_ALERTDATA == Packed(<<1, 1, 1, 1, 1, 1, 1, 1, 1, 1, 1, 1>>)

ASF_alrt_factory(num_alerts) ==
    Packed(<<ASFSubtable, 1, 1, 1, 1, ASF_ALERTDATA * num_alerts>>)

ASF_CONTROLDATA == Packed(<<1, 1, 1, 1>>)

ASF_rctl_factory(num_controls) ==
    Packed(<<ASFSubtable, 1, 1, 2, ASF_CONTROLDATA * num_controls>>)

ASF_boot_options_capabilities_1 == Flags(1, <<1, 1, 1, 2, 1, 1, 1>>)

ASF_boot_options_capabilities_2 == Flags(1, <<3, 1, 1, 1, 1, 1>>)

ASF_special_commands_2 == Flags(1, <<1, 1, 1, 1, 1, 3>>)

ASF_system_capabilities == Flags(1, <<1, 1, 1, 1, 1, 1, 1, 1>>)

ASF_rmcp ==
    Packed(<<ASFSubtable, ASF_boot_options_capabilities_1,
        ASF_boot_options_capabilities_2, 1, 1, 1, ASF_special_commands_2,
        ASF_system_capabilities, 1, 4, 1, 2, 2, 2>>)

ASF_addr_record_factory(num_devices) ==
    Packed(<<ASFSubtable, 1, 1, fixed_smbus_address * num_devices>>)

ASF_factory(subtables) == Packed(<<TableHeader, subtables>>)

PCCTSubtable == Packed(<<1, 1>>)

pcct_subtable_unknown_factory(data_len) == Packed(<<PCCTSubtable, data_len>>)

PCCTGenericCommSubspace ==
    Packed(<<PCCTSubtable, 6, 8, 8, GAS, 8, 8, 4, 4, 2>>)

PCCT_flags == Flags(4, <<1>>)

pcct_factory(subtables) == Packed(<<TableHeader, PCCT_flags, 8, subtables>>)

PMTT_flags == Flags(2, <<1, 1>>)

PMTTSubtable == Packed(<<1, 1, 2, PMTT_flags, 2>>)

PMTTSubtableSocket_factory(subtables) ==
    Packed(<<PMTTSubtable, 2, 2, subtables>>)

PMTTSubtableMemController_factory(num_proximity_domains, subtables) ==
    Packed(<<PMTTSubtable, 4, 4, 4, 4, 2, 2, 2, 2, 4 *
        num_proximity_domains, subtables>>)

PMTTSubtableDIMM == Packed(<<PMTTSubtable, 2, 2, 4, 4>>)

pmtt_subtable_unknown_factory(data_len) == Packed(<<PMTTSubtable, data_len>>)

pmtt_factory(subtables) == Packed(<<TableHeader, 4, subtables>>)

MPSTMemPowerNode_flags == Flags(1, <<1, 1, 1>>)

MPSTState == Packed(<<1, 1>>)

MPSTMemPowerNode_factory(num_power_states, num_physical_components) ==
    Packed(<<MPSTMemPowerNode_flags, 1, 2, 4, 4, 4, 4, 4, 4, 4, MPSTState
        * num_power_states, 2 * num_physical_components>>)

power_state_structure_id == Flags(1, <<6, 2>>)

power_state_structure_flags == Flags(1, <<1, 1, 1>>)

MPSTCharacteristics ==
    Packed(<<power_state_structure_id, power_state_structure_flags, 2, 4,
        4, 8, 4>>)

mpst_factory(nodes, characteristics_count) ==
    Packed(<<TableHeader, 1, 3, 2, 2, nodes, 2, 2, MPSTCharacteristics *
        characteristics_count>>)

MSCTProximityDomainInfo_v1 == Packed(<<1, 1, 4, 4, 4, 8>>)

msct_factory(num_proxdominfo) ==
    Packed(<<TableHeader, 4, 4, 4, 8, MSCTProximityDomainInfo_v1 *
        num_proxdominfo>>)

msdm_factory(data_len) == Packed(<<TableHeader, data_len>>)

slic_factory(data_len) == Packed(<<TableHeader, data_len>>)

slit_factory(num_system_localities) ==
    Packed(<<TableHeader, 8, num_system_localities *
        num_system_localities>>)

SRATSubtable == Packed(<<1, 1>>)

SRATLocalApicAffinity_flags == Flags(4, <<1>>)

SRATLocalApicAffinity ==
    Packed(<<SRATSubtable, 1, 1, SRATLocalApicAffinity_flags, 1, 3, 4>>)

SRATMemoryAffinity_flags == Flags(4, <<1, 1, 1>>)

SRATMemoryAffinity ==
    Packed(<<SRATSubtable, 4, 2, 4, 4, 4, 4, 4, SRATMemoryAffinity_flags,
        8>>)

SRATLocalX2ApicAffinity_flags == Flags(4, <<1>>)

SRATLocalX2ApicAffinity ==
    Packed(<<SRATSubtable, 2, 4, 4, SRATLocalX2ApicAffinity_flags, 4, 4>>)

srat_factory(subtables) == Packed(<<TableHeader, 4, 8, subtables>>)

flow_control == Flags(1, <<1, 1, 1>>)

SPCR_v1 ==
    Packed(<<TableHeader, 1, 3, GAS, 1, 1, 4, 1, 1, 1, flow_control, 1, 1,
        2, 2, 1, 1, 1, 4, 1, 4>>)

event_timer_block_id == Flags(4, <<8, 5, 1, 1, 1, 16>>)

hpet_capabilities == Flags(1, <<4, 4>>)

HPET_v1 ==
    Packed(<<TableHeader, event_timer_block_id, GAS, 1, 2,
        hpet_capabilities>>)

uefi_factory(data_len) == Packed(<<TableHeader, GUID, 2, data_len>>)

wddt_status == Flags(2, <<1, 1, 1, 8, 1, 1, 1, 1>>)

wddt_capability == Flags(2, <<1, 1, 1, 1, 1>>)

WDDT_v1 ==
    Packed(<<TableHeader, 2, 2, 2, GAS, 2, 2, 2, wddt_status,
        wddt_capability>>)
=============================================================================
