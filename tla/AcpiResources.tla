--------------------------- MODULE AcpiResources ---------------------------
(***************************************************************************)
(* src/python/acpi.py: parse_descriptor() splits a buffer of resource      *)
(* descriptors.  The class of a descriptor follows from its item, for some *)
(* items from its length too; it is copied out of the rest of the buffer,  *)
(* and the loop goes on by the length that the descriptor states.          *)
(***************************************************************************)
EXTENDS TableReader, AcpiLayouts

CONSTANTS
    BufferSizes, \* bytes of a buffer
    MaxRepeats   \* vendor bytes, and interrupts of an extended one

ASSUME ResourceAssumption == BufferSizes \subseteq Nat /\ MaxRepeats \in Nat

(* The bytes of the rest of the buffer. *)
RestOf == u.size - u.offset

(* length is the descriptor's own, which leaves out its first bytes, size    *)
(* that of its class, least the bytes that are looked at to find the class,  *)
(* and written what firmware states for the descriptor's length.             *)
Item(of, large, length, size, least, written) ==
    [of |-> of, large |-> large, length |-> length, size |-> size,
     least |-> least, written |-> written]

(* Items with one class, their length as it is written, or another. *)
Small(of, size, written) ==
    {Item(of, FALSE, length, size, 1, written) : length \in {written, 0, 7}}
Large(of, size, written) ==
    {Item(of, TRUE, length, size, 1, written) : length \in {written, 0, written + 4}}

parse_IRQDescriptor ==
    {Item("IRQ", FALSE, length,
          IF length = 2 THEN IRQDescriptor2 ELSE IRQDescriptor3, 1,
          IF length = 2 THEN 2 ELSE 3) : length \in {0, 2, 3, 7}}

parse_StartDependentFunctionsDescriptor ==
    {Item("StartDependentFunctions", FALSE, length,
          IF length = 0 THEN StartDependentFunctionsDescriptor0
          ELSE StartDependentFunctionsDescriptor1, 1,
          IF length = 0 THEN 0 ELSE 1) : length \in {0, 1, 7}}

(* The vendor's bytes are taken to be all the rest, not the length's.        *)
parse_VendorDefinedSmallDescriptor ==
    {LET bytes == RestOf - VendorDefinedSmallDescriptor_factory(0)
     IN  Item("VendorDefined", FALSE, length,
              VendorDefinedSmallDescriptor_factory(bytes), 1, length) :
        length \in 0..MaxRepeats}

parse_VendorDefinedLargeDescriptor ==
    {LET base == VendorDefinedLargeDescriptor_factory(0)
     IN  Item("VendorDefined", TRUE, 17 + n,
              VendorDefinedLargeDescriptor_factory(RestOf - base), base, 17 + n) :
        n \in 0..MaxRepeats}

\* Fault: the class is made for no interrupt.
NoInterrupts(count) == ExtendedInterruptDescriptor_factory(0)

(* The class for the number of interrupts the descriptor states. *)
InterruptClass(count) == ExtendedInterruptDescriptor_factory(count)

parse_ExtendedInterruptDescriptor ==
    {Item("ExtendedInterrupt", TRUE, 2 + 4 * n, InterruptClass(n),
          ExtendedInterruptDescriptor_factory(0), 2 + 4 * n) :
        n \in 0..MaxRepeats}

small_descriptor_dict ==
    UNION {
        parse_IRQDescriptor,
        Small("DMA", DMADescriptor, 2),
        parse_StartDependentFunctionsDescriptor,
        Small("EndDependentFunctions", EndDependentFunctionsDescriptor, 0),
        Small("IOPort", IOPortDescriptor, 7),
        Small("FixedIOPort", FixedIOPortDescriptor, 3),
        Small("FixedDMA", FixedDMADescriptor, 5),
        parse_VendorDefinedSmallDescriptor,
        Small("EndTag", EndTagDescriptor, 1)}

large_descriptor_dict ==
    UNION {
        Large("Memory24BitRange", Memory24BitRangeDescriptor, 9),
        Large("GenericRegister", GenericRegisterDescriptor, 12),
        parse_VendorDefinedLargeDescriptor,
        Large("Memory32BitRange", Memory32BitRangeDescriptor, 17),
        Large("FixedMemory32BitRange", FixedMemory32BitRangeDescriptor, 9),
        Large("DwordAddressSpace", DwordAddressSpaceDescriptor, 23),
        Large("WordAddressSpace", WordAddressSpaceDescriptor, 13),
        parse_ExtendedInterruptDescriptor,
        Large("QwordAddressSpace", QwordAddressSpaceDescriptor, 43),
        Large("ExtendedAddressSpace", ExtendedAddressSpaceDescriptor, 53)}

Items == small_descriptor_dict \cup large_descriptor_dict

(* A class is copied only out of a buffer that holds all of it. *)
Copies(item) == item.least <= RestOf /\ item.size <= RestOf

HeaderBytes(large) == IF large THEN 3 ELSE 1

-----------------------------------------------------------------------------

ResourceInit ==
    /\ table = NoTable
    /\ \E size \in BufferSizes : Opened("resources", 0, size)

ReadDescriptor ==
    /\ Reading("resources")
    /\ u.offset < u.size
    /\ \E item \in Items :
        LET header == HeaderBytes(item.large)
        IN  /\ Copies(item)
            /\ u' = Advance(u, item.length + header)
            /\ due' = u'.offset
            /\ last' = Decoded("resource", item.of, item.length + header, item.size,
                               item.written + header)
    /\ UNCHANGED <<table, list, strayed, outer, status>>

DescriptorRaises ==
    /\ Reading("resources")
    /\ u.offset < u.size
    /\ \E item \in Items : ~Copies(item)
    /\ Raises

(* An item with no class: the rest of the buffer is returned, and nothing of *)
(* the descriptors before it.                                                *)
ReturnRest ==
    /\ Reading("resources")
    /\ u.offset < u.size
    /\ last' = NoRecord
    /\ status' = "done"
    /\ UNCHANGED <<table, list, u, due, strayed, outer>>

ResourcesEnd ==
    /\ Reading("resources")
    /\ u.offset >= u.size
    /\ Ends

ResourceNext ==
    ReadDescriptor \/ DescriptorRaises \/ ReturnRest \/ ResourcesEnd
=============================================================================
