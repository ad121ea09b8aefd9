CONSTANTS
    SmbiosSizes <- SmbiosSizesMC
    SmbiosLengths <- SmbiosLengthsMC
    SmbiosTypes <- SmbiosTypesMC
    MaxStrings = 1
    MpBaseLengths <- MpBaseLengthsMC
    MpExtendedLengths <- MpExtendedLengthsMC
    PirSizes <- PirSizesMC
    AcpiLists <- AcpiListsMC
    AcpiSizes <- AcpiSizesMC
    MaxCount = 2
    MaxNesting = 2
    MaxOvershoot = 4
    MaxEntries = 2
    MaxRepeats = 2
    BufferSizes <- BufferSizesMC
    Optional <- OptionalMC
    MaxInjections = 2
    CoreOf <- CoreOfMC
    McuTypes <- McuTypesMC
    McuFiles <- McuFilesMC
    MaxUpdates = 2
    Garbage <- GarbageMC
    RevisionBits = 2
SPECIFICATION Spec
INVARIANTS
    TablesTypeOK
    InStep
    DecodedExactly
    StructuresDecoded
    UpdatedAsReported
PROPERTIES
    RunsEnd
    TriggerOnlyAfterSuccess
