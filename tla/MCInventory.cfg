SPECIFICATION Spec
CHECK_DEADLOCK FALSE
CONSTANTS
    Infix <- MCInfix
    RetryCount = 1
    Faults = {"command_timeout", "host_unreachable", "noisy"}
    Profile = "poc"
    Required = {"ssh_run", "ssh_read_file"}
    PreferredLanguage = "ru"
    NameOrder <- MCNameOrder
    FactOrder <- MCFactOrder
    HostOrder <- MCHostOrder
    Initial <- MCInitial
    Rows <- MCRows
    Catalogs <- MCCatalogs
    ToolFiles <- MCToolFiles
    InitialCatalog <- Shipped
    InitialTools <- MCTools
    MaxAnalyses = 2
    MaxMishaps = 2
INVARIANTS
    OneVariant
    SnapshotsAgree
    RunsPinnedPolicy
PROPERTIES
    PostgresIsAudited
    EveryGapPlanned
    DefiniteStays
    StartedIsCurrent
