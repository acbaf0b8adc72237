SPECIFICATION BuilderSpec
CONSTANTS
    sda = sda
    sdb = sdb
    size1 = size1
    serial1 = serial1
    model1 = model1
    Blank = Blank
    data1 = data1
    data2 = data2
    uuid1 = uuid1
    NoIdent = NoIdent
    NoUuid = NoUuid
    DiskSizes <- MCSizes
    Serials <- MCSerials
    Models <- MCModels
    Idents <- MCIdents
    Uuids <- MCUuids
    Paths <- TwoPaths
    Devices <- DataDevices
    OfferedPurposes <- DataPurposes
    OfferedLayouts <- MCLayouts
    OfferedFilesystems <- MCFilesystems
    MaxDisks = 2
    Settings = {"valid", "other", "invalid"}
    GoodSettings = {"valid", "other"}
    DefaultSettings = "valid"
INVARIANTS
    GeneratedMatchesDevices
