SPECIFICATION PageSpec
CONSTANTS
    sda = sda
    sdb = sdb
    size1 = size1
    serial1 = serial1
    model1 = model1
    Blank = Blank
    data1 = data1
    data2 = data2
    uuid1 = uuid1
    uuid2 = uuid2
    NoIdent = NoIdent
    NoUuid = NoUuid
    DiskSizes <- MCSizes
    Serials <- MCSerials
    Models <- MCModels
    Idents <- MCIdents
    Uuids <- MCUuids
    Paths <- OnePath
    Devices <- RecordDevices
    OfferedPurposes <- AllPurposes
    OfferedLayouts <- AllLayouts
    OfferedFilesystems <- AllFilesystems
    MaxDisks = 1
INVARIANTS
    PageTypeOK
    RecordsAreSound
PROPERTIES
    NoSilentFormat
