CONSTANTS
    SOF = 5
    Capability = 1
    Notify = 2
    Plain = 3
    Payloads <- MCPayloads
    MaxItems = 3
    MaxRecvs = 2
    Full = 8
    Undecodable = 7
    Catalogues <- MCCatalogues
    MaxGains = 2
    Nothing = Nothing
SPECIFICATION CodecSpec
INVARIANTS
    FramesArriveWhole
    CutsDoNotMatter
    OneReceiveIsLost
    ParsedIsSent
    StoreChangesGainsOnly
CHECK_DEADLOCK FALSE
