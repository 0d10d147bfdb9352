SPECIFICATION AckDataSpec
CONSTANTS
    Keys = {1, 2, 3, 4}
    CAPACITY = 3
    Methods = {"THREAD", "ZIGBEE", "ALWAYS_1"}
    Elements <- TwoKinds
    MAX_ACK_IE_SIZE = 2
    torn = torn
    none = none
INVARIANTS
    AcksCarryWhatWasSet
    NoWastedPlace
PROPERTIES
    LookupsAtomic
