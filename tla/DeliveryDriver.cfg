SPECIFICATION LiveSpec
CONSTANTS
    o = o  m = m
    Devices = {o, m}
    Owner = o
    Page = 2
    Rooms <- MCRooms
INVARIANTS EvidenceIsTrue DecryptableOrder
PROPERTIES Converges
