SPECIFICATION FairSpec
CONSTANTS
    Me = "me"
    Order <- MCOrder
    MaxSeq = 3
    Rooms <- MCRooms
INVARIANTS Reopens
PROPERTIES SealsAreFinal SignsSafely CatchesUp
