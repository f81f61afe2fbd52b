SPECIFICATION LiveSpec
CONSTANTS
    Absent = "absent"
    Torn = "torn"
    Drops <- MCDrops
    Configs = {"b"}
    Direct = {"d"}
    Foreign = {"f"}
    MaxHeight = 2
    MaxRound = 0
    MaxRetained = 2
    MaxSeen = 3
    Lives <- MCLives
INVARIANTS DurableFirst
PROPERTIES Answered SubmissionsSettle
CHECK_DEADLOCK FALSE
