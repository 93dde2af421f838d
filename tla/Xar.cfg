CONSTANTS
    WideNames <- MCWideNames
    DefaultRsize = 2
    Libraries = {"bzip2"}
    Source <- MCSource
    Euid = "7"
    Passwd <- MCPasswd
    Programs <- MCPrograms
SPECIFICATION Spec
INVARIANTS RoundTrip WalkComplete ExtractSound
CHECK_DEADLOCK FALSE
