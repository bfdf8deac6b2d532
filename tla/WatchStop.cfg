\* Everything may go wrong, and one line fills a channel.
CONSTANTS
    MaxLines = 2
    Capacity = 1
    Faults = {"start", "crash", "scan", "store"}
SPECIFICATION FairSpec
INVARIANTS TypeOK CleanStopDrains NoChildLeft CtrlCIsNoDeath
PROPERTY Terminates
