\* Two processes that check for an update at the same time.
SPECIFICATION NoticeSpec
CONSTANTS
    Procs = {p1, p2}
    Interval = 2
    Current = 1
    Latest = 2
    MaxClock = 4
PROPERTY AskedOncePerDay
