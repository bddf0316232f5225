\* Five events overrun one window twice; three timers: one armed, two fired.
SPECIFICATION FairSpec
CONSTANTS
    Events = {e1, e2, e3, e4, e5}
    MinInterval = 2
    TimerIds = {t1, t2, t3}
    NoTimer = NoTimer
CHECK_DEADLOCK FALSE
INVARIANTS TypeOK EventsKept TimerClosesWindow
PROPERTIES EarlyOnlyByOrphan EveryEventPosted
