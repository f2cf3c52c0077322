\* Two timers, one task beside the service, and its callbacks.
CONSTANTS
    User = {u1}  Service = service  Timeout = {1}
    MAX_RADIO_TIMERS = 2  MaxClock = 2  None = none
SPECIFICATION FairSpec
INVARIANT DueIsFired
PROPERTY ScansAPeriodApart ArmedFires
