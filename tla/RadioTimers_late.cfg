\* The clock moves between its reading and the firing.
CONSTANTS
    User = {u1}  Service = service  Timeout = {1, 2}
    MAX_RADIO_TIMERS = 1  MaxClock = 4  None = none
SPECIFICATION Spec
PROPERTY FiredAPeriodApart
