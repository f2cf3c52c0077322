\* A timer is deleted between the mask and its callback.
CONSTANTS
    User = {u1}  Service = service  Timeout = {1}
    MAX_RADIO_TIMERS = 1  MaxClock = 1  None = none
SPECIFICATION Spec
INVARIANT CalledTimerExists
