\* on_state_change makes any call but connect() from inside schedule_reconnect and
\* fail_reconnect.
CONSTANTS
    Sockets = {s1, s2, s3}
    Timers = {t1, t2}
    NoSocket = NoSocket
    NoTimer = NoTimer
    MaxChoices = {0, 1, 2}
    AttemptLimit = 5
    CallbackApi = {"disconnect", "set_auto_reconnect", "set_max_reconnect_attempts", "free"}
SPECIFICATION FairSpec
INVARIANTS
    StateMatchesSocket
    GivingUpIsFinal
PROPERTIES
    KeepsContract
    ReconnectingEnds
CHECK_DEADLOCK FALSE
