\* connect() is called from on_state_change, inside schedule_reconnect and
\* fail_reconnect.
CONSTANTS
    Sockets = {s1, s2, s3}
    Timers = {t1, t2}
    NoSocket = NoSocket
    NoTimer = NoTimer
    MaxChoices = {0, 1}
    AttemptLimit = 5
    CallbackApi = {"connect"}
SPECIFICATION Spec
SYMMETRY Perms
INVARIANT NotStranded
CHECK_DEADLOCK FALSE
