\* send() may throw; the application also calls back, connect() included, from
\* inside on_state_change("Reconnecting") of schedule_reconnect and
\* on_state_change("Disconnected") of fail_reconnect.
CONSTANTS
    Sockets = {s1, s2}
    Timers = {t1, t2}
    NoSocket = NoSocket
    NoTimer = NoTimer
    MaxChoices = {0, 1}
    AttemptLimit = 5
    CallbackApi = {"connect", "disconnect", "set_auto_reconnect", "set_max_reconnect_attempts", "subscribe", "unsubscribe", "free"}
    Topics = {a, b}
    NoTopic = NoTopic
    NoCallback = NoCallback
    Default = Default
    Owners = {"StreamlineClient"}
    Requests <- NoRequests
    Backlog = 1
SPECIFICATION ClientSpec
SYMMETRY Perms
INVARIANTS
    NoLostSubscription
    NoGhostSubscription
    RecordsReachTheirCallback
    ReplayHasItsCallback
    NoOrphanSocket
    TimerIsRecorded
    DisconnectIsFinal
    OpenIsConnected
PROPERTY UnwantedIsCancelled
CHECK_DEADLOCK FALSE
