\* Liveness: subscriptions are served again after a loss, requests are answered.
CONSTANTS
    Sockets = {s1, s2}
    Timers = {t1}
    NoSocket = NoSocket
    NoTimer = NoTimer
    MaxChoices = {0, 1}
    AttemptLimit = 5
    CallbackApi = {}
    Topics = {a}
    NoTopic = NoTopic
    NoCallback = NoCallback
    Default = Default
    Owners = {"StreamlineClient", "TopicAdmin"}
    Requests <- OneOrTwoRequests
    Backlog = 1
SPECIFICATION ClientFairSpec
PROPERTIES
    SubscriptionResumes
    RequestAnswered
CHECK_DEADLOCK FALSE
