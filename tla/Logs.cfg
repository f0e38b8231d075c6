SPECIFICATION Spec
CONSTANTS
    DockerKey = {web}
    PidKey = {dev}
    DockerClient = TRUE
    TraceProcessLogs = TRUE
    MaxPublish = 3
CHECK_DEADLOCK FALSE
INVARIANTS
    TypeOK
    OneFollower
    FollowersAreRead
    PublishedAreFollowed
