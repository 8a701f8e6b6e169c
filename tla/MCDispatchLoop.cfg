SPECIFICATION FairSpec
CONSTANTS
    interactive = interactive
    background = background
    ffmpeg = ffmpeg
    Jobs = {interactive, background}
    Resources = {ffmpeg}
    Resource <- MCResource
    Permits <- MCPermits
    Rank <- MCRank
    MaxStartFailures = 1
    MaxTasks = 2
INVARIANTS
    ReleasedOnlyWhenIdle
PROPERTIES
    QueuedWorkIsServed
    ShutdownEndsTheLoop
CHECK_DEADLOCK FALSE
