SPECIFICATION MCSpec
CONSTANTS
    Parts = {"loader"}
    FrontApps = {}
    Listeners = {}
    Reasons = {"initiating", "welcoming", "hibernated"}
    MaxWakes = 0
    Operations = {}
    MaxLogins = 0
    MaxSleeps = 0
    MaxResets = 0
    Packages = {"p1", "p2"}
    DbusApps = {"d1"}
    Skills = {"s1", "s2"}
    Hosts = {"h"}
    Manifests <- MCManifests
    MaxInstalls = 1
    MaxReloads = 2
    MaxForks = 0
    AppFaults = {}
    Targets = {}
    LightTargets = {}
    Dispatches = {}
    Channels = {}
    Keys = {}
    KeyApps = {}
    Descriptors = {}
    Intervals = {}
    MaxHeld = 0
    KeysAtOnce = 0
    DayHours = 5
    Windows <- MCWindows
    UserVolumes = {1, 3}
    DndVolume = 2
    DndEvents = {}
    SkillApps = {}
    Scripts = {}
    MaxRequests = 0
    MaxAnswers = 0
    MaxChains = 0
    ClientOps = {}
    Masters = {}
    MaxChanges = 0
    MaxBinds = 0
    Troubles = {}
    Handles = {}
    MaxAttempts = 0
    MaxBackoff = 2
    CloudOps = {}
    Runs = {}
    OtaApp = "app"
    MaxVersion = 1
    MaxRuns = 0
    MaxCrashes = 0
    Levels = {10}
    MaxTasks = 0
    BatteryOps = {}
    MaxAir = 1
    BtOps = {}
    MediaApps = {}
    MaxPlayers = 0
    MediaOps = {}
    LightApps = {}
    Lights = {"speaking"}
    SystemZ <- MCSystemZ
    CallsBack = {}
    MissingLights = {}
    FaultyLights = {}
    MaxPlays = 0
    MonthDays <- MCMonthDays
    WeekDays = 3
    Hours = 1
    Minutes = 1
    Seconds = 2
    StartDays = {1}
    Repeats = {"D", "WEEKEND"}
    Jobs = {}
    Reminders = {}
    Single = {}
    Created <- MCCreated
    Weekends = {}
    Sundays = {}
    MaxDue = 0
    MaxOps = 0
    AlarmOps = {}
    MaxCommands = 0
    RingTimes = 1
    TimerOps = {}
    MaxSleepCommands = 0
    SleepOps = {}
    TopLevel = 1
    DefaultLevel = 1
    MaxVolumeAsks = 0
    VolumeOps = {}
INVARIANT NobodySkipped
\* A part stops when what its bounds allow has been done.
CHECK_DEADLOCK FALSE
