SPECIFICATION MCSpec
CONSTANTS
    Parts = {"session", "dispatch", "client", "bluetooth", "media", "light", "cron", "alarm", "timer", "sleep"}
    FrontApps = {"a1"}
    Listeners = {"l1"}
    Reasons = {"initiating", "welcoming", "hibernated"}
    MaxWakes = 1
    Operations = {"open", "close", "delegate", "mute", "disable", "app", "complete"}
    MaxLogins = 0
    MaxSleeps = 0
    MaxResets = 0
    Packages = {}
    DbusApps = {}
    Skills = {}
    Hosts = {}
    Manifests = {}
    MaxInstalls = 0
    MaxReloads = 0
    MaxForks = 0
    AppFaults = {}
    Targets = {"t1", "t2"}
    LightTargets = {"t1"}
    Dispatches = {1, 2}
    Channels <- MCChannels
    Keys = {}
    KeyApps = {}
    Descriptors = {}
    Intervals = {}
    MaxHeld = 0
    KeysAtOnce = 0
    DayHours = 5
    Windows <- MCWindows
    UserVolumes = {1, 3}
    DndVolume = 2
    DndEvents = {}
    SkillApps = {"a1", "a2"}
    Scripts <- MCScripts
    MaxRequests = 2
    MaxAnswers = 1
    MaxChains = 3
    ClientOps = {"exit", "quiet"}
    Masters = {}
    MaxChanges = 0
    MaxBinds = 0
    Troubles = {}
    Handles = {}
    MaxAttempts = 0
    MaxBackoff = 2
    CloudOps = {}
    Runs = {}
    OtaApp = "app"
    MaxVersion = 1
    MaxRuns = 0
    MaxCrashes = 0
    Levels = {10}
    MaxTasks = 0
    BatteryOps = {}
    MaxAir = 3
    BtOps = {"call", "music", "cover", "quiet"}
    MediaApps = {"a1", "a2"}
    MaxPlayers = 2
    MediaOps = {"multiple", "reset"}
    LightApps = {"a1", "a2"}
    Lights = {"awake", "loading", "speaking", "missing"}
    SystemZ <- MCSystemZ
    CallsBack = {"loading"}
    MissingLights = {"missing"}
    FaultyLights = {}
    MaxPlays = 3
    MonthDays <- MCMonthDays
    WeekDays = 3
    Hours = 2
    Minutes = 2
    Seconds = 3
    StartDays = {2}
    Repeats = {"D", "WEEKEND"}
    Jobs = {"j1", "j2"}
    Reminders = {"j1"}
    Single = {"j1"}
    Created <- MCCreated
    Weekends = {}
    Sundays = {}
    MaxDue = 2
    MaxOps = 1
    AlarmOps = {}
    MaxCommands = 4
    RingTimes = 2
    TimerOps = {"follow", "slow"}
    MaxSleepCommands = 4
    SleepOps = {"fails"}
    TopLevel = 1
    DefaultLevel = 1
    MaxVolumeAsks = 0
    VolumeOps = {}
INVARIANT TurenInv
INVARIANT DispatcherInv
INVARIANT ClientInv
INVARIANT BluetoothInv
INVARIANT MediaInv
INVARIANT LightInv
INVARIANT TimesInv
PROPERTY CronSafe
\* A part stops when what its bounds allow has been done.
CHECK_DEADLOCK FALSE
