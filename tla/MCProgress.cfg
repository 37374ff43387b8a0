SPECIFICATION MCSpec
CONSTANTS
    Parts = {"runtime", "session", "process", "dispatch", "client", "network", "cloud", "battery", "bluetooth", "light", "cron", "alarm", "timer", "sleep", "volume"}
    FrontApps = {"a1"}
    Listeners = {}
    Reasons = {"initiating", "welcoming", "hibernated"}
    MaxWakes = 1
    Operations = {"complete"}
    MaxLogins = 1
    MaxSleeps = 1
    MaxResets = 0
    Packages = {}
    DbusApps = {}
    Skills = {}
    Hosts = {}
    Manifests = {}
    MaxInstalls = 0
    MaxReloads = 0
    MaxForks = 1
    AppFaults = {"hang", "error", "exit"}
    Targets = {"t1", "t2"}
    LightTargets = {"t1"}
    Dispatches = {1, 2}
    Channels <- MCChannels
    Keys = {}
    KeyApps = {}
    Descriptors = {}
    Intervals = {}
    MaxHeld = 0
    KeysAtOnce = 0
    DayHours = 5
    Windows <- MCWindows
    UserVolumes = {1, 3}
    DndVolume = 2
    DndEvents = {}
    SkillApps = {"a1", "a2"}
    Scripts <- MCTtsScripts
    MaxRequests = 2
    MaxAnswers = 0
    MaxChains = 3
    ClientOps = {"exit", "error", "pause"}
    Masters = {"m1"}
    MaxChanges = 2
    MaxBinds = 1
    Troubles = {}
    Handles = {"h1", "h2", "h3"}
    MaxAttempts = 2
    MaxBackoff = 2
    CloudOps = {"again"}
    Runs = {}
    OtaApp = "app"
    MaxVersion = 1
    MaxRuns = 0
    MaxCrashes = 0
    Levels = {5, 10, 20, 25}
    MaxTasks = 2
    BatteryOps = {"ask"}
    MaxAir = 3
    BtOps = {"music"}
    MediaApps = {}
    MaxPlayers = 0
    MediaOps = {}
    LightApps = {"a1"}
    Lights = {"awake", "loading", "speaking", "missing"}
    SystemZ <- MCSystemZ
    CallsBack = {"loading"}
    MissingLights = {"missing"}
    FaultyLights = {}
    MaxPlays = 3
    MonthDays <- MCMonthDays
    WeekDays = 3
    Hours = 1
    Minutes = 2
    Seconds = 3
    StartDays = {2}
    Repeats = {"D", "WEEKEND"}
    Jobs = {"j1", "j2"}
    Reminders = {"j1"}
    Single = {"j1"}
    Created <- MCCreated
    Weekends = {}
    Sundays = {}
    MaxDue = 1
    MaxOps = 1
    AlarmOps = {}
    MaxCommands = 2
    RingTimes = 2
    TimerOps = {"fails"}
    MaxSleepCommands = 3
    SleepOps = {"fails"}
    TopLevel = 2
    DefaultLevel = 1
    MaxVolumeAsks = 2
    VolumeOps = {}
PROPERTY VoiceIsAnswered
PROPERTY AppsAnswer
PROPERTY DeviceComesUp
PROPERTY OutputGivesWay
PROPERTY AlarmsRing
\* A part stops when what its bounds allow has been done.
CHECK_DEADLOCK FALSE
