SPECIFICATION MCSpec
CONSTANTS
    Parts = {"runtime", "loader", "process", "keys", "dnd", "battery", "network", "cloud", "ota", "volume"}
    FrontApps = {"a1"}
    Listeners = {}
    Reasons = {"initiating", "welcoming", "hibernated"}
    MaxWakes = 1
    Operations = {"complete", "open", "close", "mute", "delegate"}
    MaxLogins = 2
    MaxSleeps = 1
    MaxResets = 1
    Packages = {"p1", "p2"}
    DbusApps = {"d1"}
    Skills = {"s1", "s2"}
    Hosts = {"h"}
    Manifests <- MCManifests
    MaxInstalls = 2
    MaxReloads = 2
    MaxForks = 2
    AppFaults = {"error"}
    Targets = {}
    LightTargets = {}
    Dispatches = {}
    Channels = {}
    Keys = {"mic", "vol"}
    KeyApps = {"a1"}
    Descriptors <- MCDescriptors
    Intervals = {2}
    MaxHeld = 6
    KeysAtOnce = 1
    DayHours = 5
    Windows <- MCWindows
    UserVolumes = {1, 3}
    DndVolume = 2
    DndEvents = {"restart", "use", "off"}
    SkillApps = {}
    Scripts = {}
    MaxRequests = 0
    MaxAnswers = 0
    MaxChains = 0
    ClientOps = {}
    Masters = {"m1"}
    MaxChanges = 3
    MaxBinds = 2
    Troubles = {}
    Handles = {"h1", "h2", "h3"}
    MaxAttempts = 3
    MaxBackoff = 2
    CloudOps = {"again"}
    Runs = {"r1", "r2"}
    OtaApp = "app"
    MaxVersion = 2
    MaxRuns = 3
    MaxCrashes = 1
    Levels = {5, 8, 9, 10, 20, 25}
    MaxTasks = 3
    BatteryOps = {"heat", "ask", "fails"}
    MaxAir = 1
    BtOps = {}
    MediaApps = {}
    MaxPlayers = 0
    MediaOps = {}
    LightApps = {}
    Lights = {"speaking"}
    SystemZ <- MCSystemZ
    CallsBack = {}
    MissingLights = {}
    FaultyLights = {}
    MaxPlays = 0
    MonthDays <- MCMonthDays
    WeekDays = 3
    Hours = 1
    Minutes = 1
    Seconds = 2
    StartDays = {1}
    Repeats = {"D", "WEEKEND"}
    Jobs = {}
    Reminders = {}
    Single = {}
    Created <- MCCreated
    Weekends = {}
    Sundays = {}
    MaxDue = 0
    MaxOps = 0
    AlarmOps = {}
    MaxCommands = 0
    RingTimes = 1
    TimerOps = {}
    MaxSleepCommands = 0
    SleepOps = {}
    TopLevel = 3
    DefaultLevel = 2
    MaxVolumeAsks = 4
    VolumeOps = {"top", "fails"}
INVARIANT RuntimeInv
INVARIANT LoaderInv
INVARIANT ExtAppInv
INVARIANT VolumesInv
INVARIANT BatteryInv
INVARIANT NetworkInv
INVARIANT CloudInv
INVARIANT OtaInv
PROPERTY KeyboardSafe
\* A part stops when what its bounds allow has been done.
CHECK_DEADLOCK FALSE
