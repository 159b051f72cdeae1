SPECIFICATION FairSpec
CONSTANTS
    App = App
    Menu = Menu
    Applications = Applications
    Desktop = Desktop
    Client = {c1}
    MAGIC = MAGIC
    NULL = NULL
    Thread = {App, Menu, Applications}
    Joined = {Menu, Applications}
    LoaderQueueSize = 1
    LAUNCH_MAX = 1
    MaxChoices = 5
    Names <- SomeNames
INVARIANTS
    AppClosedGenuine
    LockExact
    DesktopKnows
PROPERTIES
    CallsReturn
    BrowserComesBack
\* Nothing happens after the last choice or a failed furi_check.
CHECK_DEADLOCK FALSE
