SPECIFICATION Spec
CONSTANTS
    App = App
    Menu = Menu
    Applications = Applications
    Desktop = Desktop
    Client = {c1}
    MAGIC = MAGIC
    NULL = NULL
    Thread = {App, Menu, Applications}
    Joined = {Menu, Applications}
    LoaderQueueSize = 1
    LAUNCH_MAX = 1
    MaxChoices = 2
    Names <- SomeNames
INVARIANT AnimationInTime
CHECK_DEADLOCK FALSE
