CONSTANTS
    Owners = {"o"}
    Roles = {"Window"}
    MAX_SURFACES = 2
    MAX_DISPLAY_EVENTS = 2
    Rects <- SmallRects
    MaxSurfaceId = 2
    MaxCommits = 2
    MaxSerial = 4
    APP_COUNT = 2
    Enabled = {0, 1}
    MaxInstalled = 1
    LAUNCHER_CAPACITY = 2
    LAUNCHER_COLUMNS = 1
    SCREEN_WIDTH = 11
    SCREEN_HEIGHT = 8
    GRAB = 3
    CONTROLS = 2
    TITLE_KEPT = 2
    MIN_WIDTH = 7
    MIN_HEIGHT = 5
    MARGIN = 1
    TitleHeights = {1, 3}
    Allowances = {0, 5}
    SnapDistances = {2}
    Thicknesses = {1}
    Steps <- SmallSteps
    Visits <- SmallVisits
    MaxChanges = 2
    WindowSizes <- Sizes
    Addresses <- SmallAddresses
    VIDEO_HOST = "video"
    WIKI_HOST = "wiki"
    Links <- SmallLinks
    NoUrl = NoUrl
    BROWSER_TAB_CAPACITY = 2
    BROWSER_HISTORY_CAPACITY = 2
    BROWSER_BOOKMARK_CAPACITY = 1
    MAX_BROWSER_REDIRECTS = 1
    MAX_BROWSER_AUTO_RESOURCES = 1
    Manifests <- SmallManifests
    FindHits <- SmallHits
    Ids = {"a", "b"}
    Programs <- SmallPrograms
    Sheets <- SmallSheets
    MAX_SCRIPT_STATEMENTS = 4
    MAX_BROWSER_SCRIPTS = 2
    MAX_CLICK_HANDLERS = 2
    MAX_WEB_API_REQUESTS = 1
    MAX_STYLE_RULES = 2
    MaxClicks = 1
    MaxOrder = 2
    SNAKE_WIDTH = 6
    SNAKE_HEIGHT = 4
    SNAKE_CAPACITY = 4
    FoodAhead = 2
    SCORE_MAX = 1
    TSC_HZ_GAMES = 10
    Points <- SmallPoints
    Elapsed = {1}
SPECIFICATION DesktopSpec
INVARIANTS
    DeskConsistent
    PageHolds

    
    
    
    
CHECK_DEADLOCK FALSE
