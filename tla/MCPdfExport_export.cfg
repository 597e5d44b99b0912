CONSTANTS
    r1 = r1
    r2 = r2
    Renders = {r1, r2}
    NoRender = NoRender
    cMaxConcurrentRenders = 1
    MaxPaused = 2
SPECIFICATION LiveSpec
INVARIANTS BrowsersBounded NothingLeftBehind RepliesMatch PrintedIsLoaded
PROPERTIES RequestsAnswered
