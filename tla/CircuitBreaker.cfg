SPECIFICATION BreakerSpec
CONSTANTS
    api = api
    mcp = mcp
    t1 = t1
    t2 = t2
    Instance = {api, mcp}
    Thread = {t1, t2}
    Deployment <- MCDeployment
    Threshold = 2
CHECK_DEADLOCK FALSE
INVARIANT OpenIsStamped
PROPERTIES ProbeSettles RefusalsStop
