\* One update while a catalog discovery is under way.
SPECIFICATION OpSpec
CONSTANTS
    OpVersions = 2
    OpRefreshes = 2
    OpRuns = 2
INVARIANT RefreshSeesEffect
CHECK_DEADLOCK FALSE
