SPECIFICATION SpecPaging
CONSTANTS
    TrendRow = {1, 2}
    Recent = {1}
    TrendScore = {25, 26}
    ArticleRow = {1}
    TimeOf <- MCTimeOf
    Scored <- MCScored
    Colon = {26}
    PageSize = {1}
    MaxFirstPages = 1
    MaxRescores = 2
INVARIANT CursorsAccepted
CHECK_DEADLOCK FALSE
