CONSTANTS
    none = none
    all = all
    tech = tech
    a = a
    Feed = {none, all, tech}
    KeyOf <- MCKeyOf
    Key = {all, tech}
    WarmKey = {tech}
    Limit = {20}
    Request = {a}
    MaxVersion = 1
SPECIFICATION FairSpec
INVARIANTS TypeOK AnswersStayInFeed RefreshHoldsUnlessRaced
PROPERTY StaleFeedsGoAway
