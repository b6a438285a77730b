SPECIFICATION ListSpec
CONSTANTS
    Slug = {a, b}
    Call = {c1, c2}
    NoSlug = NoSlug
    MaxFetches = 3
INVARIANT ListIsOfTheLastFetch
CHECK_DEADLOCK FALSE
