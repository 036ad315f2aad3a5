\* Two operators and two background walks contend for one title.
SPECIFICATION FairSpec
CONSTANTS
    Titles = {t1}
    Background = {b1, b2}
    Operators = {o1, o2}
    Slots = {s1, s2, s3}
    Tokens = {k1, k2}
    MaxRss = 2
    None = None
INVARIANTS IInv OneWalkPerTitle HolderBehindQueueYields
PROPERTIES CancelsOnlyTheHolder NoWalkStartsUnderRss OperatorServed RssWindsUpCycle
