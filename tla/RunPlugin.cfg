SPECIFICATION Spec
CONSTANTS
    Claims = {c1, c2}
    Scrapers = {s1}
    MaxHandled = 3
    MaxSignals = 2
    MaxFatal = 2
INVARIANTS
    StopLeavesNoServer
    ReturnsDrained
    MetricsOutliveCalls
    CountersMatchAnswers
PROPERTIES
    FirstSignalIsGraceful
    StopsWhenAsked
