\* Two checks and two threads for their reads, regular scans every two polls, deep
\* ones every five, two polls of backoff.
SPECIFICATION Spec
CONSTANTS
    c1 = c1
    c2 = c2
    Checks <- MCChecks
    Workers = 2
    RegularInterval = 2
    DeepInterval = 5
    Backoff = 2
INVARIANT NoStrayChecks
PROPERTY NoScanTooSoon
PROPERTY RegularsGoOn
PROPERTY DeepsGoOn
PROPERTY StopIsHeeded
PROPERTY DetectionEnds
