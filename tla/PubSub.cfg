\* Two subscriptions and one lost connection; a poll waits as long as the
\* longest delay, as in tools/subscribe.c.  The second subscription names no method
\* to end it.  A closed client stops.
CONSTANTS
    MaxHandles = 2
    MaxDeaths = 1
    MaxInFlight = 2
    IdSpace = 4
    BackoffInitial = 1
    BackoffMax = 2
    IdleTimeout = 2
    PollTimeout = 2
    NoUnsubscribe = {2}
    None = None
SPECIFICATION FairSpec
INVARIANTS Routed NeverDeaf
PROPERTIES Reestablished
CHECK_DEADLOCK FALSE
