\* Two workers: channels of four; six requests fill either of them.
CONSTANTS
    Workers = {w1, w2}
    Requests = 6
    Statuses = {200, 0}
SPECIFICATION FairSpec
INVARIANTS TypeOK EachRequestOnce NoSendOnClosed SummaryIsComplete
PROPERTY Terminates
