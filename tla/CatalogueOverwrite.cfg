\* Expected to fail: two create calls of one one-time product both find it
\* absent, and the second replaces what the first created.
CONSTANTS
    Calls = {c1, c2}
    monthly = monthly
    yearly = yearly
    Pids = {monthly, yearly}
    Requests <- MCRequests
    MaxRetries = 1
    MaxFaults = 0
    MaxEdits = 1
    None = None
SPECIFICATION Spec
PROPERTY NeverReplaces
CHECK_DEADLOCK FALSE
