SPECIFICATION Spec
CONSTANTS
    Requests = {r1, r2}
    Rules = {rule}
    NoRule = NoRule
    Limits = {1, 2}
PROPERTY
    EveryRequestIsRecorded
