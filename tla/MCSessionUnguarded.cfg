SPECIFICATION Spec
CONSTANTS
    Sids = {s1, s2, s3}
    NoSid = NoSid
    Unnamed = {s3}
    Threshold = 2
    Durable = 1
    MaxLedger = 3
    NoEdit = NoEdit
INVARIANT LoginIsGuarded
