SPECIFICATION Spec
CONSTANTS
    Tids = {t1, t2}
    Lengths = {2, 4}
    Wrap = 4
    TFTP_MAX_RETRIES = 3
    t1 = t1
    t2 = t2
    Uploads <- MCUploads
    MaxBytes = 3
    DataLimit = 12
INVARIANTS
    TransferInv
    ScpInv
PROPERTY TransfersEnd
CHECK_DEADLOCK FALSE
