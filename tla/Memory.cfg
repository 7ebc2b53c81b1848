CONSTANTS
    Addrs <- MCAddrs
    Confs <- MCConfs
    Nibbles = {0, 1}
    CardBytes = {0}
SPECIFICATION Spec
INVARIANTS DecodersAgree CleanCardIsSaved
