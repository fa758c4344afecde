SPECIFICATION Spec
CONSTANTS
    ReleaseFailures = {"aborts", "keeps_open"}
    PERSIST_BUSY_RETRY_ATTEMPTS = 1
    MaxTicks = 5
    MaxRead = 3
    MaxUtterances = 2
    max_buffer = 4
    keep_back = 1
    min_tail = 1
    min_speech = 2
    endpoint = 1
    pre_pad = 1
    VadModes = {TRUE, FALSE}
INVARIANTS
    UtteranceLifecycle
    CommittedOnce
    VoicedIsHeard
    UtterancesAtomic
