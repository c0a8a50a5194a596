CONSTANTS
    MaxWaiting = 1
    Loudest = 100
    Volumes <- OneVolume
    MaxEpochs = 1
    MaxVersion <- Five
    MaxEntries = 2
    MaxReplies = 1
    MaxReports = 1
SPECIFICATION Spec
INVARIANT SpeakersFollow
CHECK_DEADLOCK FALSE
