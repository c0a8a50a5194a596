CONSTANTS
    MaxWaiting = 1
    Loudest = 100
    Volumes <- TwoVolumes
    MaxEpochs = 1
    MaxVersion <- Five
    MaxEntries = 2
    MaxReplies = 1
    MaxReports = 1
SPECIFICATION Spec
INVARIANT VolumeFollows
CHECK_DEADLOCK FALSE
