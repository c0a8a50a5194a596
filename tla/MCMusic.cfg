CONSTANTS
    MaxWaiting = 1
    Loudest = 100
    Volumes <- OneVolume
    MaxEpochs = 2
    MaxVersion <- OneThenFour
    MaxEntries = 3
    MaxReplies = 2
    MaxReports = 1
SPECIFICATION Spec
INVARIANTS TypeOK EachPlayOnce FollowsUnlessOvertaken
CHECK_DEADLOCK FALSE
