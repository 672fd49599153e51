SPECIFICATION Spec
CONSTANTS
    MaxSeq = 7
    Bits = 2
    Slack = 1
INVARIANTS WindowRemembers GenuineTrafficSurvives FirstArrivalIsTaken
PROPERTY Promise
CHECK_DEADLOCK FALSE
