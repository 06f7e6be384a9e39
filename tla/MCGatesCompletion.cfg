\* One chat and an editor beside it: is what ends as complete what was reviewed?
CONSTANTS
    Calls = {c1, c2}
    Decisions = {d1}
    Answers = {a1, a2}
    NoAnswer = none
    MaxEdits = 3
SPECIFICATION GatesSpec
PROPERTY CompleteIsAsReviewed
CHECK_DEADLOCK FALSE
