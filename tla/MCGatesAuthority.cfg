\* One chat with two calls beside each other: does one gate permit one write?
CONSTANTS
    Calls = {c1, c2}
    Decisions = {d1}
    Answers = {a1, a2}
    NoAnswer = none
    MaxEdits = 3
SPECIFICATION GatesSpec
PROPERTY OneWritePerGate
CHECK_DEADLOCK FALSE
