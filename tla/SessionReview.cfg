CONSTANTS
    MaxJobs = 2
    MaxStarts = 3
    MaxOpens = 3
    w1 = w1
    w2 = w2
    a = a
    b = b
    c = c
    absent = absent
    torn = torn
SPECIFICATION SessionSpec
SYMMETRY Symmetry
PROPERTY RefusesChanged
CHECK_DEADLOCK FALSE
