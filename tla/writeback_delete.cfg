SPECIFICATION Spec
CONSTANTS
    Keys = {k1}
    Objects = {1, 2}
    Lens = {1, 3}
    SizeLimit = 2
    Attempts = 1
    Through = {}
    Faulty = {}
    MaxRestarts = 0
PROPERTY
    DeleteFinal
CHECK_DEADLOCK FALSE
