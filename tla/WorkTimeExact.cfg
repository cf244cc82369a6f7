\* Windows of up to four days over two rotations, without holidays.
SPECIFICATION WorkSpec
CONSTANTS
    DayLength = 4
    Rotations <- MCRotations
    RotationStart = 2
    Froms = {8, 9, 10, 11, 12, 13, 14, 15}
    Tos = {16, 17, 18, 19, 20, 21, 22, 23, 24}
    Holidays = {{}}
INVARIANT
    WorkingTimeExact
CHECK_DEADLOCK FALSE
