SPECIFICATION Spec
CONSTANTS
    Session = {s1, s2}
    Days = 1
    Programme = {deepdive, extra}
    Regular = regular
    MaxPress = 2
    MaxOutside = 0
    MaxFault = 0
PROPERTIES
    NeverClobbers
CHECK_DEADLOCK FALSE
