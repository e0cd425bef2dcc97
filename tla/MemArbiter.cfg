\* Two lines and two contents tell a wrong line or wrong data from the right ones.
SPECIFICATION LiveSpec
CONSTANTS
    Line = {a, b}
    Data = {d, e}
    MaxLat = 2
INVARIANTS
    TypeOK
    NoLostRequest
PROPERTIES
    ImplementsPort
    NoStarvation
