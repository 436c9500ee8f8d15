SPECIFICATION FormSpec
CONSTANTS
    a = a
    b = b
    p1 = p1
    p2 = p2
    none = none
    Forms <- MCForms
    Photos <- MCPhotos
    NoForm = none
    MaxMade = 2
SYMMETRY FormsAlike
INVARIANT WaitingPhotosGoUp
CHECK_DEADLOCK FALSE
