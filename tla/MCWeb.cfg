CONSTANTS
    Sockets = {s1, s2, s3}
    None = None
    Actions = {"connect", "chat", "disconnect", "error", "discconnect"}
    Stamps <- MCStamps
    MaxGot = 4
SPECIFICATION Spec
SYMMETRY Symmetry
INVARIANTS Held OneRoom Sorted
CHECK_DEADLOCK FALSE
