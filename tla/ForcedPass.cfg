\* One file, a forced pass over it and one failure.
CONSTANTS
    Paths = {p}
    Window = 1
    MaxEvents = 1
    MaxChanges = 1
    Repeats = {"force"}
SPECIFICATION Spec
INVARIANT LostFilesRetried
