\* Two files in windows of one; nothing is indexed twice without a change.
CONSTANTS
    Paths = {p, q}
    Window = 1
    MaxEvents = 3
    MaxChanges = 2
    Repeats = {}
SPECIFICATION Spec
INVARIANTS SkipIsSafe PlanApplied
PROPERTIES RowsGoLast Converges
