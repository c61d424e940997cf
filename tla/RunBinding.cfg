SPECIFICATION Spec
CONSTANTS
    Procs = {p1, p2}
    Plans = {h1}
    Bindings = {b1, b2}
    NoBinding = NoBinding
    NoAnswer = NoAnswer
    MaxBinds = 4
    MaxCrashes = 1
INVARIANTS RecordedOnce CorrectsAnother AnswersOnRecord
SYMMETRY Symmetry
