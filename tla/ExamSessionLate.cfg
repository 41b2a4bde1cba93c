SPECIFICATION Spec
CONSTANTS
    ada = ada
    r1 = r1
    r2 = r2
    s1 = s1
    s2 = s2
    q1 = q1
    e1 = e1
    NoSave = NoSave
    NoStart = NoStart
    Students = {ada}
    Starts = {r1}
    Owner <- OneStart
    Saves = {s1}
    Question <- OneSave
    Edits = {e1}
    Durations = {1}
    MaxNow = 2
    MaxFaults = 0
PROPERTIES
    NoWritePastDeadline
