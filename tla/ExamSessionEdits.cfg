SPECIFICATION Spec
CONSTANTS
    ada = ada
    r1 = r1
    r2 = r2
    s1 = s1
    s2 = s2
    q1 = q1
    e1 = e1
    e2 = e2
    NoSave = NoSave
    NoStart = NoStart
    Students = {ada}
    Starts = {r1}
    Owner <- OneStart
    Saves = {}
    Question <- NoSaves
    Edits = {e1, e2}
    Durations = {1, 2}
    MaxNow = 0
    MaxFaults = 0
PROPERTIES
    EditsOnlyDrafts
