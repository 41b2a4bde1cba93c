SPECIFICATION Spec
CONSTANTS
    a = a
    b = b
    ann = ann
    c1 = c1
    e1 = e1
    e2 = e2
    r1 = r1
    r2 = r2
    m = m
    n = n
    NoRow = NoRow
    Schools = {a, b}
    Lecturers = {ann}
    Numbers = {m, n}
    Courses = {c1}
    Exams = {e1, e2}
    Students = {1, 3}
    School <- TheSchool
    Matric <- TheMatric
    Owner <- TheOwner
    CourseOf <- OneCourse
    ExamSchool <- TheExamSchool
    Enrols = {r1, r2}
    Sender <- AllAnn
    List <- TheLists
    MaxFaults = 1
INVARIANTS
    Promised
    AttemptInSchool
    IInv
CHECK_DEADLOCK FALSE
