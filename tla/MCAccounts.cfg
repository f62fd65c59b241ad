\* Two requests at once, two users, two organizations and a project that may be deleted.
SPECIFICATION Spec
CONSTANTS
    None = None
    Deleted = Deleted
    Client = {c1, c2}
    User = {u1, u2}
    Org = {o1, o2}
    Team = {t1}
    Project = {p1}
CONSTRAINT FewRows
SYMMETRY Interchangeable
INVARIANTS
    TypeOK
    TokensBacked
    OneFounder
    ServesOwnProject
PROPERTY OrphansStayOrphans
