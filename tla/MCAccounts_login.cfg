\* One request at a time is enough: register, then log in.
SPECIFICATION Spec
CONSTANTS
    None = None
    Deleted = Deleted
    Client = {c1}
    User = {u1}
    Org = {o1}
    Team = {t1}
    Project = {p1}
PROPERTY LoginAnswers
