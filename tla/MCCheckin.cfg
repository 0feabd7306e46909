SPECIFICATION Spec
CONSTANTS
    Callers = {c1, c2}
    Viewers = {v1, v2}
    IdemKeys = {k1}
    NoIdem = NoIdem
SYMMETRY Symmetry
INVARIANTS CheckinInv CompletedIsCheckedIn
PROPERTY LostCheckinIsNotReposted
