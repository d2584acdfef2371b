\* Two personas that can share a name or a type, so a find can match both
\* while the caller's buffer holds one; two clients, one process; at most
\* three references on a persona.
CONSTANTS
    Personas = {pa, pb}
    Clients = {c1, c2}
    Pids = {pid1}
    Names = {n1, n2}
    Types = {guest, managed}
    MaxRef = 3
    MaxPlen = 1
    NONE = NONE
SPECIFICATION Spec
INVARIANTS
    TypeOK
    RefcountExact
