\* Two channels on one connection.
SPECIFICATION Spec
CONSTANTS
    Conn = {k1}
    NoConn = NoConn
    Channel = {x1, x2}
    Repo = {r1}
    NoRepo = NoRepo
INVARIANTS
    TypeOK
    ClientSeesOneAnswer
PROPERTY ExecEndsClosed
