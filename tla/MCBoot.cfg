\* One request at a time: two share nothing but the circuit.
SPECIFICATION Server
CONSTANT Request = {q1}
INVARIANTS
    ServerTypeOK
    OKMeansAllPassed
    OKMeansServing
PROPERTIES
    AlwaysAnswered
    ProbeNotStranded
    StoppedServerEndsProcess
