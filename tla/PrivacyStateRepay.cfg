SPECIFICATION Spec
CONSTANTS
    ClientId = {w1, w2}
    Anonymous = Anonymous
    LivenessTimeout = 1
    MaxLag = 0
    MaxConnections = 2
    MaxSequence = 1
SYMMETRY ClientSymmetry
PROPERTIES
    ExistingClientCannotRepay
