SPECIFICATION Spec
CONSTANTS
    RING_SIZE = 1
    MAXIMUM_INPUTS = 1
    MINIMUM_OUTPUTS = 2
    MAXIMUM_OUTPUTS = 2
    MAXIMUM_EXTRA_SIZE = 1
    MaxNonce = 2
    MaxEdits = 2
INVARIANTS
    ReadBack
    JsonReadBack
    CommittedAgrees
