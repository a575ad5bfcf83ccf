\* Any calls in any order on two layers, with an overlay that may fail.
SPECIFICATION Spec
CONSTANTS
    MaxLayerId = 2
    Areas = {0, 1, 2}
    Types <- ThreeTypes
    NULL = NULL
INVARIANTS
    TypeOK
    TypesAgreed
    OnePath
PROPERTIES
    FrameSpec
