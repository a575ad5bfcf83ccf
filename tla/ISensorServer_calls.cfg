\* Two clients call while the service changes, dies and restarts, and any
\* transaction may fail.
SPECIFICATION Spec
CONSTANTS
    NULL = NULL
    Descriptor = Descriptor
    Garbage = Garbage
    accelerometer = accelerometer
    light = light
    ring = ring
    Clients = {c1, c2}
    Names = {n1, n2}
    Ints = {zero, one}
    Zero = zero
    Sensors = {accelerometer, light, ring}
    SensorList <- TwoSensors
    DynamicLists <- Rings
INVARIANTS
    TypeOK
    ArgumentsIntact
PROPERTIES
    CallSpec
