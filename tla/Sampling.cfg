CONSTANTS
    RawReadings = {0, 3, 26000}
    Lights <- MCLights
SPECIFICATION Spec
INVARIANTS SensorsFollowMode MovementKept OutsideRight
