SPECIFICATION Spec
CONSTANTS
    t1 = t1 t2 = t2 t3 = t3 controller = controller nobody = nobody
    Threads = {t1, t2, t3}
    Gated = {t1, t2}
    Controller = controller
    Nobody = nobody
    MaxNotify = 2
    MaxWakeups = 2
INVARIANTS
    NoLostWakeup
    FieldsInPlace
    JoinedOnce
PROPERTIES
    CallsReturn
    KeepsGate
