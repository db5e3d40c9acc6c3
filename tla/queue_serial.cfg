\* Serialisation, order, coalescing, the coordination lock and the refinement.
SPECIFICATION Spec
CONSTANTS
    Scopes = {s1, s2}
    s1 = s1
    s2 = s2
    UpdateSystem = UpdateSystem
    Probers = {}
    MaxJobs = 3
    MaxChanges = 1
    MaxFaults = 0
    MaxRestarts = 1
SYMMETRY Symmetry
INVARIANTS
    QueueSafe
    CoalescedRequestServed
    UpdateExcludesWork
PROPERTIES
    ImplementsSerialQueue
