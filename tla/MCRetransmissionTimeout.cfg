\* SIPTimers defaults in units of 0.5 s: T1 = 0.5 s, T2 = 4 s; the code's cap.
CONSTANTS
    T1 = 1
    T2 = 8
    MaxRetransmissions = 7
    MaxLoss = 9
    Latencies = {1, 3}
    RingTime = 20
SPECIFICATION Spec
\* A transaction's life ends: cleaned up, or ACCEPTED after Timer L.
CHECK_DEADLOCK FALSE
INVARIANTS
    UnansweredEndsInTimeout
