SPECIFICATION WaiterSpec
CONSTANTS
    c1 = c1
    c2 = c2
    c3 = c3
    Callers <- MCCallers
    Controlled <- MCControlled
    MaxTickets = 4
PROPERTIES NoOvertaking ImplementsFifoLock StoppedWaiterLeaves EveryWaiterAnswered
CHECK_DEADLOCK FALSE
