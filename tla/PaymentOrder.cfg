CONSTANTS
    addon1 = addon1
    tierA = tierA
    tierB = tierB
    Orders = {addon1, tierA, tierB}
    Addon = {addon1}
    Target <- MCTarget
    Handlers = {h1, h2}
    NoOrder = NoOrder
    MaxFaults = 1
SPECIFICATION Spec
INVARIANTS CreditedOnce PaidBeforeDelivered AckedOnlyDelivered
PROPERTIES PaidIsDelivered Settles
CHECK_DEADLOCK FALSE
