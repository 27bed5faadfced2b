CONSTANTS
    Events = {e1, e2}
    Listeners = {l1, l2}
    NoListener = NoListener
SPECIFICATION FairDeliverySpec

PROPERTIES StoppedPumpsEnd
\* Starts and events run out: the model stops there.
CHECK_DEADLOCK FALSE
