SPECIFICATION LiveSpec
CONSTANTS
    Order <- PortSizeLogin
    Boot = {"login"}
    Values = {554, 555, 556}
    Default = 554
    NoValue = NoValue
    ChangeCapacity = 4
    PortMayFail = TRUE
    ChangeSpaced = TRUE
    ChangeRequests = 3
PROPERTY RequestIsCarriedOut
INVARIANT SettledAgrees
\* Once the requests are used up and carried out, nothing is left to do.
CHECK_DEADLOCK FALSE
