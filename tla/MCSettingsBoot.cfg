SPECIFICATION LiveSpec
CONSTANTS
    Order <- PortSizeLogin
    Boot = {"login"}
    Values = {554, 555}
    Default = 554
    NoValue = NoValue
    ChangeCapacity = 4
    PortMayFail = FALSE
    ChangeSpaced = FALSE
    ChangeRequests = 1
PROPERTY BootIsSent
\* Once the requests are used up and carried out, nothing is left to do.
CHECK_DEADLOCK FALSE
