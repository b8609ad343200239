SPECIFICATION LiveSpec
CONSTANTS
    Threshold = 30
    Short = 3
    MaxPeriod = 240
    Gops = 16
    Periods = {40}
    Spaced = FALSE
    MaxRequests = 2
PROPERTY PeriodComesBack
