SPECIFICATION FairSpec
CONSTANTS
    MaxFaults = 3
PROPERTIES OutageIsReported
