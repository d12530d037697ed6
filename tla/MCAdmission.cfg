SPECIFICATION AdmissionSpec
CONSTANTS
    CoreName <- MCCoreName
    AddressName <- MCAddressName
    Serves <- MCServes
    VIA <- MCVIA
    DataPath <- MCDataPath
    PlainPath <- MCPlainPath
    Shipped <- MCShipped
    Value <- MCValue
    NewService <- MCNewService
    Profile <- MCProfile
    Form <- MCForm
    Wiring <- MCWiring
    Removal <- MCRemoval
    MaxEdits = 2
CHECK_DEADLOCK FALSE
INVARIANTS
    AcceptsWhatHolds
PROPERTY
    LeavesWithRecord
