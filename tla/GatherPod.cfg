SPECIFICATION FairSpec
CHECK_DEADLOCK FALSE
CONSTANTS
    Polls = 3
    MaxHidden = 2
    BackoffLimit = 2
INVARIANTS
    TypeOK
    UploadAfterGather
    
    CompletedMeansDelivered
    CleanedSurvives
    TemplateFits
PROPERTIES
    CustomFailuresPropagate
    JobConcludes
    ImplementsDelivery
