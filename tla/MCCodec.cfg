SPECIFICATION Spec
CONSTANTS
    Formats = {"json", "bson", "amf3"}
    Documents <- MCDocuments
    Operations <- MCOperations
    Owner <- MCOwner
    DocumentId <- MCDocumentId
    MaxTrips = 3
INVARIANTS DocumentsSurvive RewriteSettles OperationsSurvive
