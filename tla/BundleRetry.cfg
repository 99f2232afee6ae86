SPECIFICATION Spec
CONSTANTS
    Callers = {"executor"}
    Manifest <- FilesChange
    Contents = {1, 2}
    MaxVersion = 2
    MaxFaults = 1
PROPERTY RecordedAsApplied
