SPECIFICATION Spec
CONSTANTS
    Keys = {k1, k2}
    SequenceMask = 1
    GenerationMask = 3
    MaxReloads = 2
    MaxFaults = 1
PROPERTIES TokensAreFresh StagingResumes
