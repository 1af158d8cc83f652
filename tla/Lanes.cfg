SPECIFICATION Spec
CONSTANTS
    Backends = {"v1", "v2", "v3", "v6", "v15"}
    MaxFurther = 2
INVARIANTS TypeOK FullDiffusion LengthTells OwnLanesOnly
\* The digest is the end.
CHECK_DEADLOCK FALSE
