SPECIFICATION Spec
CONSTANTS
    Backends = {"v2"}
    MaxFurther = 0
INVARIANT V2Diffuses
\* The digest is the end.
CHECK_DEADLOCK FALSE
