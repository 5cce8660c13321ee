SPECIFICATION Spec
CONSTANT Samples <- MCSamples
CHECK_DEADLOCK FALSE
INVARIANTS TypeOK NothingLost Precedence AcceptsLanguage StringsFreed
