CONSTANT Commands <- ExitCommands
SPECIFICATION Spec
INVARIANT FindsExit
CHECK_DEADLOCK FALSE
