\* The answer to a STOP that was not waited for long enough.
CONSTANT Confs <- RestartedConfs
CHECK_DEADLOCK FALSE
SPECIFICATION Spec
INVARIANT StopIsAnswered
