\* A flush while gstdsp_start runs.
CONSTANT Confs <- SoughtConfs
CHECK_DEADLOCK FALSE
SPECIFICATION Spec
INVARIANT ChainHasBuffer
