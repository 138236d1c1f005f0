\* gstdsp_reinit while the application stops the element.
CONSTANT Confs <- RenegotiatedConfs
CHECK_DEADLOCK FALSE
SPECIFICATION Spec
INVARIANT LoopReleasedByStop
