\* A property changes between the construction of the server and start().
SPECIFICATION Spec
INVARIANT NoticesReachALoop
