\* stop() while the service is being started.
SPECIFICATION FairSpec
PROPERTY StopReturns
