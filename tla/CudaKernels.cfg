SPECIFICATION KernelsSpec
CONSTANT Jobs <- AllJobs
INVARIANTS ReductionWhole RoutesMixed BestChosen KeysWeighed
