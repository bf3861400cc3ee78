SPECIFICATION KernelsSpec
CONSTANT Jobs <- TwoReductions
INVARIANT RowsNormalised
