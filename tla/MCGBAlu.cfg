CONSTANT Operands <- MCOperands
SPECIFICATION Spec
INVARIANT TypeOK
INVARIANT ArithmeticMatchesReference
INVARIANT DaaAdjustsBcd
INVARIANT CbBitOpsExact
