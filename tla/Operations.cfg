SPECIFICATION OpSpec
CONSTANT Ops <- Operation
INVARIANT OpInv
PROPERTY VerdictsSurviveLatePushes
