SPECIFICATION Spec
CONSTANT NodeGroups = {n1, n2}
INVARIANT OutdatedCounted
