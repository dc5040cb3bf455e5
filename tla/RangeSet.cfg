SPECIFICATION Spec
CONSTANT N = 7
INVARIANTS LookupExact MissingExact
PROPERTY ImplementsPointSet
