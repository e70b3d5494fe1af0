SPECIFICATION Spec
CONSTANT Projects <- MCProjects
INVARIANTS PhasesInv ReachableIsCalled LinkedRight
PROPERTIES GroupsInOrder
