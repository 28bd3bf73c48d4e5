CONSTANT NumBlocks = 4
SPECIFICATION Spec
INVARIANT Linked
PROPERTY QueueRefined
