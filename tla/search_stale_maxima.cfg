SPECIFICATION RaiseSpec
CHECK_DEADLOCK FALSE
INVARIANT AStarIsOptimal
