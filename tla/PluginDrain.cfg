SPECIFICATION Spec
CONSTANTS
    SelfPosts = {"atOnce"}
    MaxChanges = 1
INVARIANTS
    TasksHaveController
CHECK_DEADLOCK FALSE
