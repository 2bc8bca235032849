SPECIFICATION Spec
CONSTANT Threads = 1
INVARIANTS StartsItsSampler JoinsPromptly
CHECK_DEADLOCK FALSE
