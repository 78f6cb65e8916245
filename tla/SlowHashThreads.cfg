SPECIFICATION Spec
CONSTANTS
    Threads = {t1, t2}
    Lengths = {0, 42, 43}
    Majors = {6, 7, 128}
    Fails = {"mmap", "malloc", "ctx", "key"}
    MaxHashes = 2
INVARIANTS SameAnswer MemoryBelongsToThreads PassesUseBothKeys ReadsInput
CHECK_DEADLOCK FALSE
