SPECIFICATION FairSpec
CONSTANT Threads = {t1, t2, t3}
INVARIANTS Exclusion WordsCount BoundedOvertaking
PROPERTY WriterProgress
