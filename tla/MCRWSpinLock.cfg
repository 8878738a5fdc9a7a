SPECIFICATION LiveSpec
CONSTANT Threads = {t1, t2, t3}
INVARIANTS TypeOK MutualExclusion ReadersCounted
PROPERTIES AnnouncedWriterEnters SomebodyEnters
