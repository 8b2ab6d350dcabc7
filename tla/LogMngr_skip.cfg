\* close_all() reads the counters while the main thread joins a writer.
SPECIFICATION Spec
CONSTANTS
  MaxLines = 2
  MAX_LOG_BUFFER_SIZE = 1
  max_writer_threads = 1
  MaxMaps = 1
INVARIANTS
  NothingSkipped
