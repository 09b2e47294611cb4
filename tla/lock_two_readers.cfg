SPECIFICATION Spec
CONSTANTS
  Threads = {t1, t2, t3}
  Writers = {t1}
  Readers = {t2, t3}
  Timeouts = FALSE
INVARIANTS WriterAlone
