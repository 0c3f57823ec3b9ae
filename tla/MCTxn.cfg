SPECIFICATION Spec
SYMMETRY Symmetry
CONSTANTS
  Nil = Nil  Ok = Ok  Queued = Queued  Err = Err
  Fds = {f1, f2}
  MaxBatch = 3
  MaxSent = 4
INVARIANT TypeOK
INVARIANT QueueAgrees
INVARIANT Answered
INVARIANT Accounted
