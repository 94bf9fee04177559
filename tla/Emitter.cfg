CONSTANTS
  alpha = alpha
  apple = apple
  Event = {alpha, apple}
  MaxListeners = 4
  MaxEmits = 4
  OnceReemits = FALSE
  OffInCallback = FALSE
SPECIFICATION Spec
SYMMETRY Symmetry
INVARIANTS OnceCalledOnce IteratorValid EmitReachesAll
