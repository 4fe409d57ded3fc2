CONSTANTS
  Programs = {p, q}
  Kernel = Kernel
  MAX_WINDOWS = 3
  MaxButtons = 3
  MaxEvents = 3
SPECIFICATION Spec
SYMMETRY Symmetry
INVARIANTS EventsInOrder EventsNameButtons OneDragged
PROPERTIES OnlyPointerPresses
