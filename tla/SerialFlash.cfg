SPECIFICATION FlashFairSpec
CONSTANTS
  a1 = a1
  a2 = a2
  b1 = b1
  Pages = {a1, a2, b1}
  Sector <- MCSector
  Data = {"x", "y"}
INVARIANTS
  EnabledUnlessBusy
  EffectInPlace
PROPERTIES
  CallReturns
