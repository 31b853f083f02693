SPECIFICATION Spec
CONSTANTS
  Off = Off
  None = None
  PreviewBufs = {b1, b2}
  PreviewWins = {w1, w2}
  RootBufs = {b1, b2}
  day = day
  night = night
  own = own
  inner = inner
  outer = outer
  sub = sub
  outermost = outermost
  git = git
  cargo = cargo
  x = x
  y = y
  Files = {b1, b2}
  OilBufs = {o1}
  PolicyBufs = {b1, b2}
CHECK_DEADLOCK FALSE
INVARIANTS
  PreviewsAreAccounted
  
  AnswersAreRoots
  AutocmdsKeepTheirWord
  CleanupIsPaced
  ObservationsAreTrue
  SmearsComeToRest
  SetupKeepsItsWord
  LruKeepsTheRecent
  
  ScenesShowTheFrame
  FieldIsOfTheTrail
  SmearsGoToTheCursor
  ParticlesKeepOffTheText
