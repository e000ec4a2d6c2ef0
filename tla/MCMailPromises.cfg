SPECIFICATION Spec
CONSTANTS
  Worlds <- MCUnlucky
  Selectors <- MCSelectors
  Zones <- MCZones
  MxCap = 2
  SpfLimit = 1
  Nil = Nil
INVARIANT MailPromisesKept
