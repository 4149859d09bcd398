SPECIFICATION Spec
CONSTANTS
  a = a
  b = b
  Plans = {1, 2, 3}
  Artifacts = {a, b}
  Content <- MCContent
  Events = {"change"}
  MaxEvents = 2
PROPERTY
  EventuallyServed
