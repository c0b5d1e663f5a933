SPECIFICATION Spec
CONSTANTS
  Scripts <- ViewerScripts
  Body <- XmlBody
INVARIANTS HandledWhenComplete BodyIntact
PROPERTY HandledAtEachEnd
