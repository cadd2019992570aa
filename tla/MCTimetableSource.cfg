SPECIFICATION Spec
CONSTANTS
  Places = {london, oslo, cairo}
  GeocoderKnows = {london}
  ServiceKnows = {london, oslo}
INVARIANTS
  TypeOK
  RightPlace
PROPERTIES
  NeverBackToIp
  LatePageKeeps
