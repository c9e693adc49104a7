SPECIFICATION FairSpec
CONSTANTS
  Catalog <- MCCatalog
  s1 = s1
  s2 = s2
  s3 = s3
  SerialNumbers = {s1, s2, s3}
  AnySerial = any
  Selections <- MCSelections
INVARIANTS
  TypeOK
  DeviceLast
  EvidenceOutlivesOwner
  PtyEvidenceKept
  OneOwnerPerDevice
  WhatAStopLeaves
PROPERTIES
  ShutdownEnds
CHECK_DEADLOCK FALSE
