SPECIFICATION Spec
CONSTANTS
  k1 = k1
  k2 = k2
  l1 = l1
  l2 = l2
  l3 = l3
  Key <- MCKey
  Loop <- MCLoop
  MaxEdits = 3
INVARIANTS
  TypeOK
  OnePushPerKey
  NoStrandedEdit
PROPERTIES
  EveryEditPushed
  ImplementsSerialPush
CHECK_DEADLOCK FALSE
