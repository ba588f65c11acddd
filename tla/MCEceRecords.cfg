\* A message is encrypted and decrypted once; then there is nothing to do.
SPECIFICATION Spec
CHECK_DEADLOCK FALSE
CONSTANTS
  ECE_TAG_LENGTH = 3
  ECE_AESGCM_PAD_SIZE = 1
  UINT16_MAX = 2
  UINT32_MAX = 9
  RS_LENGTH = 4
  RecordSizes = {1, 2, 3, 4, 5, 7}
  MaxText = 7
  MaxPadding = 4
INVARIANTS
  TypeOK
  EncryptionFits
  OnlyWholeMessages
  IntactIsDecrypted
  FitsIfTagged
