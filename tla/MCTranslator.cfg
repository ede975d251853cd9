\* Programs of up to three instructions, whole or cut short.
SPECIFICATION TransSpec
CONSTANT Menu <- MCMenu
INVARIANTS
  TransTypeOK
  DecodesWhatIsWritten
  TextKeepsMeaning
  BytesFollowText
\* A translation ends with an error or with the last byte read.
CHECK_DEADLOCK FALSE
