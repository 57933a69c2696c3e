SPECIFICATION TextsSpec
CONSTANTS
  Missing = Missing
  RegNumbers <- MCRegNumbers
  LastRow = 22
  MaxWords = 5
  MaxLost = 8
  Leading = 3
  Numbers = {"28", "31g"}
  Names <- MCNames
INVARIANTS
  WritingDoesNotMatter
  AddressIsRead
  NumbersAreRead
  RowsAreReadWhole
CHECK_DEADLOCK FALSE
