SPECIFICATION FairSpec
CONSTANTS
  IDs = {1, 2, 3, 4}
  Zero = Zero
  MaxHash = 2
  Capacity = 4
PROPERTIES IsASet CallsReturn
