CONSTANTS
  None = None
  Zero = Zero
  Values = {v1, v2}
  Requested = 4
SPECIFICATION Spec
INVARIANT TypeOK
PROPERTY RefinesDeque
