SPECIFICATION RuntimesSpec
CONSTANTS
  Threads = {t1, t2, t3}
  Clouds = {"aliyun", "aws"}
  MaxRuntimes = 5
  MaxFailures = 3
INVARIANTS
    WasteIsCaused
PROPERTIES
    SweptInTheEnd
CHECK_DEADLOCK FALSE
