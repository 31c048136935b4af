SPECIFICATION Spec
CONSTANTS
  Radix = 8
  FRAME_HEADER = 3
  FRAME_END = 4
  FRAME_DATA_MAX_LEN = 3
  PROTOCOL_NUM = 2
  FW_FRAME_HEADER_1 = 7
  FW_FRAME_HEADER_2 = 5
  FwTable <- MCFwTable
  ChannelPairs <- MCChannelPairs
  COMM_CHN_NUM = 2
  Contents <- MCContents
  Requests <- MCRequests
  MaxFrames = 3
  MaxErrs = 2
INVARIANTS FrameTypeOK OneFaultOneFrame OverrunNeedsBadLength
PROPERTY RequestAnswered
CHECK_DEADLOCK FALSE
