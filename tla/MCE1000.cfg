SPECIFICATION FairSpec
CONSTANTS
  Mac = "mac"
  Broadcast = "all"
  OurIp = "ip"
  NULL = NULL
  Frames <- MCFrames
  E1000_NUM_RX_DESC = 4
  E1000_NUM_TX_DESC = 2
  MaxFrames = 5
INVARIANTS RingInOrder
PROPERTIES AnswersItsSender FramesHandled
CHECK_DEADLOCK FALSE
