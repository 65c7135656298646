SPECIFICATION Spec
CONSTANTS
  Rows <- MCRows
  num_anchors = 3
  NumClasses = 2
  conf_thresh = 60
  iou_thresh = 45
  scale_x = 2
  scale_y = 1
INVARIANT TypeOK
INVARIANT KeptApart
INVARIANT NothingLost
INVARIANT NothingMadeUp
