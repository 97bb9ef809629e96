SPECIFICATION Spec
CONSTANTS
  Apps <- Upscaling
  CropBuffers = 3
  Hold = 2
  BatchNum = 2
INVARIANT OwnImage
CHECK_DEADLOCK FALSE
