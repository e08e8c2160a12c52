SPECIFICATION Spec
CONSTANT Sticks <- Quadrants
INVARIANT WholePicture
