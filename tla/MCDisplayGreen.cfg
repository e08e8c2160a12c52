SPECIFICATION Spec
CONSTANT Sticks <- Quadrants
PROPERTY GreenFollowsStick
