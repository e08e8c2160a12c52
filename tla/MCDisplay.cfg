SPECIFICATION Spec
CONSTANT Sticks <- AtRest
INVARIANTS TypeOK NoFlicker OrderlyPicture
PROPERTY Shown
