CONSTANT MaxGiven = 2
SPECIFICATION Spec
INVARIANT RoundTrip
INVARIANT AllVisible
