\* Two types, two contents and two versions of one name; three registrations.
CONSTANTS
    onnx = onnx
    report = report
    c1 = c1
    c2 = c2
    ArtifactType = {onnx, report}
    Content = {c1, c2}
    Name = {model}
    StageName = {export}
    MaxVersion = 2
    MaxTime = 3
SPECIFICATION Spec
SYMMETRY MCSymmetry
INVARIANTS OnePathOneRecord ProvenanceClosed UntamperedIntact
PROPERTY NeverOverwrites
CHECK_DEADLOCK FALSE
