CONSTANT Sizes <- MCSizes
SPECIFICATION Spec
INVARIANT AsAnnounced
