SPECIFICATION Spec
CONSTANTS
    NoConv = NoConv
    Blank = Blank
    Conversations = {c1, c2}
    Shapes <- MCShapes
    MaxMessages = 5
INVARIANTS AgyMissesOnlyRewrites PromptMatchesRun OnlyTheNewTurn
CHECK_DEADLOCK FALSE
SYMMETRY Symmetric
CONSTRAINT FewRewrites
