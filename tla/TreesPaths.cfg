SPECIFICATION Spec
CONSTANTS
  None = None
  Names <- MCNames
  Trees <- MCTrees
  Asked <- MCAsked
  Readmes <- MCReadmes
INVARIANTS WalkInv FramedOnce ReadmeShown
