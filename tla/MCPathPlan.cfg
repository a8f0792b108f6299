SPECIFICATION Spec
CONSTANTS
  readme = readme
  guide = guide
  Guide = Guide
  pic = pic
  docs = docs
  doc = doc
  log = log
  NoComponent = NoComponent
  Components = {doc, log}
  Names = {readme, guide, Guide, pic, docs}
  Markdown = {readme, guide, Guide}
  Prose = {readme, guide, Guide}
  Lower <- MCLower
  Order <- MCOrder
  Preferred <- MCPreferred
  Configs <- MCConfigs
  Trees <- MCTrees
  EditedTrees <- MCEditedTrees
  Objects <- MCObjects
  MaxEdits = 1
  MaxDepth = 3
  MaxLinks = 8
INVARIANTS
  TypeOK
  OneOwner
  BundleClosed
  PlanIsNearest
  FailuresAreReal
  BuiltVerifies
PROPERTY Terminates
CHECK_DEADLOCK FALSE
