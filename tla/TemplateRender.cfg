SPECIFICATION LoopSpec
CONSTANTS
  MaxWalk = 2
  Trees <- MCTrees
  Configs <- MCConfigs
  TemplateDirs <- MCTemplateDirs
INVARIANTS PrecedenceByName AllOrNothing RolesShareTemplates
CHECK_DEADLOCK FALSE
