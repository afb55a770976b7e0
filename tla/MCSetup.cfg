SPECIFICATION Spec
CONSTANTS
  ConfigKeys <- MCConfigKeys
  CompileDefault <- MCCompileDefault
  Environments <- MCEnvironments
  Disks <- MCDisks
  Modules <- MCModules
  Programs <- MCPrograms
  Null = Null
INVARIANTS TypeOK NamedFileGoverns AbortsForCause OneInstance
