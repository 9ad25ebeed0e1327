SPECIFICATION MCSpec
CONSTANTS
  Paths <- MCPaths
  Chunk <- MCChunk
  Symbols <- MCSymbols
  Imports <- MCImports
  Directory <- MCDirectory
  TestPaths = {"tests/main"}
  Python = {"app/main", "app/util", "lib/core", "tests/main"}
  Script = {"ui.js", "eslint.config.js"}
  EslintConfigs = {"eslint.config.js"}
  TsConfig = "tsconfig.json"
  Requests <- MCRequests
  Archives <- MCArchives
  MaxProblems = 2
  MaxLikeness = 2
  Texts <- MCTexts
  MinStandalone = 3
INVARIANTS BoundsHold StrongestKept OkIsWhole ChunksCover
CHECK_DEADLOCK FALSE
