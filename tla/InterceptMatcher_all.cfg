SPECIFICATION MatchSpec
CONSTANTS
  Characters <- MCCharacters
  RuleSets <- MCRuleSets
  Domains <- MCDomains
  Paths <- MCPaths
INVARIANTS VerdictIsFirstMatch
