\* Every short text over a small alphabet of each part of the scanner.
SPECIFICATION Spec
CONSTANTS
  Texts <- MCTexts
  Keywords <- MCKeywords
  Attribute <- MCAttribute
  Pragma <- MCPragma
  Once <- MCOnce
INVARIANTS TypeOK Tiling TokensWhole LosesLittle
PROPERTY Terminates
