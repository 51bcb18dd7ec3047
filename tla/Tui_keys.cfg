CONSTANTS
  Keys <- KeysDef
  Slash = "/"
  Commands <- CommandsDef
  Spelling <- SpellingDef
  AllFlag <- AllFlagDef
  Layers <- LayersDef
  Models <- ModelsDef
  NoPicker = NoPicker
  Capacity = 2
  MaxDraft = 4
  MaxMessages = 3
  Providers <- ProvidersDef
  CustomItem <- CustomItemDef
  Chars <- CharsDef
  Width <- WidthDef
  CustomPrefix = "custom:"
  NoResult = NoResult
  MaxQuery = 1
  MaxText <- MaxTextDef
SPECIFICATION TuiSpec
INVARIANTS CachesFresh PlanModeGates ResultIsConfirmed CursorOnBoundary TerminalRestored
CHECK_DEADLOCK FALSE
