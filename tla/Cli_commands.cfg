CONSTANTS
  Terminals = {t1, t2}
  Cwd <- CwdDef
  Tty = {t1}
  Ids = {"openai", "custom:x", "Open AI"}
  Labels = {"work", "home"}
  Malformed = {"Open AI"}
  WithModels = {"openai"}
  SessionIds <- SessionIdsDef
  Typed <- TypedDef
  Small <- SmallDef
  AddArgs <- AddArgsDef
  None = None
  NoEndpoint = NoEndpoint
  Unset = Unset
  Unreadable = Unreadable
  MaxCommands = 4
SPECIFICATION Spec
VIEW WithoutReport
INVARIANT AccountsSound
PROPERTY ReportIsTrue
CHECK_DEADLOCK FALSE
