SPECIFICATION SuiteSpec
CONSTANTS
  Parts = {"stream", "server", "answer", "url", "string"}
  Dialogues <- AllDialogues
  MaxHeaderSize = 4000
  NoLength = 1000
  FieldWidth = 65536
  React <- Reaction
  MayPause = TRUE
  Talks <- ServerTalks
  None = None
  Statuses = {101, 200, 204, 404, 599}
  Names = {"X", "Content-Length"}
  Texts = {"", "hi"}
  Versions = {"HTTP/1.0", "HTTP/1.1"}
  MaxOps = 2
  UrlLen = 4
  Letters = {"a", "A", "_", " "}
  WordLen = 3
INVARIANTS
  MessagesHeard
  AnswersHeard
  TextTaken
CHECK_DEADLOCK FALSE
