SPECIFICATION FairSpec
CONSTANTS
  c1 = c1
  c2 = c2
  Copiers = {c1, c2}
  Feeds <- PluginFeeds
  MaxChunks = 2
  Plugins = {"ssh", "docker", "kubernetes", "kubernetesTTY"}
  Started = TRUE
INVARIANTS NoSendOnClosed CodeMeansComplete
PROPERTIES CancelUnblocks CancelCleansUp ExitUnblocks
