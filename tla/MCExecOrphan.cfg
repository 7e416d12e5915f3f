SPECIFICATION FairSpec
CONSTANTS
  c1 = c1
  c2 = c2
  Copiers = {c1, c2}
  Feeds <- PluginFeeds
  MaxChunks = 1
  Plugins = {"kubernetes"}
  Started = TRUE
PROPERTY CancelStops
