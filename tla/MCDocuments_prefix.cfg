SPECIFICATION Spec
CONSTANTS
  Datagrams <- MCDatagrams
  Descriptions <- PrefixedDescriptions
  Replies <- MCReplies
  Nothing = Nothing
  UrlMax = 7
  ValueMax = 3
INVARIANT ServicesExact
