SPECIFICATION Spec
CONSTANTS
  Datagrams <- MCDatagrams
  Descriptions <- MCDescriptions
  Replies <- MCReplies
  Nothing = Nothing
  UrlMax = 7
  ValueMax = 3
INVARIANTS
  TypeOK
  CallsInOrder
  ServicesExact
  CommandReaches
  LocationReached
  ReplyExact
  ListingWhole
