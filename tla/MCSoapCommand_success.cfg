SPECIFICATION Spec
CONSTANTS
  Calls <- AddOnly
  MaxAddrs = 2
INVARIANT SuccessMeansObeyed
