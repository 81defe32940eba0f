SPECIFICATION Spec
CONSTANTS
  Catalogs <- MCCatalogs
  Plugins <- MCPlugins
  Disabled <- MCDisabled
  NoTags = NoTags
  None = None
INVARIANTS TypeOK HooksInOrder LogicalKeysHold OwnCommentsDecide FoundByName
