SPECIFICATION Spec
CONSTANTS
  Course = {1, 2, 3, 4}
  SubjectName = {"math", "eng", "estr"}
  Subject <- MCSubject
  Fallback = {"estr"}
  Key = {"A", "S", "G", "B", "T", "P", "Q"}
  Person = {"P", "Q"}
  Tier <- MCTier
  Rule = {"a", "s1", "s2", "g", "b", "t", "p", "q"}
  KeyOf <- MCKeyOf
  Requires <- MCRequires
  Asks <- MCAsks
  Catalog <- MCCatalog
  Recipe <- MCRecipe
  Text = {"t"}
  Bound <- MCBound
  Review = {1, 2}
  Call = {p, q}
  NoTitle = NoTitle
  NoRule = NoRule
  NoText = NoText
  NoReview = NoReview
SYMMETRY CallSymmetry
INVARIANTS TypeOK TitlesAreEarned NothingOrphaned DeletionNeverBlocked
PROPERTIES ConfirmedDeletion TitlesLostOnlyWhenNecessary PrimaryFollowsTitles
  LoneSubmissionKeepsItsText RegularRatingsFirst
CHECK_DEADLOCK FALSE
