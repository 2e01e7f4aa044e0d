\* The table of the source and every suffix in it, before it, between two of its
\* suffixes and after it.
SPECIFICATION Spec
CONSTANTS
  Size = 193
  aMime <- Table
  Suffixes <- AllSuffixes
INVARIANTS PlacedAreFound PastEndOnlyAfterLast
