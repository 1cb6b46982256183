SPECIFICATION QuerySpec
CONSTANTS
  ImageEvents <- MCImageEvents
  Scripts <- MCScripts
  Rank <- MCRank
  Likes <- MCLikes
  Literals <- MCLiterals
INVARIANT AnsweredAsMeant
CHECK_DEADLOCK FALSE
