\* The file manager in windows of two rows, with two nested ones at most; or
\* either contact book, four first files, three contacts added, three starts.
SPECIFICATION EitherSpec
CONSTANTS
  Listing <- Tree
  Home = "home"
  NotADir = "none"
  PageRows = 2
  MaxDepth = 2
  Names = {1, 2, 3}
  Surenames = {1, 2}
  Missing = Missing
  FirstFiles <- Some
  MaxSize = 5
  MaxAdds = 3
  MaxStarts = 3
INVARIANTS
  CursorTracksEntry
  OpensWhatItShows
  TopPathsAreDirectories
  DeletionIsExact
PROPERTIES
  AdditionSorts
  ReloadsWhatWasSaved
  StartsAgain
CHECK_DEADLOCK FALSE
