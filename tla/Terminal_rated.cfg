\* A dialog that is open while a turn ends.
SPECIFICATION AppSpec
CONSTANTS
  AppIds <- TwoIds
  Brought = "f"
  Screens <- Ratings
  Workspaces <- Here
  MaxMessages = 2
  MaxAsks = 1
INVARIANT RatedIsSeen
