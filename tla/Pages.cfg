CONSTANTS
  Users = {a, b}
  None = None
  MaxVisits = 3
  MaxVideos = 2
  Postings <- TwoPostings
  Notes <- SomeNotes
SPECIFICATION FairSpec
INVARIANT MenuUnlessChat
PROPERTY PageFilled
