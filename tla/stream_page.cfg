\* Two requests, one after the other or at once, with everything a user, a
\* provider and a connection can do in between.
SPECIFICATION FairSpec
CONSTANTS
  r1 = r1
  r2 = r2
  Requests = {r1, r2}
  Provider <- TwoProviders
  MaxTexts <- FewTexts
  HistLimit = 1
  SaveLimit = 2
INVARIANTS TypeOK HistoryAsSent NoPieceTwice ButtonComesBack
PROPERTIES EveryStreamEnds
