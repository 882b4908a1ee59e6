CONSTANT W = 8
SPECIFICATION LruSpec
INVARIANTS StrictOrder VictimIsOldest
PROPERTY ImplementsList
