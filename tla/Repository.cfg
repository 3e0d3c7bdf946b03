\* Every repository under every kind of engine, three failures of the server.
SPECIFICATION FairSpec
CONSTANT MaxFaults = 3
INVARIANTS TypeOK SecondTryReconnects
PROPERTY AnswersAgain
