\* Every call sequence of the fence's API over three tickets.
SPECIFICATION FairSpec
CONSTANT MaxGeneration = 3
PROPERTIES OperatorNotOvertaken StaleNeverStarts OrderedWriting EveryTicketReleased
