CONSTANT NameDumps <- Pairs
SPECIFICATION NameSpec
INVARIANTS LiveOrListed CallsMeanOneThing TotalsRestartWhereNamed LinksArrive
CHECK_DEADLOCK FALSE
